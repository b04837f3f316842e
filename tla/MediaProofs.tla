----------------------------- MODULE MediaProofs -----------------------------
(***************************************************************************)
(* Theorems about MediaLibrary, for every set of items, assets, files and  *)
(* workers and every limit.                                                *)
(***************************************************************************)
EXTENDS MediaLibrary, FiniteSetTheorems, TLAPS

(* Columns of the tables that have assets for keys. *)
Tables(S) == UNION {[D -> S] : D \in SUBSET Assets}

Contents == Files \union {"generated"}

RequestShape ==
    [op : Ops \union {"none"}, phase : Phases \union {"none"},
     item : Items \union {NoItem}, asset : Assets \union {NoAsset},
     new : Tables(Contents), todo : SUBSET Items, images : Seq(Assets),
     sees : [Items -> SUBSET Assets], write : [Items -> Tables(Nat)]]

PublicationShape ==
    [status : {"none", "pending", "succeeded"},
     media : Seq(Assets \union {NoAsset}), sent : Seq(Assets)]

Shapes ==
    /\ file \in [Assets -> Contents \union {"unused", "gone"}]
    /\ grouped \subseteq Assets
    /\ rows \in [Items -> Tables(Nat)]
    /\ publication \in [Items -> PublicationShape]
    /\ published \subseteq Items
    /\ request \in [Workers -> RequestShape]

(* What is in the group has a row, or had one. *)
GroupedAreUsed == \A a \in grouped : file[a] # "unused"

(* An asset that request r may attach to item i: one that it adds itself,    *)
(* for an item of the same kind as the one it names, or one that is or was   *)
(* in the table and is of the group just if the item is.                     *)
Suits(r, i, a) ==
    IF a \in DOMAIN r.new THEN i \in Grouped <=> r.item \in Grouped
    ELSE file[a] # "unused" /\ (i \in Grouped <=> a \in grouped)

(* Which operation is in which phase, and about what. *)
PhaseOK(r) ==
    /\ r.phase = "none" => r.op = "none"
    /\ r.phase = "file" => r.op = "upload"
    /\ r.phase = "attach" => r.op \in {"upload", "generate"}
    /\ r.phase = "siblings" => r.op = "select" /\ r.item \in Grouped
    /\ r.phase = "commit" => r.op \in {"generate", "select"}
    /\ r.phase = "renumber" => r.op = "delete"
    /\ r.phase \in {"claim", "calling"} => r.op = "publish"
    /\ r.op \in {"upload", "generate", "select", "publish"} => r.item \in Items
    /\ r.op \notin {"upload", "generate"} => DOMAIN r.new = {}

(* What a request has read and will write is right about the database. *)
RequestOK(r) ==
    /\ PhaseOK(r)
    /\ \A a \in DOMAIN r.new : file[a] = "unused"
    /\ \A i \in Items : \A a \in DOMAIN r.write[i] : Suits(r, i, a)
    /\ r.phase = "attach" => r.asset \in Assets /\ Suits(r, r.item, r.asset)
    /\ r.op = "select" /\ r.item \in Grouped => Range(r.images) \subseteq grouped
    /\ r.op = "select" /\ r.todo # {} => r.item \in Grouped /\ r.todo \subseteq Grouped
    /\ r.op = "delete" => /\ r.asset \in Assets /\ file[r.asset] # "unused"
                          /\ \A i \in Items : r.asset \notin DOMAIN r.write[i]
    /\ \A i \in Items : r.sees[i] \subseteq DOMAIN rows[i]
    /\ r.phase = "calling" => publication[r.item].status = "pending"

(* No asset is added by two requests, and no item is being sent by two. *)
Apart ==
    \A v, w \in Workers : v # w =>
        /\ DOMAIN request[v].new \cap DOMAIN request[w].new = {}
        /\ ~(request[v].phase = "calling" /\ request[w].phase = "calling"
                /\ request[v].item = request[w].item)

PublishedSucceeded == \A i \in published : publication[i].status = "succeeded"

RecordsOK ==
    \A i \in Items :
        /\ DOMAIN publication[i].media = DOMAIN publication[i].sent
        /\ \A k \in DOMAIN publication[i].sent :
              publication[i].media[k] \in {publication[i].sent[k], NoAsset}

IInv ==
    /\ Shapes
    /\ GroupedAreUsed
    /\ \A w \in Workers : RequestOK(request[w])
    /\ Apart
    /\ PublishedSucceeded
    /\ RecordsOK
    /\ SelectionIsAvailable

-----------------------------------------------------------------------------
(* Tables and lists. *)

LEMMA TableIs ==
    ASSUME NEW S, NEW f
    PROVE  f \in Tables(S) <=> /\ f = [x \in DOMAIN f |-> f[x]]
                               /\ DOMAIN f \subseteq Assets
                               /\ \A x \in DOMAIN f : f[x] \in S
  <1>1. ASSUME f \in Tables(S)
        PROVE  /\ f = [x \in DOMAIN f |-> f[x]]
               /\ DOMAIN f \subseteq Assets
               /\ \A x \in DOMAIN f : f[x] \in S
    <2>1. PICK D \in SUBSET Assets : f \in [D -> S]
      BY <1>1 DEF Tables
    <2>2. QED
      BY <2>1
  <1>2. ASSUME f = [x \in DOMAIN f |-> f[x]], DOMAIN f \subseteq Assets,
               \A x \in DOMAIN f : f[x] \in S
        PROVE  f \in Tables(S)
    <2>1. f \in [DOMAIN f -> S]
      BY <1>2
    <2>2. QED
      BY <1>2, <2>1 DEF Tables
  <1>3. QED
    BY <1>1, <1>2

LEMMA EmptyTable == ASSUME NEW S PROVE Empty \in Tables(S) /\ DOMAIN Empty = {}
  <1>1. DOMAIN Empty = {} /\ Empty = [x \in DOMAIN Empty |-> Empty[x]]
    BY DEF Empty
  <1>2. QED
    BY <1>1, TableIs

LEMMA OverTable ==
    ASSUME NEW S, NEW f \in Tables(S), NEW g \in Tables(S)
    PROVE  /\ Over(f, g) \in Tables(S)
           /\ DOMAIN Over(f, g) = DOMAIN f \union DOMAIN g
           /\ \A x \in DOMAIN g : Over(f, g)[x] = g[x]
           /\ \A x \in DOMAIN f \ DOMAIN g : Over(f, g)[x] = f[x]
  <1>1. /\ DOMAIN Over(f, g) = DOMAIN f \union DOMAIN g
        /\ \A x \in DOMAIN g : Over(f, g)[x] = g[x]
        /\ \A x \in DOMAIN f \ DOMAIN g : Over(f, g)[x] = f[x]
        /\ Over(f, g) = [x \in DOMAIN Over(f, g) |-> Over(f, g)[x]]
    BY DEF Over
  <1>2. /\ DOMAIN f \subseteq Assets /\ \A x \in DOMAIN f : f[x] \in S
        /\ DOMAIN g \subseteq Assets /\ \A x \in DOMAIN g : g[x] \in S
    BY TableIs
  <1>3. \A x \in DOMAIN Over(f, g) : Over(f, g)[x] \in S
    BY <1>1, <1>2
  <1>4. QED
    BY <1>1, <1>2, <1>3, TableIs

LEMMA RestrictTable ==
    ASSUME NEW S, NEW f \in Tables(S), NEW D, D \subseteq DOMAIN f
    PROVE  Restrict(f, D) \in Tables(S) /\ DOMAIN Restrict(f, D) = D
  <1>1. /\ DOMAIN Restrict(f, D) = D
        /\ \A x \in D : Restrict(f, D)[x] = f[x]
        /\ Restrict(f, D) = [x \in DOMAIN Restrict(f, D) |-> Restrict(f, D)[x]]
    BY DEF Restrict
  <1>2. DOMAIN f \subseteq Assets /\ \A x \in DOMAIN f : f[x] \in S
    BY TableIs
  <1>3. QED
    BY <1>1, <1>2, TableIs

LEMMA NewTable ==
    ASSUME NEW S, NEW a \in Assets, NEW c \in S
    PROVE  New(a, c) \in Tables(S) /\ DOMAIN New(a, c) = {a}
  <1>1. /\ DOMAIN New(a, c) = {a} /\ New(a, c)[a] = c
        /\ New(a, c) = [x \in DOMAIN New(a, c) |-> New(a, c)[x]]
    BY DEF New
  <1>2. QED
    BY <1>1, TableIs

LEMMA ListsAreSeqs ==
    ASSUME NEW S, NEW n \in Nat, NEW list \in Lists(S, n)
    PROVE  list \in Seq(S)
  <1>1. PICK k \in 0..n : list \in [1..k -> S]
    BY DEF Lists
  <1>2. k \in Nat
    OBVIOUS
  <1>3. QED
    BY <1>1, <1>2

LEMMA PositionsTable ==
    ASSUME NEW S, S \subseteq Assets, NEW list \in Seq(S)
    PROVE  Positions(list) \in Tables(Nat) /\ DOMAIN Positions(list) = Range(list)
           /\ Range(list) \subseteq S
  <1> DEFINE P(a, p) == list[p + 1] = a
  <1>1. /\ DOMAIN Positions(list) = Range(list)
        /\ Positions(list) = [x \in DOMAIN Positions(list) |-> Positions(list)[x]]
        /\ \A a \in Range(list) :
              Positions(list)[a] = CHOOSE p \in 0..(Len(list) - 1) : P(a, p)
    BY DEF Positions
  <1>2. Range(list) \subseteq S
    BY DEF Range
  <1>3. \A a \in Range(list) : \E p \in 0..(Len(list) - 1) : P(a, p)
    <2>1. TAKE a \in Range(list)
    <2>2. PICK k \in 1..Len(list) : list[k] = a
      BY DEF Range
    <2>3. k - 1 \in 0..(Len(list) - 1) /\ (k - 1) + 1 = k
      OBVIOUS
    <2>4. QED
      BY <2>2, <2>3
  <1>4. \A a \in Range(list) : Positions(list)[a] \in 0..(Len(list) - 1)
    <2>1. TAKE a \in Range(list)
    <2>2. (CHOOSE p \in 0..(Len(list) - 1) : P(a, p)) \in 0..(Len(list) - 1)
      <3> HIDE DEF P
      <3>1. QED
        BY <1>3
    <2>3. QED
      BY <1>1, <2>2
  <1>5. \A a \in Range(list) : Positions(list)[a] \in Nat
    BY <1>4
  <1>6. QED
    BY <1>1, <1>2, <1>5, TableIs

-----------------------------------------------------------------------------
(* Steps that change what one request knows and nothing else. *)

LEMMA NoRequestOK == NoRequest \in RequestShape /\ RequestOK(NoRequest)
  <1>1. Empty \in Tables(Contents) /\ Empty \in Tables(Nat) /\ DOMAIN Empty = {}
    BY EmptyTable
  <1>2. NoRequest \in RequestShape
    BY <1>1 DEF NoRequest, RequestShape
  <1>3. RequestOK(NoRequest)
    BY <1>1 DEF NoRequest, RequestOK, PhaseOK
  <1>4. QED
    BY <1>2, <1>3

LEMMA InitIInv == Init => IInv
  <1> SUFFICES ASSUME Init PROVE IInv
    OBVIOUS
  <1>1. Empty \in Tables(Nat) /\ DOMAIN Empty = {}
    BY EmptyTable
  <1>2. Shapes
    BY <1>1, NoRequestOK DEF Init, Shapes, NoPublication, PublicationShape
  <1>3. \A w \in Workers : RequestOK(request[w])
    BY NoRequestOK DEF Init
  <1>4. Apart
    BY EmptyTable DEF Init, Apart, NoRequest
  <1>5. GroupedAreUsed /\ PublishedSucceeded /\ RecordsOK
    BY DEF Init, GroupedAreUsed, PublishedSucceeded, RecordsOK, NoPublication
  <1>6. SelectionIsAvailable
    BY <1>1 DEF Init, SelectionIsAvailable
  <1>7. QED
    BY <1>2, <1>3, <1>4, <1>5, <1>6 DEF IInv

LEMMA RequestChanges ==
    ASSUME IInv, NEW w \in Workers, NEW r \in RequestShape, RequestOK(r),
           request' = [request EXCEPT ![w] = r], Keep,
           r.phase # "calling",
           DOMAIN r.new \subseteq DOMAIN request[w].new \union Fresh
    PROVE  IInv'
  <1>1. Shapes'
    BY DEF IInv, Shapes, Keep
  <1>2. request'[w] = r /\ \A v \in Workers \ {w} : request'[v] = request[v]
    BY DEF IInv, Shapes
  <1>3. (\A v \in Workers : RequestOK(request[v]))'
    <2>1. SUFFICES ASSUME NEW v \in Workers
          PROVE  RequestOK(request[v])'
      OBVIOUS
    <2>2. RequestOK(request'[v])
      BY <1>2 DEF IInv
    <2>3. QED
      BY <2>2 DEF RequestOK, PhaseOK, Suits, Keep
  <1>4. Apart'
    <2>1. SUFFICES ASSUME NEW u \in Workers, NEW v \in Workers, u # v
          PROVE  /\ DOMAIN request'[u].new \cap DOMAIN request'[v].new = {}
                 /\ ~(request'[u].phase = "calling" /\ request'[v].phase = "calling"
                        /\ request'[u].item = request'[v].item)
      BY DEF Apart
    <2>2. CASE u # w /\ v # w
      BY <1>2, <2>1, <2>2 DEF IInv, Apart
    <2>3. CASE u = w
      BY <1>2, <2>1, <2>3 DEF IInv, Apart, Fresh
    <2>4. CASE v = w
      BY <1>2, <2>1, <2>4 DEF IInv, Apart, Fresh
    <2>5. QED
      BY <2>2, <2>3, <2>4
  <1>5. GroupedAreUsed' /\ PublishedSucceeded' /\ RecordsOK' /\ SelectionIsAvailable'
    BY DEF IInv, Keep, GroupedAreUsed, PublishedSucceeded, RecordsOK,
           SelectionIsAvailable, Present
  <1>6. QED
    BY <1>1, <1>3, <1>4, <1>5 DEF IInv

LEMMA OldRequest ==
    ASSUME IInv, NEW w \in Workers
    PROVE  request[w] \in RequestShape /\ RequestOK(request[w])
  BY DEF IInv, Shapes

LEMMA AbandonKeeps ==
    ASSUME IInv, NEW w \in Workers, Abandon(w)
    PROVE  IInv'
  BY NoRequestOK, RequestChanges, EmptyTable DEF Abandon, NoRequest

LEMMA BeginGenerateKeeps ==
    ASSUME IInv, NEW w \in Workers, NEW i \in Items, NEW a \in Assets,
           BeginGenerate(w, i, a)
    PROVE  IInv'
  <1> DEFINE r == [NoRequest EXCEPT !.op = "generate", !.item = i, !.phase = "attach",
                                    !.asset = a, !.new = New(a, "generated")]
  <1>1. New(a, "generated") \in Tables(Contents) /\ DOMAIN New(a, "generated") = {a}
    BY NewTable DEF Contents
  <1>2. /\ r \in RequestShape
        /\ r.op = "generate" /\ r.item = i /\ r.phase = "attach" /\ r.asset = a
        /\ r.new = New(a, "generated") /\ r.todo = {}
        /\ \A j \in Items : r.sees[j] = {} /\ r.write[j] = Empty
    BY <1>1, NoRequestOK DEF NoRequest, RequestShape, Ops, Phases
  <1>3. a \in Fresh /\ file[a] = "unused"
    BY DEF BeginGenerate, Fresh
  <1> HIDE DEF r
  <1>4. RequestOK(r)
    BY <1>1, <1>2, <1>3, EmptyTable DEF RequestOK, PhaseOK, Suits
  <1>5. request' = [request EXCEPT ![w] = r] /\ Keep
    BY DEF BeginGenerate, Begin, Keep, r
  <1>6. QED
    BY <1>1, <1>2, <1>3, <1>4, <1>5, RequestChanges

LEMMA BeginUploadKeeps ==
    ASSUME IInv, NEW w \in Workers, NEW i \in Items, BeginUpload(w, i)
    PROVE  IInv'
  <1> DEFINE r == [NoRequest EXCEPT !.op = "upload", !.item = i, !.phase = "file"]
  <1>1. /\ r \in RequestShape
        /\ r.op = "upload" /\ r.item = i /\ r.phase = "file" /\ r.new = Empty
        /\ r.todo = {} /\ \A j \in Items : r.sees[j] = {} /\ r.write[j] = Empty
    BY NoRequestOK DEF NoRequest, RequestShape, Ops, Phases
  <1> HIDE DEF r
  <1>2. RequestOK(r)
    BY <1>1, EmptyTable DEF RequestOK, PhaseOK, Suits
  <1>3. request' = [request EXCEPT ![w] = r] /\ Keep
    BY DEF BeginUpload, Begin, Keep, r
  <1>4. QED
    BY <1>1, <1>2, <1>3, EmptyTable, RequestChanges

LEMMA BeginDeleteKeeps ==
    ASSUME IInv, NEW w \in Workers, NEW a \in Assets, BeginDelete(w, a)
    PROVE  IInv'
  <1> DEFINE r == [NoRequest EXCEPT !.op = "delete", !.asset = a, !.phase = "renumber",
                                    !.todo = {i \in Items : a \in DOMAIN rows[i]}]
  <1>1. /\ r \in RequestShape
        /\ r.op = "delete" /\ r.asset = a /\ r.phase = "renumber" /\ r.new = Empty
        /\ \A j \in Items : r.sees[j] = {} /\ r.write[j] = Empty
    BY NoRequestOK DEF NoRequest, RequestShape, Ops, Phases
  <1> HIDE DEF r
  <1>2. RequestOK(r)
    BY <1>1, EmptyTable DEF RequestOK, PhaseOK, Suits, BeginDelete, Present
  <1>3. request' = [request EXCEPT ![w] = r] /\ Keep
    BY DEF BeginDelete, Begin, Keep, r
  <1>4. QED
    BY <1>1, <1>2, <1>3, EmptyTable, RequestChanges

LEMMA OverPositions ==
    ASSUME NEW f \in Tables(Nat), NEW g \in Tables(Nat)
    PROVE  /\ Over(f, g) \in Tables(Nat)
           /\ DOMAIN Over(f, g) = DOMAIN f \union DOMAIN g
  BY OverTable

LEMMA OverContents ==
    ASSUME NEW f \in Tables(Contents), NEW g \in Tables(Contents)
    PROVE  /\ Over(f, g) \in Tables(Contents)
           /\ DOMAIN Over(f, g) = DOMAIN f \union DOMAIN g
  BY OverTable

LEMMA ViewIs ==
    ASSUME IInv, NEW w \in Workers, NEW i \in Items
    PROVE  /\ View(w, i) \in Tables(Nat) /\ DOMAIN View(w, i) \subseteq Assets
           /\ DOMAIN View(w, i) = DOMAIN rows[i] \union DOMAIN request[w].write[i]
  <1>1. rows[i] \in Tables(Nat) /\ request[w].write[i] \in Tables(Nat)
    BY OldRequest DEF IInv, Shapes, RequestShape
  <1>2. QED
    BY <1>1, OverPositions, TableIs DEF View

(* Whatever a request finds in the library suits the item it asked for. *)
LEMMA LibrarySuits ==
    ASSUME IInv, NEW w \in Workers, NEW i \in Items,
           request[w].item = i \/ request[w] = NoRequest,
           NEW a \in Library(w, i)
    PROVE  a \in Assets /\ Suits(request[w], i, a)
  <1>1. request[w] \in RequestShape /\ RequestOK(request[w])
    BY OldRequest
  <1>2. DOMAIN request[w].new \subseteq Assets
    BY <1>1, TableIs DEF RequestShape
  <1>3. request[w] = NoRequest => DOMAIN request[w].new = {}
    BY EmptyTable DEF NoRequest
  <1>4. CASE i \in Grouped
    BY <1>1, <1>2, <1>3, <1>4
    DEF Library, IInv, Shapes, GroupedAreUsed, RequestOK, Suits, Present
  <1>5. CASE i \notin Grouped
    <2>1. a \in DOMAIN rows[i] \union DOMAIN request[w].write[i] /\ a \in Assets
      BY <1>5, ViewIs DEF Library
    <2>2. CASE a \in DOMAIN request[w].write[i]
      BY <1>1, <2>1, <2>2 DEF RequestOK
    <2>3. CASE a \in DOMAIN rows[i]
      <3>1. file[a] # "unused" /\ (i \in Grouped <=> a \in grouped)
        BY <2>3 DEF IInv, SelectionIsAvailable, Present
      <3>2. a \notin DOMAIN request[w].new
        BY <1>1, <3>1 DEF RequestOK
      <3>3. QED
        BY <2>1, <3>1, <3>2 DEF Suits
    <2>4. QED
      BY <2>1, <2>2, <2>3
  <1>6. QED
    BY <1>4, <1>5

LEMMA NextFileKeeps ==
    ASSUME IInv, NEW w \in Workers, NEW f \in Files, NextFile(w, f)
    PROVE  IInv'
  <1> DEFINE old == request[w]
             r(a, new) == [old EXCEPT !.asset = a, !.phase = "attach", !.new = new]
  <1>1. old \in RequestShape /\ RequestOK(old) /\ old.op = "upload" /\ old.phase = "file"
    BY OldRequest DEF NextFile
  <1>2. old.item \in Items /\ old.new \in Tables(Contents)
    BY <1>1 DEF RequestOK, PhaseOK, RequestShape
  <1>3. \A a \in Assets : \A new \in Tables(Contents) :
           /\ r(a, new) \in RequestShape
           /\ r(a, new).asset = a /\ r(a, new).phase = "attach" /\ r(a, new).new = new
           /\ r(a, new).op = "upload" /\ r(a, new).item = old.item
           /\ r(a, new).sees = old.sees /\ r(a, new).write = old.write
           /\ r(a, new).todo = old.todo
    BY <1>1 DEF RequestShape, Phases
  <1>4. Keep
    BY DEF NextFile
  <1>5. ASSUME NEW a \in Library(w, old.item),
               request' = [request EXCEPT ![w].asset = a, ![w].phase = "attach"]
        PROVE  IInv'
    <2>1. a \in Assets /\ Suits(old, old.item, a)
      BY <1>2, LibrarySuits
    <2>2. request' = [request EXCEPT ![w] = r(a, old.new)]
      BY <1>1, <1>5 DEF IInv, Shapes, RequestShape
    <2>3. RequestOK(r(a, old.new))
      <3> HIDE DEF r
      <3>1. QED
        BY <1>1, <1>2, <1>3, <2>1 DEF RequestOK, PhaseOK, Suits
    <2>4. QED
      <3> HIDE DEF r
      <3>1. QED
        BY <1>2, <1>3, <1>4, <2>1, <2>2, <2>3, RequestChanges
  <1>6. ASSUME NEW a \in Fresh,
               request' = [request EXCEPT ![w].asset = a, ![w].phase = "attach",
                                          ![w].new = Over(@, New(a, f))]
        PROVE  IInv'
    <2> DEFINE new == Over(old.new, New(a, f))
    <2>1. a \in Assets /\ file[a] = "unused"
      BY DEF Fresh
    <2>2. New(a, f) \in Tables(Contents) /\ DOMAIN New(a, f) = {a}
      BY <2>1, NewTable DEF Contents
    <2>3. new \in Tables(Contents) /\ DOMAIN new = DOMAIN old.new \union {a}
      BY <1>2, <2>2, OverContents
    <2>4. request' = [request EXCEPT ![w] = r(a, new)]
      BY <1>1, <1>6 DEF IInv, Shapes, RequestShape
    <2> HIDE DEF new, r
    <2>5. RequestOK(r(a, new))
      BY <1>1, <1>2, <1>3, <2>1, <2>3 DEF RequestOK, PhaseOK, Suits
    <2>6. /\ r(a, new) \in RequestShape /\ r(a, new).phase # "calling"
          /\ DOMAIN r(a, new).new \subseteq DOMAIN old.new \union Fresh
      BY <1>3, <2>1, <2>3
    <2>7. QED
      BY <1>4, <2>4, <2>5, <2>6, RequestChanges
  <1>7. QED
    BY <1>5, <1>6 DEF NextFile

LEMMA AttachKeeps ==
    ASSUME IInv, NEW w \in Workers, Attach(w)
    PROVE  IInv'
  <1> DEFINE old == request[w]
             i == old.item
             view == View(w, i)
             place == New(old.asset, Cardinality(DOMAIN view))
             column == IF /\ Cardinality(DOMAIN view) < MaxImages[i]
                          /\ old.asset \notin DOMAIN view
                       THEN Over(old.write[i], place) ELSE old.write[i]
             phase == IF old.op = "upload" THEN "file" ELSE "commit"
             r == [old EXCEPT !.phase = phase, !.asset = NoAsset,
                              !.write = [old.write EXCEPT ![i] = column]]
  <1>1. old \in RequestShape /\ RequestOK(old) /\ old.phase = "attach"
    BY OldRequest DEF Attach
  <1>2. /\ old.op \in {"upload", "generate"} /\ i \in Items
        /\ old.asset \in Assets /\ Suits(old, i, old.asset)
    BY <1>1 DEF RequestOK, PhaseOK
  <1>3. old.write \in [Items -> Tables(Nat)] /\ old.write[i] \in Tables(Nat)
    BY <1>1, <1>2 DEF RequestShape
  <1>4. Cardinality(DOMAIN view) \in Nat
    BY <1>2, ViewIs, MediaAssumption, FS_Subset, FS_CardinalityType
  <1>5. place \in Tables(Nat) /\ DOMAIN place = {old.asset}
    BY <1>2, <1>4, NewTable
  <1>6. column \in Tables(Nat) /\ DOMAIN column \subseteq DOMAIN old.write[i] \union {old.asset}
    <2> HIDE DEF place
    <2>1. QED
      BY <1>3, <1>5, OverPositions
  <1>7. request' = [request EXCEPT ![w] = r] /\ Keep
    BY <1>1, <1>2 DEF Attach, New, IInv, Shapes, RequestShape
  <1> HIDE DEF column, place, view
  <1>8. /\ r \in RequestShape
        /\ r.op = old.op /\ r.item = i /\ r.phase = phase /\ r.new = old.new
        /\ r.sees = old.sees /\ r.todo = old.todo
        /\ r.write \in [Items -> Tables(Nat)]
        /\ r.write[i] = column /\ \A j \in Items \ {i} : r.write[j] = old.write[j]
    BY <1>1, <1>2, <1>3, <1>6 DEF RequestShape, Phases
  <1> HIDE DEF r
  <1>9. \A j \in Items : \A a \in DOMAIN r.write[j] : Suits(r, j, a)
    <2>1. SUFFICES ASSUME NEW j \in Items, NEW a \in DOMAIN r.write[j]
          PROVE  Suits(old, j, a)
      BY <1>8 DEF Suits
    <2>2. a \in DOMAIN old.write[j] \/ (j = i /\ a = old.asset)
      BY <1>6, <1>8
    <2>3. QED
      BY <1>1, <1>2, <2>2 DEF RequestOK
  <1>10. RequestOK(r)
    BY <1>1, <1>2, <1>8, <1>9 DEF RequestOK, PhaseOK
  <1>11. r.phase # "calling" /\ DOMAIN r.new \subseteq DOMAIN old.new
    BY <1>8
  <1>12. QED
    BY <1>7, <1>8, <1>10, <1>11, RequestChanges

LEMMA BeginSelectKeeps ==
    ASSUME IInv, NEW w \in Workers, NEW i \in Items, NEW list \in Seq(Assets),
           NEW toGroup \in BOOLEAN, BeginSelect(w, i, list, toGroup)
    PROVE  IInv'
  <1> DEFINE r == [NoRequest EXCEPT
                     !.op = "select", !.item = i,
                     !.phase = IF toGroup /\ i \in Grouped THEN "siblings" ELSE "commit",
                     !.images = IF toGroup THEN list ELSE <<>>,
                     !.sees = [NoRequest.sees EXCEPT ![i] = Found(i)],
                     !.write = [NoRequest.write EXCEPT ![i] = Positions(list)]]
  <1>1. request[w] = NoRequest
    BY DEF BeginSelect, Begin
  <1>2. \A a \in Range(list) : Suits(NoRequest, i, a)
    BY <1>1, LibrarySuits DEF BeginSelect
  <1>3. Positions(list) \in Tables(Nat) /\ DOMAIN Positions(list) = Range(list)
    BY PositionsTable
  <1>4. Found(i) = DOMAIN rows[i] /\ Found(i) \subseteq Assets
    BY TableIs DEF Found, IInv, Shapes
  <1>5. request' = [request EXCEPT ![w] = r] /\ Keep
    BY DEF BeginSelect, Begin, Keep, NoRequest
  <1>6. /\ r \in RequestShape
        /\ r.op = "select" /\ r.item = i /\ r.new = Empty /\ r.todo = {}
        /\ r.phase \in {"siblings", "commit"} /\ (r.phase = "siblings" => i \in Grouped)
        /\ r.images \in {list, <<>>}
        /\ r.write[i] = Positions(list) /\ \A j \in Items \ {i} : r.write[j] = Empty
        /\ r.sees[i] = Found(i) /\ \A j \in Items \ {i} : r.sees[j] = {}
    BY <1>3, <1>4, NoRequestOK DEF NoRequest, RequestShape, Ops, Phases
  <1> HIDE DEF r
  <1>7. DOMAIN Empty = {} /\ Range(<<>>) = {}
    BY EmptyTable DEF Range
  <1>8. \A j \in Items : \A a \in DOMAIN r.write[j] : Suits(r, j, a)
    BY <1>2, <1>3, <1>6, <1>7 DEF Suits, NoRequest
  <1>9. i \in Grouped => Range(r.images) \subseteq grouped
    BY <1>2, <1>6, <1>7 DEF Suits, NoRequest
  <1>10. RequestOK(r)
    BY <1>4, <1>6, <1>7, <1>8, <1>9 DEF RequestOK, PhaseOK
  <1>11. QED
    BY <1>5, <1>6, <1>7, <1>10, RequestChanges

LEMMA ReadSiblingsKeeps ==
    ASSUME IInv, NEW w \in Workers, ReadSiblings(w)
    PROVE  IInv'
  <1> DEFINE old == request[w]
             siblings == {j \in Grouped \ {old.item} :
                             j \notin published /\ Len(old.images) <= MaxImages[j]}
             r == [old EXCEPT !.phase = "commit", !.todo = siblings]
  <1>1. old \in RequestShape /\ RequestOK(old) /\ old.phase = "siblings"
    BY OldRequest DEF ReadSiblings
  <1>2. old.op = "select" /\ old.item \in Grouped
    BY <1>1 DEF RequestOK, PhaseOK
  <1>3. siblings \subseteq Grouped /\ siblings \subseteq Items
    BY MediaAssumption
  <1>4. request' = [request EXCEPT ![w] = r] /\ Keep
    BY <1>1 DEF ReadSiblings, IInv, Shapes, RequestShape
  <1> HIDE DEF siblings
  <1>5. /\ r \in RequestShape
        /\ r.op = old.op /\ r.item = old.item /\ r.phase = "commit" /\ r.todo = siblings
        /\ r.asset = old.asset /\ r.new = old.new /\ r.images = old.images
        /\ r.sees = old.sees /\ r.write = old.write
    BY <1>1, <1>3 DEF RequestShape, Phases
  <1> HIDE DEF r
  <1>6. RequestOK(r)
    BY <1>1, <1>2, <1>3, <1>5 DEF RequestOK, PhaseOK, Suits
  <1>7. QED
    BY <1>4, <1>5, <1>6, RequestChanges

(* A request that has renumbered or replaced the rows of one item more. *)
LEMMA WritesOneMore ==
    ASSUME IInv, NEW w \in Workers, NEW i \in Items, NEW r, NEW column \in Tables(Nat),
           NEW found, found \subseteq DOMAIN rows[i],
           request[w].op \in {"select", "delete"},
           r = [request[w] EXCEPT !.todo = @ \ {i}, !.sees = [@ EXCEPT ![i] = found],
                                  !.write = [@ EXCEPT ![i] = column]],
           \A a \in DOMAIN column : Suits(request[w], i, a),
           request[w].op = "delete" => request[w].asset \notin DOMAIN column,
           request' = [request EXCEPT ![w] = r], Keep
    PROVE  IInv'
  <1> DEFINE old == request[w]
  <1>1. old \in RequestShape /\ RequestOK(old)
    BY OldRequest
  <1>2. found \subseteq Assets
    BY TableIs DEF IInv, Shapes
  <1>3. /\ r \in RequestShape
        /\ r.op = old.op /\ r.item = old.item /\ r.phase = old.phase
        /\ r.todo = old.todo \ {i} /\ r.asset = old.asset /\ r.new = old.new
        /\ r.images = old.images
        /\ r.write[i] = column /\ \A j \in Items \ {i} : r.write[j] = old.write[j]
        /\ r.sees[i] = found /\ \A j \in Items \ {i} : r.sees[j] = old.sees[j]
    BY <1>1, <1>2 DEF RequestShape
  <1>4. old.phase # "calling" /\ old.phase # "attach"
    BY <1>1 DEF RequestOK, PhaseOK
  <1>5. \A j \in Items : \A a \in DOMAIN r.write[j] : Suits(r, j, a)
    BY <1>1, <1>3 DEF RequestOK, Suits
  <1>6. old.op = "delete" => \A j \in Items : old.asset \notin DOMAIN r.write[j]
    BY <1>1, <1>3 DEF RequestOK
  <1>7. \A j \in Items : r.sees[j] \subseteq DOMAIN rows[j]
    BY <1>1, <1>3 DEF RequestOK
  <1>8. r.phase # "calling" /\ DOMAIN r.new \subseteq DOMAIN old.new
    BY <1>3, <1>4
  <1>9. PhaseOK(r)
    BY <1>1, <1>3 DEF RequestOK, PhaseOK
  <1>10. RequestOK(r)
    BY <1>1, <1>3, <1>4, <1>5, <1>6, <1>7, <1>9 DEF RequestOK
  <1>11. QED
    BY <1>3, <1>8, <1>10, RequestChanges

LEMMA WriteSiblingKeeps ==
    ASSUME IInv, NEW w \in Workers, NEW j \in Items, WriteSibling(w, j)
    PROVE  IInv'
  <1> DEFINE old == request[w]
  <1>1. /\ old \in RequestShape /\ RequestOK(old)
        /\ old.op = "select" /\ j \in old.todo
    BY OldRequest DEF WriteSibling
  <1>2. /\ j \in Grouped /\ Range(old.images) \subseteq grouped /\ DOMAIN old.new = {}
    BY <1>1 DEF RequestOK, PhaseOK
  <1>3. Positions(old.images) \in Tables(Nat)
        /\ DOMAIN Positions(old.images) = Range(old.images)
    BY <1>1, PositionsTable DEF RequestShape
  <1>4. \A a \in Range(old.images) : Suits(old, j, a)
    BY <1>2 DEF Suits, IInv, GroupedAreUsed
  <1>5. Found(j) \subseteq DOMAIN rows[j]
    BY DEF Found
  <1>6. Keep
    BY DEF WriteSibling
  <1> DEFINE r == [old EXCEPT !.todo = @ \ {j}, !.sees = [@ EXCEPT ![j] = Found(j)],
                              !.write = [@ EXCEPT ![j] = Positions(old.images)]]
  <1>7. request' = [request EXCEPT ![w] = r]
    BY <1>1 DEF WriteSibling, IInv, Shapes, RequestShape
  <1>8. QED
    BY <1>1, <1>3, <1>4, <1>5, <1>6, <1>7, WritesOneMore

LEMMA RenumberKeeps ==
    ASSUME IInv, NEW w \in Workers, NEW i \in Items, Renumber(w, i)
    PROVE  IInv'
  <1> DEFINE old == request[w]
             left == DOMAIN rows[i] \ {old.asset}
  <1>1. /\ old \in RequestShape /\ RequestOK(old) /\ old.phase = "renumber"
        /\ old.op = "delete" /\ DOMAIN old.new = {}
    BY OldRequest DEF Renumber, RequestOK, PhaseOK
  <1>2. left \subseteq Assets /\ left \subseteq DOMAIN rows[i] /\ old.asset \notin left
    BY TableIs DEF IInv, Shapes
  <1>3. Cardinality(left) \in Nat
    BY <1>2, MediaAssumption, FS_Subset, FS_CardinalityType
  <1>4. PICK order \in [1..Cardinality(left) -> left] :
           request' = [request EXCEPT
              ![w].todo = @ \ {i}, ![w].write[i] = Renumbered(w, i, order),
              ![w].sees[i] = DOMAIN Renumbered(w, i, order)]
    BY DEF Renumber
  <1> DEFINE column == Renumbered(w, i, order)
  <1>5. order \in Seq(left)
    <2> HIDE DEF left
    <2>1. QED
      BY <1>3
  <1>6. Positions(order) \in Tables(Nat) /\ DOMAIN Positions(order) \subseteq left
    <2> HIDE DEF left
    <2>1. QED
      BY <1>2, <1>5, PositionsTable
  <1>7. column \in Tables(Nat) /\ DOMAIN column \subseteq left
    BY <1>6, RestrictTable DEF Renumbered
  <1>8. \A a \in left : Suits(old, i, a)
    BY <1>1, <1>2 DEF Suits, IInv, SelectionIsAvailable, Present
  <1> DEFINE r == [old EXCEPT !.todo = @ \ {i}, !.sees = [@ EXCEPT ![i] = DOMAIN column],
                              !.write = [@ EXCEPT ![i] = column]]
  <1> HIDE DEF column
  <1>9. request' = [request EXCEPT ![w] = r]
    BY <1>1, <1>4 DEF IInv, Shapes, RequestShape, column
  <1>10. Keep
    BY DEF Renumber
  <1>11. DOMAIN column \subseteq DOMAIN rows[i] /\ old.asset \notin DOMAIN column
         /\ \A a \in DOMAIN column : Suits(old, i, a)
    BY <1>2, <1>7, <1>8
  <1>12. QED
    BY <1>1, <1>7, <1>9, <1>10, <1>11, WritesOneMore

LEMMA BeginPublishKeeps ==
    ASSUME IInv, NEW w \in Workers, NEW i \in Items, NEW list \in Seq(Assets),
           BeginPublish(w, i, list)
    PROVE  IInv'
  <1> DEFINE r == [NoRequest EXCEPT !.op = "publish", !.item = i, !.phase = "claim",
                                    !.images = list]
  <1>1. /\ r \in RequestShape
        /\ r.op = "publish" /\ r.item = i /\ r.phase = "claim" /\ r.new = Empty
        /\ r.todo = {} /\ \A j \in Items : r.sees[j] = {} /\ r.write[j] = Empty
    BY NoRequestOK DEF NoRequest, RequestShape, Ops, Phases
  <1> HIDE DEF r
  <1>2. RequestOK(r)
    BY <1>1, EmptyTable DEF RequestOK, PhaseOK, Suits
  <1>3. request' = [request EXCEPT ![w] = r] /\ Keep
    BY DEF BeginPublish, Begin, Keep, r
  <1>4. QED
    BY <1>1, <1>2, <1>3, EmptyTable, RequestChanges

-----------------------------------------------------------------------------
(* Commits. *)

(* A commit that deletes rows: what the other requests still see. *)
LEMMA UnseeIs ==
    ASSUME IInv, NEW w \in Workers, NEW lost \in [Items -> SUBSET Assets], Unsee(w, lost)
    PROVE  /\ request' \in [Workers -> RequestShape]
           /\ request'[w] = NoRequest
           /\ \A v \in Workers \ {w} :
                 /\ request'[v].op = request[v].op /\ request'[v].item = request[v].item
                 /\ request'[v].phase = request[v].phase
                 /\ request'[v].asset = request[v].asset
                 /\ request'[v].new = request[v].new /\ request'[v].todo = request[v].todo
                 /\ request'[v].images = request[v].images
                 /\ request'[v].write = request[v].write
                 /\ \A i \in Items : request'[v].sees[i] = request[v].sees[i] \ lost[i]
  <1> DEFINE r(v) == [request[v] EXCEPT !.sees = [i \in Items |-> request[v].sees[i] \ lost[i]]]
  <1>1. \A v \in Workers : request[v] \in RequestShape
    BY DEF IInv, Shapes
  <1>2. \A v \in Workers : r(v) \in RequestShape
    BY <1>1 DEF RequestShape
  <1>3. request' = [v \in Workers |-> IF v = w THEN NoRequest ELSE r(v)]
    BY <1>1 DEF Unsee, RequestShape
  <1>4. request' \in [Workers -> RequestShape] /\ request'[w] = NoRequest
        /\ \A v \in Workers \ {w} : request'[v] = r(v)
    <2> HIDE DEF r
    <2>1. QED
      BY <1>2, <1>3, NoRequestOK
  <1>5. ASSUME NEW v \in Workers \ {w}
        PROVE  /\ r(v).op = request[v].op /\ r(v).item = request[v].item
               /\ r(v).phase = request[v].phase /\ r(v).asset = request[v].asset
               /\ r(v).new = request[v].new /\ r(v).todo = request[v].todo
               /\ r(v).images = request[v].images /\ r(v).write = request[v].write
               /\ \A i \in Items : r(v).sees[i] = request[v].sees[i] \ lost[i]
    BY <1>1 DEF RequestShape
  <1>6. QED
    <2> HIDE DEF r
    <2>1. QED
      BY <1>4, <1>5

LEMMA UnseeApart ==
    ASSUME IInv, NEW w \in Workers, request'[w] = NoRequest,
           \A v \in Workers \ {w} :
              /\ request'[v].new = request[v].new /\ request'[v].phase = request[v].phase
              /\ request'[v].item = request[v].item
    PROVE  Apart'
  <1>1. DOMAIN request'[w].new = {} /\ request'[w].phase # "calling"
    BY EmptyTable DEF NoRequest
  <1>2. SUFFICES ASSUME NEW u \in Workers, NEW v \in Workers, u # v
        PROVE  /\ DOMAIN request'[u].new \cap DOMAIN request'[v].new = {}
               /\ ~(request'[u].phase = "calling" /\ request'[v].phase = "calling"
                      /\ request'[u].item = request'[v].item)
    BY DEF Apart
  <1>3. CASE u = w \/ v = w
    BY <1>1, <1>3
  <1>4. CASE u # w /\ v # w
    BY <1>2, <1>4 DEF IInv, Apart
  <1>5. QED
    BY <1>3, <1>4

(* A commit of another request leaves what request v knows right, if it      *)
(* keeps the assets that v adds unused and the others as grouped as before.  *)
LEMMA OtherStaysOK ==
    ASSUME IInv, NEW v \in Workers,
           /\ request'[v].op = request[v].op /\ request'[v].item = request[v].item
           /\ request'[v].phase = request[v].phase
           /\ request'[v].asset = request[v].asset
           /\ request'[v].new = request[v].new /\ request'[v].todo = request[v].todo
           /\ request'[v].images = request[v].images
           /\ request'[v].write = request[v].write,
           grouped \subseteq grouped',
           \A a \in Assets : file[a] # "unused" =>
              file'[a] # "unused" /\ (a \in grouped' <=> a \in grouped),
           \A a \in DOMAIN request[v].new : file'[a] = "unused",
           \A i \in Items : request'[v].sees[i] \subseteq DOMAIN rows'[i],
           request[v].phase = "calling" => publication'[request[v].item].status = "pending"
    PROVE  RequestOK(request[v])'
  <1> DEFINE r == request[v]
             n == request'[v]
  <1>1. r \in RequestShape /\ RequestOK(r)
    BY OldRequest
  <1>2. \A i \in Items : DOMAIN r.write[i] \subseteq Assets
    BY <1>1, TableIs DEF RequestShape
  <1>3. \A i \in Items : \A a \in Assets :
           Suits(r, i, a) => IF a \in DOMAIN r.new THEN i \in Grouped <=> r.item \in Grouped
                             ELSE file'[a] # "unused" /\ (i \in Grouped <=> a \in grouped')
    BY DEF Suits
  <1>4. \A i \in Items : \A a \in DOMAIN r.write[i] :
           IF a \in DOMAIN r.new THEN i \in Grouped <=> r.item \in Grouped
           ELSE file'[a] # "unused" /\ (i \in Grouped <=> a \in grouped')
    BY <1>1, <1>2, <1>3 DEF RequestOK
  <1>5. PhaseOK(n)
    BY <1>1 DEF RequestOK, PhaseOK
  <1>6. n.phase = "attach" =>
           /\ n.asset \in Assets
           /\ IF n.asset \in DOMAIN r.new THEN n.item \in Grouped <=> r.item \in Grouped
              ELSE file'[n.asset] # "unused" /\ (n.item \in Grouped <=> n.asset \in grouped')
    BY <1>1, <1>3 DEF RequestOK, PhaseOK
  <1>7. /\ n.op = "select" /\ n.item \in Grouped => Range(n.images) \subseteq grouped'
        /\ n.op = "select" /\ n.todo # {} => n.item \in Grouped /\ n.todo \subseteq Grouped
        /\ n.op = "delete" => /\ n.asset \in Assets /\ file'[n.asset] # "unused"
                              /\ \A i \in Items : n.asset \notin DOMAIN n.write[i]
    BY <1>1 DEF RequestOK
  <1>8. QED
    BY <1>4, <1>5, <1>6, <1>7 DEF RequestOK, PhaseOK, Suits

LEMMA CommitRowsKeeps ==
    ASSUME IInv, NEW w \in Workers, CommitRows(w)
    PROVE  IInv'
  <1> DEFINE old == request[w]
  <1>1. old \in RequestShape /\ RequestOK(old) /\ old.op \in {"upload", "generate", "select"}
    BY OldRequest DEF CommitRows
  <1>2. /\ old.new \in Tables(Contents) /\ DOMAIN old.new \subseteq Assets
        /\ \A a \in DOMAIN old.new : old.new[a] \in Contents
        /\ old.write \in [Items -> Tables(Nat)] /\ old.sees \in [Items -> SUBSET Assets]
    BY <1>1, TableIs DEF RequestShape
  <1>3. /\ \A a \in DOMAIN old.new : file[a] = "unused"
        /\ old.item \in Items
        /\ \A i \in Items : old.sees[i] \subseteq DOMAIN rows[i]
        /\ \A i \in Items : \A a \in DOMAIN old.write[i] : Suits(old, i, a)
    BY <1>1 DEF RequestOK, PhaseOK
  <1>4. "unused" \notin Contents /\ "gone" \notin Contents
    BY MediaAssumption DEF Contents
  <1>5. /\ file' \in [Assets -> Contents \union {"unused", "gone"}]
        /\ \A a \in Assets : file'[a] = IF a \in DOMAIN old.new THEN old.new[a] ELSE file[a]
    <2>1. file' = Over(file, old.new)
      BY DEF CommitRows
    <2>2. file \in [Assets -> Contents \union {"unused", "gone"}]
      BY DEF IInv, Shapes
    <2>3. file' = [a \in Assets |-> IF a \in DOMAIN old.new THEN old.new[a] ELSE file[a]]
      BY <1>2, <2>1, <2>2 DEF Over
    <2>4. QED
      BY <1>2, <2>2, <2>3
  <1>6. /\ grouped' = IF old.item \in Grouped THEN grouped \union DOMAIN old.new ELSE grouped
        /\ UNCHANGED <<publication, published>>
        /\ Unsee(w, old.sees)
        /\ \A i \in Items : \A a \in DOMAIN old.write[i] : a \in DOMAIN old.new \/ Present(a)
    BY DEF CommitRows, AssetsThere
  <1>7. /\ rows' \in [Items -> Tables(Nat)]
        /\ \A i \in Items :
              DOMAIN rows'[i] = (DOMAIN rows[i] \ old.sees[i]) \union DOMAIN old.write[i]
    <2> DEFINE kept(i) == Restrict(rows[i], DOMAIN rows[i] \ old.sees[i])
    <2>1. rows' = [i \in Items |-> Over(kept(i), old.write[i])]
      BY DEF CommitRows
    <2>2. \A i \in Items : kept(i) \in Tables(Nat)
                           /\ DOMAIN kept(i) = DOMAIN rows[i] \ old.sees[i]
      BY RestrictTable DEF IInv, Shapes
    <2> HIDE DEF kept
    <2>3. \A i \in Items : /\ Over(kept(i), old.write[i]) \in Tables(Nat)
                           /\ DOMAIN Over(kept(i), old.write[i])
                                = DOMAIN kept(i) \union DOMAIN old.write[i]
      BY <1>2, <2>2, OverPositions
    <2>4. QED
      BY <2>1, <2>2, <2>3
  <1>8. \A a \in Assets : /\ file[a] # "unused" => /\ file'[a] = file[a]
                                                   /\ a \in grouped' <=> a \in grouped
                          /\ a \in DOMAIN old.new =>
                                 /\ file'[a] \in Contents
                                 /\ a \in grouped' <=> old.item \in Grouped
    BY <1>2, <1>3, <1>5, <1>6 DEF IInv, GroupedAreUsed
  <1>9. Shapes'
    <2>1. grouped' \subseteq Assets
      BY <1>2, <1>6 DEF IInv, Shapes
    <2>2. request' \in [Workers -> RequestShape]
      BY <1>2, <1>6, UnseeIs
    <2>3. QED
      BY <1>5, <1>6, <1>7, <2>1, <2>2 DEF Shapes, IInv
  <1>10. GroupedAreUsed'
    BY <1>2, <1>4, <1>6, <1>8 DEF GroupedAreUsed, IInv, Shapes
  <1>11. (\A v \in Workers : RequestOK(request[v]))'
    <2>1. SUFFICES ASSUME NEW v \in Workers PROVE RequestOK(request[v])'
      OBVIOUS
    <2>2. CASE v = w
      <3>1. request'[v] = NoRequest
        BY <1>2, <1>6, <2>2, UnseeIs
      <3>2. QED
        BY <3>1, EmptyTable DEF RequestOK, PhaseOK, NoRequest
    <2>3. CASE v # w
      <3>1. request[v] \in RequestShape /\ RequestOK(request[v])
        BY OldRequest
      <3>2. \A a \in DOMAIN request[v].new : file'[a] = "unused"
        <4>1. DOMAIN request[v].new \subseteq Assets
          BY <3>1, TableIs DEF RequestShape
        <4>2. QED
          BY <1>5, <2>3, <3>1, <4>1 DEF RequestOK, IInv, Apart
      <3>3. \A i \in Items : request'[v].sees[i] \subseteq DOMAIN rows'[i]
        BY <1>2, <1>6, <1>7, <2>3, <3>1, UnseeIs DEF RequestOK
      <3>4. request[v].phase = "calling" => publication'[request[v].item].status = "pending"
        BY <1>6, <3>1 DEF RequestOK
      <3>5. \A a \in Assets : file[a] # "unused" =>
               file'[a] # "unused" /\ (a \in grouped' <=> a \in grouped)
        BY <1>8
      <3>6. grouped \subseteq grouped'
        BY <1>6
      <3>7. QED
        BY <1>2, <1>6, <2>3, <3>2, <3>3, <3>4, <3>5, <3>6, UnseeIs, OtherStaysOK
    <2>4. QED
      BY <2>2, <2>3
  <1>12. Apart'
    BY <1>2, <1>6, UnseeIs, UnseeApart
  <1>13. PublishedSucceeded' /\ RecordsOK'
    BY <1>6 DEF IInv, PublishedSucceeded, RecordsOK
  <1>14. SelectionIsAvailable'
    <2>1. SUFFICES ASSUME NEW i \in Items, NEW a \in DOMAIN rows'[i]
          PROVE  file'[a] \notin {"unused", "gone"} /\ (i \in Grouped <=> a \in grouped')
      BY DEF SelectionIsAvailable, Present
    <2>2. a \in Assets
      BY <1>7, TableIs
    <2>3. CASE a \in DOMAIN rows[i]
      BY <1>8, <2>2, <2>3 DEF IInv, SelectionIsAvailable, Present
    <2>4. CASE a \in DOMAIN old.write[i] /\ a \in DOMAIN old.new
      BY <1>3, <1>4, <1>8, <2>2, <2>4 DEF Suits
    <2>5. CASE a \in DOMAIN old.write[i] /\ a \notin DOMAIN old.new
      BY <1>3, <1>6, <1>8, <2>2, <2>5 DEF Suits, Present
    <2>6. QED
      BY <1>7, <2>3, <2>4, <2>5
  <1>15. QED
    BY <1>9, <1>10, <1>11, <1>12, <1>13, <1>14 DEF IInv

LEMMA CommitDeleteKeeps ==
    ASSUME IInv, NEW w \in Workers, CommitDelete(w)
    PROVE  IInv'
  <1> DEFINE old == request[w]
             d == old.asset
             lost == [i \in Items |-> {d}]
  <1>1. old \in RequestShape /\ RequestOK(old) /\ old.phase = "renumber"
    BY OldRequest DEF CommitDelete
  <1>2. /\ d \in Assets /\ file[d] # "unused"
        /\ \A i \in Items : /\ d \notin DOMAIN old.write[i]
                            /\ old.sees[i] \subseteq DOMAIN rows[i]
                            /\ old.write[i] \in Tables(Nat)
    BY <1>1 DEF RequestOK, PhaseOK, RequestShape
  <1>3. /\ file' = [file EXCEPT ![d] = "gone"]
        /\ publication' = [i \in Items |-> [publication[i] EXCEPT !.media = Without(@, d)]]
        /\ UNCHANGED <<grouped, published>>
        /\ Unsee(w, lost)
        /\ \A i \in Items : DOMAIN old.write[i] \subseteq old.sees[i]
    BY DEF CommitDelete
  <1>4. lost \in [Items -> SUBSET Assets] /\ \A i \in Items : lost[i] = {d}
    BY <1>2
  <1>5. file' \in [Assets -> Contents \union {"unused", "gone"}]
        /\ file'[d] = "gone" /\ \A a \in Assets \ {d} : file'[a] = file[a]
    BY <1>2, <1>3 DEF IInv, Shapes
  <1>6. /\ rows' \in [Items -> Tables(Nat)]
        /\ \A i \in Items : DOMAIN rows'[i] = DOMAIN rows[i] \ {d}
    <2> DEFINE kept(i) == Restrict(rows[i], DOMAIN rows[i] \ {d})
    <2>1. rows' = [i \in Items |-> Over(kept(i), old.write[i])]
      BY DEF CommitDelete
    <2>2. \A i \in Items : kept(i) \in Tables(Nat)
                           /\ DOMAIN kept(i) = DOMAIN rows[i] \ {d}
      BY RestrictTable DEF IInv, Shapes
    <2> HIDE DEF kept
    <2>3. \A i \in Items : /\ Over(kept(i), old.write[i]) \in Tables(Nat)
                           /\ DOMAIN Over(kept(i), old.write[i])
                                = DOMAIN kept(i) \union DOMAIN old.write[i]
      BY <1>2, <2>2, OverPositions
    <2>4. \A i \in Items : DOMAIN old.write[i] \subseteq DOMAIN rows[i] \ {d}
      BY <1>2, <1>3
    <2>5. QED
      BY <2>1, <2>2, <2>3, <2>4
  <1>7. /\ publication' \in [Items -> PublicationShape]
        /\ \A i \in Items :
              /\ publication'[i].status = publication[i].status
              /\ publication'[i].sent = publication[i].sent
              /\ publication'[i].media = Without(publication[i].media, d)
    <2>1. \A i \in Items : publication[i] \in PublicationShape
      BY DEF IInv, Shapes
    <2>2. \A i \in Items : Without(publication[i].media, d) \in Seq(Assets \union {NoAsset})
      BY <2>1 DEF PublicationShape, Without
    <2>3. QED
      BY <1>3, <2>1, <2>2 DEF PublicationShape
  <1>8. Shapes'
    BY <1>3, <1>4, <1>5, <1>6, <1>7, UnseeIs DEF IInv, Shapes
  <1>9. GroupedAreUsed'
    BY <1>3, <1>5 DEF IInv, Shapes, GroupedAreUsed
  <1>10. (\A v \in Workers : RequestOK(request[v]))'
    <2>1. SUFFICES ASSUME NEW v \in Workers PROVE RequestOK(request[v])'
      OBVIOUS
    <2>2. CASE v = w
      <3>1. request'[v] = NoRequest
        BY <1>3, <1>4, <2>2, UnseeIs
      <3>2. QED
        BY <3>1, EmptyTable DEF RequestOK, PhaseOK, NoRequest
    <2>3. CASE v # w
      <3>1. request[v] \in RequestShape /\ RequestOK(request[v])
        BY OldRequest
      <3>2. \A a \in DOMAIN request[v].new : file'[a] = "unused"
        <4>1. DOMAIN request[v].new \subseteq Assets
          BY <3>1, TableIs DEF RequestShape
        <4>2. QED
          BY <1>2, <1>5, <3>1, <4>1 DEF RequestOK
      <3>3. \A i \in Items : request'[v].sees[i] \subseteq DOMAIN rows'[i]
        BY <1>3, <1>4, <1>6, <2>3, <3>1, UnseeIs DEF RequestOK
      <3>4. request[v].phase = "calling" => publication'[request[v].item].status = "pending"
        BY <1>7, <3>1 DEF RequestOK, PhaseOK
      <3>5. \A a \in Assets : file[a] # "unused" =>
               file'[a] # "unused" /\ (a \in grouped' <=> a \in grouped)
        BY <1>3, <1>5
      <3>6. grouped \subseteq grouped'
        BY <1>3
      <3>7. QED
        BY <1>3, <1>4, <2>3, <3>2, <3>3, <3>4, <3>5, <3>6, UnseeIs, OtherStaysOK
    <2>4. QED
      BY <2>2, <2>3
  <1>11. Apart'
    BY <1>3, <1>4, UnseeIs, UnseeApart
  <1>12. PublishedSucceeded'
    BY <1>3, <1>7 DEF IInv, Shapes, PublishedSucceeded
  <1>13. RecordsOK'
    BY <1>7 DEF IInv, RecordsOK, Without
  <1>14. SelectionIsAvailable'
    <2>1. SUFFICES ASSUME NEW i \in Items, NEW a \in DOMAIN rows'[i]
          PROVE  file'[a] \notin {"unused", "gone"} /\ (i \in Grouped <=> a \in grouped')
      BY DEF SelectionIsAvailable, Present
    <2>2. a \in DOMAIN rows[i] /\ a # d /\ a \in Assets
      BY <1>6, TableIs DEF IInv, Shapes
    <2>3. QED
      BY <1>3, <1>5, <2>2 DEF IInv, SelectionIsAvailable, Present
  <1>15. QED
    BY <1>8, <1>9, <1>10, <1>11, <1>12, <1>13, <1>14 DEF IInv

(* The commits of publishing change the attempt of one item. *)
LEMMA PublicationChanges ==
    ASSUME IInv, NEW w \in Workers, NEW r \in RequestShape, NEW p \in PublicationShape,
           request[w].op = "publish",
           request' = [request EXCEPT ![w] = r],
           publication' = [publication EXCEPT ![request[w].item] = p],
           UNCHANGED <<file, grouped, rows>>, published' \subseteq Items,
           r = NoRequest \/ r = [request[w] EXCEPT !.phase = "calling"],
           r # NoRequest => p.status = "pending" /\ publication[request[w].item].status = "none",
           r = NoRequest => publication[request[w].item].status = "pending"
                            /\ request[w].phase = "calling",
           \A i \in published' : publication'[i].status = "succeeded",
           DOMAIN p.media = DOMAIN p.sent,
           \A k \in DOMAIN p.sent : p.media[k] \in {p.sent[k], NoAsset}
    PROVE  IInv'
  <1> DEFINE old == request[w]
             i == old.item
  <1>1. old \in RequestShape /\ RequestOK(old) /\ i \in Items /\ DOMAIN old.new = {}
    BY OldRequest DEF RequestOK, PhaseOK
  <1>2. request'[w] = r /\ \A v \in Workers \ {w} : request'[v] = request[v]
    BY DEF IInv, Shapes
  <1>3. publication'[i] = p /\ \A j \in Items \ {i} : publication'[j] = publication[j]
    BY <1>1 DEF IInv, Shapes
  <1>4. DOMAIN r.new = {}
    BY <1>1, EmptyTable DEF RequestShape, NoRequest
  <1>5. Shapes'
    BY DEF IInv, Shapes
  <1>6. r # NoRequest => /\ r.op = "publish" /\ r.item = i /\ r.phase = "calling"
                         /\ r.new = old.new /\ r.todo = old.todo
                         /\ r.sees = old.sees /\ r.write = old.write
    BY <1>1 DEF RequestShape
  <1>7. r = NoRequest => r.phase = "none"
    BY DEF NoRequest
  <1>8. \A v \in Workers \ {w} :
           request[v].phase = "calling" => request[v].item \in Items \ {i}
    <2>1. SUFFICES ASSUME NEW v \in Workers \ {w}, request[v].phase = "calling"
          PROVE  request[v].item \in Items /\ request[v].item # i
      OBVIOUS
    <2>2. request[v].item \in Items /\ publication[request[v].item].status = "pending"
      BY <2>1 DEF IInv, RequestOK, PhaseOK
    <2>3. r = NoRequest => request[v].item # i
      BY <2>1 DEF IInv, Apart
    <2>4. QED
      BY <2>2, <2>3
  <1>9. (\A v \in Workers : RequestOK(request[v]))'
    <2>1. SUFFICES ASSUME NEW v \in Workers PROVE RequestOK(request[v])'
      OBVIOUS
    <2>2. CASE v = w /\ r = NoRequest
      BY <1>2, <2>2, EmptyTable DEF RequestOK, PhaseOK, NoRequest
    <2>3. CASE v = w /\ r # NoRequest
      BY <1>1, <1>2, <1>3, <1>6, <2>3 DEF RequestOK, PhaseOK, Suits
    <2>4. CASE v # w
      <3>1. request[v] \in RequestShape /\ RequestOK(request[v])
        BY OldRequest
      <3>2. request[v].phase = "calling" => publication'[request[v].item].status = "pending"
        BY <1>3, <1>8, <2>4, <3>1 DEF RequestOK
      <3>3. QED
        BY <1>2, <2>4, <3>1, <3>2, OtherStaysOK DEF RequestOK
    <2>5. QED
      BY <2>2, <2>3, <2>4
  <1>10. Apart'
    <2>1. SUFFICES ASSUME NEW u \in Workers, NEW v \in Workers, u # v
          PROVE  /\ DOMAIN request'[u].new \cap DOMAIN request'[v].new = {}
                 /\ ~(request'[u].phase = "calling" /\ request'[v].phase = "calling"
                        /\ request'[u].item = request'[v].item)
      BY DEF Apart
    <2>2. CASE u # w /\ v # w
      BY <1>2, <2>1, <2>2 DEF IInv, Apart
    <2>3. CASE u = w
      BY <1>2, <1>4, <1>6, <1>7, <1>8, <2>1, <2>3
    <2>4. CASE v = w
      BY <1>2, <1>4, <1>6, <1>7, <1>8, <2>1, <2>4
    <2>5. QED
      BY <2>2, <2>3, <2>4
  <1>11. GroupedAreUsed' /\ SelectionIsAvailable'
    BY DEF IInv, GroupedAreUsed, SelectionIsAvailable, Present
  <1>12. PublishedSucceeded'
    BY DEF PublishedSucceeded
  <1>13. RecordsOK'
    BY <1>3 DEF IInv, RecordsOK
  <1>14. QED
    BY <1>5, <1>9, <1>10, <1>11, <1>12, <1>13 DEF IInv

LEMMA ClaimKeeps ==
    ASSUME IInv, NEW w \in Workers, Claim(w)
    PROVE  IInv'
  <1> DEFINE old == request[w]
             r == [old EXCEPT !.phase = "calling"]
             p == [status |-> "pending", media |-> Recorded(old.item, old.images),
                   sent |-> old.images]
  <1>1. old \in RequestShape /\ old.op = "publish" /\ old.item \in Items
    BY OldRequest DEF Claim, RequestOK, PhaseOK
  <1>2. r \in RequestShape
    BY <1>1 DEF RequestShape, Phases
  <1>3. old.images \in Seq(Assets) /\ old.images \in Seq(Assets \union {NoAsset})
    BY <1>1 DEF RequestShape
  <1>4. p \in PublicationShape /\ p.status = "pending" /\ p.media = p.sent
    BY <1>3 DEF PublicationShape, Recorded
  <1>5. r # NoRequest
    BY <1>1 DEF RequestShape, NoRequest
  <1>6. /\ request' = [request EXCEPT ![w] = r]
        /\ publication' = [publication EXCEPT ![old.item] = p]
        /\ UNCHANGED <<file, grouped, rows, published>>
        /\ publication[old.item].status = "none"
    BY <1>1 DEF Claim, IInv, Shapes
  <1>7. published' \subseteq Items /\ \A i \in published' : publication'[i].status = "succeeded"
    BY <1>6 DEF IInv, Shapes, PublishedSucceeded
  <1>8. DOMAIN p.media = DOMAIN p.sent
        /\ \A k \in DOMAIN p.sent : p.media[k] \in {p.sent[k], NoAsset}
    BY <1>4
  <1> HIDE DEF p
  <1>9. QED
    BY <1>1, <1>2, <1>4, <1>5, <1>6, <1>7, <1>8, PublicationChanges

LEMMA SucceedKeeps ==
    ASSUME IInv, NEW w \in Workers, Succeed(w)
    PROVE  IInv'
  <1> DEFINE old == request[w]
             i == old.item
             p == [publication[i] EXCEPT !.status = "succeeded"]
  <1>1. /\ old \in RequestShape /\ old.op = "publish" /\ i \in Items /\ old.phase = "calling"
        /\ publication[i].status = "pending"
    BY OldRequest DEF Succeed, RequestOK, PhaseOK
  <1>2. publication[i] \in PublicationShape
    BY <1>1 DEF IInv, Shapes
  <1>3. p \in PublicationShape /\ p.status = "succeeded"
        /\ p.media = publication[i].media /\ p.sent = publication[i].sent
    BY <1>2 DEF PublicationShape
  <1>4. DOMAIN p.media = DOMAIN p.sent
        /\ \A k \in DOMAIN p.sent : p.media[k] \in {p.sent[k], NoAsset}
    BY <1>1, <1>3 DEF IInv, RecordsOK
  <1>5. /\ request' = [request EXCEPT ![w] = NoRequest]
        /\ publication' = [publication EXCEPT ![i] = p]
        /\ published' = published \union {i}
        /\ UNCHANGED <<file, grouped, rows>>
    BY DEF Succeed
  <1>6. published' \subseteq Items /\ \A j \in published' : publication'[j].status = "succeeded"
    BY <1>1, <1>3, <1>5 DEF IInv, Shapes, PublishedSucceeded
  <1> HIDE DEF p
  <1>7. QED
    BY <1>1, <1>3, <1>4, <1>5, <1>6, NoRequestOK, PublicationChanges

LEMMA FailKeeps ==
    ASSUME IInv, NEW w \in Workers, Fail(w)
    PROVE  IInv'
  <1> DEFINE old == request[w]
             i == old.item
  <1>1. /\ old \in RequestShape /\ old.op = "publish" /\ i \in Items /\ old.phase = "calling"
        /\ publication[i].status = "pending"
    BY OldRequest DEF Fail, RequestOK, PhaseOK
  <1>2. NoPublication \in PublicationShape /\ NoPublication.media = NoPublication.sent
        /\ DOMAIN NoPublication.sent = {}
    BY DEF NoPublication, PublicationShape
  <1>3. /\ request' = [request EXCEPT ![w] = NoRequest]
        /\ publication' = [publication EXCEPT ![i] = NoPublication]
        /\ UNCHANGED <<file, grouped, rows, published>>
    BY DEF Fail
  <1>4. published' \subseteq Items /\ \A j \in published' : publication'[j].status = "succeeded"
    BY <1>1, <1>3 DEF IInv, Shapes, PublishedSucceeded
  <1>5. QED
    BY <1>1, <1>2, <1>3, <1>4, NoRequestOK, PublicationChanges

LEMMA ArchiveKeeps ==
    ASSUME IInv, NEW i \in Items, Archive(i)
    PROVE  IInv'
  <1>1. published' \subseteq published /\ UNCHANGED <<file, grouped, rows, publication, request>>
    BY DEF Archive
  <1>2. (\A v \in Workers : RequestOK(request[v]))'
    BY <1>1 DEF IInv, RequestOK, PhaseOK, Suits
  <1>3. Shapes' /\ GroupedAreUsed' /\ Apart' /\ PublishedSucceeded' /\ RecordsOK'
        /\ SelectionIsAvailable'
    BY <1>1 DEF IInv, Shapes, GroupedAreUsed, Apart, PublishedSucceeded, RecordsOK,
                SelectionIsAvailable, Present
  <1>4. QED
    BY <1>2, <1>3 DEF IInv

LEMMA StutterKeeps ==
    ASSUME IInv, UNCHANGED vars
    PROVE  IInv'
  <1>1. (\A v \in Workers : RequestOK(request[v]))'
    BY DEF IInv, RequestOK, PhaseOK, Suits, vars
  <1>2. Shapes' /\ GroupedAreUsed' /\ Apart' /\ PublishedSucceeded' /\ RecordsOK'
        /\ SelectionIsAvailable'
    BY DEF IInv, Shapes, GroupedAreUsed, Apart, PublishedSucceeded, RecordsOK,
           SelectionIsAvailable, Present, vars
  <1>3. QED
    BY <1>1, <1>2 DEF IInv

LEMMA IInvStep == IInv /\ [Next]_vars => IInv'
  <1> SUFFICES ASSUME IInv, [Next]_vars PROVE IInv'
    OBVIOUS
  <1>1. \A i \in Items : \A list \in Lists(Assets, MaxImages[i]) : list \in Seq(Assets)
    BY MediaAssumption, ListsAreSeqs
  <1>2. ASSUME NEW w \in Workers, NEW i \in Items,
               \/ \E a \in Assets : BeginGenerate(w, i, a)
               \/ BeginUpload(w, i)
               \/ \E list \in Lists(Assets, MaxImages[i]) :
                     \/ \E toGroup \in BOOLEAN : BeginSelect(w, i, list, toGroup)
                     \/ BeginPublish(w, i, list)
               \/ WriteSibling(w, i)
               \/ Renumber(w, i)
        PROVE  IInv'
    BY <1>1, <1>2, BeginGenerateKeeps, BeginUploadKeeps, BeginSelectKeeps,
       BeginPublishKeeps, WriteSiblingKeeps, RenumberKeeps
  <1>3. ASSUME NEW w \in Workers,
               \/ \E f \in Files : NextFile(w, f)
               \/ \E a \in Assets : BeginDelete(w, a)
               \/ Attach(w) \/ ReadSiblings(w) \/ CommitRows(w) \/ CommitDelete(w)
               \/ Claim(w) \/ Succeed(w) \/ Fail(w) \/ Abandon(w)
        PROVE  IInv'
    BY <1>3, NextFileKeeps, BeginDeleteKeeps, AttachKeeps, ReadSiblingsKeeps,
       CommitRowsKeeps, CommitDeleteKeeps, ClaimKeeps, SucceedKeeps, FailKeeps, AbandonKeeps
  <1>4. QED
    BY <1>2, <1>3, ArchiveKeeps, StutterKeeps DEF Next

LEMMA Invariant == Spec => []IInv
  BY InitIInv, IInvStep, PTL DEF Spec

-----------------------------------------------------------------------------

(* The columns have their types, only items with a succeeded attempt are     *)
(* published, and a request that is calling owns a pending attempt.          *)
THEOREM TypeCorrect == Spec => []TypeOK
  <1>1. IInv => TypeOK
    <2> SUFFICES ASSUME IInv PROVE TypeOK
      OBVIOUS
    <2>1. file \in [Assets -> Files \union {"unused", "generated", "gone"}]
      BY DEF IInv, Shapes, Contents
    <2>2. grouped \subseteq Assets /\ published \subseteq {i \in Items : Published(i)}
      BY DEF IInv, Shapes, PublishedSucceeded, Published
    <2>3. \A i \in Items : DOMAIN rows[i] \subseteq Assets
                           /\ \A a \in DOMAIN rows[i] : rows[i][a] \in Nat
      BY TableIs DEF IInv, Shapes
    <2>4. \A i \in Items : /\ publication[i].status \in {"none", "pending", "succeeded"}
                           /\ DOMAIN publication[i].media = DOMAIN publication[i].sent
      BY DEF IInv, Shapes, PublicationShape, RecordsOK
    <2>5. \A w \in Workers :
             /\ request[w].op \in Ops \union {"none"}
             /\ request[w].phase \in Phases \union {"none"}
             /\ request[w].phase = "calling" => publication[request[w].item].status = "pending"
      BY OldRequest DEF RequestShape, RequestOK
    <2>6. QED
      BY <2>1, <2>2, <2>3, <2>4, <2>5 DEF TypeOK
  <1>2. QED
    BY <1>1, Invariant, PTL

(* However requests overlap, a selection names images that exist and that    *)
(* belong to the item's group.                                               *)
THEOREM SelectionsAreAvailable == Spec => []SelectionIsAvailable
  <1>1. IInv => SelectionIsAvailable
    BY DEF IInv
  <1>2. QED
    BY <1>1, Invariant, PTL

(* However requests overlap, the record of an attempt names what was sent,   *)
(* or nothing.                                                               *)
THEOREM RecordsAreTrue == Spec => []RecordIsTrue
  <1>1. IInv => RecordIsTrue
    BY DEF IInv, RecordsOK, RecordIsTrue
  <1>2. QED
    BY <1>1, Invariant, PTL

(* The records of what was published.  An image of one is being deleted only *)
(* by a request whose check came before: no other request becomes a delete   *)
(* of one, or turns to another image.                                        *)
SparesPublished(r, old) ==
    r.op = "delete" =>
        \/ old.op = "delete" /\ r.asset = old.asset
        \/ ~InUse(r.asset)

NoNewDoom == \A v \in Workers : SparesPublished(request'[v], request[v])

Keeps(i) == Published(i) => Published(i)' /\ Doomed(i)' \subseteq Doomed(i)

LEMMA SameRecord ==
    ASSUME NEW i \in Items, publication'[i] = publication[i], NoNewDoom
    PROVE  Keeps(i)
  <1> SUFFICES ASSUME Published(i) PROVE Published(i)' /\ Doomed(i)' \subseteq Doomed(i)
    BY DEF Keeps
  <1>1. Published(i)'
    BY DEF Published
  <1>2. ASSUME NEW k \in DOMAIN publication[i].media, NEW v \in Workers,
               request'[v].op = "delete", request'[v].asset = publication[i].media[k]
        PROVE  request[v].op = "delete" /\ request[v].asset = publication[i].media[k]
    <2>1. InUse(publication[i].media[k])
      BY DEF InUse, Range, Published
    <2>2. QED
      BY <1>2, <2>1 DEF NoNewDoom, SparesPublished
  <1>3. Doomed(i)' \subseteq Doomed(i)
    BY <1>2 DEF Doomed
  <1>4. QED
    BY <1>1, <1>3

(* One request that goes on, ends or begins.                                 *)
Only(w) == \A v \in Workers \ {w} : request'[v] = request[v]

LEMMA OneRequestSpares ==
    ASSUME NEW w \in Workers, Only(w), SparesPublished(request'[w], request[w])
    PROVE  NoNewDoom
  BY DEF NoNewDoom, SparesPublished, Only

LEMMA BeginSpares ==
    ASSUME IInv, NEW w \in Workers,
           \/ \E i \in Items :
                 \/ \E a \in Assets : BeginGenerate(w, i, a)
                 \/ BeginUpload(w, i)
                 \/ \E list \in Lists(Assets, MaxImages[i]) :
                       \/ \E toGroup \in BOOLEAN : BeginSelect(w, i, list, toGroup)
                       \/ BeginPublish(w, i, list)
           \/ \E a \in Assets : BeginDelete(w, a)
           \/ Abandon(w)
    PROVE  NoNewDoom
  <1>1. ASSUME NEW r, request' = [request EXCEPT ![w] = r]
        PROVE  Only(w) /\ request'[w] = r
    BY <1>1 DEF IInv, Shapes, Only
  <1>2. ASSUME NEW i \in Items, NEW a \in Assets, BeginGenerate(w, i, a)
        PROVE  NoNewDoom
    <2> DEFINE r == [NoRequest EXCEPT !.op = "generate", !.item = i, !.phase = "attach",
                                      !.asset = a, !.new = New(a, "generated")]
    <2>1. r.op = "generate"
      BY DEF NoRequest
    <2>2. request' = [request EXCEPT ![w] = r]
      BY <1>2 DEF BeginGenerate, Begin
    <2> HIDE DEF r
    <2>3. QED
      BY <1>1, <2>1, <2>2, OneRequestSpares DEF SparesPublished
  <1>3. ASSUME NEW i \in Items, BeginUpload(w, i)
        PROVE  NoNewDoom
    <2> DEFINE r == [NoRequest EXCEPT !.op = "upload", !.item = i, !.phase = "file"]
    <2>1. r.op = "upload"
      BY DEF NoRequest
    <2>2. request' = [request EXCEPT ![w] = r]
      BY <1>3 DEF BeginUpload, Begin
    <2> HIDE DEF r
    <2>3. QED
      BY <1>1, <2>1, <2>2, OneRequestSpares DEF SparesPublished
  <1>4. ASSUME NEW i \in Items, NEW list, NEW toGroup, BeginSelect(w, i, list, toGroup)
        PROVE  NoNewDoom
    <2> DEFINE r == [NoRequest EXCEPT
          !.op = "select", !.item = i,
          !.phase = IF toGroup /\ i \in Grouped THEN "siblings" ELSE "commit",
          !.images = IF toGroup THEN list ELSE <<>>, !.sees[i] = Found(i), !.write[i] = Positions(list)]
    <2>1. r.op = "select"
      BY DEF NoRequest
    <2>2. request' = [request EXCEPT ![w] = r]
      BY <1>4 DEF BeginSelect, Begin
    <2> HIDE DEF r
    <2>3. Only(w) /\ request'[w] = r
      BY <1>1, <2>2
    <2>4. QED
      BY <2>1, <2>3, OneRequestSpares DEF SparesPublished
  <1>5. ASSUME NEW i \in Items, NEW list, BeginPublish(w, i, list)
        PROVE  NoNewDoom
    BY <1>1, <1>5, OneRequestSpares DEF BeginPublish, Begin, SparesPublished, NoRequest
  <1>6. ASSUME NEW a \in Assets, BeginDelete(w, a)
        PROVE  NoNewDoom
    <2> DEFINE r == [NoRequest EXCEPT !.op = "delete", !.asset = a, !.phase = "renumber",
                                      !.todo = {i \in Items : a \in DOMAIN rows[i]}]
    <2>1. r.asset = a
      BY DEF NoRequest
    <2>2. request' = [request EXCEPT ![w] = r]
      BY <1>6 DEF BeginDelete, Begin
    <2> HIDE DEF r
    <2>3. ~InUse(a)
      BY <1>6 DEF BeginDelete
    <2>4. QED
      BY <1>1, <2>1, <2>2, <2>3, OneRequestSpares DEF SparesPublished
  <1>7. CASE Abandon(w)
    BY <1>1, <1>7, OneRequestSpares DEF Abandon, SparesPublished, NoRequest
  <1>8. QED
    BY <1>2, <1>3, <1>4, <1>5, <1>6, <1>7

LEMMA GoingOnSpares ==
    ASSUME IInv, NEW w \in Workers,
           \/ \E i \in Items : WriteSibling(w, i) \/ Renumber(w, i)
           \/ \E f \in Files : NextFile(w, f)
           \/ Attach(w) \/ ReadSiblings(w)
    PROVE  NoNewDoom
  <1> DEFINE old == request[w]
             r == request'[w]
  <1>1. old \in RequestShape /\ PhaseOK(old) /\ request \in [Workers -> RequestShape]
    BY OldRequest DEF RequestOK, IInv, Shapes
  <1>2. ASSUME NEW i \in Items, WriteSibling(w, i)
        PROVE  Only(w) /\ r.op = "select"
    BY <1>1, <1>2 DEF WriteSibling, RequestShape, Only
  <1>3. ASSUME NEW i \in Items, Renumber(w, i)
        PROVE  Only(w) /\ r.op = "delete" /\ old.op = "delete" /\ r.asset = old.asset
    <2>1. old.op = "delete" /\ old.todo \in SUBSET Items
      BY <1>1, <1>3 DEF Renumber, RequestShape, PhaseOK
    <2>2. PICK column, seen :
             request' = [request EXCEPT ![w].todo = @ \ {i}, ![w].write[i] = column,
                                        ![w].sees[i] = seen]
      BY <1>3 DEF Renumber
    <2>3. QED
      BY <1>1, <2>1, <2>2 DEF RequestShape, Only
  <1>4. ASSUME NEW f \in Files, NextFile(w, f)
        PROVE  Only(w) /\ r.op = "upload"
    <2>1. old.op = "upload"
      BY <1>4 DEF NextFile
    <2>2. PICK a, new :
             \/ request' = [request EXCEPT ![w].asset = a, ![w].phase = "attach"]
             \/ request' = [request EXCEPT ![w].asset = a, ![w].phase = "attach",
                                           ![w].new = Over(@, new)]
      BY <1>4 DEF NextFile
    <2>3. QED
      BY <1>1, <2>1, <2>2 DEF RequestShape, Only
  <1>5. ASSUME Attach(w)
        PROVE  Only(w) /\ r.op \in {"upload", "generate"}
    BY <1>1, <1>5 DEF Attach, RequestShape, PhaseOK, Only
  <1>6. ASSUME ReadSiblings(w)
        PROVE  Only(w) /\ r.op = "select"
    BY <1>1, <1>6 DEF ReadSiblings, RequestShape, PhaseOK, Only
  <1>7. QED
    BY <1>2, <1>3, <1>4, <1>5, <1>6, OneRequestSpares DEF SparesPublished

LEMMA CommitRowsSpares ==
    ASSUME IInv, NEW w \in Workers, CommitRows(w)
    PROVE  NoNewDoom
  <1>1. request[w].sees \in [Items -> SUBSET Assets]
    BY OldRequest DEF RequestShape
  <1>2. Unsee(w, request[w].sees)
    BY DEF CommitRows
  <1>3. QED
    BY <1>1, <1>2, UnseeIs DEF NoNewDoom, SparesPublished, NoRequest

(* What a delete takes from a record was doomed by it. *)
LEMMA DeleteKeepsRecord ==
    ASSUME IInv, NEW w \in Workers, CommitDelete(w), NEW i \in Items
    PROVE  Keeps(i)
  <1> DEFINE d == request[w].asset
             media == publication[i].media
  <1>1. request[w] \in RequestShape /\ request[w].op = "delete" /\ d \in Assets
    BY OldRequest DEF CommitDelete, RequestOK, PhaseOK
  <1>2. publication[i] \in PublicationShape
    BY DEF IInv, Shapes
  <1>3. publication'[i] = [publication[i] EXCEPT !.media = Without(media, d)]
    BY DEF CommitDelete
  <1>4. /\ publication'[i].status = publication[i].status
        /\ publication'[i].media = Without(media, d)
    BY <1>2, <1>3 DEF PublicationShape
  <1>5. DOMAIN publication'[i].media = DOMAIN media
        /\ \A k \in DOMAIN media : publication'[i].media[k] = IF media[k] = d THEN NoAsset
                                                              ELSE media[k]
    BY <1>4 DEF Without
  <1>6. [j \in Items |-> {d}] \in [Items -> SUBSET Assets] /\ Unsee(w, [j \in Items |-> {d}])
    BY <1>1 DEF CommitDelete
  <1>7. request'[w] = NoRequest
        /\ \A v \in Workers \ {w} : request'[v].op = request[v].op
                                    /\ request'[v].asset = request[v].asset
    BY <1>6, UnseeIs
  <1>8. ASSUME NEW k \in DOMAIN media, k \in Doomed(i)'
        PROVE  k \in Doomed(i)
    <2>1. CASE media[k] = d
      BY <1>1, <2>1 DEF Doomed
    <2>2. CASE media[k] # d
      BY <1>5, <1>7, <1>8, <2>2 DEF Doomed, NoRequest
    <2>3. QED
      BY <2>1, <2>2
  <1>9. Doomed(i)' \subseteq Doomed(i)
    BY <1>5, <1>8 DEF Doomed
  <1>10. QED
    BY <1>4, <1>9 DEF Keeps, Published

(* A publish writes the attempt of its own item, which has not succeeded.    *)
LEMMA PublishKeepsRecord ==
    ASSUME IInv, NEW w \in Workers, Claim(w) \/ Succeed(w) \/ Fail(w), NEW i \in Items
    PROVE  Keeps(i)
  <1> DEFINE old == request[w]
             mine == publication[old.item]
  <1>1. old \in RequestShape /\ RequestOK(old) /\ old.op = "publish" /\ old.item \in Items
    BY OldRequest DEF Claim, Succeed, Fail, RequestOK, PhaseOK
  <1>2. mine.status # "succeeded"
    BY <1>1 DEF Claim, Succeed, Fail, RequestOK
  <1>3. \A j \in Items \ {old.item} : publication'[j] = publication[j]
    BY DEF Claim, Succeed, Fail, IInv, Shapes
  <1>4. NoNewDoom
    <2>1. request \in [Workers -> RequestShape]
      BY DEF IInv, Shapes
    <2>2. Only(w) /\ request'[w].op \in {"publish", "none"}
      BY <1>1, <2>1 DEF Claim, Succeed, Fail, RequestShape, NoRequest, Only
    <2>3. QED
      BY <2>2, OneRequestSpares DEF SparesPublished
  <1>5. CASE i = old.item
    BY <1>2, <1>5 DEF Keeps, Published
  <1>6. CASE i # old.item
    BY <1>3, <1>4, <1>6, SameRecord
  <1>7. QED
    BY <1>5, <1>6

(* However requests overlap, the record of a published post loses images     *)
(* only to deletes that had made their check before the success was          *)
(* committed, and the success stays.                                         *)
THEOREM RecordsLoseNothingLater == Spec => NoImageLostLater
  <1>1. ASSUME IInv, [Next]_vars, NEW i \in Items
        PROVE  Keeps(i)
    <2>1. ASSUME UNCHANGED publication, NoNewDoom
          PROVE  Keeps(i)
      BY <2>1, SameRecord
    <2>2. ASSUME NEW w \in Workers, NEW j \in Items,
                 \/ \E a \in Assets : BeginGenerate(w, j, a)
                 \/ BeginUpload(w, j)
                 \/ \E list \in Lists(Assets, MaxImages[j]) :
                       \/ \E toGroup \in BOOLEAN : BeginSelect(w, j, list, toGroup)
                       \/ BeginPublish(w, j, list)
          PROVE  Keeps(i)
      <3>1. UNCHANGED publication
        BY <2>2 DEF BeginGenerate, BeginUpload, BeginSelect, BeginPublish
      <3>2. NoNewDoom
        BY <1>1, <2>2, BeginSpares
      <3>3. QED
        BY <2>1, <3>1, <3>2
    <2>3. ASSUME NEW w \in Workers,
                 (\E a \in Assets : BeginDelete(w, a)) \/ Abandon(w)
          PROVE  Keeps(i)
      <3>1. UNCHANGED publication
        BY <2>3 DEF BeginDelete, Abandon, Keep
      <3>2. QED
        BY <1>1, <2>1, <2>3, <3>1, BeginSpares
    <2>4. ASSUME NEW w \in Workers,
                 \/ \E j \in Items : WriteSibling(w, j) \/ Renumber(w, j)
                 \/ \E f \in Files : NextFile(w, f)
                 \/ Attach(w) \/ ReadSiblings(w)
          PROVE  Keeps(i)
      <3>1. UNCHANGED publication
        BY <2>4 DEF WriteSibling, Renumber, NextFile, Attach, ReadSiblings, Keep
      <3>2. QED
        BY <1>1, <2>1, <2>4, <3>1, GoingOnSpares
    <2>5. ASSUME NEW w \in Workers, CommitRows(w)
          PROVE  Keeps(i)
      BY <1>1, <2>1, <2>5, CommitRowsSpares DEF CommitRows
    <2>6. ASSUME (\E j \in Items : Archive(j)) \/ UNCHANGED vars
          PROVE  Keeps(i)
      <3>1. UNCHANGED <<publication, request>>
        BY <2>6 DEF Archive, vars
      <3>2. NoNewDoom
        BY <3>1 DEF NoNewDoom, SparesPublished
      <3>3. QED
        BY <2>1, <3>1, <3>2
    <2>7. QED
      BY <1>1, <2>2, <2>3, <2>4, <2>5, <2>6, DeleteKeepsRecord, PublishKeepsRecord DEF Next
  <1>2. IInv /\ [Next]_vars =>
            [\A i \in Items : Published(i) => Published(i)' /\ Doomed(i)' \subseteq Doomed(i)]_vars
    BY <1>1 DEF Keeps
  <1>3. QED
    BY <1>2, Invariant, PTL DEF Spec, NoImageLostLater

-----------------------------------------------------------------------------

(* One request at a time.  First: lists of images, and the rows of them.  *)

(* What a carousel is made of: a list of different images.                   *)
Shows(f, n) == \E list \in Seq(Assets) : /\ Once(list) /\ Len(list) <= n
                                         /\ f = Positions(list)

LEMMA SameTable ==
    ASSUME NEW S, NEW f \in Tables(S), NEW g \in Tables(S), DOMAIN f = DOMAIN g,
           \A x \in DOMAIN f : f[x] = g[x]
    PROVE  f = g
  <1>1. f = [x \in DOMAIN f |-> f[x]] /\ g = [x \in DOMAIN g |-> g[x]]
    BY TableIs
  <1>2. QED
    BY <1>1

LEMMA PlaceOf ==
    ASSUME NEW list \in Seq(Assets), Once(list), NEW k \in 1..Len(list)
    PROVE  list[k] \in DOMAIN Positions(list) /\ Positions(list)[list[k]] = k - 1
  <1> DEFINE P(p) == list[p + 1] = list[k]
  <1>1. list[k] \in Range(list)
    BY DEF Range
  <1>2. /\ DOMAIN Positions(list) = Range(list)
        /\ Positions(list)[list[k]] = CHOOSE p \in 0..(Len(list) - 1) : P(p)
    BY <1>1 DEF Positions
  <1>3. k - 1 \in 0..(Len(list) - 1) /\ P(k - 1)
    OBVIOUS
  <1>4. \A p \in 0..(Len(list) - 1) : P(p) => p = k - 1
    <2>1. TAKE p \in 0..(Len(list) - 1)
    <2>2. p + 1 \in DOMAIN list /\ k \in DOMAIN list
      OBVIOUS
    <2>3. P(p) => p + 1 = k
      BY <2>2 DEF Once
    <2>4. QED
      BY <2>3
  <1> HIDE DEF P
  <1>5. (CHOOSE p \in 0..(Len(list) - 1) : P(p)) = k - 1
    BY <1>3, <1>4
  <1>6. QED
    BY <1>1, <1>2, <1>5

LEMMA ListSize ==
    ASSUME NEW list \in Seq(Assets), Once(list)
    PROVE  IsFiniteSet(Range(list)) /\ Cardinality(Range(list)) = Len(list)
  <1>1. list \in [1..Len(list) -> Range(list)]
    BY DEF Range
  <1>2. \A a, b \in 1..Len(list) : list[a] = list[b] => a = b
    BY DEF Once
  <1>3. \A t \in Range(list) : \E s \in 1..Len(list) : list[s] = t
    BY DEF Range
  <1>4. list \in Bijection(1..Len(list), Range(list))
    BY <1>1, <1>2, <1>3 DEF Bijection, Injection, Surjection, IsInjective
  <1>5. ExistsBijection(1..Len(list), Range(list)) /\ Len(list) \in Nat
    BY <1>4 DEF ExistsBijection
  <1>6. IsFiniteSet(Range(list))
    <2>1. Range(list) \subseteq Assets
      BY DEF Range
    <2>2. QED
      BY <2>1, MediaAssumption, FS_Subset
  <1>7. QED
    BY <1>5, <1>6, FS_CountingElements

(* Such a table is a carousel.                                               *)
LEMMA ShownIsCarousel ==
    ASSUME NEW f, NEW n \in Nat, Shows(f, n)
    PROVE  /\ {f[a] : a \in DOMAIN f} = 0..(Cardinality(DOMAIN f) - 1)
           /\ Cardinality(DOMAIN f) <= n /\ Cardinality(DOMAIN f) \in Nat
  <1>1. PICK list \in Seq(Assets) : Once(list) /\ Len(list) <= n /\ f = Positions(list)
    BY DEF Shows
  <1>2. DOMAIN f = Range(list) /\ Cardinality(DOMAIN f) = Len(list) /\ Len(list) \in Nat
    BY <1>1, ListSize DEF Positions
  <1>3. ASSUME NEW a \in DOMAIN f PROVE f[a] \in 0..(Len(list) - 1)
    <2>1. PICK k \in 1..Len(list) : list[k] = a
      BY <1>2, <1>3 DEF Range
    <2>2. f[a] = k - 1
      BY <1>1, <2>1, PlaceOf
    <2>3. QED
      BY <2>2
  <1>4. ASSUME NEW p \in 0..(Len(list) - 1) PROVE \E a \in DOMAIN f : f[a] = p
    <2>1. p + 1 \in 1..Len(list) /\ (p + 1) - 1 = p
      BY <1>2
    <2>2. list[p + 1] \in DOMAIN f /\ f[list[p + 1]] = p
      BY <1>1, <2>1, PlaceOf
    <2>3. QED
      BY <2>2
  <1>5. QED
    BY <1>1, <1>2, <1>3, <1>4

LEMMA EmptyShows == ASSUME NEW n \in Nat PROVE Shows(Empty, n)
  <1>1. <<>> \in Seq(Assets) /\ Once(<<>>) /\ Len(<<>>) <= n
    BY DEF Once
  <1>2. Positions(<<>>) = Empty
    BY DEF Positions, Empty, Range
  <1>3. QED
    BY <1>1, <1>2 DEF Shows

(* Attaching an image at the position that equals their number appends it.   *)
LEMMA ShowsOneMore ==
    ASSUME NEW f, NEW n \in Nat, Shows(f, n), NEW a \in Assets, a \notin DOMAIN f,
           Cardinality(DOMAIN f) < n
    PROVE  Shows(Over(f, [x \in {a} |-> Cardinality(DOMAIN f)]), n)
  <1>1. PICK list \in Seq(Assets) : Once(list) /\ Len(list) <= n /\ f = Positions(list)
    BY DEF Shows
  <1>2. DOMAIN f = Range(list) /\ Cardinality(DOMAIN f) = Len(list) /\ Len(list) \in Nat
    BY <1>1, ListSize DEF Positions
  <1> DEFINE longer == Append(list, a)
  <1>3. /\ longer \in Seq(Assets) /\ Len(longer) = Len(list) + 1
        /\ longer[Len(list) + 1] = a /\ \A k \in 1..Len(list) : longer[k] = list[k]
    OBVIOUS
  <1>4. \A k \in 1..Len(list) : list[k] # a
    BY <1>2 DEF Range
  <1> HIDE DEF longer
  <1>5. Once(longer)
    <2> SUFFICES ASSUME NEW k \in 1..(Len(list) + 1), NEW l \in 1..(Len(list) + 1), longer[k] = longer[l]
                 PROVE  k = l
      BY <1>3 DEF Once
    <2>1. CASE k \in 1..Len(list) /\ l \in 1..Len(list)
      BY <1>1, <1>3, <2>1 DEF Once
    <2>2. CASE k = Len(list) + 1 /\ l \in 1..Len(list)
      BY <1>3, <1>4, <2>2
    <2>3. CASE l = Len(list) + 1 /\ k \in 1..Len(list)
      BY <1>3, <1>4, <2>3
    <2>4. QED
      BY <1>2, <2>1, <2>2, <2>3
  <1>6. Range(longer) = Range(list) \union {a}
    <2>1. \A x \in Range(longer) : x \in Range(list) \union {a}
      <3> SUFFICES ASSUME NEW k \in 1..(Len(list) + 1) PROVE longer[k] \in Range(list) \union {a}
        BY <1>3 DEF Range
      <3>1. CASE k \in 1..Len(list)
        BY <1>3, <3>1 DEF Range
      <3>2. CASE k = Len(list) + 1
        BY <1>3, <3>2
      <3>3. QED
        BY <1>2, <3>1, <3>2
    <2>2. \A x \in Range(list) : x \in Range(longer)
      <3> SUFFICES ASSUME NEW k \in 1..Len(list) PROVE list[k] \in Range(longer)
        BY DEF Range
      <3>1. k \in DOMAIN longer /\ longer[k] = list[k]
        BY <1>2, <1>3
      <3>2. QED
        BY <3>1 DEF Range
    <2>3. a \in Range(longer)
      <3>1. Len(list) + 1 \in DOMAIN longer
        BY <1>2, <1>3
      <3>2. QED
        BY <1>3, <3>1 DEF Range
    <2>4. QED
      BY <2>1, <2>2, <2>3
  <1> DEFINE one == [x \in {a} |-> Len(list)]
  <1>7. Over(f, one) = Positions(longer)
    <2>1. DOMAIN Over(f, one) = Range(longer) /\ DOMAIN Positions(longer) = Range(longer)
      BY <1>2, <1>6 DEF Over, Positions
    <2>2. ASSUME NEW x \in Range(longer) PROVE Over(f, one)[x] = Positions(longer)[x]
      <3>1. CASE x = a
        <4>1. Positions(longer)[a] = Len(list)
          <5>1. Len(list) + 1 \in 1..Len(longer)
            BY <1>2, <1>3
          <5>2. Positions(longer)[longer[Len(list) + 1]] = (Len(list) + 1) - 1
            BY <1>3, <1>5, <5>1, PlaceOf
          <5>3. QED
            BY <1>2, <1>3, <5>2
        <4>2. Over(f, one)[a] = Len(list)
          BY DEF Over
        <4>3. QED
          BY <3>1, <4>1, <4>2
      <3>2. CASE x # a
        <4>1. PICK k \in 1..Len(list) : list[k] = x
          BY <1>6, <3>2 DEF Range
        <4>2. f[x] = k - 1
          BY <1>1, <4>1, PlaceOf
        <4>3. Positions(longer)[longer[k]] = k - 1
          <5>1. k \in 1..Len(longer)
            BY <1>2, <1>3
          <5>2. QED
            BY <1>3, <1>5, <5>1, PlaceOf
        <4>4. Over(f, one)[x] = f[x]
          <5>1. x \in DOMAIN f
            BY <1>2, <1>6, <3>2
          <5>2. QED
            BY <3>2, <5>1 DEF Over
        <4>5. QED
          BY <1>3, <4>1, <4>2, <4>3, <4>4
      <3>3. QED
        BY <3>1, <3>2
    <2>3. Over(f, one) = [x \in Range(longer) |-> Over(f, one)[x]]
      <3>1. Over(f, one) = [x \in DOMAIN Over(f, one) |-> Over(f, one)[x]]
        BY DEF Over
      <3>2. QED
        BY <2>1, <3>1
    <2>4. Positions(longer) = [x \in Range(longer) |-> Positions(longer)[x]]
      BY DEF Positions
    <2>5. QED
      BY <2>2, <2>3, <2>4
  <1>8. Len(longer) <= n
    BY <1>2, <1>3
  <1>9. QED
    BY <1>2, <1>3, <1>5, <1>7, <1>8 DEF Shows

LEMMA SameRows ==
    ASSUME NEW f \in Tables(Nat), NEW g \in Tables(Nat), DOMAIN f = DOMAIN g,
           \A x \in DOMAIN f : f[x] = g[x]
    PROVE  f = g
  BY SameTable

LEMMA OverRows ==
    ASSUME NEW f \in Tables(Nat), NEW g \in Tables(Nat)
    PROVE  /\ Over(f, g) \in Tables(Nat)
           /\ DOMAIN Over(f, g) = DOMAIN f \union DOMAIN g
           /\ \A x \in DOMAIN g : Over(f, g)[x] = g[x]
           /\ \A x \in DOMAIN f \ DOMAIN g : Over(f, g)[x] = f[x]
  <1>1. /\ \A x \in DOMAIN g : Over(f, g)[x] = g[x]
        /\ \A x \in DOMAIN f \ DOMAIN g : Over(f, g)[x] = f[x]
    BY DEF Over
  <1>2. QED
    BY <1>1, OverPositions

LEMMA RestrictRows ==
    ASSUME NEW f \in Tables(Nat), NEW D, D \subseteq DOMAIN f
    PROVE  /\ Restrict(f, D) \in Tables(Nat) /\ DOMAIN Restrict(f, D) = D
           /\ \A x \in D : Restrict(f, D)[x] = f[x]
  BY RestrictTable DEF Restrict

(* Rows that replace others, or are added to them.                           *)
LEMMA OverEmpty == ASSUME NEW f \in Tables(Nat) PROVE Over(f, Empty) = f
  <1>1. Empty \in Tables(Nat) /\ DOMAIN Empty = {}
    BY EmptyTable
  <1>2. Over(f, Empty) \in Tables(Nat) /\ DOMAIN Over(f, Empty) = DOMAIN f \union DOMAIN Empty
    BY <1>1, OverPositions
  <1>3. \A x \in DOMAIN f : Over(f, Empty)[x] = f[x]
    BY <1>1 DEF Over
  <1>4. DOMAIN Over(f, Empty) = DOMAIN f
    BY <1>1, <1>2
  <1>5. QED
    BY <1>2, <1>3, <1>4, SameRows

LEMMA RestrictNothing ==
    ASSUME NEW f \in Tables(Nat), NEW D, D \cap DOMAIN f = {}
    PROVE  Restrict(f, DOMAIN f \ D) = f
  <1>1. DOMAIN f \ D = DOMAIN f
    OBVIOUS
  <1>2. Restrict(f, DOMAIN f) = f
    BY TableIs DEF Restrict
  <1>3. QED
    BY <1>1, <1>2

LEMMA ReplaceAll ==
    ASSUME NEW f \in Tables(Nat), NEW g \in Tables(Nat)
    PROVE  Over(Restrict(f, DOMAIN f \ DOMAIN f), g) = g
  <1> DEFINE e == Restrict(f, DOMAIN f \ DOMAIN f)
  <1>1. e \in Tables(Nat) /\ DOMAIN e = {}
    BY RestrictRows
  <1> HIDE DEF e
  <1>2. Over(e, g) \in Tables(Nat) /\ DOMAIN Over(e, g) = DOMAIN g
        /\ \A x \in DOMAIN g : Over(e, g)[x] = g[x]
    BY <1>1, OverRows
  <1>3. Over(e, g) = g
    BY <1>2, SameRows
  <1>4. QED
    BY <1>3 DEF e

LEMMA OverOver ==
    ASSUME NEW f \in Tables(Nat), NEW g \in Tables(Nat), NEW h \in Tables(Nat)
    PROVE  Over(f, Over(g, h)) = Over(Over(f, g), h)
  <1> DEFINE gh == Over(g, h)
             fg == Over(f, g)
  <1>1. /\ gh \in Tables(Nat) /\ fg \in Tables(Nat)
        /\ DOMAIN gh = DOMAIN g \union DOMAIN h
        /\ DOMAIN fg = DOMAIN f \union DOMAIN g
    BY OverPositions
  <1>2. /\ Over(f, gh) \in Tables(Nat) /\ Over(fg, h) \in Tables(Nat)
        /\ DOMAIN Over(f, gh) = DOMAIN f \union DOMAIN g \union DOMAIN h
        /\ DOMAIN Over(fg, h) = DOMAIN f \union DOMAIN g \union DOMAIN h
    <2> HIDE DEF gh, fg
    <2>1. /\ Over(f, gh) \in Tables(Nat) /\ Over(fg, h) \in Tables(Nat)
          /\ DOMAIN Over(f, gh) = DOMAIN f \union DOMAIN gh
          /\ DOMAIN Over(fg, h) = DOMAIN fg \union DOMAIN h
      BY <1>1, OverPositions
    <2>2. QED
      BY <1>1, <2>1
  <1>3. ASSUME NEW x \in DOMAIN f \union DOMAIN g \union DOMAIN h
        PROVE  Over(f, Over(g, h))[x] = Over(Over(f, g), h)[x]
    BY DEF Over
  <1>4. QED
    BY <1>2, <1>3, SameRows

(* The rows whose positions f has to change to those of a list.              *)
Moved(f, order) ==
    Restrict(Positions(order),
             {b \in DOMAIN Positions(order) : Positions(order)[b] # f[b]})

(* What is left of a carousel, in any order and renumbered, is that order.   *)
LEMMA RenumberedRows ==
    ASSUME NEW f \in Tables(Nat), NEW n \in Nat, Shows(f, n), NEW a,
           NEW left, left = DOMAIN f \ {a},
           NEW order \in [1..Cardinality(left) -> left], Once(order)
    PROVE  /\ order \in Seq(Assets) /\ Len(order) <= n /\ Range(order) = left
           /\ Over(Restrict(f, DOMAIN f \ {a}), Moved(f, order)) = Positions(order)
  <1>1. /\ DOMAIN f \subseteq Assets /\ IsFiniteSet(DOMAIN f)
        /\ left \subseteq DOMAIN f /\ left \subseteq Assets /\ IsFiniteSet(left)
    BY TableIs, MediaAssumption, FS_Subset
  <1>2. /\ Cardinality(left) \in Nat /\ Cardinality(left) <= Cardinality(DOMAIN f)
        /\ Cardinality(DOMAIN f) <= n /\ Cardinality(DOMAIN f) \in Nat
    BY <1>1, FS_Subset, FS_CardinalityType, ShownIsCarousel
  <1>3. order \in Seq(left) /\ Len(order) = Cardinality(left)
    <2>1. \A m \in Nat : \A s \in [1..m -> left] : s \in Seq(left) /\ Len(s) = m
      OBVIOUS
    <2>2. QED
      BY <1>2, <2>1
  <1>4. order \in Seq(Assets)
    BY <1>1, <1>3
  <1>5. Range(order) \subseteq left /\ DOMAIN Positions(order) = Range(order)
        /\ Positions(order) \in Tables(Nat)
    BY <1>1, <1>3, PositionsTable
  <1>6. Cardinality(Range(order)) = Cardinality(left)
    BY <1>3, <1>4, ListSize
  <1>7. Range(order) = left
    BY <1>1, <1>5, <1>6, FS_Subset
  <1> DEFINE places == Positions(order)
             moved == {b \in DOMAIN places : places[b] # f[b]}
             rest == Restrict(f, left)
             column == Moved(f, order)
  <1>8. rest \in Tables(Nat) /\ DOMAIN rest = left /\ \A b \in left : rest[b] = f[b]
    BY <1>1, RestrictRows
  <1>9. /\ column \in Tables(Nat) /\ DOMAIN column = moved
        /\ \A b \in moved : column[b] = places[b]
    BY <1>5, RestrictRows DEF Moved
  <1>10. DOMAIN places = left /\ places \in Tables(Nat)
    BY <1>5, <1>7
  <1> HIDE DEF rest, places, column
  <1>11. /\ Over(rest, column) \in Tables(Nat)
         /\ DOMAIN Over(rest, column) = left \union moved
    <2> HIDE DEF moved
    <2>1. rest \in Tables(Nat) /\ column \in Tables(Nat)
      BY <1>8, <1>9
    <2>2. /\ Over(rest, column) \in Tables(Nat)
          /\ DOMAIN Over(rest, column) = DOMAIN rest \union DOMAIN column
      BY <2>1, OverPositions
    <2>3. QED
      BY <1>8, <1>9, <2>2
  <1>12. /\ \A b \in moved : Over(rest, column)[b] = places[b]
         /\ \A b \in left \ moved : Over(rest, column)[b] = f[b]
    BY <1>8, <1>9 DEF Over
  <1>13. moved \subseteq left /\ \A b \in left \ moved : f[b] = places[b]
    BY <1>10
  <1>14. Over(rest, column) = places
    <2>1. DOMAIN Over(rest, column) = DOMAIN places
      BY <1>10, <1>11, <1>13, <1>12
    <2>2. \A b \in DOMAIN places : Over(rest, column)[b] = places[b]
      BY <1>10, <1>11, <1>13, <1>12
    <2>3. QED
      BY <1>10, <1>11, <2>1, <2>2, SameRows
  <1>15. QED
    <2>1. Over(Restrict(f, DOMAIN f \ {a}), Moved(f, order)) = Positions(order)
      BY <1>14 DEF rest, places, column
    <2>2. Len(order) <= n
      BY <1>2, <1>3
    <2>3. QED
      BY <1>4, <1>7, <2>1, <2>2

(* It is a carousel again.                                                   *)
LEMMA RenumberedShows ==
    ASSUME NEW f \in Tables(Nat), NEW n \in Nat, Shows(f, n), NEW a,
           NEW left, left = DOMAIN f \ {a},
           NEW order \in [1..Cardinality(left) -> left], Once(order)
    PROVE  Shows(Over(Restrict(f, DOMAIN f \ {a}), Moved(f, order)), n)
  <1>1. /\ order \in Seq(Assets) /\ Len(order) <= n
        /\ Over(Restrict(f, DOMAIN f \ {a}), Moved(f, order)) = Positions(order)
    BY RenumberedRows
  <1>2. QED
    BY <1>1 DEF Shows

-----------------------------------------------------------------------------

(* Requests are served one at a time.                                      *)
OneWorker == \A u, v \in Workers : u = v

(* What a request that meets no other has read stays true, and what it will  *)
(* write leaves carousels behind: adding images, choosing them, deleting one.*)
AddsFit(r) ==
    r.op \in {"upload", "generate"} =>
        \A i \in Items : r.sees[i] = {} /\ Shows(Over(rows[i], r.write[i]), MaxImages[i])

UploadsDiffer(r) ==
    r.op = "upload" /\ r.item \in Grouped =>
        \A a \in DOMAIN r.new : /\ \A b \in grouped : r.new[a] # file[b]
                                /\ \A b \in DOMAIN r.new : r.new[a] = r.new[b] => a = b

SelectFits(r) ==
    r.op = "select" =>
        /\ Once(r.images) /\ \A i \in r.todo : Len(r.images) <= MaxImages[i]
        /\ \A i \in Items :
              \/ r.sees[i] = {} /\ r.write[i] = Empty
              \/ r.sees[i] = DOMAIN rows[i] /\ Shows(r.write[i], MaxImages[i])

DeleteFits(r) ==
    r.op = "delete" =>
        \A i \in Items \ r.todo :
            Shows(Over(Restrict(rows[i], DOMAIN rows[i] \ {r.asset}), r.write[i]), MaxImages[i])

DeletesUnused(r) ==
    r.op = "delete" =>
        \A i \in Items : Published(i) => r.asset \notin Range(publication[i].media)

Unrivalled(r) ==
    /\ AddsFit(r) /\ UploadsDiffer(r) /\ SelectFits(r) /\ DeleteFits(r) /\ DeletesUnused(r)
    /\ r.op = "generate" => \A a \in DOMAIN r.new : r.new[a] = "generated"
    /\ r.phase = "calling" => publication[r.item].media = publication[r.item].sent

Carousels == \A i \in Items : Shows(rows[i], MaxImages[i])

(* No image of a published post is missing from its record. *)
RecordIsComplete ==
    \A i \in Items : Published(i) => publication[i].media = publication[i].sent

SeqInv ==
    /\ Carousels
    /\ UploadsAreDistinct
    /\ RecordIsComplete
    /\ \A w \in Workers : Unrivalled(request[w])

LEMMA NoneUnrivalled == Unrivalled(NoRequest)
  BY DEF Unrivalled, AddsFit, UploadsDiffer, SelectFits, DeleteFits,
                      DeletesUnused, NoRequest

LEMMA InitSeqInv == Init => SeqInv
  <1> SUFFICES ASSUME Init PROVE SeqInv
    OBVIOUS
  <1>1. Carousels
    BY EmptyShows, MediaAssumption DEF Init, Carousels
  <1>2. UploadsAreDistinct /\ RecordIsComplete
    BY DEF Init, UploadsAreDistinct, RecordIsComplete, NoPublication
  <1>3. \A w \in Workers : Unrivalled(request[w])
    BY NoneUnrivalled DEF Init
  <1>4. QED
    BY <1>1, <1>2, <1>3 DEF SeqInv

LEMMA RowsAre ==
    ASSUME IInv, NEW i \in Items
    PROVE  /\ rows[i] \in Tables(Nat) /\ MaxImages[i] \in Nat
           /\ \A w \in Workers : request[w].write[i] \in Tables(Nat)
  BY OldRequest, MediaAssumption DEF IInv, Shapes, RequestShape

(* Steps that change what one request knows and nothing else. *)
LEMMA StaysUnrivalled ==
    ASSUME IInv, SeqInv, NEW w \in Workers, NEW r, Unrivalled(r),
           request' = [request EXCEPT ![w] = r], Keep
    PROVE  SeqInv'
  <1>1. Carousels' /\ UploadsAreDistinct' /\ RecordIsComplete'
    BY DEF SeqInv, Carousels, UploadsAreDistinct, RecordIsComplete, Published, Keep
  <1>2. ASSUME NEW v \in Workers PROVE Unrivalled(request[v])'
    <2>1. request'[v] = r \/ request'[v] = request[v]
      BY DEF IInv, Shapes
    <2>2. Unrivalled(request'[v])
      <3>1. Unrivalled(request[v])
        BY DEF SeqInv
      <3>2. QED
        BY <2>1, <3>1
    <2>3. AddsFit(request[v])' /\ SelectFits(request[v])' /\ DeleteFits(request[v])'
      BY <2>2 DEF Unrivalled, Keep, AddsFit, SelectFits, DeleteFits
    <2>4. UploadsDiffer(request[v])' /\ DeletesUnused(request[v])'
      BY <2>2 DEF Unrivalled, Keep, UploadsDiffer, DeletesUnused, Published
    <2>5. QED
      BY <2>2, <2>3, <2>4 DEF Unrivalled, Keep
  <1>3. QED
    BY <1>1, <1>2 DEF SeqInv

LEMMA AbandonKeepsSeqInv ==
    ASSUME IInv, SeqInv, NEW w \in Workers, Abandon(w)
    PROVE  SeqInv'
  BY NoneUnrivalled, StaysUnrivalled DEF Abandon

LEMMA BeginAddKeepsSeqInv ==
    ASSUME IInv, SeqInv, NEW w \in Workers, NEW i \in Items,
           BeginUpload(w, i) \/ \E a \in Assets : BeginGenerate(w, i, a)
    PROVE  SeqInv'
  <1>1. \A j \in Items : Shows(Over(rows[j], Empty), MaxImages[j])
    <2>1. TAKE j \in Items
    <2>2. Over(rows[j], Empty) = rows[j]
      BY RowsAre, OverEmpty
    <2>3. QED
      BY <2>2 DEF SeqInv, Carousels
  <1>2. CASE BeginUpload(w, i)
    <2> DEFINE r == [NoRequest EXCEPT !.op = "upload", !.item = i, !.phase = "file"]
    <2>1. r.op = "upload" /\ r.phase = "file" /\ r.new = Empty
          /\ \A j \in Items : r.sees[j] = {} /\ r.write[j] = Empty
      BY DEF NoRequest
    <2>2. request' = [request EXCEPT ![w] = r] /\ Keep
      BY <1>2 DEF BeginUpload, Begin, Keep
    <2> HIDE DEF r
    <2>3. Unrivalled(r)
      BY <1>1, <2>1, EmptyTable DEF Unrivalled, AddsFit, UploadsDiffer, SelectFits, DeleteFits, DeletesUnused
    <2>4. QED
      BY <2>2, <2>3, StaysUnrivalled
  <1>3. ASSUME NEW a \in Assets, BeginGenerate(w, i, a) PROVE SeqInv'
    <2> DEFINE r == [NoRequest EXCEPT !.op = "generate", !.item = i, !.phase = "attach",
                                      !.asset = a, !.new = New(a, "generated")]
    <2>1. r.op = "generate" /\ r.phase = "attach" /\ r.new = New(a, "generated")
          /\ \A j \in Items : r.sees[j] = {} /\ r.write[j] = Empty
      BY DEF NoRequest
    <2>2. request' = [request EXCEPT ![w] = r] /\ Keep
      BY <1>3 DEF BeginGenerate, Begin, Keep
    <2> HIDE DEF r
    <2>3. \A b \in DOMAIN r.new : r.new[b] = "generated"
      BY <2>1 DEF New
    <2>4. Unrivalled(r)
      BY <1>1, <2>1, <2>3 DEF Unrivalled, AddsFit, UploadsDiffer, SelectFits, DeleteFits, DeletesUnused
    <2>5. QED
      BY <2>2, <2>4, StaysUnrivalled
  <1>4. QED
    BY <1>2, <1>3

LEMMA NextFileKeepsSeqInv ==
    ASSUME IInv, SeqInv, NEW w \in Workers, NEW f \in Files, NextFile(w, f)
    PROVE  SeqInv'
  <1> DEFINE old == request[w]
             r(a, new) == [old EXCEPT !.asset = a, !.phase = "attach", !.new = new]
  <1>1. /\ old \in RequestShape /\ RequestOK(old) /\ Unrivalled(old)
        /\ old.op = "upload" /\ old.phase = "file" /\ Keep
    BY OldRequest DEF NextFile, SeqInv
  <1>2. \A a, new : /\ r(a, new).phase = "attach" /\ r(a, new).new = new
                    /\ r(a, new).op = "upload" /\ r(a, new).item = old.item
                    /\ r(a, new).sees = old.sees /\ r(a, new).write = old.write
    BY <1>1 DEF RequestShape
  <1>3. ASSUME NEW a, request' = [request EXCEPT ![w].asset = a, ![w].phase = "attach"]
        PROVE  SeqInv'
    <2>1. request' = [request EXCEPT ![w] = r(a, old.new)]
      BY <1>1, <1>3 DEF IInv, Shapes, RequestShape
    <2> HIDE DEF r
    <2>2. Unrivalled(r(a, old.new))
      BY <1>1, <1>2 DEF Unrivalled, AddsFit, UploadsDiffer, SelectFits, DeleteFits, DeletesUnused
    <2>3. QED
      BY <1>1, <2>1, <2>2, StaysUnrivalled
  <1>4. ASSUME NEW a \in Fresh,
               \A b \in Library(w, old.item) : FileOf(w, b) # f,
               request' = [request EXCEPT ![w].asset = a, ![w].phase = "attach",
                                          ![w].new = Over(@, New(a, f))]
        PROVE  SeqInv'
    <2> DEFINE new == Over(old.new, New(a, f))
    <2>1. request' = [request EXCEPT ![w] = r(a, new)]
      BY <1>1, <1>4 DEF IInv, Shapes, RequestShape
    <2>2. /\ DOMAIN new = DOMAIN old.new \union {a} /\ new[a] = f
          /\ \A b \in DOMAIN old.new \ {a} : new[b] = old.new[b]
      BY DEF Over, New
    <2> HIDE DEF r, new
    <2>3. a \notin DOMAIN old.new
      BY DEF Fresh
    <2>4. old.item \in Grouped => \A b \in DOMAIN old.new : old.new[b] # f
      BY <1>4 DEF Library, FileOf
    <2>5. old.item \in Grouped => \A b \in grouped : file[b] # f
      <3>1. SUFFICES ASSUME old.item \in Grouped, NEW b \in grouped, file[b] = f
            PROVE  FALSE
        OBVIOUS
      <3>2. Present(b) /\ b \notin DOMAIN old.new
        BY <1>1, <3>1, MediaAssumption DEF Present, RequestOK
      <3>3. b \in Library(w, old.item) /\ FileOf(w, b) = f
        BY <3>1, <3>2 DEF Library, FileOf
      <3>4. QED
        BY <1>4, <3>3
    <2>6. Unrivalled(r(a, new))
      <3>1. old.item \in Grouped =>
               \A x \in DOMAIN new : /\ \A b \in grouped : new[x] # file[b]
                                     /\ \A b \in DOMAIN new : new[x] = new[b] => x = b
        BY <1>1, <2>2, <2>3, <2>4, <2>5 DEF Unrivalled, AddsFit, UploadsDiffer, SelectFits, DeleteFits, DeletesUnused
      <3>2. QED
        BY <1>1, <1>2, <3>1 DEF Unrivalled, AddsFit, UploadsDiffer, SelectFits, DeleteFits, DeletesUnused
    <2>7. QED
      BY <1>1, <2>1, <2>6, StaysUnrivalled
  <1>5. QED
    BY <1>3, <1>4 DEF NextFile

LEMMA AttachKeepsSeqInv ==
    ASSUME IInv, SeqInv, NEW w \in Workers, Attach(w)
    PROVE  SeqInv'
  <1> DEFINE old == request[w]
             i == old.item
             view == View(w, i)
             place == New(old.asset, Cardinality(DOMAIN view))
             room == Cardinality(DOMAIN view) < MaxImages[i] /\ old.asset \notin DOMAIN view
             column == IF room THEN Over(old.write[i], place) ELSE old.write[i]
             r == [old EXCEPT !.phase = IF old.op = "upload" THEN "file" ELSE "commit",
                              !.asset = NoAsset,
                              !.write = [old.write EXCEPT ![i] = column]]
  <1>1. /\ old \in RequestShape /\ RequestOK(old) /\ Unrivalled(old) /\ Keep
        /\ old.op \in {"upload", "generate"} /\ i \in Items /\ old.asset \in Assets
    BY OldRequest DEF Attach, SeqInv, RequestOK, PhaseOK
  <1>2. old.write \in [Items -> Tables(Nat)] /\ old.write[i] \in Tables(Nat)
        /\ rows[i] \in Tables(Nat) /\ MaxImages[i] \in Nat
    BY <1>1, RowsAre DEF RequestShape
  <1>3. Shows(view, MaxImages[i]) /\ view = Over(rows[i], old.write[i])
    BY <1>1 DEF Unrivalled, AddsFit, View
  <1>4. Shows(Over(rows[i], column), MaxImages[i])
    <2>1. CASE room
      <3>1. Shows(Over(view, place), MaxImages[i])
        BY <1>1, <1>2, <1>3, <2>1, ShowsOneMore DEF New
      <3>2. Cardinality(DOMAIN view) \in Nat
        BY <1>1, ViewIs, MediaAssumption, FS_Subset, FS_CardinalityType
      <3>3. place \in Tables(Nat)
        BY <1>1, <3>2, NewTable
      <3> HIDE DEF place, view, room
      <3>4. Over(rows[i], Over(old.write[i], place)) = Over(view, place)
        BY <1>2, <1>3, <3>3, OverOver
      <3>5. QED
        BY <2>1, <3>1, <3>4
    <2>2. CASE ~room
      BY <1>3, <2>2
    <2>3. QED
      BY <2>1, <2>2
  <1>5. request' = [request EXCEPT ![w] = r]
    BY <1>1 DEF Attach, New, IInv, Shapes, RequestShape
  <1> HIDE DEF column, place, view, room
  <1>6. /\ r.op = old.op /\ r.item = i /\ r.phase # "calling" /\ r.new = old.new
        /\ r.sees = old.sees /\ r.write[i] = column
        /\ \A j \in Items \ {i} : r.write[j] = old.write[j]
    BY <1>1, <1>2 DEF RequestShape
  <1> HIDE DEF r
  <1>7. AddsFit(r)
    <2>1. \A j \in Items : r.sees[j] = {}
      BY <1>1, <1>6 DEF Unrivalled, AddsFit
    <2>2. \A j \in Items \ {i} : Shows(Over(rows[j], r.write[j]), MaxImages[j])
      BY <1>1, <1>6 DEF Unrivalled, AddsFit
    <2>3. Shows(Over(rows[i], r.write[i]), MaxImages[i])
      BY <1>4, <1>6
    <2>4. QED
      BY <2>1, <2>2, <2>3 DEF AddsFit
  <1>8. Unrivalled(r)
    BY <1>1, <1>6, <1>7 DEF Unrivalled, UploadsDiffer, SelectFits, DeleteFits, DeletesUnused
  <1>9. QED
    BY <1>1, <1>5, <1>8, StaysUnrivalled

LEMMA BeginSelectKeepsSeqInv ==
    ASSUME IInv, SeqInv, NEW w \in Workers, NEW i \in Items, NEW list \in Seq(Assets),
           Len(list) <= MaxImages[i], NEW toGroup \in BOOLEAN,
           BeginSelect(w, i, list, toGroup)
    PROVE  SeqInv'
  <1> DEFINE r == [NoRequest EXCEPT
                     !.op = "select", !.item = i,
                     !.phase = IF toGroup /\ i \in Grouped THEN "siblings" ELSE "commit",
                     !.images = IF toGroup THEN list ELSE <<>>,
                     !.sees = [NoRequest.sees EXCEPT ![i] = Found(i)],
                     !.write = [NoRequest.write EXCEPT ![i] = Positions(list)]]
  <1>1. request' = [request EXCEPT ![w] = r] /\ Keep
    BY DEF BeginSelect, Begin, Keep, NoRequest
  <1>2. /\ r.op = "select" /\ r.todo = {} /\ r.phase # "calling"
        /\ r.images \in {list, <<>>}
        /\ r.write[i] = Positions(list) /\ \A j \in Items \ {i} : r.write[j] = Empty
        /\ r.sees[i] = DOMAIN rows[i] /\ \A j \in Items \ {i} : r.sees[j] = {}
    BY DEF NoRequest, Found
  <1> HIDE DEF r
  <1>3. Once(list) /\ Once(<<>>)
    BY DEF BeginSelect, Once
  <1>4. Shows(Positions(list), MaxImages[i])
    BY <1>3 DEF Shows
  <1>5. SelectFits(r)
    BY <1>2, <1>3, <1>4 DEF SelectFits
  <1>6. Unrivalled(r)
    BY <1>2, <1>5 DEF Unrivalled, AddsFit, UploadsDiffer, DeleteFits, DeletesUnused
  <1>7. QED
    BY <1>1, <1>6, StaysUnrivalled

LEMMA ReadSiblingsKeepsSeqInv ==
    ASSUME IInv, SeqInv, NEW w \in Workers, ReadSiblings(w)
    PROVE  SeqInv'
  <1> DEFINE old == request[w]
             siblings == {j \in Grouped \ {old.item} :
                             j \notin published /\ Len(old.images) <= MaxImages[j]}
             r == [old EXCEPT !.phase = "commit", !.todo = siblings]
  <1>1. /\ old \in RequestShape /\ old.op = "select" /\ Unrivalled(old)
    BY OldRequest DEF ReadSiblings, SeqInv, RequestOK, PhaseOK
  <1>2. request' = [request EXCEPT ![w] = r] /\ Keep
    BY <1>1 DEF ReadSiblings, IInv, Shapes, RequestShape
  <1>3. \A j \in siblings : Len(old.images) <= MaxImages[j]
    OBVIOUS
  <1> HIDE DEF siblings
  <1>4. /\ r.op = "select" /\ r.phase = "commit" /\ r.todo = siblings
        /\ r.images = old.images /\ r.sees = old.sees /\ r.write = old.write
    BY <1>1 DEF RequestShape
  <1> HIDE DEF r
  <1>5. SelectFits(r)
    BY <1>1, <1>3, <1>4 DEF Unrivalled, SelectFits
  <1>6. Unrivalled(r)
    BY <1>4, <1>5 DEF Unrivalled, AddsFit, UploadsDiffer, DeleteFits, DeletesUnused
  <1>7. QED
    BY <1>2, <1>6, StaysUnrivalled

LEMMA WriteSiblingKeepsSeqInv ==
    ASSUME IInv, SeqInv, NEW w \in Workers, NEW j \in Items, WriteSibling(w, j)
    PROVE  SeqInv'
  <1> DEFINE old == request[w]
             r == [old EXCEPT !.todo = old.todo \ {j},
                              !.sees = [old.sees EXCEPT ![j] = Found(j)],
                              !.write = [old.write EXCEPT ![j] = Positions(old.images)]]
  <1>1. /\ old \in RequestShape /\ Unrivalled(old) /\ Keep
        /\ old.op = "select" /\ old.phase = "commit" /\ j \in old.todo
    BY OldRequest DEF WriteSibling, SeqInv
  <1>2. request' = [request EXCEPT ![w] = r]
    BY <1>1 DEF WriteSibling, IInv, Shapes, RequestShape
  <1>3. /\ r.op = "select" /\ r.phase = "commit" /\ r.todo = old.todo \ {j}
        /\ r.images = old.images /\ old.images \in Seq(Assets)
        /\ r.write[j] = Positions(old.images)
        /\ \A i \in Items \ {j} : r.write[i] = old.write[i]
        /\ r.sees[j] = DOMAIN rows[j] /\ \A i \in Items \ {j} : r.sees[i] = old.sees[i]
    BY <1>1 DEF RequestShape, Found
  <1> HIDE DEF r
  <1>4. Once(old.images) /\ \A i \in old.todo : Len(old.images) <= MaxImages[i]
    BY <1>1 DEF Unrivalled, SelectFits
  <1>5. Shows(Positions(old.images), MaxImages[j])
    BY <1>1, <1>3, <1>4 DEF Shows
  <1>6. \A i \in Items \ {j} : \/ r.sees[i] = {} /\ r.write[i] = Empty
                               \/ r.sees[i] = DOMAIN rows[i] /\ Shows(r.write[i], MaxImages[i])
    BY <1>1, <1>3 DEF Unrivalled, SelectFits
  <1>7. SelectFits(r)
    BY <1>3, <1>4, <1>5, <1>6 DEF SelectFits
  <1>8. Unrivalled(r)
    BY <1>3, <1>7 DEF Unrivalled, AddsFit, UploadsDiffer, DeleteFits, DeletesUnused
  <1>9. QED
    BY <1>1, <1>2, <1>8, StaysUnrivalled

LEMMA BeginDeleteKeepsSeqInv ==
    ASSUME IInv, SeqInv, NEW w \in Workers, NEW a \in Assets, BeginDelete(w, a)
    PROVE  SeqInv'
  <1> DEFINE r == [NoRequest EXCEPT !.op = "delete", !.asset = a, !.phase = "renumber",
                                    !.todo = {i \in Items : a \in DOMAIN rows[i]}]
  <1>1. request' = [request EXCEPT ![w] = r] /\ Keep
    BY DEF BeginDelete, Begin, Keep
  <1>2. /\ r.op = "delete" /\ r.asset = a /\ r.phase = "renumber"
        /\ r.todo = {i \in Items : a \in DOMAIN rows[i]}
        /\ \A i \in Items : r.write[i] = Empty
    BY DEF NoRequest
  <1> HIDE DEF r
  <1>3. DeleteFits(r)
    <2>1. SUFFICES ASSUME NEW i \in Items, a \notin DOMAIN rows[i]
          PROVE  Shows(Over(Restrict(rows[i], DOMAIN rows[i] \ {a}), Empty), MaxImages[i])
      BY <1>2 DEF DeleteFits
    <2>2. rows[i] \in Tables(Nat) /\ {a} \cap DOMAIN rows[i] = {}
      BY <2>1, RowsAre
    <2>3. Restrict(rows[i], DOMAIN rows[i] \ {a}) = rows[i] /\ Over(rows[i], Empty) = rows[i]
      BY <2>2, RestrictNothing, OverEmpty
    <2>4. QED
      BY <2>3 DEF SeqInv, Carousels
  <1>4. DeletesUnused(r)
    BY <1>2 DEF DeletesUnused, BeginDelete, InUse, Published
  <1>5. Unrivalled(r)
    BY <1>2, <1>3, <1>4 DEF Unrivalled, AddsFit, UploadsDiffer, SelectFits
  <1>6. QED
    BY <1>1, <1>5, StaysUnrivalled

LEMMA RenumberKeepsSeqInv ==
    ASSUME IInv, SeqInv, NEW w \in Workers, NEW i \in Items, Renumber(w, i)
    PROVE  SeqInv'
  <1> DEFINE old == request[w]
             left == DOMAIN rows[i] \ {old.asset}
  <1>1. /\ old \in RequestShape /\ Unrivalled(old) /\ Keep
        /\ old.phase = "renumber" /\ old.op = "delete"
    BY OldRequest DEF Renumber, SeqInv, RequestOK, PhaseOK
  <1>2. PICK order \in [1..Cardinality(left) -> left] :
           /\ Once(order)
           /\ request' = [request EXCEPT
                 ![w].todo = @ \ {i}, ![w].write[i] = Renumbered(w, i, order),
                 ![w].sees[i] = DOMAIN Renumbered(w, i, order)]
    BY DEF Renumber
  <1> DEFINE column == Renumbered(w, i, order)
             r == [old EXCEPT !.todo = old.todo \ {i},
                              !.sees = [old.sees EXCEPT ![i] = DOMAIN column],
                              !.write = [old.write EXCEPT ![i] = column]]
  <1>3. Shows(Over(Restrict(rows[i], DOMAIN rows[i] \ {old.asset}), column), MaxImages[i])
    <2>1. rows[i] \in Tables(Nat) /\ MaxImages[i] \in Nat /\ Shows(rows[i], MaxImages[i])
      BY RowsAre DEF SeqInv, Carousels
    <2>2. column = Moved(rows[i], order)
      BY DEF Renumbered, Moved
    <2>3. QED
      BY <1>2, <2>1, <2>2, RenumberedShows
  <1> HIDE DEF column
  <1>4. request' = [request EXCEPT ![w] = r]
    BY <1>1, <1>2 DEF IInv, Shapes, RequestShape, column
  <1>5. /\ r.op = "delete" /\ r.phase = "renumber" /\ r.todo = old.todo \ {i}
        /\ r.asset = old.asset /\ r.write[i] = column
        /\ \A j \in Items \ {i} : r.write[j] = old.write[j]
    BY <1>1 DEF RequestShape
  <1> HIDE DEF r
  <1>6. DeleteFits(r)
    <2>1. \A j \in (Items \ r.todo) \ {i} :
             Shows(Over(Restrict(rows[j], DOMAIN rows[j] \ {r.asset}), r.write[j]), MaxImages[j])
      BY <1>1, <1>5 DEF Unrivalled, DeleteFits
    <2>2. QED
      BY <1>3, <1>5, <2>1 DEF DeleteFits
  <1>7. DeletesUnused(r)
    BY <1>1, <1>5 DEF Unrivalled, DeletesUnused
  <1>8. Unrivalled(r)
    BY <1>5, <1>6, <1>7 DEF Unrivalled, AddsFit, UploadsDiffer, SelectFits
  <1>9. QED
    BY <1>1, <1>4, <1>8, StaysUnrivalled

LEMMA BeginPublishKeepsSeqInv ==
    ASSUME IInv, SeqInv, NEW w \in Workers, NEW i \in Items, NEW list,
           BeginPublish(w, i, list)
    PROVE  SeqInv'
  <1> DEFINE r == [NoRequest EXCEPT !.op = "publish", !.item = i, !.phase = "claim",
                                    !.images = list]
  <1>1. r.op = "publish" /\ r.phase = "claim"
    BY DEF NoRequest
  <1>2. request' = [request EXCEPT ![w] = r] /\ Keep
    BY DEF BeginPublish, Begin, Keep
  <1> HIDE DEF r
  <1>3. Unrivalled(r)
    BY <1>1 DEF Unrivalled, AddsFit, UploadsDiffer, SelectFits, DeleteFits, DeletesUnused
  <1>4. QED
    BY <1>2, <1>3, StaysUnrivalled

-----------------------------------------------------------------------------

LEMMA LaterNoneUnrivalled ==
    ASSUME \A v \in Workers : request'[v] = NoRequest
    PROVE  (\A v \in Workers : Unrivalled(request[v]))'
  BY DEF Unrivalled, AddsFit, UploadsDiffer, SelectFits, DeleteFits, DeletesUnused, NoRequest

LEMMA CommitRowsKeepsSeqInv ==
    ASSUME OneWorker, IInv, SeqInv, NEW w \in Workers, CommitRows(w)
    PROVE  SeqInv'
  <1> DEFINE r == request[w]
  <1>1. /\ r \in RequestShape /\ RequestOK(r) /\ Unrivalled(r)
        /\ r.op \in {"upload", "generate", "select"} /\ r.item \in Items
        /\ r.op = "select" => DOMAIN r.new = {}
    BY OldRequest DEF CommitRows, SeqInv, RequestOK, PhaseOK
  <1>2. \A v \in Workers : request'[v] = NoRequest
    BY DEF OneWorker, CommitRows, Unsee
  <1>3. (\A v \in Workers : Unrivalled(request[v]))'
    BY <1>2, LaterNoneUnrivalled
  <1>4. Carousels'
    <2>1. SUFFICES ASSUME NEW i \in Items
          PROVE  Shows(Over(Restrict(rows[i], DOMAIN rows[i] \ r.sees[i]), r.write[i]),
                       MaxImages[i])
      BY DEF CommitRows, Carousels
    <2>2. rows[i] \in Tables(Nat) /\ r.write[i] \in Tables(Nat) /\ Shows(rows[i], MaxImages[i])
      BY RowsAre DEF SeqInv, Carousels
    <2>3. CASE r.op \in {"upload", "generate"}
      <3>1. r.sees[i] = {} /\ Shows(Over(rows[i], r.write[i]), MaxImages[i])
        BY <1>1, <2>3 DEF Unrivalled, AddsFit
      <3>2. {} \cap DOMAIN rows[i] = {}
        OBVIOUS
      <3>3. Restrict(rows[i], DOMAIN rows[i] \ {}) = rows[i]
        BY <2>2, <3>2, RestrictNothing
      <3>4. QED
        BY <3>1, <3>3
    <2>4. CASE r.op = "select" /\ r.sees[i] = {} /\ r.write[i] = Empty
      <3>1. {} \cap DOMAIN rows[i] = {}
        OBVIOUS
      <3>2. Restrict(rows[i], DOMAIN rows[i] \ {}) = rows[i]
        BY <2>2, <3>1, RestrictNothing
      <3>3. Over(rows[i], Empty) = rows[i]
        BY <2>2, OverEmpty
      <3>4. QED
        BY <2>2, <2>4, <3>2, <3>3
    <2>5. CASE r.sees[i] = DOMAIN rows[i] /\ Shows(r.write[i], MaxImages[i])
      <3>1. Over(Restrict(rows[i], DOMAIN rows[i] \ DOMAIN rows[i]), r.write[i]) = r.write[i]
        BY <2>2, ReplaceAll
      <3>2. QED
        BY <2>5, <3>1
    <2>6. QED
      BY <1>1, <2>3, <2>4, <2>5 DEF Unrivalled, SelectFits
  <1>5. UploadsAreDistinct'
    <2>1. SUFFICES ASSUME NEW a \in grouped', NEW b \in grouped',
                          file'[a] \in Files, file'[a] = file'[b]
          PROVE  a = b
      BY DEF UploadsAreDistinct
    <2>2. /\ \A x \in DOMAIN r.new : file'[x] = r.new[x]
          /\ \A x \in Assets \ DOMAIN r.new : file'[x] = file[x]
      BY DEF CommitRows, Over, IInv, Shapes
    <2>3. grouped \cap DOMAIN r.new = {} /\ grouped \subseteq Assets
      BY <1>1 DEF IInv, Shapes, GroupedAreUsed, RequestOK
    <2>4. CASE a \in grouped /\ b \in grouped
      BY <2>1, <2>2, <2>3, <2>4 DEF SeqInv, UploadsAreDistinct
    <2>5. CASE ~(a \in grouped /\ b \in grouped)
      <3>1. /\ r.item \in Grouped /\ a \in grouped \union DOMAIN r.new
            /\ b \in grouped \union DOMAIN r.new
        BY <2>5 DEF CommitRows
      <3>2. r.op = "upload"
        <4>1. CASE r.op = "generate"
          <5>1. \A x \in DOMAIN r.new : file'[x] \notin Files
            BY <1>1, <2>2, <4>1, MediaAssumption DEF Unrivalled
          <5>2. QED
            BY <2>1, <2>5, <3>1, <5>1
        <4>2. CASE r.op = "select"
          BY <1>1, <2>5, <3>1, <4>2
        <4>3. QED
          BY <1>1, <4>1, <4>2
      <3>3. \A x \in DOMAIN r.new : /\ \A y \in grouped : r.new[x] # file[y]
                                    /\ \A y \in DOMAIN r.new : r.new[x] = r.new[y] => x = y
        BY <1>1, <3>1, <3>2 DEF Unrivalled, UploadsDiffer
      <3>4. QED
        BY <2>1, <2>2, <2>3, <2>5, <3>1, <3>3
    <2>6. QED
      BY <2>4, <2>5
  <1>6. RecordIsComplete'
    BY DEF CommitRows, SeqInv, RecordIsComplete, Published
  <1>7. QED
    BY <1>3, <1>4, <1>5, <1>6 DEF SeqInv

LEMMA CommitDeleteKeepsSeqInv ==
    ASSUME OneWorker, IInv, SeqInv, NEW w \in Workers, CommitDelete(w)
    PROVE  SeqInv'
  <1> DEFINE r == request[w]
  <1>1. /\ Unrivalled(r) /\ r.op = "delete" /\ r.todo = {} /\ r.asset \in Assets
    BY OldRequest DEF CommitDelete, SeqInv, RequestOK, PhaseOK
  <1>2. \A v \in Workers : request'[v] = NoRequest
    BY DEF OneWorker, CommitDelete, Unsee
  <1>3. (\A v \in Workers : Unrivalled(request[v]))'
    BY <1>2, LaterNoneUnrivalled
  <1>4. Carousels'
    BY <1>1 DEF CommitDelete, Carousels, Unrivalled, DeleteFits
  <1>5. UploadsAreDistinct'
    <2>1. /\ file'[r.asset] = "gone" /\ \A a \in Assets \ {r.asset} : file'[a] = file[a]
          /\ grouped' = grouped /\ grouped \subseteq Assets
      BY <1>1 DEF CommitDelete, IInv, Shapes
    <2>2. QED
      BY <2>1, MediaAssumption DEF SeqInv, UploadsAreDistinct
  <1>6. RecordIsComplete'
    <2>1. SUFFICES ASSUME NEW i \in Items, Published(i)'
          PROVE  publication'[i].media = publication'[i].sent
      BY DEF RecordIsComplete
    <2> DEFINE p == publication[i]
    <2>2. p \in PublicationShape /\ p.media \in Seq(Assets \union {NoAsset})
      BY DEF IInv, Shapes, PublicationShape
    <2>3. publication'[i] = [p EXCEPT !.media = Without(p.media, r.asset)]
      BY DEF CommitDelete
    <2>4. /\ publication'[i].status = p.status /\ publication'[i].sent = p.sent
          /\ publication'[i].media = Without(p.media, r.asset)
      BY <2>2, <2>3 DEF PublicationShape
    <2>5. p.media = p.sent /\ r.asset \notin Range(p.media)
      BY <1>1, <2>1, <2>4 DEF Published, SeqInv, RecordIsComplete, Unrivalled, DeletesUnused
    <2>6. Without(p.media, r.asset) = p.media
      <3>1. \A k \in DOMAIN p.media : p.media[k] # r.asset
        BY <2>5 DEF Range
      <3>2. p.media = [k \in DOMAIN p.media |-> p.media[k]]
        BY <2>2
      <3>3. QED
        BY <3>1, <3>2 DEF Without
    <2>7. QED
      BY <2>4, <2>5, <2>6
  <1>7. QED
    BY <1>3, <1>4, <1>5, <1>6 DEF SeqInv

(* The steps of a publish request. *)
LEMMA PublishStepKeepsSeqInv ==
    ASSUME OneWorker, IInv, SeqInv, NEW w \in Workers, Claim(w) \/ Succeed(w) \/ Fail(w)
    PROVE  SeqInv'
  <1> DEFINE old == request[w]
             i == old.item
  <1>1. /\ old \in RequestShape /\ Unrivalled(old) /\ old.op = "publish" /\ i \in Items
    BY OldRequest DEF Claim, Succeed, Fail, SeqInv, RequestOK, PhaseOK
  <1>2. Carousels' /\ UploadsAreDistinct'
    BY DEF Claim, Succeed, Fail, SeqInv, Carousels, UploadsAreDistinct
  <1>3. publication[i] \in PublicationShape /\ publication \in [Items -> PublicationShape]
    BY <1>1 DEF IInv, Shapes
  <1>4. CASE Claim(w)
    <2>1. publication'[i].status = "pending" /\ publication'[i].media = publication'[i].sent
          /\ \A j \in Items \ {i} : publication'[j] = publication[j]
      BY <1>1, <1>3, <1>4 DEF Claim, Recorded
    <2>2. RecordIsComplete'
      BY <2>1 DEF SeqInv, RecordIsComplete, Published
    <2>3. \A v \in Workers : request'[v].op = "publish" /\ request'[v].item = i
      BY <1>1, <1>4 DEF Claim, OneWorker, IInv, Shapes, RequestShape
    <2>4. (\A v \in Workers : Unrivalled(request[v]))'
      BY <2>1, <2>3
      DEF Unrivalled, AddsFit, UploadsDiffer, SelectFits, DeleteFits, DeletesUnused
    <2>5. QED
      BY <1>2, <2>2, <2>4 DEF SeqInv
  <1>5. CASE Succeed(w) \/ Fail(w)
    <2>1. \A v \in Workers : request'[v] = NoRequest
      BY <1>5 DEF Succeed, Fail, OneWorker, IInv, Shapes
    <2>2. (\A v \in Workers : Unrivalled(request[v]))'
      BY <2>1, LaterNoneUnrivalled
    <2>3. publication[i].media = publication[i].sent
      BY <1>1, <1>5 DEF Succeed, Fail, Unrivalled
    <2>4. publication'[i].media = publication'[i].sent
          /\ \A j \in Items \ {i} : publication'[j] = publication[j]
      BY <1>1, <1>3, <1>5, <2>3 DEF Succeed, Fail, NoPublication, PublicationShape
    <2>5. RecordIsComplete'
      BY <2>4 DEF SeqInv, RecordIsComplete, Published
    <2>6. QED
      BY <1>2, <2>2, <2>5 DEF SeqInv
  <1>6. QED
    BY <1>4, <1>5

LEMMA OtherStepKeepsSeqInv ==
    ASSUME SeqInv, UNCHANGED <<file, grouped, rows, publication, request>>
    PROVE  SeqInv'
  <1>1. Carousels' /\ UploadsAreDistinct' /\ RecordIsComplete'
    BY DEF SeqInv, Carousels, UploadsAreDistinct, RecordIsComplete, Published
  <1>2. ASSUME NEW v \in Workers PROVE Unrivalled(request[v])'
    <2>1. Unrivalled(request[v])
      BY DEF SeqInv
    <2>2. AddsFit(request[v])' /\ SelectFits(request[v])' /\ DeleteFits(request[v])'
      BY <2>1 DEF Unrivalled, AddsFit, SelectFits, DeleteFits
    <2>3. UploadsDiffer(request[v])' /\ DeletesUnused(request[v])'
      BY <2>1 DEF Unrivalled, UploadsDiffer, DeletesUnused, Published
    <2>4. QED
      BY <2>1, <2>2, <2>3 DEF Unrivalled
  <1>3. QED
    BY <1>1, <1>2 DEF SeqInv

LEMMA SeqInvStep == ASSUME OneWorker PROVE IInv /\ SeqInv /\ [Next]_vars => SeqInv'
  <1> SUFFICES ASSUME IInv, SeqInv, [Next]_vars PROVE SeqInv'
    OBVIOUS
  <1>1. ASSUME NEW i \in Items, NEW list \in Lists(Assets, MaxImages[i])
        PROVE  list \in Seq(Assets) /\ Len(list) <= MaxImages[i]
    <2>1. list \in Seq(Assets)
      BY MediaAssumption, ListsAreSeqs
    <2>2. PICK k \in 0..MaxImages[i] : list \in [1..k -> Assets]
      BY DEF Lists
    <2>3. QED
      BY <2>1, <2>2, MediaAssumption
  <1>2. ASSUME NEW w \in Workers, NEW i \in Items,
               \/ \E a \in Assets : BeginGenerate(w, i, a)
               \/ BeginUpload(w, i)
               \/ \E list \in Lists(Assets, MaxImages[i]) :
                     \/ \E toGroup \in BOOLEAN : BeginSelect(w, i, list, toGroup)
                     \/ BeginPublish(w, i, list)
               \/ WriteSibling(w, i)
               \/ Renumber(w, i)
        PROVE  SeqInv'
    BY <1>1, <1>2, BeginAddKeepsSeqInv, BeginSelectKeepsSeqInv, BeginPublishKeepsSeqInv,
       WriteSiblingKeepsSeqInv, RenumberKeepsSeqInv
  <1>3. ASSUME NEW w \in Workers,
               \/ \E f \in Files : NextFile(w, f)
               \/ \E a \in Assets : BeginDelete(w, a)
               \/ Attach(w) \/ ReadSiblings(w) \/ CommitRows(w) \/ CommitDelete(w)
               \/ Claim(w) \/ Succeed(w) \/ Fail(w) \/ Abandon(w)
        PROVE  SeqInv'
    BY <1>3, NextFileKeepsSeqInv, BeginDeleteKeepsSeqInv, AttachKeepsSeqInv,
       ReadSiblingsKeepsSeqInv, CommitRowsKeepsSeqInv, CommitDeleteKeepsSeqInv,
       PublishStepKeepsSeqInv, AbandonKeepsSeqInv
  <1>4. CASE \E i \in Items : Archive(i)
    BY <1>4, OtherStepKeepsSeqInv DEF Archive
  <1>5. CASE UNCHANGED vars
    BY <1>5, OtherStepKeepsSeqInv DEF vars
  <1>6. QED
    BY <1>2, <1>3, <1>4, <1>5 DEF Next

LEMMA SeqInvariant == ASSUME OneWorker PROVE Spec => []SeqInv
  BY InitIInv, IInvStep, InitSeqInv, SeqInvStep, PTL DEF Spec

(* With one request at a time the stored selection of an item is a carousel  *)
(* that its platform takes, whatever is uploaded, chosen or deleted.         *)
THEOREM CarouselsWhenAlone == ASSUME OneWorker PROVE Spec => []SelectionIsACarousel
  <1>1. SeqInv => SelectionIsACarousel
    BY ShownIsCarousel, MediaAssumption DEF SeqInv, Carousels, SelectionIsACarousel
  <1>2. QED
    BY <1>1, SeqInvariant, PTL

(* With one request at a time no file is uploaded twice to a group.          *)
THEOREM DistinctWhenAlone == ASSUME OneWorker PROVE Spec => []UploadsAreDistinct
  <1>1. SeqInv => UploadsAreDistinct
    BY DEF SeqInv
  <1>2. QED
    BY <1>1, SeqInvariant, PTL

-----------------------------------------------------------------------------
(* One request at a time: the service implements Gallery. *)

(* The rows of a list are the rows of no other list.                         *)
LEMMA ListOfPositions ==
    ASSUME NEW list \in Seq(Assets), Once(list)
    PROVE  ListOf(Positions(list)) = list
  <1> DEFINE f == Positions(list)
             P(k, a) == f[a] = k - 1
  <1>1. DOMAIN f = Range(list) /\ Cardinality(DOMAIN f) = Len(list) /\ Len(list) \in Nat
    BY ListSize DEF Positions
  <1>2. \A k \in 1..Len(list) : list[k] \in DOMAIN f /\ f[list[k]] = k - 1
    BY PlaceOf
  <1> HIDE DEF f
  <1>3. ASSUME NEW k \in 1..Len(list)
        PROVE  (CHOOSE a \in DOMAIN f : f[a] = k - 1) = list[k]
    <2>1. list[k] \in DOMAIN f /\ P(k, list[k])
      BY <1>2
    <2>2. ASSUME NEW a \in DOMAIN f, P(k, a) PROVE a = list[k]
      <3>1. PICK m \in 1..Len(list) : list[m] = a
        BY <1>1 DEF Range
      <3>2. m - 1 = k - 1
        BY <1>2, <2>2, <3>1
      <3>3. QED
        BY <3>1, <3>2
    <2> HIDE DEF P
    <2>3. (CHOOSE a \in DOMAIN f : P(k, a)) = list[k]
      BY <2>1, <2>2
    <2>4. QED
      BY <2>3 DEF P
  <1>4. list = [k \in 1..Len(list) |-> list[k]]
    OBVIOUS
  <1>5. ListOf(f) = [k \in 1..Len(list) |-> list[k]]
    BY <1>1, <1>3 DEF ListOf
  <1>6. QED
    BY <1>4, <1>5 DEF f

LEMMA ListShown ==
    ASSUME NEW f, NEW n \in Nat, Shows(f, n)
    PROVE  /\ ListOf(f) \in Seq(Assets) /\ Once(ListOf(f)) /\ Len(ListOf(f)) <= n
           /\ Range(ListOf(f)) = DOMAIN f /\ Len(ListOf(f)) = Cardinality(DOMAIN f)
           /\ \A k \in 1..Len(ListOf(f)) : f[ListOf(f)[k]] = k - 1
           /\ DOMAIN ListOf(f) = 1..Len(ListOf(f)) /\ Len(ListOf(f)) \in Nat
  <1>1. PICK list \in Seq(Assets) : Once(list) /\ Len(list) <= n /\ f = Positions(list)
    BY DEF Shows
  <1>2. ListOf(f) = list
    BY <1>1, ListOfPositions
  <1>3. DOMAIN f = Range(list) /\ Len(list) = Cardinality(DOMAIN f)
    BY <1>1, ListSize DEF Positions
  <1>4. \A k \in 1..Len(list) : f[list[k]] = k - 1
    BY <1>1, PlaceOf
  <1>5. DOMAIN list = 1..Len(list) /\ Len(list) \in Nat
    OBVIOUS
  <1>6. QED
    BY <1>1, <1>2, <1>3, <1>4, <1>5

(* Rows added to others continue their list.                                 *)
LEMMA ListContinued ==
    ASSUME NEW f, NEW g, NEW n \in Nat, Shows(f, n), Shows(g, n),
           DOMAIN f \subseteq DOMAIN g, \A a \in DOMAIN f : g[a] = f[a]
    PROVE  OnLists!StartsWith(ListOf(g), ListOf(f))
  <1> DEFINE short == ListOf(f)
             long == ListOf(g)
  <1>1. /\ Range(short) = DOMAIN f /\ Len(short) = Cardinality(DOMAIN f) /\ Len(short) \in Nat
        /\ \A k \in 1..Len(short) : f[short[k]] = k - 1
        /\ DOMAIN short = 1..Len(short)
    BY ListShown
  <1>2. /\ Range(long) = DOMAIN g /\ Len(long) = Cardinality(DOMAIN g) /\ Len(long) \in Nat
        /\ \A k \in 1..Len(long) : g[long[k]] = k - 1
        /\ DOMAIN long = 1..Len(long) /\ long \in Seq(Assets) /\ Once(long)
    BY ListShown
  <1> HIDE DEF short, long
  <1>3. IsFiniteSet(DOMAIN g)
    BY <1>2, ListSize
  <1>4. Len(short) <= Len(long)
    BY <1>1, <1>2, <1>3, FS_Subset
  <1>5. ASSUME NEW k \in 1..Len(short) PROVE long[k] = short[k]
    <2>1. short[k] \in DOMAIN f /\ f[short[k]] = k - 1
      BY <1>1 DEF Range
    <2>2. PICK m \in 1..Len(long) : long[m] = short[k]
      BY <1>2, <2>1 DEF Range
    <2>3. m - 1 = k - 1
      BY <1>2, <2>1, <2>2
    <2>4. QED
      BY <1>1, <1>2, <2>2, <2>3
  <1>6. QED
    BY <1>1, <1>4, <1>5 DEF OnLists!StartsWith, short, long

(* The same images but one, in the same order.                               *)
KeepsOrder(f, g, a) ==
    /\ DOMAIN g = DOMAIN f \ {a}
    /\ \A b, c \in DOMAIN g : f[b] < f[c] => g[b] < g[c]

LEMMA ListWithout ==
    ASSUME NEW f, NEW g, NEW n \in Nat, Shows(f, n), Shows(g, n), NEW a, KeepsOrder(f, g, a)
    PROVE  OnLists!Rest(ListOf(f), a, ListOf(g))
  <1> DEFINE all == ListOf(f)
             rest == ListOf(g)
  <1>1. /\ Range(all) = DOMAIN f /\ Len(all) \in Nat
        /\ \A k \in 1..Len(all) : f[all[k]] = k - 1
        /\ DOMAIN all = 1..Len(all)
    BY ListShown
  <1>2. /\ Range(rest) = DOMAIN g /\ Len(rest) \in Nat
        /\ \A k \in 1..Len(rest) : g[rest[k]] = k - 1
        /\ DOMAIN rest = 1..Len(rest) /\ Once(rest)
    BY ListShown
  <1> HIDE DEF all, rest
  <1>3. OnLists!Images(rest) = OnLists!Images(all) \ {a}
    BY <1>1, <1>2 DEF OnLists!Images, Range, KeepsOrder
  <1>4. ASSUME NEW k \in DOMAIN rest, NEW l \in DOMAIN rest, k < l
        PROVE  \E m, q \in DOMAIN all : m < q /\ all[m] = rest[k] /\ all[q] = rest[l]
    <2>1. rest[k] \in DOMAIN g /\ rest[l] \in DOMAIN g /\ rest[k] # rest[l]
          /\ g[rest[k]] = k - 1 /\ g[rest[l]] = l - 1
      BY <1>2, <1>4 DEF Range, Once
    <2>2. rest[k] \in Range(all) /\ rest[l] \in Range(all)
      BY <1>1, <2>1 DEF KeepsOrder
    <2>3. PICK m \in DOMAIN all : all[m] = rest[k]
      BY <2>2 DEF Range
    <2>4. PICK q \in DOMAIN all : all[q] = rest[l]
      BY <2>2 DEF Range
    <2>5. f[rest[k]] = m - 1 /\ f[rest[l]] = q - 1
      BY <1>1, <2>3, <2>4
    <2>6. ~(q < m)
      <3>1. SUFFICES ASSUME q < m PROVE FALSE
        OBVIOUS
      <3>2. f[rest[l]] < f[rest[k]]
        BY <1>1, <2>5, <3>1
      <3>3. g[rest[l]] < g[rest[k]]
        BY <2>1, <3>2 DEF KeepsOrder
      <3>4. QED
        BY <1>2, <1>4, <2>1, <3>3
    <2>7. m # q
      BY <2>1, <2>3, <2>4
    <2>8. m < q
      BY <1>1, <2>6, <2>7
    <2>9. QED
      BY <2>3, <2>4, <2>8
  <1>5. QED
    BY <1>3, <1>4 DEF OnLists!Rest, all, rest

LEMMA RenumberedKeepsOrder ==
    ASSUME NEW f \in Tables(Nat), NEW n \in Nat, Shows(f, n), NEW a,
           NEW left, left = DOMAIN f \ {a},
           NEW order \in [1..Cardinality(left) -> left], Once(order),
           \A k, l \in DOMAIN order : k < l => f[order[k]] <= f[order[l]]
    PROVE  KeepsOrder(f, Over(Restrict(f, DOMAIN f \ {a}), Moved(f, order)), a)
  <1> DEFINE g == Positions(order)
  <1>1. /\ order \in Seq(Assets) /\ Range(order) = left
        /\ Over(Restrict(f, DOMAIN f \ {a}), Moved(f, order)) = g
    BY RenumberedRows
  <1>2. DOMAIN g = left /\ \A k \in 1..Len(order) : g[order[k]] = k - 1
    BY <1>1, PlaceOf DEF Positions
  <1>3. \A b \in left : f[b] \in Nat
    BY TableIs
  <1>4. DOMAIN order = 1..Len(order) /\ Len(order) \in Nat
    BY <1>1
  <1> HIDE DEF g
  <1>5. ASSUME NEW b \in left, NEW c \in left, f[b] < f[c] PROVE g[b] < g[c]
    <2>1. PICK k \in DOMAIN order : order[k] = b
      BY <1>1 DEF Range
    <2>2. PICK l \in DOMAIN order : order[l] = c
      BY <1>1 DEF Range
    <2>3. k # l /\ ~(l < k)
      <3>1. l < k => f[c] <= f[b]
        BY <2>1, <2>2
      <3>2. QED
        BY <1>3, <1>5, <2>1, <2>2, <3>1
    <2>4. g[b] = k - 1 /\ g[c] = l - 1
      BY <1>2, <1>4, <2>1, <2>2
    <2>5. QED
      BY <1>4, <2>3, <2>4
  <1>6. QED
    BY <1>1, <1>2, <1>5 DEF KeepsOrder

-----------------------------------------------------------------------------

(* What a request that meets no other is about to do, exactly: for adding,   *)
(* choosing, deleting and sending.                                           *)
AddsToOne(r) ==
    r.op \in {"upload", "generate"} => \A i \in Items \ {r.item} : r.write[i] = Empty

Untouched(r, i) == r.sees[i] = {} /\ r.write[i] = Empty
Given(r, i, list) == r.sees[i] = DOMAIN rows[i] /\ r.write[i] = Positions(list)

GivesOne(r, list) ==
    /\ Once(list) /\ Len(list) <= MaxImages[r.item] /\ Given(r, r.item, list)
    /\ \A j \in Items \ {r.item} :
          \/ Untouched(r, j)
          \/ j \in OnLists!Siblings(r.item, list) /\ Given(r, j, list)

GivesOnlyOne(r) == r.todo = {} /\ \A j \in Items \ {r.item} : Untouched(r, j)

GivesSiblings(r, list) ==
    /\ r.todo \subseteq OnLists!Siblings(r.item, list) /\ r.images = list
    /\ \A j \in OnLists!Siblings(r.item, list) :
          Published(j) \/ j \in r.todo \/ Given(r, j, list)

ChoosesFor(r, list) ==
    /\ GivesOne(r, list)
    /\ r.phase = "siblings" => r.images = list /\ GivesOnlyOne(r)
    /\ r.phase = "commit" => GivesOnlyOne(r) \/ GivesSiblings(r, list)

Chooses(r) == r.op = "select" => \E list \in Seq(Assets) : ChoosesFor(r, list)

Deletes(r) ==
    r.op = "delete" =>
        /\ Present(r.asset)
        /\ \A i \in Items \ r.todo :
              KeepsOrder(rows[i], Over(Restrict(rows[i], DOMAIN rows[i] \ {r.asset}), r.write[i]),
                         r.asset)

Sends(r) ==
    r.phase = "calling" =>
        \A k \in DOMAIN publication[r.item].sent : Present(publication[r.item].sent[k])

Exact(r) == AddsToOne(r) /\ Chooses(r) /\ Deletes(r) /\ Sends(r)

ExactInv == \A w \in Workers : Exact(request[w])

LEMMA NoneExact == Exact(NoRequest)
  BY DEF Exact, AddsToOne, Chooses, Deletes, Sends, NoRequest

LEMMA LaterNoneExact ==
    ASSUME \A v \in Workers : request'[v] = NoRequest
    PROVE  ExactInv'
  BY DEF ExactInv, Exact, AddsToOne, Chooses, Deletes, Sends, NoRequest

(* The parts are about the database only. *)
LEMMA ExactLater ==
    ASSUME NEW r, Exact(r), Keep
    PROVE  Exact(r)'
  <1>1. AddsToOne(r)' /\ Deletes(r)' /\ Sends(r)'
    BY DEF Exact, AddsToOne, Deletes, Sends, Present, Keep
  <1>2. Chooses(r)'
    BY DEF Exact, Chooses, ChoosesFor, GivesOne, GivesOnlyOne, GivesSiblings, Untouched, Given,
           Published, OnLists!Siblings, Keep
  <1>3. QED
    BY <1>1, <1>2 DEF Exact

LEMMA StaysExact ==
    ASSUME IInv, ExactInv, NEW w \in Workers, NEW r, Exact(r),
           request' = [request EXCEPT ![w] = r], Keep
    PROVE  ExactInv'
  <1> SUFFICES ASSUME NEW v \in Workers PROVE Exact(request[v])'
    BY DEF ExactInv
  <1>1. request'[v] = r \/ request'[v] = request[v]
    BY DEF IInv, Shapes
  <1>2. Exact(r)'
    BY ExactLater
  <1>3. Exact(request'[v])
    BY <1>1 DEF ExactInv
  <1>4. AddsToOne(request[v])' /\ Deletes(request[v])' /\ Sends(request[v])'
    BY <1>3 DEF Exact, AddsToOne, Deletes, Sends, Present, Keep
  <1>5. Chooses(request[v])'
    BY <1>3 DEF Exact, Chooses, ChoosesFor, GivesOne, GivesOnlyOne, GivesSiblings, Untouched,
                Given, Published, OnLists!Siblings, Keep
  <1>6. QED
    BY <1>4, <1>5 DEF Exact

LEMMA AbandonStaysExact ==
    ASSUME IInv, ExactInv, NEW w \in Workers, Abandon(w)
    PROVE  ExactInv'
  BY NoneExact, StaysExact DEF Abandon

LEMMA BeginAddStaysExact ==
    ASSUME IInv, ExactInv, NEW w \in Workers, NEW i \in Items,
           BeginUpload(w, i) \/ \E a \in Assets : BeginGenerate(w, i, a)
    PROVE  ExactInv'
  <1>1. CASE BeginUpload(w, i)
    <2> DEFINE r == [NoRequest EXCEPT !.op = "upload", !.item = i, !.phase = "file"]
    <2>1. r.op = "upload" /\ r.phase = "file" /\ \A j \in Items : r.write[j] = Empty
      BY DEF NoRequest
    <2>2. request' = [request EXCEPT ![w] = r] /\ Keep
      BY <1>1 DEF BeginUpload, Begin, Keep
    <2> HIDE DEF r
    <2>3. Exact(r)
      BY <2>1 DEF Exact, AddsToOne, Chooses, Deletes, Sends
    <2>4. QED
      BY <2>2, <2>3, StaysExact
  <1>2. ASSUME NEW a \in Assets, BeginGenerate(w, i, a) PROVE ExactInv'
    <2> DEFINE r == [NoRequest EXCEPT !.op = "generate", !.item = i, !.phase = "attach",
                                      !.asset = a, !.new = New(a, "generated")]
    <2>1. r.op = "generate" /\ r.phase = "attach" /\ \A j \in Items : r.write[j] = Empty
      BY DEF NoRequest
    <2>2. request' = [request EXCEPT ![w] = r] /\ Keep
      BY <1>2 DEF BeginGenerate, Begin, Keep
    <2> HIDE DEF r
    <2>3. Exact(r)
      BY <2>1 DEF Exact, AddsToOne, Chooses, Deletes, Sends
    <2>4. QED
      BY <2>2, <2>3, StaysExact
  <1>3. QED
    BY <1>1, <1>2

LEMMA NextFileStaysExact ==
    ASSUME IInv, ExactInv, NEW w \in Workers, NEW f \in Files, NextFile(w, f)
    PROVE  ExactInv'
  <1> DEFINE old == request[w]
             r(a, new) == [old EXCEPT !.asset = a, !.phase = "attach", !.new = new]
  <1>1. old \in RequestShape /\ Exact(old) /\ old.op = "upload" /\ Keep
    BY OldRequest DEF NextFile, ExactInv
  <1>2. \A a, new : /\ r(a, new).phase = "attach" /\ r(a, new).op = "upload"
                    /\ r(a, new).item = old.item /\ r(a, new).write = old.write
    BY <1>1 DEF RequestShape
  <1>3. \E a, new : request' = [request EXCEPT ![w] = r(a, new)]
    <2>1. ASSUME NEW a, request' = [request EXCEPT ![w].asset = a, ![w].phase = "attach"]
          PROVE  request' = [request EXCEPT ![w] = r(a, old.new)]
      BY <1>1, <2>1 DEF IInv, Shapes, RequestShape
    <2>2. ASSUME NEW a, request' = [request EXCEPT ![w].asset = a, ![w].phase = "attach",
                                                   ![w].new = Over(@, New(a, f))]
          PROVE  request' = [request EXCEPT ![w] = r(a, Over(old.new, New(a, f)))]
      BY <1>1, <2>2 DEF IInv, Shapes, RequestShape
    <2>3. \E a : \/ request' = [request EXCEPT ![w].asset = a, ![w].phase = "attach"]
                 \/ request' = [request EXCEPT ![w].asset = a, ![w].phase = "attach",
                                               ![w].new = Over(@, New(a, f))]
      BY DEF NextFile
    <2>4. PICK a : \/ request' = [request EXCEPT ![w] = r(a, old.new)]
                   \/ request' = [request EXCEPT ![w] = r(a, Over(old.new, New(a, f)))]
      <3> HIDE DEF r, old
      <3>1. QED
        BY <2>1, <2>2, <2>3
    <2> HIDE DEF r, old
    <2>5. QED
      BY <2>4
  <1>4. ASSUME NEW a, NEW new PROVE Exact(r(a, new))
    <2> HIDE DEF r
    <2>1. QED
      BY <1>1, <1>2 DEF Exact, AddsToOne, Chooses, Deletes, Sends
  <1> HIDE DEF r
  <1>5. QED
    BY <1>1, <1>3, <1>4, StaysExact

LEMMA AttachStaysExact ==
    ASSUME IInv, ExactInv, NEW w \in Workers, Attach(w)
    PROVE  ExactInv'
  <1> DEFINE old == request[w]
             i == old.item
             view == View(w, i)
             column == IF /\ Cardinality(DOMAIN view) < MaxImages[i]
                          /\ old.asset \notin DOMAIN view
                       THEN Over(old.write[i], [x \in {old.asset} |-> Cardinality(DOMAIN view)])
                       ELSE old.write[i]
             r == [old EXCEPT !.phase = IF old.op = "upload" THEN "file" ELSE "commit",
                              !.asset = NoAsset,
                              !.write = [old.write EXCEPT ![i] = column]]
  <1>1. /\ old \in RequestShape /\ Exact(old) /\ Keep
        /\ old.op \in {"upload", "generate"} /\ i \in Items
    BY OldRequest DEF Attach, ExactInv, RequestOK, PhaseOK
  <1>2. request' = [request EXCEPT ![w] = r]
    BY <1>1 DEF Attach, IInv, Shapes, RequestShape
  <1> HIDE DEF column
  <1>3. /\ r.op = old.op /\ r.item = i /\ r.phase # "calling"
        /\ \A j \in Items \ {i} : r.write[j] = old.write[j]
    BY <1>1 DEF RequestShape
  <1> HIDE DEF r
  <1>4. Exact(r)
    BY <1>1, <1>3 DEF Exact, AddsToOne, Chooses, Deletes, Sends
  <1>5. QED
    BY <1>1, <1>2, <1>4, StaysExact

LEMMA BeginSelectStaysExact ==
    ASSUME IInv, ExactInv, NEW w \in Workers, NEW i \in Items, NEW list \in Seq(Assets),
           Len(list) <= MaxImages[i], NEW toGroup \in BOOLEAN,
           BeginSelect(w, i, list, toGroup)
    PROVE  ExactInv'
  <1> DEFINE r == [NoRequest EXCEPT
                     !.op = "select", !.item = i,
                     !.phase = IF toGroup /\ i \in Grouped THEN "siblings" ELSE "commit",
                     !.images = IF toGroup THEN list ELSE <<>>,
                     !.sees = [NoRequest.sees EXCEPT ![i] = Found(i)],
                     !.write = [NoRequest.write EXCEPT ![i] = Positions(list)]]
  <1>1. request' = [request EXCEPT ![w] = r] /\ Keep
    BY DEF BeginSelect, Begin, Keep, NoRequest
  <1>2. /\ r.op = "select" /\ r.item = i /\ r.todo = {} /\ r.phase # "calling"
        /\ r.phase = "siblings" => r.images = list
        /\ r.write[i] = Positions(list) /\ \A j \in Items \ {i} : r.write[j] = Empty
        /\ r.sees[i] = DOMAIN rows[i] /\ \A j \in Items \ {i} : r.sees[j] = {}
    BY DEF NoRequest, Found
  <1>3. Once(list)
    BY DEF BeginSelect
  <1> HIDE DEF r
  <1>4. GivesOne(r, list) /\ GivesOnlyOne(r)
    <2>1. Given(r, i, list) /\ \A j \in Items \ {i} : Untouched(r, j)
      BY <1>2 DEF Untouched, Given
    <2>2. GivesOnlyOne(r)
      BY <1>2, <2>1 DEF GivesOnlyOne
    <2>3. GivesOne(r, list)
      <3>1. Given(r, r.item, list) /\ Len(list) <= MaxImages[r.item]
        BY <1>2, <2>1
      <3>2. \A j \in Items \ {r.item} : Untouched(r, j)
        BY <1>2, <2>1
      <3>3. QED
        BY <1>3, <3>1, <3>2 DEF GivesOne
    <2>4. QED
      BY <2>2, <2>3
  <1>5. ChoosesFor(r, list)
    BY <1>2, <1>4 DEF ChoosesFor
  <1>6. Exact(r)
    BY <1>2, <1>5 DEF Exact, AddsToOne, Chooses, Deletes, Sends
  <1>7. QED
    BY <1>1, <1>6, StaysExact

LEMMA ReadSiblingsStaysExact ==
    ASSUME IInv, ExactInv, NEW w \in Workers, ReadSiblings(w)
    PROVE  ExactInv'
  <1> DEFINE old == request[w]
             siblings == {j \in Grouped \ {old.item} :
                             j \notin published /\ Len(old.images) <= MaxImages[j]}
             r == [old EXCEPT !.phase = "commit", !.todo = siblings]
  <1>1. /\ old \in RequestShape /\ old.op = "select" /\ Exact(old)
        /\ old.phase = "siblings" /\ old.item \in Grouped
    BY OldRequest DEF ReadSiblings, ExactInv, RequestOK, PhaseOK
  <1>2. request' = [request EXCEPT ![w] = r] /\ Keep
    BY <1>1 DEF ReadSiblings, IInv, Shapes, RequestShape
  <1>3. PICK list \in Seq(Assets) : ChoosesFor(old, list)
    BY <1>1 DEF Exact, Chooses
  <1>4. old.images = list /\ GivesOnlyOne(old) /\ GivesOne(old, list)
    BY <1>1, <1>3 DEF ChoosesFor
  <1>5. siblings = OnLists!Siblings(old.item, list)
    BY <1>1, <1>4 DEF OnLists!Siblings
  <1> HIDE DEF siblings
  <1>6. /\ r.op = "select" /\ r.phase = "commit" /\ r.todo = siblings /\ r.item = old.item
        /\ r.images = old.images /\ r.sees = old.sees /\ r.write = old.write
    BY <1>1 DEF RequestShape
  <1> HIDE DEF r, old
  <1>7. GivesOne(r, list)
    BY <1>4, <1>6 DEF GivesOne, Untouched, Given
  <1>8. GivesSiblings(r, list)
    BY <1>4, <1>5, <1>6 DEF GivesSiblings
  <1>9. Exact(r)
    BY <1>6, <1>7, <1>8 DEF Exact, AddsToOne, Chooses, ChoosesFor, Deletes, Sends
  <1>10. QED
    BY <1>2, <1>9, StaysExact

LEMMA WriteSiblingStaysExact ==
    ASSUME IInv, ExactInv, NEW w \in Workers, NEW j \in Items, WriteSibling(w, j)
    PROVE  ExactInv'
  <1> DEFINE old == request[w]
             r == [old EXCEPT !.todo = old.todo \ {j},
                              !.sees = [old.sees EXCEPT ![j] = Found(j)],
                              !.write = [old.write EXCEPT ![j] = Positions(old.images)]]
  <1>1. /\ old \in RequestShape /\ Exact(old) /\ Keep
        /\ old.op = "select" /\ old.phase = "commit" /\ j \in old.todo
    BY OldRequest DEF WriteSibling, ExactInv
  <1>2. request' = [request EXCEPT ![w] = r]
    BY <1>1 DEF WriteSibling, IInv, Shapes, RequestShape
  <1>3. PICK list \in Seq(Assets) : ChoosesFor(old, list)
    BY <1>1 DEF Exact, Chooses
  <1>4. GivesOne(old, list) /\ GivesSiblings(old, list)
    BY <1>1, <1>3 DEF ChoosesFor, GivesOnlyOne
  <1>5. old.images = list /\ j \in OnLists!Siblings(old.item, list) /\ j # old.item
    BY <1>1, <1>4 DEF GivesSiblings, OnLists!Siblings
  <1>6. /\ r.op = "select" /\ r.phase = "commit" /\ r.todo = old.todo \ {j}
        /\ r.item = old.item /\ r.images = old.images
        /\ r.write[j] = Positions(list)
        /\ \A i \in Items \ {j} : r.write[i] = old.write[i]
        /\ r.sees[j] = DOMAIN rows[j] /\ \A i \in Items \ {j} : r.sees[i] = old.sees[i]
    BY <1>1, <1>5 DEF RequestShape, Found
  <1>7. old.item \in Items
    BY <1>1, OldRequest DEF RequestOK, PhaseOK
  <1> HIDE DEF r, old
  <1>8. Given(r, j, list)
    BY <1>6 DEF Given
  <1>9. ASSUME NEW i \in Items \ {j}
        PROVE  /\ Untouched(old, i) => Untouched(r, i)
               /\ Given(old, i, list) => Given(r, i, list)
    BY <1>6, <1>9 DEF Untouched, Given
  <1>10. GivesOne(r, list)
    BY <1>4, <1>5, <1>6, <1>7, <1>8, <1>9 DEF GivesOne
  <1>11. GivesSiblings(r, list)
    <2>1. OnLists!Siblings(r.item, list) \subseteq Items
      BY MediaAssumption DEF OnLists!Siblings
    <2>2. QED
      BY <1>4, <1>5, <1>6, <1>8, <1>9, <2>1 DEF GivesSiblings
  <1>12. Exact(r)
    BY <1>6, <1>10, <1>11 DEF Exact, AddsToOne, Chooses, ChoosesFor, Deletes, Sends
  <1>13. QED
    BY <1>1, <1>2, <1>12, StaysExact

LEMMA BeginDeleteStaysExact ==
    ASSUME IInv, ExactInv, NEW w \in Workers, NEW a \in Assets, BeginDelete(w, a)
    PROVE  ExactInv'
  <1> DEFINE r == [NoRequest EXCEPT !.op = "delete", !.asset = a, !.phase = "renumber",
                                    !.todo = {i \in Items : a \in DOMAIN rows[i]}]
  <1>1. request' = [request EXCEPT ![w] = r] /\ Keep
    BY DEF BeginDelete, Begin, Keep
  <1>2. /\ r.op = "delete" /\ r.asset = a /\ r.phase = "renumber"
        /\ r.todo = {i \in Items : a \in DOMAIN rows[i]}
        /\ \A i \in Items : r.write[i] = Empty
    BY DEF NoRequest
  <1> HIDE DEF r
  <1>3. ASSUME NEW i \in Items \ r.todo
        PROVE  KeepsOrder(rows[i], Over(Restrict(rows[i], DOMAIN rows[i] \ {a}), r.write[i]), a)
    <2>1. rows[i] \in Tables(Nat) /\ a \notin DOMAIN rows[i]
      BY <1>2, RowsAre
    <2>2. {a} \cap DOMAIN rows[i] = {}
      BY <2>1
    <2>3. Restrict(rows[i], DOMAIN rows[i] \ {a}) = rows[i] /\ Over(rows[i], Empty) = rows[i]
      BY <2>1, <2>2, RestrictNothing, OverEmpty
    <2>4. KeepsOrder(rows[i], rows[i], a)
      BY <2>1 DEF KeepsOrder
    <2>5. QED
      BY <1>2, <2>3, <2>4
  <1>4. Present(a)
    BY DEF BeginDelete
  <1>5. Exact(r)
    BY <1>2, <1>3, <1>4 DEF Exact, AddsToOne, Chooses, Deletes, Sends
  <1>6. QED
    BY <1>1, <1>5, StaysExact

LEMMA RenumberStaysExact ==
    ASSUME IInv, SeqInv, ExactInv, NEW w \in Workers, NEW i \in Items, Renumber(w, i)
    PROVE  ExactInv'
  <1> DEFINE old == request[w]
             left == DOMAIN rows[i] \ {old.asset}
  <1>1. /\ old \in RequestShape /\ Exact(old) /\ Keep
        /\ old.phase = "renumber" /\ old.op = "delete"
    BY OldRequest DEF Renumber, ExactInv, RequestOK, PhaseOK
  <1>2. PICK order \in [1..Cardinality(left) -> left] :
           /\ Once(order)
           /\ \A k, l \in DOMAIN order : k < l => rows[i][order[k]] <= rows[i][order[l]]
           /\ request' = [request EXCEPT
                 ![w].todo = @ \ {i}, ![w].write[i] = Renumbered(w, i, order),
                 ![w].sees[i] = DOMAIN Renumbered(w, i, order)]
    BY DEF Renumber
  <1> DEFINE column == Renumbered(w, i, order)
             r == [old EXCEPT !.todo = old.todo \ {i},
                              !.sees = [old.sees EXCEPT ![i] = DOMAIN column],
                              !.write = [old.write EXCEPT ![i] = column]]
  <1>3. KeepsOrder(rows[i], Over(Restrict(rows[i], DOMAIN rows[i] \ {old.asset}), column),
                   old.asset)
    <2>1. rows[i] \in Tables(Nat) /\ MaxImages[i] \in Nat /\ Shows(rows[i], MaxImages[i])
      BY RowsAre DEF SeqInv, Carousels
    <2>2. column = Moved(rows[i], order)
      BY DEF Renumbered, Moved
    <2>3. QED
      BY <1>2, <2>1, <2>2, RenumberedKeepsOrder
  <1> HIDE DEF column
  <1>4. request' = [request EXCEPT ![w] = r]
    BY <1>1, <1>2 DEF IInv, Shapes, RequestShape, column
  <1>5. /\ r.op = "delete" /\ r.phase = "renumber" /\ r.todo = old.todo \ {i}
        /\ r.asset = old.asset /\ r.write[i] = column
        /\ \A j \in Items \ {i} : r.write[j] = old.write[j]
    BY <1>1 DEF RequestShape
  <1> HIDE DEF r
  <1>6. Deletes(r)
    <2>1. Deletes(old)
      BY <1>1 DEF Exact
    <2>2. ASSUME NEW j \in Items \ r.todo
          PROVE  KeepsOrder(rows[j], Over(Restrict(rows[j], DOMAIN rows[j] \ {r.asset}), r.write[j]),
                            r.asset)
      <3>1. CASE j = i
        BY <1>3, <1>5, <3>1
      <3>2. CASE j # i
        BY <1>1, <1>5, <2>1, <2>2, <3>2 DEF Deletes
      <3>3. QED
        BY <3>1, <3>2
    <2>3. Present(r.asset)
      BY <1>1, <1>5, <2>1 DEF Deletes
    <2>4. QED
      BY <2>2, <2>3 DEF Deletes
  <1>7. Exact(r)
    BY <1>5, <1>6 DEF Exact, AddsToOne, Chooses, Sends
  <1>8. QED
    BY <1>1, <1>4, <1>7, StaysExact

LEMMA BeginPublishStaysExact ==
    ASSUME IInv, ExactInv, NEW w \in Workers, NEW i \in Items, NEW list,
           BeginPublish(w, i, list)
    PROVE  ExactInv'
  <1> DEFINE r == [NoRequest EXCEPT !.op = "publish", !.item = i, !.phase = "claim",
                                    !.images = list]
  <1>1. r.op = "publish" /\ r.phase = "claim"
    BY DEF NoRequest
  <1>2. request' = [request EXCEPT ![w] = r] /\ Keep
    BY DEF BeginPublish, Begin, Keep
  <1> HIDE DEF r
  <1>3. Exact(r)
    BY <1>1 DEF Exact, AddsToOne, Chooses, Deletes, Sends
  <1>4. QED
    BY <1>2, <1>3, StaysExact

(* Steps that end the only request. *)
LEMMA EndStaysExact ==
    ASSUME OneWorker, IInv, NEW w \in Workers,
           CommitRows(w) \/ CommitDelete(w) \/ Succeed(w) \/ Fail(w)
    PROVE  ExactInv'
  <1>1. CASE CommitRows(w) \/ CommitDelete(w)
    BY <1>1, LaterNoneExact DEF OneWorker, CommitRows, CommitDelete, Unsee
  <1>2. CASE Succeed(w) \/ Fail(w)
    BY <1>2, LaterNoneExact DEF OneWorker, Succeed, Fail, IInv, Shapes
  <1>3. QED
    BY <1>1, <1>2

LEMMA ClaimStaysExact ==
    ASSUME OneWorker, IInv, NEW w \in Workers, Claim(w)
    PROVE  ExactInv'
  <1> DEFINE old == request[w]
             i == old.item
  <1>1. old \in RequestShape /\ old.op = "publish" /\ i \in Items
    BY OldRequest DEF Claim, RequestOK, PhaseOK
  <1>2. publication'[i].sent = old.images
        /\ \A k \in DOMAIN old.images : file'[old.images[k]] \notin {"unused", "gone"}
    BY <1>1 DEF Claim, IInv, Shapes, Present
  <1>3. \A v \in Workers : request'[v].op = "publish" /\ request'[v].item = i
    BY <1>1 DEF Claim, OneWorker, IInv, Shapes, RequestShape
  <1> HIDE DEF old
  <1>4. ASSUME NEW v \in Workers PROVE Exact(request[v])'
    <2>1. AddsToOne(request[v])' /\ Chooses(request[v])' /\ Deletes(request[v])'
      BY <1>3 DEF AddsToOne, Chooses, Deletes
    <2>2. Sends(request[v])'
      BY <1>2, <1>3 DEF Sends, Present
    <2>3. QED
      BY <2>1, <2>2 DEF Exact
  <1>5. QED
    BY <1>4 DEF ExactInv

(* A post that is archived went out: it may be given a list or not.          *)
LEMMA ArchiveStaysExact ==
    ASSUME IInv, ExactInv, NEW i \in Items, Archive(i)
    PROVE  ExactInv'
  <1> SUFFICES ASSUME NEW v \in Workers PROVE Exact(request[v])'
    BY DEF ExactInv
  <1> DEFINE r == request[v]
  <1>1. /\ Exact(r) /\ request' = request /\ UNCHANGED <<file, rows, publication>>
        /\ published' = published \ {i} /\ Published(i)
    BY DEF ExactInv, Archive, IInv, PublishedSucceeded, Published
  <1>2. AddsToOne(request[v])' /\ Deletes(request[v])' /\ Sends(request[v])'
    BY <1>1 DEF Exact, AddsToOne, Deletes, Sends, Present
  <1>3. Chooses(request[v])'
    <2>1. SUFFICES ASSUME r.op = "select"
          PROVE  \E list \in Seq(Assets) : ChoosesFor(r, list)'
      BY <1>1 DEF Chooses, ChoosesFor, GivesOne, GivesOnlyOne, GivesSiblings, Untouched, Given
    <2>2. PICK list \in Seq(Assets) : ChoosesFor(r, list)
      BY <1>1, <2>1 DEF Exact, Chooses
    <2> DEFINE siblings == OnLists!Siblings(r.item, list)
    <2>3. siblings \subseteq siblings' /\ siblings' \subseteq siblings \union {i}
      BY <1>1 DEF OnLists!Siblings
    <2>4. (GivesOne(r, list) => GivesOne(r, list)') /\ (GivesOnlyOne(r) => GivesOnlyOne(r)')
      BY <1>1, <2>3 DEF GivesOne, GivesOnlyOne, Untouched, Given
    <2>5. GivesSiblings(r, list) => GivesSiblings(r, list)'
      BY <1>1, <2>3 DEF GivesSiblings, Published, Given
    <2>6. ChoosesFor(r, list)'
      BY <1>1, <2>2, <2>4, <2>5 DEF ChoosesFor
    <2>7. QED
      BY <2>6
  <1>4. QED
    BY <1>2, <1>3 DEF Exact

LEMMA StutterStaysExact ==
    ASSUME IInv, ExactInv, UNCHANGED vars
    PROVE  ExactInv'
  <1> SUFFICES ASSUME NEW v \in Workers PROVE Exact(request[v])'
    BY DEF ExactInv
  <1>1. Exact(request[v])
    BY DEF ExactInv
  <1>2. AddsToOne(request[v])' /\ Deletes(request[v])' /\ Sends(request[v])'
    BY <1>1 DEF Exact, AddsToOne, Deletes, Sends, Present, vars
  <1>3. Chooses(request[v])'
    BY <1>1 DEF Exact, Chooses, ChoosesFor, GivesOne, GivesOnlyOne, GivesSiblings, Untouched,
                Given, Published, OnLists!Siblings, vars
  <1>4. QED
    BY <1>2, <1>3 DEF Exact

LEMMA BoundedLists ==
    ASSUME NEW i \in Items, NEW list \in Lists(Assets, MaxImages[i])
    PROVE  list \in Seq(Assets) /\ Len(list) <= MaxImages[i]
  <1>1. list \in Seq(Assets)
    BY MediaAssumption, ListsAreSeqs
  <1>2. PICK k \in 0..MaxImages[i] : list \in [1..k -> Assets]
    BY DEF Lists
  <1>3. QED
    BY <1>1, <1>2, MediaAssumption

LEMMA ExactStep ==
    ASSUME OneWorker PROVE IInv /\ SeqInv /\ ExactInv /\ [Next]_vars => ExactInv'
  <1> SUFFICES ASSUME IInv, SeqInv, ExactInv, [Next]_vars PROVE ExactInv'
    OBVIOUS
  <1>1. ASSUME NEW w \in Workers, NEW i \in Items,
               \/ \E a \in Assets : BeginGenerate(w, i, a)
               \/ BeginUpload(w, i)
               \/ \E list \in Lists(Assets, MaxImages[i]) :
                     \/ \E toGroup \in BOOLEAN : BeginSelect(w, i, list, toGroup)
                     \/ BeginPublish(w, i, list)
               \/ WriteSibling(w, i)
               \/ Renumber(w, i)
        PROVE  ExactInv'
    BY <1>1, BoundedLists, BeginAddStaysExact, BeginSelectStaysExact, BeginPublishStaysExact,
       WriteSiblingStaysExact, RenumberStaysExact
  <1>2. ASSUME NEW w \in Workers,
               \/ \E f \in Files : NextFile(w, f)
               \/ \E a \in Assets : BeginDelete(w, a)
               \/ Attach(w) \/ ReadSiblings(w) \/ CommitRows(w) \/ CommitDelete(w)
               \/ Claim(w) \/ Succeed(w) \/ Fail(w) \/ Abandon(w)
        PROVE  ExactInv'
    BY <1>2, NextFileStaysExact, BeginDeleteStaysExact, AttachStaysExact,
       ReadSiblingsStaysExact, EndStaysExact, ClaimStaysExact, AbandonStaysExact
  <1>3. QED
    BY <1>1, <1>2, ArchiveStaysExact, StutterStaysExact DEF Next

-----------------------------------------------------------------------------
(* Step by step. *)

LEMMA InitRefines == Init => OnLists!GalleryInit
  <1> SUFFICES ASSUME Init PROVE OnLists!GalleryInit
    OBVIOUS
  <1>1. {a \in Assets : Present(a)} = {}
    BY DEF Init, Present
  <1>2. ASSUME NEW i \in Items PROVE ListOf(rows[i]) = <<>>
    <2>1. rows[i] = Positions(<<>>)
      BY DEF Init, Positions, Empty, Range
    <2>2. <<>> \in Seq(Assets) /\ Once(<<>>)
      BY DEF Once
    <2>3. QED
      BY <2>1, <2>2, ListOfPositions
  <1>3. {i \in Items : Published(i)} = {}
    BY DEF Init, Published, NoPublication
  <1>4. published = {}
    BY DEF Init
  <1>5. QED
    BY <1>1, <1>2, <1>3, <1>4 DEF OnLists!GalleryInit

(* Steps that no post shows. *)
LEMMA SameGallery ==
    ASSUME UNCHANGED <<file, rows, published>>,
           \A i \in Items : Published(i)' <=> Published(i),
           \A i \in Items : Published(i) => publication'[i].sent = publication[i].sent
    PROVE  UNCHANGED OnLists!galleryVars
  <1>1. {i \in Items : Published(i)}' = {i \in Items : Published(i)}
    OBVIOUS
  <1>2. UNCHANGED [i \in {i \in Items : Published(i)} |-> publication[i].sent]
    BY <1>1
  <1>3. UNCHANGED {a \in Assets : Present(a)}
    BY DEF Present
  <1>4. UNCHANGED [i \in Items |-> ListOf(rows[i])]
    BY DEF ListOf
  <1>5. QED
    BY <1>2, <1>3, <1>4 DEF OnLists!galleryVars

(* What a selection shows, as a list. *)
LEMMA ListFits ==
    ASSUME NEW i \in Items, NEW f, Shows(f, MaxImages[i])
    PROVE  /\ ListOf(f) \in Seq(Assets) /\ OnLists!Carousel(i, ListOf(f))
           /\ OnLists!Images(ListOf(f)) = DOMAIN f
  <1>1. MaxImages[i] \in Nat
    BY MediaAssumption
  <1>2. QED
    BY <1>1, ListShown DEF OnLists!Carousel, OnLists!Images, Once, Range

LEMMA AddRefines ==
    ASSUME IInv, IInv', SeqInv, SeqInv', ExactInv, NEW w \in Workers, CommitRows(w),
           request[w].op \in {"upload", "generate"},
           NEW i \in Items, i = request[w].item, NEW list, list = ListOf(rows'[i])
    PROVE  OnLists!Add(i, list)
  <1> DEFINE r == request[w]
  <1>1. /\ r \in RequestShape /\ AddsFit(r) /\ AddsToOne(r)
        /\ \A j \in Items : r.sees[j] = {} /\ rows[j] \in Tables(Nat)
                            /\ r.write[j] \in Tables(Nat) /\ Shows(rows[j], MaxImages[j])
    BY OldRequest, RowsAre DEF SeqInv, Carousels, Unrivalled, AddsFit, ExactInv, Exact
  <1>2. ASSUME NEW j \in Items
        PROVE  /\ rows'[j] = Over(rows[j], r.write[j])
               /\ DOMAIN r.write[j] \cap DOMAIN rows[j] = {}
               /\ j # i => rows'[j] = rows[j]
    <2>1. {} \cap DOMAIN rows[j] = {} /\ DOMAIN rows[j] \ {} = DOMAIN rows[j]
      OBVIOUS
    <2>2. Restrict(rows[j], DOMAIN rows[j] \ r.sees[j]) = rows[j]
      BY <1>1, <2>1, RestrictNothing
    <2>3. rows'[j] = Over(rows[j], r.write[j])
      BY <2>2 DEF CommitRows
    <2>4. j # i => r.write[j] = Empty
      BY <1>1 DEF AddsToOne
    <2>5. DOMAIN r.write[j] \cap DOMAIN rows[j] = {}
      BY <1>1 DEF CommitRows, PairsFree
    <2>6. QED
      BY <1>1, <2>3, <2>4, <2>5, OverEmpty
  <1>3. UNCHANGED <<publication, published>> /\ file' = Over(file, r.new)
    BY DEF CommitRows
  <1>4. Shows(rows'[i], MaxImages[i]) /\ \A a \in DOMAIN rows'[i] : Present(a)' /\ a \in Assets
    <2>1. rows'[i] \in Tables(Nat)
      BY DEF IInv, Shapes
    <2>2. QED
      BY <2>1, TableIs DEF SeqInv, Carousels, IInv, SelectionIsAvailable
  <1>5. OnLists!Images(list) \subseteq {a \in Assets : Present(a)}' /\ OnLists!Carousel(i, list)
    BY <1>4, ListFits
  <1>6. {a \in Assets : Present(a)} \subseteq {a \in Assets : Present(a)}'
    <2>1. \A a \in DOMAIN r.new : r.new[a] \in Contents
      BY <1>1, TableIs DEF RequestShape
    <2>2. ASSUME NEW a \in Assets, Present(a) PROVE Present(a)'
      <3>1. file'[a] = IF a \in DOMAIN r.new THEN r.new[a] ELSE file[a]
        BY <1>3 DEF Over, IInv, Shapes
      <3>2. QED
        BY <2>1, <2>2, <3>1, MediaAssumption DEF Present, Contents
    <2>3. QED
      BY <2>2
  <1>7. OnLists!StartsWith(list, ListOf(rows[i]))
    <2>1. /\ DOMAIN rows[i] \subseteq DOMAIN rows'[i]
          /\ \A a \in DOMAIN rows[i] : rows'[i][a] = rows[i][a]
      <3>1. /\ rows'[i] = Over(rows[i], r.write[i])
            /\ DOMAIN r.write[i] \cap DOMAIN rows[i] = {}
        BY <1>2
      <3>2. QED
        <4>1. /\ DOMAIN rows'[i] = DOMAIN rows[i] \union DOMAIN r.write[i]
              /\ \A a \in DOMAIN rows[i] \ DOMAIN r.write[i] : rows'[i][a] = rows[i][a]
          <5>1. rows[i] \in Tables(Nat) /\ r.write[i] \in Tables(Nat)
            BY <1>1
          <5> DEFINE g == r.write[i]
          <5> HIDE DEF g
          <5>2. /\ DOMAIN Over(rows[i], g) = DOMAIN rows[i] \union DOMAIN g
                /\ \A a \in DOMAIN rows[i] \ DOMAIN g : Over(rows[i], g)[a] = rows[i][a]
            BY <5>1, OverRows DEF g
          <5>3. QED
            BY <3>1, <5>2 DEF g
        <4>2. QED
          BY <3>1, <4>1
    <2>2. MaxImages[i] \in Nat
      BY MediaAssumption
    <2>3. QED
      BY <1>1, <1>4, <2>1, <2>2, ListContinued
  <1>8. [j \in Items |-> ListOf(rows[j])]' = [[j \in Items |-> ListOf(rows[j])] EXCEPT ![i] = list]
    BY <1>2
  <1>9. UNCHANGED [j \in {j \in Items : Published(j)} |-> publication[j].sent]
    BY <1>3 DEF Published
  <1>10. QED
    BY <1>3, <1>5, <1>6, <1>7, <1>8, <1>9 DEF OnLists!Add

LEMMA ChooseRefines ==
    ASSUME IInv, IInv', SeqInv', ExactInv, NEW w \in Workers, CommitRows(w),
           request[w].op = "select", NEW i \in Items, i = request[w].item
    PROVE  /\ ListOf(rows'[i]) \in Seq(Assets)
           /\ \E copies \in SUBSET OnLists!Siblings(i, ListOf(rows'[i])) :
                 OnLists!Choose(i, ListOf(rows'[i]), copies)
  <1> DEFINE r == request[w]
  <1>1. /\ r.phase = "commit" /\ r.todo = {} /\ Chooses(r) /\ DOMAIN r.new = {}
        /\ \A j \in Items : rows[j] \in Tables(Nat) /\ r.write[j] \in Tables(Nat)
    BY OldRequest, RowsAre DEF CommitRows, ExactInv, Exact, RequestOK, PhaseOK
  <1>2. PICK list \in Seq(Assets) :
           GivesOne(r, list) /\ (GivesOnlyOne(r) \/ GivesSiblings(r, list))
    BY <1>1 DEF Chooses, ChoosesFor
  <1>3. Once(list) /\ Len(list) <= MaxImages[i] /\ Given(r, i, list)
    BY <1>2 DEF GivesOne
  <1>4. ASSUME NEW j \in Items
        PROVE  /\ Given(r, j, list) => rows'[j] = Positions(list)
               /\ Untouched(r, j) => rows'[j] = rows[j]
    <2>1. rows'[j] = Over(Restrict(rows[j], DOMAIN rows[j] \ r.sees[j]), r.write[j])
      BY DEF CommitRows
    <2>2. Given(r, j, list) => rows'[j] = Positions(list)
      BY <1>1, <2>1, ReplaceAll DEF Given
    <2>3. ASSUME Untouched(r, j) PROVE rows'[j] = rows[j]
      <3>1. {} \cap DOMAIN rows[j] = {}
        OBVIOUS
      <3>2. Restrict(rows[j], DOMAIN rows[j] \ {}) = rows[j]
        BY <1>1, <3>1, RestrictNothing
      <3>3. Over(rows[j], Empty) = rows[j]
        BY <1>1, OverEmpty
      <3>4. QED
        BY <2>1, <2>3, <3>2, <3>3 DEF Untouched
    <2>4. QED
      BY <2>2, <2>3
  <1>5. ListOf(Positions(list)) = list /\ ListOf(rows'[i]) = list
    BY <1>3, <1>4, ListOfPositions
  <1> DEFINE siblings == OnLists!Siblings(i, list)
             copies == IF GivesOnlyOne(r) THEN {} ELSE {j \in siblings : Given(r, j, list)}
  <1>6. siblings \subseteq Items \ {i}
    BY MediaAssumption DEF OnLists!Siblings
  <1>7. copies = {} \/ siblings \ {j \in Items : Published(j)} \subseteq copies
    BY <1>1, <1>2, <1>6 DEF GivesSiblings
  <1>8. ASSUME NEW j \in Items
        PROVE  ListOf(rows'[j]) = IF j \in copies \union {i} THEN list ELSE ListOf(rows[j])
    <2>1. CASE j = i
      BY <1>5, <2>1
    <2>2. CASE j # i /\ j \in copies
      BY <1>4, <1>5, <2>2
    <2>3. CASE j # i /\ j \notin copies
      <3>1. Untouched(r, j)
        BY <1>2, <2>3 DEF GivesOne, GivesOnlyOne
      <3>2. QED
        BY <1>4, <2>3, <3>1
    <2>4. QED
      BY <2>1, <2>2, <2>3
  <1>9. copies \subseteq siblings
    OBVIOUS
  <1> HIDE DEF copies, siblings
  <1>10. UNCHANGED <<publication, published>> /\ file' = file
    <2>1. file' = Over(file, r.new) /\ UNCHANGED <<publication, published>>
      BY DEF CommitRows
    <2>2. Over(file, r.new) = file
      BY <1>1 DEF Over, IInv, Shapes
    <2>3. QED
      BY <2>1, <2>2
  <1>11. OnLists!Images(list) \subseteq {a \in Assets : Present(a)} /\ OnLists!Carousel(i, list)
    <2>1. Shows(rows'[i], MaxImages[i])
      BY DEF SeqInv, Carousels
    <2>2. OnLists!Carousel(i, list) /\ OnLists!Images(list) = DOMAIN rows'[i]
      BY <1>5, <2>1, ListFits
    <2>3. \A a \in DOMAIN rows'[i] : file'[a] \notin {"unused", "gone"} /\ a \in Assets
      <3>1. rows'[i] \in Tables(Nat)
        BY DEF IInv, Shapes
      <3>2. QED
        BY <3>1, TableIs DEF IInv, SelectionIsAvailable, Present
    <2>4. QED
      BY <1>10, <2>2, <2>3 DEF Present
  <1>12. UNCHANGED [j \in {j \in Items : Published(j)} |-> publication[j].sent]
    BY <1>10 DEF Published
  <1>13. UNCHANGED {a \in Assets : Present(a)}
    BY <1>10 DEF Present
  <1>14. [j \in Items |-> ListOf(rows[j])]' =
            [j \in Items |-> IF j \in copies \union {i} THEN list ELSE [k \in Items |-> ListOf(rows[k])][j]]
    BY <1>8
  <1>15. OnLists!Choose(i, list, copies)
    BY <1>7, <1>9, <1>10, <1>11, <1>12, <1>13, <1>14 DEF OnLists!Choose, siblings
  <1>16. QED
    BY <1>5, <1>9, <1>15 DEF siblings

LEMMA DeleteRefines ==
    ASSUME IInv, IInv', SeqInv, SeqInv', ExactInv, NEW w \in Workers, CommitDelete(w),
           NEW a, a = request[w].asset
    PROVE  a \in Assets /\ Present(a) /\ OnLists!Delete(a)
  <1> DEFINE r == request[w]
             later == {b \in Assets : Present(b)} \ {a}
  <1>1. /\ r.op = "delete" /\ r.todo = {} /\ a \in Assets
        /\ Deletes(r) /\ DeletesUnused(r)
    BY OldRequest DEF CommitDelete, ExactInv, Exact, SeqInv, Unrivalled, RequestOK, PhaseOK
  <1>2. Present(a)
    BY <1>1 DEF Deletes
  <1>3. {b \in Assets : Present(b)}' = later
    BY <1>1 DEF CommitDelete, Present, IInv, Shapes
  <1>4. ASSUME NEW i \in Items
        PROVE  /\ Shows(rows[i], MaxImages[i]) /\ Shows(rows'[i], MaxImages[i])
               /\ KeepsOrder(rows[i], rows'[i], a)
    <2>1. rows'[i] = Over(Restrict(rows[i], DOMAIN rows[i] \ {r.asset}), r.write[i])
      BY DEF CommitDelete
    <2>2. QED
      BY <1>1, <2>1 DEF Deletes, SeqInv, Carousels
  <1>5. ASSUME NEW i \in Items
        PROVE  ListOf(rows'[i]) \in Seq(later) /\ OnLists!Rest(ListOf(rows[i]), a, ListOf(rows'[i]))
    <2>1. MaxImages[i] \in Nat
      BY MediaAssumption
    <2>2. OnLists!Rest(ListOf(rows[i]), a, ListOf(rows'[i]))
      BY <1>4, <2>1, ListWithout
    <2>3. ListOf(rows'[i]) \in Seq(Assets) /\ Range(ListOf(rows'[i])) = DOMAIN rows'[i]
      BY <1>4, <2>1, ListShown
    <2>4. DOMAIN rows'[i] \subseteq later
      <3>1. rows'[i] \in Tables(Nat)
        BY DEF IInv, Shapes
      <3>2. DOMAIN rows'[i] \subseteq {b \in Assets : Present(b)}'
        BY <3>1, TableIs DEF IInv, SelectionIsAvailable
      <3>3. QED
        BY <1>3, <3>2
    <2> HIDE DEF later
    <2>5. ASSUME NEW list \in Seq(Assets), Range(list) \subseteq later
          PROVE  list \in Seq(later)
      <3>1. \A k \in 1..Len(list) : list[k] \in later
        BY <2>5 DEF Range
      <3>2. QED
        BY <3>1
    <2>6. QED
      BY <2>2, <2>3, <2>4, <2>5
  <1>6. ASSUME NEW i \in Items, Published(i)
        PROVE  a \notin OnLists!Images(publication[i].sent)
    <2>1. publication[i].media = publication[i].sent /\ a \notin Range(publication[i].media)
      BY <1>1, <1>6 DEF DeletesUnused, SeqInv, RecordIsComplete
    <2>2. QED
      BY <2>1 DEF OnLists!Images, Range
  <1>7. published' = published
    BY DEF CommitDelete
  <1>8. \A i \in Items : /\ publication'[i].status = publication[i].status
                         /\ publication'[i].sent = publication[i].sent
    BY DEF CommitDelete, IInv, Shapes, PublicationShape
  <1>9. UNCHANGED [j \in {j \in Items : Published(j)} |-> publication[j].sent]
    <2>1. {j \in Items : Published(j)}' = {j \in Items : Published(j)}
      BY <1>8 DEF Published
    <2>2. QED
      BY <1>8, <2>1
  <1> HIDE DEF later
  <1>10. [i \in Items |-> ListOf(rows[i])]' \in [Items -> Seq({b \in Assets : Present(b)}')]
    BY <1>3, <1>5
  <1>11. \A i \in Items : OnLists!Rest([j \in Items |-> ListOf(rows[j])][i], a,
                                       [j \in Items |-> ListOf(rows[j])]'[i])
    BY <1>5
  <1>12. OnLists!Delete(a)
    BY <1>3, <1>6, <1>7, <1>9, <1>10, <1>11 DEF OnLists!Delete, later
  <1>13. QED
    BY <1>1, <1>2, <1>12

LEMMA SucceedRefines ==
    ASSUME IInv, ExactInv, NEW w \in Workers, Succeed(w),
           NEW i \in Items, i = request[w].item, NEW list, list = publication[i].sent
    PROVE  OnLists!Publish(i, list) /\ Published(i)' /\ publication'[i].sent = list
  <1>1. /\ publication[i].status = "pending" /\ publication[i] \in PublicationShape
        /\ \A k \in DOMAIN publication[i].sent : Present(publication[i].sent[k])
    BY OldRequest DEF Succeed, RequestOK, ExactInv, Exact, Sends, IInv, Shapes
  <1>2. /\ publication'[i].status = "succeeded" /\ publication'[i].sent = publication[i].sent
        /\ \A j \in Items \ {i} : publication'[j] = publication[j]
        /\ published' = published \union {i} /\ UNCHANGED <<file, rows>>
    BY <1>1 DEF Succeed, IInv, Shapes, PublicationShape
  <1> DEFINE out == {j \in Items : Published(j)}
             sent == [j \in out |-> publication[j].sent]
  <1>3. out' = out \union {i} /\ i \notin out
    BY <1>1, <1>2 DEF Published
  <1>4. sent' = [j \in out \union {i} |-> IF j = i THEN list ELSE sent[j]]
    BY <1>2, <1>3
  <1>5. OnLists!Images(list) \subseteq {a \in Assets : Present(a)}
    BY <1>1 DEF OnLists!Images, PublicationShape
  <1>6. UNCHANGED {a \in Assets : Present(a)} /\ UNCHANGED [j \in Items |-> ListOf(rows[j])]
    BY <1>2 DEF Present
  <1>7. DOMAIN sent = out
    OBVIOUS
  <1>8. OnLists!Publish(i, list)
    BY <1>2, <1>3, <1>4, <1>5, <1>6, <1>7 DEF OnLists!Publish
  <1>9. QED
    BY <1>2, <1>8 DEF Published

LEMMA ArchiveRefines == ASSUME NEW i \in Items, Archive(i) PROVE OnLists!Archive(i)
  <1>1. /\ UNCHANGED {a \in Assets : Present(a)} /\ UNCHANGED [j \in Items |-> ListOf(rows[j])]
        /\ UNCHANGED [j \in {j \in Items : Published(j)} |-> publication[j].sent]
    BY DEF Archive, Present, Published
  <1>2. QED
    BY <1>1 DEF Archive, OnLists!Archive

LEMMA RefineStep ==
    ASSUME OneWorker, IInv, IInv', SeqInv, SeqInv', ExactInv, [Next]_vars
    PROVE  OnLists!GalleryNext \/ UNCHANGED OnLists!galleryVars
  <1>1. ASSUME UNCHANGED <<file, rows, publication, published>>
        PROVE  UNCHANGED OnLists!galleryVars
    BY <1>1, SameGallery DEF Published
  <1>2. ASSUME NEW w \in Workers, CommitRows(w) PROVE OnLists!GalleryNext
    <2> DEFINE i == request[w].item
    <2>1. request[w].op \in {"upload", "generate", "select"} /\ i \in Items
      BY <1>2, OldRequest DEF CommitRows, RequestOK, PhaseOK
    <2>2. ListOf(rows'[i]) \in {[j \in Items |-> ListOf(rows[j])]'[k] : k \in Items}
      BY <2>1
    <2> HIDE DEF i
    <2>3. CASE request[w].op \in {"upload", "generate"}
      <3>1. OnLists!Add(i, ListOf(rows'[i]))
        BY <1>2, <2>1, <2>3, AddRefines DEF i
      <3>2. QED
        BY <2>1, <2>2, <3>1 DEF OnLists!GalleryNext
    <2>4. CASE request[w].op = "select"
      <3>1. \E copies \in SUBSET OnLists!Siblings(i, ListOf(rows'[i])) :
               OnLists!Choose(i, ListOf(rows'[i]), copies)
        BY <1>2, <2>1, <2>4, ChooseRefines DEF i
      <3>2. QED
        BY <2>1, <2>2, <3>1 DEF OnLists!GalleryNext
    <2>5. QED
      BY <2>1, <2>3, <2>4
  <1>3. ASSUME NEW w \in Workers, CommitDelete(w) PROVE OnLists!GalleryNext
    <2>1. /\ request[w].asset \in {a \in Assets : Present(a)}
          /\ OnLists!Delete(request[w].asset)
      BY <1>3, DeleteRefines
    <2>2. QED
      BY <2>1 DEF OnLists!GalleryNext
  <1>4. ASSUME NEW w \in Workers, Claim(w) \/ Fail(w) PROVE UNCHANGED OnLists!galleryVars
    <2>1. PICK i \in Items : i = request[w].item
      BY <1>4, OldRequest DEF Claim, Fail, RequestOK, PhaseOK
    <2>2. publication[i].status \in {"none", "pending"}
      BY <1>4, <2>1, OldRequest DEF Claim, Fail, RequestOK
    <2>3. /\ publication'[i].status \in {"none", "pending"}
          /\ \A j \in Items \ {i} : publication'[j] = publication[j]
          /\ UNCHANGED <<file, rows, published>>
      BY <1>4, <2>1 DEF Claim, Fail, NoPublication, IInv, Shapes
    <2>4. \A j \in Items : /\ Published(j)' <=> Published(j)
                           /\ Published(j) => publication'[j].sent = publication[j].sent
      BY <2>2, <2>3 DEF Published
    <2>5. QED
      BY <2>3, <2>4, SameGallery
  <1>5. ASSUME NEW w \in Workers, Succeed(w) PROVE OnLists!GalleryNext
    <2>1. PICK i \in Items : i = request[w].item
      BY <1>5, OldRequest DEF Succeed, RequestOK, PhaseOK
    <2>2. PICK list : list = publication[i].sent
      OBVIOUS
    <2>3. OnLists!Publish(i, list) /\ Published(i)' /\ publication'[i].sent = list
      BY <1>5, <2>1, <2>2, SucceedRefines
    <2> DEFINE sent == [j \in {k \in Items : Published(k)} |-> publication[j].sent]
    <2>4. list \in {sent'[k] : k \in DOMAIN sent'}
      <3>1. i \in DOMAIN sent' /\ sent'[i] = list
        BY <2>3
      <3>2. QED
        BY <3>1
    <2>5. QED
      BY <2>3, <2>4 DEF OnLists!GalleryNext
  <1>6. ASSUME NEW i \in Items, Archive(i) PROVE OnLists!GalleryNext
    BY <1>6, ArchiveRefines DEF OnLists!GalleryNext
  <1>7. ASSUME Keep PROVE UNCHANGED OnLists!galleryVars
    BY <1>1, <1>7 DEF Keep
  <1>8. ASSUME NEW w \in Workers, NEW i \in Items,
               \/ \E a \in Assets : BeginGenerate(w, i, a)
               \/ BeginUpload(w, i)
               \/ \E list \in Lists(Assets, MaxImages[i]) :
                     \/ \E toGroup \in BOOLEAN : BeginSelect(w, i, list, toGroup)
                     \/ BeginPublish(w, i, list)
               \/ WriteSibling(w, i)
               \/ Renumber(w, i)
        PROVE  Keep
    BY <1>8 DEF BeginGenerate, BeginUpload, BeginSelect, BeginPublish, WriteSibling, Renumber, Keep
  <1>9. ASSUME NEW w \in Workers,
               \/ \E f \in Files : NextFile(w, f)
               \/ \E a \in Assets : BeginDelete(w, a)
               \/ Attach(w) \/ ReadSiblings(w) \/ Abandon(w)
        PROVE  Keep
    BY <1>9 DEF NextFile, BeginDelete, Attach, ReadSiblings, Abandon, Keep
  <1>10. UNCHANGED vars => Keep
    BY DEF vars, Keep
  <1>11. QED
    BY <1>2, <1>3, <1>4, <1>5, <1>6, <1>7, <1>8, <1>9, <1>10 DEF Next

(* With one request at a time, what the requests read and write, statement   *)
(* by statement, amounts to operations on lists of images: images are added  *)
(* behind what a post shows, a list is chosen for a post and its unpublished *)
(* siblings, an image that never went out is taken out of every list without *)
(* changing the order of the rest, and a post goes out with images there are.*)
THEOREM ListsWhenAlone == ASSUME OneWorker PROVE Spec => ImplementsGallery
  <1>1. Init => ExactInv
    BY NoneExact DEF Init, ExactInv
  <1>2. IInv /\ SeqInv /\ ExactInv /\ [Next]_vars => ExactInv'
    BY ExactStep
  <1>3. IInv /\ IInv' /\ SeqInv /\ SeqInv' /\ ExactInv /\ [Next]_vars
           => [OnLists!GalleryNext]_(OnLists!galleryVars)
    BY RefineStep
  <1>4. QED
    BY <1>1, <1>2, <1>3, Invariant, SeqInvariant, InitRefines, PTL
    DEF Spec, ImplementsGallery, OnLists!GallerySpec

=============================================================================
