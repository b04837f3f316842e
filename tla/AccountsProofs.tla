---------------------------- MODULE AccountsProofs ---------------------------
(***************************************************************************)
(* Theorems about Accounts, for any destinations, exchanges and number of  *)
(* requests at once.                                                       *)
(***************************************************************************)
EXTENDS Accounts, MetaExchange, WellFoundedInduction, SequenceTheorems, TLAPS

(* Functions from some of the ids, or attempts, to values. *)
Flags == UNION {[D -> BOOLEAN] : D \in SUBSET Ids}
Record == [account : Ids \union {NoId}, via : Ids]
Records == UNION {[D -> Record] : D \in SUBSET Publications}

RequestShape ==
    [op : {"none", "connect", "activate", "disconnect", "publish"},
     step : {"none", "find", "deactivate", "commit"},
     todo : Seq(Destinations), platform : Platforms \union {"none"},
     target : Ids \union {NoId}, known : BOOLEAN, dirty : SUBSET Ids]

Shapes ==
    /\ accounts \in Flags
    /\ gone \subseteq Ids
    /\ DOMAIN accounts \cap gone = {}
    /\ publications \in Records
    /\ requests \in [Requests -> RequestShape]

(* The two unique keys. *)
KeysHold ==
    /\ OneActiveEach(accounts)
    /\ \A x, y \in DOMAIN accounts : x[1] = y[1] => x = y

(* An attempt names the account it used until that is deleted. *)
HistoryHolds ==
    \A p \in DOMAIN publications :
        /\ publications[p].via \in DOMAIN accounts \union gone
        /\ publications[p].account = IF publications[p].via \in gone THEN NoId
                                     ELSE publications[p].via

(* What a switching request is about. *)
AboutOK(request) ==
    /\ request.op \in {"connect", "activate"} => request.step # "none"
    /\ request.op = "connect" => request.todo # <<>>
    /\ request.op = "activate" => request.step # "find"
    /\ request.op \in {"activate", "disconnect"} => request.target # NoId
    /\ request.step = "deactivate" => request.op \in {"connect", "activate"}
    /\ request.op = "connect" /\ request.step # "find" =>
          /\ request.platform = PlatformOf[Head(request.todo)]
          /\ request.target # NoId => request.target[1] = Head(request.todo)
    /\ request.op = "activate" => request.platform = Platform(request.target)

(* What a request that nobody disturbed knows of its target is what the table*)
(* holds, and it clears the flags of all the other active accounts of the    *)
(* network.                                                                  *)
FreshOK(request, rows) ==
    request.op \in {"connect", "activate"} /\ request.step # "find" =>
        /\ request.target # NoId => /\ request.target \in DOMAIN rows
                                   /\ request.known = rows[request.target]
        /\ request.step = "commit" =>
              request.dirty = Active(rows, request.platform) \ {request.target}

RequestsOK ==
    \A q \in Requests : /\ AboutOK(requests[q])
                        /\ q \notin disturbed => FreshOK(requests[q], accounts)

AccountsIInv == Shapes /\ KeysHold /\ HistoryHolds /\ RequestsOK

-----------------------------------------------------------------------------
(* Functions on ids. *)

LEMMA FlagsAre ==
    ASSUME NEW f
    PROVE  f \in Flags <=> /\ f = [x \in DOMAIN f |-> f[x]] /\ DOMAIN f \subseteq Ids
                           /\ \A x \in DOMAIN f : f[x] \in BOOLEAN
  <1>1. ASSUME f \in Flags
        PROVE  /\ f = [x \in DOMAIN f |-> f[x]] /\ DOMAIN f \subseteq Ids
               /\ \A x \in DOMAIN f : f[x] \in BOOLEAN
    <2>1. PICK D \in SUBSET Ids : f \in [D -> BOOLEAN]
      BY <1>1 DEF Flags
    <2>2. QED
      BY <2>1
  <1>2. ASSUME f = [x \in DOMAIN f |-> f[x]], DOMAIN f \subseteq Ids,
               \A x \in DOMAIN f : f[x] \in BOOLEAN
        PROVE  f \in Flags
    <2>1. f \in [DOMAIN f -> BOOLEAN]
      BY <1>2
    <2>2. QED
      BY <1>2, <2>1 DEF Flags
  <1>3. QED
    BY <1>1, <1>2

LEMMA NothingIs == Nothing \in Flags /\ Nothing \in Records /\ DOMAIN Nothing = {}
  <1>1. DOMAIN Nothing = {} /\ Nothing \in [{} -> BOOLEAN] /\ Nothing \in [{} -> Record]
    BY DEF Nothing
  <1>2. Nothing \in Flags
    BY <1>1 DEF Flags
  <1>3. Nothing \in Records
    BY <1>1 DEF Records
  <1>4. QED
    BY <1>1, <1>2, <1>3

-----------------------------------------------------------------------------
(* Steps in general. *)

LEMMA IdleIs == /\ Idle \in RequestShape /\ AboutOK(Idle)
                /\ \A rows : FreshOK(Idle, rows)
  <1>1. Idle \in RequestShape
    BY NothingIs DEF Idle, RequestShape
  <1>2. AboutOK(Idle)
    BY DEF Idle, AboutOK
  <1>3. \A rows : FreshOK(Idle, rows)
    BY DEF Idle, FreshOK
  <1>4. QED
    BY <1>1, <1>2, <1>3

(* A step that reads, or gives up. *)
LEMMA Reads ==
    ASSUME AccountsIInv, NEW q \in Requests, NEW x \in RequestShape, AboutOK(x),
           requests' = [requests EXCEPT ![q] = x],
           UNCHANGED <<accounts, gone, publications>>,
           disturbed \ {q} \subseteq disturbed',
           q \notin disturbed' => FreshOK(x, accounts)
    PROVE  AccountsIInv'
  <1>1. Shapes'
    BY DEF AccountsIInv, Shapes
  <1>2. KeysHold' /\ HistoryHolds'
    BY DEF AccountsIInv, KeysHold, OneActiveEach, HistoryHolds
  <1>3. RequestsOK'
    <2> SUFFICES ASSUME NEW p \in Requests
                 PROVE  /\ AboutOK(requests'[p])
                        /\ p \notin disturbed' => FreshOK(requests'[p], accounts')
      BY DEF RequestsOK
    <2>1. CASE p = q
      BY <2>1 DEF AccountsIInv, Shapes
    <2>2. CASE p # q
      <3>1. requests'[p] = requests[p] /\ accounts' = accounts
        BY <2>2 DEF AccountsIInv, Shapes
      <3>2. AboutOK(requests[p]) /\ (p \notin disturbed => FreshOK(requests[p], accounts))
        BY DEF AccountsIInv, RequestsOK
      <3>3. p \notin disturbed' => p \notin disturbed
        BY <2>2
      <3>4. QED
        BY <3>1, <3>2, <3>3
    <2>3. QED
      BY <2>1, <2>2
  <1>4. QED
    BY <1>1, <1>2, <1>3 DEF AccountsIInv

(* A commit. *)
LEMMA Commits ==
    ASSUME AccountsIInv, NEW q \in Requests, NEW x \in RequestShape, AboutOK(x),
           Committed(q, x),
           accounts' \in Flags, gone' \subseteq Ids, DOMAIN accounts' \cap gone' = {},
           publications' \in Records, KeysHold', HistoryHolds',
           q \notin disturbed => FreshOK(x, accounts')
    PROVE  AccountsIInv'
  <1>1. /\ requests' = [requests EXCEPT ![q] = x]
        /\ disturbed' = {k \in Requests : k # q /\ requests[k] # Idle}
                        \union IF x = Idle THEN {} ELSE disturbed \cap {q}
    BY DEF Committed
  <1>2. Shapes'
    BY <1>1 DEF AccountsIInv, Shapes
  <1>3. RequestsOK'
    <2> SUFFICES ASSUME NEW p \in Requests
                 PROVE  /\ AboutOK(requests'[p])
                        /\ p \notin disturbed' => FreshOK(requests'[p], accounts')
      BY DEF RequestsOK
    <2>1. CASE p = q
      <3>1. requests'[p] = x
        BY <1>1, <2>1 DEF AccountsIInv, Shapes
      <3>2. CASE x = Idle
        BY <3>1, <3>2, IdleIs
      <3>3. CASE x # Idle
        <4>1. p \notin disturbed' => q \notin disturbed
          BY <1>1, <2>1, <3>3
        <4>2. QED
          BY <3>1, <4>1
      <3>4. QED
        BY <3>2, <3>3
    <2>2. CASE p # q
      <3>1. requests'[p] = requests[p]
        BY <1>1, <2>2 DEF AccountsIInv, Shapes
      <3>2. AboutOK(requests[p])
        BY DEF AccountsIInv, RequestsOK
      <3>3. p \notin disturbed' => requests[p] = Idle
        BY <1>1, <2>2
      <3>4. QED
        BY <3>1, <3>2, <3>3, IdleIs
    <2>3. QED
      BY <2>1, <2>2
  <1>4. QED
    BY <1>2, <1>3 DEF AccountsIInv

-----------------------------------------------------------------------------
(* A session reads. *)

LEMMA AccountsInit == Init => AccountsIInv
  <1> SUFFICES ASSUME Init PROVE AccountsIInv
    OBVIOUS
  <1>1. Shapes
    BY NothingIs, IdleIs DEF Init, Shapes
  <1>2. KeysHold /\ HistoryHolds
    BY NothingIs DEF Init, KeysHold, OneActiveEach, HistoryHolds
  <1>3. RequestsOK
    BY IdleIs DEF Init, RequestsOK
  <1>4. QED
    BY <1>1, <1>2, <1>3 DEF AccountsIInv

LEMMA StepBeginConnect ==
    ASSUME AccountsIInv, NEW q \in Requests, NEW list \in Exchanges, BeginConnect(q, list)
    PROVE  AccountsIInv'
  <1> DEFINE x == [Idle EXCEPT !.op = "connect", !.step = "find", !.todo = list]
  <1>1. /\ requests' = [requests EXCEPT ![q] = x] /\ list # <<>>
        /\ UNCHANGED <<accounts, gone, publications, disturbed>>
    BY DEF BeginConnect, Begin
  <1>2. list \in Seq(Destinations)
    BY AccountsAssumption
  <1>3. x \in RequestShape
    BY <1>2, IdleIs DEF RequestShape
  <1>4. x.op = "connect" /\ x.step = "find" /\ x.todo = list
    BY DEF Idle
  <1> HIDE DEF x
  <1>5. AboutOK(x)
    BY <1>1, <1>4 DEF AboutOK
  <1>6. FreshOK(x, accounts)
    BY <1>4 DEF FreshOK
  <1>7. QED
    BY <1>1, <1>3, <1>5, <1>6, Reads

LEMMA StepBeginOn ==
    ASSUME AccountsIInv, NEW q \in Requests, NEW op \in {"activate", "disconnect"},
           NEW id \in Ids, BeginOn(q, op, id)
    PROVE  AccountsIInv'
  <1> DEFINE x == [Idle EXCEPT !.op = op, !.target = id, !.platform = Platform(id),
                             !.known = accounts[id],
                             !.step = IF op = "activate" THEN "deactivate" ELSE "commit"]
  <1>1. /\ requests' = [requests EXCEPT ![q] = x] /\ id \in DOMAIN accounts
        /\ UNCHANGED <<accounts, gone, publications, disturbed>>
    BY DEF BeginOn, Begin
  <1>2. accounts[id] \in BOOLEAN
    BY <1>1, FlagsAre DEF AccountsIInv, Shapes
  <1>3. Platform(id) \in Platforms
    BY AccountsAssumption DEF Platform, Ids
  <1>4. x \in RequestShape
    BY <1>2, <1>3, IdleIs DEF RequestShape
  <1>5. /\ x.op = op /\ x.step = (IF op = "activate" THEN "deactivate" ELSE "commit")
        /\ x.target = id /\ x.platform = Platform(id) /\ x.known = accounts[id]
    BY DEF Idle
  <1> HIDE DEF x
  <1>6. AboutOK(x)
    BY <1>2, <1>5, AccountsAssumption DEF AboutOK
  <1>7. FreshOK(x, accounts)
    BY <1>1, <1>2, <1>5 DEF FreshOK
  <1>8. QED
    BY <1>1, <1>4, <1>6, <1>7, Reads

LEMMA StepBeginPublish ==
    ASSUME AccountsIInv, NEW q \in Requests, NEW id \in Ids, BeginPublish(q, id)
    PROVE  AccountsIInv'
  <1> DEFINE x == [Idle EXCEPT !.op = "publish", !.step = "commit", !.target = id]
  <1>1. /\ requests' = [requests EXCEPT ![q] = x]
        /\ UNCHANGED <<accounts, gone, publications, disturbed>>
    BY DEF BeginPublish, Begin
  <1>2. x \in RequestShape
    BY IdleIs DEF RequestShape
  <1>3. x.op = "publish" /\ x.step = "commit"
    BY DEF Idle
  <1> HIDE DEF x
  <1>4. AboutOK(x) /\ FreshOK(x, accounts)
    BY <1>3 DEF AboutOK, FreshOK
  <1>5. QED
    BY <1>1, <1>2, <1>4, Reads

LEMMA StepFind ==
    ASSUME AccountsIInv, NEW q \in Requests, Find(q)
    PROVE  AccountsIInv'
  <1> DEFINE r == requests[q]
             dest == Head(r.todo)
             existing == {id \in DOMAIN accounts : id[1] = dest}
  <1>1. PICK id \in IF existing = {} THEN {NoId} ELSE existing :
           requests' = [requests EXCEPT ![q].step = "deactivate", ![q].target = id,
                                        ![q].platform = PlatformOf[dest],
                                        ![q].known = id # NoId /\ accounts[id]]
    BY DEF Find
  <1>2. r.op = "connect" /\ r.step = "find" /\ UNCHANGED <<accounts, gone, publications, disturbed>>
    BY DEF Find
  <1>3. /\ r \in RequestShape /\ AboutOK(r)
        /\ accounts \in Flags /\ DOMAIN accounts \subseteq Ids
        /\ \A k \in DOMAIN accounts : accounts[k] \in BOOLEAN
    BY FlagsAre DEF AccountsIInv, Shapes, RequestsOK
  <1> DEFINE known == id # NoId /\ accounts[id]
             x == [r EXCEPT !.step = "deactivate", !.target = id,
                            !.platform = PlatformOf[dest], !.known = known]
  <1>4. requests' = [requests EXCEPT ![q] = x]
    BY <1>1 DEF AccountsIInv, Shapes
  <1>5. dest \in Destinations
    BY <1>2, <1>3 DEF RequestShape, AboutOK
  <1>6. PlatformOf[dest] \in Platforms
    BY <1>5, AccountsAssumption
  <1>7. id = NoId \/ (id \in DOMAIN accounts /\ id \in Ids /\ id[1] = dest)
    BY <1>1, <1>3
  <1>8. known \in BOOLEAN /\ (id # NoId => known = accounts[id])
    BY <1>3, <1>7
  <1> HIDE DEF known
  <1>9. x \in RequestShape
    BY <1>3, <1>6, <1>7, <1>8 DEF RequestShape
  <1>10. /\ x.op = "connect" /\ x.step = "deactivate" /\ x.todo = r.todo /\ x.target = id
         /\ x.platform = PlatformOf[dest] /\ x.known = known
    BY <1>2, <1>3 DEF RequestShape
  <1>11. r.todo # <<>>
    BY <1>2, <1>3 DEF AboutOK
  <1> HIDE DEF x, r, existing
  <1>12. AboutOK(x)
    BY <1>7, <1>10, <1>11 DEF AboutOK, dest
  <1>13. FreshOK(x, accounts)
    BY <1>7, <1>8, <1>10 DEF FreshOK
  <1>14. QED
    BY <1>2, <1>4, <1>9, <1>12, <1>13, Reads

LEMMA StepDeactivate ==
    ASSUME AccountsIInv, NEW q \in Requests, Deactivate(q)
    PROVE  AccountsIInv'
  <1> DEFINE r == requests[q]
             others == Active(accounts, r.platform) \ {r.target}
             x == [r EXCEPT !.step = "commit", !.dirty = others]
  <1>1. /\ r.step = "deactivate" /\ UNCHANGED <<accounts, gone, publications, disturbed>>
    BY DEF Deactivate
  <1>2. requests' = [requests EXCEPT ![q] = x]
    BY DEF Deactivate, AccountsIInv, Shapes
  <1>3. /\ r \in RequestShape /\ AboutOK(r) /\ (q \notin disturbed => FreshOK(r, accounts))
        /\ DOMAIN accounts \subseteq Ids
    BY FlagsAre DEF AccountsIInv, Shapes, RequestsOK
  <1>4. others \subseteq Ids
    BY <1>3 DEF Active
  <1> HIDE DEF others
  <1>5. x \in RequestShape
    BY <1>3, <1>4 DEF RequestShape
  <1>6. /\ x.op = r.op /\ x.step = "commit" /\ x.todo = r.todo /\ x.target = r.target
        /\ x.platform = r.platform /\ x.known = r.known /\ x.dirty = others
    BY <1>3 DEF RequestShape
  <1> HIDE DEF x, r
  <1>7. AboutOK(x)
    BY <1>1, <1>3, <1>6 DEF AboutOK
  <1>8. q \notin disturbed => FreshOK(x, accounts)
    BY <1>1, <1>3, <1>6 DEF FreshOK, others
  <1>9. QED
    BY <1>1, <1>2, <1>5, <1>7, <1>8, Reads DEF r

LEMMA StepAbandon ==
    ASSUME AccountsIInv, NEW q \in Requests, Abandon(q)
    PROVE  AccountsIInv'
  BY IdleIs, Reads DEF Abandon

-----------------------------------------------------------------------------
(* A session commits. *)

LEMMA SwitchedIs ==
    ASSUME accounts \in Flags, NEW dirty, NEW ids \in SUBSET Ids
    PROVE  /\ Switched(dirty, ids) \in Flags
           /\ DOMAIN Switched(dirty, ids) = DOMAIN accounts \union ids
           /\ \A id \in DOMAIN accounts \union ids :
                 Switched(dirty, ids)[id] = (id \in ids \/ (accounts[id] /\ id \notin dirty))
  <1> DEFINE new == Switched(dirty, ids)
  <1>1. /\ new = [id \in DOMAIN new |-> new[id]] /\ DOMAIN new = DOMAIN accounts \union ids
        /\ \A id \in DOMAIN accounts \union ids :
              new[id] = (id \in ids \/ (accounts[id] /\ id \notin dirty))
    BY DEF Switched
  <1>2. DOMAIN accounts \subseteq Ids
    BY FlagsAre
  <1> HIDE DEF new
  <1>3. \A id \in DOMAIN new : new[id] \in BOOLEAN
    BY <1>1
  <1>4. new \in Flags
    BY <1>1, <1>2, <1>3, FlagsAre
  <1>5. QED
    BY <1>1, <1>4 DEF new

(* Some flags cleared and one set, possibly of a row that is new. *)
LEMMA Switching ==
    ASSUME AccountsIInv, NEW dirty, NEW target \in Ids, NEW ids \in SUBSET {target},
           accounts' = Switched(dirty, ids),
           target \notin gone,
           \A id \in DOMAIN accounts : id[1] = target[1] => id = target,
           OneActiveEach(accounts'),
           UNCHANGED <<gone, publications>>
    PROVE  /\ accounts' \in Flags /\ gone' \subseteq Ids /\ DOMAIN accounts' \cap gone' = {}
           /\ publications' \in Records /\ KeysHold' /\ HistoryHolds'
           /\ DOMAIN accounts' = DOMAIN accounts \union ids
           /\ \A id \in DOMAIN accounts' :
                 accounts'[id] = (id \in ids \/ (accounts[id] /\ id \notin dirty))
  <1>1. accounts \in Flags /\ gone \subseteq Ids /\ DOMAIN accounts \cap gone = {}
        /\ publications \in Records
    BY DEF AccountsIInv, Shapes
  <1>2. ids \in SUBSET Ids
    OBVIOUS
  <1>3. /\ accounts' \in Flags /\ DOMAIN accounts' = DOMAIN accounts \union ids
        /\ \A id \in DOMAIN accounts' :
              accounts'[id] = (id \in ids \/ (accounts[id] /\ id \notin dirty))
    <2> DEFINE new == Switched(dirty, ids)
    <2>1. /\ new \in Flags /\ DOMAIN new = DOMAIN accounts \union ids
          /\ \A id \in DOMAIN accounts \union ids :
                new[id] = (id \in ids \/ (accounts[id] /\ id \notin dirty))
      BY <1>1, <1>2, SwitchedIs
    <2>2. accounts' = new
      OBVIOUS
    <2> HIDE DEF new
    <2>3. QED
      BY <2>1, <2>2
  <1>4. DOMAIN accounts' \cap gone' = {}
    BY <1>1, <1>3
  <1>5. KeysHold'
    BY <1>3 DEF KeysHold, OneActiveEach, AccountsIInv
  <1>6. HistoryHolds'
    BY <1>3 DEF AccountsIInv, HistoryHolds
  <1>7. QED
    BY <1>1, <1>3, <1>4, <1>5, <1>6

(* The connect request that goes on. *)
LEMMA NextOK ==
    ASSUME AccountsIInv, NEW q \in Requests, Committing(q, "connect"),
           Len(requests[q].todo) # 1
    PROVE  /\ NextDestination(q) \in RequestShape /\ AboutOK(NextDestination(q))
           /\ FreshOK(NextDestination(q), accounts')
  <1> DEFINE todo == requests[q].todo
             x == NextDestination(q)
  <1>1. todo \in Seq(Destinations) /\ todo # <<>> /\ Len(todo) # 1
    BY DEF AccountsIInv, Shapes, RequestsOK, RequestShape, AboutOK, Committing
  <1>2. x = [Idle EXCEPT !.op = "connect", !.step = "find", !.todo = Tail(todo)]
    BY DEF NextDestination
  <1> HIDE DEF todo
  <1>3. Tail(todo) \in Seq(Destinations) /\ Tail(todo) # <<>>
    <2>1. Len(todo) \in Nat /\ Len(todo) # 0
      BY <1>1
    <2>2. Tail(todo) \in Seq(Destinations) /\ Len(Tail(todo)) = Len(todo) - 1
      BY <1>1
    <2>3. QED
      BY <1>1, <2>1, <2>2
  <1> HIDE DEF x
  <1>4. x \in RequestShape
    BY <1>2, <1>3, IdleIs DEF RequestShape
  <1>5. x.op = "connect" /\ x.step = "find" /\ x.todo = Tail(todo)
    BY <1>2 DEF Idle
  <1>6. AboutOK(x) /\ FreshOK(x, accounts')
    BY <1>3, <1>5 DEF AboutOK, FreshOK
  <1>7. QED
    BY <1>4, <1>6 DEF x

LEMMA Continues ==
    ASSUME AccountsIInv, NEW q \in Requests, Committing(q, "connect"), Continue(q),
           accounts' \in Flags, gone' \subseteq Ids, DOMAIN accounts' \cap gone' = {},
           publications' \in Records, KeysHold', HistoryHolds'
    PROVE  AccountsIInv'
  <1>1. CASE Len(requests[q].todo) = 1
    <2>1. Committed(q, Idle)
      BY <1>1 DEF Continue
    <2>2. QED
      BY <2>1, IdleIs, Commits
  <1>2. CASE Len(requests[q].todo) # 1
    <2>1. Committed(q, NextDestination(q))
      BY <1>2 DEF Continue
    <2>2. /\ NextDestination(q) \in RequestShape /\ AboutOK(NextDestination(q))
          /\ FreshOK(NextDestination(q), accounts')
      BY <1>2, NextOK
    <2>3. QED
      BY <2>1, <2>2, Commits
  <1>3. QED
    BY <1>1, <1>2

LEMMA StepInsert ==
    ASSUME AccountsIInv, NEW q \in Requests, NEW id \in Ids, Insert(q, id)
    PROVE  AccountsIInv'
  <1> DEFINE dirty == requests[q].dirty
             ids == {id}
  <1>1. /\ Committing(q, "connect") /\ Continue(q) /\ accounts' = Switched(dirty, ids)
        /\ OneActiveEach(accounts') /\ UNCHANGED <<gone, publications>>
    BY DEF Insert
  <1>2. id \notin gone /\ \A k \in DOMAIN accounts : k[1] = id[1] => k = id
    BY DEF Insert, FreshId, DestFree
  <1>3. ids \in SUBSET {id}
    OBVIOUS
  <1> HIDE DEF dirty, ids
  <1>4. /\ accounts' \in Flags /\ gone' \subseteq Ids /\ DOMAIN accounts' \cap gone' = {}
        /\ publications' \in Records /\ KeysHold' /\ HistoryHolds'
    BY <1>1, <1>2, <1>3, Switching
  <1>5. QED
    BY <1>1, <1>4, Continues

(* Update and Activate. *)
LEMMA Raising ==
    ASSUME AccountsIInv, NEW q \in Requests,
           requests[q].target # NoId,
           requests[q].step = "commit", requests[q].op \in {"connect", "activate"},
           requests[q].dirty \union Raised(q) \subseteq DOMAIN accounts,
           accounts' = Switched(requests[q].dirty, Raised(q)),
           OneActiveEach(accounts'), UNCHANGED <<gone, publications>>
    PROVE  /\ accounts' \in Flags /\ gone' \subseteq Ids /\ DOMAIN accounts' \cap gone' = {}
           /\ publications' \in Records /\ KeysHold' /\ HistoryHolds'
           /\ DOMAIN accounts' = DOMAIN accounts
           /\ \A id \in DOMAIN accounts :
                 accounts'[id] = (id \in Raised(q) \/ (accounts[id] /\ id \notin requests[q].dirty))
  <1> DEFINE dirty == requests[q].dirty
             ids == Raised(q)
             target == requests[q].target
  <1>1. target \in Ids
    BY DEF AccountsIInv, Shapes, RequestShape
  <1>2. ids \in SUBSET {target} /\ ids \subseteq DOMAIN accounts
    BY DEF Raised
  <1>3. /\ accounts' = Switched(dirty, ids) /\ OneActiveEach(accounts')
        /\ UNCHANGED <<gone, publications>>
    OBVIOUS
  <1>4. accounts \in Flags /\ gone \subseteq Ids /\ DOMAIN accounts \cap gone = {}
        /\ publications \in Records /\ KeysHold /\ HistoryHolds
    BY DEF AccountsIInv, Shapes
  <1>5. CASE ids = {}
    <2> HIDE DEF ids, dirty
    <2> DEFINE new == Switched(dirty, ids)
    <2>0. ids \in SUBSET Ids
      BY <1>5
    <2>1. /\ new \in Flags /\ DOMAIN new = DOMAIN accounts \union ids
          /\ \A id \in DOMAIN accounts \union ids :
                new[id] = (id \in ids \/ (accounts[id] /\ id \notin dirty))
      BY <1>4, <2>0, SwitchedIs
    <2>2. accounts' = new
      BY <1>3
    <2> HIDE DEF new
    <2>3. DOMAIN accounts' = DOMAIN accounts
      BY <2>1, <2>2, <1>5
    <2>4. KeysHold' /\ HistoryHolds'
      BY <1>3, <1>4, <2>3 DEF KeysHold, OneActiveEach, HistoryHolds
    <2>5. \A id \in DOMAIN accounts :
             accounts'[id] = (id \in ids \/ (accounts[id] /\ id \notin dirty))
      BY <2>1, <2>2
    <2>6. /\ accounts' \in Flags /\ gone' \subseteq Ids /\ DOMAIN accounts' \cap gone' = {}
          /\ publications' \in Records
      BY <1>3, <1>4, <2>1, <2>2, <2>3
    <2>7. QED
      BY <2>3, <2>4, <2>5, <2>6 DEF ids, dirty
  <1>6. CASE ids = {target}
    <2>1. target \in DOMAIN accounts
      BY <1>2, <1>6
    <2>2. target \notin gone /\ \A id \in DOMAIN accounts : id[1] = target[1] => id = target
      BY <1>4, <2>1 DEF KeysHold
    <2> HIDE DEF ids, dirty, target
    <2>3. /\ accounts' \in Flags /\ gone' \subseteq Ids /\ DOMAIN accounts' \cap gone' = {}
          /\ publications' \in Records /\ KeysHold' /\ HistoryHolds'
          /\ DOMAIN accounts' = DOMAIN accounts \union ids
          /\ \A id \in DOMAIN accounts' :
                accounts'[id] = (id \in ids \/ (accounts[id] /\ id \notin dirty))
      BY <1>1, <1>2, <1>3, <2>2, Switching
    <2>4. DOMAIN accounts' = DOMAIN accounts
      BY <1>2, <2>3
    <2>5. QED
      BY <2>3, <2>4 DEF ids, dirty
  <1>7. QED
    BY <1>2, <1>5, <1>6

LEMMA StepUpdate ==
    ASSUME AccountsIInv, NEW q \in Requests, Update(q)
    PROVE  AccountsIInv'
  <1>1. /\ Committing(q, "connect") /\ Continue(q)
        /\ requests[q].step = "commit" /\ requests[q].op \in {"connect", "activate"}
        /\ requests[q].target # NoId
        /\ requests[q].dirty \union Raised(q) \subseteq DOMAIN accounts
        /\ accounts' = Switched(requests[q].dirty, Raised(q))
        /\ OneActiveEach(accounts') /\ UNCHANGED <<gone, publications>>
    BY DEF Update, Committing, Raised
  <1>2. /\ accounts' \in Flags /\ gone' \subseteq Ids /\ DOMAIN accounts' \cap gone' = {}
        /\ publications' \in Records /\ KeysHold' /\ HistoryHolds'
    BY <1>1, Raising
  <1>3. QED
    BY <1>1, <1>2, Continues

LEMMA StepActivate ==
    ASSUME AccountsIInv, NEW q \in Requests, Activate(q)
    PROVE  AccountsIInv'
  <1>1. /\ Committed(q, Idle)
        /\ requests[q].step = "commit" /\ requests[q].op = "activate"
        /\ requests[q].dirty \union Raised(q) \subseteq DOMAIN accounts
        /\ accounts' = Switched(requests[q].dirty, Raised(q))
        /\ OneActiveEach(accounts') /\ UNCHANGED <<gone, publications>>
    BY DEF Activate, Committing
  <1>2. requests[q].target # NoId
    BY <1>1 DEF AccountsIInv, RequestsOK, AboutOK
  <1>3. /\ accounts' \in Flags /\ gone' \subseteq Ids /\ DOMAIN accounts' \cap gone' = {}
        /\ publications' \in Records /\ KeysHold' /\ HistoryHolds'
    BY <1>1, <1>2, Raising
  <1>4. QED
    BY <1>1, <1>3, IdleIs, Commits

LEMMA EmptiedIs ==
    ASSUME publications \in Records, NEW id
    PROVE  /\ Emptied(id) \in Records /\ DOMAIN Emptied(id) = DOMAIN publications
           /\ \A p \in DOMAIN publications :
                 /\ Emptied(id)[p].via = publications[p].via
                 /\ Emptied(id)[p].account = IF publications[p].account = id THEN NoId
                                             ELSE publications[p].account
  <1> DEFINE new == Emptied(id)
  <1>1. PICK D \in SUBSET Publications : publications \in [D -> Record]
    BY DEF Records
  <1>2. \A p \in D : /\ publications[p].via \in Ids
                     /\ publications[p].account \in Ids \union {NoId}
                     /\ publications[p] \in Record
    BY <1>1 DEF Record
  <1>3. /\ DOMAIN new = D /\ new = [p \in D |-> new[p]]
        /\ \A p \in D : new[p] = [publications[p] EXCEPT
                                    !.account = IF publications[p].account = id THEN NoId
                                                ELSE publications[p].account]
    BY <1>1, <1>2 DEF Emptied, Record
  <1> HIDE DEF new
  <1>4. \A p \in D : /\ new[p] \in Record /\ new[p].via = publications[p].via
                     /\ new[p].account = IF publications[p].account = id THEN NoId
                                         ELSE publications[p].account
    BY <1>2, <1>3 DEF Record
  <1>5. new \in [D -> Record]
    BY <1>3, <1>4
  <1>6. new \in Records
    BY <1>5 DEF Records
  <1>7. QED
    BY <1>1, <1>3, <1>4, <1>6 DEF new

LEMMA StepDisconnect ==
    ASSUME AccountsIInv, NEW q \in Requests, Disconnect(q)
    PROVE  AccountsIInv'
  <1> DEFINE id == requests[q].target
             new == [k \in DOMAIN accounts \ {id} |-> accounts[k]]
             history == Emptied(id)
  <1>1. /\ Committed(q, Idle) /\ accounts' = new /\ gone' = gone \union {id}
        /\ publications' = history /\ Committing(q, "disconnect")
    BY DEF Disconnect
  <1>2. /\ accounts \in Flags /\ gone \subseteq Ids /\ DOMAIN accounts \cap gone = {}
        /\ publications \in Records /\ KeysHold /\ HistoryHolds
        /\ requests[q] \in RequestShape /\ AboutOK(requests[q])
    BY DEF AccountsIInv, Shapes, RequestsOK
  <1>3. /\ DOMAIN new = DOMAIN accounts \ {id} /\ new = [k \in DOMAIN new |-> new[k]]
        /\ \A k \in DOMAIN new : new[k] = accounts[k]
    OBVIOUS
  <1>4. id \in Ids
    BY <1>1, <1>2 DEF RequestShape, AboutOK, Committing
  <1> HIDE DEF id, new
  <1>5. new \in Flags
    <2>1. DOMAIN accounts \subseteq Ids /\ \A k \in DOMAIN accounts : accounts[k] \in BOOLEAN
      BY <1>2, FlagsAre
    <2>2. DOMAIN new \subseteq Ids /\ \A k \in DOMAIN new : new[k] \in BOOLEAN
      BY <1>3, <2>1
    <2>3. QED
      BY <1>3, <2>2, FlagsAre
  <1>6. /\ history \in Records /\ DOMAIN history = DOMAIN publications
        /\ \A p \in DOMAIN publications :
              /\ history[p].via = publications[p].via
              /\ history[p].account = IF publications[p].account = id THEN NoId
                                      ELSE publications[p].account
    BY <1>2, EmptiedIs
  <1> HIDE DEF history
  <1>7. KeysHold'
    BY <1>1, <1>2, <1>3 DEF KeysHold, OneActiveEach
  <1>8. HistoryHolds'
    <2> SUFFICES ASSUME NEW p \in DOMAIN publications
                 PROVE  /\ history[p].via \in DOMAIN new \union (gone \union {id})
                        /\ history[p].account = IF history[p].via \in gone \union {id} THEN NoId
                                                ELSE history[p].via
      BY <1>1, <1>6 DEF HistoryHolds
    <2>1. /\ publications[p].via \in DOMAIN accounts \union gone
          /\ publications[p].account = IF publications[p].via \in gone THEN NoId
                                       ELSE publications[p].via
      BY <1>2 DEF HistoryHolds
    <2>2. id # NoId
      BY <1>4, AccountsAssumption
    <2>3. QED
      BY <1>3, <1>6, <2>1, <2>2
  <1>9. gone' \subseteq Ids /\ DOMAIN accounts' \cap gone' = {}
    BY <1>1, <1>2, <1>3, <1>4
  <1>10. accounts' \in Flags /\ publications' \in Records
    BY <1>1, <1>5, <1>6
  <1>11. QED
    BY <1>1, <1>7, <1>8, <1>9, <1>10, IdleIs, Commits

LEMMA StepClaim ==
    ASSUME AccountsIInv, NEW q \in Requests, NEW p \in Publications, Claim(q, p)
    PROVE  AccountsIInv'
  <1> DEFINE id == requests[q].target
             new == [k \in DOMAIN publications \union {p} |->
                          IF k = p THEN [account |-> id, via |-> id] ELSE publications[k]]
  <1>1. /\ Committed(q, Idle) /\ publications' = new /\ id \in DOMAIN accounts
        /\ UNCHANGED <<accounts, gone>>
    BY DEF Claim
  <1>2. /\ accounts \in Flags /\ gone \subseteq Ids /\ DOMAIN accounts \cap gone = {}
        /\ publications \in Records /\ KeysHold /\ HistoryHolds /\ DOMAIN accounts \subseteq Ids
    BY FlagsAre DEF AccountsIInv, Shapes
  <1>3. PICK D \in SUBSET Publications : publications \in [D -> Record]
    BY <1>2 DEF Records
  <1>4. [account |-> id, via |-> id] \in Record
    BY <1>1, <1>2 DEF Record
  <1> HIDE DEF id
  <1>5. new \in [D \union {p} -> Record] /\ new[p] = [account |-> id, via |-> id]
        /\ \A k \in DOMAIN publications \ {p} : new[k] = publications[k]
    BY <1>3, <1>4
  <1>6. DOMAIN new = DOMAIN publications \union {p}
    OBVIOUS
  <1> HIDE DEF new
  <1>7. new \in Records
    BY <1>5 DEF Records
  <1>8. KeysHold'
    BY <1>1, <1>2 DEF KeysHold, OneActiveEach
  <1>9. HistoryHolds'
    <2> SUFFICES ASSUME NEW k \in DOMAIN new
                 PROVE  /\ new[k].via \in DOMAIN accounts \union gone
                        /\ new[k].account = IF new[k].via \in gone THEN NoId ELSE new[k].via
      BY <1>1 DEF HistoryHolds
    <2>1. CASE k = p
      BY <1>1, <1>2, <1>5, <2>1
    <2>2. CASE k # p
      BY <1>2, <1>5, <1>6, <2>2 DEF HistoryHolds
    <2>3. QED
      BY <2>1, <2>2
  <1>10. QED
    BY <1>1, <1>2, <1>7, <1>8, <1>9, IdleIs, Commits

LEMMA AccountsNext == AccountsIInv /\ [Next]_vars => AccountsIInv'
  <1> SUFFICES ASSUME AccountsIInv, [Next]_vars PROVE AccountsIInv'
    OBVIOUS
  <1>1. ASSUME NEW q \in Requests, NEW list \in Exchanges, BeginConnect(q, list)
        PROVE  AccountsIInv'
    BY <1>1, StepBeginConnect
  <1>2. ASSUME NEW q \in Requests, NEW id \in Ids, NEW op \in {"activate", "disconnect"},
               BeginOn(q, op, id)
        PROVE  AccountsIInv'
    BY <1>2, StepBeginOn
  <1>3. ASSUME NEW q \in Requests, NEW id \in Ids, BeginPublish(q, id) \/ Insert(q, id)
        PROVE  AccountsIInv'
    BY <1>3, StepBeginPublish, StepInsert
  <1>4. ASSUME NEW q \in Requests, Find(q) \/ Deactivate(q) \/ Abandon(q)
        PROVE  AccountsIInv'
    BY <1>4, StepFind, StepDeactivate, StepAbandon
  <1>5. ASSUME NEW q \in Requests, Update(q) \/ Activate(q) \/ Disconnect(q)
        PROVE  AccountsIInv'
    BY <1>5, StepUpdate, StepActivate, StepDisconnect
  <1>6. ASSUME NEW q \in Requests, NEW p \in Publications, Claim(q, p)
        PROVE  AccountsIInv'
    BY <1>6, StepClaim
  <1>7. CASE UNCHANGED vars
    <2>1. UNCHANGED accounts /\ UNCHANGED gone /\ UNCHANGED publications
          /\ UNCHANGED requests /\ UNCHANGED disturbed
      BY <1>7 DEF vars
    <2>2. QED
      BY <2>1 DEF AccountsIInv, Shapes, KeysHold, OneActiveEach, HistoryHolds, RequestsOK
  <1>8. QED
    BY <1>1, <1>2, <1>3, <1>4, <1>5, <1>6, <1>7 DEF Next

(* The strengthening, of every reachable state of the account table and its  *)
(* requests (accounts.py, social_callback).                                  *)
THEOREM AccountsInvariant == Spec => []AccountsIInv
  BY AccountsInit, AccountsNext, PTL DEF Spec

-----------------------------------------------------------------------------
(* The results. *)

(* The state keeps its kinds and each network has at most one publish target,*)
(* whatever the connects, activations and disconnects that overlap           *)
(* (uq_social_accounts_active_platform in db/models.py).                     *)
THEOREM TypeCorrect == Spec => []TypeOK
  <1>1. AccountsIInv => TypeOK
    <2> SUFFICES ASSUME AccountsIInv PROVE TypeOK
      OBVIOUS
    <2>1. /\ DOMAIN accounts \subseteq Ids
          /\ \A id \in DOMAIN accounts : accounts[id] \in BOOLEAN
          /\ gone \subseteq Ids
      BY FlagsAre DEF AccountsIInv, Shapes
    <2>2. OneTarget
      <3> SUFFICES ASSUME NEW p \in Platforms
                   PROVE  \E id \in Ids \union {NoId} : Active(accounts, p) \subseteq {id}
        BY DEF OneTarget
      <3>1. \A x, y \in Active(accounts, p) : x = y
        BY DEF AccountsIInv, KeysHold, OneActiveEach, Active
      <3>2. Active(accounts, p) \subseteq Ids
        BY <2>1 DEF Active
      <3>3. QED
        BY <3>1, <3>2
    <2>3. DOMAIN publications \subseteq Publications
      BY DEF AccountsIInv, Shapes, Records
    <2>4. ASSUME NEW q \in Requests
          PROVE  /\ requests[q].op \in {"none", "connect", "activate", "disconnect", "publish"}
                 /\ requests[q].target \in Ids \union {NoId}
                 /\ requests[q].dirty \subseteq Ids
                 /\ requests[q].op = "connect" => requests[q].todo # <<>>
      <3>1. requests[q] \in RequestShape /\ AboutOK(requests[q])
        BY DEF AccountsIInv, Shapes, RequestsOK
      <3>2. QED
        BY <3>1 DEF RequestShape, AboutOK
    <2>5. QED
      BY <2>1, <2>2, <2>3, <2>4 DEF TypeOK
  <1>2. QED
    BY <1>1, AccountsInvariant, PTL

(* Every attempt names the account it used as long as that exists, and it is *)
(* the only row of its destination (upsert, ON DELETE SET NULL).             *)
THEOREM HistoryFollows == Spec => []HistoryNamesOneRow
  <1>1. AccountsIInv => HistoryNamesOneRow
    <2> SUFFICES ASSUME AccountsIInv, NEW p \in DOMAIN publications
                 PROVE  LET used == publications[p].via IN
                        /\ publications[p].account = IF used \in gone THEN NoId ELSE used
                        /\ used \notin gone =>
                              \A id \in DOMAIN accounts : id[1] = used[1] => id = used
      BY DEF HistoryNamesOneRow
    <2>1. /\ publications[p].via \in DOMAIN accounts \union gone
          /\ publications[p].account = IF publications[p].via \in gone THEN NoId
                                       ELSE publications[p].via
      BY DEF AccountsIInv, HistoryHolds
    <2>2. QED
      BY <2>1 DEF AccountsIInv, KeysHold
  <1>2. QED
    BY <1>1, AccountsInvariant, PTL

LEMMA InsertSwitches ==
    ASSUME AccountsIInv, NEW q \in Requests, q \notin disturbed, NEW id \in Ids, Insert(q, id)
    PROVE  id[1] = Wanted(q) /\ Active(accounts', Platform(id)) = {id}
  <1> DEFINE dirty == requests[q].dirty
             new == Switched(dirty, {id})
  <1>1. /\ requests[q].op = "connect" /\ requests[q].step = "commit"
        /\ requests[q].target = NoId /\ id[1] = Head(requests[q].todo)
        /\ accounts' = new
    BY DEF Insert, Committing, FreshId
  <1>2. requests[q].platform = Platform(id)
    BY <1>1 DEF AccountsIInv, RequestsOK, AboutOK, Platform
  <1>3. dirty = Active(accounts, Platform(id)) \ {NoId}
    BY <1>1, <1>2 DEF AccountsIInv, RequestsOK, FreshOK
  <1>4. dirty = Active(accounts, Platform(id))
    <2>1. NoId \notin Active(accounts, Platform(id))
      BY FlagsAre, AccountsAssumption DEF AccountsIInv, Shapes, Active
    <2>2. QED
      BY <1>3, <2>1
  <1>5. /\ DOMAIN new = DOMAIN accounts \union {id} /\ new[id]
        /\ \A k \in DOMAIN new \ {id} : new[k] = (accounts[k] /\ k \notin dirty)
    <2>1. /\ DOMAIN new = DOMAIN accounts \union {id}
          /\ \A k \in DOMAIN accounts \union {id} :
                new[k] = (k \in {id} \/ (accounts[k] /\ k \notin dirty))
      BY DEF Switched
    <2> HIDE DEF new
    <2>2. QED
      BY <2>1
  <1> HIDE DEF new, dirty
  <1>6. Active(new, Platform(id)) = {id}
    BY <1>4, <1>5 DEF Active
  <1>7. QED
    BY <1>1, <1>6 DEF Wanted

LEMMA RaiseSwitches ==
    ASSUME AccountsIInv, NEW q \in Requests, q \notin disturbed, Update(q) \/ Activate(q)
    PROVE  /\ requests[q].target \in Ids /\ requests[q].target[1] = Wanted(q)
           /\ Active(accounts', Platform(requests[q].target)) = {requests[q].target}
  <1> DEFINE t == requests[q].target
             dirty == requests[q].dirty
             new == Switched(dirty, Raised(q))
  <1>1. /\ requests[q].op \in {"connect", "activate"} /\ requests[q].step = "commit"
        /\ t # NoId /\ accounts' = new
    BY DEF Update, Activate, Committing, AccountsIInv, RequestsOK, AboutOK
  <1>2. /\ t \in DOMAIN accounts /\ requests[q].known = accounts[t]
        /\ dirty = Active(accounts, requests[q].platform) \ {t}
    BY <1>1 DEF AccountsIInv, RequestsOK, FreshOK
  <1>3. t \in Ids
    BY <1>1 DEF AccountsIInv, Shapes, RequestShape
  <1>4. t[1] = Wanted(q) /\ requests[q].platform = Platform(t)
    BY <1>1 DEF AccountsIInv, RequestsOK, AboutOK, Wanted, Platform
  <1>5. Raised(q) = IF accounts[t] THEN {} ELSE {t}
    BY <1>2 DEF Raised
  <1>6. /\ DOMAIN new = DOMAIN accounts \union Raised(q)
        /\ \A k \in DOMAIN accounts \union Raised(q) :
              new[k] = (k \in Raised(q) \/ (accounts[k] /\ k \notin dirty))
    BY DEF Switched
  <1> HIDE DEF new, dirty, t
  <1>7. t \notin dirty
    BY <1>2
  <1>8. t \in DOMAIN new /\ new[t] /\ DOMAIN new \subseteq DOMAIN accounts \union {t}
    BY <1>2, <1>5, <1>6, <1>7
  <1>9. \A k \in DOMAIN new \ {t} : new[k] = (accounts[k] /\ k \notin dirty)
    BY <1>5, <1>6
  <1>10. Active(accounts, Platform(t)) \ {t} \subseteq dirty
    BY <1>2, <1>4
  <1>11. Active(new, Platform(t)) = {t}
    BY <1>8, <1>9, <1>10 DEF Active
  <1>12. QED
    BY <1>1, <1>3, <1>4, <1>11 DEF t

(* A connect or an activation beside which nobody committed ends with its    *)
(* account as the only one its network publishes to (upsert, activate).      *)
THEOREM SwitchEffective == Spec => SwitchTakesEffect
  <1> DEFINE Effective ==
        \A q \in Requests \ disturbed : Switches(q) =>
          \E id \in Ids : id[1] = Wanted(q) /\ Active(accounts', Platform(id)) = {id}
  <1>1. AccountsIInv => Effective
    BY InsertSwitches, RaiseSwitches DEF Switches
  <1>2. AccountsIInv => [Effective]_vars
    BY <1>1
  <1> HIDE DEF Effective
  <1>3. Spec => [][Effective]_vars
    BY <1>2, AccountsInvariant, PTL
  <1>4. QED
    BY <1>3 DEF Effective, SwitchTakesEffect

-----------------------------------------------------------------------------
(* The lists that a code exchange yields.                                    *)

(* Induction, as a fact about sets. *)
LEMMA SetInduction ==
    ASSUME NEW T, NEW n \in Nat, 1 \in T, \A i \in 1..n - 1 : i \in T => i + 1 \in T
    PROVE  1..n \subseteq T
  <1> SUFFICES ASSUME 1..n \ T # {} PROVE FALSE
    OBVIOUS
  <1> DEFINE Bad == 1..n \ T
  <1>1. Bad \subseteq Nat /\ Bad # {}
    OBVIOUS
  <1>2. PICK m \in Bad : \A k \in Bad : ~(<<k, m>> \in OpToRel(<, Nat))
    BY <1>1, WFMin, NatLessThanWellFounded
  <1>3. m \in 1..n /\ m # 1 /\ m - 1 \in 1..n - 1
    OBVIOUS
  <1>4. m - 1 \notin Bad
    <2>1. m - 1 \in Nat /\ m \in Nat /\ m - 1 < m
      BY <1>3
    <2>2. <<m - 1, m>> \in OpToRel(<, Nat)
      BY <2>1 DEF OpToRel
    <2>3. QED
      BY <1>2, <2>2
  <1>5. m - 1 \in T
    BY <1>3, <1>4
  <1>6. m \in T
    <2>1. m - 1 + 1 = m
      BY <1>3
    <2>2. QED
      BY <1>3, <1>5, <2>1
  <1>7. QED
    BY <1>6

Flattens(f, seqs, n) ==
    f = [i \in 1..n |-> IF i = 1 THEN seqs[i] ELSE f[i - 1] \o seqs[i]]

(* The recursion of FlattenSeq defines a function. *)
LEMMA FlattenExists ==
    ASSUME NEW seqs, NEW n \in Nat
    PROVE  \E f : Flattens(f, seqs, n)
  <1> DEFINE T == {k \in Nat : \E f : Flattens(f, seqs, k)}
  <1>1. 1 \in T
    <2>1. Flattens([i \in 1..1 |-> seqs[1]], seqs, 1)
      BY DEF Flattens
    <2>2. QED
      BY <2>1
  <1>2. ASSUME NEW k \in 1..n - 1, k \in T PROVE k + 1 \in T
    <2>1. PICK f : Flattens(f, seqs, k)
      BY <1>2
    <2> DEFINE g == [i \in 1..k + 1 |-> IF i = k + 1 THEN f[k] \o seqs[k + 1] ELSE f[i]]
    <2>2. k \in Nat /\ k >= 1
      OBVIOUS
    <2>3. \A i \in 1..k : g[i] = f[i]
      BY <2>2
    <2>4. ASSUME NEW i \in 1..k + 1
          PROVE  g[i] = IF i = 1 THEN seqs[i] ELSE g[i - 1] \o seqs[i]
      <3>1. CASE i = k + 1
        <4>1. i # 1 /\ i - 1 = k /\ k \in 1..k
          BY <2>2, <3>1
        <4>2. g[i] = f[k] \o seqs[i] /\ g[i - 1] = f[k]
          BY <2>3, <3>1, <4>1
        <4>3. QED
          BY <4>1, <4>2
      <3>2. CASE i # k + 1
        <4>1. i \in 1..k /\ (i # 1 => i - 1 \in 1..k)
          BY <2>2, <3>2
        <4>2. g[i] = f[i] /\ (i # 1 => g[i - 1] = f[i - 1])
          BY <2>3, <4>1
        <4>3. f[i] = IF i = 1 THEN seqs[i] ELSE f[i - 1] \o seqs[i]
          BY <2>1, <4>1 DEF Flattens
        <4>4. QED
          BY <4>2, <4>3
      <3>3. QED
        BY <3>1, <3>2
    <2>5. g = [i \in 1..k + 1 |-> g[i]]
      OBVIOUS
    <2> HIDE DEF g
    <2>6. Flattens(g, seqs, k + 1)
      BY <2>4, <2>5 DEF Flattens
    <2>7. QED
      BY <2>2, <2>6
  <1> HIDE DEF T
  <1>3. 1..n \subseteq T
    BY <1>1, <1>2, SetInduction
  <1>4. CASE n = 0
    <2>1. Flattens(<<>>, seqs, 0)
      BY DEF Flattens
    <2>2. QED
      BY <1>4, <2>1
  <1>5. CASE n # 0
    <2>1. n \in 1..n
      BY <1>5
    <2>2. QED
      BY <1>3, <2>1 DEF T
  <1>6. QED
    BY <1>4, <1>5

LEMMA FlattenIs ==
    ASSUME NEW seqs, Len(seqs) \in Nat, Len(seqs) # 0
    PROVE  \E f : Flattens(f, seqs, Len(seqs)) /\ FlattenSeq(seqs) = f[Len(seqs)]
  <1> DEFINE flatten == CHOOSE f : Flattens(f, seqs, Len(seqs))
  <1>1. Flattens(flatten, seqs, Len(seqs))
    BY FlattenExists
  <1>2. FlattenSeq(seqs) = flatten[Len(seqs)]
    BY DEF FlattenSeq, Flattens
  <1>3. QED
    BY <1>1, <1>2

(* The elements of a flattened sequence, one for one, are elements of the    *)
(* rows of the first k sequences.                                            *)
Placement(p, flat, seqs, k) ==
    /\ p \in [1..Len(flat) -> (1..k) \X Nat]
    /\ \A m \in 1..Len(flat) : /\ p[m][2] \in 1..Len(seqs[p[m][1]])
                               /\ flat[m] = seqs[p[m][1]][p[m][2]]
    /\ \A l, m \in 1..Len(flat) : p[l] = p[m] => l = m

LEMMA FlattenPlaces ==
    ASSUME NEW S, NEW seqs \in Seq(Seq(S))
    PROVE  /\ FlattenSeq(seqs) \in Seq(S)
           /\ \E p : Placement(p, FlattenSeq(seqs), seqs, Len(seqs))
  <1> DEFINE n == Len(seqs)
  <1>0. n \in Nat /\ \A i \in 1..n : seqs[i] \in Seq(S)
    BY ElementOfSeq
  <1>1. CASE n = 0
    <2>1. seqs = <<>>
      BY <1>1, EmptySeq
    <2>2. FlattenSeq(seqs) = <<>>
      BY <1>1, <2>1 DEF FlattenSeq
    <2>3. Len(<<>>) = 0 /\ 1..0 = {}
      OBVIOUS
    <2>4. Placement([m \in {} |-> <<1, 1>>], <<>>, seqs, Len(seqs))
      BY <2>3 DEF Placement
    <2>5. QED
      BY <2>2, <2>4, EmptySeq
  <1>2. CASE n # 0
    <2>1. PICK f : Flattens(f, seqs, n) /\ FlattenSeq(seqs) = f[n]
      BY <1>0, <1>2, FlattenIs
    <2> DEFINE T == {k \in 1..n : f[k] \in Seq(S) /\ \E p : Placement(p, f[k], seqs, k)}
    <2> HIDE DEF n
    <2>2. 1 \in 1..n
      BY <1>0, <1>2
    <2>3. 1 \in T
      <3>1. f[1] = seqs[1] /\ f[1] \in Seq(S)
        BY <1>0, <2>1, <2>2 DEF Flattens
      <3> DEFINE p == [m \in 1..Len(f[1]) |-> <<1, m>>]
      <3>2. Len(f[1]) \in Nat
        BY <3>1
      <3>3. p \in [1..Len(f[1]) -> (1..1) \X Nat]
        BY <3>2
      <3>4. Placement(p, f[1], seqs, 1)
        BY <3>1, <3>2, <3>3 DEF Placement
      <3>5. QED
        BY <2>2, <3>1, <3>4
    <2>4. ASSUME NEW k \in 1..n - 1, k \in T PROVE k + 1 \in T
      <3>1. PICK p : Placement(p, f[k], seqs, k)
        BY <2>4
      <3>2. /\ k \in Nat /\ k + 1 \in 1..n /\ k + 1 # 1 /\ k + 1 - 1 = k
            /\ f[k] \in Seq(S) /\ seqs[k + 1] \in Seq(S)
        BY <1>0, <2>4
      <3>3. f[k + 1] = f[k] \o seqs[k + 1]
        <4>1. \A i \in 1..n : i # 1 => f[i] = f[i - 1] \o seqs[i]
          BY <2>1 DEF Flattens
        <4>2. ASSUME NEW j \in 1..n, j = k + 1 PROVE f[j] = f[k] \o seqs[j]
          <5>1. j # 1 /\ j - 1 = k
            BY <3>2, <4>2
          <5>2. f[j] = f[j - 1] \o seqs[j]
            BY <4>1, <5>1
          <5>3. QED
            BY <5>1, <5>2
        <4>3. QED
          BY <3>2, <4>2
      <3> DEFINE a == Len(f[k])
                 b == Len(seqs[k + 1])
                 q == [m \in 1..a + b |-> IF m <= a THEN p[m] ELSE <<k + 1, m - a>>]
      <3>4. /\ a \in Nat /\ b \in Nat
            /\ f[k + 1] \in Seq(S) /\ Len(f[k + 1]) = a + b
            /\ \A m \in 1..a + b : f[k + 1][m] = IF m <= a THEN f[k][m] ELSE seqs[k + 1][m - a]
        <4> DEFINE s1 == f[k]
                   s2 == seqs[k + 1]
        <4>1. s1 \in Seq(S) /\ s2 \in Seq(S)
          BY <3>2
        <4> HIDE DEF s1, s2
        <4>2. /\ Len(s1) \in Nat /\ Len(s2) \in Nat
              /\ s1 \o s2 \in Seq(S) /\ Len(s1 \o s2) = Len(s1) + Len(s2)
              /\ \A m \in 1..Len(s1) + Len(s2) :
                    (s1 \o s2)[m] = IF m <= Len(s1) THEN s1[m] ELSE s2[m - Len(s1)]
          BY <4>1, ConcatProperties
        <4>3. f[k + 1] = s1 \o s2 /\ a = Len(s1) /\ b = Len(s2)
          BY <3>3 DEF s1, s2
        <4> HIDE DEF a, b
        <4>4. QED
          BY <4>2, <4>3 DEF s1, s2
      <3>5. /\ p \in [1..a -> (1..k) \X Nat]
            /\ \A m \in 1..a : /\ p[m][2] \in 1..Len(seqs[p[m][1]])
                               /\ f[k][m] = seqs[p[m][1]][p[m][2]]
            /\ \A l, m \in 1..a : p[l] = p[m] => l = m
        BY <3>1 DEF Placement
      <3> HIDE DEF a
      <3>6. \A m \in 1..a + b : \/ m \in 1..a /\ q[m] = p[m]
                               \/ /\ m \notin 1..a /\ m - a \in 1..b
                                  /\ q[m] = <<k + 1, m - a>>
        BY <3>4
      <3>7. \A m \in 1..a : p[m] \in (1..k) \X Nat /\ p[m][1] \in 1..k /\ p[m][2] \in Nat
        BY <3>5
      <3>8. q \in [1..a + b -> (1..k + 1) \X Nat]
        <4>1. ASSUME NEW m \in 1..a + b PROVE q[m] \in (1..k + 1) \X Nat
          <5>1. CASE m \in 1..a /\ q[m] = p[m]
            <6>1. p[m] \in (1..k) \X Nat /\ \A i \in 1..k : i \in 1..k + 1
              BY <3>2, <3>7, <5>1
            <6>2. QED
              BY <5>1, <6>1
          <5>2. CASE m - a \in 1..b /\ q[m] = <<k + 1, m - a>>
            <6>1. k + 1 \in 1..k + 1 /\ m - a \in Nat
              BY <3>2, <3>4, <5>2
            <6> HIDE DEF q
            <6>2. QED
              BY <5>2, <6>1
          <5>3. QED
            BY <3>6, <5>1, <5>2
        <4>2. QED
          BY <4>1
      <3>9. ASSUME NEW m \in 1..a + b
            PROVE  /\ q[m][2] \in 1..Len(seqs[q[m][1]])
                   /\ f[k + 1][m] = seqs[q[m][1]][q[m][2]]
        <4>1. CASE m \in 1..a /\ q[m] = p[m]
          <5>1. f[k + 1][m] = f[k][m]
            BY <3>4, <4>1
          <5>2. QED
            BY <3>5, <4>1, <5>1
        <4>2. CASE m \notin 1..a /\ m - a \in 1..b /\ q[m] = <<k + 1, m - a>>
          <5>1. q[m][1] = k + 1 /\ q[m][2] = m - a
            BY <4>2
          <5>2. f[k + 1][m] = seqs[k + 1][m - a]
            BY <3>4, <4>2
          <5> HIDE DEF q
          <5>3. QED
            BY <4>2, <5>1, <5>2
        <4>3. QED
          BY <3>6, <4>1, <4>2
      <3>10. ASSUME NEW l \in 1..a + b, NEW m \in 1..a + b, q[l] = q[m] PROVE l = m
        <4>1. l \in 1..a => q[l][1] \in 1..k
          BY <3>6, <3>7
        <4>2. m \in 1..a => q[m][1] \in 1..k
          BY <3>6, <3>7
        <4>3. k + 1 \notin 1..k
          BY <3>2
        <4>4. l \notin 1..a => q[l][1] = k + 1 /\ q[l][2] = l - a
          BY <3>6
        <4>5. m \notin 1..a => q[m][1] = k + 1 /\ q[m][2] = m - a
          BY <3>6
        <4> HIDE DEF q
        <4>6. CASE l \in 1..a
          <5>1. m \in 1..a
            BY <3>10, <4>1, <4>3, <4>5, <4>6
          <5>2. p[l] = p[m]
            BY <3>6, <3>10, <4>6, <5>1
          <5>3. QED
            BY <3>5, <4>6, <5>1, <5>2
        <4>7. CASE l \notin 1..a
          <5>1. m \notin 1..a
            BY <3>10, <4>2, <4>3, <4>4, <4>7
          <5>2. l - a = m - a
            BY <3>10, <4>4, <4>5, <4>7, <5>1
          <5>3. QED
            BY <3>4, <5>2
        <4>8. QED
          BY <4>6, <4>7
      <3> HIDE DEF q, b
      <3>11. Placement(q, f[k + 1], seqs, k + 1)
        BY <3>4, <3>8, <3>9, <3>10 DEF Placement
      <3>12. QED
        BY <3>2, <3>4, <3>11
    <2> HIDE DEF T
    <2>5. 1..n \subseteq T
      BY <1>0, <2>3, <2>4, SetInduction
    <2>6. n \in T
      BY <1>0, <1>2, <2>5
    <2>7. QED
      BY <2>1, <2>6 DEF T, n
  <1>3. QED
    BY <1>1, <1>2

(* No two places of a sequence hold elements that are alike.                 *)
Unlike(seq, alike) == \A l, m \in 1..Len(seq) : <<seq[l], seq[m]>> \in alike => l = m

(* A flattened sequence has no two of a kind if its rows have none and no two*)
(* rows share one.                                                           *)
RowsUnlike(seqs, alike) ==
    \A i, j \in 1..Len(seqs) : \A a \in 1..Len(seqs[i]), b \in 1..Len(seqs[j]) :
        <<seqs[i][a], seqs[j][b]>> \in alike => i = j /\ a = b

LEMMA FlattenUnlike ==
    ASSUME NEW S, NEW seqs \in Seq(Seq(S)), NEW alike, RowsUnlike(seqs, alike)
    PROVE  FlattenSeq(seqs) \in Seq(S) /\ Unlike(FlattenSeq(seqs), alike)
  <1> DEFINE flat == FlattenSeq(seqs)
             n == Len(seqs)
  <1>1. flat \in Seq(S) /\ \E p : Placement(p, flat, seqs, n)
    BY FlattenPlaces
  <1>2. PICK p : Placement(p, flat, seqs, n)
    BY <1>1
  <1> HIDE DEF flat
  <1>3. ASSUME NEW l \in 1..Len(flat), NEW m \in 1..Len(flat), <<flat[l], flat[m]>> \in alike
        PROVE  l = m
    <2> HIDE DEF n
    <2>0. p[l] \in (1..n) \X Nat /\ p[m] \in (1..n) \X Nat
      BY <1>2, <1>3 DEF Placement
    <2>1. PICK i \in 1..n, a \in Nat : p[l] = <<i, a>>
      BY <2>0
    <2>2. PICK j \in 1..n, b \in Nat : p[m] = <<j, b>>
      BY <2>0
    <2>3. p[l][1] = i /\ p[l][2] = a /\ p[m][1] = j /\ p[m][2] = b
      BY <2>1, <2>2
    <2>4. /\ a \in 1..Len(seqs[i]) /\ flat[l] = seqs[i][a]
          /\ b \in 1..Len(seqs[j]) /\ flat[m] = seqs[j][b]
      BY <1>2, <2>3 DEF Placement
    <2>5. i = j /\ a = b
      BY <1>3, <2>4 DEF RowsUnlike, n
    <2>6. p[l] = p[m]
      BY <2>1, <2>2, <2>5
    <2>7. QED
      BY <1>2, <2>6 DEF Placement
  <1>4. QED
    BY <1>1, <1>3 DEF Unlike, flat

(* What Graph lists: Pages of P, with or without a token.                    *)
Pages(P) == [id : P, token : BOOLEAN]
SamePage(P) == {pair \in Pages(P) \X Pages(P) : pair[1].id = pair[2].id}

(* Each Page is seen once, however often and wherever it is listed.          *)
LEMMA SeenOnce ==
    ASSUME NEW P, NEW listings \in Seq(Seq(Pages(P)))
    PROVE  Seen(listings) \in Seq(Pages(P)) /\ Unlike(Seen(listings), SamePage(P))
  <1> DEFINE listed == FlattenSeq(listings)
             n == Len(listed)
             known(i) == \E j \in 1..i - 1 : listed[j].id = listed[i].id
             rows == [i \in 1..n |-> IF known(i) THEN <<>> ELSE <<listed[i]>>]
  <1>1. listed \in Seq(Pages(P))
    BY FlattenPlaces
  <1>2. n \in Nat /\ DOMAIN listed = 1..n /\ \A i \in 1..n : listed[i] \in Pages(P)
    <2> HIDE DEF listed
    <2>1. QED
      BY <1>1, LenProperties, ElementOfSeq
  <1>3. Seen(listings) = FlattenSeq(rows)
    BY <1>2 DEF Seen
  <1> HIDE DEF listed, n
  <1>4. rows \in Seq(Seq(Pages(P))) /\ Len(rows) = n
    <2>1. \A i \in 1..n : (IF known(i) THEN <<>> ELSE <<listed[i]>>) \in Seq(Pages(P))
      <3>1. \A page \in Pages(P) : <<page>> \in Seq(Pages(P))
        OBVIOUS
      <3>2. QED
        BY <1>2, <3>1, EmptySeq
    <2>2. rows \in [1..n -> Seq(Pages(P))]
      BY <2>1
    <2> HIDE DEF rows
    <2>3. QED
      BY <1>2, <2>2
  <1>5. \A i \in 1..n : \A a \in 1..Len(rows[i]) :
            ~known(i) /\ a = 1 /\ rows[i][a] = listed[i]
    <2> SUFFICES ASSUME NEW i \in 1..n, NEW a \in 1..Len(rows[i])
                 PROVE  ~known(i) /\ a = 1 /\ rows[i][a] = listed[i]
      OBVIOUS
    <2>1. CASE known(i)
      <3>1. rows[i] = <<>>
        BY <2>1
      <3>2. QED
        BY <3>1, EmptySeq
    <2>2. CASE ~known(i)
      <3>1. rows[i] = <<listed[i]>>
        BY <2>2
      <3>2. QED
        BY <2>2, <3>1
    <2>3. QED
      BY <2>1, <2>2
  <1>6. \A i, j \in 1..n : listed[i].id = listed[j].id /\ ~known(i) /\ ~known(j) => i = j
    <2> SUFFICES ASSUME NEW i \in 1..n, NEW j \in 1..n, listed[i].id = listed[j].id,
                        ~known(i), ~known(j)
                 PROVE  i = j
      OBVIOUS
    <2>1. i < j => i \in 1..j - 1
      BY <1>2
    <2>2. j < i => j \in 1..i - 1
      BY <1>2
    <2>3. QED
      BY <1>2, <2>1, <2>2
  <1>7. RowsUnlike(rows, SamePage(P))
    <2> HIDE DEF rows, known
    <2> SUFFICES ASSUME NEW i \in 1..n, NEW j \in 1..n, NEW a \in 1..Len(rows[i]),
                        NEW b \in 1..Len(rows[j]), <<rows[i][a], rows[j][b]>> \in SamePage(P)
                 PROVE  i = j /\ a = b
      BY <1>4 DEF RowsUnlike
    <2>1. /\ ~known(i) /\ a = 1 /\ rows[i][a] = listed[i]
          /\ ~known(j) /\ b = 1 /\ rows[j][b] = listed[j]
      BY <1>5
    <2>2. listed[i].id = listed[j].id
      BY <2>1 DEF SamePage
    <2>3. QED
      BY <1>6, <2>1, <2>2
  <1> HIDE DEF rows
  <1>8. QED
    BY <1>3, <1>4, <1>7, FlattenUnlike

LEMMA ViaBusinessesOnce ==
    ASSUME NEW P, NEW edges \in Seq(Seq(Pages(P))), NEW given
    PROVE  /\ PagesViaBusinesses(edges, given) \in Seq(Pages(P))
           /\ Unlike(PagesViaBusinesses(edges, given), SamePage(P))
  <1> DEFINE seen == Seen(edges)
             n == Len(seen)
             resolved(page) == IF page.token \/ page.id \in given
                               THEN <<[id |-> page.id, token |-> TRUE]>> ELSE <<>>
             rows == [i \in 1..n |-> resolved(seen[i])]
  <1>1. seen \in Seq(Pages(P)) /\ Unlike(seen, SamePage(P))
    BY SeenOnce
  <1>2. n \in Nat /\ DOMAIN seen = 1..n /\ \A i \in 1..n : seen[i] \in Pages(P)
    <2> HIDE DEF seen
    <2>1. QED
      BY <1>1, LenProperties, ElementOfSeq
  <1>3. PagesViaBusinesses(edges, given) = FlattenSeq(rows)
    BY <1>2 DEF PagesViaBusinesses
  <1> HIDE DEF seen, n
  <1>4. rows \in Seq(Seq(Pages(P))) /\ Len(rows) = n
    <2>1. \A page \in Pages(P) : resolved(page) \in Seq(Pages(P))
      <3>1. \A page \in Pages(P) : [id |-> page.id, token |-> TRUE] \in Pages(P)
        BY DEF Pages
      <3>2. \A page \in Pages(P) : <<page>> \in Seq(Pages(P))
        OBVIOUS
      <3>3. QED
        BY <3>1, <3>2, EmptySeq
    <2> HIDE DEF resolved
    <2>2. rows \in [1..n -> Seq(Pages(P))]
      BY <1>2, <2>1
    <2> HIDE DEF rows
    <2>3. QED
      BY <1>2, <2>2
  <1>5. \A i \in 1..n : \A a \in 1..Len(rows[i]) :
            a = 1 /\ rows[i][a] = [id |-> seen[i].id, token |-> TRUE]
    <2> SUFFICES ASSUME NEW i \in 1..n, NEW a \in 1..Len(rows[i])
                 PROVE  a = 1 /\ rows[i][a] = [id |-> seen[i].id, token |-> TRUE]
      OBVIOUS
    <2>1. rows[i] = <<>> \/ rows[i] = <<[id |-> seen[i].id, token |-> TRUE]>>
      OBVIOUS
    <2>2. CASE rows[i] = <<>>
      BY <2>2, EmptySeq
    <2>3. CASE rows[i] = <<[id |-> seen[i].id, token |-> TRUE]>>
      <3>1. \A x : Len(<<x>>) = 1 /\ <<x>>[1] = x
        OBVIOUS
      <3> DEFINE record == [id |-> seen[i].id, token |-> TRUE]
      <3> HIDE DEF rows, record
      <3>2. rows[i] = <<record>>
        BY <2>3 DEF record
      <3>3. a \in 1..1 /\ Len(<<record>>) = 1
        BY <3>1, <3>2
      <3>4. a = 1 /\ rows[i][a] = record
        BY <3>1, <3>2, <3>3
      <3>5. QED
        BY <3>4 DEF record
    <2>4. QED
      BY <2>1, <2>2, <2>3
  <1>6. RowsUnlike(rows, SamePage(P))
    <2> HIDE DEF rows
    <2> SUFFICES ASSUME NEW i \in 1..n, NEW j \in 1..n, NEW a \in 1..Len(rows[i]),
                        NEW b \in 1..Len(rows[j]), <<rows[i][a], rows[j][b]>> \in SamePage(P)
                 PROVE  i = j /\ a = b
      BY <1>4 DEF RowsUnlike
    <2>1. /\ a = 1 /\ rows[i][a] = [id |-> seen[i].id, token |-> TRUE]
          /\ b = 1 /\ rows[j][b] = [id |-> seen[j].id, token |-> TRUE]
      BY <1>5
    <2>2. seen[i].id = seen[j].id
      BY <2>1 DEF SamePage
    <2>3. <<seen[i], seen[j]>> \in SamePage(P)
      BY <1>2, <2>2 DEF SamePage
    <2>4. QED
      BY <1>1, <2>1, <2>3 DEF Unlike, n
  <1> HIDE DEF rows
  <1>7. QED
    BY <1>3, <1>4, <1>6, FlattenUnlike

(* What Graph is taken to answer: a listing of the user's own Pages has each *)
(* once, an Instagram account is linked to one Page, and no id is of both    *)
(* kinds.  The listings of businesses repeat Pages as they like.             *)
GraphAnswers(P, own, edges, instagram) ==
    /\ own \in Seq(Pages(P)) /\ Unlike(own, SamePage(P))
    /\ edges \in Seq(Seq(Pages(P)))
    /\ \A x \in DOMAIN instagram : instagram[x] \notin P
    /\ \A x, y \in DOMAIN instagram : instagram[x] = instagram[y] => x = y

Same(S) == {<<x, x>> : x \in S}

LEMMA PairIs ==
    ASSUME NEW x, NEW y
    PROVE  <<x>> \o <<y>> = <<x, y>>
  <1> DEFINE S == {x, y}
             s1 == <<x>>
             s2 == <<y>>
             t == <<x, y>>
  <1>1. /\ s1 \in Seq(S) /\ s2 \in Seq(S) /\ t \in Seq(S)
        /\ Len(s1) = 1 /\ Len(s2) = 1 /\ Len(t) = 2
        /\ s1[1] = x /\ s2[1] = y /\ t[1] = x /\ t[2] = y
    OBVIOUS
  <1> HIDE DEF S, s1, s2, t
  <1>2. /\ s1 \o s2 \in Seq(S) /\ Len(s1 \o s2) = 1 + 1
        /\ \A i \in 1..1 + 1 : (s1 \o s2)[i] = IF i <= 1 THEN s1[i] ELSE s2[i - 1]
    BY <1>1, ConcatProperties
  <1>3. \A i \in 1..2 : (s1 \o s2)[i] = t[i]
    BY <1>1, <1>2
  <1>4. s1 \o s2 = t
    BY <1>1, <1>2, <1>3, SeqEqual
  <1>5. QED
    BY <1>4 DEF s1, s2, t

(* Each destination is found once.                                           *)
LEMMA DiscoveredOnce ==
    ASSUME NEW P, NEW own, NEW edges, NEW given, NEW instagram,
           GraphAnswers(P, own, edges, instagram)
    PROVE  LET S == P \union {instagram[x] : x \in DOMAIN instagram}
               list == DiscoverAccounts(own, edges, given, instagram)
           IN  list \in Seq(S) /\ Unlike(list, Same(S))
  <1> DEFINE S == P \union {instagram[x] : x \in DOMAIN instagram}
             pages == IF own # <<>> THEN own ELSE PagesViaBusinesses(edges, given)
             n == Len(pages)
             linked(id) == IF id \in DOMAIN instagram THEN <<instagram[id]>> ELSE <<>>
             connected(page) == IF page.token THEN <<page.id>> \o linked(page.id) ELSE <<>>
             rows == [i \in 1..n |-> connected(pages[i])]
  <1>1. pages \in Seq(Pages(P)) /\ Unlike(pages, SamePage(P))
    BY ViaBusinessesOnce DEF GraphAnswers
  <1>2. n \in Nat /\ DOMAIN pages = 1..n /\ \A i \in 1..n : pages[i] \in Pages(P)
    <2> HIDE DEF pages
    <2>1. QED
      BY <1>1, LenProperties, ElementOfSeq
  <1>3. DiscoverAccounts(own, edges, given, instagram) = FlattenSeq(rows)
    BY <1>2 DEF DiscoverAccounts
  <1> HIDE DEF pages, n
  <1>4. ASSUME NEW id \in P
        PROVE  \/ <<id>> \o linked(id) = <<id>>
               \/ /\ id \in DOMAIN instagram
                  /\ <<id>> \o linked(id) = <<id, instagram[id]>>
    <2>1. \A x : <<x>> \o <<>> = <<x>>
      OBVIOUS
    <2>2. \A x, y : <<x>> \o <<y>> = <<x, y>>
      BY PairIs
    <2>3. CASE id \in DOMAIN instagram
      <3>1. linked(id) = <<instagram[id]>>
        BY <2>3
      <3> HIDE DEF linked
      <3>2. QED
        BY <2>2, <2>3, <3>1
    <2>4. CASE id \notin DOMAIN instagram
      <3>1. linked(id) = <<>>
        BY <2>4
      <3> HIDE DEF linked
      <3>2. QED
        BY <2>1, <3>1
    <2>5. QED
      BY <2>3, <2>4
  <1>5. ASSUME NEW i \in 1..n
        PROVE  \/ rows[i] = <<>>
               \/ rows[i] = <<pages[i].id>>
               \/ /\ pages[i].id \in DOMAIN instagram
                  /\ rows[i] = <<pages[i].id, instagram[pages[i].id]>>
    <2>1. pages[i].id \in P
      BY <1>2 DEF Pages
    <2>2. rows[i] = <<>> \/ rows[i] = <<pages[i].id>> \o linked(pages[i].id)
      OBVIOUS
    <2> HIDE DEF rows, linked
    <2>3. QED
      BY <1>4, <2>1, <2>2
  <1> DEFINE id(i) == pages[i].id
  <1>6. \A i \in 1..n : id(i) \in P
    BY <1>2 DEF Pages
  <1>7. rows \in Seq(Seq(S)) /\ Len(rows) = n
    <2>1. ASSUME NEW i \in 1..n PROVE rows[i] \in Seq(S)
      <3> HIDE DEF rows
      <3>1. CASE rows[i] = <<>>
        BY <3>1, EmptySeq
      <3>2. CASE rows[i] = <<id(i)>>
        <4>1. id(i) \in S
          BY <1>6
        <4> HIDE DEF S, id
        <4>2. QED
          BY <3>2, <4>1
      <3>3. CASE id(i) \in DOMAIN instagram /\ rows[i] = <<id(i), instagram[id(i)]>>
        <4>1. id(i) \in S /\ instagram[id(i)] \in S
          BY <1>6, <3>3
        <4> HIDE DEF S, id
        <4>2. QED
          BY <3>3, <4>1
      <3>4. QED
        BY <1>5, <3>1, <3>2, <3>3
    <2>2. rows \in [1..n -> Seq(S)]
      BY <2>1
    <2> HIDE DEF rows, S
    <2>3. QED
      BY <1>2, <2>2
  <1>8. ASSUME NEW i \in 1..n, NEW a \in 1..Len(rows[i])
        PROVE  \/ a = 1 /\ rows[i][a] = id(i)
               \/ a = 2 /\ id(i) \in DOMAIN instagram /\ rows[i][a] = instagram[id(i)]
    <2> HIDE DEF rows, id
    <2>1. \/ rows[i] = <<>> \/ rows[i] = <<id(i)>>
          \/ id(i) \in DOMAIN instagram /\ rows[i] = <<id(i), instagram[id(i)]>>
      BY <1>5 DEF id
    <2>2. CASE rows[i] = <<>>
      BY <2>2, EmptySeq
    <2>3. CASE rows[i] = <<id(i)>>
      BY <2>3
    <2>4. CASE id(i) \in DOMAIN instagram /\ rows[i] = <<id(i), instagram[id(i)]>>
      BY <2>4
    <2>5. QED
      BY <2>1, <2>2, <2>3, <2>4
  <1>9. \A i, j \in 1..n : id(i) = id(j) => i = j
    <2> SUFFICES ASSUME NEW i \in 1..n, NEW j \in 1..n, id(i) = id(j) PROVE i = j
      OBVIOUS
    <2>1. <<pages[i], pages[j]>> \in SamePage(P)
      BY <1>2 DEF SamePage
    <2>2. QED
      BY <1>1, <2>1 DEF Unlike, n
  <1>10. RowsUnlike(rows, Same(S))
    <2> HIDE DEF rows, id
    <2> SUFFICES ASSUME NEW i \in 1..n, NEW j \in 1..n, NEW a \in 1..Len(rows[i]),
                        NEW b \in 1..Len(rows[j]), rows[i][a] = rows[j][b]
                 PROVE  i = j /\ a = b
      BY <1>7 DEF RowsUnlike, Same
    <2>1. /\ id(i) \in P /\ id(j) \in P
          /\ id(i) \in DOMAIN instagram => instagram[id(i)] \notin P
          /\ id(j) \in DOMAIN instagram => instagram[id(j)] \notin P
          /\ id(i) \in DOMAIN instagram /\ id(j) \in DOMAIN instagram
                /\ instagram[id(i)] = instagram[id(j)] => id(i) = id(j)
      BY <1>6 DEF GraphAnswers
    <2>2. \/ a = 1 /\ rows[i][a] = id(i)
          \/ a = 2 /\ id(i) \in DOMAIN instagram /\ rows[i][a] = instagram[id(i)]
      BY <1>8
    <2>3. \/ b = 1 /\ rows[j][b] = id(j)
          \/ b = 2 /\ id(j) \in DOMAIN instagram /\ rows[j][b] = instagram[id(j)]
      BY <1>8
    <2>4. id(i) = id(j) /\ a = b
      BY <2>1, <2>2, <2>3
    <2>5. QED
      BY <1>9, <2>4
  <1> HIDE DEF rows, S
  <1>11. FlattenSeq(rows) \in Seq(S) /\ Unlike(FlattenSeq(rows), Same(S))
    BY <1>7, <1>10, FlattenUnlike
  <1>12. QED
    BY <1>3, <1>11 DEF S

-----------------------------------------------------------------------------
(* Each destination is stored once. *)

(* The list is what _discover_accounts makes of such answers.                *)
Discovered(list) ==
    \E P, own, edges, given, instagram :
        /\ GraphAnswers(P, own, edges, instagram)
        /\ list = DiscoverAccounts(own, edges, given, instagram)

NoRepeat(seq) == \A i, j \in DOMAIN seq : seq[i] = seq[j] => i = j

LEMMA DiscoveredNoRepeat ==
    ASSUME NEW list \in Seq(Destinations), Discovered(list)
    PROVE  NoRepeat(list)
  <1>1. PICK P, own, edges, given, instagram :
           /\ GraphAnswers(P, own, edges, instagram)
           /\ list = DiscoverAccounts(own, edges, given, instagram)
    BY DEF Discovered
  <1> DEFINE S == P \union {instagram[x] : x \in DOMAIN instagram}
  <1>2. list \in Seq(S) /\ Unlike(list, Same(S))
    BY <1>1, DiscoveredOnce
  <1> HIDE DEF S
  <1>3. \A l, m \in DOMAIN list : list[l] = list[m] => <<list[l], list[m]>> \in Same(S)
    BY <1>2 DEF Same
  <1>4. DOMAIN list = 1..Len(list)
    BY <1>2
  <1>5. QED
    BY <1>2, <1>3, <1>4 DEF NoRepeat, Unlike

LEMMA TailNoRepeat ==
    ASSUME NEW S, NEW seq \in Seq(S), seq # <<>>, NoRepeat(seq)
    PROVE  NoRepeat(Tail(seq))
  <1>1. /\ Len(seq) \in Nat /\ DOMAIN seq = 1..Len(seq) /\ Len(seq) # 0
        /\ DOMAIN Tail(seq) = 1..Len(seq) - 1
        /\ \A i \in 1..Len(seq) - 1 : Tail(seq)[i] = seq[i + 1]
    OBVIOUS
  <1> SUFFICES ASSUME NEW i \in 1..Len(seq) - 1, NEW j \in 1..Len(seq) - 1, seq[i + 1] = seq[j + 1]
               PROVE  i = j
    BY <1>1 DEF NoRepeat
  <1>2. i + 1 \in DOMAIN seq /\ j + 1 \in DOMAIN seq
    BY <1>1
  <1>3. i + 1 = j + 1
    BY <1>2 DEF NoRepeat
  <1>4. QED
    BY <1>1, <1>3

(* What a request has left to store is what it had, the rest of that, a new  *)
(* exchange or nothing.                                                      *)
LeftOf(old, new) ==
    \/ new \in {old, <<>>} \union Exchanges
    \/ old # <<>> /\ new = Tail(old)

LEMMA TodoSteps ==
    ASSUME AccountsIInv, NEW q \in Requests, NEW x, requests' = [requests EXCEPT ![q] = x],
           LeftOf(requests[q].todo, x.todo)
    PROVE  \A k \in Requests : LeftOf(requests[k].todo, requests'[k].todo)
  <1>1. requests \in [Requests -> RequestShape]
    BY DEF AccountsIInv, Shapes
  <1>2. QED
    BY <1>1 DEF LeftOf

LEMMA TodoCommits ==
    ASSUME AccountsIInv, NEW q \in Requests, Committing(q, "connect"), Continue(q)
    PROVE  \A k \in Requests : LeftOf(requests[k].todo, requests'[k].todo)
  <1>1. requests[q].todo # <<>>
    BY DEF AccountsIInv, RequestsOK, AboutOK, Committing
  <1>2. Idle.todo = <<>> /\ NextDestination(q).todo = Tail(requests[q].todo)
    BY DEF Idle, NextDestination
  <1>3. QED
    BY <1>1, <1>2, TodoSteps DEF Continue, Committed, LeftOf

LEMMA TodoNext ==
    ASSUME AccountsIInv, [Next]_vars
    PROVE  \A k \in Requests : LeftOf(requests[k].todo, requests'[k].todo)
  <1> DEFINE Goal == \A k \in Requests : LeftOf(requests[k].todo, requests'[k].todo)
  <1>0. requests \in [Requests -> RequestShape] /\ Idle.todo = <<>>
    BY DEF AccountsIInv, Shapes, Idle
  <1>1. ASSUME NEW q \in Requests, NEW list \in Exchanges, BeginConnect(q, list) PROVE Goal
    <2> DEFINE x == [Idle EXCEPT !.op = "connect", !.step = "find", !.todo = list]
    <2>1. requests' = [requests EXCEPT ![q] = x] /\ x.todo = list
      BY <1>1 DEF BeginConnect, Begin, Idle
    <2> HIDE DEF x
    <2>2. LeftOf(requests[q].todo, x.todo)
      BY <2>1 DEF LeftOf
    <2>3. QED
      BY <2>1, <2>2, TodoSteps
  <1>2. ASSUME NEW q \in Requests, NEW id \in Ids, NEW op \in {"activate", "disconnect"},
               BeginOn(q, op, id)
        PROVE  Goal
    <2> DEFINE x == [Idle EXCEPT !.op = op, !.target = id, !.platform = Platform(id),
                             !.known = accounts[id],
                             !.step = IF op = "activate" THEN "deactivate" ELSE "commit"]
    <2>1. requests' = [requests EXCEPT ![q] = x] /\ x.todo = <<>>
      BY <1>2 DEF BeginOn, Begin, Idle
    <2> HIDE DEF x
    <2>2. LeftOf(requests[q].todo, x.todo)
      BY <2>1 DEF LeftOf
    <2>3. QED
      BY <2>1, <2>2, TodoSteps
  <1>3. ASSUME NEW q \in Requests, NEW id \in Ids, BeginPublish(q, id) PROVE Goal
    <2> DEFINE x == [Idle EXCEPT !.op = "publish", !.step = "commit", !.target = id]
    <2>1. requests' = [requests EXCEPT ![q] = x] /\ x.todo = <<>>
      BY <1>3 DEF BeginPublish, Begin, Idle
    <2> HIDE DEF x
    <2>2. LeftOf(requests[q].todo, x.todo)
      BY <2>1 DEF LeftOf
    <2>3. QED
      BY <2>1, <2>2, TodoSteps
  <1>4. ASSUME NEW q \in Requests, Find(q) PROVE Goal
    <2>1. \A k \in Requests : requests'[k].todo = requests[k].todo
      BY <1>0, <1>4 DEF Find, RequestShape
    <2>2. QED
      BY <2>1 DEF LeftOf
  <1>5. ASSUME NEW q \in Requests, Deactivate(q) PROVE Goal
    <2>1. \A k \in Requests : requests'[k].todo = requests[k].todo
      BY <1>0, <1>5 DEF Deactivate, RequestShape
    <2>2. QED
      BY <2>1 DEF LeftOf
  <1>6. ASSUME NEW q \in Requests, (\E id \in Ids : Insert(q, id)) \/ Update(q) PROVE Goal
    BY <1>6, TodoCommits DEF Insert, Update
  <1>7. ASSUME NEW q \in Requests, requests' = [requests EXCEPT ![q] = Idle] PROVE Goal
    BY <1>0, <1>7, TodoSteps DEF LeftOf
  <1>8. ASSUME NEW q \in Requests,
               \/ Activate(q) \/ Disconnect(q) \/ Abandon(q)
               \/ \E p \in Publications : Claim(q, p)
        PROVE  Goal
    BY <1>7, <1>8 DEF Activate, Disconnect, Abandon, Claim, Committed
  <1>9. CASE UNCHANGED vars
    BY <1>9 DEF vars, LeftOf
  <1>10. QED
    BY <1>1, <1>2, <1>3, <1>4, <1>5, <1>6, <1>8, <1>9 DEF Next

(* If every exchange stores what _discover_accounts makes of Graph's answers,*)
(* no request has a destination left to store twice, however often the       *)
(* businesses of a user list a Page (_pages_via_businesses, social_callback).*)
THEOREM DestinationsOnce ==
    ASSUME \A list \in Exchanges : Discovered(list)
    PROVE  Spec => []EachDestinationOnce
  <1>1. \A list \in Exchanges : NoRepeat(list)
    BY DiscoveredNoRepeat, AccountsAssumption
  <1>2. Init => EachDestinationOnce
    BY DEF Init, Idle, EachDestinationOnce
  <1>3. AccountsIInv /\ EachDestinationOnce /\ [Next]_vars => EachDestinationOnce'
    <2> SUFFICES ASSUME AccountsIInv, EachDestinationOnce, [Next]_vars, NEW q \in Requests
                 PROVE  NoRepeat(requests'[q].todo)
      BY DEF EachDestinationOnce, NoRepeat
    <2>1. LeftOf(requests[q].todo, requests'[q].todo)
      BY TodoNext
    <2>2. NoRepeat(requests[q].todo)
      BY DEF EachDestinationOnce, NoRepeat
    <2>3. requests[q].todo \in Seq(Destinations)
      BY DEF AccountsIInv, Shapes, RequestShape
    <2>4. NoRepeat(<<>>)
      BY DEF NoRepeat
    <2>5. QED
      BY <1>1, <2>1, <2>2, <2>3, <2>4, TailNoRepeat DEF LeftOf
  <1>4. QED
    BY <1>2, <1>3, AccountsInvariant, PTL DEF Spec

=============================================================================
