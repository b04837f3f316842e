--------------------------- MODULE GenerationProofs --------------------------
(***************************************************************************)
(* Theorems about Generation, for any number of platforms and styles, any  *)
(* concurrency, timeouts, backoff and deadline.                            *)
(***************************************************************************)
EXTENDS Generation, FiniteSetTheorems, TLAPS

StatesOK ==
    /\ task[Request] \in {"fetching", "running", "aborting"} \union Finished
    /\ \A g \in Groups \ {Request} : task[g] \in {"new", "running", "aborting"} \union Finished
    /\ \A c \in Calls : task[c] \in {"new", "waiting"} \union Holding \union Finished

(* A task and its group.  A group that has started ends after its tasks, and *)
(* well only if all of them did; a failure makes it abort; when it aborts it *)
(* has passed the cancellation on, and only then.                            *)
Below(c) ==
    /\ task[c] # "new" => task[Parent(c)] \notin {"new", "fetching"}
    /\ task[Parent(c)] \in Finished => task[c] \in Finished \union {"new"}
    /\ task[Parent(c)] = "done" => task[c] \in {"done", "new"}
    /\ task[c] = "failed" => task[Parent(c)] \in {"aborting", "failed"}
    /\ task[Parent(c)] = "aborting" =>
          task[c] \in Finished \union {"new", "aborting"} \/ c \in cancels
    /\ task[Parent(c)] = "running" => task[c] # "cancelled" /\ c \notin cancels
TreeOK == \A c \in Tasks \ {Request} : Below(c)

(* A platform aborts for a failure of its own, or with the request.          *)
Innocent(g) == \A c \in Calls : Parent(c) = g => task[c] # "failed"
SpreadOK == \A g \in Groups \ {Request} :
    task[g] = "aborting" /\ Innocent(g) => task[Request] = "aborting"

(* The calls that exist: all that are wanted, once the request has come that *)
(* far.                                                                      *)
StartedOK ==
    /\ \A c \in Calls : task[c] # "new" => c \in wanted
    /\ task[Request] \in {"running", "aborting", "done", "failed"} =>
          \A c \in wanted : task[c] # "new" /\ task[Parent(c)] # "new"
    /\ task[Request] = "fetching" => reference
    /\ reference => op = "generate"

CancelsOK ==
    /\ \A t \in cancels : task[t] \notin Finished \union {"new"}
    /\ expired /\ Unfinished => Request \in cancels \/ task[Request] = "aborting"

AnswerOK ==
    /\ outcome = "none" => task[Request] \notin {"failed", "cancelled"}
    /\ outcome # "none" => task[Request] \in Finished
    /\ saved # {} => saved = wanted /\ outcome = "saved"
    /\ outcome = "saved" => task[Request] = "done"

TriesOK == \A c \in Calls : /\ task[c] \in Holding => tries[c] >= 1
                            /\ task[c] = "pausing" => tries[c] < Attempts

ShapesOK == StatesOK /\ TreeOK /\ SpreadOK /\ StartedOK /\ CancelsOK /\ AnswerOK
IInv == TypeOK /\ ShapesOK /\ TriesOK

-----------------------------------------------------------------------------
(* Where no call has to queue and no page is fetched, each call has begun    *)
(* its attempt, or its pause, by the time that the earlier ones can take.    *)
Smooth == Cardinality(wanted) <= Concurrency /\ ~reference
Begun(c) ==
    /\ task[c] = "waiting" => clock = 0
    /\ task[c] = "calling" => spent[c] <= Timeout /\ clock <= Latest(tries[c]) + spent[c]
    /\ task[c] = "pausing" => /\ spent[c] <= Backoff * tries[c]
                              /\ clock <= Latest(tries[c]) + Timeout + spent[c]
TimeOK ==
    /\ Smooth => \A c \in Calls : Begun(c)
    /\ Smooth /\ outcome = "none" => clock <= WorstCase
    /\ HasDeadline /\ outcome = "none" => clock <= Deadline

-----------------------------------------------------------------------------
(* The tree of tasks.                                                        *)
LEMMA TreeFacts ==
    /\ Request \in Groups /\ Request \in Tasks /\ Request \notin Calls
    /\ Calls \subseteq Tasks /\ Groups \subseteq Tasks /\ Tasks = Calls \union Groups
    /\ \A c \in Calls : /\ c \notin Groups /\ Parent(c) \in Groups /\ Parent(c) # Request
                        /\ Parent(c) \in Tasks /\ Parent(Parent(c)) = Request
    /\ \A g \in Groups : Parent(g) = Request
    /\ \A t \in Tasks : Parent(t) \in Groups
  <1>1. \A g \in Groups : g[2] = 0
    BY DEF Groups, Request
  <1>2. \A c \in Calls : c[2] # 0 /\ c[1] \in 1..Platforms
    BY LimitsAssumption DEF Calls, LimitsAssumption
  <1>3. Request \in Groups /\ \A c \in Calls : c \notin Groups
    BY <1>1, <1>2 DEF Groups
  <1>4. \A c \in Calls : Parent(c) = <<c[1], 0>>
    BY DEF Parent
  <1>5. \A c \in Calls : <<c[1], 0>> \in Groups /\ <<c[1], 0>> # Request
    BY <1>2 DEF Groups, Request
  <1>6. \A g \in Groups : Parent(g) = Request
    BY <1>3 DEF Parent
  <1>7. QED
    BY <1>3, <1>4, <1>5, <1>6 DEF Tasks

LEMMA LimitFacts ==
    /\ Platforms \in Nat \ {0} /\ Styles \in Nat \ {0} /\ Concurrency \in Nat \ {0}
    /\ Timeout \in Nat \ {0} /\ Attempts \in 1..3 /\ Backoff \in Nat /\ Deadline \in Nat \ {0}
  <1>1. CASE op = "image"
    BY <1>1, LimitsAssumption DEF LimitsAssumption, Timeout, Attempts
  <1>2. CASE op # "image"
    BY <1>2, LimitsAssumption DEF LimitsAssumption, Timeout, Attempts
  <1>3. QED
    BY <1>1, <1>2

LEMMA WantedAreCalls ==
    ASSUME op \in Ops, wanted \in CallsOf(op)
    PROVE  wanted \subseteq Calls
  <1>1. CASE op = "generate"
    <2>1. PICK n \in 1..Platforms : wanted = (1..n) \X (1..Styles)
      BY <1>1 DEF CallsOf
    <2>2. 1..n \subseteq 1..Platforms
      BY LimitFacts
    <2>3. QED
      BY <2>1, <2>2 DEF Calls
  <1>2. CASE op # "generate"
    <2>1. wanted = {<<1, 1>>}
      BY <1>2 DEF CallsOf
    <2>2. 1 \in 1..Platforms /\ 1 \in 1..Styles
      BY LimitFacts
    <2>3. QED
      BY <2>1, <2>2 DEF Calls
  <1>3. QED
    BY <1>1, <1>2

LEMMA CreatedFacts ==
    ASSUME wanted \subseteq Calls
    PROVE  /\ Created \in [Tasks -> States] /\ Created[Request] = "running"
           /\ \A c \in Calls : Created[c] = IF c \in wanted THEN "waiting" ELSE "new"
           /\ \A g \in Groups \ {Request} : Created[g] \in {"new", "running"}
           /\ \A c \in wanted : Created[Parent(c)] = "running"
  <1>1. Created \in [Tasks -> States]
    BY DEF Created, States
  <1>2. Created[Request] = "running"
    BY TreeFacts DEF Created
  <1>3. \A c \in Calls : Created[c] = IF c \in wanted THEN "waiting" ELSE "new"
    <2>1. ASSUME NEW c \in Calls, \E d \in wanted : Parent(d) = c PROVE FALSE
      BY <2>1, TreeFacts
    <2>2. QED
      BY <2>1, TreeFacts DEF Created
  <1>4. \A g \in Groups \ {Request} : Created[g] \in {"new", "running"}
    BY TreeFacts DEF Created
  <1>5. \A c \in wanted : Created[Parent(c)] = "running"
    <2> SUFFICES ASSUME NEW c \in wanted PROVE Created[Parent(c)] = "running"
      OBVIOUS
    <2>1. /\ Parent(c) \in Tasks /\ Parent(c) # Request /\ Parent(c) \notin wanted
          /\ \E d \in wanted : Parent(d) = Parent(c)
      BY TreeFacts
    <2>2. QED
      BY <2>1 DEF Created
  <1>6. QED
    BY <1>1, <1>2, <1>3, <1>4, <1>5

(* The tasks as they are created, with nothing cancelled, form such a tree.  *)
LEMMA CreatedNow ==
    ASSUME wanted \subseteq Calls, reference => op = "generate",
           task = Created, cancels = {}
    PROVE  /\ task \in [Tasks -> States] /\ task[Request] = "running"
           /\ StatesOK /\ TreeOK /\ SpreadOK /\ StartedOK
  <1>1. /\ task \in [Tasks -> States] /\ task[Request] = "running"
        /\ \A c \in Calls : task[c] = IF c \in wanted THEN "waiting" ELSE "new"
        /\ \A g \in Groups \ {Request} : task[g] \in {"new", "running"}
        /\ \A c \in wanted : task[Parent(c)] = "running"
    BY CreatedFacts
  <1>2. StatesOK
    BY <1>1 DEF StatesOK
  <1>3. StartedOK
    BY <1>1 DEF StartedOK
  <1>4. ASSUME NEW c \in Calls PROVE Below(c)
    <2>1. CASE c \in wanted
      BY <1>1, <2>1 DEF Below, Finished
    <2>2. CASE c \notin wanted
      <3>1. task[c] = "new" /\ task[Parent(c)] \in {"new", "running"}
        BY <1>1, <2>2, TreeFacts
      <3>2. QED
        BY <3>1 DEF Below, Finished
    <2>3. QED
      BY <2>1, <2>2
  <1>5. ASSUME NEW g \in Groups \ {Request} PROVE Below(g)
    BY <1>1, TreeFacts DEF Below, Finished
  <1>6. SpreadOK
    BY <1>1 DEF SpreadOK
  <1>7. QED
    BY <1>1, <1>2, <1>3, <1>4, <1>5, <1>6, TreeFacts DEF TreeOK

LEMMA CreatedTree ==
    ASSUME wanted \subseteq Calls, reference => op = "generate",
           task' = Created, UNCHANGED asked, cancels' = {}
    PROVE  /\ task' \in [Tasks -> States] /\ task'[Request] = "running"
           /\ StatesOK' /\ TreeOK' /\ SpreadOK' /\ StartedOK'
  <1>1. /\ task' \in [Tasks -> States] /\ task'[Request] = "running"
        /\ \A c \in Calls : task'[c] = IF c \in wanted THEN "waiting" ELSE "new"
        /\ \A g \in Groups \ {Request} : task'[g] \in {"new", "running"}
        /\ \A c \in wanted : task'[Parent(c)] = "running"
    BY CreatedFacts
  <1>2. StatesOK'
    BY <1>1 DEF StatesOK
  <1>3. StartedOK'
    BY <1>1 DEF StartedOK, asked
  <1>4. ASSUME NEW c \in Calls PROVE Below(c)'
    <2>1. CASE c \in wanted
      BY <1>1, <2>1 DEF Below, Finished
    <2>2. CASE c \notin wanted
      <3>1. task'[c] = "new" /\ task'[Parent(c)] \in {"new", "running"}
        BY <1>1, <2>2, TreeFacts
      <3>2. QED
        BY <3>1 DEF Below, Finished
    <2>3. QED
      BY <2>1, <2>2
  <1>5. ASSUME NEW g \in Groups \ {Request} PROVE Below(g)'
    BY <1>1, TreeFacts DEF Below, Finished
  <1>6. SpreadOK'
    BY <1>1 DEF SpreadOK
  <1>7. QED
    BY <1>1, <1>2, <1>3, <1>4, <1>5, <1>6, TreeFacts DEF TreeOK

-----------------------------------------------------------------------------
LEMMA InitIInv == Init => IInv
  <1> SUFFICES ASSUME Init PROVE IInv
    OBVIOUS
  <1>1. wanted \subseteq Calls /\ (reference => op = "generate") /\ reference \in BOOLEAN
    BY WantedAreCalls DEF Init
  <1>2. tries \in [Calls -> 0..Attempts] /\ spent \in [Calls -> Nat]
    BY LimitFacts DEF Init
  <1>3. /\ task \in [Tasks -> States] /\ task[Request] \in {"fetching", "running"}
        /\ StatesOK /\ TreeOK /\ SpreadOK /\ StartedOK
    <2>1. CASE reference
      <3>1. task = [t \in Tasks |-> IF t = Request THEN "fetching" ELSE "new"]
        BY <2>1 DEF Init
      <3>2. /\ task \in [Tasks -> States] /\ task[Request] = "fetching"
            /\ \A t \in Tasks \ {Request} : task[t] = "new"
        BY <3>1, TreeFacts DEF States
      <3>3. StatesOK /\ SpreadOK
        BY <3>2, TreeFacts DEF StatesOK, SpreadOK
      <3>4. StartedOK
        BY <1>1, <2>1, <3>2, TreeFacts DEF StartedOK
      <3>5. ASSUME NEW c \in Tasks \ {Request} PROVE Below(c)
        <4>1. task[c] = "new" /\ task[Parent(c)] \in {"fetching", "new"}
          BY <3>2, TreeFacts
        <4>2. QED
          BY <4>1 DEF Below, Finished
      <3>6. QED
        BY <3>2, <3>3, <3>4, <3>5 DEF TreeOK
    <2>2. CASE ~reference
      <3>1. task = Created
        BY <2>2 DEF Init
      <3>2. QED
        BY <1>1, <3>1, CreatedNow DEF Init
    <2>3. QED
      BY <1>1, <2>1, <2>2
  <1>4. CancelsOK /\ AnswerOK /\ TriesOK
    <2>1. \A c \in Calls : task[c] \in {"new", "waiting"}
      <3>1. CASE reference
        BY <3>1, TreeFacts DEF Init
      <3>2. CASE ~reference
        BY <3>2, <1>1, CreatedFacts DEF Init
      <3>3. QED
        BY <1>1, <3>1, <3>2
    <2>2. TriesOK
      BY <2>1 DEF TriesOK, Holding
    <2>3. QED
      BY <1>3, <2>2 DEF Init, CancelsOK, AnswerOK
  <1>5. TypeOK
    BY <1>1, <1>2, <1>3 DEF Init, TypeOK, Outcomes
  <1>6. QED
    BY <1>3, <1>4, <1>5 DEF IInv, ShapesOK

-----------------------------------------------------------------------------
(* A call that goes on working leaves the tree as it is.                     *)
LEMMA CallMoves ==
    ASSUME ShapesOK, task \in [Tasks -> States], NEW c \in Calls, NEW s \in Holding,
           task[c] \notin Finished \union {"new"},
           task' = [task EXCEPT ![c] = s],
           UNCHANGED <<asked, cancels, expired, saved, outcome>>
    PROVE  task' \in [Tasks -> States] /\ ShapesOK'
  <1>1. /\ task' \in [Tasks -> States] /\ task'[c] = s
        /\ \A t \in Tasks : t # c => task'[t] = task[t]
        /\ \A t \in Groups : task'[t] = task[t]
    BY TreeFacts DEF States
  <1>2. s \notin Finished \union {"new", "failed", "cancelled", "done"}
    BY DEF Holding, Finished
  <1>3. StatesOK'
    BY <1>1, TreeFacts DEF ShapesOK, StatesOK
  <1>4. ASSUME NEW d \in Tasks \ {Request} PROVE Below(d)'
    <2>1. Below(d) /\ task'[Parent(d)] = task[Parent(d)] /\ cancels' = cancels
      BY <1>1, TreeFacts DEF ShapesOK, TreeOK
    <2>2. CASE d = c
      <3>1. task[c] # "aborting"
        BY TreeFacts DEF ShapesOK, StatesOK, Holding, Finished
      <3>2. QED
        BY <1>1, <1>2, <2>1, <2>2, <3>1 DEF Below, Finished
    <2>3. CASE d # c
      BY <1>1, <2>1, <2>3 DEF Below
    <2>4. QED
      BY <2>2, <2>3
  <1>5. SpreadOK'
    <2> SUFFICES ASSUME NEW g \in Groups \ {Request}, task'[g] = "aborting", Innocent(g)'
                 PROVE  task'[Request] = "aborting"
      BY DEF SpreadOK
    <2>1. Innocent(g)
      <3> SUFFICES ASSUME NEW d \in Calls, Parent(d) = g PROVE task[d] # "failed"
        BY DEF Innocent
      <3>1. d = c => task[d] # "failed"
        BY DEF Finished
      <3>2. d # c => task[d] = task'[d] /\ task'[d] # "failed"
        BY <1>1, TreeFacts DEF Innocent
      <3>3. QED
        BY <3>1, <3>2
    <2>2. QED
      BY <1>1, <2>1, TreeFacts DEF ShapesOK, SpreadOK
  <1>6. StartedOK'
    BY <1>1, <1>2, TreeFacts DEF ShapesOK, StartedOK, asked
  <1>7. CancelsOK' /\ AnswerOK'
    BY <1>1, <1>2, TreeFacts DEF ShapesOK, CancelsOK, AnswerOK, Unfinished, asked
  <1>8. QED
    BY <1>1, <1>3, <1>4, <1>5, <1>6, <1>7 DEF ShapesOK, TreeOK

(* So does a task that ends after its own tasks, its failure made known to   *)
(* its group.                                                                *)
LEMMA Settles ==
    ASSUME ShapesOK, task \in [Tasks -> States], cancels \subseteq Tasks,
           wanted \subseteq Calls, NEW t \in Tasks \ {Request}, NEW s \in Finished,
           task[t] \notin Finished \union {"new"},
           s = "cancelled" => task[Parent(t)] # "running",
           \A d \in Tasks \ {Request} : Parent(d) = t =>
               /\ task[d] \in Finished \union {"new"}
               /\ s = "done" => task[d] \in {"done", "new"}
               /\ task[d] = "failed" => s = "failed",
           Settle(t, s), UNCHANGED <<asked, expired, saved, outcome>>
    PROVE  task' \in [Tasks -> States] /\ cancels' \subseteq Tasks /\ ShapesOK'
  <1> DEFINE aborts == s = "failed" /\ task[Parent(t)] = "running"
  <1>1. /\ task' \in [Tasks -> States] /\ cancels' \subseteq Tasks
        /\ task'[t] = s
        /\ task'[Parent(t)] = IF aborts THEN "aborting" ELSE task[Parent(t)]
        /\ \A u \in Tasks : u \notin {t, Parent(t)} => task'[u] = task[u]
        /\ \A u \in Tasks \ {t} : u \in cancels => u \in cancels'
        /\ \A u \in cancels' : u # t /\ (u \notin cancels => /\ aborts /\ Parent(u) = Parent(t)
                                            /\ task[u] \notin Finished \union {"new"} /\ u # Request)
        /\ aborts => \A u \in Tasks \ {Request, t} :
               Parent(u) = Parent(t) => u \in cancels' \/ task[u] \in Finished \union {"new"}
    <2>1. t \in Tasks /\ Parent(t) \in Tasks /\ Parent(t) # t /\ s \in States /\ "aborting" \in States
      BY TreeFacts DEF States
    <2>2. task' = [task EXCEPT ![t] = s, ![Parent(t)] = IF aborts THEN "aborting" ELSE @]
      BY DEF Settle
    <2>3. /\ task' \in [Tasks -> States] /\ task'[t] = s
          /\ task'[Parent(t)] = IF aborts THEN "aborting" ELSE task[Parent(t)]
          /\ \A u \in Tasks : u \notin {t, Parent(t)} => task'[u] = task[u]
      <3>1. CASE aborts
        <4>1. task' = [task EXCEPT ![t] = s, ![Parent(t)] = "aborting"]
          BY <2>1, <2>2, <3>1
        <4>2. QED
          BY <2>1, <3>1, <4>1
      <3>2. CASE ~aborts
        <4>1. task' = [task EXCEPT ![t] = s]
          BY <2>1, <2>2, <3>2
        <4>2. QED
          BY <2>1, <3>2, <4>1
      <3>3. QED
        BY <3>1, <3>2
    <2>4. cancels' = (cancels \ {t}) \union
             (IF aborts THEN {c \in Children(Parent(t)) \ {t} : task[c] \notin Finished} ELSE {})
      BY DEF Settle
    <2>5. \A u \in Children(Parent(t)) : u \in Tasks \ {Request} /\ Parent(u) = Parent(t) /\ task[u] # "new"
      BY DEF Children
    <2>6. \A u \in Tasks \ {Request} : Parent(u) = Parent(t) /\ task[u] # "new" => u \in Children(Parent(t))
      BY DEF Children
    <2>7. QED
      BY <2>3, <2>4, <2>5, <2>6
  <1>2. Parent(t) \in Groups /\ Parent(t) # t /\ Below(t) /\ s \notin {"new", "aborting", "running", "fetching"}
    BY TreeFacts DEF ShapesOK, TreeOK, Finished
  <1>3. task[Parent(t)] \in {"running", "aborting"}
    BY <1>2, TreeFacts DEF ShapesOK, StatesOK, Below
  <1>4. task'[Parent(t)] \in {"running", "aborting"} /\ (task[Parent(t)] = "aborting" => task'[Parent(t)] = "aborting")
    BY <1>1, <1>3
  <1> HIDE DEF aborts
  <1>5. StatesOK'
    <2>1. task'[Request] \in {"fetching", "running", "aborting"} \union Finished
      BY <1>1, <1>4, TreeFacts DEF ShapesOK, StatesOK
    <2>2. \A g \in Groups \ {Request} : task'[g] \in {"new", "running", "aborting"} \union Finished
      BY <1>1, <1>4, TreeFacts DEF ShapesOK, StatesOK
    <2>3. \A c \in Calls : task'[c] \in {"new", "waiting"} \union Holding \union Finished
      BY <1>1, <1>2, TreeFacts DEF ShapesOK, StatesOK
    <2>4. QED
      BY <2>1, <2>2, <2>3 DEF StatesOK
  <1>6. ASSUME NEW d \in Tasks \ {Request} PROVE Below(d)'
    <2>1. Below(d) /\ Parent(d) \in Tasks
      BY TreeFacts DEF ShapesOK, TreeOK
    <2>2. CASE d = t
      <3>1. task'[d] \in Finished /\ d \notin cancels'
        BY <1>1, <2>2
      <3>2. task'[d] = "failed" => task'[Parent(d)] = "aborting"
        BY <1>1, <1>3, <2>2 DEF aborts
      <3>3. task'[Parent(d)] = "running" => task'[d] # "cancelled"
        BY <1>1, <1>3, <1>4, <2>2
      <3>4. QED
        BY <1>2, <1>4, <2>2, <3>1, <3>2, <3>3 DEF Below, Finished
    <2>3. CASE d # t /\ Parent(d) = Parent(t)
      <3>1. task'[d] = task[d]
        BY <1>1, <1>2, <2>3, TreeFacts
      <3>2. CASE aborts
        BY <1>1, <2>1, <2>3, <3>1, <3>2 DEF Below, Finished
      <3>3. CASE ~aborts
        BY <1>1, <2>1, <2>3, <3>1, <3>3 DEF Below, Finished
      <3>4. QED
        BY <3>2, <3>3
    <2>4. CASE Parent(d) = t
      <3>1. task'[d] = task[d] /\ task'[Parent(d)] = s
        BY <1>1, <2>4, TreeFacts
      <3>2. task[d] \in Finished \union {"new"} /\ (s = "done" => task[d] \in {"done", "new"})
            /\ (task[d] = "failed" => s = "failed")
        BY <2>4
      <3>3. QED
        BY <1>2, <3>1, <3>2 DEF Below, Finished
    <2>5. CASE d # t /\ Parent(d) # Parent(t) /\ Parent(d) # t
      <3>1. task'[Parent(d)] = task[Parent(d)]
        BY <1>1, <2>1, <2>5
      <3>2. d \in cancels <=> d \in cancels'
        BY <1>1, <2>5
      <3>3. CASE d = Parent(t)
        <4>1. task[d] \in {"running", "aborting"} /\ task'[d] \in {"running", "aborting"}
              /\ (task[d] = "aborting" => task'[d] = "aborting")
          BY <1>3, <1>4, <3>3
        <4>2. QED
          BY <2>1, <3>1, <3>2, <4>1 DEF Below, Finished
      <3>4. CASE d # Parent(t)
        <4>1. task'[d] = task[d]
          BY <1>1, <2>5, <3>4
        <4>2. QED
          BY <2>1, <3>1, <3>2, <4>1 DEF Below, Finished
      <3>5. QED
        BY <3>3, <3>4
    <2>6. QED
      BY <2>2, <2>3, <2>4, <2>5
  <1>7. SpreadOK'
    <2> SUFFICES ASSUME NEW g \in Groups \ {Request}, task'[g] = "aborting", Innocent(g)'
                 PROVE  task'[Request] = "aborting"
      BY DEF SpreadOK
    <2>1. Innocent(g)
      <3> SUFFICES ASSUME NEW d \in Calls, Parent(d) = g PROVE task[d] # "failed"
        BY DEF Innocent
      <3>1. d = t => task[d] # "failed"
        BY DEF Finished
      <3>2. d # t => task[d] = task'[d] /\ task'[d] # "failed"
        BY <1>1, <1>2, TreeFacts DEF Innocent
      <3>3. QED
        BY <3>1, <3>2
    <2>2. CASE task[g] = "aborting"
      <3>1. task[Request] = "aborting"
        BY <2>1, <2>2 DEF ShapesOK, SpreadOK
      <3>2. QED
        BY <1>1, <1>4, <3>1, TreeFacts
    <2>3. CASE task[g] # "aborting"
      <3>1. g = Parent(t) /\ aborts
        BY <1>1, <1>2, <2>3, TreeFacts
      <3>2. t \in Calls /\ task'[t] = "failed"
        BY <1>1, <3>1, TreeFacts DEF aborts
      <3>3. QED
        BY <3>1, <3>2 DEF Innocent
    <2>4. QED
      BY <2>2, <2>3
  <1>8. task'[Request] = task[Request] \/ (task[Request] = "running" /\ task'[Request] = "aborting")
    BY <1>1, <1>3, <1>4, TreeFacts DEF aborts
  <1>9. \A u \in Tasks : (task'[u] # "new") <=> (task[u] # "new")
    BY <1>1, <1>2, <1>3, <1>4
  <1>10. StartedOK'
    BY <1>8, <1>9, TreeFacts DEF ShapesOK, StartedOK, asked
  <1>11. CancelsOK'
    <2>1. ASSUME NEW u \in cancels' PROVE task'[u] \notin Finished \union {"new"}
      <3>1. u # t /\ task[u] \notin Finished \union {"new"} /\ u \in Tasks
        BY <1>1 DEF ShapesOK, CancelsOK
      <3>2. CASE u = Parent(t)
        BY <1>4, <3>2 DEF Finished
      <3>3. CASE u # Parent(t)
        BY <1>1, <3>1, <3>3
      <3>4. QED
        BY <3>2, <3>3
    <2>2. expired' /\ Unfinished' => Request \in cancels' \/ task'[Request] = "aborting"
      BY <1>1, <1>8, TreeFacts DEF ShapesOK, CancelsOK, Unfinished
    <2>3. QED
      BY <2>1, <2>2 DEF CancelsOK
  <1>12. AnswerOK'
    BY <1>8 DEF ShapesOK, AnswerOK, Finished, asked
  <1>13. QED
    BY <1>1, <1>5, <1>6, <1>7, <1>10, <1>11, <1>12 DEF ShapesOK, TreeOK

LEMMA OverFacts ==
    ASSUME NEW t, Over(t)
    PROVE  \A d \in Tasks \ {Request} : Parent(d) = t => task[d] \in Finished \union {"new"}
  BY DEF Over, Children

(* What a group may end with, from what its tasks have ended with.           *)
LEMMA EndFacts ==
    ASSUME ShapesOK, NEW t \in Groups, task[t] \in {"running", "aborting"}, Over(t)
    PROVE  /\ ResultOf(t) \in Finished
           /\ ResultOf(t) = "cancelled" => task[t] = "aborting" /\ Innocent(t)
           /\ \A d \in Tasks \ {Request} : Parent(d) = t =>
                /\ task[d] \in Finished \union {"new"}
                /\ ResultOf(t) = "done" => task[d] \in {"done", "new"}
                /\ task[d] = "failed" => ResultOf(t) = "failed"
  <1>1. ResultOf(t) \in Finished
    BY DEF ResultOf, Finished
  <1>2. \A d \in Tasks \ {Request} : Parent(d) = t /\ task[d] = "failed" => ResultOf(t) = "failed"
    BY DEF ResultOf, Children
  <1>3. ResultOf(t) = "cancelled" => task[t] = "aborting" /\ Innocent(t)
    BY <1>2, TreeFacts DEF ResultOf, Innocent
  <1>4. ASSUME NEW d \in Tasks \ {Request}, Parent(d) = t, ResultOf(t) = "done"
        PROVE  task[d] \in {"done", "new"}
    <2>1. task[t] = "running"
      BY <1>4 DEF ResultOf
    <2>2. task[d] # "failed" /\ task[d] # "cancelled"
      BY <1>2, <1>4, <2>1 DEF ShapesOK, TreeOK, Below
    <2>3. QED
      BY <1>4, <2>2, OverFacts DEF Finished
  <1>5. QED
    BY <1>1, <1>2, <1>3, <1>4, OverFacts

(* While the page is fetched there is nothing else, not even a cancellation. *)
LEMMA FetchingFacts ==
    ASSUME ShapesOK, cancels \subseteq Tasks, task[Request] = "fetching"
    PROVE  /\ \A t \in Tasks \ {Request} : task[t] = "new"
           /\ cancels \subseteq {Request}
           /\ outcome = "none" /\ saved = {}
  <1>1. \A g \in Groups \ {Request} : task[g] = "new"
    BY TreeFacts DEF ShapesOK, TreeOK, Below
  <1>2. \A c \in Calls : task[c] = "new"
    BY <1>1, TreeFacts DEF ShapesOK, TreeOK, Below
  <1>3. \A t \in Tasks \ {Request} : task[t] = "new"
    BY <1>1, <1>2, TreeFacts
  <1>4. cancels \subseteq {Request}
    BY <1>3 DEF ShapesOK, CancelsOK
  <1>5. outcome = "none" /\ saved = {}
    BY DEF ShapesOK, AnswerOK, Finished
  <1>6. QED
    BY <1>3, <1>4, <1>5

-----------------------------------------------------------------------------
(* One lemma per kind of step.                                               *)

LEMMA FetchEndsIInv == IInv /\ FetchEnds => IInv'
  <1> SUFFICES ASSUME IInv, FetchEnds PROVE IInv'
    OBVIOUS
  <1>1. /\ TypeOK /\ ShapesOK /\ TriesOK /\ wanted \subseteq Calls /\ cancels \subseteq Tasks
        /\ reference => op = "generate"
    BY WantedAreCalls DEF IInv, TypeOK, ShapesOK, StartedOK
  <1>2. cancels' = {} /\ cancels = {} /\ outcome = "none" /\ saved = {} /\ ~expired
    BY <1>1, FetchingFacts DEF FetchEnds, ShapesOK, CancelsOK, Unfinished
  <1>3. /\ task' \in [Tasks -> States] /\ task'[Request] = "running"
        /\ StatesOK' /\ TreeOK' /\ SpreadOK' /\ StartedOK'
    <2>1. task' = Created /\ UNCHANGED asked
      BY DEF FetchEnds
    <2>2. QED
      BY <1>1, <1>2, <2>1, CreatedTree
  <1>4. CancelsOK' /\ AnswerOK'
    BY <1>2, <1>3 DEF FetchEnds, CancelsOK, AnswerOK
  <1>5. TriesOK'
    <2>1. \A c \in Calls : task'[c] \in {"new", "waiting"}
      BY <1>1, CreatedFacts DEF FetchEnds
    <2>2. QED
      BY <2>1 DEF TriesOK, Holding
  <1>6. TypeOK'
    <2>1. Attempts' = Attempts
      BY DEF FetchEnds, Attempts, asked
    <2>2. QED
      BY <1>1, <1>2, <1>3, <2>1 DEF FetchEnds, TypeOK, asked, calling
  <1>7. QED
    BY <1>3, <1>4, <1>5, <1>6 DEF IInv, ShapesOK

LEMMA CallMovesIInv ==
    ASSUME IInv, NEW c \in Calls, StartCall(c) \/ NextAttempt(c) \/ (AttemptFails(c) /\ Retries(c))
    PROVE  IInv'
  <1>1. /\ TypeOK /\ ShapesOK /\ TriesOK /\ task \in [Tasks -> States]
        /\ tries \in [Calls -> 0..Attempts] /\ spent \in [Calls -> Nat] /\ Attempts \in 1..3
    BY LimitFacts DEF IInv, TypeOK
  <1>2. /\ task[c] \notin Finished \union {"new"}
        /\ UNCHANGED <<asked, cancels, clock, expired, saved, outcome>>
        /\ Attempts' = Attempts
    BY DEF StartCall, NextAttempt, AttemptFails, Finished, Attempts, asked
  <1>3. PICK s \in Holding : task' = [task EXCEPT ![c] = s]
    BY DEF StartCall, NextAttempt, AttemptFails, Holding
  <1>4. task' \in [Tasks -> States] /\ ShapesOK'
    BY <1>1, <1>2, <1>3, CallMoves
  <1>5. task'[c] = s /\ c \in Tasks /\ \A d \in Calls \ {c} : task'[d] = task[d]
    BY <1>1, <1>3, TreeFacts
  <1>6. PICK n \in 1..Attempts : tries' = [tries EXCEPT ![c] = n] /\ (s = "pausing" => n < Attempts)
    <2>1. CASE StartCall(c)
      <3>1. tries' = [tries EXCEPT ![c] = 1] /\ 1 \in 1..Attempts
        BY <1>1, <2>1 DEF StartCall
      <3>2. s # "pausing"
        BY <1>5, <2>1, <1>1 DEF StartCall
      <3>3. QED
        BY <3>1, <3>2
    <2>2. CASE NextAttempt(c)
      <3>1. tries[c] \in 1..Attempts /\ tries[c] < Attempts
        BY <1>1, <2>2 DEF NextAttempt, TriesOK, Holding
      <3>2. tries' = [tries EXCEPT ![c] = tries[c] + 1] /\ tries[c] + 1 \in 1..Attempts
        BY <1>1, <2>2, <3>1 DEF NextAttempt
      <3>3. s # "pausing"
        BY <1>5, <2>2, <1>1 DEF NextAttempt
      <3>4. QED
        BY <3>2, <3>3
    <2>3. CASE AttemptFails(c) /\ Retries(c)
      <3>1. tries[c] \in 1..Attempts /\ tries[c] < Attempts
        BY <1>1, <2>3 DEF AttemptFails, Retries, TriesOK, Holding
      <3>2. tries' = [tries EXCEPT ![c] = tries[c]]
        BY <1>1, <2>3 DEF AttemptFails
      <3>3. QED
        BY <3>1, <3>2
    <2>4. QED
      BY <2>1, <2>2, <2>3
  <1>7. tries' \in [Calls -> 0..Attempts'] /\ tries'[c] = n /\ \A d \in Calls \ {c} : tries'[d] = tries[d]
    BY <1>1, <1>2, <1>6
  <1>8. TriesOK'
    <2> SUFFICES ASSUME NEW d \in Calls
                 PROVE  /\ task'[d] \in Holding => tries'[d] >= 1
                        /\ task'[d] = "pausing" => tries'[d] < Attempts'
      BY DEF TriesOK
    <2>1. CASE d = c
      BY <1>1, <1>2, <1>5, <1>6, <1>7, <2>1
    <2>2. CASE d # c
      BY <1>1, <1>2, <1>5, <1>7, <2>2 DEF TriesOK
    <2>3. QED
      BY <2>1, <2>2
  <1>9. spent' \in [Calls -> Nat]
    <2>1. spent' = [spent EXCEPT ![c] = 0]
      BY DEF StartCall, NextAttempt, AttemptFails
    <2>2. QED
      BY <1>1, <2>1
  <1>10. QED
    BY <1>1, <1>2, <1>4, <1>7, <1>8, <1>9 DEF IInv, TypeOK, asked

(* All steps by which a task ends are alike.                                 *)
LEMMA EndIInv ==
    ASSUME IInv, NEW t \in Tasks \ {Request}, NEW s \in Finished,
           task[t] \notin Finished \union {"new"},
           s = "cancelled" => task[Parent(t)] # "running",
           \A d \in Tasks \ {Request} : Parent(d) = t =>
               /\ task[d] \in Finished \union {"new"}
               /\ s = "done" => task[d] \in {"done", "new"}
               /\ task[d] = "failed" => s = "failed",
           Settle(t, s), UNCHANGED <<asked, calling, clock, expired, saved, outcome>>
    PROVE  IInv'
  <1>1. /\ TypeOK /\ ShapesOK /\ TriesOK /\ task \in [Tasks -> States] /\ cancels \subseteq Tasks
        /\ wanted \subseteq Calls
    BY WantedAreCalls DEF IInv, TypeOK
  <1>2. task' \in [Tasks -> States] /\ cancels' \subseteq Tasks /\ ShapesOK'
    BY <1>1, Settles
  <1>3. Attempts' = Attempts
    BY DEF Attempts, asked
  <1>4. TypeOK'
    BY <1>1, <1>2, <1>3 DEF TypeOK, asked, calling
  <1>5. ASSUME NEW c \in Calls, task'[c] \in Holding PROVE task'[c] = task[c]
    <2>1. c # Parent(t) /\ c \in Tasks /\ t \in Tasks /\ Parent(t) \in Tasks
      BY TreeFacts
    <2>2. task'[t] = s
      BY <1>1, <2>1, TreeFacts DEF Settle
    <2>3. c # t
      BY <1>5, <2>2 DEF Holding, Finished
    <2>4. QED
      BY <1>1, <2>1, <2>3 DEF Settle
  <1>6. TriesOK'
    BY <1>1, <1>3, <1>5 DEF TriesOK, calling, Holding
  <1>7. QED
    BY <1>2, <1>4, <1>6 DEF IInv

LEMMA AttemptSucceedsIInv ==
    ASSUME IInv, NEW c \in Calls, AttemptSucceeds(c)
    PROVE  IInv'
  <1>1. c \in Tasks \ {Request} /\ c \notin Groups /\ "done" \in Finished
    BY TreeFacts DEF Finished
  <1>2. Settle(c, "done")
    <2>1. cancels' = cancels \ {c}
      BY DEF AttemptSucceeds
    <2>2. task' = [task EXCEPT ![c] = "done", ![Parent(c)] = @]
      <3>1. task' = [task EXCEPT ![c] = "done"] /\ task \in [Tasks -> States]
        BY DEF AttemptSucceeds, IInv, TypeOK
      <3>2. Parent(c) \in Tasks /\ Parent(c) # c
        BY <1>1, TreeFacts
      <3>3. QED
        BY <1>1, <3>1, <3>2
    <2>3. QED
      BY <2>1, <2>2 DEF Settle
  <1>3. task[c] \notin Finished \union {"new"}
        /\ UNCHANGED <<asked, calling, clock, expired, saved, outcome>>
    BY DEF AttemptSucceeds, Finished
  <1>4. \A d \in Tasks : Parent(d) # c
    BY <1>1, TreeFacts
  <1>5. QED
    BY <1>1, <1>2, <1>3, <1>4, EndIInv

LEMMA AttemptFailsIInv ==
    ASSUME IInv, NEW c \in Calls, AttemptFails(c), ~Retries(c)
    PROVE  IInv'
  <1>1. c \in Tasks \ {Request} /\ c \notin Groups /\ "failed" \in Finished
    BY TreeFacts DEF Finished
  <1>2. Settle(c, "failed") /\ task[c] \notin Finished \union {"new"}
        /\ UNCHANGED <<asked, calling, clock, expired, saved, outcome>>
    BY DEF AttemptFails, Finished, calling
  <1>3. \A d \in Tasks : Parent(d) # c
    BY <1>1, TreeFacts
  <1>4. QED
    BY <1>1, <1>2, <1>3, EndIInv

LEMMA CancelCallIInv ==
    ASSUME IInv, NEW c \in Calls, CancelCall(c)
    PROVE  IInv'
  <1>1. c \in Tasks \ {Request} /\ c \notin Groups /\ "cancelled" \in Finished
    BY TreeFacts DEF Finished
  <1>2. task[Parent(c)] # "running" /\ task[c] \notin Finished \union {"new"}
    BY <1>1 DEF CancelCall, IInv, ShapesOK, TreeOK, Below, CancelsOK
  <1>3. Settle(c, "cancelled") /\ UNCHANGED <<asked, calling, clock, expired, saved, outcome>>
    BY DEF CancelCall
  <1>4. \A d \in Tasks : Parent(d) # c
    BY <1>1, TreeFacts
  <1>5. QED
    BY <1>1, <1>2, <1>3, <1>4, EndIInv

LEMMA PlatformEndsIInv ==
    ASSUME IInv, NEW t \in Groups, PlatformEnds(t)
    PROVE  IInv'
  <1>1. /\ t \in Groups \ {Request} /\ t \in Tasks \ {Request} /\ Over(t)
        /\ task[t] \in {"running", "aborting"} /\ ShapesOK
        /\ Settle(t, ResultOf(t)) /\ UNCHANGED <<asked, calling, clock, expired, saved, outcome>>
    BY TreeFacts DEF PlatformEnds, IInv
  <1>2. /\ ResultOf(t) \in Finished
        /\ ResultOf(t) = "cancelled" => task[t] = "aborting" /\ Innocent(t)
        /\ \A d \in Tasks \ {Request} : Parent(d) = t =>
             /\ task[d] \in Finished \union {"new"}
             /\ ResultOf(t) = "done" => task[d] \in {"done", "new"}
             /\ task[d] = "failed" => ResultOf(t) = "failed"
    BY <1>1, EndFacts
  <1>3. ResultOf(t) = "cancelled" => task[Parent(t)] # "running"
    BY <1>1, <1>2, TreeFacts DEF ShapesOK, SpreadOK
  <1>4. task[t] \notin Finished \union {"new"}
    BY <1>1 DEF Finished
  <1>5. QED
    BY <1>1, <1>2, <1>3, <1>4, EndIInv

LEMMA CancelGroupIInv ==
    ASSUME IInv, NEW t \in Groups, CancelGroup(t)
    PROVE  IInv'
  <1>1. /\ TypeOK /\ ShapesOK /\ TriesOK /\ task \in [Tasks -> States] /\ cancels \subseteq Tasks
        /\ wanted \subseteq Calls /\ t \in Tasks /\ t \in cancels /\ t \notin Calls
        /\ Attempts' = Attempts /\ UNCHANGED <<asked, calling, clock, expired, saved>>
    BY WantedAreCalls, TreeFacts DEF IInv, TypeOK, CancelGroup, Attempts, asked
  <1>2. task[t] \notin Finished \union {"new"}
    BY <1>1 DEF ShapesOK, CancelsOK
  <1>3. CASE task[t] = "fetching"
    <2>1. t = Request
      BY <1>3 DEF ShapesOK, StatesOK, Finished, IInv
    <2>2. /\ \A u \in Tasks \ {Request} : task[u] = "new"
          /\ outcome = "none" /\ saved = {} /\ cancels \subseteq {Request}
      BY <1>1, <1>3, <2>1, FetchingFacts
    <2>3. /\ task' \in [Tasks -> States] /\ task'[Request] = "cancelled"
          /\ \A u \in Tasks \ {Request} : task'[u] = "new"
      <3>1. task' = [task EXCEPT ![t] = "cancelled"]
        BY <1>1, <1>3 DEF CancelGroup
      <3>2. QED
        BY <1>1, <2>1, <2>2, <3>1 DEF States, Finished
    <2>4. cancels' = {} /\ outcome' = "timeout" /\ saved' = {}
      BY <1>1, <1>3, <2>1, <2>2 DEF CancelGroup
    <2>5. StatesOK' /\ SpreadOK'
      BY <2>3, TreeFacts DEF StatesOK, SpreadOK, Finished
    <2>6. ASSUME NEW d \in Tasks \ {Request} PROVE Below(d)'
      <3>1. task'[d] = "new" /\ task'[Parent(d)] \in {"new", "cancelled"}
        BY <2>3, TreeFacts
      <3>2. QED
        BY <2>4, <3>1 DEF Below, Finished
    <2>7. StartedOK'
      BY <1>1, <2>3, TreeFacts DEF ShapesOK, StartedOK, asked
    <2>8. CancelsOK' /\ AnswerOK' /\ TriesOK'
      BY <2>3, <2>4, TreeFacts DEF CancelsOK, AnswerOK, TriesOK, Unfinished, Finished, Holding
    <2>9. TypeOK'
      BY <1>1, <2>3, <2>4 DEF TypeOK, asked, calling, Outcomes
    <2>10. QED
      BY <2>5, <2>6, <2>7, <2>8, <2>9 DEF IInv, ShapesOK, TreeOK
  <1>4. CASE task[t] = "running"
    <2>1. /\ task' = [task EXCEPT ![t] = "aborting"] /\ outcome' = outcome
          /\ cancels' = (cancels \ {t}) \union {c \in Children(t) : task[c] \notin Finished}
      BY <1>4 DEF CancelGroup
    <2>2. /\ task' \in [Tasks -> States] /\ task'[t] = "aborting"
          /\ \A u \in Tasks \ {t} : task'[u] = task[u]
          /\ \A u \in Tasks : (task'[u] \in Finished \union {"new"}) <=> (task[u] \in Finished \union {"new"})
      <3>1. /\ task' \in [Tasks -> States] /\ task'[t] = "aborting"
            /\ \A u \in Tasks \ {t} : task'[u] = task[u]
        BY <1>1, <2>1 DEF States
      <3>2. QED
        BY <1>4, <3>1 DEF Finished
    <2>3. /\ cancels' \subseteq Tasks
          /\ \A u \in Tasks \ {t} : u \in cancels => u \in cancels'
          /\ \A u \in cancels' : u # t /\ task[u] \notin Finished \union {"new"}
          /\ \A u \in cancels' \ cancels : u \in Tasks \ {Request} /\ Parent(u) = t
          /\ \A u \in Tasks \ {Request} : Parent(u) = t =>
                u \in cancels' \/ task[u] \in Finished \union {"new"}
      <3>1. \A u \in Children(t) : u \in Tasks \ {Request} /\ Parent(u) = t /\ task[u] # "new"
        BY DEF Children
      <3>2. \A u \in Tasks \ {Request} : Parent(u) = t /\ task[u] # "new" => u \in Children(t)
        BY DEF Children
      <3>3. \A u \in cancels : task[u] \notin Finished \union {"new"}
        BY <1>1 DEF ShapesOK, CancelsOK
      <3>4. \A u \in Children(t) : u # t
        <4>1. ASSUME NEW u \in Children(t), u = t PROVE FALSE
          BY <3>1, <4>1, TreeFacts
        <4>2. QED
          BY <4>1
      <3>5. QED
        BY <1>1, <2>1, <3>1, <3>2, <3>3, <3>4
    <2>4. StatesOK'
      BY <1>1, <2>2, TreeFacts DEF ShapesOK, StatesOK
    <2>5. ASSUME NEW d \in Tasks \ {Request} PROVE Below(d)'
      <3>1. Below(d) /\ Parent(d) \in Tasks
        BY <1>1, TreeFacts DEF ShapesOK, TreeOK
      <3>2. CASE Parent(d) = t
        <4>1. d # t /\ task'[d] = task[d] /\ task'[Parent(d)] = "aborting"
          BY <2>2, <3>2, TreeFacts
        <4>2. d \in cancels' \/ task[d] \in Finished \union {"new"}
          BY <2>3, <3>2
        <4>3. QED
          BY <4>1, <4>2 DEF Below, Finished
      <3>3. CASE Parent(d) # t /\ d # t
        <4>1. task'[d] = task[d] /\ task'[Parent(d)] = task[Parent(d)]
          BY <2>2, <3>1, <3>3
        <4>2. (d \in cancels') <=> (d \in cancels)
          BY <2>3, <3>3
        <4>3. QED
          BY <3>1, <4>1, <4>2 DEF Below
      <3>4. CASE Parent(d) # t /\ d = t
        <4>1. task'[d] = "aborting" /\ task'[Parent(d)] = task[Parent(d)] /\ d \notin cancels'
          BY <2>2, <2>3, <3>1, <3>4
        <4>2. QED
          BY <1>4, <3>1, <3>4, <4>1 DEF Below, Finished
      <3>5. QED
        BY <3>2, <3>3, <3>4
    <2>6. SpreadOK'
      <3> SUFFICES ASSUME NEW g \in Groups \ {Request}, task'[g] = "aborting", Innocent(g)'
                   PROVE  task'[Request] = "aborting"
        BY DEF SpreadOK
      <3>1. Innocent(g)
        BY <1>1, <2>2, TreeFacts DEF Innocent
      <3>2. CASE task[g] = "aborting"
        BY <1>1, <1>4, <2>2, <3>1, <3>2, TreeFacts DEF ShapesOK, SpreadOK
      <3>3. CASE task[g] # "aborting"
        <4>1. g = t /\ g \in Tasks \ {Request} /\ Parent(g) = Request
          BY <2>2, <3>3, TreeFacts
        <4>2. task[Request] = "aborting"
          BY <1>1, <1>2, <4>1, TreeFacts DEF ShapesOK, StatesOK, TreeOK, Below
        <4>3. QED
          BY <2>2, <4>1, <4>2, TreeFacts
      <3>4. QED
        BY <3>2, <3>3
    <2>7. task'[Request] = task[Request] \/ (task[Request] = "running" /\ task'[Request] = "aborting")
      BY <1>4, <2>2, TreeFacts
    <2>8. StartedOK'
      BY <1>1, <2>2, <2>7, TreeFacts DEF ShapesOK, StartedOK, asked
    <2>9. CancelsOK'
      <3>1. expired' /\ Unfinished' => Request \in cancels' \/ task'[Request] = "aborting"
        BY <1>1, <2>2, <2>3, <2>7, TreeFacts DEF ShapesOK, CancelsOK, Unfinished
      <3>2. \A u \in cancels' : task'[u] \notin Finished \union {"new"}
        BY <2>2, <2>3
      <3>3. QED
        BY <3>1, <3>2 DEF CancelsOK
    <2>10. AnswerOK'
      BY <1>1, <2>1, <2>7 DEF ShapesOK, AnswerOK, Finished, asked
    <2>11. TriesOK'
      BY <1>1, <2>2, TreeFacts DEF TriesOK, calling
    <2>12. TypeOK'
      BY <1>1, <2>1, <2>2, <2>3 DEF TypeOK, asked, calling
    <2>13. QED
      BY <2>4, <2>5, <2>6, <2>8, <2>9, <2>10, <2>11, <2>12 DEF IInv, ShapesOK, TreeOK
  <1>5. CASE task[t] \notin {"fetching", "running"}
    <2>1. task' = task /\ cancels' = cancels \ {t} /\ outcome' = outcome
      <3>1. task' = [task EXCEPT ![t] = task[t]]
        BY <1>1, <1>5 DEF CancelGroup
      <3>2. QED
        BY <1>1, <1>5, <3>1 DEF CancelGroup
    <2>2. task[t] = "aborting"
      BY <1>1, <1>2, <1>5 DEF ShapesOK, StatesOK, Finished
    <2>3. StatesOK' /\ SpreadOK' /\ StartedOK' /\ AnswerOK' /\ TriesOK'
      BY <1>1, <2>1 DEF ShapesOK, StatesOK, SpreadOK, Innocent, StartedOK, AnswerOK, TriesOK, asked, calling
    <2>4. ASSUME NEW d \in Tasks \ {Request} PROVE Below(d)'
      BY <1>1, <2>1, <2>2 DEF ShapesOK, TreeOK, Below
    <2>5. CancelsOK'
      BY <1>1, <2>1, <2>2 DEF ShapesOK, CancelsOK, Unfinished
    <2>6. TypeOK'
      BY <1>1, <2>1 DEF TypeOK, asked, calling
    <2>7. QED
      BY <2>3, <2>4, <2>5, <2>6 DEF IInv, ShapesOK, TreeOK
  <1>6. QED
    BY <1>3, <1>4, <1>5

LEMMA RequestEndsIInv == IInv /\ RequestEnds => IInv'
  <1> SUFFICES ASSUME IInv, RequestEnds PROVE IInv'
    OBVIOUS
  <1>1. /\ TypeOK /\ ShapesOK /\ TriesOK /\ task \in [Tasks -> States] /\ wanted \subseteq Calls
        /\ Attempts' = Attempts /\ UNCHANGED <<asked, calling, cancels, clock, expired, saved>>
        /\ task[Request] \in {"running", "aborting"} /\ Request \notin cancels /\ Over(Request)
    BY WantedAreCalls DEF IInv, TypeOK, RequestEnds, Attempts, asked
  <1>2. /\ ResultOf(Request) \in Finished
        /\ \A d \in Tasks \ {Request} : Parent(d) = Request =>
             /\ task[d] \in Finished \union {"new"}
             /\ ResultOf(Request) = "done" => task[d] \in {"done", "new"}
             /\ task[d] = "failed" => ResultOf(Request) = "failed"
    BY <1>1, EndFacts, TreeFacts
  <1>3. /\ task' \in [Tasks -> States] /\ task'[Request] = ResultOf(Request)
        /\ \A u \in Tasks \ {Request} : task'[u] = task[u]
    <2>1. task' = [task EXCEPT ![Request] = ResultOf(Request)]
      BY DEF RequestEnds
    <2>2. QED
      BY <1>1, <1>2, <2>1, TreeFacts DEF States
  <1>4. StatesOK'
    BY <1>1, <1>2, <1>3, TreeFacts DEF ShapesOK, StatesOK
  <1>5. ASSUME NEW d \in Tasks \ {Request} PROVE Below(d)'
    <2>1. Below(d) /\ Parent(d) \in Tasks /\ task'[d] = task[d]
      BY <1>1, <1>3, TreeFacts DEF ShapesOK, TreeOK
    <2>2. CASE Parent(d) = Request
      BY <1>2, <1>3, <2>1, <2>2 DEF Below, Finished
    <2>3. CASE Parent(d) # Request
      BY <1>1, <1>3, <2>1, <2>3 DEF Below
    <2>4. QED
      BY <2>2, <2>3
  <1>6. SpreadOK'
    <2>1. \A g \in Groups \ {Request} : task'[g] # "aborting"
      BY <1>2, <1>3, TreeFacts DEF Finished
    <2>2. QED
      BY <2>1 DEF SpreadOK
  <1>7. StartedOK'
    BY <1>1, <1>2, <1>3, TreeFacts DEF ShapesOK, StartedOK, asked, Finished
  <1>8. CancelsOK'
    BY <1>1, <1>2, <1>3, TreeFacts DEF ShapesOK, CancelsOK, Unfinished, Finished, TypeOK
  <1>9. AnswerOK' /\ outcome' \in Outcomes
    <2>1. saved = {}
      BY <1>1 DEF ShapesOK, AnswerOK
    <2>2. CASE ResultOf(Request) = "failed"
      <3>1. outcome' = "failed"
        BY <2>2 DEF RequestEnds
      <3>2. QED
        BY <1>1, <1>3, <2>1, <2>2, <3>1 DEF AnswerOK, Finished, Outcomes
    <2>3. CASE ResultOf(Request) = "cancelled"
      <3>1. outcome' = "timeout"
        BY <2>3 DEF RequestEnds
      <3>2. QED
        BY <1>1, <1>3, <2>1, <2>3, <3>1 DEF AnswerOK, Finished, Outcomes
    <2>4. CASE ResultOf(Request) = "done"
      <3>1. outcome' = "none"
        BY <2>4 DEF RequestEnds
      <3>2. QED
        BY <1>1, <1>3, <2>1, <2>4, <3>1 DEF AnswerOK, Finished, Outcomes
    <2>5. QED
      BY <1>2, <2>2, <2>3, <2>4 DEF Finished
  <1>10. TriesOK'
    BY <1>1, <1>3, TreeFacts DEF TriesOK, calling
  <1>11. TypeOK'
    BY <1>1, <1>3, <1>9 DEF TypeOK, asked, calling
  <1>12. QED
    BY <1>4, <1>5, <1>6, <1>7, <1>8, <1>9, <1>10, <1>11 DEF IInv, ShapesOK, TreeOK

LEMMA SaveIInv == IInv /\ Save => IInv'
  <1> SUFFICES ASSUME IInv, Save PROVE IInv'
    OBVIOUS
  <1>1. /\ TypeOK /\ ShapesOK /\ TriesOK
        /\ UNCHANGED <<asked, task, calling, cancels, clock, expired>>
        /\ task[Request] = "done" /\ outcome = "none"
    BY DEF IInv, Save
  <1>2. saved = {}
    BY <1>1 DEF ShapesOK, AnswerOK
  <1>3. \/ outcome' = "saved" /\ saved' = wanted
        \/ outcome' \in {"answered", "error"} /\ saved' = {}
    BY <1>2 DEF Save
  <1>4. StatesOK' /\ SpreadOK' /\ StartedOK' /\ CancelsOK' /\ TriesOK'
    BY <1>1 DEF ShapesOK, StatesOK, SpreadOK, Innocent, StartedOK, CancelsOK, Unfinished, TriesOK,
       asked, calling, Attempts
  <1>5. TreeOK'
    BY <1>1 DEF ShapesOK, TreeOK, Below
  <1>6. AnswerOK'
    BY <1>1, <1>3 DEF AnswerOK, Finished, asked
  <1>7. TypeOK'
    BY <1>1, <1>3 DEF TypeOK, asked, calling, Outcomes, Attempts
  <1>8. QED
    BY <1>4, <1>5, <1>6, <1>7 DEF IInv, ShapesOK

LEMMA DeadlineIInv == IInv /\ DeadlinePasses => IInv'
  <1> SUFFICES ASSUME IInv, DeadlinePasses PROVE IInv'
    OBVIOUS
  <1>1. /\ TypeOK /\ ShapesOK /\ TriesOK /\ Unfinished
        /\ UNCHANGED <<asked, task, calling, clock, saved, outcome>>
        /\ cancels' = cancels \union {Request}
    BY DEF IInv, DeadlinePasses
  <1>2. StatesOK' /\ SpreadOK' /\ StartedOK' /\ AnswerOK' /\ TriesOK'
    BY <1>1 DEF ShapesOK, StatesOK, SpreadOK, Innocent, StartedOK, AnswerOK, TriesOK,
       asked, calling, Attempts
  <1>3. TreeOK'
    BY <1>1 DEF ShapesOK, TreeOK, Below
  <1>4. CancelsOK'
    BY <1>1 DEF ShapesOK, CancelsOK, Unfinished, Finished
  <1>5. TypeOK'
    BY <1>1, TreeFacts DEF DeadlinePasses, TypeOK, asked, calling, Attempts
  <1>6. QED
    BY <1>2, <1>3, <1>4, <1>5 DEF IInv, ShapesOK

LEMMA TickIInv == IInv /\ Tick => IInv'
  <1> SUFFICES ASSUME IInv, Tick PROVE IInv'
    OBVIOUS
  <1>1. /\ TypeOK /\ ShapesOK /\ TriesOK
        /\ UNCHANGED <<asked, task, tries, cancels, expired, saved, outcome>>
    BY DEF IInv, Tick
  <1>2. StatesOK' /\ SpreadOK' /\ StartedOK' /\ CancelsOK' /\ AnswerOK' /\ TriesOK'
    BY <1>1 DEF ShapesOK, StatesOK, SpreadOK, Innocent, StartedOK, CancelsOK, Unfinished, AnswerOK,
       TriesOK, asked, Attempts
  <1>3. TreeOK'
    BY <1>1 DEF ShapesOK, TreeOK, Below
  <1>4. clock' \in Nat
    BY <1>1 DEF Tick, TypeOK
  <1>5. spent' \in [Calls -> Nat]
    BY <1>1 DEF Tick, TypeOK
  <1>6. TypeOK'
    BY <1>1, <1>4, <1>5 DEF TypeOK, asked, Attempts
  <1>7. QED
    BY <1>2, <1>3, <1>6 DEF IInv, ShapesOK

LEMMA NextIInv == IInv /\ [Next]_vars => IInv'
  <1> SUFFICES ASSUME IInv, [Next]_vars PROVE IInv'
    OBVIOUS
  <1>1. CASE FetchEnds
    BY <1>1, FetchEndsIInv
  <1>2. CASE RequestEnds
    BY <1>2, RequestEndsIInv
  <1>3. CASE Save
    BY <1>3, SaveIInv
  <1>4. CASE DeadlinePasses
    BY <1>4, DeadlineIInv
  <1>5. CASE Tick
    BY <1>5, TickIInv
  <1>6. ASSUME NEW t \in Groups, CancelGroup(t) PROVE IInv'
    BY <1>6, CancelGroupIInv
  <1>7. ASSUME NEW t \in Groups, PlatformEnds(t) PROVE IInv'
    BY <1>7, PlatformEndsIInv
  <1>8. ASSUME NEW c \in Calls, StartCall(c) \/ NextAttempt(c) PROVE IInv'
    BY <1>8, CallMovesIInv
  <1>9. ASSUME NEW c \in Calls, AttemptFails(c) PROVE IInv'
    BY <1>9, CallMovesIInv, AttemptFailsIInv
  <1>10. ASSUME NEW c \in Calls, AttemptSucceeds(c) PROVE IInv'
    BY <1>10, AttemptSucceedsIInv
  <1>11. ASSUME NEW c \in Calls, CancelCall(c) PROVE IInv'
    BY <1>11, CancelCallIInv
  <1>12. CASE UNCHANGED vars
    <2>1. TypeOK' /\ TriesOK'
      BY <1>12 DEF IInv, TypeOK, TriesOK, vars, asked, calling, Attempts
    <2>2. StatesOK' /\ SpreadOK' /\ StartedOK' /\ CancelsOK' /\ AnswerOK'
      BY <1>12 DEF IInv, ShapesOK, StatesOK, SpreadOK, Innocent, StartedOK, CancelsOK, Unfinished,
         AnswerOK, vars, asked
    <2>3. TreeOK'
      BY <1>12 DEF IInv, ShapesOK, TreeOK, Below, vars
    <2>4. QED
      BY <2>1, <2>2, <2>3 DEF IInv, ShapesOK
  <1>13. QED
    BY <1>1, <1>2, <1>3, <1>4, <1>5, <1>6, <1>7, <1>8, <1>9, <1>10, <1>11, <1>12 DEF Next

(* The inductive invariant holds in every reachable state.                   *)
THEOREM Invariant == Spec => []IInv
  BY InitIInv, NextIInv, PTL DEF Spec

(* Every variable stays in its type.                                         *)
THEOREM TypeCorrect == Spec => []TypeOK
  <1>1. IInv => TypeOK
    BY DEF IInv
  <1>2. QED
    BY Invariant, <1>1, PTL

(* All drafts are saved or none, and nothing runs on behind an answer.       *)
THEOREM NothingHalfDone == Spec => []AllOrNothing
  <1>1. IInv => AllOrNothing
    <2> SUFFICES ASSUME IInv PROVE AllOrNothing
      OBVIOUS
    <2>1. wanted \subseteq Calls
      BY WantedAreCalls DEF IInv, TypeOK
    <2>2. ASSUME saved # {}
          PROVE  saved = wanted /\ outcome = "saved" /\ \A c \in wanted : task[c] = "done"
      <3>1. saved = wanted /\ outcome = "saved" /\ task[Request] = "done"
        BY <2>2 DEF IInv, ShapesOK, AnswerOK
      <3>2. ASSUME NEW c \in wanted PROVE task[c] = "done"
        <4>1. task[c] # "new" /\ task[Parent(c)] # "new"
          BY <3>1 DEF IInv, ShapesOK, StartedOK
        <4>2. c \in Tasks \ {Request} /\ Parent(c) \in Tasks \ {Request} /\ Parent(Parent(c)) = Request
          BY <2>1, TreeFacts
        <4>3. task[Parent(c)] = "done"
          BY <3>1, <4>1, <4>2 DEF IInv, ShapesOK, TreeOK, Below
        <4>4. QED
          BY <4>1, <4>2, <4>3 DEF IInv, ShapesOK, TreeOK, Below
      <3>3. QED
        BY <3>1, <3>2
    <2>3. ASSUME outcome # "none" PROVE \A t \in Tasks : task[t] \in Finished \union {"new"}
      <3>1. task[Request] \in Finished
        BY <2>3 DEF IInv, ShapesOK, AnswerOK
      <3>2. \A g \in Groups : task[g] \in Finished \union {"new"}
        BY <3>1, TreeFacts DEF IInv, ShapesOK, TreeOK, Below
      <3>3. \A c \in Calls : task[c] \in Finished \union {"new"}
        BY <3>2, TreeFacts DEF IInv, ShapesOK, TreeOK, Below
      <3>4. QED
        BY <3>2, <3>3, TreeFacts
    <2>4. QED
      BY <2>2, <2>3 DEF AllOrNothing
  <1>2. QED
    BY Invariant, <1>1, PTL

-----------------------------------------------------------------------------
(* Time.  When it passes, no group is aborting and no call has failed: the   *)
(* request runs, and so does one of its calls.                               *)
LEMMA SettledFacts ==
    ASSUME IInv, Settled, outcome = "none"
    PROVE  /\ \A c \in Calls : task[c] # "failed"
           /\ task[Request] \in {"fetching", "running"} /\ Unfinished /\ ~expired
           /\ task[Request] = "running" =>
                \E c \in Calls : task[c] = "waiting" \/ task[c] \in Holding
  <1>1. cancels = {} /\ \A t \in Groups : task[t] \in {"running", "aborting"} => ~Over(t)
    BY DEF Settled
  <1>2. ASSUME NEW t \in Groups, \A d \in Tasks \ {Request} :
                   Parent(d) = t => task[d] \in Finished \union {"new"}
        PROVE  Over(t)
    BY <1>2 DEF Over, Children
  <1>3. ASSUME NEW g \in Groups \ {Request} PROVE task[g] # "aborting"
    <2> SUFFICES ASSUME task[g] = "aborting" PROVE FALSE
      OBVIOUS
    <2>1. ASSUME NEW d \in Tasks \ {Request}, Parent(d) = g
          PROVE  task[d] \in Finished \union {"new"}
      <3>1. d \in Calls
        BY <2>1, TreeFacts
      <3>2. task[d] # "aborting"
        BY <3>1 DEF IInv, ShapesOK, StatesOK, Holding, Finished
      <3>3. QED
        BY <1>1, <2>1, <3>2 DEF IInv, ShapesOK, TreeOK, Below
    <2>2. QED
      BY <1>1, <1>2, <2>1
  <1>4. task[Request] # "aborting"
    <2> SUFFICES ASSUME task[Request] = "aborting" PROVE FALSE
      OBVIOUS
    <2>1. ASSUME NEW d \in Tasks \ {Request}, Parent(d) = Request
          PROVE  task[d] \in Finished \union {"new"}
      <3>1. d \in Groups \ {Request}
        BY <2>1, TreeFacts
      <3>2. QED
        BY <1>1, <1>3, <2>1, <3>1 DEF IInv, ShapesOK, TreeOK, Below
    <2>2. QED
      BY <1>1, <1>2, <2>1, TreeFacts
  <1>5. task[Request] \in {"fetching", "running"} /\ Unfinished
    BY <1>4 DEF IInv, ShapesOK, StatesOK, AnswerOK, Settled, Finished, Unfinished
  <1>6. ~expired
    BY <1>1, <1>4, <1>5 DEF IInv, ShapesOK, CancelsOK
  <1>7. ASSUME NEW c \in Calls PROVE task[c] # "failed"
    <2>1. task[c] = "failed" => task[Parent(c)] = "failed"
      BY <1>3, TreeFacts DEF IInv, ShapesOK, TreeOK, Below
    <2>2. task[Parent(c)] = "failed" => task[Request] \in {"aborting", "failed"}
      BY TreeFacts DEF IInv, ShapesOK, TreeOK, Below
    <2>3. QED
      BY <1>5, <2>1, <2>2
  <1>8. ASSUME task[Request] = "running"
        PROVE  \E c \in Calls : task[c] = "waiting" \/ task[c] \in Holding
    <2>1. ~Over(Request)
      BY <1>1, <1>8, TreeFacts
    <2>2. PICK g \in Tasks \ {Request} : Parent(g) = Request /\ task[g] \notin Finished \union {"new"}
      BY <1>2, <2>1, TreeFacts
    <2>3. g \in Groups \ {Request}
      BY <2>2, TreeFacts
    <2>4. task[g] = "running"
      BY <1>3, <2>2, <2>3 DEF IInv, ShapesOK, StatesOK
    <2>5. ~Over(g)
      BY <1>1, <2>3, <2>4
    <2>6. PICK c \in Tasks \ {Request} : Parent(c) = g /\ task[c] \notin Finished \union {"new"}
      BY <1>2, <2>3, <2>5
    <2>7. c \in Calls
      BY <2>3, <2>6, TreeFacts
    <2>8. QED
      BY <2>6, <2>7 DEF IInv, ShapesOK, StatesOK
  <1>9. QED
    BY <1>5, <1>6, <1>7, <1>8

(* A failed call ends its request before any more time passes.               *)
THEOREM FailuresEndAtOnce == Spec => FailureEndsAtOnce
  <1>1. IInv /\ [Next]_vars => [(\E c \in Calls : task[c] = "failed") => clock' = clock]_vars
    <2> SUFFICES ASSUME IInv, Next, clock' # clock
                 PROVE  \A c \in Calls : task[c] # "failed"
      OBVIOUS
    <2>1. Tick
      BY DEF Next, FetchEnds, RequestEnds, Save, DeadlinePasses, CancelGroup, PlatformEnds,
         StartCall, AttemptSucceeds, AttemptFails, NextAttempt, CancelCall
    <2>2. QED
      BY <2>1, SettledFacts DEF Tick
  <1>2. QED
    BY Invariant, <1>1, PTL DEF Spec, FailureEndsAtOnce

-----------------------------------------------------------------------------
LEMMA CallsFinite == IsFiniteSet(Calls)
  <1>1. IsFiniteSet(1..Platforms) /\ IsFiniteSet(1..Styles)
    BY LimitFacts, FS_Interval
  <1>2. QED
    BY <1>1, FS_Product DEF Calls

(* The semaphore: a call that waits for a permit gets one, where the calls   *)
(* are no more than the permits.                                             *)
LEMMA SmoothStart ==
    ASSUME IInv, Smooth, NEW c \in Calls, task[c] = "waiting"
    PROVE  PermitFree(c)
  <1>1. wanted \subseteq Calls /\ IsFiniteSet(wanted) /\ c \in wanted
    BY WantedAreCalls, CallsFinite, FS_Subset DEF IInv, TypeOK, ShapesOK, StartedOK
  <1>2. IsFiniteSet(wanted \ {c}) /\ Cardinality(wanted \ {c}) = Cardinality(wanted) - 1
    BY <1>1, FS_RemoveElement
  <1>3. Permits(c) \subseteq wanted \ {c}
    BY DEF Permits, Holding, IInv, ShapesOK, StartedOK
  <1>4. Cardinality(Permits(c)) <= Cardinality(wanted \ {c}) /\ Cardinality(Permits(c)) \in Nat
    BY <1>2, <1>3, FS_Subset, FS_CardinalityType
  <1>5. Cardinality(wanted) \in Nat /\ Cardinality(wanted) <= Concurrency /\ Concurrency \in Nat
    BY <1>1, FS_CardinalityType, LimitFacts DEF Smooth
  <1>6. QED
    BY <1>2, <1>4, <1>5 DEF PermitFree

(* How late an attempt can be.                                               *)
LEMMA LatestFacts ==
    /\ WorstCase \in Nat /\ Latest(1) = 0
    /\ \A n \in 1..Attempts : Latest(n) \in Nat /\ Latest(n) + Timeout <= WorstCase
    /\ \A n \in 1..Attempts : n < Attempts =>
          /\ Backoff * n \in Nat /\ n + 1 \in 1..Attempts
          /\ Latest(n + 1) = Latest(n) + Timeout + Backoff * n
          /\ Latest(n) + Timeout + Backoff * n + Timeout <= WorstCase
  <1>1. Timeout \in Nat /\ Backoff \in Nat /\ Attempts \in {1, 2, 3}
    BY LimitFacts
  <1>2. Latest(1) = 0 /\ Latest(2) = Timeout + Backoff /\ Latest(3) = 2 * Timeout + 3 * Backoff
    BY DEF Latest
  <1>3. Backoff * 1 = Backoff /\ Backoff * 2 = Backoff + Backoff
    BY <1>1
  <1>4. CASE Attempts = 1
    <2>1. WorstCase = Timeout /\ 1..Attempts = {1}
      BY <1>1, <1>2, <1>4 DEF WorstCase
    <2>2. QED
      BY <1>1, <1>2, <1>4, <2>1
  <1>5. CASE Attempts = 2
    <2>1. WorstCase = Timeout + Backoff + Timeout /\ 1..Attempts = {1, 2}
      BY <1>1, <1>2, <1>5 DEF WorstCase
    <2>2. QED
      BY <1>1, <1>2, <1>3, <1>5, <2>1
  <1>6. CASE Attempts = 3
    <2>1. WorstCase = 2 * Timeout + 3 * Backoff + Timeout /\ 1..Attempts = {1, 2, 3}
      BY <1>1, <1>2, <1>6 DEF WorstCase
    <2>2. QED
      BY <1>1, <1>2, <1>3, <1>6, <2>1
  <1>7. QED
    BY <1>1, <1>4, <1>5, <1>6

(* A call that a step leaves alone or ends needs no new argument.            *)
LEMMA StaysBegun ==
    ASSUME NEW d \in Calls, Begun(d), task'[d] \in {task[d]} \union Finished,
           tries'[d] = tries[d], spent'[d] = spent[d], UNCHANGED <<asked, clock>>
    PROVE  Begun(d)'
  <1>1. Timeout' = Timeout
    BY DEF Timeout, asked
  <1>2. CASE task'[d] \in Finished
    BY <1>2 DEF Begun, Finished
  <1>3. CASE task'[d] = task[d]
    <2>1. Latest(tries[d])' = Latest(tries[d])
      BY DEF Timeout, Latest, asked
    <2>2. QED
      BY <1>1, <1>3, <2>1 DEF Begun
  <1>4. QED
    BY <1>2, <1>3

LEMMA InitTime == Init => TimeOK
  <1> SUFFICES ASSUME Init PROVE TimeOK
    OBVIOUS
  <1>1. IInv /\ wanted \subseteq Calls
    BY InitIInv, WantedAreCalls DEF IInv, TypeOK
  <1>2. clock = 0 /\ 0 <= WorstCase /\ 0 <= Deadline
    BY LimitFacts, LatestFacts DEF Init
  <1>3. \A c \in Calls : task[c] \notin Holding
    <2>1. CASE reference
      BY <2>1, TreeFacts DEF Init, Holding
    <2>2. CASE ~reference
      BY <1>1, <2>2, CreatedFacts DEF Init, Holding
    <2>3. QED
      BY <1>1, <2>1, <2>2
  <1>4. QED
    BY <1>2, <1>3 DEF TimeOK, Begun, Holding

LEMMA TickTime == IInv /\ TimeOK /\ Tick => TimeOK'
  <1> SUFFICES ASSUME IInv, TimeOK, Tick PROVE TimeOK'
    OBVIOUS
  <1>1. /\ clock' = clock + 1 /\ clock \in Nat /\ outcome = "none" /\ Settled
        /\ UNCHANGED <<asked, task, tries>>
        /\ tries \in [Calls -> 0..Attempts] /\ spent \in [Calls -> Nat]
        /\ \A c \in Calls : spent'[c] = IF task[c] \in Holding THEN spent[c] + 1 ELSE spent[c]
    BY DEF Tick, IInv, TypeOK
  <1>2. Unfinished /\ ~expired
    BY <1>1, SettledFacts
  <1>3. HasDeadline' /\ outcome' = "none" => clock' <= Deadline
    <2>1. HasDeadline => clock < Deadline
      BY <1>1, <1>2 DEF Settled
    <2>2. HasDeadline' = HasDeadline
      BY <1>1 DEF HasDeadline, asked
    <2>3. QED
      BY <1>1, <2>1, <2>2, LimitFacts
  <1>4. Smooth' = Smooth /\ WorstCase' = WorstCase /\ Timeout' = Timeout /\ WorstCase \in Nat
    BY <1>1, LatestFacts DEF Smooth, WorstCase, Latest, Timeout, Attempts, asked
  <1>5. ASSUME Smooth, NEW c \in Calls
        PROVE  /\ Begun(c)'
               /\ task[c] = "waiting" \/ task[c] \in Holding => clock + 1 <= WorstCase
    <2>1. task[c] # "waiting"
      BY <1>1, <1>5, SmoothStart DEF Settled
    <2>2. Begun(c)
      BY <1>5 DEF TimeOK
    <2>3. CASE task[c] = "calling"
      <3>1. /\ tries[c] \in 1..Attempts /\ spent[c] \in Nat /\ spent[c] < Timeout
            /\ clock <= Latest(tries[c]) + spent[c]
        BY <1>1, <2>2, <2>3, LimitFacts DEF IInv, TriesOK, Settled, Begun, Holding
      <3>2. Latest(tries[c]) \in Nat /\ Latest(tries[c]) + Timeout <= WorstCase /\ Timeout \in Nat
        BY <3>1, LatestFacts, LimitFacts
      <3>3. spent'[c] = spent[c] + 1 /\ tries'[c] = tries[c] /\ task'[c] = "calling"
        BY <1>1, <2>3 DEF Holding
      <3>4. Latest(tries[c])' = Latest(tries[c])
        BY <1>1 DEF Latest, Timeout, asked
      <3>5. spent'[c] <= Timeout /\ clock' <= Latest(tries[c]) + spent'[c] /\ clock + 1 <= WorstCase
        BY <1>1, <1>4, <3>1, <3>2, <3>3
      <3>6. QED
        BY <1>4, <3>3, <3>4, <3>5 DEF Begun
    <2>4. CASE task[c] = "pausing"
      <3>1. /\ tries[c] \in 1..Attempts /\ tries[c] < Attempts
            /\ spent[c] \in Nat /\ spent[c] < Backoff * tries[c]
            /\ clock <= Latest(tries[c]) + Timeout + spent[c]
        BY <1>1, <2>2, <2>4, LimitFacts DEF IInv, TriesOK, Settled, Begun, Holding
      <3>2. /\ Latest(tries[c]) \in Nat /\ Backoff * tries[c] \in Nat /\ Timeout \in Nat
            /\ Latest(tries[c]) + Timeout + Backoff * tries[c] + Timeout <= WorstCase
        BY <3>1, LatestFacts, LimitFacts
      <3>3. spent'[c] = spent[c] + 1 /\ tries'[c] = tries[c] /\ task'[c] = "pausing"
        BY <1>1, <2>4 DEF Holding
      <3>4. Latest(tries[c])' = Latest(tries[c])
        BY <1>1 DEF Latest, Timeout, asked
      <3> DEFINE pause == Backoff * tries[c]
      <3>5. pause \in Nat /\ spent[c] < pause
            /\ Latest(tries[c]) + Timeout + pause + Timeout <= WorstCase
        BY <3>1, <3>2
      <3> HIDE DEF pause
      <3>6. /\ spent'[c] <= pause /\ clock' <= Latest(tries[c]) + Timeout + spent'[c]
            /\ clock + 1 <= WorstCase
        BY <1>1, <1>4, <3>1, <3>2, <3>3, <3>5
      <3>7. QED
        BY <1>4, <3>3, <3>4, <3>6 DEF Begun, pause
    <2>5. CASE task[c] \notin Holding
      <3>1. task'[c] = task[c]
        BY <1>1
      <3>2. QED
        BY <2>1, <2>5, <3>1 DEF Begun, Holding
    <2>6. QED
      BY <2>3, <2>4, <2>5 DEF Holding
  <1>6. Smooth => clock' <= WorstCase
    <2>1. ASSUME Smooth PROVE \E c \in Calls : task[c] = "waiting" \/ task[c] \in Holding
      <3>1. task[Request] = "running"
        BY <1>1, <2>1, SettledFacts DEF Smooth, IInv, ShapesOK, StartedOK
      <3>2. QED
        BY <1>1, <3>1, SettledFacts
    <2>2. QED
      BY <1>1, <1>5, <2>1
  <1>7. QED
    BY <1>3, <1>4, <1>5, <1>6 DEF TimeOK

LEMMA StepTime == IInv /\ TimeOK /\ Next /\ ~Tick => TimeOK'
  <1> SUFFICES ASSUME IInv, TimeOK, Next, ~Tick PROVE TimeOK'
    OBVIOUS
  <1>1. /\ clock' = clock /\ UNCHANGED asked /\ clock \in Nat /\ task \in [Tasks -> States]
        /\ tries \in [Calls -> 0..Attempts] /\ spent \in [Calls -> Nat]
    BY DEF Next, FetchEnds, RequestEnds, Save, DeadlinePasses, CancelGroup, PlatformEnds,
       StartCall, AttemptSucceeds, AttemptFails, NextAttempt, CancelCall, IInv, TypeOK
  <1>2. outcome' = "none" => outcome = "none"
    <2>1. RequestEnds => outcome = "none"
      BY DEF RequestEnds, IInv, ShapesOK, AnswerOK, Finished
    <2>2. QED
      BY <2>1 DEF Next, FetchEnds, Save, DeadlinePasses, CancelGroup, PlatformEnds,
         StartCall, AttemptSucceeds, AttemptFails, NextAttempt, CancelCall
  <1>3. Smooth' = Smooth /\ WorstCase' = WorstCase /\ Timeout' = Timeout /\ HasDeadline' = HasDeadline
    BY <1>1 DEF Smooth, WorstCase, Latest, Timeout, Attempts, HasDeadline, asked
  <1>4. ASSUME Smooth, NEW d \in Calls PROVE Begun(d)'
    <2>1. Begun(d) /\ d \in Tasks /\ d \notin Groups /\ d # Request
      BY <1>4, TreeFacts DEF TimeOK
    <2>2. ASSUME task'[d] \in {task[d]} \union Finished, tries'[d] = tries[d], spent'[d] = spent[d]
          PROVE  Begun(d)'
      BY <1>1, <2>1, <2>2, StaysBegun
    <2>3. ASSUME NEW t \in Tasks \ {Request}, NEW s \in Finished, Settle(t, s)
          PROVE  task'[d] \in {task[d]} \union Finished
      <3>1. Parent(t) # d /\ Parent(t) \in Tasks
        BY <2>1, TreeFacts
      <3>2. QED
        BY <1>1, <2>1, <2>3, <3>1 DEF Settle
    <2>4. ~FetchEnds
      BY <1>4 DEF FetchEnds, Smooth, IInv, ShapesOK, StartedOK
    <2>5. CASE RequestEnds \/ Save \/ DeadlinePasses
      <3>1. task'[d] = task[d]
        BY <1>1, <2>1, <2>5 DEF RequestEnds, Save, DeadlinePasses
      <3>2. QED
        BY <2>2, <2>5, <3>1 DEF RequestEnds, Save, DeadlinePasses, calling
    <2>6. ASSUME NEW t \in Groups, CancelGroup(t) PROVE Begun(d)'
      <3>1. task'[d] = task[d]
        BY <1>1, <2>1, <2>6 DEF CancelGroup
      <3>2. QED
        BY <2>2, <2>6, <3>1 DEF CancelGroup, calling
    <2>7. ASSUME NEW t \in Groups, PlatformEnds(t) PROVE Begun(d)'
      <3>1. t \in Tasks \ {Request} /\ ResultOf(t) \in Finished /\ Settle(t, ResultOf(t))
        BY <2>7, TreeFacts DEF PlatformEnds, ResultOf, Finished
      <3>2. QED
        BY <2>2, <2>3, <2>7, <3>1 DEF PlatformEnds, calling
    <2>8. ASSUME NEW c \in Calls, AttemptSucceeds(c) PROVE Begun(d)'
      <3>1. task'[d] \in {task[d]} \union Finished
        BY <1>1, <2>1, <2>8 DEF AttemptSucceeds, Finished
      <3>2. QED
        BY <2>2, <2>8, <3>1 DEF AttemptSucceeds, calling
    <2>9. ASSUME NEW c \in Calls, CancelCall(c) PROVE Begun(d)'
      <3>1. c \in Tasks \ {Request} /\ "cancelled" \in Finished /\ Settle(c, "cancelled")
        BY <2>9, TreeFacts DEF CancelCall, Finished
      <3>2. QED
        BY <2>2, <2>3, <2>9, <3>1 DEF CancelCall, calling
    <2>10. ASSUME NEW c \in Calls, AttemptFails(c), ~Retries(c) PROVE Begun(d)'
      <3>1. c \in Tasks \ {Request} /\ "failed" \in Finished /\ Settle(c, "failed")
        BY <2>10, TreeFacts DEF AttemptFails, Finished
      <3>2. QED
        BY <2>2, <2>3, <2>10, <3>1 DEF AttemptFails
    <2>11. ASSUME NEW c \in Calls, c # d, StartCall(c) \/ NextAttempt(c) \/ (AttemptFails(c) /\ Retries(c))
           PROVE  Begun(d)'
      <3>1. task'[d] = task[d] /\ tries'[d] = tries[d] /\ spent'[d] = spent[d]
        BY <1>1, <2>1, <2>11 DEF StartCall, NextAttempt, AttemptFails
      <3>2. QED
        BY <2>2, <3>1
    <2>12. CASE StartCall(d)
      <3>1. /\ task'[d] = "calling" /\ tries'[d] = 1 /\ spent'[d] = 0 /\ clock = 0
        BY <1>1, <2>1, <2>12, LimitFacts DEF StartCall, Begun
      <3>2. Latest(1)' = 0
        BY DEF Latest
      <3>3. QED
        BY <1>1, <1>3, <3>1, <3>2, LimitFacts DEF Begun
    <2>13. CASE AttemptFails(d) /\ Retries(d)
      <3>1. /\ task'[d] = "pausing" /\ tries'[d] = tries[d] /\ spent'[d] = 0
            /\ tries[d] \in 1..Attempts /\ spent[d] \in Nat /\ spent[d] <= Timeout
            /\ clock <= Latest(tries[d]) + spent[d]
        BY <1>1, <2>1, <2>13, LimitFacts DEF AttemptFails, Begun, IInv, TriesOK, Holding
      <3>2. Latest(tries[d])' = Latest(tries[d])
        BY <1>1, <3>1 DEF Latest, Timeout, asked
      <3>3. Latest(tries[d]) \in Nat /\ Timeout \in Nat
        BY <3>1, LatestFacts, LimitFacts
      <3>4. clock <= Latest(tries[d]) + Timeout + 0
        BY <1>1, <3>1, <3>3
      <3>5. 0 <= Backoff * tries'[d]
        BY <3>1, LimitFacts
      <3>6. QED
        BY <1>1, <1>3, <3>1, <3>2, <3>4, <3>5 DEF Begun
    <2>14. CASE NextAttempt(d)
      <3>1. /\ task'[d] = "calling" /\ tries'[d] = tries[d] + 1 /\ spent'[d] = 0
            /\ tries[d] \in 1..Attempts /\ tries[d] < Attempts /\ spent[d] = Backoff * tries[d]
            /\ clock <= Latest(tries[d]) + Timeout + spent[d]
        BY <1>1, <2>1, <2>14, LimitFacts DEF NextAttempt, Begun, IInv, TriesOK, Holding
      <3>2. /\ Latest(tries[d] + 1) = Latest(tries[d]) + Timeout + Backoff * tries[d]
            /\ tries[d] + 1 \in 1..Attempts /\ Latest(tries[d] + 1) \in Nat
        BY <3>1, LatestFacts
      <3>3. Latest(tries[d])' = Latest(tries[d] + 1)
        BY <1>1, <3>1 DEF Latest, Timeout, asked
      <3>4. clock <= Latest(tries[d] + 1) + 0
        BY <3>1, <3>2
      <3>5. QED
        BY <1>1, <1>3, <3>1, <3>3, <3>4, LimitFacts DEF Begun
    <2>15. QED
      BY <2>4, <2>5, <2>6, <2>7, <2>8, <2>9, <2>10, <2>11, <2>12, <2>13, <2>14 DEF Next
  <1>5. QED
    BY <1>1, <1>2, <1>3, <1>4 DEF TimeOK

LEMMA NextTime == IInv /\ TimeOK /\ [Next]_vars => TimeOK'
  <1>1. ASSUME TimeOK, UNCHANGED vars PROVE TimeOK'
    BY <1>1 DEF TimeOK, Smooth, Begun, WorstCase, Latest, Timeout, Attempts, HasDeadline,
       vars, asked, calling
  <1>2. QED
    BY <1>1, TickTime, StepTime

THEOREM Times == Spec => []TimeOK
  BY Invariant, InitTime, NextTime, PTL DEF Spec

(* No request works for longer than its limit.                               *)
THEOREM InTime == Spec => []AnsweredInTime
  <1>1. IInv /\ TimeOK => AnsweredInTime
    <2> SUFFICES ASSUME IInv, TimeOK, outcome = "none", ~HasDeadline PROVE clock <= WorstCase
      BY DEF AnsweredInTime, TimeOK
    <2>1. op # "generate" /\ wanted = {<<1, 1>>} /\ ~reference
      BY DEF HasDeadline, IInv, TypeOK, CallsOf, ShapesOK, StartedOK
    <2>2. Cardinality(wanted) = 1
      BY <2>1, FS_Singleton
    <2>3. Smooth
      BY <2>1, <2>2, LimitFacts DEF Smooth
    <2>4. QED
      BY <2>3 DEF TimeOK
  <1>2. QED
    BY Invariant, Times, <1>1, PTL

(* The deadline cuts no retry short where no call queues.                    *)
THEOREM RetriesAreInTime == Spec => []RetriesFit
  <1>1. Init => RetriesFit
    BY DEF Init, RetriesFit
  <1>2. IInv /\ TimeOK /\ RetriesFit /\ [Next]_vars => RetriesFit'
    <2> SUFFICES ASSUME IInv, TimeOK, RetriesFit, [Next]_vars, Smooth', (WorstCase < Deadline)'
                 PROVE  ~expired'
      BY DEF RetriesFit, Smooth
    <2>1. UNCHANGED asked
      BY DEF Next, FetchEnds, RequestEnds, Save, DeadlinePasses, Tick, CancelGroup, PlatformEnds,
         StartCall, AttemptSucceeds, AttemptFails, NextAttempt, CancelCall, vars
    <2>2. Smooth /\ WorstCase < Deadline
      BY <2>1 DEF Smooth, WorstCase, Latest, Timeout, Attempts, asked
    <2>3. ~expired
      BY <2>2 DEF RetriesFit, Smooth
    <2>4. ~DeadlinePasses
      <3> SUFFICES ASSUME DeadlinePasses PROVE FALSE
        OBVIOUS
      <3>1. clock = Deadline /\ outcome = "none"
        BY DEF DeadlinePasses, Unfinished, IInv, ShapesOK, AnswerOK, Finished
      <3>2. clock <= WorstCase
        BY <2>2, <3>1 DEF TimeOK
      <3>3. QED
        BY <2>2, <3>1, <3>2, LimitFacts, LatestFacts
    <2>5. expired' = expired
      BY <2>4 DEF Next, FetchEnds, RequestEnds, Save, Tick, CancelGroup, PlatformEnds,
         StartCall, AttemptSucceeds, AttemptFails, NextAttempt, CancelCall, vars
    <2>6. QED
      BY <2>3, <2>5
  <1>3. QED
    BY Invariant, Times, <1>1, <1>2, PTL DEF Spec

-----------------------------------------------------------------------------
(* The semaphore bounds the calls that are open at the provider.             *)
THEOREM ConcurrencyIsBounded == Spec => []CallsBounded
  <1> DEFINE Open == {c \in Calls : task[c] \in Holding}
  <1>1. IsFiniteSet(Open) /\ Cardinality(Open) \in Nat
    BY CallsFinite, FS_Subset, FS_CardinalityType
  <1>2. Init => CallsBounded
    <2> SUFFICES ASSUME Init PROVE CallsBounded
      OBVIOUS
    <2>1. \A c \in Calls : task[c] \notin Holding
      <3>1. wanted \subseteq Calls /\ reference \in BOOLEAN
        BY WantedAreCalls DEF Init
      <3>2. CASE reference
        BY <3>2, TreeFacts DEF Init, Holding
      <3>3. CASE ~reference
        BY <3>1, <3>3, CreatedFacts DEF Init, Holding
      <3>4. QED
        BY <3>1, <3>2, <3>3
    <2>2. Open = {}
      BY <2>1
    <2>3. QED
      BY <2>2, FS_EmptySet, LimitFacts DEF CallsBounded
  <1>3. IInv /\ CallsBounded /\ [Next]_vars => CallsBounded'
    <2> SUFFICES ASSUME IInv, CallsBounded, [Next]_vars PROVE CallsBounded'
      OBVIOUS
    <2>1. task \in [Tasks -> States] /\ Cardinality(Open) <= Concurrency
      BY DEF IInv, TypeOK, CallsBounded
    <2>2. ASSUME \A d \in Calls : task'[d] \in Holding => task[d] \in Holding
          PROVE  CallsBounded'
      <3>1. Open' \subseteq Open
        BY <2>2
      <3>2. Cardinality(Open') <= Cardinality(Open) /\ Cardinality(Open') \in Nat
        BY <1>1, <3>1, FS_Subset, FS_CardinalityType
      <3>3. QED
        BY <1>1, <2>1, <3>2, LimitFacts DEF CallsBounded
    <2>3. ASSUME NEW t \in Tasks \ {Request}, NEW s \in Finished, Settle(t, s),
                 NEW d \in Calls, task'[d] \in Holding
          PROVE  task[d] \in Holding
      <3>1. Parent(t) # d /\ Parent(t) \in Tasks /\ d \in Tasks /\ Parent(t) # t
        BY TreeFacts
      <3>2. task'[t] = s
        BY <2>1, <2>3, <3>1 DEF Settle
      <3>3. d # t
        BY <2>3, <3>2 DEF Holding, Finished
      <3>4. QED
        BY <2>1, <2>3, <3>1, <3>3 DEF Settle
    <2>4. CASE FetchEnds
      <3>1. task' = Created /\ wanted \subseteq Calls
        BY <2>4, WantedAreCalls DEF FetchEnds, IInv, TypeOK
      <3>2. \A d \in Calls : task'[d] \in {"new", "waiting"}
        BY <3>1, CreatedFacts
      <3>3. QED
        BY <2>2, <3>2 DEF Holding
    <2>5. CASE RequestEnds \/ Save \/ DeadlinePasses \/ Tick \/ UNCHANGED vars
      <3>1. \A d \in Calls : task'[d] = task[d]
        BY <2>1, <2>5, TreeFacts DEF RequestEnds, Save, DeadlinePasses, Tick, vars
      <3>2. QED
        BY <2>2, <3>1
    <2>6. ASSUME NEW t \in Groups, CancelGroup(t) PROVE CallsBounded'
      <3>1. \A d \in Calls : task'[d] = task[d]
        BY <2>1, <2>6, TreeFacts DEF CancelGroup
      <3>2. QED
        BY <2>2, <3>1
    <2>7. ASSUME NEW t \in Groups, PlatformEnds(t) PROVE CallsBounded'
      <3>1. t \in Tasks \ {Request} /\ ResultOf(t) \in Finished /\ Settle(t, ResultOf(t))
        BY <2>7, TreeFacts DEF PlatformEnds, ResultOf, Finished
      <3>2. QED
        BY <2>2, <2>3, <3>1
    <2>8. ASSUME NEW c \in Calls, CancelCall(c) \/ (AttemptFails(c) /\ ~Retries(c)) PROVE CallsBounded'
      <3>1. PICK s \in Finished : Settle(c, s)
        BY <2>8 DEF CancelCall, AttemptFails, Finished
      <3>2. QED
        BY <2>2, <2>3, <3>1, TreeFacts
    <2>9. ASSUME NEW c \in Calls, AttemptSucceeds(c) PROVE CallsBounded'
      <3>1. \A d \in Calls : task'[d] \in Holding => task[d] \in Holding
        BY <2>1, <2>9, TreeFacts DEF AttemptSucceeds, Holding
      <3>2. QED
        BY <2>2, <3>1
    <2>10. ASSUME NEW c \in Calls, NextAttempt(c) \/ (AttemptFails(c) /\ Retries(c)) PROVE CallsBounded'
      <3>1. \A d \in Calls : task'[d] \in Holding => task[d] \in Holding
        BY <2>1, <2>10, TreeFacts DEF NextAttempt, AttemptFails, Holding
      <3>2. QED
        BY <2>2, <3>1
    <2>11. ASSUME NEW c \in Calls, StartCall(c) PROVE CallsBounded'
      <3>1. Cardinality(Open) < Concurrency
        BY <2>11 DEF StartCall, PermitFree, Permits
      <3>2. Open' = Open \union {c}
        BY <2>1, <2>11, TreeFacts DEF StartCall, Holding
      <3>3. Cardinality(Open \union {c}) = IF c \in Open THEN Cardinality(Open) ELSE Cardinality(Open) + 1
        BY <1>1, FS_AddElement
      <3>4. Cardinality(Open') <= Concurrency
        BY <1>1, <3>1, <3>2, <3>3, LimitFacts
      <3>5. QED
        BY <3>4 DEF CallsBounded
    <2>12. QED
      BY <2>4, <2>5, <2>6, <2>7, <2>8, <2>9, <2>10, <2>11 DEF Next
  <1>4. QED
    BY Invariant, <1>2, <1>3, PTL DEF Spec
=============================================================================
