---------------------------- MODULE WorkersProofs ----------------------------
(***************************************************************************)
(* Theorems about Workers, for any number of processes, threads and        *)
(* clients, any limit and any window.                                      *)
(***************************************************************************)
EXTENDS Workers, WellFoundedInduction, SequenceTheorems, FunctionTheorems,
        FiniteSetTheorems, TLAPS

(* The types without the limiter's.                                          *)
ProcessesTyped ==
    /\ live \subseteq Pids
    /\ memory \in [Pids -> Memories]
    /\ loops \in [Pids -> Nat]
    /\ pc \in [Pids -> [Threads -> Steps]]
    /\ client \in [Pids -> [Threads -> Clients]]

(* The deque is oldest first, and its hits that are not too old are, one for *)
(* one and by their ages, the logins let through in the last Window.         *)
Recorded(seq) == {i \in 1..Len(seq) : seq[i] <= Window}
Pairing(f, seq, logins) ==
    /\ f \in [Recorded(seq) -> logins]
    /\ \A i, j \in Recorded(seq) : f[i] = f[j] => i = j
    /\ \A x \in logins : \E i \in Recorded(seq) : f[i] = x
    /\ \A i \in Recorded(seq) : f[i][1] = seq[i]
Matches(seq, logins) ==
    /\ \A i, j \in 1..Len(seq) : i < j => seq[i] >= seq[j]
    /\ \E f : Pairing(f, seq, logins)
    /\ \A x \in Now(logins) : x[2] \in 1..Cardinality(Now(logins))
(* What the deque of a client and the logins let through have in common.     *)
Logins == SUBSET ((0..Window) \X Nat)
ClientOK(seq, logins) ==
    /\ seq \in Seq(0..Late) /\ logins \in Logins
    /\ Matches(seq, logins)
    /\ Cardinality(logins) <= MaxHits
LimiterIInv ==
    /\ hits \in [Pids -> [Clients -> Seq(0..Late)]]
    /\ recent \in [Pids -> [Clients -> Logins]]
    /\ \A p \in Pids, k \in Clients : ClientOK(hits[p][k], recent[p][k])

(* The thread that is in the guarded section holds the lock, and nobody else *)
(* does: a fork leaves no orphan.                                            *)
LockOK(m, step) ==
    /\ m.lock # Orphan
    /\ \A t \in Threads : step[t] \in {"retest", "set_pid", "unlock"} <=> m.lock = HeldBy(t)

(* A process has the bridge it built, and the loop of that bridge, or none;  *)
(* only between the two assignments has it a bridge without its number.      *)
BridgeOK(p, m, step, n) ==
    /\ m.bridge \in {"none", "own"}
    /\ n = IF m.bridge = "own" THEN 1 ELSE 0
    /\ m.pid = p => m.bridge = "own"
    /\ m.bridge = "own" /\ m.pid # p => \E t \in Threads : step[t] = "set_pid"
    /\ \A t \in Threads : step[t] \in {"test_pid", "set_pid", "unlock", "return"} =>
                              m.bridge = "own"

(* A number that no process has is as good as new.                           *)
AbsentOK(m, step, n) ==
    m = Fresh /\ n = 0 /\ \A t \in Threads : step[t] = "idle"

ProcessOK(p, alive, m, step, n) ==
    /\ LockOK(m, step)
    /\ BridgeOK(p, m, step, n)
    /\ ~alive => AbsentOK(m, step, n)

ProcessesOK == \A p \in Pids : ProcessOK(p, p \in live, memory[p], pc[p], loops[p])

IInv == ProcessesTyped /\ ProcessesOK

-----------------------------------------------------------------------------
USE LimitsAssumption DEF LimitsAssumption

LEMMA FreshTyped == Fresh \in Memories /\ Fresh.bridge = "none" /\ Fresh.pid = None
                    /\ Fresh.lock = Free
  BY DEF Fresh, Memories, Bridges, Locks

(* A process that nobody has begun to serve from.                            *)
LEMMA FreshOK ==
    ASSUME NEW p \in Pids, NEW alive, NEW step \in [Threads -> Steps],
           \A t \in Threads : step[t] = "idle"
    PROVE  ProcessOK(p, alive, Fresh, step, 0)
  <1>1. LockOK(Fresh, step)
    BY FreshTyped DEF LockOK, Orphan, Free, HeldBy
  <1>2. BridgeOK(p, Fresh, step, 0)
    BY FreshTyped DEF BridgeOK
  <1>3. QED
    BY <1>1, <1>2 DEF ProcessOK, AbsentOK

LEMMA InitIInv == Init => IInv
  <1> SUFFICES ASSUME Init PROVE IInv
    OBVIOUS
  <1>1. ProcessesTyped
    BY FreshTyped DEF Init, ProcessesTyped, Steps
  <1>2. ASSUME NEW p \in Pids PROVE ProcessOK(p, p \in live, memory[p], pc[p], loops[p])
    <2>1. /\ memory[p] = Fresh /\ loops[p] = 0
          /\ pc[p] \in [Threads -> Steps] /\ \A t \in Threads : pc[p][t] = "idle"
      BY DEF Init, Steps
    <2>2. QED
      BY <2>1, FreshOK
  <1>3. QED
    BY <1>1, <1>2 DEF IInv, ProcessesOK

(* A step of process p alone keeps the invariant if it keeps it for p.       *)
LEMMA OneProcess ==
    ASSUME IInv, ProcessesTyped', NEW p \in Pids, live' = live,
           \A q \in Pids \ {p} : /\ memory'[q] = memory[q] /\ pc'[q] = pc[q]
                                 /\ loops'[q] = loops[q],
           ProcessOK(p, p \in live, memory'[p], pc'[p], loops'[p])
    PROVE  IInv'
  BY DEF IInv, ProcessesOK

LEMMA ForkKeeps == ASSUME IInv, NEW p \in Pids, NEW q \in Pids, Fork(p, q) PROVE IInv'
  <1> USE DEF IInv, ProcessesTyped
  <1>1. memory' = [memory EXCEPT ![q] = Fresh]
    BY DEF Fork, AfterFork
  <1>2. ProcessesTyped'
    BY <1>1, FreshTyped DEF Fork, serving
  <1>3. ASSUME NEW r \in Pids
        PROVE  ProcessOK(r, r \in live', memory'[r], pc'[r], loops'[r])
    <2>1. CASE r # q
      BY <1>1, <2>1 DEF Fork, serving, ProcessesOK
    <2>2. CASE r = q
      <3>1. AbsentOK(memory[q], pc[q], loops[q])
        BY DEF Fork, ProcessesOK, ProcessOK
      <3>2. memory'[q] = Fresh /\ pc'[q] = pc[q] /\ loops'[q] = 0
        BY <1>1, <3>1 DEF Fork, serving, AbsentOK
      <3>3. QED
        BY <2>2, <3>1, <3>2, FreshOK DEF AbsentOK
    <2>3. QED
      BY <2>1, <2>2
  <1>4. QED
    BY <1>2, <1>3 DEF ProcessesOK

LEMMA StopKeeps == ASSUME IInv, NEW p \in Pids, Stop(p) PROVE IInv'
  <1> USE DEF IInv, ProcessesTyped
  <1>1. ProcessesTyped'
    BY FreshTyped DEF Stop, Steps
  <1>2. ASSUME NEW r \in Pids
        PROVE  ProcessOK(r, r \in live', memory'[r], pc'[r], loops'[r])
    <2>1. CASE r # p
      BY <2>1 DEF Stop, ProcessesOK
    <2>2. CASE r = p
      <3>1. /\ memory'[p] = Fresh /\ loops'[p] = 0
            /\ pc'[p] \in [Threads -> Steps] /\ \A t \in Threads : pc'[p][t] = "idle"
        BY DEF Stop, Steps
      <3>2. QED
        BY <2>2, <3>1, FreshOK
    <2>3. QED
      BY <2>1, <2>2
  <1>3. QED
    BY <1>1, <1>2 DEF ProcessesOK
-----------------------------------------------------------------------------
(* The steps of a thread t of process p.  Of p they change little.           *)

LEMMA GotoTyped ==
    ASSUME ProcessesTyped, NEW p \in Pids, NEW t \in Threads, NEW step \in Steps,
           Goto(p, t, step)
    PROVE  /\ pc' \in [Pids -> [Threads -> Steps]]
           /\ \A q \in Pids \ {p} : pc'[q] = pc[q]
  BY DEF ProcessesTyped, Goto

LEMMA StepTyped ==
    ASSUME ProcessesTyped, NEW p \in Pids, NEW t \in Threads,
           Arrive(p, t) \/ Thread(p, t)
    PROVE  /\ ProcessesTyped' /\ live' = live
           /\ \A q \in Pids \ {p} : /\ memory'[q] = memory[q] /\ pc'[q] = pc[q]
                                    /\ loops'[q] = loops[q]
  <1>0. /\ memory \in [Pids -> Memories] /\ memory[p] \in Memories
        /\ loops \in [Pids -> Nat]
        /\ client \in [Pids -> [Threads -> Clients]]
    BY DEF ProcessesTyped
  <1>1. \A step \in {"idle", "test", "test_pid", "lock", "retest", "set_pid", "unlock", "return"} :
            Goto(p, t, step) => /\ pc' \in [Pids -> [Threads -> Steps]]
                                /\ \A q \in Pids \ {p} : pc'[q] = pc[q]
    BY GotoTyped DEF Steps
  <1>2. /\ \E step \in {"idle", "test", "test_pid", "lock", "retest", "set_pid", "unlock", "return"} :
               Goto(p, t, step)
        /\ live' = live
    BY DEF Thread, Arrive, Test, TestPid, Lock, Retest, SetPid, Unlock, Login, ServeOther, Answers
  <1>3. client' \in [Pids -> [Threads -> Clients]]
    <2>1. client' = client \/ \E k \in Clients : client' = [client EXCEPT ![p][t] = k]
      BY DEF Thread, Arrive, Test, TestPid, Lock, Retest, SetPid, Unlock, Login, ServeOther,
             Answers
    <2>2. ASSUME NEW k \in Clients, client' = [client EXCEPT ![p][t] = k]
          PROVE  client' \in [Pids -> [Threads -> Clients]]
      BY <1>0, <2>2
    <2>3. QED
      BY <1>0, <2>1, <2>2
  <1>4. /\ loops' \in [Pids -> Nat]
        /\ \A q \in Pids \ {p} : loops'[q] = loops[q]
    <2>1. loops' = loops \/ loops' = [loops EXCEPT ![p] = @ + 1]
      BY DEF Thread, Arrive, Test, TestPid, Lock, Retest, SetPid, Unlock, Login, ServeOther,
             Answers
    <2>2. QED
      BY <1>0, <2>1
  <1>5. \A m \in Memories :
            /\ [m EXCEPT !.lock = HeldBy(t)] \in Memories /\ [m EXCEPT !.lock = Free] \in Memories
            /\ [m EXCEPT !.bridge = "own"] \in Memories /\ [m EXCEPT !.pid = p] \in Memories
    BY DEF Memories, Locks, Bridges
  <1>6. \E m \in Memories : memory' = [memory EXCEPT ![p] = m]
    <2>1. memory = [memory EXCEPT ![p] = memory[p]]
      BY <1>0
    <2>2. \/ memory' = memory
          \/ memory' = [memory EXCEPT ![p] = [memory[p] EXCEPT !.lock = HeldBy(t)]]
          \/ memory' = [memory EXCEPT ![p] = [memory[p] EXCEPT !.lock = Free]]
          \/ memory' = [memory EXCEPT ![p] = [memory[p] EXCEPT !.bridge = "own"]]
          \/ memory' = [memory EXCEPT ![p] = [memory[p] EXCEPT !.pid = p]]
      BY DEF Thread, Arrive, Test, TestPid, Lock, Retest, SetPid, Unlock, Login, ServeOther,
             Answers
    <2>3. QED
      BY <1>0, <1>5, <2>1, <2>2
  <1>7. QED
    BY <1>0, <1>1, <1>2, <1>3, <1>4, <1>6 DEF ProcessesTyped

(* The parts of the invariant about process p, for the proofs below.         *)
LEMMA OfProcess ==
    ASSUME IInv, NEW p \in Pids
    PROVE  /\ memory[p] \in Memories /\ pc[p] \in [Threads -> Steps] /\ loops[p] \in Nat
           /\ LockOK(memory[p], pc[p])
           /\ BridgeOK(p, memory[p], pc[p], loops[p])
           /\ p \notin live => AbsentOK(memory[p], pc[p], loops[p])
  BY DEF IInv, ProcessesTyped, ProcessesOK, ProcessOK

(* A thread that is not in the guarded section, before or after, moves on.   *)
LEMMA MoveKeeps ==
    ASSUME IInv, NEW p \in Pids, NEW t \in Threads, NEW step \in Steps, ProcessesTyped',
           live' = live, pc' = [pc EXCEPT ![p][t] = step], UNCHANGED <<memory, loops>>,
           pc[p][t] \notin {"retest", "set_pid", "unlock"},
           step \notin {"retest", "set_pid", "unlock"},
           step \in {"test_pid", "return"} => memory[p].bridge = "own",
           pc[p][t] # "idle" \/ p \in live
    PROVE  IInv'
  <1>0. pc[p] \in [Threads -> Steps] /\ pc'[p] = [pc[p] EXCEPT ![t] = step]
    BY OfProcess DEF IInv, ProcessesTyped
  <1>1. p \in live
    BY OfProcess DEF AbsentOK
  <1>2. LockOK(memory[p], pc'[p])
    BY <1>0, OfProcess DEF LockOK
  <1>3. BridgeOK(p, memory[p], pc'[p], loops[p])
    BY <1>0, OfProcess DEF BridgeOK
  <1>4. \A q \in Pids \ {p} : pc'[q] = pc[q]
    BY DEF IInv, ProcessesTyped
  <1>5. ProcessOK(p, p \in live, memory'[p], pc'[p], loops'[p])
    BY <1>1, <1>2, <1>3 DEF ProcessOK
  <1>6. QED
    BY <1>4, <1>5, OneProcess

LEMMA LockKeeps == ASSUME IInv, NEW p \in Pids, NEW t \in Threads, Lock(p, t) PROVE IInv'
  <1>0. /\ pc[p] \in [Threads -> Steps] /\ pc'[p] = [pc[p] EXCEPT ![t] = "retest"]
        /\ memory[p] \in Memories /\ memory'[p] = [memory[p] EXCEPT !.lock = HeldBy(t)]
        /\ loops'[p] = loops[p] /\ memory[p].lock = Free
    BY OfProcess DEF IInv, ProcessesTyped, Lock, Goto
  <1>1. p \in live
    BY OfProcess DEF AbsentOK, Lock
  <1>2. LockOK(memory'[p], pc'[p])
    BY <1>0, OfProcess DEF LockOK, Memories, HeldBy, Free, Orphan
  <1>3. BridgeOK(p, memory'[p], pc'[p], loops'[p])
    <2>1. memory'[p].bridge = memory[p].bridge /\ memory'[p].pid = memory[p].pid
      BY <1>0 DEF Memories
    <2>2. pc[p][t] = "lock"
      BY DEF Lock
    <2>3. QED
      BY <1>0, <2>1, <2>2, OfProcess DEF BridgeOK
  <1>4. ProcessOK(p, p \in live, memory'[p], pc'[p], loops'[p])
    BY <1>1, <1>2, <1>3 DEF ProcessOK
  <1>5. QED
    BY <1>4, OneProcess, StepTyped DEF IInv, Thread

(* Under the lock no other thread is between the assignments, so what has to *)
(* be built has not been.                                                    *)
LEMMA RetestKeeps == ASSUME IInv, NEW p \in Pids, NEW t \in Threads, Retest(p, t) PROVE IInv'
  <1>0. /\ pc[p] \in [Threads -> Steps] /\ pc[p][t] = "retest" /\ memory[p] \in Memories
    BY OfProcess DEF Retest
  <1>1. p \in live
    BY <1>0, OfProcess DEF AbsentOK
  <1>2. \A u \in Threads : u # t => pc[p][u] \notin {"retest", "set_pid", "unlock"}
    BY <1>0, OfProcess DEF LockOK, HeldBy
  <1>3. CASE NeedsBridge(p)
    <2>1. /\ pc'[p] = [pc[p] EXCEPT ![t] = "set_pid"]
          /\ memory'[p] = [memory[p] EXCEPT !.bridge = "own"]
          /\ loops'[p] = loops[p] + 1
      BY <1>3 DEF Retest, Goto, IInv, ProcessesTyped
    <2>2. /\ memory'[p].bridge = "own" /\ memory'[p].pid = memory[p].pid
          /\ memory'[p].lock = memory[p].lock
      BY <1>0, <2>1 DEF Memories
    <2>3. memory[p].bridge = "none" /\ loops[p] = 0
      BY <1>0, <1>2, <1>3, OfProcess DEF BridgeOK, NeedsBridge
    <2>4. LockOK(memory'[p], pc'[p])
      BY <1>0, <2>1, <2>2, OfProcess DEF LockOK
    <2>5. BridgeOK(p, memory'[p], pc'[p], loops'[p])
      BY <1>0, <2>1, <2>2, <2>3, OfProcess DEF BridgeOK
    <2>6. ProcessOK(p, p \in live, memory'[p], pc'[p], loops'[p])
      BY <1>1, <2>4, <2>5 DEF ProcessOK
    <2>7. QED
      BY <2>6, OneProcess, StepTyped DEF IInv, Thread
  <1>4. CASE ~NeedsBridge(p)
    <2>1. /\ pc'[p] = [pc[p] EXCEPT ![t] = "unlock"]
          /\ memory'[p] = memory[p] /\ loops'[p] = loops[p]
      BY <1>4 DEF Retest, Goto, IInv, ProcessesTyped
    <2>2. memory[p].bridge = "own" /\ memory[p].pid = p
      BY <1>4, OfProcess DEF BridgeOK, NeedsBridge
    <2>3. LockOK(memory'[p], pc'[p])
      BY <1>0, <2>1, OfProcess DEF LockOK
    <2>4. BridgeOK(p, memory'[p], pc'[p], loops'[p])
      BY <1>0, <2>1, <2>2, OfProcess DEF BridgeOK
    <2>5. ProcessOK(p, p \in live, memory'[p], pc'[p], loops'[p])
      BY <1>1, <2>3, <2>4 DEF ProcessOK
    <2>6. QED
      BY <2>5, OneProcess, StepTyped DEF IInv, Thread
  <1>5. QED
    BY <1>3, <1>4

LEMMA SetPidKeeps == ASSUME IInv, NEW p \in Pids, NEW t \in Threads, SetPid(p, t) PROVE IInv'
  <1>0. /\ pc[p] \in [Threads -> Steps] /\ pc[p][t] = "set_pid" /\ memory[p] \in Memories
        /\ pc'[p] = [pc[p] EXCEPT ![t] = "unlock"] /\ loops'[p] = loops[p]
        /\ memory'[p] = [memory[p] EXCEPT !.pid = p]
    BY OfProcess DEF SetPid, Goto, IInv, ProcessesTyped
  <1>1. p \in live
    BY <1>0, OfProcess DEF AbsentOK
  <1>2. /\ memory'[p].bridge = memory[p].bridge /\ memory'[p].pid = p
        /\ memory'[p].lock = memory[p].lock
    BY <1>0 DEF Memories
  <1>3. LockOK(memory'[p], pc'[p])
    BY <1>0, <1>2, OfProcess DEF LockOK
  <1>4. BridgeOK(p, memory'[p], pc'[p], loops'[p])
    BY <1>0, <1>2, OfProcess DEF BridgeOK
  <1>5. ProcessOK(p, p \in live, memory'[p], pc'[p], loops'[p])
    BY <1>1, <1>3, <1>4 DEF ProcessOK
  <1>6. QED
    BY <1>5, OneProcess, StepTyped DEF IInv, Thread

(* The thread that unlocks was the only one in the section.                  *)
LEMMA UnlockKeeps == ASSUME IInv, NEW p \in Pids, NEW t \in Threads, Unlock(p, t) PROVE IInv'
  <1>0. /\ pc[p] \in [Threads -> Steps] /\ pc[p][t] = "unlock" /\ memory[p] \in Memories
        /\ pc'[p] = [pc[p] EXCEPT ![t] = "return"] /\ loops'[p] = loops[p]
        /\ memory'[p] = [memory[p] EXCEPT !.lock = Free]
    BY OfProcess DEF Unlock, Goto, IInv, ProcessesTyped
  <1>1. p \in live
    BY <1>0, OfProcess DEF AbsentOK
  <1>2. /\ memory'[p].bridge = memory[p].bridge /\ memory'[p].pid = memory[p].pid
        /\ memory'[p].lock = Free
    BY <1>0 DEF Memories
  <1>3. \A u \in Threads : u # t => pc[p][u] \notin {"retest", "set_pid", "unlock"}
    BY <1>0, OfProcess DEF LockOK, HeldBy
  <1>4. LockOK(memory'[p], pc'[p])
    BY <1>0, <1>2, <1>3 DEF LockOK, Free, Orphan, HeldBy
  <1>5. BridgeOK(p, memory'[p], pc'[p], loops'[p])
    BY <1>0, <1>2, OfProcess DEF BridgeOK
  <1>6. ProcessOK(p, p \in live, memory'[p], pc'[p], loops'[p])
    BY <1>1, <1>4, <1>5 DEF ProcessOK
  <1>7. QED
    BY <1>6, OneProcess, StepTyped DEF IInv, Thread

LEMMA StepKeeps ==
    ASSUME IInv, NEW p \in Pids, NEW t \in Threads, Arrive(p, t) \/ Thread(p, t)
    PROVE  IInv'
  <1>0. ProcessesTyped' /\ live' = live
    BY StepTyped DEF IInv
  <1>1. CASE Arrive(p, t)
    BY <1>0, <1>1, MoveKeeps DEF Arrive, Goto, Steps
  <1>2. CASE Test(p, t)
    <2>1. memory[p].bridge # "none" => memory[p].bridge = "own"
      BY OfProcess DEF BridgeOK
    <2>2. CASE memory[p].bridge # "none"
      BY <1>0, <1>2, <2>1, <2>2, MoveKeeps DEF Test, Goto, Steps
    <2>3. CASE memory[p].bridge = "none"
      BY <1>0, <1>2, <2>3, MoveKeeps DEF Test, Goto, Steps
    <2>4. QED
      BY <2>2, <2>3
  <1>3. CASE TestPid(p, t)
    <2>1. memory[p].pid = p => memory[p].bridge = "own"
      BY OfProcess DEF BridgeOK
    <2>2. CASE memory[p].pid = p
      BY <1>0, <1>3, <2>1, <2>2, MoveKeeps DEF TestPid, Goto, Steps
    <2>3. CASE memory[p].pid # p
      BY <1>0, <1>3, <2>3, MoveKeeps DEF TestPid, Goto, Steps
    <2>4. QED
      BY <2>2, <2>3
  <1>4. CASE Login(p, t) \/ ServeOther(p, t)
    BY <1>0, <1>4, MoveKeeps DEF Login, ServeOther, Answers, Goto, Steps
  <1>5. QED
    BY <1>1, <1>2, <1>3, <1>4, LockKeeps, RetestKeeps, SetPidKeeps, UnlockKeeps DEF Thread

LEMMA NextIInv == IInv /\ [Next]_vars => IInv'
  <1> SUFFICES ASSUME IInv, [Next]_vars PROVE IInv'
    OBVIOUS
  <1>1. ASSUME Tick \/ UNCHANGED vars PROVE IInv'
    <2>1. UNCHANGED <<live, memory, loops, pc, client>>
      BY <1>1 DEF Tick, vars, serving
    <2>2. QED
      BY <2>1 DEF IInv, ProcessesTyped, ProcessesOK
  <1>2. QED
    BY <1>1, ForkKeeps, StopKeeps, StepKeeps DEF Next

-----------------------------------------------------------------------------
(* The limiter's sequences.                                                  *)

(* The loop that drops the oldest hits ends.                                 *)
LEMMA OldestExists ==
    ASSUME NEW seq \in Seq(0..Late)
    PROVE  /\ Oldest(seq) \in 1..Len(seq) + 1
           /\ \A i \in 1..Oldest(seq) - 1 : seq[i] > Window
           /\ Oldest(seq) <= Len(seq) => seq[Oldest(seq)] <= Window
  <1> DEFINE Stops == {n \in 1..Len(seq) + 1 : n <= Len(seq) => seq[n] <= Window}
  <1>0. Len(seq) \in Nat
    OBVIOUS
  <1>1. Stops \subseteq Nat /\ Stops # {}
    <2>1. Len(seq) + 1 \in Stops
      BY <1>0
    <2>2. QED
      BY <1>0, <2>1
  <1>2. PICK n \in Stops : \A m \in Stops : ~(<<m, n>> \in OpToRel(<, Nat))
    BY <1>1, WFMin, NatLessThanWellFounded
  <1>3. \A i \in 1..n - 1 : i \notin Stops
    <2>1. \A i, j \in Nat : i < j => <<i, j>> \in OpToRel(<, Nat)
      BY DEF OpToRel
    <2>2. n \in Nat /\ \A i \in 1..n - 1 : i \in Nat /\ i < n
      BY <1>0
    <2>3. QED
      BY <1>2, <2>1, <2>2
  <1>4. \A i \in 1..n - 1 : seq[i] > Window
    <2> SUFFICES ASSUME NEW i \in 1..n - 1 PROVE seq[i] > Window
      OBVIOUS
    <2>1. n \in 1..Len(seq) + 1
      OBVIOUS
    <2>2. i \in 1..Len(seq)
      BY <1>0, <2>1
    <2>3. seq[i] \in 0..Late
      BY <2>2, ElementOfSeq
    <2>4. QED
      BY <1>0, <1>3, <2>2, <2>3 DEF Late
  <1>5. QED
    BY <1>4 DEF Oldest

LEMMA WithinTyped ==
    ASSUME NEW seq \in Seq(0..Late)
    PROVE  Within(seq) \in Seq(0..Late)
  <1>1. Oldest(seq) \in 1..Len(seq) + 1
    BY OldestExists
  <1>0. Len(seq) \in Nat /\ Oldest(seq) \in Int
    BY <1>1
  <1>2. \A i \in Oldest(seq)..Len(seq) : seq[i] \in 0..Late
    <2>1. \A i \in Oldest(seq)..Len(seq) : i \in 1..Len(seq)
      BY <1>0, <1>1
    <2>2. QED
      BY <2>1, ElementOfSeq
  <1>3. QED
    BY <1>0, <1>2, SubSeqProperties DEF Within

LEMMA OlderTyped ==
    ASSUME NEW seq \in Seq(0..Late)
    PROVE  Older(seq) \in Seq(0..Late)
  <1>1. \A i \in 1..Len(seq) : (IF seq[i] < Late THEN seq[i] + 1 ELSE Late) \in 0..Late
    BY DEF Late
  <1>2. Len(seq) \in Nat
    OBVIOUS
  <1>3. QED
    BY <1>1, <1>2, IsASeq DEF Older

LEMMA NoLogins == {} \in Logins /\ Matches(<<>>, {}) /\ Cardinality({}) <= MaxHits
  <1>1. Len(<<>>) = 0 /\ Recorded(<<>>) = {}
    BY DEF Recorded
  <1>2. Pairing([i \in {} |-> i], <<>>, {})
    BY <1>1 DEF Pairing
  <1>3. Now({}) = {}
    BY DEF Now
  <1>4. QED
    BY <1>1, <1>2, <1>3, FS_EmptySet DEF Logins, Matches

(* As many logins as hits that are not too old.                              *)
LEMMA MatchesCounts ==
    ASSUME NEW seq \in Seq(0..Late), NEW logins \in Logins, Matches(seq, logins)
    PROVE  /\ IsFiniteSet(logins)
           /\ Cardinality(logins) = Cardinality(Recorded(seq))
           /\ IsFiniteSet(Now(logins)) /\ Cardinality(Now(logins)) \in Nat
  <1>1. PICK f : Pairing(f, seq, logins)
    BY DEF Matches
  <1>2. f \in Bijection(Recorded(seq), logins)
    BY <1>1, Fun_IsBij DEF Pairing
  <1>3. IsFiniteSet(Recorded(seq))
    <2>1. Len(seq) \in Nat
      OBVIOUS
    <2>2. IsFiniteSet(1..Len(seq)) /\ Recorded(seq) \in SUBSET (1..Len(seq))
      BY <2>1, FS_Interval DEF Recorded
    <2>3. QED
      BY <2>2, FS_Subset
  <1>4. IsFiniteSet(logins) /\ Cardinality(logins) = Cardinality(Recorded(seq))
    BY <1>2, <1>3, FS_Bijection DEF ExistsBijection
  <1>5. Now(logins) \in SUBSET logins
    BY DEF Now
  <1>6. QED
    BY <1>4, <1>5, FS_Subset, FS_CardinalityType

(* What Within keeps: the hits from the oldest that is not too old, and all  *)
(* of them are not, as the deque is in order.                                *)
LEMMA WithinKeeps ==
    ASSUME NEW seq \in Seq(0..Late), NEW logins \in Logins, Matches(seq, logins)
    PROVE  /\ Matches(Within(seq), logins)
           /\ Recorded(Within(seq)) = 1..Len(Within(seq))
  <1> DEFINE o == Oldest(seq)
             n == Len(seq)
             w == Within(seq)
  <1>1. n \in Nat /\ o \in 1..n + 1 /\ w \in Seq(0..Late)
    BY OldestExists, WithinTyped
  <1>2. /\ \A i \in 1..o - 1 : seq[i] > Window
        /\ o <= n => seq[o] <= Window
    BY OldestExists
  <1>3. \A i \in 1..n : seq[i] \in 0..Late
    BY ElementOfSeq
  <1>4. \A i, j \in 1..n : i < j => seq[i] >= seq[j]
    BY DEF Matches
  <1>5. /\ Len(w) = IF o <= n THEN n - o + 1 ELSE 0
        /\ \A i \in 1..n - o + 1 : w[i] = seq[o + i - 1]
    <2>1. \A i \in o..n : i \in 1..n
      BY <1>1
    <2>2. \A i \in o..n : seq[i] \in 0..Late
      BY <1>3, <2>1
    <2>3. o \in Int /\ n \in Int
      BY <1>1
    <2> HIDE DEF o, n
    <2>4. QED
      BY <2>2, <2>3, SubSeqProperties DEF Within, o, n, w
  <1>6. Len(w) = n - o + 1 /\ Len(w) \in Nat
    BY <1>1, <1>5
  <1> HIDE DEF o, n, w
  <1>7. \A i \in 1..n : i \in o..n => seq[i] <= Window
    BY <1>1, <1>2, <1>3, <1>4 DEF Late
  <1>8. Recorded(seq) = o..n
    <2>1. Recorded(seq) = {i \in 1..n : seq[i] <= Window}
      BY DEF Recorded, n
    <2>2. ASSUME NEW i \in 1..n, seq[i] <= Window PROVE i \in o..n
      <3>1. i \notin 1..o - 1
        BY <1>2, <1>3, <2>2 DEF Late
      <3>2. QED
        BY <1>1, <3>1
    <2>3. \A i \in o..n : i \in 1..n
      BY <1>1
    <2>4. QED
      BY <1>7, <2>1, <2>2, <2>3
  <1>9. \A i \in 1..Len(w) : o + i - 1 \in o..n /\ o + i - 1 \in 1..n /\ w[i] = seq[o + i - 1]
    BY <1>1, <1>5, <1>6
  <1>10. Recorded(w) = 1..Len(w)
    BY <1>7, <1>9 DEF Recorded
  <1>11. \A i, j \in 1..Len(w) : i < j => w[i] >= w[j]
    <2> SUFFICES ASSUME NEW i \in 1..Len(w), NEW j \in 1..Len(w), i < j PROVE w[i] >= w[j]
      OBVIOUS
    <2>1. o + i - 1 < o + j - 1
      BY <1>1, <1>6
    <2>2. QED
      BY <1>4, <1>9, <2>1
  <1>12. \E g : Pairing(g, w, logins)
    <2>1. PICK f : Pairing(f, seq, logins)
      BY DEF Matches
    <2> DEFINE g == [i \in 1..Len(w) |-> f[o + i - 1]]
    <2>2. g \in [1..Len(w) -> logins]
      BY <1>8, <1>9, <2>1 DEF Pairing
    <2>3. ASSUME NEW i \in 1..Len(w), NEW j \in 1..Len(w), g[i] = g[j] PROVE i = j
      <3>1. f[o + i - 1] = f[o + j - 1]
        BY <2>3
      <3>2. o + i - 1 = o + j - 1
        BY <1>8, <1>9, <2>1, <3>1 DEF Pairing
      <3>3. QED
        BY <1>1, <1>6, <3>2
    <2>4. ASSUME NEW x \in logins PROVE \E i \in 1..Len(w) : g[i] = x
      <3>1. PICK j \in o..n : f[j] = x
        BY <1>8, <2>1 DEF Pairing
      <3>2. j - o + 1 \in 1..Len(w) /\ o + (j - o + 1) - 1 = j
        BY <1>1, <1>6
      <3>3. g[j - o + 1] = x
        BY <3>1, <3>2
      <3>4. QED
        BY <3>2, <3>3
    <2>5. \A i \in 1..Len(w) : g[i][1] = w[i]
      BY <1>8, <1>9, <2>1 DEF Pairing
    <2> HIDE DEF g
    <2>6. QED
      BY <1>10, <2>2, <2>3, <2>4, <2>5 DEF Pairing
  <1>13. QED
    BY <1>10, <1>11, <1>12 DEF Matches, w

(* A window is as long as the logins are many.                               *)
LEMMA WithinCounts ==
    ASSUME NEW seq \in Seq(0..Late), NEW logins \in Logins, Matches(seq, logins)
    PROVE  Len(Within(seq)) = Cardinality(logins)
  <1>1. Within(seq) \in Seq(0..Late)
    BY WithinTyped
  <1>2. Len(Within(seq)) \in Nat
    BY <1>1
  <1>3. \A n \in Nat : Cardinality(1..n) = n
    <2> SUFFICES ASSUME NEW n \in Nat PROVE Cardinality(1..n) = n
      OBVIOUS
    <2>1. Cardinality(1..n) = IF 1 > n THEN 0 ELSE n - 1 + 1
      BY FS_Interval
    <2>2. QED
      BY <2>1
  <1>4. QED
    BY <1>1, <1>2, <1>3, WithinKeeps, MatchesCounts

(* One more hit and one more login: its number is new among those of now.    *)
LEMMA OneMoreKeeps ==
    ASSUME NEW seq \in Seq(0..Late), NEW logins \in Logins, Matches(seq, logins),
           Recorded(seq) = 1..Len(seq)
    PROVE  /\ Append(seq, 0) \in Seq(0..Late) /\ OneMore(logins) \in Logins
           /\ Matches(Append(seq, 0), OneMore(logins))
           /\ Cardinality(OneMore(logins)) = Cardinality(logins) + 1
           /\ OneMore(logins) # logins
  <1> DEFINE c == Cardinality(Now(logins))
             new == <<0, c + 1>>
             n == Len(seq)
             more == Append(seq, 0)
  <1>1. /\ IsFiniteSet(logins) /\ IsFiniteSet(Now(logins)) /\ c \in Nat
        /\ n \in Nat /\ 0 \in 0..Late
    BY MatchesCounts DEF Late
  <1>2. new \notin logins
    <2>1. new \in logins => new \in Now(logins)
      BY DEF Now
    <2>2. new \in Now(logins) => c + 1 \in 1..c
      BY DEF Matches
    <2>3. c + 1 \notin 1..c
      BY <1>1
    <2>4. QED
      BY <2>1, <2>2, <2>3
  <1>3. /\ more \in Seq(0..Late) /\ Len(more) = n + 1 /\ more[n + 1] = 0
        /\ \A i \in 1..n : more[i] = seq[i]
    BY <1>1, AppendProperties
  <1>4. OneMore(logins) = logins \union {new}
    BY DEF OneMore
  <1>5. OneMore(logins) \in Logins
    BY <1>1, <1>4 DEF Logins
  <1>6. Now(OneMore(logins)) = Now(logins) \union {new}
    BY <1>4 DEF Now
  <1>7. Cardinality(Now(OneMore(logins))) = c + 1
    <2>1. new \notin Now(logins)
      BY <1>2 DEF Now
    <2>2. QED
      BY <1>1, <1>6, <2>1, FS_AddElement
  <1>8. Cardinality(OneMore(logins)) = Cardinality(logins) + 1
    BY <1>1, <1>2, <1>4, FS_AddElement
  <1>9. \A x \in Now(OneMore(logins)) : x[2] \in 1..c + 1
    <2>1. \A x \in Now(logins) : x[2] \in 1..c
      BY DEF Matches
    <2>2. new[2] = c + 1
      OBVIOUS
    <2>3. c + 1 \in 1..c + 1 /\ \A i \in 1..c : i \in 1..c + 1
      BY <1>1
    <2> HIDE DEF new, c
    <2>4. QED
      BY <1>6, <2>1, <2>2, <2>3
  <1> HIDE DEF n, more
  <1>10. \A i \in 1..n + 1 : i \in 1..n \/ i = n + 1
    BY <1>1
  <1>11. \A i, j \in 1..n + 1 : i < j => more[i] >= more[j]
    <2> SUFFICES ASSUME NEW i \in 1..n + 1, NEW j \in 1..n + 1, i < j PROVE more[i] >= more[j]
      OBVIOUS
    <2>1. i \in 1..n
      BY <1>1
    <2>2. more[i] = seq[i] /\ seq[i] \in 0..Late
      BY <1>3, <2>1, ElementOfSeq DEF n
    <2>3. CASE j = n + 1
      BY <1>3, <2>2, <2>3 DEF Late
    <2>4. CASE j \in 1..n
      <3>1. seq[i] >= seq[j]
        BY <2>1, <2>4 DEF Matches, n
      <3>2. QED
        BY <1>3, <2>2, <2>4, <3>1
    <2>5. QED
      BY <1>10, <2>3, <2>4
  <1>12. Recorded(more) = 1..n + 1
    <2>1. \A i \in 1..n : seq[i] <= Window
      BY DEF Recorded, n
    <2>2. \A i \in 1..n + 1 : more[i] <= Window
      BY <1>3, <1>10, <2>1
    <2>3. QED
      BY <1>3, <2>2 DEF Recorded
  <1>13. \E g : Pairing(g, more, OneMore(logins))
    <2>1. PICK f : Pairing(f, seq, logins)
      BY DEF Matches
    <2>2. /\ f \in [1..n -> logins]
          /\ \A i, j \in 1..n : f[i] = f[j] => i = j
          /\ \A x \in logins : \E i \in 1..n : f[i] = x
          /\ \A i \in 1..n : f[i][1] = seq[i]
      BY <2>1 DEF Pairing, n
    <2> DEFINE g == [i \in 1..n + 1 |-> IF i = n + 1 THEN new ELSE f[i]]
    <2>3. \A i \in 1..n : g[i] = f[i] /\ g[i] \in logins
      BY <1>1, <2>2
    <2>4. g[n + 1] = new
      BY <1>1
    <2>5. \A i \in 1..n : i \in 1..n + 1 /\ n + 1 \in 1..n + 1
      BY <1>1
    <2>6. DOMAIN g = 1..n + 1 /\ g = [i \in 1..n + 1 |-> g[i]]
      OBVIOUS
    <2>7. n + 1 \in 1..n + 1
      BY <1>1
    <2>8. new[1] = 0
      OBVIOUS
    <2> HIDE DEF g, new
    <2>9. g \in [1..n + 1 -> OneMore(logins)]
      BY <1>4, <1>10, <2>3, <2>4, <2>6
    <2>10. \A i, j \in 1..n + 1 : g[i] = g[j] => i = j
      BY <1>2, <1>10, <2>2, <2>3, <2>4
    <2>11. ASSUME NEW x \in OneMore(logins) PROVE \E i \in 1..n + 1 : g[i] = x
      BY <1>4, <2>2, <2>3, <2>4, <2>5, <2>7
    <2>12. \A i \in 1..n + 1 : g[i][1] = more[i]
      BY <1>3, <1>10, <2>2, <2>3, <2>4, <2>8
    <2>13. Pairing(g, more, OneMore(logins))
      BY <1>12, <2>9, <2>10, <2>11, <2>12 DEF Pairing
    <2>14. QED
      BY <2>13
  <1>14. Matches(more, OneMore(logins))
    BY <1>3, <1>7, <1>9, <1>11, <1>13 DEF Matches
  <1>15. OneMore(logins) # logins
    BY <1>2, <1>4
  <1>16. QED
    BY <1>3, <1>5, <1>8, <1>14, <1>15 DEF more

(* Time passes for the hits and the logins alike: those at the end of the    *)
(* window leave both.                                                        *)
LEMMA AgedKeeps ==
    ASSUME NEW seq \in Seq(0..Late), NEW logins \in Logins, Matches(seq, logins)
    PROVE  /\ Older(seq) \in Seq(0..Late) /\ Aged(logins) \in Logins
           /\ Matches(Older(seq), Aged(logins))
           /\ Cardinality(Aged(logins)) <= Cardinality(logins)
  <1> DEFINE n == Len(seq)
             old == Older(seq)
             young == {i \in 1..n : seq[i] < Window}
             left == {x \in logins : x[1] < Window}
  <1>1. /\ n \in Nat /\ old \in Seq(0..Late) /\ Len(old) = n
        /\ \A i \in 1..n : old[i] = IF seq[i] < Late THEN seq[i] + 1 ELSE Late
    <2>1. n \in Nat
      OBVIOUS
    <2>2. old \in Seq(0..Late)
      BY OlderTyped
    <2>3. DOMAIN old = 1..n
      BY DEF Older
    <2>4. DOMAIN old = 1..Len(old) /\ Len(old) \in Nat
      BY <2>2, LenProperties
    <2>5. Len(old) = n
      <3> HIDE DEF old, n
      <3>1. QED
        BY <2>1, <2>3, <2>4
    <2>6. QED
      BY <2>1, <2>2, <2>5 DEF Older
  <1>2. \A i \in 1..n : seq[i] \in 0..Late
    BY ElementOfSeq
  <1>3. \A i, j \in 1..n : i < j => seq[i] >= seq[j]
    BY DEF Matches
  <1>4. \A x \in logins : /\ x[1] \in 0..Window /\ x[2] \in Nat
                         /\ x = <<x[1], x[2]>>
    BY DEF Logins
  <1>5. Aged(logins) = {<<x[1] + 1, x[2]>> : x \in left}
    BY DEF Aged
  <1>6. Aged(logins) \in Logins
    BY <1>4, <1>5 DEF Logins
  <1>7. Now(Aged(logins)) = {}
    BY <1>4, <1>5 DEF Now
  <1>8. \A x, y \in left : <<x[1] + 1, x[2]>> = <<y[1] + 1, y[2]>> => x = y
    BY <1>4
  <1> HIDE DEF n, old
  <1>9. \A i, j \in 1..n : i < j => old[i] >= old[j]
    <2> SUFFICES ASSUME NEW i \in 1..n, NEW j \in 1..n, i < j PROVE old[i] >= old[j]
      OBVIOUS
    <2>1. seq[i] \in 0..Late /\ seq[j] \in 0..Late /\ seq[i] >= seq[j]
      BY <1>2, <1>3
    <2>2. /\ old[i] = IF seq[i] < Late THEN seq[i] + 1 ELSE Late
          /\ old[j] = IF seq[j] < Late THEN seq[j] + 1 ELSE Late
      BY <1>1
    <2>3. \A a, b \in 0..Late : a >= b =>
              (IF a < Late THEN a + 1 ELSE Late) >= (IF b < Late THEN b + 1 ELSE Late)
      BY DEF Late
    <2>4. QED
      BY <2>1, <2>2, <2>3
  <1>10. Recorded(old) = young
    BY <1>1, <1>2 DEF Recorded, Late
  <1>11. young \subseteq Recorded(seq)
    BY <1>2 DEF Recorded, n, Late
  <1>12. PICK f : Pairing(f, seq, logins)
    BY DEF Matches
  <1>13. /\ \A i \in young : f[i] \in left
         /\ \A i, j \in young : f[i] = f[j] => i = j
         /\ \A x \in left : \E i \in young : f[i] = x
         /\ \A i \in young : f[i][1] = seq[i]
    <2>1. /\ f \in [Recorded(seq) -> logins]
          /\ \A i, j \in Recorded(seq) : f[i] = f[j] => i = j
          /\ \A x \in logins : \E i \in Recorded(seq) : f[i] = x
          /\ \A i \in Recorded(seq) : f[i][1] = seq[i]
      BY <1>12 DEF Pairing
    <2>2. \A i \in Recorded(seq) : i \in 1..n
      BY DEF Recorded, n
    <2>3. QED
      BY <1>11, <2>1, <2>2
  <1> DEFINE g == [i \in young |-> <<f[i][1] + 1, f[i][2]>>]
  <1>14. Pairing(g, old, Aged(logins))
    <2>1. g \in [young -> Aged(logins)]
      BY <1>5, <1>13
    <2>2. ASSUME NEW i \in young, NEW j \in young, g[i] = g[j] PROVE i = j
      <3>1. f[i] = f[j]
        BY <1>8, <1>13, <2>2
      <3>2. QED
        BY <1>13, <3>1
    <2>3. ASSUME NEW y \in Aged(logins) PROVE \E i \in young : g[i] = y
      <3>1. PICK x \in left : y = <<x[1] + 1, x[2]>>
        BY <1>5
      <3>2. PICK i \in young : f[i] = x
        BY <1>13
      <3>3. QED
        BY <3>1, <3>2
    <2>4. ASSUME NEW i \in young PROVE g[i][1] = old[i]
      <3>1. g[i][1] = f[i][1] + 1
        OBVIOUS
      <3>2. i \in 1..n /\ seq[i] < Window
        OBVIOUS
      <3>3. QED
        BY <1>1, <1>2, <1>13, <3>1, <3>2 DEF Late
    <2> HIDE DEF g
    <2>5. QED
      BY <1>10, <2>1, <2>2, <2>3, <2>4 DEF Pairing
  <1>15. Matches(old, Aged(logins))
    BY <1>1, <1>7, <1>9, <1>14 DEF Matches
  <1>16. Cardinality(Aged(logins)) <= Cardinality(logins)
    <2>1. IsFiniteSet(logins) /\ IsFiniteSet(left) /\ Cardinality(left) <= Cardinality(logins)
      <3>1. IsFiniteSet(logins) /\ left \in SUBSET logins
        BY MatchesCounts
      <3>2. QED
        BY <3>1, FS_Subset
    <2> DEFINE h == [x \in left |-> <<x[1] + 1, x[2]>>]
    <2>2. h \in Bijection(left, Aged(logins))
      <3>1. h \in [left -> Aged(logins)]
        BY <1>5
      <3>2. \A x, y \in left : h[x] = h[y] => x = y
        BY <1>8
      <3>3. \A y \in Aged(logins) : \E x \in left : h[x] = y
        BY <1>5
      <3> HIDE DEF h
      <3>4. QED
        BY <3>1, <3>2, <3>3, Fun_IsBij
    <2>3. Cardinality(Aged(logins)) = Cardinality(left)
      BY <2>1, <2>2, FS_Bijection DEF ExistsBijection
    <2>4. QED
      BY <2>1, <2>3
  <1>17. QED
    BY <1>1, <1>6, <1>15, <1>16 DEF old

-----------------------------------------------------------------------------
(* The limiter's invariant, step by step.                                    *)

(* What one check does, to the deque and to what is promised.                *)
LEMMA CheckOne ==
    ASSUME NEW seq, NEW logins, ClientOK(seq, logins)
    PROVE  /\ ClientOK(Within(seq), logins)
           /\ Len(Within(seq)) >= MaxHits => Cardinality(logins) = MaxHits
           /\ Len(Within(seq)) < MaxHits =>
                /\ ClientOK(Append(Within(seq), 0), OneMore(logins))
                /\ OneMore(logins) # logins
  <1> USE DEF ClientOK
  <1>1. Within(seq) \in Seq(0..Late)
    BY WithinTyped
  <1>2. /\ Matches(Within(seq), logins) /\ Recorded(Within(seq)) = 1..Len(Within(seq))
        /\ Len(Within(seq)) = Cardinality(logins)
    BY WithinKeeps, WithinCounts
  <1>3. Cardinality(logins) \in Nat
    BY MatchesCounts, FS_CardinalityType
  <1>4. /\ Append(Within(seq), 0) \in Seq(0..Late) /\ OneMore(logins) \in Logins
        /\ Matches(Append(Within(seq), 0), OneMore(logins))
        /\ Cardinality(OneMore(logins)) = Cardinality(logins) + 1
        /\ OneMore(logins) # logins
    BY <1>1, <1>2, OneMoreKeeps
  <1>5. QED
    BY <1>1, <1>2, <1>3, <1>4

LEMMA CheckKeeps ==
    ASSUME LimiterIInv, NEW p \in Pids, NEW k \in Clients, Check(p, k)
    PROVE  LimiterIInv'
  <1> DEFINE window == Within(hits[p][k])
             logins == recent[p][k]
  <1>1. /\ ClientOK(hits[p][k], logins) /\ ClientOK(window, logins)
        /\ Len(window) < MaxHits => ClientOK(Append(window, 0), OneMore(logins))
    BY CheckOne DEF LimiterIInv
  <1>2. PICK seq, more : /\ ClientOK(seq, more)
                         /\ hits' = [hits EXCEPT ![p][k] = seq]
                         /\ recent' = [recent EXCEPT ![p][k] = more]
    <2>1. CASE Len(window) >= MaxHits
      <3>1. hits' = [hits EXCEPT ![p][k] = window] /\ recent' = recent
        BY <2>1 DEF Check
      <3>2. recent = [recent EXCEPT ![p][k] = logins]
        BY DEF LimiterIInv
      <3> HIDE DEF window, logins
      <3>3. QED
        BY <1>1, <3>1, <3>2
    <2>2. CASE ~(Len(window) >= MaxHits)
      <3>1. /\ hits' = [hits EXCEPT ![p][k] = Append(window, 0)]
            /\ recent' = [recent EXCEPT ![p][k] = OneMore(logins)]
        BY <2>2 DEF Check
      <3>2. Len(window) \in Nat
        <4>1. window \in Seq(0..Late)
          BY <1>1 DEF ClientOK
        <4> HIDE DEF window
        <4>2. QED
          BY <4>1
      <3>3. Len(window) < MaxHits
        <4> HIDE DEF window
        <4>1. QED
          BY <2>2, <3>2
      <3>4. ClientOK(Append(window, 0), OneMore(logins))
        BY <1>1, <3>3
      <3> HIDE DEF window, logins
      <3>5. QED
        BY <3>1, <3>4
    <2>3. QED
      BY <2>1, <2>2
  <1> HIDE DEF window, logins
  <1>3. seq \in Seq(0..Late) /\ more \in Logins
    BY <1>2 DEF ClientOK
  <1>4. hits \in [Pids -> [Clients -> Seq(0..Late)]] /\ recent \in [Pids -> [Clients -> Logins]]
    BY DEF LimiterIInv
  <1>5. hits' \in [Pids -> [Clients -> Seq(0..Late)]] /\ recent' \in [Pids -> [Clients -> Logins]]
    BY <1>2, <1>3, <1>4
  <1>6. ASSUME NEW q \in Pids, NEW l \in Clients PROVE ClientOK(hits'[q][l], recent'[q][l])
    <2>1. CASE q = p /\ l = k
      BY <1>2, <1>4, <2>1
    <2>2. CASE ~(q = p /\ l = k)
      <3>1. hits'[q][l] = hits[q][l] /\ recent'[q][l] = recent[q][l]
        BY <1>2, <1>4, <2>2
      <3>2. QED
        BY <3>1 DEF LimiterIInv
    <2>3. QED
      BY <2>1, <2>2
  <1>7. QED
    BY <1>5, <1>6 DEF LimiterIInv

(* A fork copies the deques, and what they stand for, with the memory.       *)
LEMMA ForkKeepsLimiter ==
    ASSUME LimiterIInv, NEW p \in Pids, NEW q \in Pids, Fork(p, q)
    PROVE  LimiterIInv'
  <1>1. hits \in [Pids -> [Clients -> Seq(0..Late)]] /\ recent \in [Pids -> [Clients -> Logins]]
    BY DEF LimiterIInv
  <1>2. hits' = [hits EXCEPT ![q] = hits[p]] /\ recent' = [recent EXCEPT ![q] = recent[p]]
    BY DEF Fork
  <1>3. hits' \in [Pids -> [Clients -> Seq(0..Late)]] /\ recent' \in [Pids -> [Clients -> Logins]]
    BY <1>1, <1>2
  <1>4. ASSUME NEW r \in Pids, NEW k \in Clients PROVE ClientOK(hits'[r][k], recent'[r][k])
    <2>1. \/ hits'[r] = hits[r] /\ recent'[r] = recent[r]
          \/ hits'[r] = hits[p] /\ recent'[r] = recent[p]
      BY <1>1, <1>2
    <2>2. QED
      BY <2>1 DEF LimiterIInv
  <1>5. QED
    BY <1>3, <1>4 DEF LimiterIInv

LEMMA StopKeepsLimiter ==
    ASSUME LimiterIInv, NEW p \in Pids, Stop(p)
    PROVE  LimiterIInv'
  <1>1. hits \in [Pids -> [Clients -> Seq(0..Late)]] /\ recent \in [Pids -> [Clients -> Logins]]
    BY DEF LimiterIInv
  <1>2. /\ hits' = [hits EXCEPT ![p] = [k \in Clients |-> <<>>]]
        /\ recent' = [recent EXCEPT ![p] = [k \in Clients |-> {}]]
    BY DEF Stop
  <1>3. ClientOK(<<>>, {}) /\ <<>> \in Seq(0..Late) /\ {} \in Logins
    BY NoLogins, EmptySeq DEF ClientOK
  <1>4. hits' \in [Pids -> [Clients -> Seq(0..Late)]] /\ recent' \in [Pids -> [Clients -> Logins]]
    BY <1>1, <1>2, <1>3
  <1>5. ASSUME NEW q \in Pids, NEW k \in Clients PROVE ClientOK(hits'[q][k], recent'[q][k])
    <2>1. CASE q = p
      <3>1. hits'[q][k] = <<>> /\ recent'[q][k] = {}
        BY <1>1, <1>2, <2>1
      <3>2. QED
        BY <1>3, <3>1
    <2>2. CASE q # p
      BY <1>1, <1>2, <2>2 DEF LimiterIInv
    <2>3. QED
      BY <2>1, <2>2
  <1>6. QED
    BY <1>4, <1>5 DEF LimiterIInv

LEMMA TickKeepsLimiter == ASSUME LimiterIInv, Tick PROVE LimiterIInv'
  <1>1. ASSUME NEW p \in Pids, NEW k \in Clients
        PROVE  ClientOK(Older(hits[p][k]), Aged(recent[p][k]))
    <2> DEFINE seq == hits[p][k]
               logins == recent[p][k]
    <2>1. ClientOK(seq, logins)
      BY DEF LimiterIInv
    <2>2. /\ Older(seq) \in Seq(0..Late) /\ Aged(logins) \in Logins
          /\ Matches(Older(seq), Aged(logins))
          /\ Cardinality(Aged(logins)) <= Cardinality(logins)
          /\ IsFiniteSet(logins) /\ Cardinality(logins) \in Nat
          /\ Cardinality(Aged(logins)) \in Nat
      <3> HIDE DEF seq, logins
      <3>1. /\ Older(seq) \in Seq(0..Late) /\ Aged(logins) \in Logins
            /\ Matches(Older(seq), Aged(logins))
            /\ Cardinality(Aged(logins)) <= Cardinality(logins)
        BY <2>1, AgedKeeps DEF ClientOK
      <3>2. IsFiniteSet(logins) /\ IsFiniteSet(Aged(logins))
        BY <2>1, <3>1, MatchesCounts DEF ClientOK
      <3>3. QED
        BY <3>1, <3>2, FS_CardinalityType
    <2> HIDE DEF seq, logins
    <2>3. ClientOK(Older(seq), Aged(logins))
      BY <2>1, <2>2 DEF ClientOK
    <2>4. QED
      BY <2>3 DEF seq, logins
  <1>2. \A p \in Pids, k \in Clients :
            Older(hits[p][k]) \in Seq(0..Late) /\ Aged(recent[p][k]) \in Logins
    BY <1>1 DEF ClientOK
  <1>3. /\ hits' = [p \in Pids |-> [k \in Clients |-> Older(hits[p][k])]]
        /\ recent' = [p \in Pids |-> [k \in Clients |-> Aged(recent[p][k])]]
    BY DEF Tick
  <1>4. hits' \in [Pids -> [Clients -> Seq(0..Late)]] /\ recent' \in [Pids -> [Clients -> Logins]]
    BY <1>2, <1>3
  <1>5. \A p \in Pids, k \in Clients : ClientOK(hits'[p][k], recent'[p][k])
    BY <1>1, <1>3
  <1>6. QED
    BY <1>4, <1>5 DEF LimiterIInv

LEMMA InitLimiter == Init => LimiterIInv
  <1> SUFFICES ASSUME Init PROVE LimiterIInv
    OBVIOUS
  <1>1. ClientOK(<<>>, {}) /\ <<>> \in Seq(0..Late) /\ {} \in Logins
    BY NoLogins, EmptySeq DEF ClientOK
  <1>2. /\ hits = [p \in Pids |-> [k \in Clients |-> <<>>]]
        /\ recent = [p \in Pids |-> [k \in Clients |-> {}]]
    BY DEF Init
  <1>3. hits \in [Pids -> [Clients -> Seq(0..Late)]] /\ recent \in [Pids -> [Clients -> Logins]]
    BY <1>1, <1>2
  <1>4. \A p \in Pids, k \in Clients : ClientOK(hits[p][k], recent[p][k])
    BY <1>1, <1>2
  <1>5. QED
    BY <1>3, <1>4 DEF LimiterIInv

(* Of a thread's steps only a login touches the limiter.                     *)
LEMMA NotLogin ==
    ASSUME NEW p \in Pids, NEW t \in Threads, Arrive(p, t) \/ Thread(p, t), ~Login(p, t)
    PROVE  UNCHANGED <<hits, recent>>
  BY DEF Thread, Arrive, Test, TestPid, Lock, Retest, SetPid, Unlock, ServeOther, limiter

LEMMA NextLimiter == ProcessesTyped /\ LimiterIInv /\ [Next]_vars => LimiterIInv'
  <1> SUFFICES ASSUME ProcessesTyped, LimiterIInv, [Next]_vars PROVE LimiterIInv'
    OBVIOUS
  <1>1. ASSUME UNCHANGED <<hits, recent>> PROVE LimiterIInv'
    BY <1>1 DEF LimiterIInv
  <1>2. ASSUME NEW p \in Pids, NEW t \in Threads, Arrive(p, t) \/ Thread(p, t)
        PROVE  LimiterIInv'
    <2>1. client[p][t] \in Clients
      BY DEF ProcessesTyped
    <2>2. CASE Login(p, t)
      BY <2>1, <2>2, CheckKeeps DEF Login
    <2>3. CASE ~Login(p, t)
      BY <1>1, <1>2, <2>3, NotLogin
    <2>4. QED
      BY <2>2, <2>3
  <1>3. CASE UNCHANGED vars
    BY <1>1, <1>3 DEF vars, limiter
  <1>4. QED
    BY <1>2, <1>3, ForkKeepsLimiter, StopKeepsLimiter, TickKeepsLimiter DEF Next

-----------------------------------------------------------------------------
THEOREM Invariant == Spec => []IInv
  <1>1. QED
    BY InitIInv, NextIInv, PTL DEF Spec

(* The deque of every client of every process stands, hit for login, for the *)
(* logins let through in the last Window, which are never too many.          *)
THEOREM LimiterInvariant == Spec => []LimiterIInv
  <1>1. IInv => ProcessesTyped
    BY DEF IInv
  <1>2. QED
    BY Invariant, InitLimiter, NextLimiter, <1>1, PTL DEF Spec

(* The state is typed, the limiter's sequences included.                     *)
THEOREM TypeCorrect == Spec => []TypeOK
  <1>1. IInv /\ LimiterIInv => TypeOK
    BY DEF IInv, ProcessesTyped, LimiterIInv, Logins, TypeOK
  <1>2. QED
    BY Invariant, LimiterInvariant, <1>1, PTL

(* A login is refused exactly when the last Window has seen as many as are   *)
(* allowed, and it never sees more.                                          *)
LEMMA StepExact ==
    ProcessesTyped /\ LimiterIInv /\ LimiterIInv' /\ [Next]_vars =>
        \A p \in Pids, k \in Clients :
            /\ Cardinality(recent'[p][k]) <= MaxHits
            /\ \A t \in Threads : Login(p, t) /\ client[p][t] = k /\ recent' = recent
                  => Cardinality(recent[p][k]) = MaxHits
  <1> SUFFICES ASSUME ProcessesTyped, LimiterIInv, LimiterIInv', [Next]_vars,
                      NEW p \in Pids, NEW k \in Clients
               PROVE  /\ Cardinality(recent'[p][k]) <= MaxHits
                      /\ \A t \in Threads : Login(p, t) /\ client[p][t] = k /\ recent' = recent
                            => Cardinality(recent[p][k]) = MaxHits
    OBVIOUS
  <1>1. Cardinality(recent'[p][k]) <= MaxHits
    BY DEF LimiterIInv, ClientOK
  <1>2. ASSUME NEW t \in Threads, Login(p, t), client[p][t] = k, recent' = recent
        PROVE  Cardinality(recent[p][k]) = MaxHits
    <2> DEFINE window == Within(hits[p][k])
               logins == recent[p][k]
    <2>1. /\ window \in Seq(0..Late)
          /\ Len(window) >= MaxHits => Cardinality(logins) = MaxHits
          /\ Len(window) < MaxHits => OneMore(logins) # logins
      BY CheckOne DEF LimiterIInv, ClientOK
    <2>2. CASE Len(window) >= MaxHits
      BY <2>1, <2>2
    <2>3. CASE ~(Len(window) >= MaxHits)
      <3>1. Check(p, k)
        BY <1>2 DEF Login
      <3>2. recent' = [recent EXCEPT ![p][k] = OneMore(logins)]
        BY <2>3, <3>1 DEF Check
      <3>3. recent'[p][k] = OneMore(logins)
        BY <3>2 DEF LimiterIInv
      <3>4. OneMore(logins) = logins
        BY <1>2, <3>3
      <3>5. Len(window) \in Nat
        <4> HIDE DEF window
        <4>1. QED
          BY <2>1
      <3> HIDE DEF window, logins
      <3>6. QED
        BY <2>1, <2>3, <3>4, <3>5
    <2>4. QED
      BY <2>2, <2>3
  <1>3. QED
    BY <1>1, <1>2

(* LimitIsExact: whatever forks, stops, arrivals and passages of time come   *)
(* between, what a process refuses it had to, and what it lets through it    *)
(* could.                                                                    *)
THEOREM LimiterExact == Spec => LimitIsExact
  <1>1. IInv => ProcessesTyped
    BY DEF IInv
  <1>2. ProcessesTyped /\ LimiterIInv /\ LimiterIInv' /\ [Next]_vars =>
            [\A p \in Pids, k \in Clients :
                /\ Cardinality(recent'[p][k]) <= MaxHits
                /\ \A t \in Threads : Login(p, t) /\ client[p][t] = k /\ recent' = recent
                      => Cardinality(recent[p][k]) = MaxHits]_vars
    BY StepExact
  <1>3. QED
    BY Invariant, LimiterInvariant, <1>1, <1>2, PTL DEF Spec, LimitIsExact

(* However processes fork, end and are numbered, and whichever threads       *)
(* arrive together, a process starts one event loop and serves on it.        *)
THEOREM OneLoopEach == Spec => []OneOwnLoop
  <1>1. IInv => OneOwnLoop
    <2> SUFFICES ASSUME IInv, NEW p \in Pids
                 PROVE  /\ loops[p] <= 1
                        /\ \A t \in Threads : pc[p][t] = "return" => memory[p].bridge = "own"
      BY DEF OneOwnLoop
    <2>1. QED
      BY OfProcess DEF BridgeOK
  <1>2. QED
    BY Invariant, <1>1, PTL
=============================================================================
