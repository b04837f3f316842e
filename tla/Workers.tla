------------------------------- MODULE Workers -------------------------------
(***************************************************************************)
(* The processes of the deployment and the requests they serve:            *)
(* deploy/fastcomet/app/passenger_wsgi.py, with the rate limit that each   *)
(* process applies to a client's logins (app/auth/rate_limit.py).          *)
(*                                                                         *)
(* A process serves each request on a thread of its own, which asks        *)
(* _get_bridge for the bridge to the event loop.  Any process may fork, at *)
(* any moment: the child has a copy of the memory and none of the threads. *)
(* What its copy of the bridge leads to is then a loop that nobody runs,   *)
(* and its copy of a lock that a thread held stays held.                   *)
(*                                                                         *)
(* Threads switch between any two statements.  The event loop runs one     *)
(* thing at a time, and the limiter's check has no await in it, so that is *)
(* one step.  The server starts and stops processes as it likes; a number  *)
(* of a process that ended may be given again.                             *)
(***************************************************************************)
EXTENDS Naturals, Sequences, FiniteSets

CONSTANTS Pids,        \* numbers of processes
          Threads,     \* request threads of a process
          Clients,     \* addresses that logins come from
          MaxHits,     \* settings.login_rate_limit_max
          Window,      \* settings.login_rate_limit_window_seconds
          None         \* no process, no thread

LimitsAssumption == /\ MaxHits \in Nat /\ Window \in Nat
                    /\ None \notin Pids /\ None \notin Threads
ASSUME LimitsAssumption

VARIABLES
    live,      \* the processes that run
    memory,    \* _bridge, _bridge_pid and _bridge_lock of each
    loops,     \* event loops that run in each
    pc,        \* what each thread does next
    client,    \* whose request it serves
    hits,      \* the limiter's deques: time since each hit, oldest first
    recent     \* history: the logins each let through, no older than Window

limiter == <<hits, recent>>
serving == <<pc, client>>
vars == <<live, memory, loops, serving, limiter>>

(* An inherited bridge is one whose loop runs, or ran, in another process;   *)
(* an orphan lock is held by a thread that this process does not have.       *)
Bridges == {"none", "own", "inherited"}
Orphan == <<"orphan">>
Free == <<"free">>
HeldBy(t) == <<"held", t>>
Locks == {Orphan, Free} \union {HeldBy(t) : t \in Threads}
Memories == [bridge : Bridges, pid : Pids \union {None}, lock : Locks]
Steps == {"idle", "test", "test_pid", "lock", "retest", "set_pid", "unlock", "return"}

Fresh == [bridge |-> "none", pid |-> None, lock |-> Free]

-----------------------------------------------------------------------------
(* The server starts the application in one process, which imports it.       *)
Init == /\ \E p \in Pids : live = {p}
        /\ memory = [p \in Pids |-> Fresh]
        /\ loops = [p \in Pids |-> 0]
        /\ pc = [p \in Pids |-> [t \in Threads |-> "idle"]]
        /\ client \in [Pids -> [Threads -> Clients]]
        /\ hits = [p \in Pids |-> [k \in Clients |-> <<>>]]
        /\ recent = [p \in Pids |-> [k \in Clients |-> {}]]

(* What a fork leaves of m in the child.                                     *)
Copied(m) == [m EXCEPT !.bridge = IF @ = "own" THEN "inherited" ELSE @,
                       !.lock = IF @ = Free THEN Free ELSE Orphan]

(* The hook drops the bridge only: seeded bug.                               *)
AfterForkKeepingLock(m) == [m EXCEPT !.bridge = "none", !.pid = None]

(* The hook renews the lock only: seeded bug.                                *)
AfterForkKeepingBridge(m) == [m EXCEPT !.lock = Free]

(* _reset_after_fork: whatever the copy m, all three are as the import left  *)
(* them.                                                                     *)
AfterFork(m) == Fresh

Fork(p, q) ==
    /\ p \in live /\ q \in Pids \ live
    /\ live' = live \union {q}
    /\ memory' = [memory EXCEPT ![q] = AfterFork(Copied(memory[p]))]
    /\ hits' = [hits EXCEPT ![q] = hits[p]]
    /\ recent' = [recent EXCEPT ![q] = recent[p]]
    /\ UNCHANGED <<loops, serving>>

(* The server stops a process; its requests are over.                        *)
Stop(p) ==
    /\ p \in live /\ live # {p}
    /\ live' = live \ {p}
    /\ memory' = [memory EXCEPT ![p] = Fresh]
    /\ loops' = [loops EXCEPT ![p] = 0]
    /\ pc' = [pc EXCEPT ![p] = [t \in Threads |-> "idle"]]
    /\ hits' = [hits EXCEPT ![p] = [k \in Clients |-> <<>>]]
    /\ recent' = [recent EXCEPT ![p] = [k \in Clients |-> {}]]
    /\ UNCHANGED client

-----------------------------------------------------------------------------
(* The thread's next statement, and its effect on the memory.                *)
Goto(p, t, step) == pc' = [pc EXCEPT ![p][t] = step]

(* A request other than a ping, which is answered without the bridge.        *)
Arrive(p, t) ==
    /\ p \in live /\ pc[p][t] = "idle"
    /\ \E k \in Clients : client' = [client EXCEPT ![p][t] = k]
    /\ Goto(p, t, "test")
    /\ UNCHANGED <<live, memory, loops, limiter>>

(* The fast path reads two variables that another thread may be writing.     *)
Test(p, t) ==
    /\ pc[p][t] = "test"
    /\ Goto(p, t, IF memory[p].bridge # "none" THEN "test_pid" ELSE "lock")
    /\ UNCHANGED <<live, memory, loops, client, limiter>>

TestPid(p, t) ==
    /\ pc[p][t] = "test_pid"
    /\ Goto(p, t, IF memory[p].pid = p THEN "return" ELSE "lock")
    /\ UNCHANGED <<live, memory, loops, client, limiter>>

Lock(p, t) ==
    /\ pc[p][t] = "lock" /\ memory[p].lock = Free
    /\ memory' = [memory EXCEPT ![p].lock = HeldBy(t)]
    /\ Goto(p, t, "retest")
    /\ UNCHANGED <<live, loops, client, limiter>>

NeedsBridge(p) == memory[p].bridge = "none" \/ memory[p].pid # p

(* The middleware starts its loop when it is made.                           *)
Retest(p, t) ==
    /\ pc[p][t] = "retest"
    /\ IF NeedsBridge(p)
       THEN /\ memory' = [memory EXCEPT ![p].bridge = "own"]
            /\ loops' = [loops EXCEPT ![p] = @ + 1]
            /\ Goto(p, t, "set_pid")
       ELSE /\ Goto(p, t, "unlock")
            /\ UNCHANGED <<memory, loops>>
    /\ UNCHANGED <<live, client, limiter>>

SetPid(p, t) ==
    /\ pc[p][t] = "set_pid"
    /\ memory' = [memory EXCEPT ![p].pid = p]
    /\ Goto(p, t, "unlock")
    /\ UNCHANGED <<live, loops, client, limiter>>

Unlock(p, t) ==
    /\ pc[p][t] = "unlock"
    /\ memory' = [memory EXCEPT ![p].lock = Free]
    /\ Goto(p, t, "return")
    /\ UNCHANGED <<live, loops, client, limiter>>

-----------------------------------------------------------------------------
(* SlidingWindowRateLimiter.check.  A hit is known by its age; Late stands   *)
(* for every age above Window.                                               *)
Late == Window + 1
Older(seq) == [i \in 1..Len(seq) |-> IF seq[i] < Late THEN seq[i] + 1 ELSE Late]

(* The oldest hits are dropped while they are before the cutoff.             *)
Oldest(seq) == CHOOSE n \in 1..Len(seq) + 1 :
    /\ \A i \in 1..n - 1 : seq[i] > Window
    /\ n <= Len(seq) => seq[n] <= Window
Within(seq) == SubSeq(seq, Oldest(seq), Len(seq))

(* A login that was let through is its age and a number among those of its   *)
(* age.  The logins of a client when one more is let through, and when time  *)
(* passes.                                                                   *)
Now(logins) == {x \in logins : x[1] = 0}
OneMore(logins) == logins \union {<<0, Cardinality(Now(logins)) + 1>>}
Aged(logins) == {<<x[1] + 1, x[2]>> : x \in {y \in logins : y[1] < Window}}

(* Every hit is recorded, the refused ones too: seeded bug.                  *)
CheckRecordingAll(p, k) ==
    LET window == Within(hits[p][k])
    IN  /\ hits' = [hits EXCEPT ![p][k] = Append(window, 0)]
        /\ recent' = [recent EXCEPT ![p][k] = IF Len(window) < MaxHits THEN OneMore(@) ELSE @]

(* A hit beyond the limit is not recorded.                                   *)
Check(p, k) ==
    LET window == Within(hits[p][k])
    IN  IF Len(window) >= MaxHits
        THEN hits' = [hits EXCEPT ![p][k] = window] /\ UNCHANGED recent
        ELSE /\ hits' = [hits EXCEPT ![p][k] = Append(window, 0)]
             /\ recent' = [recent EXCEPT ![p][k] = OneMore(@)]

(* _get_bridge reads the variable once more to return it; the request is     *)
(* handed to that loop and the thread waits.  One that nobody runs never     *)
(* takes it.                                                                 *)
Answers(p, t) ==
    /\ pc[p][t] = "return" /\ memory[p].bridge = "own"
    /\ Goto(p, t, "idle")
    /\ UNCHANGED <<live, memory, loops, client>>

(* A login, let through or refused, and any other request.                   *)
Login(p, t) == Answers(p, t) /\ Check(p, client[p][t])
ServeOther(p, t) == Answers(p, t) /\ UNCHANGED limiter

Tick ==
    /\ hits' = [p \in Pids |-> [k \in Clients |-> Older(hits[p][k])]]
    /\ recent' = [p \in Pids |-> [k \in Clients |-> Aged(recent[p][k])]]
    /\ UNCHANGED <<live, memory, loops, serving>>

(* What a thread does by itself once a request has arrived.                  *)
Thread(p, t) == \/ Test(p, t) \/ TestPid(p, t) \/ Lock(p, t) \/ Retest(p, t) \/ SetPid(p, t)
                \/ Unlock(p, t) \/ Login(p, t) \/ ServeOther(p, t)

Next == \/ \E p, q \in Pids : Fork(p, q)
        \/ \E p \in Pids : Stop(p)
        \/ \E p \in Pids, t \in Threads : Arrive(p, t) \/ Thread(p, t)
        \/ Tick

Spec == Init /\ [][Next]_vars

(* Threads are scheduled.  Requests need not come, nor processes be forked.  *)
FairSpec == Spec /\ \A p \in Pids, t \in Threads : WF_vars(Thread(p, t))

-----------------------------------------------------------------------------
TypeOK == /\ live \subseteq Pids /\ memory \in [Pids -> Memories]
          /\ loops \in [Pids -> Nat]
          /\ pc \in [Pids -> [Threads -> Steps]]
          /\ client \in [Pids -> [Threads -> Clients]]
          /\ hits \in [Pids -> [Clients -> Seq(0..Late)]]
          /\ recent \in [Pids -> [Clients -> SUBSET ((0..Window) \X Nat)]]

(* A process never starts a second event loop, and serves every request on   *)
(* the one it started, whatever its memory was copied from, whatever number  *)
(* it has and whichever threads arrive together.                             *)
OneOwnLoop == \A p \in Pids : /\ loops[p] <= 1
                              /\ \A t \in Threads : pc[p][t] = "return" => memory[p].bridge = "own"

(* The limit is what was promised, in both directions: no Window of time     *)
(* sees more than MaxHits logins of a client checked by a process, and one   *)
(* is refused only when the last Window has seen as many.                    *)
LimitIsExact ==
    [][\A p \in Pids, k \in Clients :
        /\ Cardinality(recent'[p][k]) <= MaxHits
        /\ \A t \in Threads : Login(p, t) /\ client[p][t] = k /\ recent' = recent
              => Cardinality(recent[p][k]) = MaxHits]_vars

(* Every request that reaches a process is answered, unless it is stopped:   *)
(* no thread waits for a lock that nobody holds, or on a loop nobody runs.   *)
EveryRequestServed ==
    \A p \in Pids, t \in Threads : pc[p][t] # "idle" ~> pc[p][t] = "idle"
=============================================================================
