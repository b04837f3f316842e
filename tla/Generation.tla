----------------------------- MODULE Generation ------------------------------
(***************************************************************************)
(* One AI request of the API, from its first provider call to its answer:  *)
(* the generation of posts (app/content/service.py, its draft_everything   *)
(* and app/agents/content_generator.py), the regeneration of one post, the *)
(* suggestion of image prompts and the generation of an image, with the    *)
(* retries of app/llm/client.py.                                           *)
(*                                                                         *)
(* run_all is used twice: a task group of the request has a task per       *)
(* platform, each of which has a task group with a task per style.  A task *)
(* is a pair here, so that both levels are one set of actions: <<0, 0>> is *)
(* the request, <<p, 0>> platform p and <<p, s>> the call for a style of   *)
(* it.  A regeneration, a suggestion or an image is one call; its levels   *)
(* above the call, which the code does not all have, pass its outcome on.  *)
(*                                                                         *)
(* Time is a clock.  The event loop takes no time: it advances only when   *)
(* every task waits for something external.  The provider is external: an  *)
(* attempt is answered, well or badly, within its timeout.                 *)
(***************************************************************************)
EXTENDS Naturals, FiniteSets

CONSTANTS Platforms,      \* most platforms of a request
          Styles,         \* DEFAULT_VARIANT_COUNT
          Concurrency,    \* settings.llm_max_concurrency
          MaxAttempts,    \* settings.llm_max_attempts
          CallTimeout,    \* settings.llm_timeout_seconds
          ImageTimeout,   \* settings.image_timeout_seconds
          Backoff,        \* _RETRY_BACKOFF_SECONDS
          Deadline        \* settings.generation_deadline_seconds

(* The bounds that Settings puts on its fields. *)
LimitsAssumption == /\ Platforms \in Nat \ {0} /\ Styles \in Nat \ {0}
                    /\ Concurrency \in 1..20 /\ MaxAttempts \in 1..3
                    /\ CallTimeout \in Nat \ {0} /\ ImageTimeout \in Nat \ {0}
                    /\ Backoff \in Nat /\ Deadline \in Nat \ {0}
ASSUME LimitsAssumption

VARIABLES
    op,        \* the request
    wanted,    \* its calls
    reference, \* whether it gives the URL of a page to fetch first
    task,      \* the state of each task
    tries,     \* attempts of each call so far
    spent,     \* time since its attempt, or its pause, began
    cancels,   \* tasks whose cancellation is requested and not yet delivered
    clock,     \* time since the request began
    expired,   \* whether asyncio.timeout has fired
    saved,     \* the drafts that are committed, by the calls that wrote them
    outcome    \* the answer

asked == <<op, wanted, reference>>
calling == <<tries, spent>>
vars == <<asked, task, calling, cancels, clock, expired, saved, outcome>>

Request == <<0, 0>>
Calls == (1..Platforms) \X (1..Styles)
Groups == {Request} \union ((1..Platforms) \X {0})
Tasks == Calls \union Groups
Parent(t) == IF t \in Calls THEN <<t[1], 0>> ELSE Request

Ops == {"generate", "regenerate", "suggest", "image"}
Holding == {"calling", "pausing"}
Finished == {"done", "failed", "cancelled"}
States == {"new", "fetching", "running", "aborting", "waiting"} \union Holding \union Finished
Outcomes == {"none", "saved", "answered", "failed", "timeout", "error"}

Attempts == IF op = "image" THEN 1 ELSE MaxAttempts
Timeout == IF op = "image" THEN ImageTimeout ELSE CallTimeout
HasDeadline == op \in {"generate", "regenerate"}
Writes == op \in {"generate", "regenerate"}

Children(t) == {c \in Tasks \ {Request} : Parent(c) = t /\ task[c] # "new"}
Over(t) == \A c \in Children(t) : task[c] \in Finished
Unfinished == task[Request] \in {"fetching", "running", "aborting"}

-----------------------------------------------------------------------------
(* A generation is for some of the platforms, each once (the schema drops    *)
(* repetitions), in all styles; every other request is one call.             *)
CallsOf(o) == IF o = "generate" THEN {(1..n) \X (1..Styles) : n \in 1..Platforms}
                                ELSE {{<<1, 1>>}}

(* Init takes the request up to its first await: with a reference URL, the   *)
(* fetch of that page.                                                       *)
Created == [t \in Tasks |->
    IF t = Request THEN "running"
    ELSE IF t \in wanted THEN "waiting"
    ELSE IF \E c \in wanted : Parent(c) = t THEN "running"
    ELSE "new"]

Init == /\ op \in Ops
        /\ wanted \in CallsOf(op)
        /\ reference \in IF op = "generate" THEN BOOLEAN ELSE {FALSE}
        /\ task = IF reference THEN [t \in Tasks |-> IF t = Request THEN "fetching" ELSE "new"]
                  ELSE Created
        /\ tries = [c \in Calls |-> 0] /\ spent = [c \in Calls |-> 0]
        /\ cancels = {} /\ clock = 0 /\ expired = FALSE
        /\ saved = {} /\ outcome = "none"

(* The page is read, or whatever went wrong has become a warning.            *)
FetchEnds ==
    /\ task[Request] = "fetching" /\ Request \notin cancels
    /\ task' = Created
    /\ UNCHANGED <<asked, calling, cancels, clock, expired, saved, outcome>>

-----------------------------------------------------------------------------
(* Task t ends.  A failure makes its group, unless it already is, abort: all *)
(* the others get a cancellation.                                            *)

(* The group goes on until all of its tasks ended by themselves: seeded bug. *)
SettleAlone(t, state) ==
    /\ task' = [task EXCEPT ![t] = state]
    /\ cancels' = cancels \ {t}

Settle(t, state) ==
    LET aborts == state = "failed" /\ task[Parent(t)] = "running"
    IN  /\ task' = [task EXCEPT ![t] = state, ![Parent(t)] = IF aborts THEN "aborting" ELSE @]
        /\ cancels' = (cancels \ {t}) \union
               (IF aborts THEN {c \in Children(Parent(t)) \ {t} : task[c] \notin Finished} ELSE {})

(* The calls that hold a permit of the semaphore that c waits for.           *)
Permits(c) == {d \in Calls : task[d] \in Holding}
PermitFree(c) == Cardinality(Permits(c)) < Concurrency

Earlier(c, d) == c[1] < d[1] \/ (c[1] = d[1] /\ c[2] < d[2])

(* The semaphore is first come, first served, over the calls that are not    *)
(* being cancelled.  A request that is one call has no semaphore and needs   *)
(* none.                                                                     *)
StartCall(c) ==
    /\ task[c] = "waiting" /\ c \notin cancels /\ PermitFree(c)
    /\ \A d \in Calls : task[d] = "waiting" /\ d \notin cancels => ~Earlier(d, c)
    /\ task' = [task EXCEPT ![c] = "calling"]
    /\ tries' = [tries EXCEPT ![c] = 1] /\ spent' = [spent EXCEPT ![c] = 0]
    /\ UNCHANGED <<asked, cancels, clock, expired, saved, outcome>>

AttemptSucceeds(c) ==
    /\ task[c] = "calling" /\ c \notin cancels
    /\ task' = [task EXCEPT ![c] = "done"]
    /\ UNCHANGED <<asked, calling, cancels, clock, expired, saved, outcome>>

(* The SDK's own retries come on top of ours: seeded bug.                    *)
RetriesDoubled(c) == tries[c] < 2 * Attempts

Retries(c) == tries[c] < Attempts

(* An error, an answer that is not the expected JSON, or the timeout.        *)
AttemptFails(c) ==
    /\ task[c] = "calling" /\ c \notin cancels
    /\ IF Retries(c)
       THEN /\ task' = [task EXCEPT ![c] = "pausing"]
            /\ spent' = [spent EXCEPT ![c] = 0]
            /\ UNCHANGED cancels
       ELSE Settle(c, "failed") /\ UNCHANGED spent
    /\ UNCHANGED <<asked, tries, clock, expired, saved, outcome>>

(* The pause is spent with the permit in hand.                               *)
NextAttempt(c) ==
    /\ task[c] = "pausing" /\ c \notin cancels /\ spent[c] = Backoff * tries[c]
    /\ task' = [task EXCEPT ![c] = "calling"]
    /\ tries' = [tries EXCEPT ![c] = @ + 1] /\ spent' = [spent EXCEPT ![c] = 0]
    /\ UNCHANGED <<asked, cancels, clock, expired, saved, outcome>>

(* A retry that also catches CancelledError: seeded bug.                     *)
CancelCallAsFailure(c) ==
    /\ c \in Calls \intersect cancels
    /\ cancels' = cancels \ {c}
    /\ IF task[c] = "calling" /\ Retries(c)
       THEN task' = [task EXCEPT ![c] = "pausing"] /\ spent' = [spent EXCEPT ![c] = 0]
       ELSE task' = [task EXCEPT ![c] = "cancelled"] /\ UNCHANGED spent
    /\ UNCHANGED <<asked, tries, clock, expired, saved, outcome>>

(* CancelledError is raised where the call awaits: the queue of the          *)
(* semaphore, the provider or the pause.  Nothing in between catches it.     *)
CancelCall(c) ==
    /\ c \in Calls \intersect cancels
    /\ Settle(c, "cancelled")
    /\ UNCHANGED <<asked, calling, clock, expired, saved, outcome>>

-----------------------------------------------------------------------------
(* A cancellation reaches a task that waits for its group: the group aborts. *)
CancelGroup(t) ==
    /\ t \in Groups \intersect cancels
    /\ IF task[t] = "running"
       THEN /\ task' = [task EXCEPT ![t] = "aborting"]
            /\ cancels' = (cancels \ {t}) \union {c \in Children(t) : task[c] \notin Finished}
       ELSE /\ task' = [task EXCEPT ![t] = IF @ = "fetching" THEN "cancelled" ELSE @]
            /\ cancels' = cancels \ {t}
    /\ outcome' = IF task[t] = "fetching" THEN "timeout" ELSE outcome
    /\ UNCHANGED <<asked, calling, clock, expired, saved>>

(* What a group ends with when all its tasks have: the first failure is      *)
(* raised; else, if it aborts, the cancellation; else the results.           *)
ResultOf(t) == IF \E c \in Children(t) : task[c] = "failed" THEN "failed"
               ELSE IF task[t] = "aborting" THEN "cancelled" ELSE "done"

(* A join by hand that never counts the tasks that were cancelled: seeded    *)
(* bug.                                                                      *)
PlatformEndsWhenCounted(t) ==
    /\ t \in Groups \ {Request} /\ t \notin cancels
    /\ task[t] \in {"running", "aborting"}
    /\ \A c \in Children(t) : task[c] \in {"done", "failed"}
    /\ Settle(t, ResultOf(t))
    /\ UNCHANGED <<asked, calling, clock, expired, saved, outcome>>

PlatformEnds(t) ==
    /\ t \in Groups \ {Request} /\ t \notin cancels
    /\ task[t] \in {"running", "aborting"} /\ Over(t)
    /\ Settle(t, ResultOf(t))
    /\ UNCHANGED <<asked, calling, clock, expired, saved, outcome>>

(* gather: the first failure is answered while the rest runs on: seeded bug. *)
RequestAnswersFirstFailure ==
    /\ task[Request] \in {"running", "aborting"} /\ Request \notin cancels
    /\ Over(Request) \/ ResultOf(Request) = "failed"
    /\ task' = [task EXCEPT ![Request] = ResultOf(Request)]
    /\ outcome' = CASE ResultOf(Request) = "failed" -> "failed"
                    [] ResultOf(Request) = "cancelled" -> "timeout"
                    [] OTHER -> "none"
    /\ UNCHANGED <<asked, calling, cancels, clock, expired, saved>>

(* run_within_deadline returns the drafts, raises the failure, or turns the  *)
(* cancellation of its own timeout into GenerationTimeoutError; the routes   *)
(* answer 503 to either.                                                     *)
RequestEnds ==
    /\ task[Request] \in {"running", "aborting"} /\ Request \notin cancels /\ Over(Request)
    /\ task' = [task EXCEPT ![Request] = ResultOf(Request)]
    /\ outcome' = CASE ResultOf(Request) = "failed" -> "failed"
                    [] ResultOf(Request) = "cancelled" -> "timeout"
                    [] OTHER -> "none"
    /\ UNCHANGED <<asked, calling, cancels, clock, expired, saved>>

(* The drafts are inserted by one commit, which may fail.                    *)
Save ==
    /\ task[Request] = "done" /\ outcome = "none"
    /\ \/ Writes /\ outcome' = "saved" /\ saved' = wanted
       \/ ~Writes /\ outcome' = "answered" /\ UNCHANGED saved
       \/ outcome' = "error" /\ UNCHANGED saved
    /\ UNCHANGED <<asked, task, calling, cancels, clock, expired>>

-----------------------------------------------------------------------------
(* asyncio.timeout cancels the task it was entered in.                       *)
DeadlinePasses ==
    /\ HasDeadline /\ ~expired /\ Unfinished /\ clock = Deadline
    /\ expired' = TRUE
    /\ cancels' = cancels \union {Request}
    /\ UNCHANGED <<asked, task, calling, clock, saved, outcome>>

(* Nothing is left to do before time passes.                                 *)
Settled ==
    /\ cancels = {}
    /\ \A c \in Calls : /\ task[c] = "waiting" => ~PermitFree(c)
                        /\ task[c] = "calling" => spent[c] < Timeout
                        /\ task[c] = "pausing" => spent[c] < Backoff * tries[c]
    /\ \A t \in Groups : task[t] \in {"running", "aborting"} => ~Over(t)
    /\ HasDeadline /\ Unfinished => expired \/ clock < Deadline
    /\ task[Request] # "done"

Tick ==
    /\ outcome = "none" /\ Settled
    /\ clock' = clock + 1
    /\ spent' = [c \in Calls |-> IF task[c] \in Holding THEN spent[c] + 1 ELSE spent[c]]
    /\ UNCHANGED <<asked, task, tries, cancels, expired, saved, outcome>>

Next ==
    \/ FetchEnds \/ RequestEnds \/ Save \/ DeadlinePasses \/ Tick
    \/ \E t \in Groups : CancelGroup(t) \/ PlatformEnds(t)
    \/ \E c \in Calls : \/ StartCall(c) \/ AttemptSucceeds(c) \/ AttemptFails(c)
                        \/ NextAttempt(c) \/ CancelCall(c)

Spec == Init /\ [][Next]_vars

(* The event loop goes on, and time does.                                    *)
FairSpec == Spec /\ WF_vars(Next)

-----------------------------------------------------------------------------
TypeOK ==
    /\ op \in Ops /\ wanted \in CallsOf(op) /\ reference \in BOOLEAN /\ task \in [Tasks -> States]
    /\ tries \in [Calls -> 0..Attempts] /\ spent \in [Calls -> Nat]
    /\ cancels \subseteq Tasks /\ clock \in Nat /\ expired \in BOOLEAN
    /\ saved \subseteq wanted /\ outcome \in Outcomes

(* One generation never has more calls open at its provider than the setting *)
(* allows, its platforms together, retries and pauses included.              *)
CallsBounded == Cardinality({c \in Calls : task[c] \in Holding}) <= Concurrency

(* All drafts or none; and whatever the answer, nothing of the request is    *)
(* left running behind it, at the provider or in a queue.                    *)
AllOrNothing ==
    /\ saved # {} => /\ saved = wanted /\ outcome = "saved"
                     /\ \A c \in wanted : task[c] = "done"
    /\ outcome # "none" => \A t \in Tasks : task[t] \in Finished \union {"new"}

(* Time after which the nth attempt of a call has begun, counted from the    *)
(* start of its first, if every attempt before it timed out.                 *)
Latest(n) == CASE n = 1 -> 0
               [] n = 2 -> Timeout + Backoff
               [] OTHER -> 2 * Timeout + 3 * Backoff
WorstCase == Latest(Attempts) + Timeout

(* No request works for longer than its limit: the deadline, or without one  *)
(* what the attempts of its only call and the pauses can add up to.          *)
AnsweredInTime ==
    outcome = "none" => clock <= IF HasDeadline THEN Deadline ELSE WorstCase

(* The deadline cuts no retry short, unless calls had to queue or a page was *)
(* fetched first: when the attempts and pauses of one call fit below the     *)
(* deadline, a request whose calls all start at once never runs into it.     *)
RetriesFit ==
    Cardinality(wanted) <= Concurrency /\ ~reference /\ WorstCase < Deadline => ~expired

(* A failed call ends its request at once: no time passes between the last   *)
(* attempt of one call and the answer, however slow the others are.          *)
FailureEndsAtOnce ==
    [][(\E c \in Calls : task[c] = "failed") => clock' = clock]_vars

(* Every request is answered.                                                *)
Terminates == <>(outcome # "none")
=============================================================================
