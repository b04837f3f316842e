----------------------------- MODULE PublishOnce -----------------------------
(***************************************************************************)
(* What publishing promises, without requests, statuses or rows: the right *)
(* to send an item belongs to at most one attempt at a time.  An attempt   *)
(* gives the right up only by failing, and keeps it for good once its post *)
(* is confirmed; a post can appear on the network only for an attempt that *)
(* has held the right.  An attempt whose request died keeps the right.     *)
(***************************************************************************)
CONSTANTS Items, Attempts, NoAttempt

VARIABLES
    holder,     \* the attempt that holds the right to send each item
    made,       \* the attempts that have held a right
    live,       \* the attempts whose post is on the network
    confirmed   \* the items known to be published

onceVars == <<holder, made, live, confirmed>>

OnceInit ==
    /\ holder = [i \in Items |-> NoAttempt]
    /\ made = {}
    /\ live = {}
    /\ confirmed = {}

Acquire(i, a) ==
    /\ holder[i] = NoAttempt
    /\ a \notin made
    /\ holder' = [holder EXCEPT ![i] = a]
    /\ made' = made \union {a}
    /\ UNCHANGED <<live, confirmed>>

GoLive(a) ==
    /\ a \in made
    /\ live' = live \union {a}
    /\ UNCHANGED <<holder, made, confirmed>>

Confirm(i) ==
    /\ holder[i] \in live
    /\ confirmed' = confirmed \union {i}
    /\ UNCHANGED <<holder, made, live>>

GiveUp(i) ==
    /\ holder[i] # NoAttempt
    /\ i \notin confirmed
    /\ holder' = [holder EXCEPT ![i] = NoAttempt]
    /\ UNCHANGED <<made, live, confirmed>>

OnceNext ==
    \/ \E i \in Items : (\E a \in Attempts : Acquire(i, a)) \/ Confirm(i) \/ GiveUp(i)
    \/ \E a \in Attempts : GoLive(a)

OnceSpec == OnceInit /\ [][OnceNext]_onceVars

=============================================================================
