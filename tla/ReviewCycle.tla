----------------------------- MODULE ReviewCycle -----------------------------
(***************************************************************************)
(* What review and publishing promise about an item together, without      *)
(* requests, attempts and the steps between: its text is open to change,   *)
(* or frozen because somebody approved it; only a frozen text goes out,    *)
(* and the item that is published says what went out.                      *)
(***************************************************************************)
CONSTANTS Items, Texts, NoText

VARIABLES
    stage,      \* of each item
    says,       \* its text
    sent,       \* the texts that were sent in its name
    confirmed   \* the items known to be on the network, once and for all

cycleVars == <<stage, says, sent, confirmed>>

CycleInit ==
    /\ stage = [i \in Items |-> "absent"]
    /\ says = [i \in Items |-> NoText]
    /\ sent = [i \in Items |-> {}]
    /\ confirmed = {}

(* Items are created together: the variants of one request, or a copy. *)
Create(new, body) ==
    /\ \A i \in new : stage[i] = "absent"
    /\ stage' = [i \in Items |-> IF i \in new THEN "open" ELSE stage[i]]
    /\ says' = [i \in Items |-> IF i \in new THEN body[i] ELSE says[i]]
    /\ UNCHANGED <<sent, confirmed>>

(* A text that nobody has approved is changed, or one that was withdrawn:    *)
(* either way its review is open.                                            *)
Edit(i, body) ==
    /\ stage[i] \in {"open", "closed"}
    /\ stage' = [stage EXCEPT ![i] = "open"]
    /\ says' = [says EXCEPT ![i] = body]
    /\ UNCHANGED <<sent, confirmed>>

Move(i, from, to) ==
    /\ stage[i] \in from
    /\ stage' = [stage EXCEPT ![i] = to]
    /\ UNCHANGED <<says, sent, confirmed>>

Approve(i) == Move(i, {"open"}, "approved")
Archive(i) == Move(i, {"open", "approved", "published"}, "closed")
Restore(i) == Move(i, {"closed"}, "open")

(* The approved text is sent, again if the item is not known to be out. *)
Send(i) ==
    /\ stage[i] = "approved"
    /\ i \notin confirmed
    /\ sent' = [sent EXCEPT ![i] = @ \union {says[i]}]
    /\ UNCHANGED <<stage, says, confirmed>>

Confirm(i) ==
    /\ stage[i] = "approved"
    /\ i \notin confirmed
    /\ says[i] \in sent[i]
    /\ stage' = [stage EXCEPT ![i] = "published"]
    /\ confirmed' = confirmed \union {i}
    /\ UNCHANGED <<says, sent>>

CycleNext ==
    \/ \E new \in SUBSET Items : \E body \in [new -> Texts] : Create(new, body)
    \/ \E i \in Items :
          \/ \E body \in Texts : Edit(i, body)
          \/ Approve(i) \/ Archive(i) \/ Restore(i)
          \/ Send(i) \/ Confirm(i)

CycleSpec == CycleInit /\ [][CycleNext]_cycleVars

=============================================================================
