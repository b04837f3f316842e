--------------------------- MODULE ContentWorkflow ---------------------------
(***************************************************************************)
(* The review workflow of content items: app/content/state.py (which       *)
(* status moves are legal) and app/content/service.py (the requests that   *)
(* make them).                                                             *)
(*                                                                         *)
(* Every request runs in a database session of its own.  It reads an item, *)
(* checks the move against what it READ, and later commits an UPDATE of    *)
(* the columns it changed.  Nothing locks the row in between: the engine   *)
(* runs at READ COMMITTED, the rows carry no version, and between the read *)
(* and the commit the request awaits, so other requests are served.  A     *)
(* request is therefore two steps here, Read... and Commit..., of one      *)
(* worker, and any number of workers are between the two.                  *)
(*                                                                         *)
(* A request that is refused (404 for an unknown item, 409 for an illegal  *)
(* move) writes nothing and has no action.                                 *)
(***************************************************************************)
EXTENDS Naturals, FiniteSets

CONSTANTS Items,     \* ids of content items, existing or still to be created
          Texts,     \* the texts an item may carry
          Workers,   \* slots for requests in flight at one time
          NoItem, NoText

ASSUME ItemAssumption == NoItem \notin Items
ASSUME TextAssumption == NoText \notin Texts

VARIABLES
    status,    \* column content_items.status; "absent" before the INSERT
    text,      \* what the item says: edited_body, or generated_body without one
    request,   \* what each worker has read for the request it is serving
    reviewed   \* history: the texts some approve request had read, per item

workflowVars == <<status, text, request, reviewed>>

Statuses == {"draft", "pending_approval", "approved", "rejected", "published",
             "archived"}

(* Which moves assert_transition lets through. *)
Allowed ==
    [draft            |-> {"pending_approval", "archived"},
     pending_approval |-> {"approved", "rejected", "draft", "archived"},
     rejected         |-> {"draft", "archived"},
     approved         |-> {"archived", "published"},
     published        |-> {"archived"},
     archived         |-> {"draft"}]

(* The five requests that only move the status, and where each moves it. *)
Target ==
    [submit  |-> "pending_approval",
     approve |-> "approved",
     reject  |-> "rejected",
     archive |-> "archived",
     restore |-> "draft"]

Moves == {"submit", "approve", "reject", "archive", "restore"}
Ops   == Moves \union {"edit", "duplicate", "regenerate"}

(* op, the item it names, the status and text it READ, and the text it will *)
(* write (an edit's body); "none" for a worker that serves no request.      *)
Request == [op : Ops \union {"none"}, item : Items \union {NoItem},
            status : Statuses \union {"absent"},
            text : Texts \union {NoText}, body : Texts \union {NoText}]

NoRequest == [op |-> "none", item |-> NoItem, status |-> "absent",
              text |-> NoText, body |-> NoText]

Exists(i) == status[i] # "absent"

WorkflowTypeOK ==
    /\ status \in [Items -> Statuses \union {"absent"}]
    /\ text \in [Items -> Texts \union {NoText}]
    /\ request \in [Workers -> Request]
    /\ reviewed \in [Items -> SUBSET Texts]
    /\ \A i \in Items : Exists(i) <=> text[i] \in Texts
    /\ \A w \in Workers : request[w].op # "none" =>
           /\ request[w].item \in Items /\ Exists(request[w].item)
           /\ request[w].text \in Texts
           /\ request[w].status \in Statuses
           /\ (request[w].op = "edit") <=> (request[w].body \in Texts)

WorkflowInit ==
    /\ status = [i \in Items |-> "absent"]
    /\ text = [i \in Items |-> NoText]
    /\ request = [w \in Workers |-> NoRequest]
    /\ reviewed = [i \in Items |-> {}]

-----------------------------------------------------------------------------

(* ContentService.generate: nothing is written until every LLM call of the  *)
(* batch has answered; then all the variants are inserted by one commit.    *)
Generate ==
    \E new \in SUBSET {i \in Items : ~Exists(i)} \ {{}} :
        /\ \E body \in [new -> Texts] :
             text' = [i \in Items |-> IF i \in new THEN body[i] ELSE text[i]]
        /\ status' = [i \in Items |-> IF i \in new THEN "draft" ELSE status[i]]
        /\ UNCHANGED <<request, reviewed>>

(* What _get leaves in the session's identity map. *)
ReadItem(w, i, op, body) ==
    /\ request[w].op = "none"
    /\ Exists(i)
    /\ request' = [request EXCEPT ![w] =
           [op |-> op, item |-> i, status |-> status[i], text |-> text[i],
            body |-> body]]
    /\ UNCHANGED <<status, text, reviewed>>

(* The first half of _transition: read the item, assert the move. *)
ReadForMove(w, i, op) ==
    /\ Exists(i)
    /\ Target[op] \in Allowed[status[i]]
    /\ ReadItem(w, i, op, NoText)

(* The second half of _transition: UPDATE the status, wherever it is now.   *)
(* Other columns were not changed and are not in the UPDATE.                *)
CommitMove(w) ==
    LET r == request[w] IN
    /\ r.op \in Moves
    /\ status' = [status EXCEPT ![r.item] = Target[r.op]]
    /\ reviewed' = IF r.op = "approve"
                   THEN [reviewed EXCEPT ![r.item] = @ \union {r.text}]
                   ELSE reviewed
    /\ request' = [request EXCEPT ![w] = NoRequest]
    /\ UNCHANGED text

(* The first half of edit: a draft is edited in place, anything else must be *)
(* allowed to go back to draft.                                              *)
ReadForEdit(w, i, body) ==
    /\ Exists(i)
    /\ status[i] = "draft" \/ "draft" \in Allowed[status[i]]
    /\ ReadItem(w, i, "edit", body)

(* The second half of edit.  The UPDATE names the columns whose value differs *)
(* from the one that was READ: an edit that read a draft leaves the status as *)
(* it finds it, and a body equal to the edited_body that was read leaves the  *)
(* text as it finds it (equal to the generated_body, it is written).          *)
CommitEdit(w) ==
    LET r == request[w] IN
    /\ r.op = "edit"
    /\ \E body \in {r.body} \union (IF r.body = r.text THEN {text[r.item]} ELSE {}) :
           text' = [text EXCEPT ![r.item] = body]
    /\ status' = IF r.status = "draft"
                 THEN status
                 ELSE [status EXCEPT ![r.item] = "draft"]
    /\ request' = [request EXCEPT ![w] = NoRequest]
    /\ UNCHANGED reviewed

(* duplicate and regenerate read their source, whatever its status... *)
ReadForCopy(w, i, op) == ReadItem(w, i, op, NoText)

(* ... and insert a new draft: a copy of the text that was read, or whatever *)
(* the LLM made of it.                                                       *)
CommitCopy(w, j) ==
    LET r == request[w] IN
    /\ r.op \in {"duplicate", "regenerate"}
    /\ ~Exists(j)
    /\ status' = [status EXCEPT ![j] = "draft"]
    /\ \E body \in IF r.op = "duplicate" THEN {r.text} ELSE Texts :
           text' = [text EXCEPT ![j] = body]
    /\ request' = [request EXCEPT ![w] = NoRequest]
    /\ UNCHANGED reviewed

(* The request dies between its read and its commit: the process is killed, *)
(* the LLM call fails or exceeds its deadline.  The session rolls back.     *)
Abandon(w) ==
    /\ request[w].op # "none"
    /\ request' = [request EXCEPT ![w] = NoRequest]
    /\ UNCHANGED <<status, text, reviewed>>

WorkflowStep(w) ==
    \/ \E i \in Items :
          \/ \E op \in Moves : ReadForMove(w, i, op)
          \/ \E body \in Texts : ReadForEdit(w, i, body)
          \/ \E op \in {"duplicate", "regenerate"} : ReadForCopy(w, i, op)
          \/ CommitCopy(w, i)
    \/ CommitMove(w)
    \/ CommitEdit(w)
    \/ Abandon(w)

=============================================================================
