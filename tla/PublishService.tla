---------------------------- MODULE PublishService ---------------------------
(***************************************************************************)
(* Publishing an item: app/publishing/service.py, run by any number of     *)
(* requests at once, beside the review workflow of ContentWorkflow.        *)
(*                                                                         *)
(* A publish request reads the item and its attempts (preflight), commits  *)
(* an attempt row `pending', only then calls the network, and records what *)
(* came of it.  Two commits, with a call that cannot be undone in between. *)
(*                                                                         *)
(* The publisher is seen from here: a call that was made may put a post on *)
(* the network at any later time, answered or not, and a call is answered  *)
(* with success only if the post is there.  That one call makes one post   *)
(* is the publishers' affair, not this module's.                           *)
(*                                                                         *)
(* The preflight rules that are not about the item's status or its         *)
(* attempts (account, images, text length) can only refuse, and a refusal  *)
(* persists nothing: Refuse stands for all of them.                        *)
(***************************************************************************)
EXTENDS ContentWorkflow

CONSTANTS Attempts,    \* ids of content_publications rows
          NoAttempt

ASSUME AttemptAssumption == NoAttempt \notin Attempts

VARIABLES
    attempt,   \* the rows of content_publications: status and content_item_id
    publish,   \* what each worker knows of the publish request it is serving
    post       \* what became of each attempt's call on the network, and its text

publishVars == <<attempt, publish, post>>
vars == <<workflowVars, publishVars>>

AttemptStatuses == {"unused", "pending", "succeeded", "failed"}
Phases == {"idle", "item_read", "ready", "claimed", "calling"}

NoPublish == [phase |-> "idle", item |-> NoItem, status |-> "absent",
              text |-> NoText, attempt |-> NoAttempt]

AttemptsOf(i) == {a \in Attempts : attempt[a].item = i}

(* The partial index uq_content_publications_in_flight, if it left out one *)
(* of its two statuses: seeded bugs.                                       *)
IndexedSucceededOnly == {"succeeded"}
IndexedPendingOnly == {"pending"}

(* The attempts the unique index covers: at most one of them per item. *)
Indexed == {"pending", "succeeded"}

Claims(i) == {a \in AttemptsOf(i) : attempt[a].status \in Indexed}

AttemptRow == [status : AttemptStatuses, item : Items \union {NoItem}]
PublishRequest == [phase : Phases, item : Items \union {NoItem},
                   status : Statuses \union {"absent"},
                   text : Texts \union {NoText},
                   attempt : Attempts \union {NoAttempt}]
Post == [state : {"none", "sent", "live"}, text : Texts \union {NoText}]

PublishTypeOK ==
    /\ attempt \in [Attempts -> AttemptRow]
    /\ publish \in [Workers -> PublishRequest]
    /\ post \in [Attempts -> Post]
    /\ \A a \in Attempts :
           /\ attempt[a].status = "unused" <=> attempt[a].item = NoItem
           /\ post[a].state = "none" <=> post[a].text = NoText
    /\ \A w \in Workers :
           /\ publish[w].phase # "idle" => /\ publish[w].item \in Items
                                           /\ Exists(publish[w].item)
                                           /\ publish[w].text \in Texts
                                           /\ request[w].op = "none"
           /\ publish[w].phase \in {"claimed", "calling"}
                  <=> publish[w].attempt \in Attempts
           /\ publish[w].attempt \in Attempts
                  => attempt[publish[w].attempt].item = publish[w].item

(* Every variable has the values its table's columns or its request's       *)
(* locals can have: an attempt row names its item, a request that claimed   *)
(* an item knows its attempt, and no worker serves two requests.            *)
TypeOK == WorkflowTypeOK /\ PublishTypeOK

Init ==
    /\ WorkflowInit
    /\ attempt = [a \in Attempts |-> [status |-> "unused", item |-> NoItem]]
    /\ publish = [w \in Workers |-> NoPublish]
    /\ post = [a \in Attempts |-> [state |-> "none", text |-> NoText]]

-----------------------------------------------------------------------------

(* Preflight reads the item whatever its status, if nothing checks it later: *)
(* a seeded bug.                                                             *)
ReadForPublishUnchecked(w, i) ==
    /\ publish[w].phase = "idle" /\ request[w].op = "none"
    /\ Exists(i)
    /\ publish' = [publish EXCEPT ![w] =
           [phase |-> "item_read", item |-> i, status |-> status[i],
            text |-> text[i], attempt |-> NoAttempt]]
    /\ UNCHANGED <<workflowVars, attempt, post>>

(* preflight: _get_item.  One that is not approved is a blocker. *)
ReadForPublish(w, i) ==
    /\ publish[w].phase = "idle" /\ request[w].op = "none"
    /\ status[i] = "approved"
    /\ publish' = [publish EXCEPT ![w] =
           [phase |-> "item_read", item |-> i, status |-> status[i],
            text |-> text[i], attempt |-> NoAttempt]]
    /\ UNCHANGED <<workflowVars, attempt, post>>

(* preflight: _pending_publication and _succeeded_publication.  Either one  *)
(* found refuses the request.  The queries are one step: what a later query *)
(* could add is a success that the index refuses anyway.                    *)
ReadAttempts(w) ==
    /\ publish[w].phase = "item_read"
    /\ publish' = [publish EXCEPT ![w] =
           IF \E a \in AttemptsOf(@.item) : attempt[a].status \in {"pending", "succeeded"}
           THEN NoPublish
           ELSE [@ EXCEPT !.phase = "ready"]]
    /\ UNCHANGED <<workflowVars, attempt, post>>

(* A blocker of another kind, or an image that cannot be converted. *)
Refuse(w) ==
    /\ publish[w].phase \in {"item_read", "ready"}
    /\ publish' = [publish EXCEPT ![w] = NoPublish]
    /\ UNCHANGED <<workflowVars, attempt, post>>

(* The attempt row staged but not committed before the call: a seeded bug. *)
ClaimUncommitted(w, a) ==
    /\ publish[w].phase = "ready"
    /\ attempt[a].status = "unused"
    /\ Claims(publish[w].item) = {}
    /\ publish' = [publish EXCEPT ![w].phase = "claimed", ![w].attempt = a]
    /\ UNCHANGED <<workflowVars, attempt, post>>

(* The item published together with the claim: a seeded bug. *)
ClaimAndPublish(w, a) ==
    /\ publish[w].phase = "ready"
    /\ attempt[a].status = "unused"
    /\ Claims(publish[w].item) = {}
    /\ attempt' = [attempt EXCEPT ![a] = [status |-> "pending", item |-> publish[w].item]]
    /\ publish' = [publish EXCEPT ![w].phase = "claimed", ![w].attempt = a]
    /\ status' = [status EXCEPT ![publish[w].item] = "published"]
    /\ UNCHANGED <<text, request, reviewed, post>>

(* The first commit: the attempt row, `pending'.  The unique index admits   *)
(* it only if no other pending or succeeded attempt of the item is          *)
(* committed by now, whatever preflight saw.                                *)
Claim(w, a) ==
    /\ publish[w].phase = "ready"
    /\ attempt[a].status = "unused"
    /\ Claims(publish[w].item) = {}
    /\ attempt' = [attempt EXCEPT ![a] = [status |-> "pending", item |-> publish[w].item]]
    /\ publish' = [publish EXCEPT ![w].phase = "claimed", ![w].attempt = a]
    /\ UNCHANGED <<workflowVars, post>>

(* IntegrityError: the race is lost, the session rolls back, nothing is sent. *)
LoseClaim(w) ==
    /\ publish[w].phase = "ready"
    /\ Claims(publish[w].item) # {}
    /\ publish' = [publish EXCEPT ![w] = NoPublish]
    /\ UNCHANGED <<workflowVars, attempt, post>>

(* publisher.publish: the text that was read at preflight goes out. *)
CallPublisher(w) ==
    LET p == publish[w] IN
    /\ p.phase = "claimed"
    /\ post' = [post EXCEPT ![p.attempt] = [state |-> "sent", text |-> p.text]]
    /\ publish' = [publish EXCEPT ![w].phase = "calling"]
    /\ UNCHANGED <<workflowVars, attempt>>

(* The network acts on a call, perhaps long after the caller gave up on it. *)
NetworkPosts(a) ==
    /\ post[a].state = "sent"
    /\ post' = [post EXCEPT ![a].state = "live"]
    /\ UNCHANGED <<workflowVars, attempt, publish>>

(* Success recorded of the attempt, and not of its item: a seeded bug. *)
RecordAttemptOnly(w) ==
    /\ publish[w].phase = "calling"
    /\ post[publish[w].attempt].state = "live"
    /\ attempt' = [attempt EXCEPT ![publish[w].attempt].status = "succeeded"]
    /\ publish' = [publish EXCEPT ![w] = NoPublish]
    /\ UNCHANGED <<workflowVars, post>>

(* The second commit after an answer that the post is there: attempt and    *)
(* item in one transaction.  assert_transition looks at the status that     *)
(* preflight read; the UPDATE overwrites whatever is there now.             *)
RecordSuccess(w) ==
    LET p == publish[w] IN
    /\ p.phase = "calling"
    /\ post[p.attempt].state = "live"
    /\ "published" \in Allowed[p.status]
    /\ attempt' = [attempt EXCEPT ![p.attempt].status = "succeeded"]
    /\ status' = [status EXCEPT ![p.item] = "published"]
    /\ publish' = [publish EXCEPT ![w] = NoPublish]
    /\ UNCHANGED <<text, request, reviewed, post>>

(* Failure recorded only on an answer, an exception of another kind left to *)
(* kill the request: a seeded bug.                                          *)
RecordAnsweredFailure(w) ==
    /\ publish[w].phase = "calling"
    /\ post[publish[w].attempt].state = "live"
    /\ attempt' = [attempt EXCEPT ![publish[w].attempt].status = "failed"]
    /\ publish' = [publish EXCEPT ![w] = NoPublish]
    /\ UNCHANGED <<workflowVars, post>>

(* _record_failure: any exception of the call, a lost answer included.  The *)
(* item keeps its status.                                                   *)
RecordFailure(w) ==
    /\ publish[w].phase = "calling"
    /\ attempt' = [attempt EXCEPT ![publish[w].attempt].status = "failed"]
    /\ publish' = [publish EXCEPT ![w] = NoPublish]
    /\ UNCHANGED <<workflowVars, post>>

(* The process is killed, or the second commit fails: what was committed    *)
(* stays, the rest is gone.                                                 *)
Crash(w) ==
    /\ publish[w].phase # "idle"
    /\ publish' = [publish EXCEPT ![w] = NoPublish]
    /\ UNCHANGED <<workflowVars, attempt, post>>

(* What the event loop carries on with by itself. *)
Progress(w) ==
    \/ ReadAttempts(w)
    \/ \E a \in Attempts : Claim(w, a)
    \/ LoseClaim(w)
    \/ CallPublisher(w)
    \/ RecordSuccess(w)
    \/ RecordFailure(w)

PublishStep(w) ==
    \/ \E i \in Items : ReadForPublish(w, i)
    \/ Refuse(w)
    \/ Progress(w)
    \/ Crash(w)

Next ==
    \/ Generate /\ UNCHANGED publishVars
    \/ \E w \in Workers :
          \/ publish[w].phase = "idle" /\ WorkflowStep(w) /\ UNCHANGED publishVars
          \/ PublishStep(w)
    \/ \E a \in Attempts : NetworkPosts(a)

Spec == Init /\ [][Next]_vars

(* Every await of publish returns: the database answers and each network    *)
(* call has a timeout.  A killed process is Crash.  Users and the network   *)
(* owe nothing.                                                             *)
FairSpec == Spec /\ \A w \in Workers : WF_vars(Progress(w))

-----------------------------------------------------------------------------
(* Properties that hold however many requests are in flight. *)

(* Two posts of one item can both be on the network only if the attempt of  *)
(* all but one of them was recorded as failed: a lost race, a crash or a    *)
(* status changed behind the request's back never sends a post twice.       *)
DuplicateOnlyAfterFailure ==
    \A a, b \in Attempts :
        /\ a # b
        /\ attempt[a].item = attempt[b].item
        /\ post[a].state = "live" /\ post[b].state = "live"
        => "failed" \in {attempt[a].status, attempt[b].status}

(* "We may have posted" always has a committed row: no call is ever made,   *)
(* and no post ever appears, for an attempt the database does not know.     *)
EvidenceBeforeCall ==
    \A a \in Attempts : post[a].state # "none" => attempt[a].status # "unused"

(* An item that says published has a succeeded attempt whose post is live,  *)
(* whatever stale writes the workflow commits around it.                    *)
PublishedIsLive ==
    \A i \in Items : status[i] = "published" =>
        \E a \in AttemptsOf(i) : attempt[a].status = "succeeded" /\ post[a].state = "live"

(* The inductive invariant behind these three: the index keeps one claim    *)
(* per item, a request in the middle of publishing owns a pending attempt   *)
(* that no other request owns, and only a live post is recorded as success. *)
UniqueClaim == \A i \in Items : \A a, b \in Claims(i) : a = b

RequestsOwnTheirAttempts ==
    /\ \A w \in Workers : publish[w].attempt \in Attempts =>
           /\ attempt[publish[w].attempt].status = "pending"
           /\ publish[w].phase = "claimed" <=> post[publish[w].attempt].state = "none"
    /\ \A v, w \in Workers :
           publish[v].attempt \in Attempts /\ publish[v].attempt = publish[w].attempt
               => v = w

SuccessIsLive ==
    \A a \in Attempts : attempt[a].status = "succeeded" => post[a].state = "live"

IInv == /\ TypeOK
        /\ UniqueClaim
        /\ RequestsOwnTheirAttempts
        /\ EvidenceBeforeCall
        /\ SuccessIsLive
        /\ PublishedIsLive

(* Once an attempt of an item has succeeded, no later request claims that   *)
(* item again, not even after archive, restore and a new approval.          *)
NeverRepublished ==
    [][\A i \in Items :
          (\E a \in AttemptsOf(i) : attempt[a].status = "succeeded")
              => AttemptsOf(i)' = AttemptsOf(i)]_vars

(* A pending attempt whose request is gone. *)
Orphaned(a) == /\ attempt[a].status = "pending"
               /\ \A w \in Workers : publish[w].attempt # a

(* The evidence of a request that died mid-flight is never rewritten: an    *)
(* orphaned attempt stays pending, and stays orphaned.                      *)
EvidenceIsKept ==
    [][\A a \in Attempts : Orphaned(a) => Orphaned(a)']_vars

(* An attempt that was begun is resolved, or its request died. *)
AttemptResolves ==
    \A a \in Attempts :
        attempt[a].status = "pending" ~> (attempt[a].status # "pending" \/ Orphaned(a))

(* The rows, seen as the right to send an item. *)
TheOne(S) == IF S = {} THEN NoAttempt ELSE CHOOSE a \in S : TRUE
Holder(i) == TheOne(Claims(i))
Made == {a \in Attempts : attempt[a].status # "unused"}
Live == {a \in Attempts : post[a].state = "live"}
Confirmed == {i \in Items : \E a \in AttemptsOf(i) : attempt[a].status = "succeeded"}

Once == INSTANCE PublishOnce WITH holder <- [i \in Items |-> Holder(i)], made <- Made,
                                  live <- Live, confirmed <- Confirmed

(* The service implements PublishOnce: index, statuses and commits together *)
(* act as one right per item.                                               *)
ImplementsPublishOnce == Once!OnceSpec

-----------------------------------------------------------------------------
(* Properties that need requests to be served one at a time. *)

(* No text leaves the application that no approve request has read. *)
SentTextWasReviewed ==
    \A a \in Attempts : post[a].state # "none" => post[a].text \in reviewed[attempt[a].item]

(* A failed attempt leaves its item approved, ready to be retried. *)
FailureKeepsApproved ==
    [][\A a \in Attempts :
          attempt[a].status = "pending" /\ attempt'[a].status = "failed"
              => status'[attempt[a].item] = "approved"]_vars

(* A manual edit reopens the review cycle: whenever the text of an existing  *)
(* item changes, the item is a draft afterwards.                             *)
EditReopensReview ==
    [][\A i \in Items : Exists(i) /\ text'[i] # text[i] => status'[i] = "draft"]_vars

(* The statuses, seen as whether a text may change. *)
StageOf ==
    [absent |-> "absent", draft |-> "open", pending_approval |-> "open",
     rejected |-> "open", approved |-> "approved", published |-> "published",
     archived |-> "closed"]

Stages == [i \in Items |-> StageOf[status[i]]]
SentTexts == [i \in Items |->
                 {post[a].text : a \in {b \in AttemptsOf(i) : post[b].state # "none"}}]

Cycle == INSTANCE ReviewCycle WITH stage <- Stages, says <- text,
                                   sent <- SentTexts, confirmed <- Confirmed

(* Review and publishing together implement ReviewCycle: an approved text is *)
(* frozen until it is withdrawn, nothing else goes out, and a published item *)
(* says what went out.                                                       *)
ImplementsReviewCycle == Cycle!CycleSpec

(* Only an approved item becomes published. *)
PublishedOnlyFromApproved ==
    [][\A i \in Items :
          status'[i] = "published" => status[i] \in {"approved", "published"}]_vars

=============================================================================
