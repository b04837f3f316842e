------------------------- MODULE PublishServiceProofs ------------------------
(***************************************************************************)
(* Theorems about PublishService, for every set of items, texts, workers   *)
(* and attempts.                                                           *)
(***************************************************************************)
EXTENDS PublishService, TLAPS

-----------------------------------------------------------------------------
(* Type correctness. *)

(* A move never makes an item published or absent: that is publishing's. *)
LEMMA TargetStatus ==
    \A op \in Moves : Target[op] \in Statuses \ {"published"}
  BY DEF Moves, Target, Statuses

LEMMA WorkflowTypeInit == WorkflowInit => WorkflowTypeOK
  BY TextAssumption DEF WorkflowInit, WorkflowTypeOK, Request, NoRequest, Exists, Statuses

LEMMA WorkflowTypeStep ==
    ASSUME NEW w \in Workers, WorkflowTypeOK, WorkflowStep(w)
    PROVE  WorkflowTypeOK'
  <1> USE TextAssumption DEF WorkflowTypeOK, Request, NoRequest, Exists
  <1>1. ASSUME NEW i \in Items, NEW op \in Moves, ReadForMove(w, i, op)
        PROVE  WorkflowTypeOK'
    BY <1>1 DEF ReadForMove, ReadItem, Ops, Moves, Statuses
  <1>2. ASSUME NEW i \in Items, NEW body \in Texts, ReadForEdit(w, i, body)
        PROVE  WorkflowTypeOK'
    BY <1>2 DEF ReadForEdit, ReadItem, Ops, Statuses
  <1>3. ASSUME NEW i \in Items, NEW op \in {"duplicate", "regenerate"},
               ReadForCopy(w, i, op)
        PROVE  WorkflowTypeOK'
    BY <1>3 DEF ReadForCopy, ReadItem, Ops, Statuses
  <1>4. ASSUME NEW j \in Items, CommitCopy(w, j)
        PROVE  WorkflowTypeOK'
    BY <1>4 DEF CommitCopy, Ops, Statuses
  <1>5. CASE CommitMove(w)
    BY <1>5, TargetStatus DEF CommitMove, Ops, Moves, Statuses
  <1>6. CASE CommitEdit(w)
    BY <1>6 DEF CommitEdit, Ops, Statuses
  <1>7. CASE Abandon(w)
    BY <1>7 DEF Abandon, Ops, Statuses
  <1>8. QED
    BY <1>1, <1>2, <1>3, <1>4, <1>5, <1>6, <1>7 DEF WorkflowStep

LEMMA GenerateType ==
    ASSUME WorkflowTypeOK, Generate
    PROVE  WorkflowTypeOK'
  BY TextAssumption DEF WorkflowTypeOK, Generate, Request, Exists, Statuses

(* No request ever takes an item out of existence. *)
LEMMA ItemsStay ==
    ASSUME WorkflowTypeOK, Generate \/ \E w \in Workers : WorkflowStep(w),
           NEW i \in Items, Exists(i)
    PROVE  Exists(i)'
  <1> USE DEF WorkflowTypeOK, Exists, Statuses
  <1>1. CASE Generate
    BY <1>1 DEF Generate
  <1>2. ASSUME NEW w \in Workers, CommitMove(w)
        PROVE  Exists(i)'
    BY <1>2, TargetStatus DEF CommitMove
  <1>3. ASSUME NEW w \in Workers, WorkflowStep(w), ~CommitMove(w)
        PROVE  Exists(i)'
    BY <1>3 DEF WorkflowStep, ReadForMove, ReadForEdit, ReadForCopy, ReadItem,
                CommitCopy, CommitEdit, Abandon
  <1>4. QED
    BY <1>1, <1>2, <1>3

LEMMA PublishTypeWorkflow ==
    ASSUME TypeOK, UNCHANGED publishVars,
           \/ Generate
           \/ \E w \in Workers : publish[w].phase = "idle" /\ WorkflowStep(w)
    PROVE  PublishTypeOK'
  <1>1. attempt' = attempt /\ publish' = publish /\ post' = post
    BY DEF publishVars
  <1>2. \A w \in Workers : publish[w].phase # "idle" => request'[w].op = "none"
    BY DEF TypeOK, WorkflowTypeOK, PublishTypeOK, Generate, WorkflowStep, ReadForMove,
           ReadForEdit, ReadForCopy, ReadItem, CommitCopy, CommitMove, CommitEdit,
           Abandon, NoRequest
  <1>3. \A w \in Workers : publish[w].phase # "idle" => status'[publish[w].item] # "absent"
    <2>1. \A i \in Items : Exists(i) => Exists(i)'
      BY ItemsStay DEF TypeOK
    <2>2. QED
      BY <2>1 DEF TypeOK, PublishTypeOK, Exists
  <1>4. QED
    BY <1>1, <1>2, <1>3 DEF TypeOK, PublishTypeOK, Exists

LEMMA WorkflowTypeUnchanged ==
    ASSUME WorkflowTypeOK, UNCHANGED workflowVars
    PROVE  WorkflowTypeOK'
  BY DEF WorkflowTypeOK, workflowVars, Exists

LEMMA PublishTypeStep ==
    ASSUME TypeOK, NEW w \in Workers, PublishStep(w)
    PROVE  TypeOK'
  <1> USE ItemAssumption, TextAssumption, AttemptAssumption
      DEF TypeOK, PublishTypeOK, AttemptRow, PublishRequest, Post, Phases,
          AttemptStatuses
  <1>1. ASSUME NEW i \in Items, ReadForPublish(w, i)
        PROVE  TypeOK'
    BY <1>1, WorkflowTypeUnchanged
    DEF ReadForPublish, WorkflowTypeOK, workflowVars, Exists, Statuses
  <1>2. CASE ReadAttempts(w)
    BY <1>2, WorkflowTypeUnchanged DEF ReadAttempts, NoPublish, workflowVars, Exists
  <1>3. ASSUME NEW a \in Attempts, Claim(w, a)
        PROVE  TypeOK'
    BY <1>3, WorkflowTypeUnchanged DEF Claim, workflowVars, Exists
  <1>4. CASE Refuse(w) \/ LoseClaim(w) \/ Crash(w)
    <2>1. publish' = [publish EXCEPT ![w] = NoPublish] /\ UNCHANGED <<workflowVars, attempt, post>>
      BY <1>4 DEF Refuse, LoseClaim, Crash
    <2>2. QED
      BY <2>1, WorkflowTypeUnchanged DEF NoPublish, workflowVars, Exists
  <1>5. CASE CallPublisher(w)
    <2> DEFINE a == publish[w].attempt
    <2>1. a \in Attempts /\ publish[w].text \in Texts
      BY <1>5 DEF CallPublisher
    <2>2. UNCHANGED <<workflowVars, attempt>>
      BY <1>5 DEF CallPublisher
    <2>3. post' = [post EXCEPT ![a] = [state |-> "sent", text |-> publish[w].text]]
      BY <1>5 DEF CallPublisher
    <2>4. publish' = [publish EXCEPT ![w] = [publish[w] EXCEPT !.phase = "calling"]]
      BY <1>5 DEF CallPublisher
    <2>5. post' \in [Attempts -> Post]
            /\ \A b \in Attempts : post'[b].state = "none" <=> post'[b].text = NoText
      BY <2>1, <2>3
    <2>6. publish' \in [Workers -> PublishRequest]
            /\ publish'[w].phase = "calling" /\ publish'[w].item = publish[w].item
            /\ publish'[w].text = publish[w].text /\ publish'[w].attempt = a
            /\ \A v \in Workers \ {w} : publish'[v] = publish[v]
      BY <2>4
    <2>7. QED
      BY <1>5, <2>1, <2>2, <2>5, <2>6, WorkflowTypeUnchanged
      DEF CallPublisher, workflowVars, Exists
  <1>6. CASE RecordSuccess(w)
    <2>1. WorkflowTypeOK'
      BY <1>6 DEF RecordSuccess, WorkflowTypeOK, Exists, Statuses
    <2>2. \A i \in Items : Exists(i) => Exists(i)'
      BY <1>6 DEF RecordSuccess, WorkflowTypeOK, Exists
    <2>3. PublishTypeOK'
      BY <1>6, <2>2 DEF RecordSuccess, NoPublish, Exists
    <2>4. QED
      BY <2>1, <2>3
  <1>7. CASE RecordFailure(w)
    BY <1>7, WorkflowTypeUnchanged DEF RecordFailure, NoPublish, workflowVars, Exists
  <1>8. QED
    BY <1>1, <1>2, <1>3, <1>4, <1>5, <1>6, <1>7 DEF PublishStep, Progress

LEMMA TypeStep == TypeOK /\ [Next]_vars => TypeOK'
  <1> SUFFICES ASSUME TypeOK, [Next]_vars PROVE TypeOK'
    OBVIOUS
  <1>1. CASE Generate /\ UNCHANGED publishVars
    BY <1>1, GenerateType, PublishTypeWorkflow DEF TypeOK
  <1>2. ASSUME NEW w \in Workers, publish[w].phase = "idle", WorkflowStep(w),
               UNCHANGED publishVars
        PROVE  TypeOK'
    BY <1>2, WorkflowTypeStep, PublishTypeWorkflow DEF TypeOK
  <1>3. ASSUME NEW w \in Workers, PublishStep(w)
        PROVE  TypeOK'
    BY <1>3, PublishTypeStep
  <1>4. ASSUME NEW a \in Attempts, NetworkPosts(a)
        PROVE  TypeOK'
    BY <1>4, WorkflowTypeUnchanged
    DEF NetworkPosts, TypeOK, PublishTypeOK, Post, workflowVars, Exists
  <1>5. CASE UNCHANGED vars
    BY <1>5 DEF vars, workflowVars, publishVars, TypeOK, WorkflowTypeOK, PublishTypeOK, Exists
  <1>6. QED
    BY <1>1, <1>2, <1>3, <1>4, <1>5 DEF Next

LEMMA InitTypeOK == Init => TypeOK
  BY WorkflowTypeInit, ItemAssumption, TextAssumption, AttemptAssumption
  DEF Init, TypeOK, PublishTypeOK, AttemptRow, PublishRequest, Post, NoPublish,
      WorkflowInit, NoRequest, Phases, AttemptStatuses

(* Every reachable state is well typed: attempt rows name their items and   *)
(* each worker serves at most one request.                                  *)
THEOREM TypeCorrect == Spec => []TypeOK
  BY InitTypeOK, TypeStep, PTL DEF Spec

-----------------------------------------------------------------------------
(* The inductive invariant. *)

(* Everything IInv says apart from types reads only these variables. *)
LEMMA RestUnchanged ==
    ASSUME IInv, UNCHANGED <<status, attempt, publish, post>>
    PROVE  /\ UniqueClaim' /\ RequestsOwnTheirAttempts' /\ EvidenceBeforeCall'
           /\ SuccessIsLive' /\ PublishedIsLive'
  BY DEF IInv, UniqueClaim, Claims, AttemptsOf, RequestsOwnTheirAttempts,
         EvidenceBeforeCall, SuccessIsLive, PublishedIsLive

(* The review workflow never publishes anything. *)
LEMMA WorkflowPublishesNothing ==
    ASSUME WorkflowTypeOK, Generate \/ \E w \in Workers : WorkflowStep(w)
    PROVE  \A i \in Items : status'[i] = "published" => status[i] = "published"
  <1> USE DEF WorkflowTypeOK, Statuses
  <1>1. CASE Generate
    BY <1>1 DEF Generate
  <1>2. ASSUME NEW w \in Workers, CommitMove(w)
        PROVE  \A i \in Items : status'[i] = "published" => status[i] = "published"
    BY <1>2, TargetStatus DEF CommitMove
  <1>3. ASSUME NEW w \in Workers, WorkflowStep(w), ~CommitMove(w)
        PROVE  \A i \in Items : status'[i] = "published" => status[i] = "published"
    BY <1>3 DEF WorkflowStep, ReadForMove, ReadForEdit, ReadForCopy, ReadItem,
                CommitCopy, CommitEdit, Abandon
  <1>4. QED
    BY <1>1, <1>2, <1>3

LEMMA WorkflowKeepsIInv ==
    ASSUME IInv, TypeOK', UNCHANGED publishVars,
           Generate \/ \E w \in Workers : WorkflowStep(w)
    PROVE  IInv'
  <1>1. attempt' = attempt /\ publish' = publish /\ post' = post
    BY DEF publishVars
  <1>2. \A i \in Items : status'[i] = "published" => status[i] = "published"
    BY WorkflowPublishesNothing DEF IInv, TypeOK
  <1>3. PublishedIsLive'
    BY <1>1, <1>2 DEF IInv, PublishedIsLive, AttemptsOf
  <1>4. UniqueClaim' /\ RequestsOwnTheirAttempts' /\ EvidenceBeforeCall' /\ SuccessIsLive'
    BY <1>1 DEF IInv, UniqueClaim, Claims, AttemptsOf, RequestsOwnTheirAttempts,
                EvidenceBeforeCall, SuccessIsLive
  <1>5. QED
    BY <1>3, <1>4 DEF IInv

(* A step that only changes what one worker has read, or lets it go. *)
LEMMA ForgettingKeepsIInv ==
    ASSUME IInv, TypeOK', NEW w \in Workers, UNCHANGED <<status, attempt, post>>,
           NEW p, publish' = [publish EXCEPT ![w] = p], p.attempt = NoAttempt
    PROVE  IInv'
  <1>1. UniqueClaim' /\ EvidenceBeforeCall' /\ SuccessIsLive' /\ PublishedIsLive'
    BY DEF IInv, UniqueClaim, Claims, AttemptsOf, EvidenceBeforeCall, SuccessIsLive,
           PublishedIsLive
  <1>2. /\ publish'[w].attempt = NoAttempt
        /\ \A v \in Workers \ {w} : publish'[v] = publish[v]
    BY DEF IInv, TypeOK, PublishTypeOK
  <1>3. RequestsOwnTheirAttempts'
    BY <1>2, AttemptAssumption DEF IInv, RequestsOwnTheirAttempts
  <1>4. QED
    BY <1>1, <1>3 DEF IInv

(* A step that ends one worker's attempt a with the status s. *)
LEMMA EndingKeepsOwnership ==
    ASSUME IInv, NEW w \in Workers, publish[w].attempt \in Attempts, post' = post,
           \A b \in Attempts \ {publish[w].attempt} : attempt'[b] = attempt[b],
           publish' = [publish EXCEPT ![w] = NoPublish],
           attempt'[publish[w].attempt].item = attempt[publish[w].attempt].item
    PROVE  RequestsOwnTheirAttempts' /\ UniqueClaim'
  <1>1. /\ publish'[w].attempt = NoAttempt
        /\ \A v \in Workers \ {w} : publish'[v] = publish[v]
    BY DEF IInv, TypeOK, PublishTypeOK, NoPublish
  <1>2. \A v \in Workers \ {w} : publish[v].attempt # publish[w].attempt
    BY DEF IInv, RequestsOwnTheirAttempts
  <1>3. RequestsOwnTheirAttempts'
    BY <1>1, <1>2, AttemptAssumption DEF IInv, RequestsOwnTheirAttempts
  <1>4. attempt[publish[w].attempt].status = "pending"
    BY DEF IInv, RequestsOwnTheirAttempts
  <1>5. \A i \in Items : Claims(i)' \subseteq Claims(i)
    BY <1>4 DEF Claims, AttemptsOf, Indexed
  <1>6. UniqueClaim'
    BY <1>5 DEF IInv, UniqueClaim
  <1>7. QED
    BY <1>3, <1>6

LEMMA ClaimKeepsIInv ==
    ASSUME IInv, TypeOK', NEW w \in Workers, NEW a \in Attempts, Claim(w, a)
    PROVE  IInv'
  <1>1. /\ attempt'[a].status = "pending" /\ attempt'[a].item = publish[w].item
        /\ \A b \in Attempts \ {a} : attempt'[b] = attempt[b]
    BY DEF Claim, IInv, TypeOK, PublishTypeOK
  <1>2. /\ publish'[w].attempt = a /\ publish'[w].phase = "claimed"
        /\ \A v \in Workers \ {w} : publish'[v] = publish[v]
    BY DEF Claim, IInv, TypeOK, PublishTypeOK, PublishRequest
  <1>3. status' = status /\ post' = post
    BY DEF Claim, workflowVars
  <1>4. attempt[a].status = "unused" /\ Claims(publish[w].item) = {}
    BY DEF Claim
  <1>5. UniqueClaim'
    <2>1. \A i \in Items : \A b \in Claims(i)' : b # a => b \in Claims(i)
      BY <1>1 DEF Claims, AttemptsOf
    <2>2. \A i \in Items : a \in Claims(i)' => i = publish[w].item
      BY <1>1 DEF Claims, AttemptsOf
    <2>3. QED
      BY <2>1, <2>2, <1>4 DEF IInv, UniqueClaim
  <1>6. post[a].state = "none"
    BY <1>4 DEF IInv, EvidenceBeforeCall
  <1>7. \A v \in Workers : publish[v].attempt # a
    BY <1>4 DEF IInv, RequestsOwnTheirAttempts
  <1>8. RequestsOwnTheirAttempts'
    BY <1>1, <1>2, <1>3, <1>6, <1>7 DEF IInv, RequestsOwnTheirAttempts
  <1>9. EvidenceBeforeCall' /\ SuccessIsLive'
    BY <1>1, <1>3 DEF IInv, EvidenceBeforeCall, SuccessIsLive
  <1>10. PublishedIsLive'
    <2>1. \A b \in Attempts : attempt[b].status = "succeeded" => attempt'[b] = attempt[b]
      BY <1>1, <1>4
    <2>2. QED
      BY <2>1, <1>3 DEF IInv, PublishedIsLive, AttemptsOf
  <1>11. QED
    BY <1>5, <1>8, <1>9, <1>10 DEF IInv

LEMMA CallKeepsIInv ==
    ASSUME IInv, TypeOK', NEW w \in Workers, CallPublisher(w)
    PROVE  IInv'
  <1> DEFINE a == publish[w].attempt
  <1>1. a \in Attempts /\ post[a].state = "none" /\ attempt[a].status = "pending"
    BY DEF CallPublisher, IInv, TypeOK, PublishTypeOK, RequestsOwnTheirAttempts
  <1>2. attempt' = attempt /\ status' = status
    BY DEF CallPublisher, workflowVars
  <1>3. post'[a].state = "sent" /\ \A b \in Attempts \ {a} : post'[b] = post[b]
    BY <1>1 DEF CallPublisher, IInv, TypeOK, PublishTypeOK
  <1>4. /\ publish'[w].attempt = a /\ publish'[w].phase = "calling"
        /\ \A v \in Workers \ {w} : publish'[v] = publish[v]
    BY DEF CallPublisher, IInv, TypeOK, PublishTypeOK, PublishRequest
  <1>5. \A v \in Workers \ {w} : publish[v].attempt # a
    BY <1>1 DEF IInv, RequestsOwnTheirAttempts
  <1> HIDE DEF a
  <1>6. RequestsOwnTheirAttempts'
    BY <1>1, <1>2, <1>3, <1>4, <1>5 DEF IInv, RequestsOwnTheirAttempts
  <1>7. UniqueClaim'
    BY <1>2 DEF IInv, UniqueClaim, Claims, AttemptsOf
  <1>8. EvidenceBeforeCall' /\ SuccessIsLive'
    BY <1>1, <1>2, <1>3 DEF IInv, EvidenceBeforeCall, SuccessIsLive
  <1>9. PublishedIsLive'
    BY <1>1, <1>2, <1>3 DEF IInv, PublishedIsLive, AttemptsOf
  <1>10. QED
    BY <1>6, <1>7, <1>8, <1>9 DEF IInv

LEMMA SuccessKeepsIInv ==
    ASSUME IInv, TypeOK', NEW w \in Workers, RecordSuccess(w)
    PROVE  IInv'
  <1> DEFINE a == publish[w].attempt
  <1>1. a \in Attempts /\ attempt[a].item = publish[w].item
    BY DEF RecordSuccess, IInv, TypeOK, PublishTypeOK
  <1>2. post' = post /\ post[a].state = "live"
    BY DEF RecordSuccess
  <1>3. /\ attempt'[a].status = "succeeded" /\ attempt'[a].item = attempt[a].item
        /\ \A b \in Attempts \ {a} : attempt'[b] = attempt[b]
    BY <1>1 DEF RecordSuccess, IInv, TypeOK, PublishTypeOK, AttemptRow
  <1>4. \A i \in Items : i # publish[w].item => status'[i] = status[i]
    BY DEF RecordSuccess, IInv, TypeOK, WorkflowTypeOK
  <1>5. publish' = [publish EXCEPT ![w] = NoPublish]
    BY DEF RecordSuccess
  <1>6. UniqueClaim' /\ RequestsOwnTheirAttempts'
    BY <1>1, <1>2, <1>3, <1>5, EndingKeepsOwnership
  <1> HIDE DEF a
  <1>7. EvidenceBeforeCall' /\ SuccessIsLive'
    BY <1>1, <1>2, <1>3 DEF IInv, EvidenceBeforeCall, SuccessIsLive
  <1>8. PublishedIsLive'
    <2> SUFFICES ASSUME NEW i \in Items, status'[i] = "published"
                 PROVE  \E b \in AttemptsOf(i)' : attempt'[b].status = "succeeded"
                                                   /\ post'[b].state = "live"
      BY DEF PublishedIsLive
    <2>1. CASE i = publish[w].item
      BY <2>1, <1>1, <1>2, <1>3 DEF AttemptsOf
    <2>2. CASE i # publish[w].item
      <3>1. PICK b \in AttemptsOf(i) : attempt[b].status = "succeeded" /\ post[b].state = "live"
        BY <2>2, <1>4 DEF IInv, PublishedIsLive
      <3>2. b # a
        BY <3>1, <1>1, <2>2 DEF AttemptsOf
      <3>3. QED
        BY <3>1, <3>2, <1>2, <1>3 DEF AttemptsOf
    <2>3. QED
      BY <2>1, <2>2
  <1>9. QED
    BY <1>6, <1>7, <1>8 DEF IInv

LEMMA FailureKeepsIInv ==
    ASSUME IInv, TypeOK', NEW w \in Workers, RecordFailure(w)
    PROVE  IInv'
  <1> DEFINE a == publish[w].attempt
  <1>1. a \in Attempts /\ attempt[a].status = "pending"
    BY DEF RecordFailure, IInv, TypeOK, PublishTypeOK, RequestsOwnTheirAttempts
  <1>2. post' = post /\ status' = status
    BY DEF RecordFailure, workflowVars
  <1>3. /\ attempt'[a].status = "failed" /\ attempt'[a].item = attempt[a].item
        /\ \A b \in Attempts \ {a} : attempt'[b] = attempt[b]
    BY <1>1 DEF RecordFailure, IInv, TypeOK, PublishTypeOK, AttemptRow
  <1>4. publish' = [publish EXCEPT ![w] = NoPublish]
    BY DEF RecordFailure
  <1>5. UniqueClaim' /\ RequestsOwnTheirAttempts'
    BY <1>1, <1>2, <1>3, <1>4, EndingKeepsOwnership
  <1> HIDE DEF a
  <1>6. EvidenceBeforeCall' /\ SuccessIsLive'
    BY <1>1, <1>2, <1>3 DEF IInv, EvidenceBeforeCall, SuccessIsLive
  <1>7. PublishedIsLive'
    BY <1>1, <1>2, <1>3 DEF IInv, PublishedIsLive, AttemptsOf
  <1>8. QED
    BY <1>5, <1>6, <1>7 DEF IInv

LEMMA PublishKeepsIInv ==
    ASSUME IInv, TypeOK', NEW w \in Workers, PublishStep(w)
    PROVE  IInv'
  <1>1. ASSUME NEW i \in Items, ReadForPublish(w, i)
        PROVE  IInv'
    <2> DEFINE p == [phase |-> "item_read", item |-> i, status |-> status[i],
                     text |-> text[i], attempt |-> NoAttempt]
    <2>1. /\ UNCHANGED <<status, attempt, post>> /\ p.attempt = NoAttempt
          /\ publish' = [publish EXCEPT ![w] = p]
      BY <1>1 DEF ReadForPublish, workflowVars
    <2> HIDE DEF p
    <2>2. QED
      BY <2>1, ForgettingKeepsIInv
  <1>2. ASSUME UNCHANGED <<status, attempt, post>>, publish' = [publish EXCEPT ![w] = NoPublish]
        PROVE  IInv'
    <2>1. NoPublish.attempt = NoAttempt
      BY DEF NoPublish
    <2>2. QED
      BY <1>2, <2>1, ForgettingKeepsIInv
  <1>3. CASE Refuse(w) \/ LoseClaim(w) \/ Crash(w)
    BY <1>2, <1>3 DEF Refuse, LoseClaim, Crash, workflowVars
  <1>4. CASE ReadAttempts(w)
    <2> DEFINE p == [publish[w] EXCEPT !.phase = "ready"]
    <2>1. UNCHANGED <<status, attempt, post>>
      BY <1>4 DEF ReadAttempts, workflowVars
    <2>2. publish[w].attempt = NoAttempt /\ publish[w] \in PublishRequest
      BY <1>4 DEF ReadAttempts, IInv, TypeOK, PublishTypeOK, PublishRequest
    <2>3. p.attempt = NoAttempt
      BY <2>2 DEF PublishRequest
    <2>4. publish' = [publish EXCEPT ![w] = p] \/ publish' = [publish EXCEPT ![w] = NoPublish]
      BY <1>4 DEF ReadAttempts
    <2> HIDE DEF p
    <2>5. QED
      BY <1>2, <2>1, <2>3, <2>4, ForgettingKeepsIInv
  <1>5. QED
    BY <1>1, <1>3, <1>4, ClaimKeepsIInv, CallKeepsIInv, SuccessKeepsIInv, FailureKeepsIInv
    DEF PublishStep, Progress

LEMMA NetworkKeepsIInv ==
    ASSUME IInv, TypeOK', NEW a \in Attempts, NetworkPosts(a)
    PROVE  IInv'
  <1>1. attempt' = attempt /\ publish' = publish /\ status' = status
    BY DEF NetworkPosts, workflowVars
  <1>2. /\ post[a].state = "sent" /\ post'[a].state = "live"
        /\ \A b \in Attempts \ {a} : post'[b] = post[b]
    BY DEF NetworkPosts, IInv, TypeOK, PublishTypeOK, Post
  <1>3. UniqueClaim'
    BY <1>1 DEF IInv, UniqueClaim, Claims, AttemptsOf
  <1>4. \A b \in Attempts : (post'[b].state = "none") <=> (post[b].state = "none")
    BY <1>2
  <1>5. RequestsOwnTheirAttempts'
    BY <1>1, <1>4 DEF IInv, RequestsOwnTheirAttempts
  <1>6. \A b \in Attempts : post[b].state = "live" => post'[b].state = "live"
    BY <1>2
  <1>7. EvidenceBeforeCall' /\ SuccessIsLive'
    BY <1>1, <1>4, <1>6 DEF IInv, EvidenceBeforeCall, SuccessIsLive
  <1>8. PublishedIsLive'
    BY <1>1, <1>6 DEF IInv, PublishedIsLive, AttemptsOf
  <1>9. QED
    BY <1>3, <1>5, <1>7, <1>8 DEF IInv

LEMMA InitIInv == Init => IInv
  <1> SUFFICES ASSUME Init PROVE IInv
    OBVIOUS
  <1>1. TypeOK
    BY InitTypeOK
  <1>2. UniqueClaim /\ RequestsOwnTheirAttempts /\ EvidenceBeforeCall
    BY AttemptAssumption DEF Init, UniqueClaim, Claims, AttemptsOf, Indexed,
       RequestsOwnTheirAttempts, EvidenceBeforeCall, NoPublish
  <1>3. SuccessIsLive /\ PublishedIsLive
    BY DEF Init, WorkflowInit, SuccessIsLive, PublishedIsLive
  <1>4. QED
    BY <1>1, <1>2, <1>3 DEF IInv

LEMMA IInvStep == IInv /\ [Next]_vars => IInv'
  <1> SUFFICES ASSUME IInv, [Next]_vars PROVE IInv'
    OBVIOUS
  <1>1. TypeOK'
    BY TypeStep DEF IInv
  <1>2. CASE Generate /\ UNCHANGED publishVars
    BY <1>1, <1>2, WorkflowKeepsIInv
  <1>3. ASSUME NEW w \in Workers, WorkflowStep(w), UNCHANGED publishVars
        PROVE  IInv'
    BY <1>1, <1>3, WorkflowKeepsIInv
  <1>4. ASSUME NEW w \in Workers, PublishStep(w)
        PROVE  IInv'
    BY <1>1, <1>4, PublishKeepsIInv
  <1>5. ASSUME NEW a \in Attempts, NetworkPosts(a)
        PROVE  IInv'
    BY <1>1, <1>5, NetworkKeepsIInv
  <1>6. CASE UNCHANGED vars
    BY <1>1, <1>6, RestUnchanged DEF IInv, vars, workflowVars, publishVars
  <1>7. QED
    BY <1>2, <1>3, <1>4, <1>5, <1>6 DEF Next

LEMMA Invariant == Spec => []IInv
  BY InitIInv, IInvStep, PTL DEF Spec

(* "We may have posted" always has a committed row. *)
THEOREM EvidenceIsCommitted == Spec => []EvidenceBeforeCall
  <1>1. IInv => EvidenceBeforeCall
    BY DEF IInv
  <1>2. QED
    BY <1>1, Invariant, PTL

(* An item that says published has a live post behind it. *)
THEOREM PublishedItemsAreLive == Spec => []PublishedIsLive
  <1>1. IInv => PublishedIsLive
    BY DEF IInv
  <1>2. QED
    BY <1>1, Invariant, PTL

(* Two posts of one item are both live only if one attempt was recorded as  *)
(* failed: of two attempts that are neither unused nor failed, both would   *)
(* claim the item.                                                          *)
THEOREM NoSilentDuplicate == Spec => []DuplicateOnlyAfterFailure
  <1>1. IInv => DuplicateOnlyAfterFailure
    <2> SUFFICES ASSUME IInv, NEW a \in Attempts, NEW b \in Attempts, a # b,
                        attempt[a].item = attempt[b].item,
                        post[a].state = "live", post[b].state = "live",
                        attempt[a].status # "failed", attempt[b].status # "failed"
                 PROVE  FALSE
      BY DEF DuplicateOnlyAfterFailure
    <2>1. attempt[a].status # "unused" /\ attempt[b].status # "unused"
      BY DEF IInv, EvidenceBeforeCall
    <2>2. attempt[a].status \in Indexed /\ attempt[b].status \in Indexed
      BY <2>1 DEF IInv, TypeOK, PublishTypeOK, AttemptRow, AttemptStatuses, Indexed
    <2>3. attempt[a].item \in Items
      BY <2>1 DEF IInv, TypeOK, PublishTypeOK, AttemptRow
    <2>4. a \in Claims(attempt[a].item) /\ b \in Claims(attempt[a].item)
      BY <2>2 DEF Claims, AttemptsOf
    <2>5. QED
      BY <2>3, <2>4 DEF IInv, UniqueClaim
  <1>2. QED
    BY <1>1, Invariant, PTL

-----------------------------------------------------------------------------
(* What a step may do to the attempt rows. *)

(* Apart from claiming, succeeding and failing, no step touches the rows. *)
LEMMA AttemptSteps ==
    ASSUME [Next]_vars
    PROVE  \/ attempt' = attempt
           \/ \E w \in Workers : \/ \E a \in Attempts : Claim(w, a)
                                 \/ RecordSuccess(w) \/ RecordFailure(w)
  BY DEF Next, PublishStep, Progress, ReadForPublish, ReadAttempts, Refuse, LoseClaim,
         CallPublisher, Crash, NetworkPosts, vars, publishVars

(* Success and failure change the status of the row of the attempt only. *)
LEMMA ResolvedRow ==
    ASSUME IInv, NEW w \in Workers, RecordSuccess(w) \/ RecordFailure(w)
    PROVE  /\ publish[w].attempt \in Attempts
           /\ attempt[publish[w].attempt].status = "pending"
           /\ attempt[publish[w].attempt].item = publish[w].item
           /\ attempt'[publish[w].attempt].item = publish[w].item
           /\ \A b \in Attempts \ {publish[w].attempt} : attempt'[b] = attempt[b]
           /\ RecordSuccess(w) => attempt'[publish[w].attempt].status = "succeeded"
           /\ RecordFailure(w) => attempt'[publish[w].attempt].status = "failed"
  <1>1. /\ publish[w].attempt \in Attempts
        /\ attempt[publish[w].attempt].item = publish[w].item
    BY DEF RecordSuccess, RecordFailure, IInv, TypeOK, PublishTypeOK
  <1>2. attempt[publish[w].attempt].status = "pending"
    BY <1>1 DEF IInv, RequestsOwnTheirAttempts
  <1>3. QED
    BY <1>1, <1>2 DEF RecordSuccess, RecordFailure, IInv, TypeOK, PublishTypeOK, AttemptRow

LEMMA ClaimedRow ==
    ASSUME IInv, NEW w \in Workers, NEW a \in Attempts, Claim(w, a)
    PROVE  /\ attempt[a].status = "unused" /\ Claims(publish[w].item) = {}
           /\ attempt'[a].status = "pending" /\ attempt'[a].item = publish[w].item
           /\ attempt[a].item = NoItem /\ publish[w].item \in Items
           /\ \A b \in Attempts \ {a} : attempt'[b] = attempt[b]
           /\ publish'[w].attempt = a
           /\ \A v \in Workers \ {w} : publish'[v] = publish[v]
  BY DEF Claim, IInv, TypeOK, PublishTypeOK, PublishRequest

(* After one success no request ever claims the item again. *)
THEOREM NeverTwice == Spec => NeverRepublished
  <1>1. IInv /\ [Next]_vars =>
           \A i \in Items : (\E a \in AttemptsOf(i) : attempt[a].status = "succeeded")
                                => AttemptsOf(i)' = AttemptsOf(i)
    <2> SUFFICES ASSUME IInv, [Next]_vars, NEW i \in Items,
                        NEW s \in AttemptsOf(i), attempt[s].status = "succeeded"
                 PROVE  AttemptsOf(i)' = AttemptsOf(i)
      OBVIOUS
    <2>1. CASE attempt' = attempt
      BY <2>1 DEF AttemptsOf
    <2>2. ASSUME NEW w \in Workers, NEW a \in Attempts, Claim(w, a)
          PROVE  AttemptsOf(i)' = AttemptsOf(i)
      <3>1. s \in Claims(i)
        BY DEF Claims, Indexed
      <3>2. /\ Claims(publish[w].item) = {} /\ attempt[a].item = NoItem
            /\ attempt'[a].item = publish[w].item
            /\ \A b \in Attempts \ {a} : attempt'[b] = attempt[b]
        BY <2>2, ClaimedRow
      <3>3. publish[w].item # i /\ NoItem # i
        BY <3>1, <3>2, ItemAssumption
      <3>4. QED
        BY <3>2, <3>3 DEF AttemptsOf
    <2>3. ASSUME NEW w \in Workers, RecordSuccess(w) \/ RecordFailure(w)
          PROVE  AttemptsOf(i)' = AttemptsOf(i)
      BY <2>3, ResolvedRow DEF AttemptsOf
    <2>4. QED
      BY <2>1, <2>2, <2>3, AttemptSteps
  <1>2. QED
    BY <1>1, Invariant, PTL DEF Spec, NeverRepublished

(* The row of a request that died stays as the request left it. *)
THEOREM EvidenceKept == Spec => EvidenceIsKept
  <1>1. IInv /\ [Next]_vars => \A a \in Attempts : Orphaned(a) => Orphaned(a)'
    <2> SUFFICES ASSUME IInv, [Next]_vars, NEW a \in Attempts, Orphaned(a)
                 PROVE  Orphaned(a)'
      OBVIOUS
    <2>1. ASSUME NEW w \in Workers, NEW b \in Attempts, Claim(w, b)
          PROVE  Orphaned(a)'
      <3>1. /\ attempt[b].status = "unused" /\ publish'[w].attempt = b
            /\ \A c \in Attempts \ {b} : attempt'[c] = attempt[c]
            /\ \A v \in Workers \ {w} : publish'[v] = publish[v]
        BY <2>1, ClaimedRow
      <3>2. QED
        BY <3>1 DEF Orphaned
    <2>2. ASSUME NEW w \in Workers, RecordSuccess(w) \/ RecordFailure(w)
          PROVE  Orphaned(a)'
      <3>1. publish' = [publish EXCEPT ![w] = NoPublish]
        BY <2>2 DEF RecordSuccess, RecordFailure
      <3>2. \A v \in Workers : publish'[v].attempt # a
        BY <3>1, AttemptAssumption DEF Orphaned, NoPublish, IInv, TypeOK, PublishTypeOK
      <3>3. QED
        BY <2>2, <3>2, ResolvedRow DEF Orphaned
    <2>3. ASSUME attempt' = attempt
          PROVE  \A w \in Workers : publish'[w].attempt \in {publish[w].attempt, NoAttempt}
      <3>1. \A w \in Workers : publish[w] \in PublishRequest
        BY DEF IInv, TypeOK, PublishTypeOK
      <3>2. ASSUME NEW w \in Workers, NEW b \in Attempts, Claim(w, b)
            PROVE  FALSE
        <4>1. attempt[b].status = "unused" /\ attempt'[b].status = "pending"
          BY <3>2, ClaimedRow
        <4>2. QED
          BY <2>3, <4>1
      <3>3. ASSUME NEW w \in Workers, RecordSuccess(w) \/ RecordFailure(w)
            PROVE  FALSE
        BY <2>3, <3>3, ResolvedRow
      <3>4. CASE UNCHANGED publish
        BY <3>4
      <3>5. ASSUME NEW v \in Workers,
                   \/ \E i \in Items : ReadForPublish(v, i)
                   \/ ReadAttempts(v) \/ Refuse(v) \/ LoseClaim(v) \/ CallPublisher(v)
                   \/ Crash(v)
            PROVE  /\ publish'[v].attempt \in {publish[v].attempt, NoAttempt}
                   /\ \A w \in Workers \ {v} : publish'[w] = publish[w]
        BY <3>1, <3>5 DEF IInv, TypeOK, PublishTypeOK, ReadForPublish, ReadAttempts, Refuse,
           LoseClaim, CallPublisher, Crash, NoPublish, PublishRequest
      <3>6. QED
        BY <3>2, <3>3, <3>4, <3>5
        DEF Next, PublishStep, Progress, NetworkPosts, vars, publishVars
    <2>4. CASE attempt' = attempt
      BY <2>3, <2>4, AttemptAssumption DEF Orphaned
    <2>5. QED
      BY <2>1, <2>2, <2>4, AttemptSteps
  <1>2. QED
    BY <1>1, Invariant, PTL DEF Spec, EvidenceIsKept

-----------------------------------------------------------------------------
(* PublishService implements PublishOnce. *)

LEMMA HolderIsTheClaim ==
    ASSUME UniqueClaim, NEW i \in Items, NEW a \in Claims(i)
    PROVE  Holder(i) = a
  BY DEF Holder, TheOne, UniqueClaim

LEMMA HolderFollowsClaims ==
    ASSUME NEW i \in Items, Claims(i)' = Claims(i)
    PROVE  Holder(i)' = Holder(i)
  BY DEF Holder

LEMMA InitRefines == Init => Once!OnceInit
  <1> SUFFICES ASSUME Init PROVE Once!OnceInit
    OBVIOUS
  <1>1. \A i \in Items : Claims(i) = {}
    BY DEF Init, Claims, AttemptsOf, Indexed
  <1>2. [i \in Items |-> Holder(i)] = [i \in Items |-> NoAttempt]
    BY <1>1 DEF Holder, TheOne
  <1>3. Made = {} /\ Live = {} /\ Confirmed = {}
    BY DEF Init, Made, Live, Confirmed, AttemptsOf
  <1>4. QED
    BY <1>2, <1>3 DEF Once!OnceInit

(* What PublishOnce sees depends on the rows and the posts only. *)
LEMMA RowsAndPostsUnchanged ==
    ASSUME attempt' = attempt, Live' = Live
    PROVE  UNCHANGED Once!onceVars
  <1>1. \A i \in Items : Claims(i)' = Claims(i) /\ AttemptsOf(i)' = AttemptsOf(i)
    BY DEF Claims, AttemptsOf
  <1>2. [i \in Items |-> Holder(i)]' = [i \in Items |-> Holder(i)]
    BY <1>1, HolderFollowsClaims
  <1>3. Made' = Made /\ Confirmed' = Confirmed
    BY <1>1 DEF Made, Confirmed
  <1>4. QED
    BY <1>2, <1>3 DEF Once!onceVars

LEMMA ClaimRefines ==
    ASSUME IInv, IInv', NEW w \in Workers, NEW a \in Attempts, Claim(w, a),
           NEW i \in Items, publish[w].item = i
    PROVE  Once!Acquire(i, a)
  <1>1. /\ attempt[a].status = "unused" /\ attempt[a].item = NoItem /\ Claims(i) = {}
        /\ attempt'[a].status = "pending" /\ attempt'[a].item = i
        /\ \A b \in Attempts \ {a} : attempt'[b] = attempt[b]
    BY ClaimedRow
  <1>2. post' = post
    BY DEF Claim
  <1>3. Holder(i) = NoAttempt /\ a \notin Made
    BY <1>1 DEF Holder, TheOne, Made
  <1>4. \A j \in Items \ {i} : Claims(j)' = Claims(j)
    BY <1>1, ItemAssumption DEF Claims, AttemptsOf
  <1>5. Claims(i)' = {a}
    <2>1. a \in Claims(i)'
      BY <1>1 DEF Claims, AttemptsOf, Indexed
    <2>2. \A b \in Claims(i)' : b # a => b \in Claims(i)
      BY <1>1 DEF Claims, AttemptsOf
    <2>3. QED
      BY <1>1, <2>1, <2>2
  <1>6. Holder(i)' = a
    BY <1>5 DEF Holder, TheOne
  <1>7. [j \in Items |-> Holder(j)]' = [[j \in Items |-> Holder(j)] EXCEPT ![i] = a]
    BY <1>1, <1>4, <1>6, HolderFollowsClaims
  <1>8. Made' = Made \union {a}
    BY <1>1 DEF Made
  <1>9. Live' = Live
    BY <1>2 DEF Live
  <1>10. Confirmed' = Confirmed
    <2>1. \A j \in Items : (\E b \in AttemptsOf(j)' : attempt'[b].status = "succeeded")
                              <=> (\E b \in AttemptsOf(j) : attempt[b].status = "succeeded")
      BY <1>1 DEF AttemptsOf
    <2>2. QED
      BY <2>1 DEF Confirmed
  <1>11. QED
    BY <1>1, <1>3, <1>7, <1>8, <1>9, <1>10 DEF Once!Acquire

LEMMA SuccessRefines ==
    ASSUME IInv, IInv', NEW w \in Workers, RecordSuccess(w),
           NEW i \in Items, publish[w].item = i,
           NEW a \in Attempts, publish[w].attempt = a
    PROVE  Once!Confirm(i)
  <1>1. /\ attempt[a].status = "pending" /\ attempt[a].item = i
        /\ attempt'[a].item = i /\ attempt'[a].status = "succeeded"
        /\ \A b \in Attempts \ {a} : attempt'[b] = attempt[b]
    BY ResolvedRow
  <1>2. post' = post /\ post[a].state = "live"
    BY DEF RecordSuccess
  <1>3. a \in Claims(i)
    BY <1>1 DEF Claims, AttemptsOf, Indexed
  <1>4. Holder(i) \in Live
    BY <1>1, <1>2, <1>3, HolderIsTheClaim DEF IInv, Live
  <1>5. \A j \in Items : Claims(j)' = Claims(j)
    BY <1>1 DEF Claims, AttemptsOf, Indexed
  <1>6. [j \in Items |-> Holder(j)]' = [j \in Items |-> Holder(j)]
    BY <1>5, HolderFollowsClaims
  <1>7. Made' = Made /\ Live' = Live
    BY <1>1, <1>2 DEF Made, Live
  <1>8. Confirmed' = Confirmed \union {i}
    <2>1. \A j \in Items : (\E b \in AttemptsOf(j)' : attempt'[b].status = "succeeded")
              <=> (j = i \/ \E b \in AttemptsOf(j) : attempt[b].status = "succeeded")
      BY <1>1 DEF AttemptsOf
    <2>2. QED
      BY <2>1, <1>2 DEF Confirmed
  <1>9. QED
    BY <1>4, <1>6, <1>7, <1>8 DEF Once!Confirm

LEMMA FailureRefines ==
    ASSUME IInv, IInv', NEW w \in Workers, RecordFailure(w),
           NEW i \in Items, publish[w].item = i,
           NEW a \in Attempts, publish[w].attempt = a
    PROVE  Once!GiveUp(i)
  <1>1. /\ attempt[a].status = "pending" /\ attempt[a].item = i
        /\ attempt'[a].item = i /\ attempt'[a].status = "failed"
        /\ \A b \in Attempts \ {a} : attempt'[b] = attempt[b]
    BY ResolvedRow
  <1>2. post' = post
    BY DEF RecordFailure
  <1>3. a \in Claims(i)
    BY <1>1 DEF Claims, AttemptsOf, Indexed
  <1>4. \A b \in Claims(i) : b = a
    BY <1>2, <1>3 DEF IInv, UniqueClaim
  <1>5. Holder(i) # NoAttempt
    BY <1>1, <1>2, <1>3, HolderIsTheClaim, AttemptAssumption DEF IInv
  <1>6. i \notin Confirmed
    <2>1. \A b \in AttemptsOf(i) : attempt[b].status = "succeeded" => b \in Claims(i)
      BY DEF Claims, Indexed
    <2>2. QED
      BY <2>1, <1>1, <1>4 DEF Confirmed
  <1>7. Claims(i)' = {}
    <2>1. a \notin Claims(i)'
      BY <1>1 DEF Claims, Indexed
    <2>2. \A b \in Claims(i)' : b # a => b \in Claims(i)
      BY <1>1 DEF Claims, AttemptsOf
    <2>3. QED
      BY <1>4, <2>1, <2>2
  <1>8. \A j \in Items \ {i} : Claims(j)' = Claims(j)
    BY <1>1 DEF Claims, AttemptsOf
  <1>9. [j \in Items |-> Holder(j)]' = [[j \in Items |-> Holder(j)] EXCEPT ![i] = NoAttempt]
    <2>1. Holder(i)' = NoAttempt
      BY <1>7 DEF Holder, TheOne
    <2>2. QED
      BY <1>2, <2>1, <1>8, HolderFollowsClaims
  <1>10. Made' = Made /\ Live' = Live
    BY <1>1, <1>2 DEF Made, Live
  <1>11. Confirmed' = Confirmed
    <2>1. \A j \in Items : (\E b \in AttemptsOf(j)' : attempt'[b].status = "succeeded")
                              <=> (\E b \in AttemptsOf(j) : attempt[b].status = "succeeded")
      BY <1>1 DEF AttemptsOf
    <2>2. QED
      BY <2>1 DEF Confirmed
  <1>12. QED
    BY <1>5, <1>6, <1>9, <1>10, <1>11 DEF Once!GiveUp

LEMMA NetworkRefines ==
    ASSUME IInv, NEW a \in Attempts, NetworkPosts(a)
    PROVE  Once!GoLive(a)
  <1>1. attempt' = attempt /\ a \in Made
    BY DEF NetworkPosts, IInv, EvidenceBeforeCall, Made
  <1>2. /\ post'[a].state = "live" /\ \A b \in Attempts \ {a} : post'[b] = post[b]
    BY DEF NetworkPosts, IInv, TypeOK, PublishTypeOK, Post
  <1>3. Live' = Live \union {a}
    BY <1>2 DEF Live
  <1>4. \A i \in Items : Claims(i)' = Claims(i) /\ AttemptsOf(i)' = AttemptsOf(i)
    BY <1>1 DEF Claims, AttemptsOf
  <1>5. [i \in Items |-> Holder(i)]' = [i \in Items |-> Holder(i)]
    BY <1>4, HolderFollowsClaims
  <1>6. Made' = Made /\ Confirmed' = Confirmed
    BY <1>1, <1>4 DEF Made, Confirmed
  <1>7. QED
    BY <1>1, <1>3, <1>5, <1>6 DEF Once!GoLive

(* Every step that is neither a commit about a row nor the network's leaves *)
(* the rows alone and makes no post live.                                   *)
LEMMA OtherStepsStutter ==
    ASSUME IInv, [Next]_vars, attempt' = attempt,
           \A a \in Attempts : ~NetworkPosts(a)
    PROVE  Live' = Live
  <1>1. ASSUME NEW w \in Workers, CallPublisher(w)
        PROVE  Live' = Live
    <2>1. post[publish[w].attempt].state = "none" /\ publish[w].attempt \in Attempts
      BY <1>1 DEF CallPublisher, IInv, RequestsOwnTheirAttempts, TypeOK, PublishTypeOK
    <2>2. post' = [post EXCEPT ![publish[w].attempt] =
                                   [state |-> "sent", text |-> publish[w].text]]
      BY <1>1 DEF CallPublisher
    <2>3. \A b \in Attempts : post'[b].state = "live" <=> post[b].state = "live"
      BY <2>1, <2>2 DEF IInv, TypeOK, PublishTypeOK
    <2>4. QED
      BY <2>3 DEF Live
  <1>2. CASE post' = post
    BY <1>2 DEF Live
  <1>3. QED
    BY <1>1, <1>2 DEF Next, PublishStep, Progress, ReadForPublish, ReadAttempts, Refuse,
       Claim, LoseClaim, RecordSuccess, RecordFailure, Crash, vars, publishVars

(* Index, statuses and commits together act as one right per item. *)
THEOREM Refinement == Spec => ImplementsPublishOnce
  <1>1. IInv /\ IInv' /\ [Next]_vars => [Once!OnceNext]_(Once!onceVars)
    <2> SUFFICES ASSUME IInv, IInv', [Next]_vars
                 PROVE  Once!OnceNext \/ UNCHANGED Once!onceVars
      OBVIOUS
    <2>1. ASSUME NEW w \in Workers, NEW a \in Attempts, Claim(w, a)
          PROVE  Once!OnceNext
      <3>1. publish[w].item \in Items
        BY <2>1, ClaimedRow
      <3>2. QED
        BY <2>1, <3>1, ClaimRefines DEF Once!OnceNext
    <2>2. ASSUME NEW w \in Workers, RecordSuccess(w)
          PROVE  Once!OnceNext
      <3>1. publish[w].item \in Items /\ publish[w].attempt \in Attempts
        BY <2>2 DEF RecordSuccess, IInv, TypeOK, PublishTypeOK
      <3>2. QED
        BY <2>2, <3>1, SuccessRefines DEF Once!OnceNext
    <2>3. ASSUME NEW w \in Workers, RecordFailure(w)
          PROVE  Once!OnceNext
      <3>1. publish[w].item \in Items /\ publish[w].attempt \in Attempts
        BY <2>3 DEF RecordFailure, IInv, TypeOK, PublishTypeOK
      <3>2. QED
        BY <2>3, <3>1, FailureRefines DEF Once!OnceNext
    <2>4. ASSUME NEW a \in Attempts, NetworkPosts(a)
          PROVE  Once!OnceNext
      BY <2>4, NetworkRefines DEF Once!OnceNext
    <2>5. CASE attempt' = attempt /\ \A a \in Attempts : ~NetworkPosts(a)
      BY <2>5, OtherStepsStutter, RowsAndPostsUnchanged
    <2>6. QED
      BY <2>1, <2>2, <2>3, <2>4, <2>5, AttemptSteps
  <1>2. QED
    BY <1>1, InitRefines, Invariant, PTL DEF Spec, ImplementsPublishOnce, Once!OnceSpec

=============================================================================
