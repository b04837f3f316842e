----------------------- MODULE PublishSequentialProofs -----------------------
(***************************************************************************)
(* Theorems about PublishService when requests are served one at a time,   *)
(* for every set of items, texts and attempts: what the review workflow    *)
(* promises about the text that is sent.  With two requests in flight they *)
(* need not hold: an archive that commits during a publish is one case.    *)
(***************************************************************************)
EXTENDS PublishServiceProofs

OneWorker == \A u, v \in Workers : u = v

(* An approved item says what somebody approved. *)
ApprovedWasReviewed ==
    \A i \in Items : status[i] = "approved" => text[i] \in reviewed[i]

(* Nobody changes the item under a request, or under a publish. *)
RequestIsFresh ==
    \A w \in Workers : request[w].op # "none" =>
        /\ request[w].status = status[request[w].item]
        /\ request[w].text = text[request[w].item]

PublishIsFresh ==
    \A w \in Workers : publish[w].phase # "idle" =>
        /\ status[publish[w].item] = "approved"
        /\ publish[w].text \in reviewed[publish[w].item]

SeqInv == /\ ApprovedWasReviewed
          /\ RequestIsFresh
          /\ PublishIsFresh
          /\ SentTextWasReviewed

LEMMA InitSeqInv == Init => SeqInv
  BY DEF Init, WorkflowInit, NoRequest, NoPublish, SeqInv, ApprovedWasReviewed,
         RequestIsFresh, PublishIsFresh, SentTextWasReviewed

(* Nothing that was sent is forgotten or moved to another item. *)
LEMMA SentStays ==
    ASSUME IInv, SeqInv, [Next]_vars, \A i \in Items : reviewed[i] \subseteq reviewed'[i],
           NEW a \in Attempts, post[a].state # "none", post'[a].text = post[a].text
    PROVE  post'[a].text \in reviewed'[attempt'[a].item]
  <1>1. /\ attempt[a].status # "unused" /\ attempt[a].item \in Items
        /\ post[a].text \in reviewed[attempt[a].item]
    BY DEF IInv, EvidenceBeforeCall, TypeOK, PublishTypeOK, AttemptRow, SeqInv,
           SentTextWasReviewed
  <1>2. attempt'[a].item = attempt[a].item
    <2>1. ASSUME NEW w \in Workers, NEW b \in Attempts, Claim(w, b)
          PROVE  attempt'[a].item = attempt[a].item
      <3>1. attempt[b].status = "unused" /\ \A c \in Attempts \ {b} : attempt'[c] = attempt[c]
        BY <2>1, ClaimedRow
      <3>2. QED
        BY <1>1, <3>1
    <2>2. ASSUME NEW w \in Workers, RecordSuccess(w) \/ RecordFailure(w)
          PROVE  attempt'[a].item = attempt[a].item
      BY <2>2, ResolvedRow
    <2>3. QED
      BY <2>1, <2>2, AttemptSteps
  <1>3. QED
    BY <1>1, <1>2

(* A step that leaves the posts alone and forgets no review. *)
LEMMA PostsStayReviewed ==
    ASSUME IInv, SeqInv, [Next]_vars, \A i \in Items : reviewed[i] \subseteq reviewed'[i],
           post' = post
    PROVE  SentTextWasReviewed'
  BY SentStays DEF SentTextWasReviewed

LEMMA GenerateKeepsSeqInv ==
    ASSUME IInv, SeqInv, [Next]_vars, Generate, UNCHANGED publishVars
    PROVE  SeqInv'
  <1>1. request' = request /\ reviewed' = reviewed /\ publish' = publish /\ post' = post
    BY DEF Generate, publishVars
  <1>2. \A i \in Items : IF Exists(i) THEN status'[i] = status[i] /\ text'[i] = text[i]
                                      ELSE status'[i] \in {"absent", "draft"}
    BY DEF Generate, IInv, TypeOK, WorkflowTypeOK, Exists
  <1>3. ApprovedWasReviewed'
    BY <1>1, <1>2 DEF SeqInv, ApprovedWasReviewed
  <1>4. RequestIsFresh'
    BY <1>1, <1>2 DEF SeqInv, RequestIsFresh, IInv, TypeOK, WorkflowTypeOK
  <1>5. PublishIsFresh'
    BY <1>1, <1>2 DEF SeqInv, PublishIsFresh, IInv, TypeOK, PublishTypeOK
  <1>6. SentTextWasReviewed'
    BY <1>1, PostsStayReviewed
  <1>7. QED
    BY <1>3, <1>4, <1>5, <1>6 DEF SeqInv

(* The reads of the review workflow change no item. *)
LEMMA ReadKeepsSeqInv ==
    ASSUME OneWorker, IInv, SeqInv, [Next]_vars, UNCHANGED publishVars,
           NEW w \in Workers, publish[w].phase = "idle",
           NEW i \in Items, NEW op, NEW body, ReadItem(w, i, op, body)
    PROVE  SeqInv'
  <1>1. status' = status /\ text' = text /\ reviewed' = reviewed
    BY DEF ReadItem
  <1>2. publish' = publish /\ post' = post
    BY DEF publishVars
  <1>3. /\ request'[w].status = status[i] /\ request'[w].text = text[i]
        /\ request'[w].item = i
    BY DEF ReadItem, IInv, TypeOK, WorkflowTypeOK
  <1>4. RequestIsFresh'
    BY <1>1, <1>3 DEF OneWorker, RequestIsFresh
  <1>5. ApprovedWasReviewed' /\ PublishIsFresh'
    BY <1>1, <1>2 DEF SeqInv, ApprovedWasReviewed, PublishIsFresh
  <1>6. SentTextWasReviewed'
    BY <1>1, <1>2, PostsStayReviewed
  <1>7. QED
    BY <1>4, <1>5, <1>6 DEF SeqInv

(* A commit ends the only request there is. *)
LEMMA CommitKeepsSeqInv ==
    ASSUME OneWorker, IInv, SeqInv, [Next]_vars, UNCHANGED publishVars,
           NEW w \in Workers, publish[w].phase = "idle",
           request' = [request EXCEPT ![w] = NoRequest],
           \A i \in Items : reviewed[i] \subseteq reviewed'[i],
           \A i \in Items : status'[i] = "approved" => text'[i] \in reviewed'[i]
    PROVE  SeqInv'
  <1>1. publish' = publish /\ post' = post
    BY DEF publishVars
  <1>2. \A v \in Workers : request'[v].op = "none"
    BY DEF OneWorker, NoRequest, IInv, TypeOK, WorkflowTypeOK
  <1>3. \A v \in Workers : publish'[v].phase = "idle"
    BY <1>1 DEF OneWorker
  <1>4. ApprovedWasReviewed' /\ RequestIsFresh' /\ PublishIsFresh'
    BY <1>2, <1>3 DEF ApprovedWasReviewed, RequestIsFresh, PublishIsFresh
  <1>5. SentTextWasReviewed'
    BY <1>1, PostsStayReviewed
  <1>6. QED
    BY <1>4, <1>5 DEF SeqInv

LEMMA WorkflowKeepsSeqInv ==
    ASSUME OneWorker, IInv, SeqInv, [Next]_vars, UNCHANGED publishVars,
           NEW w \in Workers, publish[w].phase = "idle", WorkflowStep(w)
    PROVE  SeqInv'
  <1>1. ASSUME NEW i \in Items, NEW op, NEW body, ReadItem(w, i, op, body)
        PROVE  SeqInv'
    BY <1>1, ReadKeepsSeqInv
  <1>2. ASSUME NEW i \in Items, \/ \E op \in Moves : ReadForMove(w, i, op)
                                \/ \E body \in Texts : ReadForEdit(w, i, body)
                                \/ \E op \in {"duplicate", "regenerate"} : ReadForCopy(w, i, op)
        PROVE  SeqInv'
    BY <1>1, <1>2 DEF ReadForMove, ReadForEdit, ReadForCopy
  <1>3. CASE CommitMove(w)
    <2> DEFINE r == request[w]
    <2>1. r.op \in Moves /\ r.item \in Items /\ r.text = text[r.item]
      BY <1>3 DEF CommitMove, Moves, IInv, TypeOK, WorkflowTypeOK, SeqInv, RequestIsFresh
    <2>2. /\ status' = [status EXCEPT ![r.item] = Target[r.op]] /\ text' = text
          /\ reviewed' = IF r.op = "approve"
                         THEN [reviewed EXCEPT ![r.item] = @ \union {r.text}]
                         ELSE reviewed
          /\ request' = [request EXCEPT ![w] = NoRequest]
      BY <1>3 DEF CommitMove
    <2> HIDE DEF r
    <2>3. \A i \in Items : reviewed[i] \subseteq reviewed'[i]
      BY <2>1, <2>2 DEF IInv, TypeOK, WorkflowTypeOK
    <2>4. ASSUME NEW i \in Items, status'[i] = "approved"
          PROVE  text'[i] \in reviewed'[i]
      <3>1. CASE i # r.item
        BY <3>1, <2>2, <2>3, <2>4 DEF IInv, TypeOK, WorkflowTypeOK, SeqInv,
           ApprovedWasReviewed
      <3>2. CASE i = r.item
        <4>1. Target[r.op] = "approved"
          BY <2>1, <2>2, <2>4, <3>2 DEF IInv, TypeOK, WorkflowTypeOK
        <4>2. r.op = "approve"
          BY <2>1, <4>1 DEF Target, Moves
        <4>3. QED
          BY <2>1, <2>2, <3>2, <4>2 DEF IInv, TypeOK, WorkflowTypeOK
      <3>3. QED
        BY <3>1, <3>2
    <2>5. QED
      BY <2>2, <2>3, <2>4, CommitKeepsSeqInv
  <1>4. CASE CommitEdit(w)
    <2>1. /\ reviewed' = reviewed /\ request' = [request EXCEPT ![w] = NoRequest]
          /\ request[w].item \in Items /\ request[w].op # "none"
      BY <1>4 DEF CommitEdit, IInv, TypeOK, WorkflowTypeOK
    <2>2. request[w].status = status[request[w].item]
      BY <2>1 DEF SeqInv, RequestIsFresh
    <2>3. status'[request[w].item] = "draft"
      BY <1>4, <2>1, <2>2 DEF CommitEdit, IInv, TypeOK, WorkflowTypeOK
    <2>4. \A i \in Items \ {request[w].item} : status'[i] = status[i] /\ text'[i] = text[i]
      BY <1>4 DEF CommitEdit, IInv, TypeOK, WorkflowTypeOK
    <2>5. \A i \in Items : status'[i] = "approved" => text'[i] \in reviewed'[i]
      BY <2>1, <2>3, <2>4 DEF SeqInv, ApprovedWasReviewed
    <2>6. QED
      BY <2>1, <2>5, CommitKeepsSeqInv
  <1>5. ASSUME NEW j \in Items, CommitCopy(w, j)
        PROVE  SeqInv'
    <2>1. /\ reviewed' = reviewed /\ request' = [request EXCEPT ![w] = NoRequest]
          /\ status'[j] = "draft"
          /\ \A i \in Items \ {j} : status'[i] = status[i] /\ text'[i] = text[i]
      BY <1>5 DEF CommitCopy, IInv, TypeOK, WorkflowTypeOK
    <2>2. \A i \in Items : status'[i] = "approved" => text'[i] \in reviewed'[i]
      BY <2>1 DEF SeqInv, ApprovedWasReviewed
    <2>3. QED
      BY <2>1, <2>2, CommitKeepsSeqInv
  <1>6. CASE Abandon(w)
    BY <1>6, CommitKeepsSeqInv DEF Abandon, SeqInv, ApprovedWasReviewed
  <1>7. QED
    BY <1>2, <1>3, <1>4, <1>5, <1>6 DEF WorkflowStep

LEMMA PublishKeepsSeqInv ==
    ASSUME OneWorker, IInv, SeqInv, [Next]_vars, NEW w \in Workers, PublishStep(w)
    PROVE  SeqInv'
  <1>1. request[w].op = "none" /\ request' = request /\ text' = text /\ reviewed' = reviewed
    BY DEF PublishStep, Progress, ReadForPublish, ReadAttempts, Refuse, Claim, LoseClaim,
           CallPublisher, RecordSuccess, RecordFailure, Crash, workflowVars,
           IInv, TypeOK, PublishTypeOK
  <1>2. \A v \in Workers : request'[v].op = "none"
    BY <1>1 DEF OneWorker
  <1>3. RequestIsFresh'
    BY <1>2 DEF RequestIsFresh
  <1>4. ApprovedWasReviewed'
    BY <1>1 DEF SeqInv, ApprovedWasReviewed, PublishStep, Progress, ReadForPublish,
       ReadAttempts, Refuse, Claim, LoseClaim, CallPublisher, RecordSuccess, RecordFailure,
       Crash, workflowVars, IInv, TypeOK, WorkflowTypeOK
  <1>5. PublishIsFresh'
    <2>1. ASSUME NEW i \in Items, ReadForPublish(w, i)
          PROVE  PublishIsFresh'
      <3>1. /\ publish'[w].item = i /\ publish'[w].text = text[i] /\ status' = status
            /\ status[i] = "approved"
        BY <2>1 DEF ReadForPublish, workflowVars, IInv, TypeOK, PublishTypeOK
      <3>2. text[i] \in reviewed[i]
        BY <3>1 DEF SeqInv, ApprovedWasReviewed
      <3>3. QED
        BY <1>1, <3>1, <3>2 DEF OneWorker, PublishIsFresh
    <2>2. CASE publish' = [publish EXCEPT ![w] = NoPublish]
      <3>1. publish'[w].phase = "idle"
        BY <2>2 DEF NoPublish, IInv, TypeOK, PublishTypeOK
      <3>2. QED
        BY <3>1 DEF OneWorker, PublishIsFresh
    <2>3. CASE /\ publish[w].phase # "idle" /\ status' = status
               /\ publish'[w].item = publish[w].item /\ publish'[w].text = publish[w].text
      BY <1>1, <2>3 DEF OneWorker, SeqInv, PublishIsFresh
    <2>4. ASSUME ReadAttempts(w) \/ (\E a \in Attempts : Claim(w, a)) \/ CallPublisher(w)
          PROVE  \/ publish' = [publish EXCEPT ![w] = NoPublish]
                 \/ /\ publish[w].phase # "idle" /\ status' = status
                    /\ publish'[w].item = publish[w].item /\ publish'[w].text = publish[w].text
      <3>1. publish[w] \in PublishRequest /\ publish \in [Workers -> PublishRequest]
        BY DEF IInv, TypeOK, PublishTypeOK
      <3>2. QED
        BY <2>4, <3>1 DEF ReadAttempts, Claim, CallPublisher, workflowVars, PublishRequest
    <2>5. QED
      BY <2>1, <2>2, <2>3, <2>4 DEF PublishStep, Progress, Refuse, LoseClaim, RecordSuccess,
         RecordFailure, Crash
  <1>6. SentTextWasReviewed'
    <2>1. \A i \in Items : reviewed[i] \subseteq reviewed'[i]
      BY <1>1
    <2>2. CASE post' = post
      BY <2>1, <2>2, PostsStayReviewed
    <2>3. ASSUME CallPublisher(w), NEW a \in Attempts, post'[a].state # "none"
          PROVE  post'[a].text \in reviewed'[attempt'[a].item]
      <3>1. /\ publish[w].attempt \in Attempts
            /\ attempt[publish[w].attempt].item = publish[w].item
            /\ publish[w].text \in reviewed[publish[w].item]
        BY <2>3 DEF CallPublisher, IInv, TypeOK, PublishTypeOK, SeqInv, PublishIsFresh
      <3>2. attempt' = attempt
        BY <2>3 DEF CallPublisher
      <3>3. CASE a = publish[w].attempt
        BY <1>1, <2>3, <3>1, <3>2, <3>3 DEF CallPublisher, IInv, TypeOK, PublishTypeOK
      <3>4. CASE a # publish[w].attempt
        <4>1. post'[a] = post[a]
          BY <2>3, <3>4 DEF CallPublisher, IInv, TypeOK, PublishTypeOK
        <4>2. QED
          BY <2>1, <2>3, <4>1, SentStays
      <3>5. QED
        BY <3>3, <3>4
    <2>4. QED
      BY <2>2, <2>3 DEF SentTextWasReviewed, PublishStep, Progress, ReadForPublish,
         ReadAttempts, Refuse, Claim, LoseClaim, RecordSuccess, RecordFailure, Crash
  <1>7. QED
    BY <1>3, <1>4, <1>5, <1>6 DEF SeqInv

LEMMA NetworkKeepsSeqInv ==
    ASSUME IInv, SeqInv, [Next]_vars, NEW b \in Attempts, NetworkPosts(b)
    PROVE  SeqInv'
  <1>1. /\ status' = status /\ text' = text /\ request' = request /\ reviewed' = reviewed
        /\ publish' = publish
    BY DEF NetworkPosts, workflowVars
  <1>2. ApprovedWasReviewed' /\ RequestIsFresh' /\ PublishIsFresh'
    BY <1>1 DEF SeqInv, ApprovedWasReviewed, RequestIsFresh, PublishIsFresh
  <1>3. \A a \in Attempts : post'[a].state # "none" => /\ post[a].state # "none"
                                                       /\ post'[a].text = post[a].text
    BY DEF NetworkPosts, IInv, TypeOK, PublishTypeOK, Post
  <1>4. SentTextWasReviewed'
    BY <1>1, <1>3, SentStays DEF SentTextWasReviewed
  <1>5. QED
    BY <1>2, <1>4 DEF SeqInv

LEMMA SeqInvStep ==
    ASSUME OneWorker
    PROVE  IInv /\ SeqInv /\ [Next]_vars => SeqInv'
  <1> SUFFICES ASSUME IInv, SeqInv, [Next]_vars PROVE SeqInv'
    OBVIOUS
  <1>1. CASE Generate /\ UNCHANGED publishVars
    BY <1>1, GenerateKeepsSeqInv
  <1>2. ASSUME NEW w \in Workers, publish[w].phase = "idle", WorkflowStep(w),
               UNCHANGED publishVars
        PROVE  SeqInv'
    BY <1>2, WorkflowKeepsSeqInv
  <1>3. ASSUME NEW w \in Workers, PublishStep(w)
        PROVE  SeqInv'
    BY <1>3, PublishKeepsSeqInv
  <1>4. ASSUME NEW a \in Attempts, NetworkPosts(a)
        PROVE  SeqInv'
    BY <1>4, NetworkKeepsSeqInv
  <1>5. CASE UNCHANGED vars
    <2>1. /\ status' = status /\ text' = text /\ request' = request /\ reviewed' = reviewed
          /\ attempt' = attempt /\ publish' = publish /\ post' = post
      BY <1>5 DEF vars, workflowVars, publishVars
    <2>2. QED
      BY <2>1 DEF SeqInv, ApprovedWasReviewed, RequestIsFresh, PublishIsFresh,
         SentTextWasReviewed
  <1>6. QED
    BY <1>1, <1>2, <1>3, <1>4, <1>5 DEF Next

LEMMA SeqInvariant ==
    ASSUME OneWorker
    PROVE  Spec => [](IInv /\ SeqInv)
  BY InitIInv, InitSeqInv, IInvStep, SeqInvStep, PTL DEF Spec

-----------------------------------------------------------------------------

(* One request at a time: no text leaves that nobody approved. *)
THEOREM SentWasReviewed ==
    ASSUME OneWorker
    PROVE  Spec => []SentTextWasReviewed
  <1>1. SeqInv => SentTextWasReviewed
    BY DEF SeqInv
  <1>2. QED
    BY <1>1, SeqInvariant, PTL

(* One request at a time: an attempt that fails leaves its item approved.   *)
THEOREM FailureLeavesApproved ==
    ASSUME OneWorker
    PROVE  Spec => FailureKeepsApproved
  <1>1. IInv /\ SeqInv /\ [Next]_vars =>
            \A a \in Attempts : attempt[a].status = "pending" /\ attempt'[a].status = "failed"
                                    => status'[attempt[a].item] = "approved"
    <2> SUFFICES ASSUME IInv, SeqInv, [Next]_vars, NEW a \in Attempts,
                        attempt[a].status = "pending", attempt'[a].status = "failed"
                 PROVE  status'[attempt[a].item] = "approved"
      OBVIOUS
    <2>1. ASSUME NEW w \in Workers, NEW b \in Attempts, Claim(w, b)
          PROVE  FALSE
      <3>1. /\ attempt'[b].status = "pending"
            /\ \A c \in Attempts \ {b} : attempt'[c] = attempt[c]
        BY <2>1, ClaimedRow
      <3>2. QED
        BY <3>1
    <2>2. ASSUME NEW w \in Workers, RecordSuccess(w)
          PROVE  FALSE
      <3>1. /\ attempt'[publish[w].attempt].status = "succeeded"
            /\ \A c \in Attempts \ {publish[w].attempt} : attempt'[c] = attempt[c]
        BY <2>2, ResolvedRow
      <3>2. QED
        BY <3>1
    <2>3. ASSUME NEW w \in Workers, RecordFailure(w)
          PROVE  status'[attempt[a].item] = "approved"
      <3>1. /\ \A c \in Attempts \ {publish[w].attempt} : attempt'[c] = attempt[c]
            /\ attempt[publish[w].attempt].item = publish[w].item
        BY <2>3, ResolvedRow
      <3>2. attempt[a].item = publish[w].item
        BY <3>1
      <3>3. status' = status /\ publish[w].phase = "calling"
        BY <2>3 DEF RecordFailure, workflowVars
      <3>4. QED
        BY <3>2, <3>3 DEF SeqInv, PublishIsFresh
    <2>4. attempt' # attempt
      OBVIOUS
    <2>5. QED
      BY <2>1, <2>2, <2>3, <2>4, AttemptSteps
  <1>2. QED
    BY <1>1, SeqInvariant, PTL DEF Spec, FailureKeepsApproved

(* One request at a time: whoever changes the text of an item reopens its   *)
(* review.                                                                  *)
THEOREM EditReopens ==
    ASSUME OneWorker
    PROVE  Spec => EditReopensReview
  <1>1. IInv /\ SeqInv /\ [Next]_vars =>
            \A i \in Items : Exists(i) /\ text'[i] # text[i] => status'[i] = "draft"
    <2> SUFFICES ASSUME IInv, SeqInv, [Next]_vars, NEW i \in Items, Exists(i),
                        text'[i] # text[i]
                 PROVE  status'[i] = "draft"
      OBVIOUS
    <2>1. ~Generate
      BY DEF Generate, IInv, TypeOK, WorkflowTypeOK
    <2>2. ASSUME NEW w \in Workers, CommitEdit(w)
          PROVE  status'[i] = "draft"
      <3>1. request[w].item = i
        BY <2>2 DEF CommitEdit, IInv, TypeOK, WorkflowTypeOK
      <3>2. request[w].status = status[i]
        BY <2>2, <3>1 DEF CommitEdit, SeqInv, RequestIsFresh
      <3>3. QED
        BY <2>2, <3>1, <3>2 DEF CommitEdit, IInv, TypeOK, WorkflowTypeOK
    <2>3. ASSUME NEW w \in Workers, NEW j \in Items, CommitCopy(w, j)
          PROVE  status'[i] = "draft"
      BY <2>3 DEF CommitCopy, IInv, TypeOK, WorkflowTypeOK, Exists
    <2>4. ASSUME NEW w \in Workers, WorkflowStep(w)
          PROVE  status'[i] = "draft"
      BY <2>2, <2>3, <2>4 DEF WorkflowStep, ReadForMove, ReadForEdit, ReadForCopy, ReadItem,
         CommitMove, Abandon
    <2>5. ASSUME NEW w \in Workers, PublishStep(w)
          PROVE  FALSE
      BY <2>5 DEF PublishStep, Progress, ReadForPublish, ReadAttempts, Refuse, Claim,
         LoseClaim, CallPublisher, RecordSuccess, RecordFailure, Crash, workflowVars
    <2>6. (\A a \in Attempts : ~NetworkPosts(a)) /\ ~UNCHANGED vars
      BY DEF NetworkPosts, vars, workflowVars
    <2>7. QED
      BY <2>1, <2>4, <2>5, <2>6 DEF Next
  <1>2. QED
    BY <1>1, SeqInvariant, PTL DEF Spec, EditReopensReview

-----------------------------------------------------------------------------
(* One request at a time: PublishService implements ReviewCycle.             *)

(* A commit does what its request was allowed to, given what it read.        *)
RequestIsLegal ==
    \A w \in Workers :
        /\ request[w].op \in Moves => Target[request[w].op] \in Allowed[request[w].status]
        /\ request[w].op = "edit" =>
              request[w].status = "draft" \/ "draft" \in Allowed[request[w].status]

(* What is being sent is what the item says. *)
SentIsCurrent ==
    \A w \in Workers :
        /\ publish[w].phase # "idle" => publish[w].text = text[publish[w].item]
        /\ publish[w].phase = "calling" => post[publish[w].attempt].text = publish[w].text

CycleInv == RequestIsLegal /\ SentIsCurrent

LEMMA InitCycleInv == Init => CycleInv
  BY DEF Init, WorkflowInit, NoRequest, NoPublish, Moves, CycleInv, RequestIsLegal,
         SentIsCurrent

(* A step that leaves requests alone, or ends them. *)
LEMMA LegalStays ==
    ASSUME RequestIsLegal,
           \A w \in Workers : request'[w] = request[w] \/ request'[w].op = "none"
    PROVE  RequestIsLegal'
  BY DEF RequestIsLegal, Moves

LEMMA WorkflowKeepsCycleInv ==
    ASSUME OneWorker, IInv, CycleInv, UNCHANGED publishVars,
           NEW w \in Workers, publish[w].phase = "idle", WorkflowStep(w)
    PROVE  CycleInv'
  <1>1. request \in [Workers -> Request] /\ NoRequest.op = "none"
    BY DEF IInv, TypeOK, WorkflowTypeOK, NoRequest
  <1>2. SentIsCurrent'
    <2>1. publish' = publish /\ \A v \in Workers : publish[v].phase = "idle"
      BY DEF publishVars, OneWorker
    <2>2. QED
      BY <2>1 DEF SentIsCurrent
  <1>3. ASSUME NEW i \in Items, NEW op, NEW body, ReadItem(w, i, op, body),
               op \in Moves => Target[op] \in Allowed[status[i]],
               op = "edit" => status[i] = "draft" \/ "draft" \in Allowed[status[i]]
        PROVE  RequestIsLegal'
    <2>1. request'[w].op = op /\ request'[w].status = status[i]
      BY <1>1, <1>3 DEF ReadItem
    <2>2. \A v \in Workers : v = w
      BY DEF OneWorker
    <2>3. QED
      BY <1>3, <2>1, <2>2 DEF RequestIsLegal
  <1>4. ASSUME NEW i \in Items, NEW op \in Moves, ReadForMove(w, i, op) PROVE RequestIsLegal'
    BY <1>3, <1>4 DEF ReadForMove, Moves
  <1>5. ASSUME NEW i \in Items, NEW body \in Texts, ReadForEdit(w, i, body)
        PROVE  RequestIsLegal'
    BY <1>3, <1>5 DEF ReadForEdit, Moves
  <1>6. ASSUME NEW i \in Items, NEW op \in {"duplicate", "regenerate"}, ReadForCopy(w, i, op)
        PROVE  RequestIsLegal'
    BY <1>3, <1>6 DEF ReadForCopy, Moves
  <1>7. ASSUME request' = [request EXCEPT ![w] = NoRequest] PROVE RequestIsLegal'
    BY <1>1, <1>7, LegalStays DEF CycleInv
  <1>8. QED
    BY <1>2, <1>4, <1>5, <1>6, <1>7
       DEF WorkflowStep, CommitMove, CommitEdit, CommitCopy, Abandon, CycleInv

LEMMA PublishKeepsCycleInv ==
    ASSUME OneWorker, IInv, CycleInv, NEW w \in Workers, PublishStep(w)
    PROVE  CycleInv'
  <1>1. /\ request' = request /\ text' = text /\ \A v \in Workers : v = w
        /\ publish \in [Workers -> PublishRequest] /\ post \in [Attempts -> Post]
    BY DEF PublishStep, Progress, ReadForPublish, ReadAttempts, Refuse, Claim, LoseClaim,
           CallPublisher, RecordSuccess, RecordFailure, Crash, workflowVars, OneWorker,
           IInv, TypeOK, PublishTypeOK
  <1>2. RequestIsLegal'
    BY <1>1, LegalStays DEF CycleInv
  <1>3. SentIsCurrent'
    <2>1. ASSUME NEW i \in Items, ReadForPublish(w, i) PROVE SentIsCurrent'
      BY <1>1, <2>1 DEF ReadForPublish, SentIsCurrent
    <2>2. ASSUME publish' = [publish EXCEPT ![w] = NoPublish] PROVE SentIsCurrent'
      BY <1>1, <2>2 DEF NoPublish, SentIsCurrent
    <2>3. ASSUME publish[w].phase # "idle", publish'[w].item = publish[w].item,
                 publish'[w].text = publish[w].text, publish'[w].phase # "calling"
          PROVE  SentIsCurrent'
      BY <1>1, <2>3 DEF CycleInv, SentIsCurrent
    <2>4. CASE ReadAttempts(w)
      BY <1>1, <2>2, <2>3, <2>4 DEF ReadAttempts, PublishRequest
    <2>5. ASSUME NEW a \in Attempts, Claim(w, a) PROVE SentIsCurrent'
      BY <1>1, <2>3, <2>5 DEF Claim, PublishRequest
    <2>6. CASE CallPublisher(w)
      <3>1. publish[w].phase = "claimed" /\ publish[w].attempt \in Attempts
        BY <2>6 DEF CallPublisher, IInv, TypeOK, PublishTypeOK
      <3>2. /\ publish'[w].item = publish[w].item /\ publish'[w].text = publish[w].text
            /\ publish'[w].attempt = publish[w].attempt
            /\ post'[publish[w].attempt].text = publish[w].text
        BY <1>1, <2>6, <3>1 DEF CallPublisher, PublishRequest
      <3>3. QED
        BY <1>1, <3>1, <3>2 DEF CycleInv, SentIsCurrent
    <2>7. QED
      BY <2>1, <2>2, <2>4, <2>5, <2>6
         DEF PublishStep, Progress, Refuse, LoseClaim, RecordSuccess, RecordFailure, Crash
  <1>4. QED
    BY <1>2, <1>3 DEF CycleInv

LEMMA CycleInvStep ==
    ASSUME OneWorker
    PROVE  IInv /\ CycleInv /\ [Next]_vars => CycleInv'
  <1> SUFFICES ASSUME IInv, CycleInv, [Next]_vars PROVE CycleInv'
    OBVIOUS
  <1>1. CASE Generate /\ UNCHANGED publishVars
    <2>1. request' = request /\ publish' = publish /\ post' = post
      BY <1>1 DEF Generate, publishVars
    <2>2. \A i \in Items : Exists(i) => text'[i] = text[i]
      BY <1>1 DEF Generate
    <2>3. SentIsCurrent'
      BY <2>1, <2>2 DEF CycleInv, SentIsCurrent, IInv, TypeOK, PublishTypeOK
    <2>4. QED
      BY <2>1, <2>3, LegalStays DEF CycleInv
  <1>2. ASSUME NEW w \in Workers, publish[w].phase = "idle", WorkflowStep(w),
               UNCHANGED publishVars
        PROVE  CycleInv'
    BY <1>2, WorkflowKeepsCycleInv
  <1>3. ASSUME NEW w \in Workers, PublishStep(w) PROVE CycleInv'
    BY <1>3, PublishKeepsCycleInv
  <1>4. ASSUME NEW a \in Attempts, NetworkPosts(a) PROVE CycleInv'
    <2>1. request' = request /\ publish' = publish /\ text' = text
      BY <1>4 DEF NetworkPosts, workflowVars
    <2>2. \A b \in Attempts : post'[b].text = post[b].text
      BY <1>4 DEF NetworkPosts, IInv, TypeOK, PublishTypeOK, Post
    <2>3. \A w \in Workers : publish[w].phase = "calling" => publish[w].attempt \in Attempts
      BY DEF IInv, TypeOK, PublishTypeOK
    <2>4. QED
      BY <2>1, <2>2, <2>3, LegalStays DEF CycleInv, SentIsCurrent
  <1>5. CASE UNCHANGED vars
    BY <1>5, LegalStays DEF vars, workflowVars, publishVars, CycleInv, SentIsCurrent
  <1>6. QED
    BY <1>1, <1>2, <1>3, <1>4, <1>5 DEF Next

-----------------------------------------------------------------------------
(* What ReviewCycle sees of a step. *)

LEMMA StagesFollow ==
    ASSUME TypeOK, NEW i \in Items, NEW s \in Statuses, status' = [status EXCEPT ![i] = s]
    PROVE  Stages' = [Stages EXCEPT ![i] = StageOf[s]]
  BY DEF Stages, TypeOK, WorkflowTypeOK

LEMMA SentTextsKept ==
    ASSUME \A a \in Attempts :
              /\ post'[a].state # "none" <=> post[a].state # "none"
              /\ post[a].state # "none" => /\ post'[a].text = post[a].text
                                           /\ attempt'[a].item = attempt[a].item
    PROVE  SentTexts' = SentTexts
  <1> DEFINE Of(i) == {b \in AttemptsOf(i) : post[b].state # "none"}
             Out(i) == {post[a].text : a \in Of(i)}
  <1>1. ASSUME NEW i \in Items PROVE Out(i)' = Out(i)
    <2>1. Of(i)' = Of(i)
      BY DEF AttemptsOf
    <2>2. \A a \in Of(i) : post'[a].text = post[a].text
      BY DEF AttemptsOf
    <2>3. Out(i)' = {post'[a].text : a \in Of(i)}
      BY <2>1
    <2> HIDE DEF Of
    <2>4. QED
      BY <2>2, <2>3
  <1>2. SentTexts = [i \in Items |-> Out(i)]
    BY DEF SentTexts
  <1>3. SentTexts' = [i \in Items |-> Out(i)']
    BY DEF SentTexts
  <1> HIDE DEF Out
  <1>4. QED
    BY <1>1, <1>2, <1>3

LEMMA ConfirmedKept ==
    ASSUME \A a \in Attempts :
              /\ attempt'[a].status = "succeeded" <=> attempt[a].status = "succeeded"
              /\ attempt[a].status = "succeeded" => attempt'[a].item = attempt[a].item
    PROVE  Confirmed' = Confirmed
  <1>1. \A i \in Items : (\E a \in AttemptsOf(i)' : attempt'[a].status = "succeeded")
                            <=> (\E a \in AttemptsOf(i) : attempt[a].status = "succeeded")
    BY DEF AttemptsOf
  <1>2. QED
    BY <1>1 DEF Confirmed

LEMMA AttemptsAlone ==
    ASSUME attempt' = attempt, post' = post
    PROVE  SentTexts' = SentTexts /\ Confirmed' = Confirmed
  BY SentTextsKept, ConfirmedKept

(* The moves that are allowed, seen in stages. *)
LEMMA MovesOfStages ==
    ASSUME NEW op \in Moves, NEW s \in Statuses, Target[op] \in Allowed[s]
    PROVE  \/ StageOf[Target[op]] = StageOf[s]
           \/ StageOf[s] = "open" /\ StageOf[Target[op]] = "approved"
           \/ /\ StageOf[s] \in {"open", "approved", "published"}
              /\ StageOf[Target[op]] = "closed"
           \/ StageOf[s] = "closed" /\ StageOf[Target[op]] = "open"
  BY DEF Moves, Statuses, Target, Allowed, StageOf

LEMMA GenerateRefines ==
    ASSUME IInv, Generate, UNCHANGED publishVars
    PROVE  Cycle!CycleNext
  <1>1. PICK new \in SUBSET {i \in Items : ~Exists(i)} \ {{}} :
           /\ \E body \in [new -> Texts] :
                text' = [i \in Items |-> IF i \in new THEN body[i] ELSE text[i]]
           /\ status' = [i \in Items |-> IF i \in new THEN "draft" ELSE status[i]]
    BY DEF Generate
  <1>2. PICK body \in [new -> Texts] :
           text' = [i \in Items |-> IF i \in new THEN body[i] ELSE text[i]]
    BY <1>1
  <1>3. Stages' = [i \in Items |-> IF i \in new THEN "open" ELSE Stages[i]]
    BY <1>1 DEF Stages, StageOf
  <1>4. \A i \in new : Stages[i] = "absent"
    BY <1>1 DEF Stages, StageOf, Exists
  <1>5. SentTexts' = SentTexts /\ Confirmed' = Confirmed
    BY AttemptsAlone DEF publishVars
  <1>6. Cycle!Create(new, body)
    BY <1>2, <1>3, <1>4, <1>5 DEF Cycle!Create
  <1>7. QED
    BY <1>6 DEF Cycle!CycleNext

LEMMA CopyRefines ==
    ASSUME IInv, UNCHANGED publishVars, NEW w \in Workers, NEW j \in Items, CommitCopy(w, j)
    PROVE  Cycle!CycleNext
  <1>1. ~Exists(j) /\ status' = [status EXCEPT ![j] = "draft"]
    BY DEF CommitCopy
  <1>2. PICK b \in Texts : text' = [text EXCEPT ![j] = b]
    BY DEF CommitCopy, IInv, TypeOK, WorkflowTypeOK
  <1> DEFINE new == {j}
             body == [i \in new |-> b]
  <1>3. text' = [i \in Items |-> IF i \in new THEN body[i] ELSE text[i]]
    BY <1>2 DEF IInv, TypeOK, WorkflowTypeOK
  <1>4. Stages' = [i \in Items |-> IF i \in new THEN "open" ELSE Stages[i]]
    BY <1>1 DEF Stages, StageOf, IInv, TypeOK, WorkflowTypeOK
  <1>5. \A i \in new : Stages[i] = "absent"
    BY <1>1 DEF Stages, StageOf, Exists
  <1>6. SentTexts' = SentTexts /\ Confirmed' = Confirmed
    BY AttemptsAlone DEF publishVars
  <1>7. new \in SUBSET Items /\ body \in [new -> Texts]
    OBVIOUS
  <1> HIDE DEF new, body
  <1>8. Cycle!Create(new, body)
    BY <1>3, <1>4, <1>5, <1>6 DEF Cycle!Create
  <1>9. QED
    BY <1>7, <1>8 DEF Cycle!CycleNext

LEMMA MoveRefines ==
    ASSUME IInv, SeqInv, CycleInv, UNCHANGED publishVars, NEW w \in Workers, CommitMove(w)
    PROVE  Cycle!CycleNext \/ UNCHANGED Cycle!cycleVars
  <1>1. PICK op \in Moves, i \in Items : op = request[w].op /\ i = request[w].item
    BY DEF CommitMove, Moves, IInv, TypeOK, WorkflowTypeOK
  <1>2. /\ status[i] \in Statuses /\ Target[op] \in Statuses
        /\ Target[op] \in Allowed[status[i]]
    <2>1. request[w].op # "none"
      BY <1>1 DEF Moves
    <2>2. request[w].status = status[i] /\ request[w].status \in Statuses
      BY <1>1, <2>1 DEF SeqInv, RequestIsFresh, IInv, TypeOK, WorkflowTypeOK
    <2>3. QED
      BY <1>1, <2>2, TargetStatus DEF CycleInv, RequestIsLegal
  <1>3. status' = [status EXCEPT ![i] = Target[op]] /\ text' = text
    BY <1>1 DEF CommitMove
  <1>4. Stages' = [Stages EXCEPT ![i] = StageOf[Target[op]]] /\ Stages[i] = StageOf[status[i]]
    BY <1>2, <1>3, StagesFollow DEF Stages, IInv
  <1>5. SentTexts' = SentTexts /\ Confirmed' = Confirmed
    BY AttemptsAlone DEF publishVars
  <1>6. CASE StageOf[Target[op]] = StageOf[status[i]]
    <2>1. Stages' = Stages
      BY <1>4, <1>6 DEF Stages
    <2>2. QED
      BY <1>3, <1>5, <2>1 DEF Cycle!cycleVars
  <1>7. CASE StageOf[status[i]] = "open" /\ StageOf[Target[op]] = "approved"
    BY <1>3, <1>4, <1>5, <1>7 DEF Cycle!CycleNext, Cycle!Approve, Cycle!Move
  <1>8. CASE /\ StageOf[status[i]] \in {"open", "approved", "published"}
             /\ StageOf[Target[op]] = "closed"
    BY <1>3, <1>4, <1>5, <1>8 DEF Cycle!CycleNext, Cycle!Archive, Cycle!Move
  <1>9. CASE StageOf[status[i]] = "closed" /\ StageOf[Target[op]] = "open"
    BY <1>3, <1>4, <1>5, <1>9 DEF Cycle!CycleNext, Cycle!Restore, Cycle!Move
  <1>10. QED
    BY <1>2, <1>6, <1>7, <1>8, <1>9, MovesOfStages

LEMMA EditRefines ==
    ASSUME IInv, SeqInv, CycleInv, UNCHANGED publishVars, NEW w \in Workers, CommitEdit(w)
    PROVE  Cycle!CycleNext
  <1>1. PICK i \in Items : i = request[w].item
    BY DEF CommitEdit, IInv, TypeOK, WorkflowTypeOK
  <1>2. /\ request[w].op = "edit" /\ request[w].body \in Texts /\ text[i] \in Texts
        /\ request[w].status = status[i] /\ status[i] \in Statuses
        /\ status[i] = "draft" \/ "draft" \in Allowed[status[i]]
    BY <1>1 DEF CommitEdit, IInv, TypeOK, WorkflowTypeOK, SeqInv, RequestIsFresh, CycleInv,
       RequestIsLegal
  <1>3. PICK body \in Texts : text' = [text EXCEPT ![i] = body]
    BY <1>1, <1>2 DEF CommitEdit
  <1>4. status' = [status EXCEPT ![i] = "draft"]
    BY <1>1, <1>2 DEF CommitEdit, IInv, TypeOK, WorkflowTypeOK
  <1>5. StageOf[status[i]] \in {"open", "closed"} /\ StageOf["draft"] = "open"
        /\ "draft" \in Statuses
    BY <1>2 DEF Statuses, Allowed, StageOf
  <1>6. Stages' = [Stages EXCEPT ![i] = "open"] /\ Stages[i] \in {"open", "closed"}
    <2>1. Stages' = [Stages EXCEPT ![i] = StageOf["draft"]]
      BY <1>4, <1>5, StagesFollow DEF IInv
    <2>2. QED
      BY <1>5, <2>1 DEF Stages
  <1>7. SentTexts' = SentTexts /\ Confirmed' = Confirmed
    BY AttemptsAlone DEF publishVars
  <1>8. Cycle!Edit(i, body)
    BY <1>3, <1>6, <1>7 DEF Cycle!Edit
  <1>9. QED
    BY <1>8 DEF Cycle!CycleNext

LEMMA CallRefines ==
    ASSUME IInv, SeqInv, CycleInv, NEW w \in Workers, CallPublisher(w)
    PROVE  Cycle!CycleNext
  <1>1. PICK i \in Items, a \in Attempts : i = publish[w].item /\ a = publish[w].attempt
    BY DEF CallPublisher, IInv, TypeOK, PublishTypeOK
  <1>2. /\ publish[w].text = text[i] /\ status[i] = "approved"
        /\ attempt[a].item = i /\ attempt[a].status = "pending"
        /\ \A b \in AttemptsOf(i) : attempt[b].status = "succeeded" => b = a
    <2>1. publish[w].phase = "claimed"
      BY DEF CallPublisher
    <2>2. publish[w].text = text[i] /\ status[i] = "approved" /\ attempt[a].item = i
      BY <1>1, <2>1 DEF CycleInv, SentIsCurrent, SeqInv, PublishIsFresh, IInv, TypeOK,
         PublishTypeOK
    <2>3. attempt[a].status = "pending"
      BY <1>1 DEF IInv, RequestsOwnTheirAttempts
    <2>4. \A b \in AttemptsOf(i) : attempt[b].status = "succeeded" => b = a
      BY <2>2, <2>3 DEF IInv, UniqueClaim, Claims, AttemptsOf, Indexed
    <2>5. QED
      BY <2>2, <2>3, <2>4
  <1>3. /\ post' = [post EXCEPT ![a] = [state |-> "sent", text |-> text[i]]]
        /\ attempt' = attempt /\ status' = status /\ text' = text
    BY <1>1, <1>2 DEF CallPublisher, workflowVars
  <1>4. post[a].state = "none"
    BY <1>1 DEF CallPublisher, IInv, RequestsOwnTheirAttempts
  <1>5. i \notin Confirmed /\ Stages[i] = "approved"
    BY <1>2 DEF Confirmed, Stages, StageOf
  <1>6. Stages' = Stages /\ Confirmed' = Confirmed
    BY <1>3, ConfirmedKept DEF Stages
  <1>7. SentTexts' = [SentTexts EXCEPT ![i] = @ \union {text[i]}]
    <2> DEFINE Of(j) == {b \in AttemptsOf(j) : post[b].state # "none"}
               Out(j) == {post[b].text : b \in Of(j)}
    <2>1. /\ post'[a].text = text[i] /\ post'[a].state = "sent"
          /\ \A b \in Attempts \ {a} : post'[b] = post[b]
      BY <1>3 DEF IInv, TypeOK, PublishTypeOK
    <2>2. /\ Of(i)' = Of(i) \union {a}
          /\ \A j \in Items \ {i} : Of(j)' = Of(j)
      BY <1>2, <1>3, <1>4, <2>1 DEF AttemptsOf
    <2>3. \A j \in Items : Of(j) \subseteq Attempts \ {a}
      BY <1>4 DEF AttemptsOf
    <2>4. SentTexts = [j \in Items |-> Out(j)]
      BY DEF SentTexts
    <2>5. SentTexts' = [j \in Items |-> Out(j)']
      BY DEF SentTexts
    <2>6. /\ Out(i)' = {post'[b].text : b \in Of(i) \union {a}}
          /\ \A j \in Items \ {i} : Out(j)' = {post'[b].text : b \in Of(j)}
      BY <2>2
    <2>7. \A j \in Items : \A b \in Of(j) : post'[b].text = post[b].text
      BY <2>1, <2>3
    <2> HIDE DEF Of
    <2>8. /\ Out(i) = {post[b].text : b \in Of(i)}
          /\ \A j \in Items \ {i} : Out(j) = {post[b].text : b \in Of(j)}
      OBVIOUS
    <2> HIDE DEF Out
    <2>9. {post'[b].text : b \in Of(i) \union {a}} = {post[b].text : b \in Of(i)} \union {text[i]}
      <3>1. \A b \in Of(i) : post'[b].text = post[b].text
        BY <2>7
      <3>2. post'[a].text = text[i]
        BY <2>1
      <3>3. QED
        BY <3>1, <3>2
    <2>10. ASSUME NEW j \in Items \ {i}
           PROVE  {post'[b].text : b \in Of(j)} = {post[b].text : b \in Of(j)}
      <3>1. \A b \in Of(j) : post'[b].text = post[b].text
        BY <2>7
      <3>2. QED
        BY <3>1
    <2>11. Out(i)' = Out(i) \union {text[i]}
      BY <2>6, <2>8, <2>9
    <2>12. \A j \in Items \ {i} : Out(j)' = Out(j)
      BY <2>6, <2>8, <2>10
    <2>13. QED
      BY <2>4, <2>5, <2>11, <2>12
  <1>8. Cycle!Send(i)
    BY <1>3, <1>5, <1>6, <1>7 DEF Cycle!Send
  <1>9. QED
    BY <1>8 DEF Cycle!CycleNext

LEMMA SuccessIsConfirmation ==
    ASSUME IInv, SeqInv, CycleInv, NEW w \in Workers, RecordSuccess(w)
    PROVE  Cycle!CycleNext
  <1>1. PICK i \in Items, a \in Attempts : i = publish[w].item /\ a = publish[w].attempt
    BY DEF RecordSuccess, IInv, TypeOK, PublishTypeOK
  <1>2. /\ attempt[a].status = "pending" /\ attempt[a].item = i
        /\ attempt'[a].item = i /\ attempt'[a].status = "succeeded"
        /\ \A b \in Attempts \ {a} : attempt'[b] = attempt[b]
    BY <1>1, ResolvedRow
  <1>3. /\ post' = post /\ text' = text /\ post[a].state = "live"
        /\ status' = [status EXCEPT ![i] = "published"]
    BY <1>1 DEF RecordSuccess
  <1>4. status[i] = "approved" /\ post[a].text = text[i]
    BY <1>1 DEF RecordSuccess, SeqInv, PublishIsFresh, CycleInv, SentIsCurrent
  <1>5. i \notin Confirmed
    <2>1. \A b \in AttemptsOf(i) : attempt[b].status = "succeeded" => b = a
      BY <1>2 DEF IInv, UniqueClaim, Claims, AttemptsOf, Indexed
    <2>2. QED
      BY <1>2, <2>1 DEF Confirmed
  <1>6. Confirmed' = Confirmed \union {i}
    <2>1. \A j \in Items : (\E b \in AttemptsOf(j)' : attempt'[b].status = "succeeded")
              <=> (j = i \/ \E b \in AttemptsOf(j) : attempt[b].status = "succeeded")
      BY <1>2 DEF AttemptsOf
    <2>2. QED
      BY <2>1 DEF Confirmed
  <1>7. text[i] \in SentTexts[i]
    <2>1. a \in AttemptsOf(i) /\ post[a].state # "none"
      BY <1>2, <1>3 DEF AttemptsOf
    <2>2. QED
      BY <1>4, <2>1 DEF SentTexts
  <1>8. SentTexts' = SentTexts
    BY <1>2, <1>3, SentTextsKept
  <1>9. Stages' = [Stages EXCEPT ![i] = "published"] /\ Stages[i] = "approved"
    <2>1. "published" \in Statuses /\ StageOf["published"] = "published"
          /\ StageOf["approved"] = "approved"
      BY DEF Statuses, StageOf
    <2>2. Stages' = [Stages EXCEPT ![i] = StageOf["published"]]
      BY <1>3, <2>1, StagesFollow DEF IInv
    <2>3. QED
      BY <1>4, <2>1, <2>2 DEF Stages
  <1>10. Cycle!Confirm(i)
    BY <1>3, <1>5, <1>6, <1>7, <1>8, <1>9 DEF Cycle!Confirm
  <1>11. QED
    BY <1>10 DEF Cycle!CycleNext

(* The other steps of a publish request change nothing that ReviewCycle sees.*)
LEMMA PublishRefines ==
    ASSUME IInv, SeqInv, CycleInv, NEW w \in Workers, PublishStep(w)
    PROVE  Cycle!CycleNext \/ UNCHANGED Cycle!cycleVars
  <1>1. ASSUME UNCHANGED <<status, text>>, SentTexts' = SentTexts, Confirmed' = Confirmed
        PROVE  UNCHANGED Cycle!cycleVars
    BY <1>1 DEF Cycle!cycleVars, Stages
  <1>2. ASSUME NEW a \in Attempts, Claim(w, a) PROVE UNCHANGED Cycle!cycleVars
    <2>1. /\ attempt[a].status = "unused" /\ attempt'[a].status = "pending"
          /\ \A b \in Attempts \ {a} : attempt'[b] = attempt[b]
      BY <1>2, ClaimedRow
    <2>2. UNCHANGED <<status, text>> /\ post' = post
      BY <1>2 DEF Claim, workflowVars
    <2>3. post[a].state = "none"
      BY <2>1 DEF IInv, EvidenceBeforeCall
    <2>4. SentTexts' = SentTexts
      BY <2>1, <2>2, <2>3, SentTextsKept
    <2>5. Confirmed' = Confirmed
      BY <2>1, ConfirmedKept
    <2>6. QED
      BY <1>1, <2>2, <2>4, <2>5
  <1>3. ASSUME RecordFailure(w) PROVE UNCHANGED Cycle!cycleVars
    <2>1. PICK a \in Attempts : a = publish[w].attempt
      BY <1>3, ResolvedRow
    <2>2. /\ attempt[a].status = "pending" /\ attempt'[a].status = "failed"
          /\ attempt'[a].item = attempt[a].item
          /\ \A b \in Attempts \ {a} : attempt'[b] = attempt[b]
      BY <1>3, <2>1, ResolvedRow
    <2>3. UNCHANGED <<status, text>> /\ post' = post
      BY <1>3 DEF RecordFailure, workflowVars
    <2>4. SentTexts' = SentTexts
      BY <2>2, <2>3, SentTextsKept
    <2>5. Confirmed' = Confirmed
      BY <2>2, ConfirmedKept
    <2>6. QED
      BY <1>1, <2>3, <2>4, <2>5
  <1>4. ASSUME UNCHANGED <<workflowVars, attempt, post>> PROVE UNCHANGED Cycle!cycleVars
    BY <1>1, <1>4, AttemptsAlone DEF workflowVars
  <1>5. QED
    BY <1>2, <1>3, <1>4, CallRefines, SuccessIsConfirmation
       DEF PublishStep, Progress, ReadForPublish, ReadAttempts, Refuse, LoseClaim, Crash

LEMMA InitIsCycleInit == Init => Cycle!CycleInit
  <1> SUFFICES ASSUME Init PROVE Cycle!CycleInit
    OBVIOUS
  <1>1. Stages = [i \in Items |-> "absent"] /\ text = [i \in Items |-> NoText]
    BY DEF Init, WorkflowInit, Stages, StageOf
  <1>2. \A a \in Attempts : post[a].state = "none" /\ attempt[a].status = "unused"
    BY DEF Init
  <1>3. \A i \in Items : {b \in AttemptsOf(i) : post[b].state # "none"} = {}
    BY <1>2 DEF AttemptsOf
  <1>4. SentTexts = [i \in Items |-> {}]
    BY <1>3 DEF SentTexts
  <1>5. Confirmed = {}
    BY <1>2 DEF Confirmed, AttemptsOf
  <1>6. QED
    BY <1>1, <1>4, <1>5 DEF Cycle!CycleInit

LEMMA StepIsCycleStep ==
    ASSUME IInv, SeqInv, CycleInv, [Next]_vars
    PROVE  Cycle!CycleNext \/ UNCHANGED Cycle!cycleVars
  <1>1. ASSUME UNCHANGED <<status, text, attempt, post>> PROVE UNCHANGED Cycle!cycleVars
    BY <1>1, AttemptsAlone DEF Cycle!cycleVars, Stages
  <1>2. CASE Generate /\ UNCHANGED publishVars
    BY <1>2, GenerateRefines
  <1>3. ASSUME NEW w \in Workers, WorkflowStep(w), UNCHANGED publishVars
        PROVE  Cycle!CycleNext \/ UNCHANGED Cycle!cycleVars
    <2>1. ASSUME NEW j \in Items, CommitCopy(w, j) PROVE Cycle!CycleNext
      BY <1>3, <2>1, CopyRefines
    <2>2. CASE CommitMove(w)
      BY <1>3, <2>2, MoveRefines
    <2>3. CASE CommitEdit(w)
      BY <1>3, <2>3, EditRefines
    <2>4. CASE UNCHANGED <<status, text>>
      BY <1>1, <1>3, <2>4 DEF publishVars
    <2>5. QED
      BY <1>3, <2>1, <2>2, <2>3, <2>4
         DEF WorkflowStep, ReadForMove, ReadForEdit, ReadForCopy, ReadItem, Abandon
  <1>4. ASSUME NEW w \in Workers, PublishStep(w)
        PROVE  Cycle!CycleNext \/ UNCHANGED Cycle!cycleVars
    BY <1>4, PublishRefines
  <1>5. ASSUME NEW a \in Attempts, NetworkPosts(a) PROVE UNCHANGED Cycle!cycleVars
    <2>1. UNCHANGED <<status, text, attempt>>
      BY <1>5 DEF NetworkPosts, workflowVars
    <2>2. \A b \in Attempts : /\ post'[b].state # "none" <=> post[b].state # "none"
                              /\ post'[b].text = post[b].text
      BY <1>5 DEF NetworkPosts, IInv, TypeOK, PublishTypeOK, Post
    <2>3. SentTexts' = SentTexts /\ Confirmed' = Confirmed
      BY <2>1, <2>2, SentTextsKept, ConfirmedKept
    <2>4. QED
      BY <2>1, <2>3 DEF Cycle!cycleVars, Stages
  <1>6. CASE UNCHANGED vars
    BY <1>1, <1>6 DEF vars, workflowVars, publishVars
  <1>7. QED
    BY <1>2, <1>3, <1>4, <1>5, <1>6 DEF Next

(* One request at a time, review and publishing are ReviewCycle: each commit *)
(* and each call is one of its steps, and what lies between them is not seen.*)
THEOREM CycleWhenAlone ==
    ASSUME OneWorker
    PROVE  Spec => ImplementsReviewCycle
  <1>1. Spec => [](IInv /\ SeqInv /\ CycleInv)
    BY InitIInv, InitSeqInv, InitCycleInv, IInvStep, SeqInvStep, CycleInvStep, PTL DEF Spec
  <1>2. IInv /\ SeqInv /\ CycleInv /\ [Next]_vars => [Cycle!CycleNext]_(Cycle!cycleVars)
    BY StepIsCycleStep
  <1>3. QED
    BY <1>1, <1>2, InitIsCycleInit, PTL DEF Spec, ImplementsReviewCycle, Cycle!CycleSpec

=============================================================================
