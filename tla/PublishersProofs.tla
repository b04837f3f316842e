--------------------------- MODULE PublishersProofs --------------------------
(***************************************************************************)
(* Theorems about Publishers, for every number of images, tries and polls. *)
(***************************************************************************)
EXTENDS Publishers, TLAPS

(* Staging one more image after the first k. *)
LEMMA StageOneMore ==
    ASSUME NEW k \in Nat
    PROVE  /\ InOrder(k) \in Seq(1..k) /\ Len(InOrder(k)) = k
           /\ Append(InOrder(k), k + 1) = InOrder(k + 1)
  BY DEF InOrder

LEMMA OneMoreTry ==
    ASSUME NEW c \in Nat, NEW t \in Nat, c <= t
    PROVE  c <= t + 1
  OBVIOUS

LEMMA InitIInv == Init => IInv
  <1> SUFFICES ASSUME Init PROVE IInv
    OBVIOUS
  <1> USE LimitsAssumption DEF Init
  <1>1. TypeOK
    <2>1. posts \in Seq(Seq(1..MaxImages)) /\ Len(posts) <= creates
      OBVIOUS
    <2>2. staged \in Seq(1..MaxImages)
      OBVIOUS
    <2>3. /\ tries \in 0..(MaxAttempts - 1) /\ polls \in 0..(MaxPolls - 1)
          /\ creates \in 0..MaxAttempts /\ image \in 1..(MaxImages + 1)
      OBVIOUS
    <2>4. stage \in Stages /\ result \in Results /\ (stage = "done" <=> result # "none")
      BY DEF Stages, Results
    <2>5. QED
      BY <2>1, <2>2, <2>3, <2>4, Zenon DEF TypeOK
  <1>2. StagedInOrder
    BY DEF StagedInOrder, InOrder
  <1>3. CreatesCounted /\ PostShowsEveryImage /\ SuccessIsLive /\ RefusedIsNotLive
    BY DEF CreatesCounted, PostShowsEveryImage, SuccessIsLive, RefusedIsNotLive
  <1>4. QED
    BY <1>1, <1>2, <1>3 DEF IInv

(* What the rest of the invariant says only depends on the posts, the       *)
(* counted calls and the outcome, which a step of the preparation leaves.   *)
LEMMA PreparationKeepsVisible ==
    ASSUME IInv, TypeOK', UNCHANGED <<request, visible>>,
           stage \notin {"create", "permalink", "done"}, stage' # "permalink",
           tries' = tries \/ tries' = tries + 1 \/ network = "linkedin",
           result' # "ok"
    PROVE  CreatesCounted' /\ PostShowsEveryImage' /\ SuccessIsLive' /\ RefusedIsNotLive'
  <1>0. TypeOK /\ CreatesCounted /\ PostShowsEveryImage /\ SuccessIsLive /\ RefusedIsNotLive
    BY DEF IInv
  <1>1. creates' = creates /\ posts' = posts /\ accepted' = accepted /\ images' = images
        /\ network' = network
    BY DEF request, visible
  <1>2. ~accepted /\ creates <= tries
    BY <1>0 DEF CreatesCounted
  <1>3. ~CreateIsRetried => creates = 0
    BY <1>0 DEF CreatesCounted
  <1>4. ~CreateIsRetried => posts = <<>>
    BY <1>0, <1>3 DEF TypeOK
  <1>5. CreateIsRetried' = CreateIsRetried
    BY <1>1 DEF CreateIsRetried
  <1>6. PostShowsEveryImage' /\ SuccessIsLive'
    BY <1>0, <1>1 DEF PostShowsEveryImage, SuccessIsLive
  <1>7. RefusedIsNotLive'
    BY <1>1, <1>4 DEF RefusedIsNotLive, CreateIsRetried
  <1>8. CreatesCounted'
    <2>1. creates' <= tries'
      <3>1. CASE network = "linkedin"
        BY <3>1, <1>0, <1>1, <1>3 DEF CreateIsRetried, TypeOK
      <3>2. CASE network # "linkedin"
        <4>1. tries \in Nat /\ creates \in Nat
          BY <1>0, LimitsAssumption DEF TypeOK
        <4>2. QED
          BY <3>2, <4>1, <1>1, <1>2
      <3>3. QED
        BY <3>1, <3>2
    <2>2. tries' \in Nat /\ creates' \in Nat
      BY LimitsAssumption DEF TypeOK
    <2>3. creates' <= IF stage' \in {"permalink", "done"} THEN tries' + 1 ELSE tries'
      <3>1. creates' <= tries' + 1
        BY <2>1, <2>2, OneMoreTry
      <3>2. QED
        BY <2>1, <3>1
    <2>4. ~CreateIsRetried' => creates' = 0
      BY <1>1, <1>3, <1>5
    <2>5. ~accepted'
      BY <1>1, <1>2
    <2>6. /\ accepted' => stage' \in {"permalink", "done"}
          /\ stage' = "permalink" => posts' # <<>>
      BY <2>5
    <2>7. ~CreateIsRetried' =>
              creates' = 0 \/ (creates' = 1 /\ stage' \in {"permalink", "done"})
      BY <2>4
    <2>8. QED
      BY <2>3, <2>6, <2>7 DEF CreatesCounted
  <1>9. QED
    BY <1>6, <1>7, <1>8

(* A failed step of the preparation: over, or started again from its head.  *)
LEMMA StagingFailsKeeps ==
    ASSUME IInv, NEW reply, reply # "ok", UNCHANGED <<request, visible>>,
           stage \in {"upload", "transfer", "poll", "parent", "poll_parent"},
           StagingFails(reply), reply \in {"transient", "lost", "no_id", "unreadable"} \union Errors
    PROVE  TypeOK' /\ StagedInOrder' /\ stage' # "permalink" /\ result' # "ok"
           /\ (tries' = tries \/ tries' = tries + 1)
  <1>0. TypeOK /\ StagedInOrder
    BY DEF IInv
  <1>1. CASE reply = "lost" \/ ~TriesAgain(Code(reply))
    <2>1. /\ stage' = "done" /\ UNCHANGED <<staging, tries>>
          /\ result' \in Results \ {"none", "ok"}
      BY <1>1 DEF StagingFails, Finish, Code, Errors, Results
    <2>2. TypeOK'
      BY <1>0, <2>1 DEF TypeOK, request, visible, staging, Stages
    <2>3. StagedInOrder'
      BY <1>0, <2>1 DEF StagedInOrder, staging
    <2>4. QED
      BY <2>1, <2>2, <2>3
  <1>2. CASE reply # "lost" /\ TriesAgain(Code(reply))
    <2>1. /\ stage' = "upload" /\ tries' = tries + 1 /\ UNCHANGED <<polls, container, result>>
          /\ Restart
      BY <1>2 DEF StagingFails
    <2>2. tries + 1 < MaxAttempts
      BY <1>2 DEF TriesAgain
    <2>3. NeedsStaging /\ images \in 1..MaxImages
      BY <1>0 DEF StagedInOrder, NeedsStaging, TypeOK
    <2>4. /\ image' \in 1..(MaxImages + 1) /\ staged' \in Seq(1..MaxImages)
          /\ staged' = InOrder(Len(staged')) /\ image' = Len(staged') + 1 /\ image' <= images
      <3>1. CASE network = "linkedin"
        <4>1. UNCHANGED <<image, staged>> /\ stage \in {"upload", "transfer", "poll"}
          BY <2>1, <3>1, <1>0 DEF Restart, StagedInOrder
        <4>2. QED
          BY <4>1, <1>0 DEF TypeOK, StagedInOrder
      <3>2. CASE network # "linkedin"
        <4>1. image' = 1 /\ staged' = <<>>
          BY <2>1, <3>2 DEF Restart
        <4>2. QED
          BY <4>1, <2>3, LimitsAssumption DEF InOrder
      <3>3. QED
        BY <3>1, <3>2
    <2>5. TypeOK'
      <3>1. /\ tries' \in 0..(MaxAttempts - 1) /\ stage' \in Stages
            /\ stage' = "done" <=> result' # "none"
        BY <2>1, <2>2, <1>0, LimitsAssumption DEF TypeOK, Stages
      <3>2. QED
        BY <3>1, <2>1, <2>4, <1>0 DEF TypeOK, request, visible
    <2>6. StagedInOrder'
      BY <2>1, <2>3, <2>4 DEF StagedInOrder, NeedsStaging, request
    <2>7. QED
      BY <2>1, <2>5, <2>6, <1>0 DEF TypeOK
  <1>3. QED
    BY <1>1, <1>2

(* One more image is staged: the next call stages the following image, or    *)
(* there is none left.                                                       *)
LEMMA StagedKeeps ==
    ASSUME IInv, Staged, UNCHANGED <<request, visible, result>>,
           stage \in {"upload", "transfer", "poll"},
           polls' \in 0..(MaxPolls - 1),
           container' \in {"none", "processing"} \union ReadyStates \union {"dead"},
           network = "instagram" => container' \in ReadyStates
    PROVE  TypeOK' /\ StagedInOrder' /\ stage' # "permalink" /\ result' # "ok"
           /\ (tries' = tries \/ network = "linkedin")
  <1>0. TypeOK /\ StagedInOrder
    BY DEF IInv
  <1>1. /\ NeedsStaging /\ image = Len(staged) + 1 /\ image <= images
        /\ staged = InOrder(Len(staged)) /\ Len(staged) \in Nat
        /\ images \in 1..MaxImages /\ image \in 1..images
        /\ result = "none" /\ tries \in 0..(MaxAttempts - 1)
    BY <1>0 DEF TypeOK, StagedInOrder
  <1>2. /\ staged' = InOrder(image) /\ Len(staged') = image
        /\ staged' \in Seq(1..MaxImages)
    <2>1. staged' = Append(staged, image)
      BY DEF Staged
    <2>2. staged' = InOrder(image)
      BY <2>1, <1>1, StageOneMore
    <2>3. InOrder(image) \in Seq(1..image) /\ Len(InOrder(image)) = image
      BY <1>1, StageOneMore
    <2>4. image \in 1..MaxImages /\ staged \in Seq(1..MaxImages)
      BY <1>0, <1>1, LimitsAssumption DEF TypeOK
    <2>5. staged' \in Seq(1..MaxImages)
      BY <2>1, <2>4
    <2>6. QED
      BY <2>2, <2>3, <2>5
  <1>3. /\ image' = image + 1 /\ image' \in 1..(MaxImages + 1)
        /\ tries' \in 0..(MaxAttempts - 1)
        /\ tries' = tries \/ network = "linkedin"
    BY <1>1, LimitsAssumption DEF Staged
  <1>4. /\ stage' \in {"upload", "parent", "create"}
        /\ stage' = "upload" => image' <= images
        /\ stage' # "upload" => image = images
        /\ stage' = "parent" => network = "instagram" /\ images >= 2
    BY <1>1 DEF Staged
  <1>5. TypeOK'
    BY <1>0, <1>1, <1>2, <1>3, <1>4 DEF TypeOK, Stages, request, visible
  <1>6. StagedInOrder'
    BY <1>1, <1>2, <1>3, <1>4 DEF StagedInOrder, NeedsStaging, request
  <1>7. QED
    BY <1>1, <1>3, <1>4, <1>5, <1>6

(* The call that creates the post is made with every image staged. *)
LEMMA BoundIsInOrder ==
    ASSUME TypeOK, StagedInOrder, stage = "create"
    PROVE  Bound = InOrder(images) /\ Bound \in Seq(1..MaxImages)
  <1>1. images \in 0..MaxImages
    BY DEF TypeOK
  <1>2. Bound = InOrder(images)
    BY DEF Bound, StagedInOrder
  <1>3. InOrder(images) \in Seq(1..MaxImages)
    BY <1>1, LimitsAssumption DEF InOrder
  <1>4. QED
    BY <1>2, <1>3

-----------------------------------------------------------------------------

LEMMA StartKeeps == ASSUME IInv, Start PROVE IInv'
  <1>0. TypeOK /\ StagedInOrder /\ stage = "start"
    BY DEF IInv, Start
  <1>1. /\ UNCHANGED <<request, visible, staging, tries>>
        /\ \/ stage' = "done" /\ result' \in {"invalid", "unreachable_media"}
           \/ /\ stage' = IF NeedsStaging THEN "upload" ELSE "create"
              /\ network = "instagram" => images > 0
              /\ UNCHANGED result
    <2>1. CASE network = "instagram" /\ images = 0
      BY <2>1, <1>0 DEF Start, Finish, TypeOK
    <2>2. CASE network = "instagram" /\ images > 0 /\ ~hosted
      BY <2>2, <1>0 DEF Start, Finish, TypeOK
    <2>3. CASE network = "instagram" => images > 0 /\ hosted
      BY <2>3, <1>0 DEF Start, Finish, TypeOK
    <2>4. QED
      BY <2>1, <2>2, <2>3, <1>0 DEF TypeOK
  <1>2. stage' \in {"done", "upload", "create"} /\ (stage' = "done" <=> result' # "none")
        /\ result' \in Results \ {"ok"}
    BY <1>0, <1>1 DEF TypeOK, Results, Errors
  <1>3. TypeOK'
    BY <1>0, <1>1, <1>2 DEF TypeOK, Stages, request, visible, staging
  <1>4. StagedInOrder'
    <2>1. staged' = <<>> /\ image' = 1 /\ images' = images /\ network' = network
          /\ images \in Nat /\ NeedsStaging' = NeedsStaging
      BY <1>0, <1>1 DEF StagedInOrder, TypeOK, request, staging, NeedsStaging
    <2>2. /\ stage' = "upload" => NeedsStaging /\ images >= 1
          /\ stage' = "create" => ~NeedsStaging /\ network # "instagram"
      BY <1>1, <2>1 DEF NeedsStaging
    <2>3. staged' = InOrder(Len(staged')) /\ Len(staged') = 0
      BY <2>1 DEF InOrder
    <2>4. QED
      BY <1>2, <2>1, <2>2, <2>3 DEF StagedInOrder
  <1>5. CreatesCounted' /\ PostShowsEveryImage' /\ SuccessIsLive' /\ RefusedIsNotLive'
    BY <1>0, <1>1, <1>2, <1>3, PreparationKeepsVisible DEF staging
  <1>6. QED
    BY <1>3, <1>4, <1>5 DEF IInv

LEMMA UploadKeeps ==
    ASSUME IInv, NEW reply \in Replies, Upload(reply)
    PROVE  IInv'
  <1>0. TypeOK /\ StagedInOrder /\ stage = "upload" /\ UNCHANGED <<request, visible>>
    BY DEF IInv, Upload
  <1>1. /\ TypeOK' /\ StagedInOrder' /\ stage' # "permalink" /\ result' # "ok"
        /\ tries' = tries \/ tries' = tries + 1 \/ network = "linkedin"
    <2>1. CASE reply = "ok" /\ network = "facebook"
      <3>1. Staged /\ UNCHANGED <<polls, container, result>>
        BY <2>1 DEF Upload
      <3>2. QED
        BY <3>1, <2>1, <1>0, StagedKeeps DEF TypeOK
    <2>2. CASE reply = "ok" /\ network \in {"instagram", "linkedin"}
      <3>1. /\ stage' \in {"poll", "transfer"} /\ (stage' = "transfer" => network = "linkedin")
            /\ UNCHANGED <<image, staged, tries, result>>
            /\ polls' \in {0, polls} /\ container' \in {"processing", container}
        BY <2>2 DEF Upload, staging
      <3>2. TypeOK'
        BY <3>1, <1>0, LimitsAssumption DEF TypeOK, Stages, request, visible
      <3>3. StagedInOrder'
        BY <3>1, <1>0 DEF StagedInOrder, NeedsStaging, request
      <3>4. QED
        BY <3>1, <3>2, <3>3, <1>0 DEF TypeOK
    <2>3. CASE reply # "ok"
      <3>1. StagingFails(reply)
        BY <2>3 DEF Upload
      <3>2. QED
        BY <3>1, <2>3, <1>0, StagingFailsKeeps DEF Replies
    <2>4. QED
      BY <2>1, <2>2, <2>3, <1>0 DEF TypeOK, Networks
  <1>2. CreatesCounted' /\ PostShowsEveryImage' /\ SuccessIsLive' /\ RefusedIsNotLive'
    BY <1>0, <1>1, PreparationKeepsVisible
  <1>3. QED
    BY <1>1, <1>2 DEF IInv

LEMMA TransferKeeps ==
    ASSUME IInv, NEW reply \in Replies, Transfer(reply)
    PROVE  IInv'
  <1>0. TypeOK /\ StagedInOrder /\ stage = "transfer" /\ network = "linkedin"
        /\ UNCHANGED <<request, visible>>
    BY DEF IInv, Transfer, StagedInOrder
  <1>1. /\ TypeOK' /\ StagedInOrder' /\ stage' # "permalink" /\ result' # "ok"
    <2>1. CASE reply = "ok"
      <3>1. Staged /\ UNCHANGED <<polls, container, result>>
        BY <2>1 DEF Transfer
      <3>2. QED
        BY <3>1, <1>0, StagedKeeps DEF TypeOK
    <2>2. CASE reply # "ok"
      <3>1. StagingFails(reply)
        BY <2>2 DEF Transfer
      <3>2. QED
        BY <3>1, <2>2, <1>0, StagingFailsKeeps DEF Replies
    <2>3. QED
      BY <2>1, <2>2
  <1>2. CreatesCounted' /\ PostShowsEveryImage' /\ SuccessIsLive' /\ RefusedIsNotLive'
    BY <1>0, <1>1, PreparationKeepsVisible
  <1>3. QED
    BY <1>1, <1>2 DEF IInv

LEMMA CreateParentKeeps ==
    ASSUME IInv, NEW reply \in Replies, CreateParent(reply)
    PROVE  IInv'
  <1>0. TypeOK /\ StagedInOrder /\ stage = "parent" /\ UNCHANGED <<request, visible>>
    BY DEF IInv, CreateParent
  <1>1. /\ TypeOK' /\ StagedInOrder' /\ stage' # "permalink" /\ result' # "ok"
        /\ tries' = tries \/ tries' = tries + 1
    <2>1. CASE reply = "ok"
      <3>1. /\ stage' = "poll_parent" /\ polls' = 0 /\ container' = "processing"
            /\ UNCHANGED <<image, staged, tries, result>>
        BY <2>1 DEF CreateParent
      <3>2. TypeOK'
        BY <3>1, <1>0, LimitsAssumption DEF TypeOK, Stages, request, visible
      <3>3. StagedInOrder'
        BY <3>1, <1>0 DEF StagedInOrder, NeedsStaging, request
      <3>4. QED
        BY <3>1, <3>2, <3>3, <1>0 DEF TypeOK
    <2>2. CASE reply # "ok"
      <3>1. StagingFails(reply)
        BY <2>2 DEF CreateParent
      <3>2. QED
        BY <3>1, <2>2, <1>0, StagingFailsKeeps DEF Replies
    <2>3. QED
      BY <2>1, <2>2
  <1>2. CreatesCounted' /\ PostShowsEveryImage' /\ SuccessIsLive' /\ RefusedIsNotLive'
    BY <1>0, <1>1, PreparationKeepsVisible
  <1>3. QED
    BY <1>1, <1>2 DEF IInv

LEMMA PollKeeps ==
    ASSUME IInv,
           NEW reply \in Errors \union ReadyStates \union
                             {"processing", "dead", "unreadable", "lost"},
           Poll(reply)
    PROVE  IInv'
  <1>0. /\ TypeOK /\ StagedInOrder /\ stage \in {"poll", "poll_parent"}
        /\ UNCHANGED <<request, visible>> /\ result = "none"
    BY DEF IInv, Poll, TypeOK
  <1>1. /\ TypeOK' /\ StagedInOrder' /\ stage' # "permalink" /\ result' # "ok"
        /\ tries' = tries \/ tries' = tries + 1 \/ network = "linkedin"
    <2>1. CASE reply \in ReadyStates
      <3>1. container' \in ReadyStates /\ UNCHANGED <<polls, result>> /\ PollAnswered
        BY <2>1 DEF Poll, Errors, ReadyStates
      <3>2. CASE stage = "poll"
        <4>1. Staged
          BY <3>1, <3>2 DEF PollAnswered
        <4>2. polls' \in 0..(MaxPolls - 1)
          BY <3>1, <1>0 DEF TypeOK
        <4>3. QED
          BY <4>1, <4>2, <3>1, <3>2, <1>0, StagedKeeps
      <3>3. CASE stage = "poll_parent"
        <4>1. stage' = "create" /\ UNCHANGED <<image, staged, tries>>
          BY <3>1, <3>3 DEF PollAnswered
        <4>2. TypeOK'
          BY <3>1, <4>1, <1>0 DEF TypeOK, Stages, request, visible
        <4>3. StagedInOrder'
          BY <3>1, <3>3, <4>1, <1>0 DEF StagedInOrder, NeedsStaging, request
        <4>4. QED
          BY <3>1, <4>1, <4>2, <4>3, <1>0
      <3>4. QED
        BY <3>2, <3>3, <1>0
    <2>2. CASE reply = "dead"
      <3>1. /\ container' = "dead" /\ stage' = "done" /\ result' = "invalid"
            /\ UNCHANGED <<image, staged, tries, polls>>
        BY <2>2 DEF Poll, Errors, ReadyStates
      <3>2. TypeOK'
        BY <3>1, <1>0 DEF TypeOK, Stages, Results, Errors, request, visible
      <3>3. StagedInOrder'
        BY <3>1, <1>0 DEF StagedInOrder
      <3>4. QED
        BY <3>1, <3>2, <3>3
    <2>3. CASE reply = "processing"
      <3>1. StillProcessing
        BY <2>3 DEF Poll, Errors, ReadyStates
      <3>2. CASE polls + 1 < MaxPolls
        <4>1. polls' = polls + 1 /\ UNCHANGED <<stage, image, staged, tries, container, result>>
          BY <3>1, <3>2, <1>0, LimitsAssumption DEF StillProcessing, TypeOK
        <4>2. polls' \in 0..(MaxPolls - 1)
          BY <4>1, <3>2, <1>0, LimitsAssumption DEF TypeOK
        <4>3. TypeOK'
          BY <4>1, <4>2, <1>0 DEF TypeOK, request, visible
        <4>4. StagedInOrder'
          BY <4>1, <1>0 DEF StagedInOrder, NeedsStaging, request
        <4>5. QED
          BY <4>1, <4>3, <4>4, <1>0
      <3>3. CASE ~(polls + 1 < MaxPolls)
        <4>1. StagingFails("transient")
          BY <3>1, <3>3 DEF StillProcessing
        <4>2. QED
          BY <4>1, <1>0, StagingFailsKeeps
      <3>4. QED
        BY <3>2, <3>3
    <2>4. CASE reply \in Errors \union {"unreadable", "lost"}
      <3>1. StagingFails(reply)
        BY <2>4 DEF Poll, Errors, ReadyStates
      <3>2. reply # "ok"
        BY <2>4 DEF Errors
      <3>3. QED
        BY <3>1, <3>2, <2>4, <1>0, StagingFailsKeeps
    <2>5. QED
      BY <2>1, <2>2, <2>3, <2>4
  <1>2. CreatesCounted' /\ PostShowsEveryImage' /\ SuccessIsLive' /\ RefusedIsNotLive'
    BY <1>0, <1>1, PreparationKeepsVisible
  <1>3. QED
    BY <1>1, <1>2 DEF IInv

(* The outcomes of a creating call: named (Instagram goes on to the          *)
(* permalink), over, or, on Facebook, made again after a retryable refusal.  *)
LEMMA CreateOutcomes ==
    ASSUME TypeOK, NEW reply \in Replies, Create(reply)
    PROVE  \/ /\ reply = "ok" /\ stage' = "permalink"
              /\ UNCHANGED <<staging, tries, result>>
           \/ /\ stage' = "done" /\ UNCHANGED <<staging, tries>>
              /\ result' \in Results \ {"none"}
              /\ result' = "ok" => reply = "ok"
              /\ result' \in {"reauth", "rate_limited", "invalid", "unreachable_media"} =>
                     reply \in Errors
           \/ /\ CreateIsRetried /\ tries + 1 < MaxAttempts /\ tries' = tries + 1
              /\ reply \notin {"ok", "no_id"}
              /\ UNCHANGED <<stage, staging, result>>
  <1>1. CASE reply = "ok"
    BY <1>1 DEF Create, Finish, Results, Errors
  <1>2. CASE reply = "no_id"
    BY <1>2 DEF Create, CreateFails, TriesAgain, RetryableCodes, Unnamed, Finish, Results, Errors
  <1>3. CASE reply = "lost"
    BY <1>3 DEF Create, Finish, Results, Errors
  <1>4. CASE reply \in Errors \union {"unreadable"}
    <2>1. CreateFails(Code(reply)) /\ reply \notin {"ok", "no_id", "lost"}
      BY <1>4 DEF Create, Errors
    <2>2. Code(reply) \in Errors /\ (Code(reply) # "transient" => reply \in Errors)
      BY DEF Code, Errors
    <2>3. CASE ~(CreateIsRetried /\ TriesAgain(Code(reply)))
      BY <2>1, <2>2, <2>3 DEF CreateFails, Finish, Results, Errors
    <2>4. CASE CreateIsRetried /\ TriesAgain(Code(reply))
      BY <2>1, <2>4 DEF CreateFails, TriesAgain
    <2>5. QED
      BY <2>3, <2>4
  <1>5. QED
    BY <1>1, <1>2, <1>3, <1>4 DEF Replies

LEMMA CreateKeeps ==
    ASSUME IInv, NEW reply \in Replies, Create(reply)
    PROVE  IInv'
  <1>0. /\ TypeOK /\ StagedInOrder /\ stage = "create" /\ UNCHANGED request
        /\ CreatesCounted /\ PostShowsEveryImage /\ result = "none"
    BY DEF IInv, Create, TypeOK
  <1>1. /\ creates' = creates + 1 /\ TakesEffect(reply)
        /\ accepted' = (accepted \/ reply \in {"ok", "no_id"})
    BY DEF Create
  <1>2. /\ ~accepted /\ creates <= tries /\ (~CreateIsRetried => creates = 0)
        /\ tries \in 0..(MaxAttempts - 1) /\ creates \in Nat
    BY <1>0 DEF CreatesCounted, TypeOK
  <1>3. creates' \in 0..MaxAttempts /\ creates' <= tries + 1
    BY <1>1, <1>2, LimitsAssumption
  <1>4. /\ posts' \in Seq(Seq(1..MaxImages)) /\ Len(posts') <= creates'
        /\ \A p \in 1..Len(posts') : posts'[p] = InOrder(images')
    <2>1. Bound = InOrder(images) /\ Bound \in Seq(1..MaxImages)
      BY <1>0, BoundIsInOrder
    <2>2. /\ posts \in Seq(Seq(1..MaxImages)) /\ Len(posts) <= creates /\ images' = images
          /\ \A p \in 1..Len(posts) : posts[p] = InOrder(images)
      BY <1>0 DEF TypeOK, PostShowsEveryImage, request
    <2>3. posts' = posts \/ posts' = Append(posts, Bound)
      BY <1>1 DEF TakesEffect
    <2>4. CASE posts' = posts
      BY <2>2, <2>4, <1>1, <1>2
    <2>5. CASE posts' = Append(posts, Bound)
      BY <2>1, <2>2, <2>5, <1>1, <1>2
    <2>6. QED
      BY <2>3, <2>4, <2>5
  <1>5. /\ reply = "ok" => posts' # <<>>
        /\ reply \in Errors => posts' = posts
    BY <1>0, <1>1 DEF TakesEffect, TypeOK, Errors
  <1>6. ~CreateIsRetried => posts = <<>>
    BY <1>0, <1>2 DEF TypeOK
  <1>7. CreateIsRetried' = CreateIsRetried
    BY <1>0 DEF CreateIsRetried, request
  <1>8. CASE reply = "ok" /\ stage' = "permalink" /\ UNCHANGED <<staging, tries, result>>
    <2>1. TypeOK'
      BY <1>0, <1>1, <1>3, <1>4, <1>8 DEF TypeOK, Stages, request, staging
    <2>2. StagedInOrder'
      BY <1>0, <1>8 DEF StagedInOrder, staging
    <2>3. CreatesCounted'
      BY <1>1, <1>2, <1>3, <1>5, <1>7, <1>8 DEF CreatesCounted
    <2>4. PostShowsEveryImage' /\ SuccessIsLive' /\ RefusedIsNotLive'
      BY <1>0, <1>4, <1>8 DEF PostShowsEveryImage, SuccessIsLive, RefusedIsNotLive
    <2>5. QED
      BY <2>1, <2>2, <2>3, <2>4 DEF IInv
  <1>9. CASE /\ stage' = "done" /\ UNCHANGED <<staging, tries>>
             /\ result' \in Results \ {"none"}
             /\ result' = "ok" => reply = "ok"
             /\ result' \in {"reauth", "rate_limited", "invalid", "unreachable_media"} =>
                    reply \in Errors
    <2>1. TypeOK'
      BY <1>0, <1>1, <1>3, <1>4, <1>9 DEF TypeOK, Stages, request, staging
    <2>2. StagedInOrder'
      BY <1>0, <1>9 DEF StagedInOrder, staging
    <2>3. CreatesCounted'
      BY <1>1, <1>2, <1>3, <1>7, <1>9 DEF CreatesCounted
    <2>4. PostShowsEveryImage' /\ SuccessIsLive'
      BY <1>4, <1>5, <1>9 DEF PostShowsEveryImage, SuccessIsLive
    <2>5. RefusedIsNotLive'
      BY <1>5, <1>6, <1>7, <1>9 DEF RefusedIsNotLive, CreateIsRetried
    <2>6. QED
      BY <2>1, <2>2, <2>3, <2>4, <2>5 DEF IInv
  <1>10. CASE /\ CreateIsRetried /\ tries + 1 < MaxAttempts /\ tries' = tries + 1
              /\ reply \notin {"ok", "no_id"}
              /\ UNCHANGED <<stage, staging, result>>
    <2>1. tries' \in 0..(MaxAttempts - 1)
      BY <1>2, <1>10, LimitsAssumption
    <2>2. TypeOK'
      BY <1>0, <1>1, <1>3, <1>4, <1>10, <2>1 DEF TypeOK, request, staging
    <2>3. StagedInOrder'
      BY <1>0, <1>10 DEF StagedInOrder, staging, NeedsStaging, request
    <2>4. CreatesCounted'
      BY <1>0, <1>1, <1>2, <1>3, <1>7, <1>10 DEF CreatesCounted
    <2>5. PostShowsEveryImage' /\ SuccessIsLive' /\ RefusedIsNotLive'
      BY <1>0, <1>4, <1>10 DEF PostShowsEveryImage, SuccessIsLive, RefusedIsNotLive
    <2>6. QED
      BY <2>2, <2>3, <2>4, <2>5 DEF IInv
  <1>11. QED
    BY <1>0, <1>8, <1>9, <1>10, CreateOutcomes

LEMMA PermalinkKeeps ==
    ASSUME IInv, NEW reply \in Replies, Permalink(reply)
    PROVE  IInv'
  <1>0. /\ TypeOK /\ StagedInOrder /\ CreatesCounted /\ PostShowsEveryImage
        /\ stage = "permalink" /\ UNCHANGED <<request, visible>>
    BY DEF IInv, Permalink
  <1>1. /\ stage' = "done" /\ UNCHANGED <<staging, tries>>
        /\ result' \in {"ok", "lost"}
    BY DEF Permalink, Finish
  <1>2. TypeOK'
    BY <1>0, <1>1 DEF TypeOK, Stages, Results, request, visible, staging
  <1>3. StagedInOrder'
    BY <1>0, <1>1 DEF StagedInOrder, staging
  <1>4. CreatesCounted'
    BY <1>0, <1>1 DEF CreatesCounted, CreateIsRetried, request, visible
  <1>5. PostShowsEveryImage'
    BY <1>0 DEF PostShowsEveryImage, request, visible
  <1>6. SuccessIsLive' /\ RefusedIsNotLive'
    BY <1>0, <1>1 DEF SuccessIsLive, RefusedIsNotLive, CreatesCounted, visible
  <1>7. QED
    BY <1>2, <1>3, <1>4, <1>5, <1>6 DEF IInv

LEMMA StutterKeeps == ASSUME IInv, UNCHANGED vars PROVE IInv'
  <1>1. UNCHANGED <<network, images, hosted, stage, image, staged, tries, polls,
                    container, creates, posts, accepted, result>>
    BY DEF vars, request, staging, visible
  <1>2. TypeOK' /\ StagedInOrder'
    BY <1>1 DEF IInv, TypeOK, StagedInOrder, NeedsStaging
  <1>3. CreatesCounted' /\ PostShowsEveryImage' /\ SuccessIsLive' /\ RefusedIsNotLive'
    BY <1>1 DEF IInv, CreatesCounted, CreateIsRetried, PostShowsEveryImage, SuccessIsLive,
                RefusedIsNotLive
  <1>4. QED
    BY <1>2, <1>3 DEF IInv

LEMMA IInvStep == IInv /\ [Next]_vars => IInv'
  BY StartKeeps, UploadKeeps, TransferKeeps, CreateParentKeeps, PollKeeps, CreateKeeps,
     PermalinkKeeps, StutterKeeps DEF Next

-----------------------------------------------------------------------------

(* The inductive invariant holds of every publish call, with any number of   *)
(* images, tries and polls.                                                  *)
THEOREM Invariant == Spec => []IInv
  <1>1. IInv /\ [Next]_vars => IInv'
    BY IInvStep
  <1>2. QED
    BY InitIInv, <1>1, PTL DEF Spec

(* Types of the conversation's state. *)
THEOREM TypeCorrect == Spec => []TypeOK
  <1>1. IInv => TypeOK
    BY DEF IInv
  <1>2. QED
    BY Invariant, <1>1, PTL

(* Whatever the network answered and however often the staging started over, *)
(* a post shows every image of the request, once and in order.               *)
THEOREM PostsAreWhole == Spec => []PostShowsEveryImage
  <1>1. IInv => PostShowsEveryImage
    BY DEF IInv
  <1>2. QED
    BY Invariant, <1>1, PTL

(* publish returns a result only for a post that is on the network, and      *)
(* reports a refusal only when nothing is, unless the creating call is one   *)
(* of those that are retried.                                                *)
THEOREM ReportsAreTrue == Spec => []ReportIsTrue
  <1>1. IInv => ReportIsTrue
    BY DEF IInv, ReportIsTrue
  <1>2. QED
    BY Invariant, <1>1, PTL

(* One publish call puts two posts on the network only for a Facebook post   *)
(* of at most one image.                                                     *)
THEOREM OnePostElsewhere == Spec => []DuplicatesOnlyByFacebookRetry
  <1>1. IInv => DuplicatesOnlyByFacebookRetry
    <2>1. ASSUME IInv, ~CreateIsRetried
          PROVE  Len(posts) <= 1
      BY <2>1 DEF IInv, TypeOK, CreatesCounted
    <2>2. QED
      BY <2>1 DEF DuplicatesOnlyByFacebookRetry, CreateIsRetried, IInv, TypeOK
  <1>2. QED
    BY Invariant, <1>1, PTL

(* Once a creating call was accepted, no step makes another one. *)
THEOREM AcceptedOnce == Spec => AcceptedIsNeverRepeated
  <1>1. IInv /\ [Next]_vars => [accepted => creates' = creates]_vars
    <2> SUFFICES ASSUME IInv, Next, accepted
                 PROVE  creates' = creates
      OBVIOUS
    <2>1. stage \in {"permalink", "done"}
      BY DEF IInv, CreatesCounted
    <2>2. QED
      BY <2>1 DEF Next, Start, Upload, Transfer, CreateParent, Poll, Create, Permalink,
                  visible
  <1>2. QED
    BY Invariant, <1>1, PTL DEF Spec, AcceptedIsNeverRepeated

(* Instagram is asked to publish no container whose last poll, the one that  *)
(* counts, said that it was being processed, had failed or had expired.      *)
THEOREM ReadyFirst == Spec => PublishesNoneUnready
  <1>1. IInv /\ [Next]_vars =>
            [network = "instagram" /\ creates' # creates => container \in ReadyStates]_vars
    <2> SUFFICES ASSUME IInv, Next, network = "instagram", creates' # creates
                 PROVE  container \in ReadyStates
      OBVIOUS
    <2>1. stage = "create"
      BY DEF Next, Start, Upload, Transfer, CreateParent, Poll, Create, Permalink, visible
    <2>2. QED
      BY <2>1 DEF IInv, StagedInOrder
  <1>2. QED
    BY Invariant, <1>1, PTL DEF Spec, PublishesNoneUnready

=============================================================================
