------------------------------ MODULE Publishers -----------------------------
(***************************************************************************)
(* One call publisher.publish(request): the conversation of the Facebook,  *)
(* Instagram or LinkedIn publisher with its network                        *)
(* (app/publishing/publishers/, app/publishing/meta_graph.py).             *)
(*                                                                         *)
(* A publisher stages the images (photos, containers, assets: none of them *)
(* visible) and then makes the call that creates the post.  with_retries   *)
(* runs a step of this again after a rate_limited or transient error.      *)
(*                                                                         *)
(* The network is external: it may answer a call with success, with        *)
(* success but no id, with an error it names, unreadably (a non-JSON body, *)
(* a bare HTTP 5xx) or not at all (timeout, reset).  An unreadable or lost *)
(* answer says nothing about whether the call took effect; an error that   *)
(* is named means it did not.                                              *)
(***************************************************************************)
EXTENDS Naturals, Sequences

CONSTANTS MaxImages,     \* most images a request carries
          MaxAttempts,   \* settings.publish_max_attempts
          MaxPolls       \* settings.instagram_container_poll_attempts

ASSUME LimitsAssumption == /\ MaxImages \in Nat
                           /\ MaxAttempts \in Nat \ {0}
                           /\ MaxPolls \in Nat \ {0}

VARIABLES
    network,     \* which publisher runs
    images,      \* how many images the request carries
    hosted,      \* whether every image has a public URL
    stage,       \* the call to make next
    image,       \* index of the image being staged
    staged,      \* media_ids, child_ids, image_urns: the images staged, in order
    tries,       \* failed tries of the operation with_retries is running
    polls,       \* polls of the container being awaited
    container,   \* what the last poll of it said
    creates,     \* how often the creating call was made
    posts,       \* the posts on the network: the images of each
    accepted,    \* whether a creating call was answered with acceptance
    result       \* what publish returned (ok) or raised (a code)

request == <<network, images, hosted>>
staging == <<image, staged, polls, container>>
visible == <<creates, posts, accepted>>
vars == <<request, stage, staging, tries, visible, result>>

Networks == {"facebook", "instagram", "linkedin"}
Stages == {"start", "upload", "transfer", "poll", "parent", "poll_parent", "create",
           "permalink", "done"}

(* What raise_for_graph_error and _error make of an answer that names one. *)
Errors == {"reauth", "rate_limited", "transient", "invalid"}
Replies == Errors \union {"ok", "no_id", "unreadable", "lost"}
(* Reported finished, or reported without a status_code. *)
ReadyStates == {"finished", "unstated"}
Results == Errors \union {"none", "ok", "ambiguous", "unreachable_media", "lost"}

(* An accepted post that cannot be named, reported as a refusal: seeded bug. *)
UnnamedIsInvalid == "invalid"

(* The code of a creating call that was accepted without an id. *)
Unnamed == "ambiguous"

(* Retrying what may be live: a seeded bug. *)
RetryableOrUnnamed == {"rate_limited", "transient", "ambiguous"}

RetryableCodes == {"rate_limited", "transient"}

(* The code a failed call is raised with.  A lost answer is no PublishError. *)
Code(reply) == IF reply \in Errors THEN reply ELSE "transient"

(* Every network's creating call inside with_retries: a seeded bug. *)
AnyCreateIsRetried == TRUE

(* The creating call is inside with_retries: Facebook, below two images. *)
CreateIsRetried == network = "facebook" /\ images <= 1

(* Facebook sends a single photo with the creating call itself. *)
NeedsStaging == images > 0 /\ ~(network = "facebook" /\ images = 1)
InOrder(k) == [n \in 1..k |-> n]
Bound == IF NeedsStaging THEN staged ELSE InOrder(images)

TypeOK ==
    /\ network \in Networks /\ images \in 0..MaxImages /\ hosted \in BOOLEAN
    /\ stage \in Stages
    /\ image \in 1..(MaxImages + 1)
    /\ staged \in Seq(1..MaxImages)
    /\ tries \in 0..(MaxAttempts - 1)
    /\ polls \in 0..(MaxPolls - 1)
    /\ container \in {"none", "processing"} \union ReadyStates \union {"dead"}
    /\ creates \in 0..MaxAttempts
    /\ posts \in Seq(Seq(1..MaxImages)) /\ Len(posts) <= creates
    /\ accepted \in BOOLEAN
    /\ result \in Results
    /\ stage = "done" <=> result # "none"

Init ==
    /\ network \in Networks /\ images \in 0..MaxImages /\ hosted \in BOOLEAN
    /\ stage = "start"
    /\ image = 1 /\ staged = <<>>
    /\ tries = 0 /\ polls = 0 /\ container = "none"
    /\ creates = 0 /\ posts = <<>> /\ accepted = FALSE
    /\ result = "none"

-----------------------------------------------------------------------------

Finish(outcome) ==
    /\ stage' = "done"
    /\ result' = outcome
    /\ UNCHANGED <<staging, tries>>

(* with_retries tries again after a retryable code unless this was the last try. *)
TriesAgain(code) == code \in RetryableCodes /\ tries + 1 < MaxAttempts

(* A retried batch that keeps the ids of the failed one: a seeded bug. *)
RestartKeepingStaged == image' = 1 /\ UNCHANGED staged

(* What runs again: the whole batch on Facebook and Instagram, whose list is *)
(* a local of the retried operation; one image on LinkedIn.                  *)
Restart ==
    IF network = "linkedin" THEN UNCHANGED <<image, staged>>
                            ELSE image' = 1 /\ staged' = <<>>

(* A step of the preparation fails with a code, or its answer is lost. *)
StagingFails(reply) ==
    \/ /\ reply = "lost"
       /\ Finish("lost")
    \/ /\ reply # "lost" /\ ~TriesAgain(Code(reply))
       /\ Finish(Code(reply))
    \/ /\ reply # "lost" /\ TriesAgain(Code(reply))
       /\ tries' = tries + 1
       /\ stage' = "upload"
       /\ Restart
       /\ UNCHANGED <<polls, container, result>>

(* Nothing is sent before the images are known to be there and reachable. *)
Start ==
    /\ stage = "start"
    /\ \/ /\ network = "instagram" /\ images = 0
          /\ Finish("invalid")
       \/ /\ network = "instagram" /\ images > 0 /\ ~hosted
          /\ Finish("unreachable_media")
       \/ /\ network = "instagram" => images > 0 /\ hosted
          /\ stage' = IF NeedsStaging THEN "upload" ELSE "create"
          /\ UNCHANGED <<staging, tries, result>>
    /\ UNCHANGED <<request, visible>>

(* Every staged image counted as a fresh start: a seeded bug. *)
StagedResetsTries ==
    /\ staged' = Append(staged, image)
    /\ image' = image + 1
    /\ tries' = 0
    /\ stage' = IF image < images THEN "upload"
                ELSE IF network = "instagram" /\ images >= 2 THEN "parent"
                ELSE "create"

(* The image is staged: on to the next, to Instagram's carousel, or to the post. *)
Staged ==
    /\ staged' = Append(staged, image)
    /\ image' = image + 1
    /\ tries' = IF network = "linkedin" THEN 0 ELSE tries
    /\ stage' = IF image < images THEN "upload"
                ELSE IF network = "instagram" /\ images >= 2 THEN "parent"
                ELSE "create"

(* Facebook: an unpublished photo.  Instagram: a container, to be awaited.   *)
(* LinkedIn: initializeUpload, the bytes follow.                            *)
Upload(reply) ==
    /\ stage = "upload"
    /\ \/ /\ reply = "ok" /\ network = "facebook"
          /\ Staged
          /\ UNCHANGED <<polls, container, result>>
       \/ /\ reply = "ok" /\ network = "instagram"
          /\ stage' = "poll" /\ polls' = 0 /\ container' = "processing"
          /\ UNCHANGED <<image, staged, tries, result>>
       \/ /\ reply = "ok" /\ network = "linkedin"
          /\ stage' = "transfer"
          /\ UNCHANGED <<staging, tries, result>>
       \/ reply # "ok" /\ StagingFails(reply)
    /\ UNCHANGED <<request, visible>>

(* LinkedIn: PUT the bytes; only the HTTP status matters. *)
Transfer(reply) ==
    /\ stage = "transfer"
    /\ \/ /\ reply = "ok"
          /\ Staged
          /\ UNCHANGED <<polls, container, result>>
       \/ reply \notin {"ok", "no_id"} /\ StagingFails(reply)
    /\ UNCHANGED <<request, visible>>

(* Instagram: the carousel container that names the children. *)
CreateParent(reply) ==
    /\ stage = "parent"
    /\ \/ /\ reply = "ok"
          /\ stage' = "poll_parent" /\ polls' = 0 /\ container' = "processing"
          /\ UNCHANGED <<image, staged, tries, result>>
       \/ reply # "ok" /\ StagingFails(reply)
    /\ UNCHANGED <<request, visible>>

PollAnswered ==
    \/ /\ stage = "poll"
       /\ Staged
    \/ /\ stage = "poll_parent"
       /\ stage' = "create"
       /\ UNCHANGED <<image, staged, tries>>

(* Polls exhausted taken for readiness: a seeded bug. *)
StillProcessingIsReady ==
    \/ /\ polls + 1 < MaxPolls
       /\ polls' = polls + 1
       /\ UNCHANGED <<stage, image, staged, tries, container, result>>
    \/ /\ polls + 1 >= MaxPolls
       /\ PollAnswered
       /\ UNCHANGED <<polls, container, result>>

(* Poll again after a pause, or give up waiting: transient. *)
StillProcessing ==
    \/ /\ polls + 1 < MaxPolls
       /\ polls' = polls + 1
       /\ UNCHANGED <<stage, image, staged, tries, container, result>>
    \/ /\ polls + 1 >= MaxPolls
       /\ StagingFails("transient")

(* _await_container: FINISHED or no status at all is ready, ERROR and        *)
(* EXPIRED are final, anything else is polled again.                         *)
Poll(reply) ==
    /\ stage \in {"poll", "poll_parent"}
    /\ \/ /\ reply \in ReadyStates
          /\ container' = reply
          /\ PollAnswered
          /\ UNCHANGED <<polls, result>>
       \/ /\ reply = "dead"
          /\ container' = "dead"
          /\ stage' = "done" /\ result' = "invalid"
          /\ UNCHANGED <<image, staged, tries, polls>>
       \/ reply = "processing" /\ StillProcessing
       \/ reply \in Errors \union {"unreadable", "lost"} /\ StagingFails(reply)
    /\ UNCHANGED <<request, visible>>

(* What the network makes of a creating call it answers with reply. *)
TakesEffect(reply) ==
    \/ /\ reply \in {"ok", "no_id", "unreadable", "lost"}
       /\ posts' = Append(posts, Bound)
    \/ /\ reply \notin {"ok", "no_id"}
       /\ UNCHANGED posts

CreateFails(code) ==
    \/ /\ ~(CreateIsRetried /\ TriesAgain(code))
       /\ Finish(code)
    \/ /\ CreateIsRetried /\ TriesAgain(code)
       /\ tries' = tries + 1
       /\ UNCHANGED <<stage, staging, result>>

(* The call that puts the post on the network. *)
Create(reply) ==
    /\ stage = "create"
    /\ creates' = creates + 1
    /\ TakesEffect(reply)
    /\ accepted' = (accepted \/ reply \in {"ok", "no_id"})
    /\ \/ /\ reply = "ok" /\ network = "instagram"
          /\ stage' = "permalink"
          /\ UNCHANGED <<staging, tries, result>>
       \/ reply = "ok" /\ network # "instagram" /\ Finish("ok")
       \/ reply = "no_id" /\ CreateFails(Unnamed)
       \/ reply = "lost" /\ Finish("lost")
       \/ reply \in Errors \union {"unreadable"} /\ CreateFails(Code(reply))
    /\ UNCHANGED request

(* Instagram: a Graph error costs nothing, but a lost answer is not one. *)
Permalink(reply) ==
    /\ stage = "permalink"
    /\ \/ reply # "lost" /\ Finish("ok")
       \/ reply = "lost" /\ Finish("lost")
    /\ UNCHANGED <<request, visible>>

Next ==
    \/ Start
    \/ \E reply \in Replies : \/ Upload(reply) \/ Transfer(reply) \/ CreateParent(reply)
                              \/ Create(reply) \/ Permalink(reply)
    \/ \E reply \in Errors \union ReadyStates \union {"processing", "dead", "unreadable", "lost"} :
          Poll(reply)

Spec == Init /\ [][Next]_vars

(* Each call has a timeout (publish_timeout_seconds), so it returns. *)
FairSpec == Spec /\ WF_vars(Next)

-----------------------------------------------------------------------------

(* What is on the network shows every image of the request once, in order,   *)
(* however often the staging was started over.                               *)
PostShowsEveryImage ==
    \A p \in 1..Len(posts) : posts[p] = InOrder(images)

(* A result is returned only for a post that is there: what PublishService   *)
(* takes for granted when it records a success.                              *)
SuccessIsLive == result = "ok" => posts # <<>>

(* Two posts from one call: only where the creating call is inside           *)
(* with_retries, a Facebook post with at most one image.                     *)
DuplicatesOnlyByFacebookRetry ==
    Len(posts) > 1 => network = "facebook" /\ images <= 1

(* A code that tells the operator the post was refused means that nothing is *)
(* live, wherever the creating call is made once.                            *)
RefusedIsNotLive ==
    /\ result \in {"reauth", "rate_limited", "invalid", "unreachable_media"}
    /\ ~(network = "facebook" /\ images <= 1)
    => posts = <<>>

(* What publish reports is true in both directions: its result is what the   *)
(* attempt is recorded with, and what an operator decides to retry by.       *)
ReportIsTrue == SuccessIsLive /\ RefusedIsNotLive

(* The inductive invariant behind these: the images staged are the first     *)
(* ones in order and all of them when the post is created, and before that   *)
(* the network has seen a creating call only where it may be repeated.       *)
StagedInOrder ==
    /\ staged = InOrder(Len(staged))
    /\ stage = "start" => staged = <<>> /\ image = 1
    /\ stage \in {"upload", "transfer", "poll"} =>
           NeedsStaging /\ image = Len(staged) + 1 /\ image <= images
    /\ stage \in {"parent", "poll_parent", "create"} /\ NeedsStaging =>
           Len(staged) = images
    /\ stage = "transfer" => network = "linkedin"
    /\ stage \in {"parent", "poll_parent"} => network = "instagram" /\ images >= 2
    /\ network = "instagram" /\ stage = "create" => container \in ReadyStates

CreatesCounted ==
    /\ accepted => stage \in {"permalink", "done"}
    /\ creates <= IF stage \in {"permalink", "done"} THEN tries + 1 ELSE tries
    /\ ~CreateIsRetried => creates = 0 \/ (creates = 1 /\ stage \in {"permalink", "done"})
    /\ stage = "permalink" => posts # <<>>

IInv == /\ TypeOK
        /\ StagedInOrder
        /\ CreatesCounted
        /\ PostShowsEveryImage
        /\ SuccessIsLive
        /\ RefusedIsNotLive

(* Once the network accepted a post, named or not, no further call tries to  *)
(* create one.                                                               *)
AcceptedIsNeverRepeated == [][accepted => creates' = creates]_vars

(* Instagram is not asked to publish a container that it last reported as    *)
(* being processed, failed or expired, however often it was polled and       *)
(* staged again.  One it never reported finished may be, if the last answer  *)
(* left the status out.                                                      *)
PublishesNoneUnready ==
    [][network = "instagram" /\ creates' # creates => container \in ReadyStates]_vars

(* Every publish call returns: retries and polls are bounded. *)
Terminates == <>(stage = "done")

=============================================================================
