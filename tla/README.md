# A TLA+ verification project for the content manager

This directory holds TLA+ models of the application under `src/`, the TLC
configurations that model-check them, and theorems about them that TLAPS checks.
Paths below are relative to `src/backend/app` unless they start with `src/`.

Parse a module with `tlasany M.tla`, check a configuration with
`tlc -workers 2 -config X.cfg M`, check proofs with `tlapm M.tla`.

## 1. The system

A FastAPI back end and a Next.js front end let one organisation turn its course
catalog into social media posts. The catalog is crawled from a web site and
synchronised after a human has reviewed the difference. Texts and images are
generated by language and image models, reviewed, edited, approved, and
published on Facebook, Instagram or LinkedIn.

Three facts about the runtime shape every model here.

* **One session per request, READ COMMITTED, no locks.** A request reads rows
  through an async SQLAlchemy session with `expire_on_commit=False`
  (`db/base.py`), awaits other things, and commits later, usually at its end
  (`get_session`, `db/base.py:48-56`). No row carries a version and nothing uses
  `FOR UPDATE`. An UPDATE writes only the columns whose value differs from the one
  the session read. So whatever a request checked may be stale when it commits, and
  what holds then holds only through unique indexes and foreign keys.
* **Several processes, any of which may end.** Production runs under Passenger,
  which forks workers and stops idle ones. Anything that lives in a process (a
  background task, a rate-limit window, the rest of a request) may be lost at any
  await. What was committed stays.
* **The networks are remote.** A call may take effect without its answer arriving.

### 1.1 Components

| Component | State | Operations | Talks to | Hard behaviour | Correct when | Status |
|---|---|---|---|---|---|---|
| Content review workflow (`content/service.py`, `content/state.py`) | `content_items.status`, text | generate, edit, submit, approve, reject, archive, restore, duplicate, regenerate | database; publishing moves items to published | the status that is checked and the one that is overwritten are read at different times | an edit reopens review; published only from approved | modelled: `ContentWorkflow`, `ReviewCycle` |
| Publish orchestration (`publishing/service.py`) | `content_publications` rows | publish (preflight, claim, call, record) | workflow, media, accounts, publishers | two commits around a call that cannot be undone; crashes, lost answers, concurrent requests | never two posts without a recorded failure; evidence before the call; published means live | modelled: `PublishService`, `PublishOnce`, `ReviewCycle` |
| Network publishers (`publishing/publishers/`, `publishing/meta_graph.py`) | locals of one call: staged media ids, tries, polls | publish | Graph and LinkedIn APIs | retries of a partly done batch, unreadable and lost answers, container polling | every image once, in order; no repeated create; codes that tell the truth | modelled: `Publishers` |
| Media library and selections (`content/media.py`, `api/images.py`) | `media_assets`, `content_item_media`, `content_publication_media` | generate, upload, set_selection with apply_to_group, delete | image model, publishing | order-dependent positions rewritten by concurrent transactions; a delete beside a publish | a selection is a carousel of existing images; the record names what was sent | modelled: `MediaLibrary`, `Gallery` |
| Catalog diff and apply (`scraper/normalize.py`, `diff.py`, `selection.py`, `repository.py`) | none: functions of a crawl and the catalog | build groups, build changeset, filter, apply | sync runs | rows that disappear and return; offerings that move | a full approval mirrors the site, a partial one leaves what was skipped | modelled: `CatalogDiff`, `CatalogMirror` |
| Catalog sync runs and review (`scraper/service.py`, `services/courses.py`, `api/courses.py`) | `scraper_runs`, `courses`, `course_offerings`, a task per run | start, crawl and stage, approve, reject | crawler, diff | check-then-act on open runs; stale changesets; a task that dies | vetoed rows untouched; runs resolve | modelled: `CatalogSync`, `CatalogMirror` |
| Preflight rules (`publishing/rules.py`) | none | blockers and warnings of a draft | publishing | - | nothing is sent that a blocker names | partly: status, attempts and image ceilings are guards; lengths and hashtags only refuse |
| Social accounts (`publishing/accounts.py`, routes in `api/publishing.py`) | `social_accounts` | upsert, activate, disconnect | OAuth, publishing | read-deactivate-activate races on a partial unique index; several commits per Meta exchange; an account deleted beside a publish | one target per network; a connect takes effect; attempts name their account | partly: `Accounts`, all that changes accounts; expiry and verify are not |
| OAuth connect flow (`publishing/oauth/`, `state.py`, `crypto.py`) | none | begin, callback | accounts | a Page listed several times, or without its token | each destination is stored once | partly: the callback's commits in `Accounts`, Meta's discovery in `MetaExchange`; tokens, signed state and LinkedIn's discovery are not |
| AI requests (`content/service.py`, `agents/`, `llm/`, `content/media.py`) | tasks of a request, semaphore, deadline, tries of each call | generate, regenerate, suggest prompts, generate an image | workflow, media, the model's provider | one failing task of many; a deadline against retries and pauses; cancellations through two levels of groups | all drafts or none, nothing left running; never above the semaphore; answered in time | modelled: `Generation` |
| Crawler (`scraper/fetcher.py`, `parser.py`, `discovery.py`) | none | crawl | sync runs | I/O and HTML | - | its outcome, or failure, is an input of `CatalogSync` |
| Process bridge (`src/backend/deploy/fastcomet/app/passenger_wsgi.py`) | a thread and an event loop per process, a lock | serve, fork | the whole application | fork while a lock is held; double-checked start; process numbers that return | a process serves on one loop, its own; nobody waits for a lock without a holder | modelled: `Workers` |
| Authentication and rate limits (`auth/`) | a deque of hits per key and process | login, limit check | API | window boundary, lazy trimming, copies of the window in forked processes | exactly the limit in any window, per process | partly: the limiter in `Workers`; password hashes and signed tokens are stateless |
| Image ingest, public image URLs (`content/ingest.py`, `publishing/media.py`, `api/public_media.py`) | none | convert, sign, verify | media, publishers | - | - | not modelled: pixels and keyed hashes |
| API layer, audit, configuration, seed | none of their own | routing, serialisation | all | - | - | not modelled: no decision that changes state; audit rows ride in the transaction they describe and are never read |
| Front end (`src/frontend`) | component state of a page | renders, selects entries to skip | API | - | - | partly: the selection of changeset entries is `Keys` in `CatalogDiff` |
| Deployment scripts, migrations | - | - | - | - | - | not modelled: the schema they lead to is assumed |

### 1.2 How they interact

* The workflow and publishing share `content_items.status`: publishing is the only
  writer of `published`, the workflow the only writer of everything else, and neither
  looks again before it writes. `PublishService` EXTENDS `ContentWorkflow` so that
  both run in one specification.
* Publishing calls one publisher and sees three outcomes: a result, a
  `PublishError`, any other exception. `Publishers` models one such call from inside;
  its `ReportIsTrue` is what `PublishService` assumes of `RecordSuccess`.
* Media and publishing share `content_publication_media`: publishing inserts the
  record of what it sends, a delete of an image empties its places in records
  (`ON DELETE SET NULL`). `MediaLibrary` has that side of publishing.
* Accounts and publishing share `content_publications.social_account_id`: publishing sets
  it, a deleted account empties it. `Accounts` has that side of publishing.
* The four AI requests run their calls before they open the one commit that writes, so
  `Generation` ends where `Generate` of `ContentWorkflow` and the request of `MediaLibrary`
  begin to write: with drafts, or with nothing.
* Whatever a request does, a thread of some process has handed it to that process's event
  loop: `Workers` is the layer below all the others, and where a process may end.
* A sync task runs in the process that served its start request and talks to the
  review requests through `scraper_runs` and the catalog only. `CatalogSync` EXTENDS
  `CatalogDiff` and runs tasks and requests beside each other.

### 1.3 Hazards

`PROJECT.json` lists forty hazards, each at its line, with the properties that would
catch it. Three have none, as nothing in the code answers them (sections 3.1 and 3.2): a sync
task that dies with its process, detail pages that all fail, and two reviews of one run.
The worst are those between two awaits: preflight and claim, claim and call, call
and record; a delete between them; the check for an open run and its insertion; a
staged changeset and its approval; a batch of images that is started over. Beside them stand
a task group that is cancelled while it fails, and a fork while a lock is held.

## 2. Modules

| Module | What it is |
|---|---|
| `ContentWorkflow` | The moves of `state.py` (`Allowed`) and every request that makes one, as `ReadFor...` and `Commit...` |
| `PublishOnce` | Abstract: the right to send an item, held by at most one attempt at a time |
| `ReviewCycle` | Abstract: an item whose text is open, approved or published, and the texts that went out |
| `PublishService` | EXTENDS `ContentWorkflow`: publishing, its attempts, the network seen from outside; implements `PublishOnce`, and `ReviewCycle` with one request at a time |
| `Publishers` | One `publisher.publish(request)` on each of three networks |
| `CatalogDiff` | Operators: groups, changeset, filter, apply |
| `CatalogMirror` | Abstract: the catalog that is shown, and a reviewer who adopts what the site says of some codes |
| `CatalogSync` | EXTENDS `CatalogDiff`: runs, tasks, reviews; implements `CatalogMirror` with one request at a time |
| `Gallery` | Abstract: a list of images per post, each request done at once |
| `MediaLibrary` | Assets, selections, records of attempts, as transactions of several statements; implements `Gallery` with one request at a time |
| `Accounts` | Connected accounts: each request a session that reads, then commits |
| `MetaExchange` | Operators: the destinations that a code exchange with Meta yields |
| `Generation` | One AI request: its task groups, semaphore, retries and deadline, with a clock |
| `Workers` | Processes that fork, their threads, the bridge to the event loop, the login limiter |
| `MCPublish`, `MCPublishers`, `MCCatalog`, `MCMedia`, `MCAccounts`, `MCGeneration`, `MCWorkers` | Model-checking instances: symmetry sets, named model values, small limits |
| `PublishServiceProofs`, `PublishSequentialProofs`, `PublishersProofs`, `CatalogProofs`, `MediaProofs`, `AccountsProofs`, `GenerationProofs`, `WorkersProofs` | Theorems |

### 2.1 ContentWorkflow and PublishService

`status` and `text` are the committed columns of `content_items`. A worker is a slot
for a request in flight; `request[w]` holds what its session read. A `ReadFor...`
action is a handler up to its check, a `Commit...` action its commit; `Abandon` is a
request that dies in between, with its session rolled back. A handler that refuses
changes nothing and has no action. `CommitMove` writes the status it aimed for over
whatever is there. `CommitEdit` writes only what differs from what was read, so an
edit that read a draft leaves the status it finds. `reviewed` is a history variable:
the texts that approve requests had read.

| Action | Code (`publishing/service.py`) |
|---|---|
| `ReadForPublish`, `ReadAttempts`, `Refuse` | `preflight`: item, then its attempts; any other blocker |
| `Claim`, `LoseClaim` | the pending row and its commit, with `uq_content_publications_in_flight`; `IntegrityError` |
| `CallPublisher`, `NetworkPosts` | `publisher.publish`; the network acting on it, perhaps later |
| `RecordSuccess`, `RecordFailure` | the second commit; `_record_failure` |
| `Crash` | the process ends, or the second commit fails |

`attempt` holds the rows of `content_publications`, `publish` the locals of the
requests, `post` what became of each call.

`PublishOnce` is what holds however requests overlap: one right to send per item. `ReviewCycle`
is what the workflow and the publish service promise *together* when they do not: `Stages`
forgets requests and attempts and folds draft, pending and rejected into states of a text that
may still change; `SentTexts` are the texts of all calls, answered or lost; `Confirmed` are the items with
a succeeded attempt. Most steps of the program are stutters of it, and a crash between the
call and its record leaves an item approved with its text sent.

### 2.2 Publishers

`stage` is the next call to make. `staged` is the list of ids that the code passes to
the creating call, as the indices of the images they stand for. `tries` counts within
the operation `with_retries` is running: the whole batch on Facebook and Instagram (the
list is a local of the retried function, so it restarts empty), one image on LinkedIn.
The network answers each call with success, success without an id, a named error, an
unreadable answer, or nothing. The last two leave open whether the call took effect.
On Facebook a text post or a single photo is created inside `with_retries`
(`CreateIsRetried`). A poll of an Instagram container may be answered without a status
(`unstated`), which `_await_container` takes for readiness as it does FINISHED
(`ReadyStates`).

### 2.3 CatalogDiff and CatalogSync

A table is a function from codes to rows; the columns a crawl fills are one value,
because the code treats them alike. `CourseGroups` adds the synthetic on-demand
offering of a course without offerings. `BuildChangeset` is `build_changeset` section
by section. `Written` is the session's habit of writing only changed columns, which
matters when the catalog changed after it was read.

A run is opened in two steps (`BeginStart` checks, `OpenRun` inserts). Its task goes through
`Crawl` and `Stage`; what raises on the way is recorded (`CrawlFails`); and it may die
(`TaskDies`). The commit of `Stage` is outside the try of `_execute`: where a number of a live
offering changed (`Repriced`, the pairs of data of which that is so), the changeset
`HoldsDecimal`, which JSON cannot take, and `CommitFails` leaves the run running, its task
`lost`. A review is
`BeginReview`, for an approval `ReadCatalog`, and the commit (`Approve`, `Reject`);
`ApprovalFails` is a unique code refusing an INSERT.

`CatalogMirror` knows no rows, changesets, runs and tasks: courses and offerings that are
shown (`Shown`: the active rows), and the listings of the site that wait (`Awaiting`: what the
pending runs found). A decision adopts a listing for some codes, which then show what is
listed, or nothing if they are not; a reject adopts none. `ImplementsCatalogMirror` says that
building, filtering and applying a changeset come to that: six sections, the synthetic
offerings, rows that return and offerings added with their course included, no entry and no
choice of entries to skip makes a code show a third thing. It says
code by code what `FullApprovalMirrors` says of the whole when nothing is skipped.

### 2.4 MediaLibrary

A request is one transaction of several statements, and each statement sees what is
committed by then plus the request's own writes. `request[w].new`, `.sees` and
`.write` are the transaction's assets, the rows its DELETE or UPDATE found, and the rows it will
leave. `CommitRows` and `CommitDelete` apply them if keys allow: `AssetsThere` is the
foreign key, `PairsFree` is `uq_content_item_media_pair`. `Unsee` takes a row that
another transaction deleted out of what the others found, as the database does. Of
publishing, `BeginPublish`, `Claim`, `Succeed` and `Fail` are kept as far as images go.

`Gallery` knows no rows and positions: an upload adds behind the list of its post, a choice replaces
the list of a post and of the siblings that take it, a delete takes an image out of every
list and leaves the rest in order. `ImplementsGallery` says that the statements of the
code (count the rows, insert at that position, renumber what is behind) come to the same.

### 2.5 Accounts and MetaExchange

`accounts` is the flag `is_active` of each row; a row's id pairs its destination, which never
changes, with a number, so that a destination that is disconnected and connected again has
a new id. A connect walks through the destinations of an exchange (`todo`), each of them
`Find` (the row, if any), `Deactivate` (which other rows of the network are active) and
`Insert` or `Update`, which commits; an activation is `BeginOn`, `Deactivate`, `Activate`. What
the session knew of the target's flag (`known`) matters because only a difference is
written. The commit is refused by the unique keys (`OneActiveEach`, `DestFree`) and by a row
that is gone. `Disconnect` deletes a row and empties its attempts' reference
(`ON DELETE SET NULL`); `BeginPublish` and `Claim` are a publish request as far as its account
goes. `disturbed` is a history variable: the requests in flight beside which another one
has committed. `MCAccounts` takes its exchanges from `MetaExchange`: Pages with or without
a token, listed directly or several times through businesses.

### 2.6 Generation

A task is a pair: `<<0, 0>>` is the request, `<<p, 0>>` the group of platform p, `<<p, s>>` the
call for one of its styles. `run_all` is the same code on both levels, so its effects are
operators of a task: `Settle` (a task ends, and its failure cancels the others of its group),
`CancelGroup` (a cancellation passes on to the group it waits for), `ResultOf` (what a group
raises or returns). `cancels` holds cancellations that are requested and not yet delivered;
between the two a task may still do nothing else, but other tasks may. `StartCall` takes
a permit of the semaphore, first come first served; `AttemptFails`, `NextAttempt` and
`AttemptSucceeds` are `generate_with_retries`, which keeps its permit during the pause.
A request without groups (a regeneration, a suggestion, an image) has the same shape with
one call, its outer levels passing the outcome on.

`clock` is time since the request began. The event loop takes no time: `Tick` is enabled only
in a `Settled` state, where every task waits for something external. An attempt lasts at
most its timeout, which the SDK's client is built with; database time is not counted. A failure
in the same turn of the loop as the deadline is answered as a failure; both are a 503.

### 2.7 Workers

`memory` is the three globals of `passenger_wsgi.py`. A bridge is `own` or `inherited`,
since all that matters is whether its loop runs in this process; a lock is free, held, or
an orphan, held by a thread of the process it was copied from. `Fork` copies the memory
(`Copied`) and runs the hook (`AfterFork`) at any moment between two statements of any
thread, as production forks from a process that serves. `Stop` gives the number back.
Every statement of `_get_bridge` is a step: the two reads of its fast path are two, and it
returns what it reads once more. `hits` is the limiter's deque of a client, each hit
known by its age; `Check` is one step, since it has no await. `recent` is a history variable:
how many logins a process has let through, by age.

## 3. Runs

All runs use model values for ids, which carry no meaning, and sets of one or two
members for data, where properties ask only whether two values are equal.

| Run (cfg) | Bounds | What it checks |
|---|---|---|
| `publish_races` (MCPublishRaces) | 1 item, 1 text, 2 workers, 3 attempts, `FairSpec` | `DuplicateOnlyAfterFailure`, `EvidenceBeforeCall`, `PublishedIsLive`, `NeverRepublished`, `AttemptResolves`, refinement of `PublishOnce` |
| `publish_one_at_a_time` (MCPublishOneAtATime) | 2 items, 2 texts, 1 worker, 2 attempts | `SentTextWasReviewed`, refinement of `ReviewCycle` |
| `archived_while_publishing` (MCPublishArchived) | as the first | violation of `PublishedOnlyFromApproved` |
| `publishers` (MCPublishers) | the program's own limits: 20 images, 3 tries, 12 polls, `FairSpec` | `PostShowsEveryImage`, `ReportIsTrue`, `DuplicatesOnlyByFacebookRetry`, `AcceptedIsNeverRepeated`, `PublishesNoneUnready`, `Terminates` |
| `accounts` (MCAccounts) | 2 Pages, 1 Instagram account, 2 rows per destination, 2 requests, 1 attempt | types with at most one target per network, `HistoryNamesOneRow`, `EachDestinationOnce`, `SwitchTakesEffect` |
| `catalog_races` (MCCatalogRaces) | 1 course, 1 scheduled offering with 2 values, 3 runs, 2 requests, `FairSpec` | `OpenRunsBounded`, `CancelledIsInactive`, `SkippedRowsUntouched`, `RunResolves` |
| `catalog_sync` (MCCatalogSync) | 2 courses, 1 scheduled offering with 2 values, 3 runs, 1 request | `OnlySkippedRemains`, `FullApprovalMirrors`, `ApprovalsAreFresh`, refinement of `CatalogMirror` |
| `price_lost` (MCCatalogPrice) | 1 course, 1 scheduled offering with 2 values, 2 runs, 1 request, `FairSpec` | violation of `RecordsAnyFailure` |
| `media_races` (MCMediaRaces) | 1 grouped item of 2 images, 2 assets, 1 file, 2 workers | `SelectionIsAvailable`, `RecordIsTrue`, `NoImageLostLater` |
| `media_one_at_a_time` (MCMediaOneAtATime) | 2 grouped items (2 and 1 images), 1 ungrouped, 2 assets, 1 file, 1 worker | `SelectionIsACarousel`, `UploadsAreDistinct`, refinement of `Gallery` |
| `generation` (MCGeneration) | 2 platforms of 2 styles, 2 permits, 2 attempts of 2 time units, a pause of 1, images of 3, a deadline of 6, `FairSpec` | `AllOrNothing`, `AnsweredInTime`, `RetriesFit`, `FailureEndsAtOnce`, `Terminates` |
| `workers` (MCWorkers) | 2 processes of 2 threads, 1 client, a window of 1 time unit with room for 2 logins, `FairSpec` | `OneOwnLoop`, `LimitIsExact`, `EveryRequestServed` |

Why these bounds are enough to be interesting:

* **Publishing.** Every conflict is between two requests about one item, so one item
  and two workers have them all; three attempts allow a failed one, an orphan and a
  live one, and a claim after each. Texts matter only to the review properties, which
  get two items and two texts, so that a copy may carry a text reviewed elsewhere. The
  theorems of section 5 hold for every size.
* **Publishers.** No bound is smaller than the program's default.
* **Catalog.** One course and one offering come and go through three runs, enough for
  add, remove and return with two approvals overlapping. One value of the data has a price
  and the other none, so a change in one direction is stored and in the other it is not.
  Moving an offering takes
  two courses; those are checked with one request at a time because the two properties
  are about a changeset that is fresh.
* **Media.** Two images and room for two are enough for a wrong order, a gap and a
  duplicate; the ceilings differ so that apply-to-group has a sibling to skip.

* **Accounts.** Two Pages of one network compete for its flag, two requests have every
  conflict, and a second row per destination lets a deleted one return.

* **Generation.** Two platforms of two styles are four calls for two permits: calls that
  queue, groups whose tasks wait, run, pause and have ended when another fails. A call with
  its retry takes up to 2 + 1 + 2 units, below the deadline of 6, which two calls in a row
  exceed: the deadline meets every state. The theorems hold for every size.
* **Workers.** Two processes fork each other in turn, so that a number returns in a child of
  its former child; two threads of one process have every race for the bridge.

`CHECK_DEADLOCK FALSE` is given where a behaviour really ends: a publish call that
returned, all runs used up, all assets used up, a request that is answered.

Every property of a passing run has a mutant in `PROJECT.json`: a definition of the
model replaced by the variant that a plausible bug would produce (the `... : a seeded
bug` operators), under which TLC finds that property violated. Type invariants (`TypeOK`) are
theorems of section 5 (`TypeCorrect`); a run checks the one of `Accounts`, as it says that a network has
one target.

### 3.1 Properties under concurrency and without

Some promises of the code hold whatever overlaps, because a constraint of the database
keeps them: one claim per item, rows of existing images only, vetoed rows untouched. Or because
a check comes late enough: once a success is committed, its record loses no image but to a delete
that had already looked for succeeded attempts (`NoImageLostLater`), and no more runs are open than
requests overlap (`OpenRunsBounded`).
Others hold only if requests are served one at a time, and the runs say so: the text
that is sent was reviewed, a published item says what went out, a selection is a carousel, an approval finds
the catalog its changeset was built against. With two requests in flight these fail, and
so do others that one at a time come down to a single check and have no run:

* An edit that read a draft does not write the status; when an approve commits between
  its read and its commit, the approved item carries a text nobody reviewed.
* Two attaching requests both count the rows and take the same position.
* Two uploads of the same file both find no copy.
* An image is deleted during the network call that sends it: `content/media.py:451` protects
  images of succeeded attempts only, so the attempt succeeds with a hole in its record, although lines
  457-458 keep images "so the record of what went out is complete". `NoImageLostLater` says
  that there is no other way to lose one.
* A choice for a whole group reads a sibling that is not published yet (`content/media.py:403`)
  and rewrites its images after it was published, although "Published posts are never
  touched" (lines 401-402).
* Two reviews of one run both read it as pending, although "only a pending run can be reviewed"
  (`services/courses.py:29`): an approved and applied run can end as rejected.
* A connect or activation of an account its session knows to be active does not write the
  flag; when another request switches to a second account in between, the first clears that
  one's flag and the network is left without a target. `SwitchTakesEffect` therefore speaks
  of requests beside which nobody committed.

### 3.2 Findings

| Run | The code | What it says |
|---|---|---|
| `archived_while_publishing` | `publishing/service.py:422` checks the status read before the call | `content/state.py:13`: "``published`` is only reachable from ``approved``" |
| `price_lost` | `scraper/service.py:137` commits outside the try, and fails on the `Decimal` that a changed price or number of hours of a live offering (`db/models.py:122,132`) leaves in the changeset (`scraper/diff.py:45-48,119`): the run stays running and blocks every later sync, with no process stopped. The unit test of a changed price has a float | line 132: "run must record any failure"; `scraper/diff.py:4`: "JSON-serializable changeset" |

More known behaviours follow from the models and have no run of their own.

* `publishers/facebook.py:76` has the creating call of a post with at most one image inside
  `with_retries`, whereas `src/README.md:158-159` says "the single call that creates the post
  runs exactly once". `DuplicatesOnlyByFacebookRetry` shows that nothing else can post twice.
* `scraper/service.py:119` counts the synthetic on-demand offering of every course without
  dates, so a crawl whose detail pages all failed passes the guard and stages the removal of all
  scheduled offerings, whereas lines 121-122 and `src/README.md:116-117` say that none is
  staged. `Crawl` and `NothingFound` have it so; a reviewer sees the removals.
* `publishers/instagram.py:181` takes an answer without `status_code` as ready, as lines
  179-180 intend, whereas line 6 says "poll the container until it reports ``FINISHED``". What
  holds is `PublishesNoneUnready`.
* A suggestion of image prompts has no deadline. With `LLM_MAX_ATTEMPTS=3` its calls and
  pauses add up to 3 x 40 + 0.5 + 1 = 121.5 s, above the 120 s at which the proxy gives up
  (`AnsweredInTime` gives the bound).
* `auth/rate_limit.py:3-5` speaks of a single process. Production forks several, each with a
  window of its own, so a client has the limit once per process; `LimitIsExact` is per process.

A timeout of
Instagram's permalink call makes a live post a failed attempt, as `publishers/instagram.py:201`
catches Graph errors only, although line 198 says "a failure here costs nothing" (`Permalink` has
both outcomes). A published item
can return to draft by archive and restore, although `content/state.py:13-16` says that
archiving is the only move left; `NeverRepublished` shows that it is not posted again.
And a run whose process ends stays `running` and blocks every later sync, which
`src/backend/deploy/fastcomet/README.md` describes ("a stalled sync"); `RunResolves`
therefore excepts a task that died, and one that could not commit (`price_lost`).

## 4. Fairness

Safety runs use specifications without fairness. Five specifications have some:

* `PublishService!FairSpec`: weak fairness of `Progress(w)`, what the event loop goes on
  with by itself. Each await of `publish` returns, as the database answers and every HTTP
  client is built with `publish_timeout_seconds`. `Crash` stays possible at every
  await. Preflight reads by users, refusals, the network and the workflow are not fair:
  `AttemptResolves` needs none of them.
* `Publishers!FairSpec`: weak fairness of `Next`. Each call has that timeout, so it
  answers, or fails, and the publisher takes its next step. Nothing is assumed about
  which answers come; `Terminates` follows from the bounds on tries and polls.
* `CatalogSync!FairSpec`: weak fairness of each run's `Task`. The fetcher bounds its
  tries and its client has `scraper_timeout_seconds`. `TaskDies` stays possible. Under this
  fairness `RecordsAnyFailure` is refuted without `TaskDies`.
  Requests are not fair.
* `Generation!FairSpec`: weak fairness of `Next`. The event loop goes on and time passes;
  nothing says that a call succeeds or that the reference page ever comes.
* `Workers!FairSpec`: weak fairness of each thread's next statement: threads are scheduled. No
  request need come and no process be forked or stopped.

## 5. Theorems

The assumptions are the named ASSUMEs of the modules, that `NoItem`, `NoText`,
`NoAttempt` and `NoId` are no item, text, attempt and id, and that limits are numbers, positive where a
zero makes no sense. Sets of items, texts, workers and attempts may be infinite; ids of
assets, and requests of the catalog sync, are finitely many.

**`PublishServiceProofs`.** `TypeCorrect`; then `IInv` is inductive, and from it
`EvidenceIsCommitted`, `PublishedItemsAreLive`, `NoSilentDuplicate`, `NeverTwice`,
`EvidenceKept`, `Refinement`. None of these invariants is inductive on its own. That two
attempts of an item are not both claims (`UniqueClaim`) is preserved by `Claim` because
of the unique index, and by `RecordSuccess` only if the attempt it records was pending,
thus a claim already; that is `RequestsOwnTheirAttempts`, which also says that no
two requests own one attempt, or else one could record a failure of what the other records as a
success. `PublishedIsLive` needs `SuccessIsLive`, and that no step of the workflow
publishes (`TargetStatus`). `Refinement` maps the rows to a right per item; the
mapping chooses the holder among the claims, which `UniqueClaim` makes the only one, and each
step is an `Acquire`, `GoLive`, `Confirm`, `GiveUp` or a stutter.

**`PublishSequentialProofs`.** For one worker (`OneWorker`, an assumption of the three
theorems): `SentWasReviewed`, `FailureLeavesApproved`, `EditReopens`. The strengthening
`SeqInv` says that what a request has read is still true (`RequestIsFresh`,
`PublishIsFresh`) and that an approved item says what somebody approved. It is false
with two workers.

`CycleWhenAlone`, for one worker too: `Spec` implements `ReviewCycle`. The mapping needs more
than that a request's reading is true: the move it is about to commit must be one that the
abstract item can make (`RequestIsLegal`, from `Allowed`), and the call that is about to be recorded must
have sent what the item says now (`SentIsCurrent`), as an edit in between would make a
published item say something else. Both together are `CycleInv`, inductive on top of `IInv` and
`SeqInv`; then each action is one step of `ReviewCycle` or a stutter.

**`PublishersProofs`.** For any number of images, tries and polls: `Invariant`, `TypeCorrect`,
`PostsAreWhole`, `ReportsAreTrue`, `OnePostElsewhere`, `AcceptedOnce`,
`ReadyFirst`. The strengthening adds `StagedInOrder` (what is staged is the first
images in order, and all of them when the post is created) and `CreatesCounted` (creating
calls so far against tries, and none before the creating stage where they are not retried).

**`CatalogProofs`.** For any codes, data, number of runs and overlapping requests:
`CatalogInvariant`, `TypeCorrect`, `OpenRunsLimited`, `CancelledInactive`, `VetoKept`,
`SkippedStay`, `FullApprovalComplete`. Two
columns of an offering, `status` and `is_active`, must agree although a stale session
writes only the columns that differ from the row it has seen. They do because a staged
changeset names both or neither (`OfferingChangeOK`, from `BuildGood`), because it still does
when entries are skipped (`FilterGood`), and because the snapshot of a request is itself consistent
(`RequestOK`): then target and snapshot differ in both columns or in none
(`WrittenOffering`), whatever the live row is by now. `TypeOK`'s "every offering keeps its
course" needs that what a request saw only names courses that are still there, as no
step deletes one. `OpenRunsBounded` (of `OpenRunsLimited`) is not inductive: `OpenOrStarting` also counts the requests
that passed the check and have not opened their run. `RunAndTask` ties the two: a review never finds
the task of its run still at work, so no task reopens a run that was decided.

The last two theorems are about approvals that fit the catalog (`FreshApproval`): section by
section, the next changeset of the same site has just the entries skipped
(`CoursesStagedAgain`, `OfferingsStagedAgain`, from what an approval makes of one row,
`CourseEffect` and `OfferingEffect`), and an empty changeset means a mirror
(`NothingStagedMirrors`). The case that is easy to miss is an offering that moved to a new course:
its code is taken, so the approval conflicts and does not commit. `ReviewInv` adds that
a reviewer skips entries the run has, which holds as no review precedes the staging of its run.

For one request at a time (`OneRequest`, an assumption of these theorems): `FreshWhenAlone`.
`FreshApproval`, a hypothesis of the two theorems above, is then true of *every* approval. `CatalogSeqInv` says why: at most one run is
open (`OneOpen`), since the check and the insertion of a start have nothing between them; what an open
run staged is the difference to the catalog as it is (`RunFits`), since only a decision changes the
catalog, and a decision closes the only open run; and what a review has read is still true
(`ReviewFits`). A task that dies or cannot commit leaves its run open and blocks the next one, so it cannot
make anything stale. `MirrorWhenAlone`: `Spec` then implements `CatalogMirror`. A fresh approval leaves each row
as it was, as it is listed, or hidden and unlisted (the third part of `CourseEffect` and
`OfferingEffect`), and inserts rows only as they are listed (`FreshInserts`), so every code shows
what it did or what is listed (`CoursesShown`, `OfferingsShown`), which makes the new
table the old one with the listing adopted for some codes (`AdoptedIs`). Staging is a find, since
the run that stages is the only open one.

**`MediaProofs`.** For any number of overlapping requests: `TypeCorrect`,
`SelectionsAreAvailable`, `RecordsAreTrue`, `RecordsLoseNothingLater`. A commit is safe because of what its request
still knows when it commits, so the strengthening is about requests (`RequestOK`): the assets it
adds have no row yet, every row it will write suits its item (`Suits`: an own asset for an
item of the same kind, or one that is of the group just if the item is), the rows it saw are
there. `Apart` says that no two requests add one asset and none is sending the item
item
another is sending. The foreign key (`AssetsThere`) supplies the rest at the commit.
`RecordsLoseNothingLater` is about a step: none but a delete's own commit empties a place
(`DeleteKeepsRecord`), no request becomes a delete of a published image after its success
(`NoNewDoom`, since `BeginDelete` makes the check), and a publish writes an attempt that has
not succeeded (`PublishKeepsRecord`).

For one request at a time (`OneWorker`, an assumption of these theorems):
`CarouselsWhenAlone`, `DistinctWhenAlone`. The strengthening `SeqInv` says
that what the request has read is still true and that what it is about to write leaves every
selection a carousel: `Shows(f, n)`, f holds the positions of a list of at most n different
images. An image it is about to delete is in no published record, so none loses it and every one is
complete (`RecordIsComplete`). With two
requests nothing of this is promised (section 3.1).

`ListsWhenAlone`: `Spec` implements `Gallery`. A carousel before and after is not enough for
that: the rows a request will write must be the list it found with its images behind
(`AddsToOne`), the list that was chosen (`Chooses`), every list without the deleted image
(`Deletes`), and what it sends must be what the post shows (`Sends`); they are `ExactInv`. `KeepsOrder` and
`ListWithout` say that to renumber the rows behind a removed one gives the list of the others in
their order.

**`AccountsProofs`.** For any networks, destinations, exchanges and number of requests:
`AccountsInvariant`, `TypeCorrect`, `HistoryFollows`, `SwitchEffective`. That no network has
two targets is what the index keeps at each commit; that a request *alone* is neither
refused by it nor leaves no target needs `FreshOK`: unless another request has committed, a
session's knowledge of its target is true, and what it is about to clear is all the
other active accounts of the network. `AboutOK` says which network and destination that is.

`DestinationsOnce` is about what `MetaExchange` computes from answers of any size: if the list of
a user's own Pages names each once, no Instagram account is linked to two Pages and no id is
both kinds, an exchange stores each destination once, however often businesses list a Page
again. `EachDestinationOnce` is stated of the exchanges of a run, so these conditions on Graph's answers
are the theorem's hypothesis. Facts about a flattened list of lists are proved by induction on its
length (`SetInduction`: a set of numbers with a member has a smallest one), as the library's induction
rules take operators.

**`GenerationProofs`.** For any platforms, styles, permits, timeouts, pauses and deadline:
`Invariant`, `TypeCorrect`, `NothingHalfDone`, `FailuresEndAtOnce`, `InTime`,
`RetriesAreInTime`, `ConcurrencyIsBounded`. That an answer leaves nothing running follows
from `TreeOK`, which relates each task to its group: a group ends after its tasks, and well
only if all of them did; one that aborts has passed its cancellation on, and a group that
does not abort has none cancelled. To end a platform as cancelled must not surprise a request
that runs on, hence `SpreadOK`: a platform aborts for a failure of its own or because the
request does. `SettledFacts` is the heart of the statements about time: when every task waits,
no group aborts and no call has failed, as an aborting group would be over. So time passes
only while some call is at work, and `TimeOK` bounds the clock by what that call can have
spent (`Latest`), provided that no call had to queue (`SmoothStart`, by counting the
permits); where some queue, only the deadline bounds it.

**`WorkersProofs`.** For any processes, threads and clients: `TypeCorrect`, `OneLoopEach`. The
strengthening says for each process that its lock is held by just the thread that is between
`Lock` and `Unlock`, that its loop runs just if its bridge is its own, and that a pid equal to
its number means a bridge of its own, which is what the fast path relies on.

`LimiterInvariant`, `LimiterExact`: for any window and limit, what a process counts in its deque is
what it let through during the window. The two are kept differently: the deque is an ordered list that
is trimmed only at a check and then holds hits of any age, the history a set of logins that forgets
each at the window's end. `Matches` relates them: the deque is in order of age, so that trimming at its
old end drops just what is too old, and its hits in the window correspond one to one to
logins of the same age (`Pairing`). `LimiterIInv` adds that no more logins than the limit are among them, and holds through
forks, as both are copied together.

The proofs have one lemma per action; those that change only what one request knows share
`RequestChanges`, and commits share `OtherStaysOK` for the requests beside them.

**Model-checked only.** Liveness (`AttemptResolves`, both `Terminates`, `RunResolves`,
`EveryRequestServed`), because it depends on fairness and ENABLED, which the prover does not
reason about. Every other property of a passing run is stated by a theorem.

## 6. Abstractions

* A text, a row's data and a file are values that can be compared. Captions, hashtags and
  prompts are not built.
* Preflight blockers other than status and attempts can only refuse: `Refuse`.
* Two preflight queries about attempts are one step, and so are the library query and
  the duplicate query of an upload; the comments at the actions say why, or what it costs.
* The order in which one multi-file upload names its files, and the order of siblings, are
  arbitrary in the model.
* In `MediaLibrary` an attempt is seen as far as its images go; item statuses other than
  published do not occur there, as the media service checks no other.
* Audit rows are left out: they are written in the transaction they describe, and no
  operation reads them.
* Tokens, encryption, password hashes, URL signatures and pixel conversion are stateless.

* Attempts of a call last at most their timeout, and the engine of `db/base.py`, a global that
  is not renewed after a fork, is not part of `Workers`.

## 7. What is not modelled

* **Image ingest, public image URLs** (`content/ingest.py`, `publishing/media.py`,
  `api/public_media.py`): pixels and keyed hashes. They keep no state and decide nothing that
  another step depends on; the library sees a checksum or a refusal.
* **Tokens, password hashes, signed OAuth state, encryption**: functions of their input.
* **Crawler** (`scraper/fetcher.py`, `parser.py`, `discovery.py`): HTML and I/O. What it
  yields, and that it fails, are inputs of `CatalogSync`.
* **LinkedIn's discovery, token expiry, verify**: they change no account beyond what a
  connect does.
* **API layer, audit, configuration, seed**: routing and serialisation; they run once, or
  ride in the transactions that are modelled.
* **Deployment scripts and migrations**: the schema they lead to is assumed.
* **Front end**: pages hold no state that outlives a request, but for the entries to skip.
