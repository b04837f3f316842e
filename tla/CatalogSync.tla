------------------------------ MODULE CatalogSync ----------------------------
(***************************************************************************)
(* The catalog sync with a human in the loop (app/scraper/service.py,      *)
(* app/scraper/repository.py, app/services/courses.py, api/courses.py): a  *)
(* request opens a run, a background task crawls the site and stages the   *)
(* difference to the live catalog, and a reviewer approves all of it, part *)
(* of it or none.                                                          *)
(*                                                                         *)
(* Requests and tasks run beside each other, in one process or several.    *)
(* Each statement reads what is committed when it runs; what a session     *)
(* writes takes effect with its commit.  No row is locked and nothing      *)
(* tells a run that the catalog changed since it was staged.               *)
(***************************************************************************)
EXTENDS CatalogDiff, Naturals, FiniteSets

CONSTANTS MaxRuns,      \* bound: the scraper_runs rows of a behaviour
          Requests      \* requests that may be in flight at once

ASSUME SyncAssumption == MaxRuns \in Nat /\ IsFiniteSet(Requests)

VARIABLES
    courses, offerings,  \* the live catalog
    runs,                \* scraper_runs: status and staged changeset
    tasks,               \* the background task of each run (_execute)
    requests             \* start, approve and reject requests in flight

vars == <<courses, offerings, runs, tasks, requests>>

RunIds == 1..MaxRuns
RunStatuses == {"none", "running", "pending", "approved", "rejected", "failed"}
Open == {"running", "pending"}

NoRun == [status |-> "none", changeset |-> NoChanges]
NoTask == [step |-> "none", groups |-> CourseGroups(EmptyTable, EmptyTable),
           courses |-> EmptyTable]
Idle == [op |-> "none", run |-> 0, skip |-> {}, step |-> "none",
         courses |-> EmptyTable, offerings |-> EmptyTable]

OpenRuns == {r \in RunIds : runs[r].status \in Open}

Init ==
    /\ courses = EmptyTable
    /\ offerings = EmptyTable
    /\ runs = [r \in RunIds |-> NoRun]
    /\ tasks = [r \in RunIds |-> NoTask]
    /\ requests = [q \in Requests |-> Idle]

-----------------------------------------------------------------------------
(* Opening a run. *)

(* A run awaiting review that does not count as open: a seeded bug. *)
NoneRunning == \A r \in RunIds : runs[r].status # "running"

NoOpenRun == OpenRuns = {}

(* start_sync, to has_open_run.  With an open run it answers 409. *)
BeginStart(q) ==
    /\ requests[q] = Idle
    /\ NoOpenRun
    /\ requests' = [requests EXCEPT ![q] = [Idle EXCEPT !.op = "start", !.step = "open"]]
    /\ UNCHANGED <<courses, offerings, runs, tasks>>

Opens(q, r) ==
    /\ requests[q].op = "start"
    /\ runs[r].status = "none"
    /\ \A k \in 1..(r - 1) : runs[k].status # "none"
    /\ runs' = [runs EXCEPT ![r].status = "running"]
    /\ requests' = [requests EXCEPT ![q] = Idle]
    /\ UNCHANGED <<courses, offerings>>

(* start_sync, its commit and the task it creates.  The request ends with it. *)
OpenRun(q, r) ==
    /\ Opens(q, r)
    /\ tasks' = [tasks EXCEPT ![r].step = "crawl"]

-----------------------------------------------------------------------------
(* The background task. *)

(* Only a crawl that answers is recorded: a seeded bug. *)
FailSilently(r) ==
    /\ tasks' = [tasks EXCEPT ![r] = [NoTask EXCEPT !.step = "done"]]
    /\ UNCHANGED runs

Fail(r) ==
    /\ runs' = [runs EXCEPT ![r].status = "failed"]
    /\ tasks' = [tasks EXCEPT ![r] = [NoTask EXCEPT !.step = "done"]]

(* The crawler, fetch_live_state or build_changeset raises: the run records it. *)
CrawlFails(r) ==
    /\ tasks[r].step \in {"crawl", "diff"}
    /\ Fail(r)
    /\ UNCHANGED <<courses, offerings, requests>>

(* The guard of _execute counts the offerings of the groups. *)
NothingFound(groups) == DOMAIN groups.offerings = {}

(* The crawl answers: no offering at all fails the run, otherwise            *)
(* fetch_live_state reads the courses.                                       *)
Crawl(r, groups) ==
    /\ tasks[r].step = "crawl"
    /\ \/ NothingFound(groups) /\ Fail(r)
       \/ /\ ~NothingFound(groups)
          /\ tasks' = [tasks EXCEPT ![r] =
                          [step |-> "diff", groups |-> groups, courses |-> courses]]
          /\ UNCHANGED runs
    /\ UNCHANGED <<courses, offerings, requests>>

Difference(r) == BuildChangeset(tasks[r].groups, tasks[r].courses, offerings)

(* fetch_live_state reads the offerings, the diff is staged, all committed.  *)
(* The task keeps what it crawled, for the properties.                       *)
Stage(r) ==
    /\ tasks[r].step = "diff"
    /\ ~HoldsDecimal(Difference(r), offerings)
    /\ runs' = [runs EXCEPT ![r] = [status |-> "pending", changeset |-> Difference(r)]]
    /\ tasks' = [tasks EXCEPT ![r].step = "done", ![r].courses = EmptyTable]
    /\ UNCHANGED <<courses, offerings, requests>>

(* The task ends and leaves its run as it is: running. *)
LeavesRunning(r, step) ==
    /\ tasks' = [tasks EXCEPT ![r] = [NoTask EXCEPT !.step = step]]
    /\ UNCHANGED <<courses, offerings, runs, requests>>

(* The commit, which no except clause covers, has a Decimal to write as JSON *)
(* and raises.                                                               *)
CommitFails(r) ==
    /\ tasks[r].step = "diff"
    /\ HoldsDecimal(Difference(r), offerings)
    /\ LeavesRunning(r, "lost")

(* The process of a task is stopped, or the database fails: its transaction   *)
(* was aborted by the error it tries to record, or its commit is refused.    *)
TaskDies(r) ==
    /\ tasks[r].step \in {"crawl", "diff"}
    /\ LeavesRunning(r, "dead")

-----------------------------------------------------------------------------
(* Reviewing a run. *)

(* approve or reject, to assert_reviewable.  Any other run answers 409. *)
BeginReview(q, op, r, skip) ==
    /\ requests[q] = Idle
    /\ runs[r].status = "pending"
    /\ requests' = [requests EXCEPT ![q] =
                      [Idle EXCEPT !.op = op, !.run = r, !.skip = skip,
                                   !.step = IF op = "approve" THEN "read" ELSE "decide"]]
    /\ UNCHANGED <<courses, offerings, runs, tasks>>

(* apply_changeset reads the courses and the offerings. *)
ReadCatalog(q) ==
    /\ requests[q].op = "approve" /\ requests[q].step = "read"
    /\ requests' = [requests EXCEPT ![q].step = "decide",
                                    ![q].courses = courses,
                                    ![q].offerings = offerings]
    /\ UNCHANGED <<courses, offerings, runs, tasks>>

Kept(q) == FilterChangeset(runs[requests[q].run].changeset, requests[q].skip)

Conflicting(q) == Conflicts(Kept(q), DOMAIN requests[q].courses, courses, offerings)

Decide(q, status) ==
    /\ runs' = [runs EXCEPT ![requests[q].run].status = status]
    /\ requests' = [requests EXCEPT ![q] = Idle]
    /\ UNCHANGED tasks

(* approve commits: the kept entries are written and the run is approved. *)
Approve(q) ==
    /\ requests[q].op = "approve" /\ requests[q].step = "decide"
    /\ ~Conflicting(q)
    /\ courses' = ApplyToCourses(Kept(q), requests[q].courses, courses)
    /\ offerings' = ApplyToOfferings(Kept(q), DOMAIN requests[q].courses,
                                     requests[q].offerings, offerings)
    /\ Decide(q, "approved")

(* A unique code refuses an INSERT: everything is rolled back. *)
ApprovalFails(q) ==
    /\ requests[q].op = "approve" /\ requests[q].step = "decide"
    /\ Conflicting(q)
    /\ requests' = [requests EXCEPT ![q] = Idle]
    /\ UNCHANGED <<courses, offerings, runs, tasks>>

Reject(q) ==
    /\ requests[q].op = "reject" /\ requests[q].step = "decide"
    /\ Decide(q, "rejected")
    /\ UNCHANGED <<courses, offerings>>

(* The request dies before its commit. *)
Abandon(q) ==
    /\ requests[q] # Idle
    /\ requests' = [requests EXCEPT ![q] = Idle]
    /\ UNCHANGED <<courses, offerings, runs, tasks>>

-----------------------------------------------------------------------------

Task(r) == \/ CrawlFails(r) \/ \E groups \in Groups : Crawl(r, groups)
           \/ Stage(r) \/ CommitFails(r)

Review(q, r) ==
    \/ \E skip \in SUBSET Keys(runs[r].changeset) : BeginReview(q, "approve", r, skip)
    \/ BeginReview(q, "reject", r, {})

Next ==
    \/ \E q \in Requests : \/ BeginStart(q)
                           \/ \E r \in RunIds : OpenRun(q, r) \/ Review(q, r)
                           \/ ReadCatalog(q) \/ Approve(q) \/ ApprovalFails(q)
                           \/ Reject(q) \/ Abandon(q)
    \/ \E r \in RunIds : Task(r) \/ TaskDies(r)

Spec == Init /\ [][Next]_vars

(* A task that lives goes on: the fetcher's timeouts and retries are bounded.*)
FairSpec == Spec /\ \A r \in RunIds : WF_vars(Task(r))

-----------------------------------------------------------------------------

(* Every section of a changeset has entries of its kind. *)
ChangesetOK(changeset) ==
    /\ DOMAIN changeset = Sections
    /\ \A s \in {"courses_added", "courses_updated", "courses_removed"} :
          DOMAIN changeset[s] \subseteq CourseCodes
    /\ \A s \in {"offerings_added", "offerings_updated", "offerings_removed"} :
          DOMAIN changeset[s] \subseteq OfferingCodes

(* Besides its types: every offering has its course, and a run its task. *)
TypeOK ==
    /\ courses \in Tables(CourseCodes, CourseRow)
    /\ offerings \in Tables(OfferingCodes, OfferingRow)
    /\ \A o \in DOMAIN offerings : offerings[o].course \in DOMAIN courses
    /\ \A r \in RunIds : /\ runs[r].status \in RunStatuses
                         /\ ChangesetOK(runs[r].changeset)
                         /\ runs[r].status = "none" <=> tasks[r].step = "none"
                         /\ tasks[r].step \in {"none", "crawl", "diff", "done", "dead", "lost"}
    /\ \A q \in Requests : /\ requests[q].op \in {"none", "start", "approve", "reject"}
                           /\ requests[q].step \in {"none", "open", "read", "decide"}
                           /\ requests[q].run \in 0..MaxRuns

(* The check of start_sync is only as old as the request: however requests   *)
(* overlap there are never more open runs than requests that can overlap.    *)
OpenRunsBounded == Cardinality(OpenRuns) <= Cardinality(Requests)

(* status and is_active of an offering are written by different parts of the *)
(* diff and the removal, and tell the same story through overlapping runs,   *)
(* partial approvals and returns.                                            *)
CancelledIsInactive ==
    \A o \in DOMAIN offerings : offerings[o].status = "cancelled" <=> ~offerings[o].is_active

(* The approval of q commits. *)
Commits(q) == requests[q].op = "approve" /\ Approve(q)

Entries(q, sections) ==
    {k[2] : k \in {k \in Keys(runs[requests[q].run].changeset) \ requests[q].skip :
                      k[1] \in sections}}

(* A reviewer's veto: an approval changes no row but those that an entry of  *)
(* the run names and the reviewer kept.                                      *)
SkippedRowsUntouched ==
    [][\A q \in Requests : Commits(q) =>
          /\ \A c \in DOMAIN courses' :
                \/ c \in DOMAIN courses /\ courses'[c] = courses[c]
                \/ c \in Entries(q, {"courses_added", "courses_updated", "courses_removed"})
          /\ \A o \in DOMAIN offerings' :
                \/ o \in DOMAIN offerings /\ offerings'[o] = offerings[o]
                \/ o \in Entries(q, {"offerings_added", "offerings_updated",
                                     "offerings_removed"})
                \/ offerings'[o].course \in Entries(q, {"courses_added"})]_vars

(* The approval of q finds the catalog as its run was staged against. *)
Fresh(q) ==
    LET r == requests[q].run IN
    /\ requests[q].courses = courses /\ requests[q].offerings = offerings
    /\ runs[r].changeset = BuildChangeset(tasks[r].groups, courses, offerings)

(* "A skipped entry leaves its live row untouched, so the next crawl stages  *)
(* it again": an approval of a fresh changeset leaves exactly the entries    *)
(* that were skipped for a crawl of the same site, and none if none was.     *)
OnlySkippedRemains ==
    [][\A q \in Requests : Commits(q) /\ Fresh(q) =>
          LET r == requests[q].run IN
          Keys(BuildChangeset(tasks[r].groups, courses', offerings')) = requests[q].skip]_vars

(* One request at a time, every approval finds the catalog so: whatever      *)
(* crawls fail or die and whatever is skipped before, no run waits beside    *)
(* another whose approval makes its changeset stale.                         *)
ApprovalsAreFresh == [][\A q \in Requests : Commits(q) => Fresh(q)]_vars

(* The live catalog is what the site showed, but for the course of an        *)
(* offering that moved.                                                      *)
Mirrors(groups, cs, os) ==
    /\ {c \in DOMAIN cs : cs[c].is_active} = DOMAIN groups.courses
    /\ \A c \in DOMAIN groups.courses : cs[c].data = groups.courses[c]
    /\ {o \in DOMAIN os : os[o].is_active} = DOMAIN groups.offerings
    /\ \A o \in DOMAIN groups.offerings : os[o].data = groups.offerings[o].data

(* A fresh changeset approved in full makes the catalog mirror the site. *)
FullApprovalMirrors ==
    [][\A q \in Requests : Commits(q) /\ Fresh(q) /\ requests[q].skip = {} =>
          Mirrors(tasks[requests[q].run].groups, courses', offerings')]_vars

(* The tables, seen as what they show, and the runs as what they found. *)
Shown(table) == [x \in {y \in DOMAIN table : table[y].is_active} |-> table[x].data]

Listing(groups) ==
    [courses   |-> groups.courses,
     offerings |-> [o \in DOMAIN groups.offerings |-> groups.offerings[o].data]]

PendingRuns == {r \in RunIds : runs[r].status = "pending"}
Awaiting == {Listing(tasks[r].groups) : r \in PendingRuns}

Mirror == INSTANCE CatalogMirror WITH courses <- Shown(courses),
                                      offerings <- Shown(offerings), awaiting <- Awaiting

(* One request at a time, crawl, diff, filter and application amount to a    *)
(* reviewer who adopts what the site says, code by code: no row shows        *)
(* anything else than what it did or what the run found.                     *)
ImplementsCatalogMirror == Mirror!MirrorSpec

(* A run resolves, unless its process was stopped or its changeset cannot be *)
(* stored.                                                                   *)
RunResolves ==
    \A r \in RunIds :
        runs[r].status = "running" ~>
            (runs[r].status # "running" \/ tasks[r].step \in {"dead", "lost"})

(* "Run must record any failure": while the process and its database work,   *)
(* whatever goes wrong in _execute ends the run.                             *)
RecordsAnyFailure ==
    \A r \in RunIds :
        runs[r].status = "running" ~> (runs[r].status # "running" \/ tasks[r].step = "dead")

=============================================================================
