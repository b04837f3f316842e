----------------------------- MODULE CatalogDiff -----------------------------
(***************************************************************************)
(* What a sync computes: the groups a crawl yields, the changeset against  *)
(* the live catalog, the part of it a reviewer keeps, and its effect on    *)
(* the rows (app/scraper/normalize.py, diff.py, selection.py and           *)
(* apply_changeset of repository.py).                                      *)
(*                                                                         *)
(* Tables and the sections of a changeset are functions from codes, whose  *)
(* domain is the codes that have a row or an entry.  A row is a record of  *)
(* its columns; the columns a crawl fills (title, category, ..., price,    *)
(* location, ...) are one column, data.                                    *)
(***************************************************************************)
CONSTANTS CourseCodes,
          Scheduled,       \* codes of the offerings the site schedules
          CourseData,      \* values of a course's data
          OfferingData,    \* values of an offering's data
          OnDemandData,    \* what a synthetic offering carries
          Repriced         \* pairs of data: a number that was there changes

ASSUME CatalogAssumption == /\ OnDemandData \in OfferingData
                            /\ Repriced \subseteq OfferingData \X OfferingData

(* The synthetic offering of a course that has none. *)
OnDemand(c) == <<"on-demand", c>>
OfferingCodes == Scheduled \union {OnDemand(c) : c \in CourseCodes}

CourseRow == [data : CourseData, is_active : BOOLEAN]
OfferingRow == [course : CourseCodes, data : OfferingData, status : {"active", "cancelled"},
                is_active : BOOLEAN]

Tables(Codes, Row) == UNION {[D -> Row] : D \in SUBSET Codes}
EmptyTable == [c \in {} |-> c]

(* A function overridden by another. *)
Over(f, g) == [x \in DOMAIN f \union DOMAIN g |-> IF x \in DOMAIN g THEN g[x] ELSE f[x]]

-----------------------------------------------------------------------------

(* build_course_groups: cards are the courses listed and rows the offerings  *)
(* parsed from their pages, each under the first course that had it.  A      *)
(* course without offerings, or whose page failed, gets a synthetic one.     *)
CourseGroups(cards, rows) ==
    LET bare == {c \in DOMAIN cards : \A o \in DOMAIN rows : rows[o].course # c} IN
    [courses   |-> cards,
     offerings |-> Over(rows, [o \in {OnDemand(c) : c \in bare} |->
                                  [course |-> o[2], data |-> OnDemandData]])]

Groups == UNION {{CourseGroups(cards, rows) :
                     rows \in Tables(Scheduled, [course : DOMAIN cards, data : OfferingData])} :
                        cards \in Tables(CourseCodes, CourseData)}

-----------------------------------------------------------------------------

(* The rows a crawl would have. *)
ListedCourse(groups, c) == [data |-> groups.courses[c], is_active |-> TRUE]
ListedOffering(groups, o) ==
    [course |-> groups.offerings[o].course, data |-> groups.offerings[o].data,
     status |-> "active", is_active |-> TRUE]

(* A course that comes back without its is_active: a seeded bug. *)
DataOnly == {"data"}

(* _field_changes, and is_active of a row that comes back. *)
CourseFields == {"data", "is_active"}
OfferingFields == {"data", "status", "is_active"}

Changes(fields, live, listed) ==
    [f \in {g \in fields : live[g] # listed[g]} |-> listed[f]]

(* An offering that comes back without its is_active: a seeded bug. *)
OfferingFieldsOnly(live, listed) == Changes({"data", "status"}, live, listed)

OfferingChanges(live, listed) == Changes(OfferingFields, live, listed)

Sections == {"courses_added", "courses_updated", "courses_removed",
             "offerings_added", "offerings_updated", "offerings_removed"}

(* Every live offering belongs to a live course as far as the diff can see.  *)
Seen(cs, os) == {o \in DOMAIN os : os[o].course \in DOMAIN cs}

OfferingsOf(c, groups) == {o \in DOMAIN groups.offerings : groups.offerings[o].course = c}

(* build_changeset: the entries of each section, by code.  The offerings of  *)
(* a new course are part of its entry and are not compared with live ones;   *)
(* the course of an offering is not a field that is compared.                *)
BuildChangeset(groups, cs, os) ==
    LET listed == DOMAIN groups.courses
        found == DOMAIN groups.offerings
        ofKnown == {o \in found : groups.offerings[o].course \in DOMAIN cs}
        updated == {c \in listed \cap DOMAIN cs :
                       Changes(CourseFields, cs[c], ListedCourse(groups, c)) # EmptyTable}
        moved == {o \in ofKnown \cap Seen(cs, os) :
                     OfferingChanges(os[o], ListedOffering(groups, o)) # EmptyTable}
    IN
    [courses_added     |-> [c \in listed \ DOMAIN cs |->
                              [row |-> ListedCourse(groups, c),
                               offerings |-> [o \in OfferingsOf(c, groups) |->
                                                ListedOffering(groups, o)]]],
     courses_updated   |-> [c \in updated |->
                              Changes(CourseFields, cs[c], ListedCourse(groups, c))],
     courses_removed   |-> [c \in {c \in DOMAIN cs \ listed : cs[c].is_active} |->
                              {o \in Seen(cs, os) : os[o].course = c /\ os[o].is_active}],
     offerings_added   |-> [o \in ofKnown \ Seen(cs, os) |-> ListedOffering(groups, o)],
     offerings_updated |-> [o \in moved |->
                              OfferingChanges(os[o], ListedOffering(groups, o))],
     offerings_removed |-> [o \in {o \in Seen(cs, os) \ found : os[o].is_active} |->
                              os[o].course]]

(* A changed price or number of hours is staged with the Decimal that the    *)
(* Numeric column was read as, which _serialize leaves and JSON has not.     *)
HoldsDecimal(changeset, os) ==
    \E o \in DOMAIN changeset.offerings_updated :
        LET changes == changeset.offerings_updated[o] IN
        "data" \in DOMAIN changes /\ <<os[o].data, changes["data"]>> \in Repriced

NoChanges == [s \in Sections |-> EmptyTable]

(* The entries of a changeset, named by section and code as the review panel *)
(* names them.                                                              *)
Keys(changeset) == UNION {{<<s, c>> : c \in DOMAIN changeset[s]} : s \in Sections}

-----------------------------------------------------------------------------

(* A filter that forgets the removals: a seeded bug. *)
FilterKeepingRemovals(changeset, skip) ==
    [s \in Sections |->
        [c \in {d \in DOMAIN changeset[s] :
                   s \in {"courses_removed", "offerings_removed"} \/ <<s, d>> \notin skip}
         |-> changeset[s][c]]]

(* filter_changeset: what is left of it without the entries skipped. *)
FilterChangeset(changeset, skip) ==
    [s \in Sections |->
        [c \in {d \in DOMAIN changeset[s] : <<s, d>> \notin skip} |-> changeset[s][c]]]

(* apply_changeset works on the rows the session has seen and writes the     *)
(* columns that end up different from them.                                  *)
Written(current, seen, target) ==
    [f \in DOMAIN current |-> IF target[f] # seen[f] THEN target[f] ELSE current[f]]

(* Removed courses passed over: a seeded bug. *)
UpdatedCourse(changeset, c, row) ==
    IF c \in DOMAIN changeset.courses_updated
    THEN Over(row, changeset.courses_updated[c]) ELSE row

TargetCourse(changeset, c, row) ==
    LET updated == IF c \in DOMAIN changeset.courses_updated
                   THEN Over(row, changeset.courses_updated[c]) ELSE row
    IN  IF c \in DOMAIN changeset.courses_removed
        THEN [updated EXCEPT !.is_active = FALSE] ELSE updated

Deactivated(row) == [row EXCEPT !.is_active = FALSE, !.status = "cancelled"]

(* Offerings deactivated with their course, listed or not: a seeded bug. *)
CascadeOffering(changeset, o, row) ==
    LET updated == IF o \in DOMAIN changeset.offerings_updated
                   THEN Over(row, changeset.offerings_updated[o]) ELSE row
        gone == \/ o \in DOMAIN changeset.offerings_removed
                \/ row.course \in DOMAIN changeset.courses_removed
    IN  IF gone THEN Deactivated(updated) ELSE updated

TargetOffering(changeset, o, row) ==
    LET updated == IF o \in DOMAIN changeset.offerings_updated
                   THEN Over(row, changeset.offerings_updated[o]) ELSE row
    IN  IF o \in DOMAIN changeset.offerings_removed THEN Deactivated(updated) ELSE updated

(* The offerings inserted: those of the new courses, and those added to a    *)
(* course that is known.                                                     *)
WithNewCourse(changeset, o) ==
    {c \in DOMAIN changeset.courses_added :
        o \in DOMAIN changeset.courses_added[c].offerings}

Inserted(changeset, seenCourses) ==
    {o \in OfferingCodes : WithNewCourse(changeset, o) # {}}
    \union
    {o \in DOMAIN changeset.offerings_added :
        changeset.offerings_added[o].course
            \in seenCourses \union DOMAIN changeset.courses_added}

InsertedRow(changeset, o) ==
    IF o \in DOMAIN changeset.offerings_added
    THEN changeset.offerings_added[o]
    ELSE LET c == CHOOSE c \in WithNewCourse(changeset, o) : TRUE
         IN  changeset.courses_added[c].offerings[o]

(* The unique codes of courses and offerings: an INSERT of one that has a    *)
(* row fails, and the whole approval with it.                                *)
Conflicts(changeset, seenCourses, cs, os) ==
    \/ DOMAIN changeset.courses_added \cap DOMAIN cs # {}
    \/ Inserted(changeset, seenCourses) \cap DOMAIN os # {}

ApplyToCourses(changeset, seen, cs) ==
    [c \in DOMAIN cs \union DOMAIN changeset.courses_added |->
        IF c \notin DOMAIN cs THEN changeset.courses_added[c].row
        ELSE IF c \in DOMAIN seen
             THEN Written(cs[c], seen[c], TargetCourse(changeset, c, seen[c]))
             ELSE cs[c]]

ApplyToOfferings(changeset, seenCourses, seen, os) ==
    [o \in DOMAIN os \union Inserted(changeset, seenCourses) |->
        IF o \notin DOMAIN os THEN InsertedRow(changeset, o)
        ELSE IF o \in DOMAIN seen
             THEN Written(os[o], seen[o], TargetOffering(changeset, o, seen[o]))
             ELSE os[o]]

=============================================================================
