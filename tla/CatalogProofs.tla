---------------------------- MODULE CatalogProofs ----------------------------
(***************************************************************************)
(* Theorems about CatalogSync, for every set of codes and data, any number *)
(* of runs and any number of requests at once.                             *)
(***************************************************************************)
EXTENDS CatalogSync, FiniteSetTheorems, TLAPS

Consistent(row) == row.status = "cancelled" <=> ~row.is_active

CourseTables == Tables(CourseCodes, CourseRow)
OfferingTables == Tables(OfferingCodes, OfferingRow)

(* What is inserted is active. *)
ActiveRow == [course : CourseCodes, data : OfferingData, status : {"active"},
              is_active : {TRUE}]
ActiveTables == Tables(OfferingCodes, ActiveRow)

CourseChanges == Tables(CourseFields, CourseData \union BOOLEAN)
OfferingValues == OfferingData \union {"active", TRUE}
OfferingUpdates == Tables(OfferingFields, OfferingValues)

(* The entry of a new course. *)
Added == [row : CourseRow, offerings : ActiveTables]

ChangesetShape ==
    [courses_added     : Tables(CourseCodes, Added),
     courses_updated   : Tables(CourseCodes, CourseChanges),
     courses_removed   : Tables(CourseCodes, SUBSET OfferingCodes),
     offerings_added   : Tables(OfferingCodes, ActiveRow),
     offerings_updated : Tables(OfferingCodes, OfferingUpdates),
     offerings_removed : Tables(OfferingCodes, CourseCodes)]

(* An offering as a crawl finds it. *)
Found == [course : CourseCodes, data : OfferingData]

GroupShape == [courses : Tables(CourseCodes, CourseData),
               offerings : Tables(OfferingCodes, Found)]

(* A change of a course has values of the right kind. *)
CourseChangeOK(change) ==
    /\ "data" \in DOMAIN change => change["data"] \in CourseData
    /\ "is_active" \in DOMAIN change => change["is_active"] \in BOOLEAN

(* A change of an offering names status and is_active together, or neither. *)
OfferingChangeOK(change) ==
    /\ "data" \in DOMAIN change => change["data"] \in OfferingData
    /\ "status" \in DOMAIN change <=> "is_active" \in DOMAIN change
    /\ "status" \in DOMAIN change => change["status"] = "active" /\ change["is_active"] = TRUE

(* A staged changeset, and whatever part of it is kept. *)
ChangesetGood(changeset) ==
    /\ \A c \in DOMAIN changeset.courses_added :
          \A o \in DOMAIN changeset.courses_added[c].offerings :
             /\ changeset.courses_added[c].offerings[o].course = c
             /\ o \notin DOMAIN changeset.offerings_added
    /\ \A c \in DOMAIN changeset.courses_updated :
          CourseChangeOK(changeset.courses_updated[c])
    /\ \A o \in DOMAIN changeset.offerings_updated :
          OfferingChangeOK(changeset.offerings_updated[o])

-----------------------------------------------------------------------------
(* Tables. *)

LEMMA TableIs ==
    ASSUME NEW Codes, NEW Row, NEW f
    PROVE  f \in Tables(Codes, Row) <=> /\ f = [x \in DOMAIN f |-> f[x]]
                                        /\ DOMAIN f \subseteq Codes
                                        /\ \A x \in DOMAIN f : f[x] \in Row
  <1>1. ASSUME f \in Tables(Codes, Row)
        PROVE  /\ f = [x \in DOMAIN f |-> f[x]]
               /\ DOMAIN f \subseteq Codes
               /\ \A x \in DOMAIN f : f[x] \in Row
    <2>1. PICK D \in SUBSET Codes : f \in [D -> Row]
      BY <1>1 DEF Tables
    <2>2. QED
      BY <2>1
  <1>2. ASSUME f = [x \in DOMAIN f |-> f[x]], DOMAIN f \subseteq Codes,
               \A x \in DOMAIN f : f[x] \in Row
        PROVE  f \in Tables(Codes, Row)
    <2>1. f \in [DOMAIN f -> Row]
      BY <1>2
    <2>2. QED
      BY <1>2, <2>1 DEF Tables
  <1>3. QED
    BY <1>1, <1>2

LEMMA EmptyIsTable ==
    ASSUME NEW Codes, NEW Row
    PROVE  EmptyTable \in Tables(Codes, Row) /\ DOMAIN EmptyTable = {}
  <1>1. DOMAIN EmptyTable = {} /\ EmptyTable = [x \in DOMAIN EmptyTable |-> EmptyTable[x]]
    BY DEF EmptyTable
  <1>2. QED
    BY <1>1, TableIs

(* A part of a table. *)
LEMMA PartIsTable ==
    ASSUME NEW Codes, NEW Row, NEW f \in Tables(Codes, Row), NEW D, D \subseteq DOMAIN f
    PROVE  [x \in D |-> f[x]] \in Tables(Codes, Row)
  <1>1. DOMAIN f \subseteq Codes /\ \A x \in DOMAIN f : f[x] \in Row
    BY TableIs
  <1>2. [x \in D |-> f[x]] \in [D -> Row]
    BY <1>1
  <1>3. QED
    BY <1>1, <1>2 DEF Tables

LEMMA NoChangesGood == NoChanges \in ChangesetShape /\ ChangesetGood(NoChanges)
  <1>1. DOMAIN EmptyTable = {}
    BY DEF EmptyTable
  <1>2. NoChanges \in ChangesetShape
    BY EmptyIsTable DEF NoChanges, ChangesetShape, Sections
  <1>3. ChangesetGood(NoChanges)
    BY <1>1 DEF NoChanges, ChangesetGood, Sections
  <1>4. QED
    BY <1>2, <1>3

-----------------------------------------------------------------------------
(* Groups and changesets. *)

LEMMA GroupsShape ==
    ASSUME NEW groups \in Groups
    PROVE  groups \in GroupShape
  <1>1. PICK cards \in Tables(CourseCodes, CourseData) :
          \E rows \in Tables(Scheduled, [course : DOMAIN cards, data : OfferingData]) :
             groups = CourseGroups(cards, rows)
    BY DEF Groups
  <1>2. PICK rows \in Tables(Scheduled, [course : DOMAIN cards, data : OfferingData]) :
             groups = CourseGroups(cards, rows)
    BY <1>1
  <1> DEFINE bare == {c \in DOMAIN cards : \A o \in DOMAIN rows : rows[o].course # c}
             synthetic == [o \in {OnDemand(c) : c \in bare} |->
                             [course |-> o[2], data |-> OnDemandData]]
  <1>3. DOMAIN cards \subseteq CourseCodes
    BY TableIs
  <1>4. DOMAIN rows \subseteq Scheduled /\ \A o \in DOMAIN rows : rows[o] \in Found
    <2> DEFINE Row == [course : DOMAIN cards, data : OfferingData]
    <2>1. Row \subseteq Found
      BY <1>3 DEF Found
    <2>2. rows \in Tables(Scheduled, Row)
      OBVIOUS
    <2> HIDE DEF Row
    <2>3. QED
      BY <2>1, <2>2, TableIs
  <1>5. DOMAIN synthetic \subseteq OfferingCodes /\ \A o \in DOMAIN synthetic : synthetic[o] \in Found
    <2>1. \A c \in bare : c \in CourseCodes /\ OnDemand(c)[2] = c
      BY <1>3 DEF OnDemand
    <2>2. DOMAIN synthetic \subseteq OfferingCodes
      BY <2>1 DEF OfferingCodes
    <2>3. SUFFICES ASSUME NEW o \in DOMAIN synthetic PROVE synthetic[o] \in Found
      BY <2>2
    <2>4. PICK c \in bare : o = OnDemand(c)
      OBVIOUS
    <2>5. synthetic[o] = [course |-> o[2], data |-> OnDemandData] /\ o[2] \in CourseCodes
      BY <2>1, <2>4
    <2>6. QED
      BY <2>5, CatalogAssumption DEF Found
  <1>6. groups = [courses |-> cards, offerings |-> Over(rows, synthetic)]
    BY <1>2 DEF CourseGroups
  <1> HIDE DEF synthetic
  <1>7. Over(rows, synthetic) \in Tables(OfferingCodes, Found)
    <2>1. Over(rows, synthetic) \in [DOMAIN rows \union DOMAIN synthetic -> Found]
      BY <1>4, <1>5 DEF Over
    <2>2. DOMAIN rows \union DOMAIN synthetic \subseteq OfferingCodes
      BY <1>4, <1>5 DEF OfferingCodes
    <2>3. QED
      BY <2>1, <2>2 DEF Tables
  <1>8. QED
    BY <1>6, <1>7 DEF GroupShape

LEMMA ListedOfferingActive ==
    ASSUME NEW groups \in GroupShape, NEW o \in DOMAIN groups.offerings
    PROVE  /\ ListedOffering(groups, o) \in ActiveRow /\ o \in OfferingCodes
           /\ ListedOffering(groups, o).course = groups.offerings[o].course
  <1>1. groups.offerings \in Tables(OfferingCodes, Found)
    BY DEF GroupShape
  <1>2. groups.offerings[o] \in Found /\ o \in OfferingCodes
    BY <1>1, TableIs
  <1>3. QED
    BY <1>2 DEF ListedOffering, ActiveRow, Found

(* What a course's or an offering's change consists of. *)
LEMMA CourseChangeIs ==
    ASSUME NEW live \in CourseRow, NEW listed \in CourseRow
    PROVE  /\ Changes(CourseFields, live, listed) \in CourseChanges
           /\ CourseChangeOK(Changes(CourseFields, live, listed))
  <1> DEFINE change == Changes(CourseFields, live, listed)
  <1>1. /\ change = [f \in {g \in CourseFields : live[g] # listed[g]} |-> listed[f]]
        /\ listed["data"] \in CourseData /\ listed["is_active"] \in BOOLEAN
    BY DEF Changes, CourseRow
  <1>2. /\ DOMAIN change \subseteq CourseFields
        /\ \A f \in DOMAIN change : change[f] = listed[f]
        /\ change = [f \in DOMAIN change |-> change[f]]
    BY <1>1
  <1>3. \A f \in DOMAIN change : change[f] \in CourseData \union BOOLEAN
    BY <1>1, <1>2 DEF CourseFields
  <1> HIDE DEF change
  <1>4. change \in CourseChanges
    BY <1>2, <1>3, TableIs DEF CourseChanges
  <1>5. CourseChangeOK(change)
    BY <1>1, <1>2 DEF CourseChangeOK
  <1>6. QED
    BY <1>4, <1>5 DEF change

LEMMA OfferingChangeIs ==
    ASSUME NEW live \in OfferingRow, NEW listed \in ActiveRow, Consistent(live)
    PROVE  /\ OfferingChanges(live, listed) \in OfferingUpdates
           /\ OfferingChangeOK(OfferingChanges(live, listed))
  <1> DEFINE change == OfferingChanges(live, listed)
  <1>1. /\ change = [f \in {g \in OfferingFields : live[g] # listed[g]} |-> listed[f]]
        /\ listed["data"] \in OfferingData /\ listed["is_active"] = TRUE
        /\ listed["status"] = "active"
        /\ live["status"] \in {"active", "cancelled"} /\ live["is_active"] \in BOOLEAN
        /\ live["status"] = "cancelled" <=> live["is_active"] = FALSE
    BY DEF OfferingChanges, Changes, OfferingRow, ActiveRow, Consistent
  <1>2. /\ DOMAIN change = {g \in OfferingFields : live[g] # listed[g]}
        /\ \A f \in DOMAIN change : change[f] = listed[f]
        /\ change = [f \in DOMAIN change |-> change[f]]
    BY <1>1
  <1>3. "status" \in DOMAIN change <=> "is_active" \in DOMAIN change
    BY <1>1, <1>2 DEF OfferingFields
  <1>4. \A f \in DOMAIN change : change[f] \in OfferingValues
    BY <1>1, <1>2 DEF OfferingFields, OfferingValues
  <1> HIDE DEF change
  <1>5. change \in OfferingUpdates
    BY <1>2, <1>4, TableIs DEF OfferingUpdates
  <1>6. OfferingChangeOK(change)
    BY <1>1, <1>2, <1>3 DEF OfferingChangeOK
  <1>7. QED
    BY <1>5, <1>6 DEF change

LEMMA BuildGood ==
    ASSUME NEW groups \in GroupShape, NEW cs \in CourseTables, NEW os \in OfferingTables,
           \A o \in DOMAIN os : Consistent(os[o])
    PROVE  /\ BuildChangeset(groups, cs, os) \in ChangesetShape
           /\ ChangesetGood(BuildChangeset(groups, cs, os))
  <1> DEFINE listed == DOMAIN groups.courses
             found == DOMAIN groups.offerings
             ofKnown == {o \in found : groups.offerings[o].course \in DOMAIN cs}
             updated == {c \in listed \cap DOMAIN cs :
                       Changes(CourseFields, cs[c], ListedCourse(groups, c)) # EmptyTable}
             moved == {o \in ofKnown \cap Seen(cs, os) :
                     OfferingChanges(os[o], ListedOffering(groups, o)) # EmptyTable}
             entry(c) == [row |-> ListedCourse(groups, c),
                          offerings |-> [o \in OfferingsOf(c, groups) |->
                                                ListedOffering(groups, o)]]
             cadded == [c \in listed \ DOMAIN cs |-> entry(c)]
             cupdated == [c \in updated |->
                              Changes(CourseFields, cs[c], ListedCourse(groups, c))]
             cremoved == [c \in {c \in DOMAIN cs \ listed : cs[c].is_active} |->
                              {o \in Seen(cs, os) : os[o].course = c /\ os[o].is_active}]
             oadded == [o \in ofKnown \ Seen(cs, os) |-> ListedOffering(groups, o)]
             oupdated == [o \in moved |-> OfferingChanges(os[o], ListedOffering(groups, o))]
             oremoved == [o \in {o \in Seen(cs, os) \ found : os[o].is_active} |->
                              os[o].course]
             ch == BuildChangeset(groups, cs, os)
  <1>1. ch = [courses_added |-> cadded, courses_updated |-> cupdated,
              courses_removed |-> cremoved, offerings_added |-> oadded,
              offerings_updated |-> oupdated, offerings_removed |-> oremoved]
    BY DEF BuildChangeset
  <1>2. \A c \in listed : c \in CourseCodes /\ groups.courses[c] \in CourseData
    BY TableIs DEF GroupShape
  <1>3. \A c \in listed : ListedCourse(groups, c) \in CourseRow
    BY <1>2 DEF ListedCourse, CourseRow
  <1>4. \A o \in found : /\ ListedOffering(groups, o) \in ActiveRow /\ o \in OfferingCodes
                         /\ ListedOffering(groups, o).course = groups.offerings[o].course
    BY ListedOfferingActive
  <1>5. DOMAIN cs \subseteq CourseCodes /\ \A c \in DOMAIN cs : cs[c] \in CourseRow
    BY TableIs DEF CourseTables
  <1>6. DOMAIN os \subseteq OfferingCodes /\ \A o \in DOMAIN os : os[o] \in OfferingRow
    BY TableIs DEF OfferingTables
  <1>7. Seen(cs, os) \subseteq DOMAIN os
    BY DEF Seen
  <1>8. \A c \in listed : /\ OfferingsOf(c, groups) \subseteq found
                          /\ \A o \in OfferingsOf(c, groups) : groups.offerings[o].course = c
    BY DEF OfferingsOf
  <1>9. \A c \in listed : entry(c) \in Added
    <2>1. TAKE c \in listed
    <2> DEFINE new == [o \in OfferingsOf(c, groups) |-> ListedOffering(groups, o)]
    <2>2. new \in [OfferingsOf(c, groups) -> ActiveRow] /\ OfferingsOf(c, groups) \subseteq OfferingCodes
      BY <1>4, <1>8
    <2>3. new \in ActiveTables
      BY <2>2 DEF ActiveTables, Tables
    <2> HIDE DEF new
    <2>4. [row |-> ListedCourse(groups, c), offerings |-> new] \in Added
      BY <1>3, <2>3 DEF Added
    <2>5. QED
      BY <2>4 DEF new
  <1>10. cadded \in Tables(CourseCodes, Added)
    <2> HIDE DEF entry
    <2>1. cadded \in [listed \ DOMAIN cs -> Added]
      BY <1>9
    <2>2. QED
      BY <1>2, <2>1 DEF Tables
  <1>11. cupdated \in Tables(CourseCodes, CourseChanges)
    <2>1. cupdated \in [updated -> CourseChanges]
      BY <1>3, <1>5, CourseChangeIs
    <2>2. updated \subseteq CourseCodes
      BY <1>2
    <2>3. QED
      BY <2>1, <2>2 DEF Tables
  <1>12. cremoved \in Tables(CourseCodes, SUBSET OfferingCodes)
    <2> DEFINE D == {c \in DOMAIN cs \ listed : cs[c].is_active}
    <2>1. cremoved \in [D -> SUBSET OfferingCodes] /\ D \subseteq CourseCodes
      BY <1>5, <1>6, <1>7
    <2>2. QED
      BY <2>1 DEF Tables
  <1>13. oadded \in Tables(OfferingCodes, ActiveRow)
    <2>1. oadded \in [ofKnown \ Seen(cs, os) -> ActiveRow]
      BY <1>4
    <2>2. ofKnown \ Seen(cs, os) \subseteq OfferingCodes
      BY <1>4
    <2>3. QED
      BY <2>1, <2>2 DEF Tables
  <1>14. oupdated \in Tables(OfferingCodes, OfferingUpdates)
    <2>1. oupdated \in [moved -> OfferingUpdates]
      BY <1>4, <1>6, <1>7, OfferingChangeIs
    <2>2. moved \subseteq OfferingCodes
      BY <1>4
    <2>3. QED
      BY <2>1, <2>2 DEF Tables
  <1>15. oremoved \in Tables(OfferingCodes, CourseCodes)
    <2> DEFINE D == {o \in Seen(cs, os) \ found : os[o].is_active}
    <2>1. \A o \in D : os[o].course \in CourseCodes /\ o \in OfferingCodes
      BY <1>6, <1>7 DEF OfferingRow
    <2>2. oremoved \in [D -> CourseCodes] /\ D \subseteq OfferingCodes
      BY <2>1
    <2>3. QED
      BY <2>2 DEF Tables
  <1>16. \A c \in DOMAIN cadded : \A o \in DOMAIN cadded[c].offerings :
            cadded[c].offerings[o].course = c /\ o \notin DOMAIN oadded
    BY <1>4, <1>8
  <1>17. \A c \in DOMAIN cupdated : CourseChangeOK(cupdated[c])
    BY <1>3, <1>5, CourseChangeIs
  <1>18. \A o \in DOMAIN oupdated : OfferingChangeOK(oupdated[o])
    BY <1>4, <1>6, <1>7, OfferingChangeIs
  <1> HIDE DEF ch, cadded, cupdated, cremoved, oadded, oupdated, oremoved
  <1>19. ch \in ChangesetShape
    BY <1>1, <1>10, <1>11, <1>12, <1>13, <1>14, <1>15 DEF ChangesetShape
  <1>20. ChangesetGood(ch)
    BY <1>1, <1>16, <1>17, <1>18 DEF ChangesetGood
  <1>21. QED
    BY <1>19, <1>20 DEF ch

LEMMA FilterGood ==
    ASSUME NEW ch \in ChangesetShape, ChangesetGood(ch), NEW skip
    PROVE  /\ FilterChangeset(ch, skip) \in ChangesetShape
           /\ ChangesetGood(FilterChangeset(ch, skip))
           /\ \A s \in Sections :
                 /\ DOMAIN FilterChangeset(ch, skip)[s] =
                       {c \in DOMAIN ch[s] : <<s, c>> \notin skip}
                 /\ \A c \in DOMAIN FilterChangeset(ch, skip)[s] :
                       FilterChangeset(ch, skip)[s][c] = ch[s][c]
  <1> DEFINE kept(s) == {c \in DOMAIN ch[s] : <<s, c>> \notin skip}
             part(s) == [c \in kept(s) |-> ch[s][c]]
             new == FilterChangeset(ch, skip)
  <1>1. new = [s \in Sections |-> part(s)]
    BY DEF FilterChangeset
  <1>2. \A s : kept(s) \subseteq DOMAIN ch[s]
    OBVIOUS
  <1>3. /\ ch["courses_added"] \in Tables(CourseCodes, Added)
        /\ ch["courses_updated"] \in Tables(CourseCodes, CourseChanges)
        /\ ch["courses_removed"] \in Tables(CourseCodes, SUBSET OfferingCodes)
        /\ ch["offerings_added"] \in Tables(OfferingCodes, ActiveRow)
        /\ ch["offerings_updated"] \in Tables(OfferingCodes, OfferingUpdates)
        /\ ch["offerings_removed"] \in Tables(OfferingCodes, CourseCodes)
    BY DEF ChangesetShape
  <1>4. /\ part("courses_added") \in Tables(CourseCodes, Added)
        /\ part("courses_updated") \in Tables(CourseCodes, CourseChanges)
        /\ part("courses_removed") \in Tables(CourseCodes, SUBSET OfferingCodes)
        /\ part("offerings_added") \in Tables(OfferingCodes, ActiveRow)
        /\ part("offerings_updated") \in Tables(OfferingCodes, OfferingUpdates)
        /\ part("offerings_removed") \in Tables(OfferingCodes, CourseCodes)
    BY <1>2, <1>3, PartIsTable
  <1>5. \A s : DOMAIN part(s) = kept(s) /\ \A c \in kept(s) : part(s)[c] = ch[s][c]
    OBVIOUS
  <1> HIDE DEF kept, part
  <1>6. new \in ChangesetShape
    BY <1>1, <1>4 DEF Sections, ChangesetShape
  <1>7. ChangesetGood(new)
    BY <1>1, <1>2, <1>5 DEF Sections, ChangesetGood
  <1>8. QED
    BY <1>1, <1>5, <1>6, <1>7 DEF kept

-----------------------------------------------------------------------------
(* The inductive invariant. *)

RunShape == [status : RunStatuses, changeset : ChangesetShape]
TaskShape == [step : {"none", "crawl", "diff", "done", "dead", "lost"}, groups : GroupShape,
              courses : CourseTables]
RequestShape == [op : {"none", "start", "approve", "reject"}, run : 0..MaxRuns,
                 skip : SUBSET (Sections \X (CourseCodes \union OfferingCodes)),
                 step : {"none", "open", "read", "decide"},
                 courses : CourseTables, offerings : OfferingTables]

Shapes ==
    /\ courses \in CourseTables
    /\ offerings \in OfferingTables
    /\ runs \in [RunIds -> RunShape]
    /\ tasks \in [RunIds -> TaskShape]
    /\ requests \in [Requests -> RequestShape]

(* The live offerings: their two status columns agree, their course is there. *)
OfferingsOK ==
    \A o \in DOMAIN offerings :
        Consistent(offerings[o]) /\ offerings[o].course \in DOMAIN courses

(* A run and its task: the task works on a run that is running, and a run    *)
(* awaiting review is out of its hands.                                      *)
RunAndTask(run, task) ==
    /\ run.status = "none" <=> task.step = "none"
    /\ task.step \in {"crawl", "diff"} => run.status = "running"
    /\ run.status = "pending" => task.step = "done"
    /\ ChangesetGood(run.changeset)

RunsOK == \A r \in RunIds : RunAndTask(runs[r], tasks[r])

(* A review is of a run that was staged, and what it read of the catalog is   *)
(* consistent and names courses that are still there.                        *)
RequestOK(request, ts, cs) ==
    /\ request.op \in {"approve", "reject"} =>
          request.run \in RunIds /\ ts[request.run].step = "done"
    /\ DOMAIN request.courses \subseteq DOMAIN cs
    /\ \A o \in DOMAIN request.offerings : Consistent(request.offerings[o])

RequestsOK == \A q \in Requests : RequestOK(requests[q], tasks, courses)

(* Every open run was opened by a request that passed the check when there   *)
(* was none, and each request opens one.                                     *)
Starting == {q \in Requests : requests[q].op = "start"}
OpenOrStarting == Cardinality(OpenRuns) + Cardinality(Starting) <= Cardinality(Requests)

CatalogIInv == Shapes /\ OfferingsOK /\ RunsOK /\ RequestsOK /\ OpenOrStarting

-----------------------------------------------------------------------------
(* Applying a changeset: one row. *)

(* A course that a change overrides. *)
LEMMA TargetCourseIs ==
    ASSUME NEW ch \in ChangesetShape, ChangesetGood(ch), NEW c, NEW row \in CourseRow
    PROVE  TargetCourse(ch, c, row) \in CourseRow
  <1> DEFINE updated == IF c \in DOMAIN ch.courses_updated
                        THEN Over(row, ch.courses_updated[c]) ELSE row
  <1>1. updated \in CourseRow
    <2>1. CASE c \notin DOMAIN ch.courses_updated
      BY <2>1
    <2>2. CASE c \in DOMAIN ch.courses_updated
      <3> DEFINE change == ch.courses_updated[c]
      <3>1. change \in CourseChanges /\ CourseChangeOK(change)
        <4>1. ch.courses_updated \in Tables(CourseCodes, CourseChanges)
          BY DEF ChangesetShape
        <4>2. QED
          BY <2>2, <4>1, TableIs DEF ChangesetGood
      <3> HIDE DEF change
      <3>2. DOMAIN change \subseteq CourseFields
        BY <3>1, TableIs DEF CourseChanges
      <3>3. DOMAIN row = CourseFields /\ row["data"] \in CourseData /\ row["is_active"] \in BOOLEAN
        BY DEF CourseRow, CourseFields
      <3>4. Over(row, change) =
               [data |-> IF "data" \in DOMAIN change THEN change["data"] ELSE row["data"],
                is_active |-> IF "is_active" \in DOMAIN change THEN change["is_active"]
                              ELSE row["is_active"]]
        BY <3>2, <3>3 DEF Over, CourseFields
      <3>5. Over(row, change) \in CourseRow
        BY <3>1, <3>3, <3>4 DEF CourseChangeOK, CourseRow
      <3>6. QED
        BY <2>2, <3>5 DEF change
    <2>3. QED
      BY <2>1, <2>2
  <1>2. TargetCourse(ch, c, row) = IF c \in DOMAIN ch.courses_removed
                                   THEN [updated EXCEPT !.is_active = FALSE] ELSE updated
    BY DEF TargetCourse
  <1> HIDE DEF updated
  <1>3. QED
    BY <1>1, <1>2 DEF CourseRow

LEMMA WrittenCourse ==
    ASSUME NEW current \in CourseRow, NEW seen \in CourseRow, NEW target \in CourseRow
    PROVE  /\ Written(current, seen, target) \in CourseRow
           /\ target = seen => Written(current, seen, target) = current
  BY DEF Written, CourseRow

(* An offering that is overridden or deactivated keeps its course, and its   *)
(* two status columns still agree.                                           *)
LEMMA TargetOfferingIs ==
    ASSUME NEW ch \in ChangesetShape, ChangesetGood(ch), NEW o, NEW row \in OfferingRow,
           Consistent(row)
    PROVE  /\ TargetOffering(ch, o, row) \in OfferingRow
           /\ TargetOffering(ch, o, row).course = row.course
           /\ Consistent(TargetOffering(ch, o, row))
  <1> DEFINE updated == IF o \in DOMAIN ch.offerings_updated
                        THEN Over(row, ch.offerings_updated[o]) ELSE row
  <1>1. updated \in OfferingRow /\ updated.course = row.course /\ Consistent(updated)
    <2>1. CASE o \notin DOMAIN ch.offerings_updated
      BY <2>1
    <2>2. CASE o \in DOMAIN ch.offerings_updated
      <3> DEFINE change == ch.offerings_updated[o]
      <3>1. change \in OfferingUpdates /\ OfferingChangeOK(change)
        <4>1. ch.offerings_updated \in Tables(OfferingCodes, OfferingUpdates)
          BY DEF ChangesetShape
        <4>2. QED
          BY <2>2, <4>1, TableIs DEF ChangesetGood
      <3> HIDE DEF change
      <3>2. DOMAIN change \subseteq OfferingFields
        BY <3>1, TableIs DEF OfferingUpdates
      <3>3. /\ DOMAIN row = {"course", "data", "status", "is_active"}
            /\ row["course"] \in CourseCodes /\ row["data"] \in OfferingData
            /\ row["status"] \in {"active", "cancelled"} /\ row["is_active"] \in BOOLEAN
            /\ row["status"] = "cancelled" <=> row["is_active"] = FALSE
        BY DEF OfferingRow, Consistent
      <3> DEFINE pick(f) == IF f \in DOMAIN change THEN change[f] ELSE row[f]
      <3>4. Over(row, change) =
               [course |-> row["course"], data |-> pick("data"), status |-> pick("status"),
                is_active |-> pick("is_active")]
        BY <3>2, <3>3 DEF Over, OfferingFields
      <3>5. /\ pick("data") \in OfferingData
            /\ pick("status") \in {"active", "cancelled"} /\ pick("is_active") \in BOOLEAN
            /\ pick("status") = "cancelled" <=> pick("is_active") = FALSE
        BY <3>1, <3>3 DEF OfferingChangeOK
      <3> HIDE DEF pick
      <3>6. /\ Over(row, change) \in OfferingRow /\ Over(row, change).course = row.course
            /\ Consistent(Over(row, change))
        BY <3>3, <3>4, <3>5 DEF OfferingRow, Consistent
      <3>7. QED
        BY <2>2, <3>6 DEF change
    <2>3. QED
      BY <2>1, <2>2
  <1>2. TargetOffering(ch, o, row) =
            IF o \in DOMAIN ch.offerings_removed THEN Deactivated(updated) ELSE updated
    BY DEF TargetOffering
  <1> HIDE DEF updated
  <1>3. /\ Deactivated(updated) \in OfferingRow /\ Deactivated(updated).course = updated.course
        /\ Consistent(Deactivated(updated))
    BY <1>1 DEF Deactivated, OfferingRow, Consistent
  <1>4. QED
    BY <1>1, <1>2, <1>3

(* Both status columns are written, or neither is. *)
LEMMA WrittenOffering ==
    ASSUME NEW current \in OfferingRow, NEW seen \in OfferingRow, NEW target \in OfferingRow,
           Consistent(current), Consistent(seen), Consistent(target),
           target.course = seen.course
    PROVE  /\ Written(current, seen, target) \in OfferingRow
           /\ Written(current, seen, target).course = current.course
           /\ Consistent(Written(current, seen, target))
           /\ target = seen => Written(current, seen, target) = current
  BY DEF Written, OfferingRow, Consistent

(* An offering that is inserted is active, and its course is there. *)
LEMMA InsertedIs ==
    ASSUME NEW ch \in ChangesetShape, ChangesetGood(ch), NEW seenCourses,
           NEW o \in Inserted(ch, seenCourses)
    PROVE  /\ o \in OfferingCodes /\ InsertedRow(ch, o) \in ActiveRow
           /\ InsertedRow(ch, o).course \in seenCourses \union DOMAIN ch.courses_added
           /\ \/ o \in DOMAIN ch.offerings_added
              \/ InsertedRow(ch, o).course \in DOMAIN ch.courses_added
  <1>1. /\ ch.courses_added \in Tables(CourseCodes, Added)
        /\ ch.offerings_added \in Tables(OfferingCodes, ActiveRow)
    BY DEF ChangesetShape
  <1>2. CASE WithNewCourse(ch, o) # {}
    <2> DEFINE c == CHOOSE c \in WithNewCourse(ch, o) : TRUE
    <2>1. c \in WithNewCourse(ch, o)
      BY <1>2
    <2> HIDE DEF c
    <2>2. c \in DOMAIN ch.courses_added /\ o \in DOMAIN ch.courses_added[c].offerings
      BY <2>1 DEF WithNewCourse
    <2>3. /\ o \notin DOMAIN ch.offerings_added
          /\ ch.courses_added[c].offerings[o].course = c
      BY <2>2 DEF ChangesetGood
    <2>4. InsertedRow(ch, o) = ch.courses_added[c].offerings[o]
      BY <2>3 DEF InsertedRow, c
    <2>5. ch.courses_added[c] \in Added
      BY <1>1, <2>2, TableIs
    <2>6. ch.courses_added[c].offerings \in Tables(OfferingCodes, ActiveRow)
      BY <2>5 DEF Added, ActiveTables
    <2>7. ch.courses_added[c].offerings[o] \in ActiveRow /\ o \in OfferingCodes
      BY <2>2, <2>6, TableIs
    <2>8. QED
      BY <2>2, <2>3, <2>4, <2>7
  <1>3. CASE WithNewCourse(ch, o) = {}
    <2>1. /\ o \in DOMAIN ch.offerings_added
          /\ ch.offerings_added[o].course \in seenCourses \union DOMAIN ch.courses_added
      BY <1>3 DEF Inserted
    <2>2. ch.offerings_added[o] \in ActiveRow /\ o \in OfferingCodes
      BY <1>1, <2>1, TableIs
    <2>3. QED
      BY <2>1, <2>2 DEF InsertedRow
  <1>4. QED
    BY <1>2, <1>3

-----------------------------------------------------------------------------
(* Applying a changeset: the tables. *)

LEMMA ApplyCourses ==
    ASSUME NEW ch \in ChangesetShape, ChangesetGood(ch),
           NEW seen \in CourseTables, NEW cs \in CourseTables
    PROVE  /\ ApplyToCourses(ch, seen, cs) \in CourseTables
           /\ DOMAIN ApplyToCourses(ch, seen, cs) = DOMAIN cs \union DOMAIN ch.courses_added
           /\ \A c \in DOMAIN cs :
                 c \notin DOMAIN ch.courses_updated \union DOMAIN ch.courses_removed
                 => ApplyToCourses(ch, seen, cs)[c] = cs[c]
  <1> DEFINE D == DOMAIN cs \union DOMAIN ch.courses_added
             row(c) == IF c \notin DOMAIN cs THEN ch.courses_added[c].row
                       ELSE IF c \in DOMAIN seen
                            THEN Written(cs[c], seen[c], TargetCourse(ch, c, seen[c]))
                            ELSE cs[c]
  <1>1. ApplyToCourses(ch, seen, cs) = [c \in D |-> row(c)]
    BY DEF ApplyToCourses
  <1>2. DOMAIN cs \subseteq CourseCodes /\ \A c \in DOMAIN cs : cs[c] \in CourseRow
    BY TableIs DEF CourseTables
  <1>3. \A c \in DOMAIN seen : seen[c] \in CourseRow
    BY TableIs DEF CourseTables
  <1>4. /\ DOMAIN ch.courses_added \subseteq CourseCodes
        /\ \A c \in DOMAIN ch.courses_added : ch.courses_added[c].row \in CourseRow
    <2>1. ch.courses_added \in Tables(CourseCodes, Added)
      BY DEF ChangesetShape
    <2>2. /\ DOMAIN ch.courses_added \subseteq CourseCodes
          /\ \A c \in DOMAIN ch.courses_added : ch.courses_added[c] \in Added
      BY <2>1, TableIs
    <2>3. QED
      BY <2>2 DEF Added
  <1>5. \A c \in DOMAIN seen : TargetCourse(ch, c, seen[c]) \in CourseRow
    BY <1>3, TargetCourseIs
  <1>6. \A c \in D : row(c) \in CourseRow
    BY <1>2, <1>3, <1>4, <1>5, WrittenCourse
  <1>7. \A c \in DOMAIN cs :
           c \notin DOMAIN ch.courses_updated \union DOMAIN ch.courses_removed
           => row(c) = cs[c]
    <2>1. SUFFICES ASSUME NEW c \in DOMAIN cs, c \in DOMAIN seen,
                          c \notin DOMAIN ch.courses_updated, c \notin DOMAIN ch.courses_removed
                   PROVE  Written(cs[c], seen[c], TargetCourse(ch, c, seen[c])) = cs[c]
      OBVIOUS
    <2>2. TargetCourse(ch, c, seen[c]) = seen[c]
      BY <2>1 DEF TargetCourse
    <2>3. QED
      BY <1>2, <1>3, <2>1, <2>2, WrittenCourse
  <1>8. \A c \in DOMAIN cs : c \in D
    OBVIOUS
  <1>9. D \subseteq CourseCodes
    BY <1>2, <1>4
  <1> HIDE DEF row, D
  <1>10. [c \in D |-> row(c)] \in CourseTables
    BY <1>6, <1>9 DEF CourseTables, Tables
  <1>11. QED
    BY <1>1, <1>7, <1>8, <1>10 DEF D

LEMMA ApplyOfferings ==
    ASSUME NEW ch \in ChangesetShape, ChangesetGood(ch), NEW seenCourses,
           NEW seen \in OfferingTables, NEW os \in OfferingTables, NEW known,
           \A o \in DOMAIN seen : Consistent(seen[o]),
           \A o \in DOMAIN os : Consistent(os[o]) /\ os[o].course \in known,
           seenCourses \subseteq known
    PROVE  LET new == ApplyToOfferings(ch, seenCourses, seen, os) IN
           /\ new \in OfferingTables
           /\ \A o \in DOMAIN new :
                 /\ Consistent(new[o])
                 /\ new[o].course \in known \union DOMAIN ch.courses_added
                 /\ \/ o \in DOMAIN os /\ new[o] = os[o]
                    \/ o \in DOMAIN ch.offerings_added \union DOMAIN ch.offerings_updated
                             \union DOMAIN ch.offerings_removed
                    \/ new[o].course \in DOMAIN ch.courses_added
  <1> DEFINE D == DOMAIN os \union Inserted(ch, seenCourses)
             row(o) == IF o \notin DOMAIN os THEN InsertedRow(ch, o)
                       ELSE IF o \in DOMAIN seen
                            THEN Written(os[o], seen[o], TargetOffering(ch, o, seen[o]))
                            ELSE os[o]
             new == ApplyToOfferings(ch, seenCourses, seen, os)
  <1>1. new = [o \in D |-> row(o)]
    BY DEF ApplyToOfferings
  <1>2. DOMAIN os \subseteq OfferingCodes /\ \A o \in DOMAIN os : os[o] \in OfferingRow
    BY TableIs DEF OfferingTables
  <1>3. \A o \in DOMAIN seen : seen[o] \in OfferingRow
    BY TableIs DEF OfferingTables
  <1>4. ASSUME NEW o \in D
        PROVE  /\ o \in OfferingCodes /\ row(o) \in OfferingRow /\ Consistent(row(o))
               /\ row(o).course \in known \union DOMAIN ch.courses_added
               /\ \/ o \in DOMAIN os /\ row(o) = os[o]
                  \/ o \in DOMAIN ch.offerings_added \union DOMAIN ch.offerings_updated
                           \union DOMAIN ch.offerings_removed
                  \/ row(o).course \in DOMAIN ch.courses_added
    <2>1. CASE o \notin DOMAIN os
      <3>1. o \in Inserted(ch, seenCourses) /\ row(o) = InsertedRow(ch, o)
        BY <2>1
      <3> HIDE DEF row, D
      <3>2. /\ o \in OfferingCodes /\ row(o) \in ActiveRow
            /\ row(o).course \in seenCourses \union DOMAIN ch.courses_added
            /\ \/ o \in DOMAIN ch.offerings_added
               \/ row(o).course \in DOMAIN ch.courses_added
        BY <3>1, InsertedIs
      <3>3. row(o) \in OfferingRow /\ Consistent(row(o))
        BY <3>2 DEF ActiveRow, OfferingRow, Consistent
      <3>4. QED
        BY <3>2, <3>3
    <2>2. CASE o \in DOMAIN os /\ o \notin DOMAIN seen
      BY <1>2, <2>2
    <2>3. CASE o \in DOMAIN os /\ o \in DOMAIN seen
      <3> DEFINE target == TargetOffering(ch, o, seen[o])
      <3>1. row(o) = Written(os[o], seen[o], target)
        BY <2>3
      <3>2. target \in OfferingRow /\ target.course = seen[o].course /\ Consistent(target)
        BY <1>3, <2>3, TargetOfferingIs
      <3>3. o \in DOMAIN ch.offerings_updated \union DOMAIN ch.offerings_removed
            \/ target = seen[o]
        BY DEF TargetOffering
      <3> HIDE DEF row, target
      <3>4. /\ row(o) \in OfferingRow /\ row(o).course = os[o].course /\ Consistent(row(o))
            /\ target = seen[o] => row(o) = os[o]
        BY <1>2, <1>3, <2>3, <3>1, <3>2, WrittenOffering
      <3>5. QED
        BY <1>2, <2>3, <3>3, <3>4
    <2>4. QED
      BY <2>1, <2>2, <2>3
  <1> HIDE DEF row, D
  <1>5. [o \in D |-> row(o)] \in OfferingTables
    BY <1>4 DEF OfferingTables, Tables
  <1>6. DOMAIN new = D /\ \A o \in D : new[o] = row(o)
    BY <1>1
  <1>7. new \in OfferingTables
    BY <1>1, <1>5
  <1> HIDE DEF new
  <1>8. QED
    BY <1>4, <1>6, <1>7 DEF new

(* What a reviewer may skip. *)
LEMMA KeysAre ==
    ASSUME NEW ch \in ChangesetShape
    PROVE  Keys(ch) \subseteq Sections \X (CourseCodes \union OfferingCodes)
  <1>1. /\ ch["courses_added"] \in Tables(CourseCodes, Added)
        /\ ch["courses_updated"] \in Tables(CourseCodes, CourseChanges)
        /\ ch["courses_removed"] \in Tables(CourseCodes, SUBSET OfferingCodes)
        /\ ch["offerings_added"] \in Tables(OfferingCodes, ActiveRow)
        /\ ch["offerings_updated"] \in Tables(OfferingCodes, OfferingUpdates)
        /\ ch["offerings_removed"] \in Tables(OfferingCodes, CourseCodes)
    BY DEF ChangesetShape
  <1>2. /\ DOMAIN ch["courses_added"] \subseteq CourseCodes
        /\ DOMAIN ch["courses_updated"] \subseteq CourseCodes
        /\ DOMAIN ch["courses_removed"] \subseteq CourseCodes
        /\ DOMAIN ch["offerings_added"] \subseteq OfferingCodes
        /\ DOMAIN ch["offerings_updated"] \subseteq OfferingCodes
        /\ DOMAIN ch["offerings_removed"] \subseteq OfferingCodes
    BY <1>1, TableIs
  <1>3. \A s \in Sections : DOMAIN ch[s] \subseteq CourseCodes \union OfferingCodes
    BY <1>2 DEF Sections
  <1>4. QED
    BY <1>3 DEF Keys

-----------------------------------------------------------------------------
(* Counting. *)

LEMMA RunIdsFinite == IsFiniteSet(RunIds) /\ IsFiniteSet(OpenRuns) /\ IsFiniteSet(Starting)
                      /\ Cardinality(OpenRuns) \in Nat /\ Cardinality(Starting) \in Nat
                      /\ Cardinality(Requests) \in Nat
  <1>1. IsFiniteSet(RunIds)
    BY SyncAssumption, FS_Interval DEF RunIds
  <1>2. OpenRuns \subseteq RunIds /\ Starting \subseteq Requests
    BY DEF OpenRuns, Starting
  <1>3. IsFiniteSet(OpenRuns) /\ IsFiniteSet(Starting)
    BY <1>1, <1>2, SyncAssumption, FS_Subset
  <1>4. QED
    BY <1>1, <1>3, SyncAssumption, FS_CardinalityType

LEMMA FewerOpen ==
    ASSUME OpenOrStarting, OpenRuns' \subseteq OpenRuns, Starting' \subseteq Starting
    PROVE  OpenOrStarting'
  <1>1. Cardinality(OpenRuns') <= Cardinality(OpenRuns) /\ Cardinality(OpenRuns') \in Nat
    BY RunIdsFinite, FS_Subset, FS_CardinalityType
  <1>2. Cardinality(Starting') <= Cardinality(Starting) /\ Cardinality(Starting') \in Nat
    BY RunIdsFinite, FS_Subset, FS_CardinalityType
  <1>3. QED
    BY <1>1, <1>2, RunIdsFinite DEF OpenOrStarting

LEMMA NoneOpen ==
    ASSUME OpenRuns' = {}
    PROVE  OpenOrStarting'
  <1>1. Starting' \subseteq Requests
    BY DEF Starting
  <1>2. Cardinality(Starting') <= Cardinality(Requests) /\ Cardinality(Starting') \in Nat
    BY <1>1, SyncAssumption, FS_Subset, FS_CardinalityType
  <1>3. Cardinality(OpenRuns') = 0
    BY FS_EmptySet
  <1>4. QED
    BY <1>2, <1>3, RunIdsFinite DEF OpenOrStarting

LEMMA OneOpened ==
    ASSUME OpenOrStarting, NEW q \in Starting, NEW r,
           OpenRuns' \subseteq OpenRuns \union {r}, Starting' \subseteq Starting \ {q}
    PROVE  OpenOrStarting'
  <1>1. /\ IsFiniteSet(OpenRuns \union {r})
        /\ Cardinality(OpenRuns \union {r}) <= Cardinality(OpenRuns) + 1
    BY RunIdsFinite, FS_AddElement
  <1>2. Cardinality(OpenRuns') <= Cardinality(OpenRuns) + 1 /\ Cardinality(OpenRuns') \in Nat
    <2>1. Cardinality(OpenRuns') <= Cardinality(OpenRuns \union {r})
      BY <1>1, FS_Subset
    <2>2. IsFiniteSet(OpenRuns')
      BY <1>1, FS_Subset
    <2>3. Cardinality(OpenRuns') \in Nat /\ Cardinality(OpenRuns \union {r}) \in Nat
      BY <1>1, <2>2, FS_CardinalityType
    <2>4. QED
      BY <1>1, <2>1, <2>3, RunIdsFinite
  <1>3. /\ IsFiniteSet(Starting \ {q})
        /\ Cardinality(Starting \ {q}) = Cardinality(Starting) - 1
    BY RunIdsFinite, FS_RemoveElement
  <1>4. Cardinality(Starting') <= Cardinality(Starting) - 1 /\ Cardinality(Starting') \in Nat
    <2>1. Cardinality(Starting') <= Cardinality(Starting \ {q})
      BY <1>3, FS_Subset
    <2>2. IsFiniteSet(Starting')
      BY <1>3, FS_Subset
    <2>3. QED
      BY <1>3, <2>1, <2>2, FS_CardinalityType
  <1>5. QED
    BY <1>2, <1>4, RunIdsFinite DEF OpenOrStarting

-----------------------------------------------------------------------------
(* The steps. *)

LEMMA NothingCrawled == NoTask.groups \in Groups
  <1>1. EmptyTable \in Tables(CourseCodes, CourseData)
    BY EmptyIsTable
  <1>2. EmptyTable \in Tables(Scheduled, [course : DOMAIN EmptyTable, data : OfferingData])
    BY EmptyIsTable
  <1> DEFINE Listings(cards) == Tables(Scheduled, [course : DOMAIN cards, data : OfferingData])
             G(cards) == {CourseGroups(cards, rows) : rows \in Listings(cards)}
  <1>3. EmptyTable \in Listings(EmptyTable)
    BY <1>2
  <1>4. Groups = UNION {G(cards) : cards \in Tables(CourseCodes, CourseData)}
    BY DEF Groups
  <1> HIDE DEF Listings
  <1>5. CourseGroups(EmptyTable, EmptyTable) \in G(EmptyTable)
    BY <1>3
  <1> HIDE DEF G
  <1>6. CourseGroups(EmptyTable, EmptyTable) \in Groups
    BY <1>1, <1>4, <1>5
  <1>7. QED
    BY <1>6 DEF NoTask

LEMMA NoGroups == NoTask \in TaskShape /\ NoTask.step = "none"
  <1>1. CourseGroups(EmptyTable, EmptyTable) \in Groups
    BY NothingCrawled DEF NoTask
  <1>2. CourseGroups(EmptyTable, EmptyTable) \in GroupShape
    BY <1>1, GroupsShape
  <1>3. EmptyTable \in CourseTables
    BY EmptyIsTable DEF CourseTables
  <1> HIDE DEF CourseTables
  <1>4. QED
    BY <1>2, <1>3 DEF NoTask, TaskShape

LEMMA IdleIs == /\ Idle \in RequestShape /\ Idle.op = "none"
                /\ \A ts, cs : RequestOK(Idle, ts, cs)
  <1>1. EmptyTable \in CourseTables /\ EmptyTable \in OfferingTables /\ DOMAIN EmptyTable = {}
    BY EmptyIsTable DEF CourseTables, OfferingTables
  <1>2. 0 \in 0..MaxRuns
    BY SyncAssumption
  <1>3. Idle \in RequestShape
    BY <1>1, <1>2 DEF Idle, RequestShape
  <1>4. QED
    BY <1>1, <1>3 DEF Idle, RequestOK

(* A step that only changes a request, or what it has read. *)
LEMMA SetRequest ==
    ASSUME CatalogIInv, NEW q \in Requests, NEW x \in RequestShape,
           requests' = [requests EXCEPT ![q] = x],
           UNCHANGED <<courses, offerings, runs, tasks>>,
           RequestOK(x, tasks, courses),
           x.op = "start" => OpenRuns = {} \/ requests[q].op = "start"
    PROVE  CatalogIInv'
  <1>1. Shapes'
    BY DEF CatalogIInv, Shapes
  <1>2. OfferingsOK' /\ RunsOK'
    BY DEF CatalogIInv, OfferingsOK, RunsOK
  <1>3. RequestsOK'
    BY DEF CatalogIInv, RequestsOK, Shapes
  <1>4. OpenOrStarting'
    <2>1. OpenRuns' = OpenRuns
      BY DEF OpenRuns
    <2>2. CASE x.op = "start" /\ OpenRuns = {}
      BY <2>1, <2>2, NoneOpen
    <2>3. CASE x.op # "start" \/ requests[q].op = "start"
      <3>1. Starting' \subseteq Starting
        BY <2>3 DEF Starting, CatalogIInv, Shapes
      <3>2. QED
        BY <2>1, <3>1, FewerOpen DEF CatalogIInv
    <2>4. QED
      BY <2>2, <2>3
  <1>5. QED
    BY <1>1, <1>2, <1>3, <1>4 DEF CatalogIInv

(* A step of the task of a run. *)
LEMMA SetTask ==
    ASSUME CatalogIInv, NEW r \in RunIds, NEW x \in RunShape, NEW y \in TaskShape,
           runs' = [runs EXCEPT ![r] = x], tasks' = [tasks EXCEPT ![r] = y],
           UNCHANGED <<courses, offerings, requests>>,
           RunAndTask(x, y), tasks[r].step # "done",
           x.status \in Open => runs[r].status \in Open
    PROVE  CatalogIInv'
  <1>1. Shapes'
    BY DEF CatalogIInv, Shapes
  <1>2. OfferingsOK'
    BY DEF CatalogIInv, OfferingsOK
  <1>3. RunsOK'
    BY DEF CatalogIInv, RunsOK, Shapes
  <1>4. RequestsOK'
    BY DEF CatalogIInv, RequestsOK, RequestOK, Shapes
  <1>5. OpenOrStarting'
    <2>1. OpenRuns' \subseteq OpenRuns
      BY DEF OpenRuns, CatalogIInv, Shapes
    <2>2. Starting' \subseteq Starting
      BY DEF Starting
    <2>3. QED
      BY <2>1, <2>2, FewerOpen DEF CatalogIInv
  <1>6. QED
    BY <1>1, <1>2, <1>3, <1>4, <1>5 DEF CatalogIInv

LEMMA CatalogInit == Init => CatalogIInv
  <1> SUFFICES ASSUME Init PROVE CatalogIInv
    OBVIOUS
  <1> USE DEF Init
  <1>1. /\ courses \in CourseTables /\ DOMAIN courses = {}
        /\ offerings \in OfferingTables /\ DOMAIN offerings = {}
    BY EmptyIsTable DEF CourseTables, OfferingTables
  <1>2. NoRun \in RunShape /\ NoRun.status = "none" /\ ChangesetGood(NoRun.changeset)
    BY NoChangesGood DEF NoRun, RunShape, RunStatuses
  <1>3. Shapes
    BY <1>1, <1>2, NoGroups, IdleIs DEF Shapes
  <1>4. OfferingsOK
    BY <1>1 DEF OfferingsOK
  <1>5. RunsOK
    BY <1>2, NoGroups DEF RunsOK, RunAndTask
  <1>6. RequestsOK
    BY IdleIs DEF RequestsOK
  <1>7. OpenOrStarting
    <2>1. OpenRuns = {} /\ Starting = {}
      BY <1>2, IdleIs DEF OpenRuns, Starting, Open
    <2>2. Cardinality(OpenRuns) = 0 /\ Cardinality(Starting) = 0
      BY <2>1, FS_EmptySet
    <2>3. QED
      BY <2>2, RunIdsFinite DEF OpenOrStarting
  <1>8. QED
    BY <1>3, <1>4, <1>5, <1>6, <1>7 DEF CatalogIInv

LEMMA StepBeginStart ==
    ASSUME CatalogIInv, NEW q \in Requests, BeginStart(q)
    PROVE  CatalogIInv'
  <1> DEFINE x == [Idle EXCEPT !.op = "start", !.step = "open"]
  <1>1. x \in RequestShape
    BY IdleIs DEF RequestShape
  <1>2. RequestOK(x, tasks, courses)
    <2>1. RequestOK(Idle, tasks, courses)
      BY IdleIs
    <2>2. x.op = "start" /\ x.courses = Idle.courses /\ x.offerings = Idle.offerings
      BY DEF Idle
    <2>3. QED
      BY <2>1, <2>2 DEF RequestOK
  <1>3. /\ requests' = [requests EXCEPT ![q] = x] /\ OpenRuns = {}
        /\ UNCHANGED <<courses, offerings, runs, tasks>>
    BY DEF BeginStart, NoOpenRun
  <1> HIDE DEF x
  <1>4. QED
    BY <1>1, <1>2, <1>3, SetRequest

LEMMA StepOpenRun ==
    ASSUME CatalogIInv, NEW q \in Requests, NEW r \in RunIds, OpenRun(q, r)
    PROVE  CatalogIInv'
  <1>1. /\ requests[q].op = "start" /\ runs[r].status = "none"
        /\ runs' = [runs EXCEPT ![r].status = "running"]
        /\ tasks' = [tasks EXCEPT ![r].step = "crawl"]
        /\ requests' = [requests EXCEPT ![q] = Idle]
        /\ UNCHANGED <<courses, offerings>>
    BY DEF OpenRun, Opens
  <1>2. Shapes
    BY DEF CatalogIInv
  <1>3. Shapes'
    <2>1. runs' \in [RunIds -> RunShape]
      BY <1>1, <1>2 DEF Shapes, RunShape, RunStatuses
    <2>2. tasks' \in [RunIds -> TaskShape]
      BY <1>1, <1>2 DEF Shapes, TaskShape
    <2>3. requests' \in [Requests -> RequestShape]
      BY <1>1, <1>2, IdleIs DEF Shapes
    <2>4. QED
      BY <1>1, <1>2, <2>1, <2>2, <2>3 DEF Shapes
  <1>4. OfferingsOK'
    BY <1>1 DEF CatalogIInv, OfferingsOK
  <1>5. RunsOK'
    <2>1. runs'[r].status = "running" /\ tasks'[r].step = "crawl"
          /\ runs'[r].changeset = runs[r].changeset
      BY <1>1, <1>2 DEF Shapes, RunShape, TaskShape
    <2>2. \A k \in RunIds \ {r} : runs'[k] = runs[k] /\ tasks'[k] = tasks[k]
      BY <1>1, <1>2 DEF Shapes
    <2>3. QED
      BY <2>1, <2>2 DEF CatalogIInv, RunsOK, RunAndTask
  <1>6. RequestsOK'
    <2>1. tasks[r].step # "done"
      BY <1>1 DEF CatalogIInv, RunsOK, RunAndTask
    <2>2. \A k \in RunIds : tasks[k].step = "done" => tasks'[k] = tasks[k]
      BY <1>1, <1>2, <2>1 DEF Shapes
    <2>3. \A p \in Requests : requests'[p] = requests[p] \/ requests'[p] = Idle
      BY <1>1, <1>2 DEF Shapes
    <2>4. RequestsOK
      BY DEF CatalogIInv
    <2>5. \A x : RequestOK(x, tasks, courses) => RequestOK(x, tasks', courses')
      BY <1>1, <2>2 DEF RequestOK
    <2>6. QED
      BY <2>3, <2>4, <2>5, IdleIs DEF RequestsOK
  <1>7. OpenOrStarting'
    <2>1. OpenRuns' \subseteq OpenRuns \union {r}
      BY <1>1, <1>2 DEF OpenRuns, Shapes
    <2>2. q \in Starting /\ Starting' \subseteq Starting \ {q}
      BY <1>1, <1>2, IdleIs DEF Starting, Shapes
    <2>3. QED
      BY <2>1, <2>2, OneOpened DEF CatalogIInv
  <1>8. QED
    BY <1>3, <1>4, <1>5, <1>6, <1>7 DEF CatalogIInv

(* A run that fails, and the task that leaves it. *)
LEMMA StepFail ==
    ASSUME CatalogIInv, NEW r \in RunIds, tasks[r].step \in {"crawl", "diff"}, Fail(r),
           UNCHANGED <<courses, offerings, requests>>
    PROVE  CatalogIInv'
  <1> DEFINE x == [runs[r] EXCEPT !.status = "failed"]
             y == [NoTask EXCEPT !.step = "done"]
  <1>1. runs[r] \in RunShape /\ RunAndTask(runs[r], tasks[r])
    BY DEF CatalogIInv, Shapes, RunsOK
  <1>2. x \in RunShape /\ x.status = "failed" /\ x.changeset = runs[r].changeset
    BY <1>1 DEF RunShape, RunStatuses
  <1>3. y \in TaskShape /\ y.step = "done"
    BY NoGroups DEF TaskShape
  <1>4. runs' = [runs EXCEPT ![r] = x] /\ tasks' = [tasks EXCEPT ![r] = y]
    BY DEF Fail
  <1> HIDE DEF x, y
  <1>5. RunAndTask(x, y)
    BY <1>1, <1>2, <1>3 DEF RunAndTask
  <1>6. x.status \notin Open
    BY <1>2 DEF Open
  <1>7. QED
    BY <1>2, <1>3, <1>4, <1>5, <1>6, SetTask

LEMMA StepCrawl ==
    ASSUME CatalogIInv, NEW r \in RunIds, NEW groups \in Groups, Crawl(r, groups)
    PROVE  CatalogIInv'
  <1>1. tasks[r].step = "crawl" /\ UNCHANGED <<courses, offerings, requests>>
    BY DEF Crawl
  <1>2. CASE NothingFound(groups) /\ Fail(r)
    BY <1>1, <1>2, StepFail
  <1>3. CASE ~NothingFound(groups)
    <2> DEFINE y == [step |-> "diff", groups |-> groups, courses |-> courses]
    <2>1. tasks' = [tasks EXCEPT ![r] = y] /\ runs' = runs
      BY <1>3 DEF Crawl
    <2>2. groups \in GroupShape /\ courses \in CourseTables
      BY GroupsShape DEF CatalogIInv, Shapes
    <2>3. y \in TaskShape /\ y.step = "diff"
      BY <2>2 DEF TaskShape
    <2> HIDE DEF y
    <2>4. runs[r] \in RunShape /\ RunAndTask(runs[r], tasks[r])
      BY DEF CatalogIInv, Shapes, RunsOK
    <2>5. runs' = [runs EXCEPT ![r] = runs[r]]
      BY <2>1 DEF CatalogIInv, Shapes
    <2>6. RunAndTask(runs[r], y)
      BY <1>1, <2>3, <2>4 DEF RunAndTask
    <2>7. QED
      BY <1>1, <2>1, <2>3, <2>4, <2>5, <2>6, SetTask
  <1>4. QED
    BY <1>2, <1>3 DEF Crawl

LEMMA StepStage ==
    ASSUME CatalogIInv, NEW r \in RunIds, Stage(r)
    PROVE  CatalogIInv'
  <1> DEFINE ch == BuildChangeset(tasks[r].groups, tasks[r].courses, offerings)
             x == [status |-> "pending", changeset |-> ch]
             y == [tasks[r] EXCEPT !.step = "done", !.courses = EmptyTable]
  <1>1. /\ tasks[r] \in TaskShape /\ RunAndTask(runs[r], tasks[r])
        /\ offerings \in OfferingTables /\ \A o \in DOMAIN offerings : Consistent(offerings[o])
    BY DEF CatalogIInv, Shapes, RunsOK, OfferingsOK
  <1>2. tasks[r].groups \in GroupShape /\ tasks[r].courses \in CourseTables
    BY <1>1 DEF TaskShape
  <1>3. ch \in ChangesetShape /\ ChangesetGood(ch)
    BY <1>1, <1>2, BuildGood
  <1>4. /\ runs' = [runs EXCEPT ![r] = x] /\ tasks[r].step = "diff"
        /\ UNCHANGED <<courses, offerings, requests>>
    BY DEF Stage, Difference
  <1>5. tasks' = [tasks EXCEPT ![r] = y]
    BY DEF Stage, CatalogIInv, Shapes
  <1> HIDE DEF ch
  <1>6. x \in RunShape /\ x.status = "pending" /\ x.changeset = ch
    BY <1>3 DEF RunShape, RunStatuses
  <1>7. y \in TaskShape /\ y.step = "done"
    <2>1. EmptyTable \in CourseTables
      BY EmptyIsTable DEF CourseTables
    <2>2. QED
      BY <1>1, <2>1 DEF TaskShape
  <1> HIDE DEF x, y
  <1>8. RunAndTask(x, y)
    BY <1>3, <1>6, <1>7 DEF RunAndTask
  <1>9. runs[r].status \in Open
    BY <1>1, <1>4 DEF RunAndTask, Open
  <1>10. QED
    BY <1>4, <1>5, <1>6, <1>7, <1>8, <1>9, SetTask

(* A task that ends and leaves its run running: it dies, or cannot commit. *)
LEMMA StepLeavesRunning ==
    ASSUME CatalogIInv, NEW r \in RunIds, NEW step \in {"dead", "lost"},
           tasks[r].step \in {"crawl", "diff"}, LeavesRunning(r, step)
    PROVE  CatalogIInv'
  <1> DEFINE y == [NoTask EXCEPT !.step = step]
  <1>1. /\ tasks' = [tasks EXCEPT ![r] = y]
        /\ UNCHANGED <<courses, offerings, requests, runs>>
    BY DEF LeavesRunning
  <1>2. y \in TaskShape /\ y.step \in {"dead", "lost"}
    BY NoGroups DEF TaskShape
  <1> HIDE DEF y
  <1>3. runs[r] \in RunShape /\ RunAndTask(runs[r], tasks[r])
    BY DEF CatalogIInv, Shapes, RunsOK
  <1>4. runs' = [runs EXCEPT ![r] = runs[r]]
    BY <1>1 DEF CatalogIInv, Shapes
  <1>5. RunAndTask(runs[r], y)
    BY <1>1, <1>2, <1>3 DEF RunAndTask
  <1>6. QED
    BY <1>1, <1>2, <1>3, <1>4, <1>5, SetTask

LEMMA StepBeginReview ==
    ASSUME CatalogIInv, NEW q \in Requests, NEW r \in RunIds, NEW op \in {"approve", "reject"},
           NEW skip \in SUBSET Keys(runs[r].changeset), BeginReview(q, op, r, skip)
    PROVE  CatalogIInv'
  <1> DEFINE x == [Idle EXCEPT !.op = op, !.run = r, !.skip = skip,
                               !.step = IF op = "approve" THEN "read" ELSE "decide"]
  <1>1. /\ runs[r].status = "pending" /\ requests' = [requests EXCEPT ![q] = x]
        /\ UNCHANGED <<courses, offerings, runs, tasks>>
    BY DEF BeginReview
  <1>2. runs[r].changeset \in ChangesetShape /\ tasks[r].step = "done"
    BY <1>1 DEF CatalogIInv, Shapes, RunShape, RunsOK, RunAndTask
  <1>3. skip \in SUBSET (Sections \X (CourseCodes \union OfferingCodes))
    BY <1>2, KeysAre
  <1>4. r \in 0..MaxRuns
    BY SyncAssumption DEF RunIds
  <1>5. x \in RequestShape
    BY <1>3, <1>4, IdleIs DEF RequestShape
  <1>6. RequestOK(x, tasks, courses)
    <2>1. RequestOK(Idle, tasks, courses)
      BY IdleIs
    <2>2. x.op = op /\ x.run = r /\ x.courses = Idle.courses /\ x.offerings = Idle.offerings
      BY DEF Idle
    <2>3. QED
      BY <1>2, <2>1, <2>2 DEF RequestOK
  <1>7. x.op # "start"
    BY DEF Idle
  <1> HIDE DEF x
  <1>8. QED
    BY <1>1, <1>5, <1>6, <1>7, SetRequest

LEMMA StepReadCatalog ==
    ASSUME CatalogIInv, NEW q \in Requests, ReadCatalog(q)
    PROVE  CatalogIInv'
  <1> DEFINE x == [requests[q] EXCEPT !.step = "decide", !.courses = courses,
                                      !.offerings = offerings]
  <1>1. /\ requests[q] \in RequestShape /\ RequestOK(requests[q], tasks, courses)
        /\ courses \in CourseTables /\ offerings \in OfferingTables
        /\ \A o \in DOMAIN offerings : Consistent(offerings[o])
    BY DEF CatalogIInv, Shapes, RequestsOK, OfferingsOK
  <1>2. requests[q].op = "approve" /\ UNCHANGED <<courses, offerings, runs, tasks>>
    BY DEF ReadCatalog
  <1>3. requests' = [requests EXCEPT ![q] = x]
    BY DEF ReadCatalog, CatalogIInv, Shapes
  <1>4. /\ x \in RequestShape /\ x.op = "approve" /\ x.run = requests[q].run
        /\ x.courses = courses /\ x.offerings = offerings
    BY <1>1, <1>2 DEF RequestShape
  <1> HIDE DEF x
  <1>5. RequestOK(x, tasks, courses)
    BY <1>1, <1>2, <1>4 DEF RequestOK
  <1>6. QED
    BY <1>2, <1>3, <1>4, <1>5, SetRequest

LEMMA StepToIdle ==
    ASSUME CatalogIInv, NEW q \in Requests, requests' = [requests EXCEPT ![q] = Idle],
           UNCHANGED <<courses, offerings, runs, tasks>>
    PROVE  CatalogIInv'
  BY IdleIs, SetRequest

(* The decision on a run, whatever it did to the catalog. *)
LEMMA StepDecide ==
    ASSUME CatalogIInv, NEW q \in Requests, NEW status \in {"approved", "rejected"},
           requests[q].op \in {"approve", "reject"}, Decide(q, status),
           courses' \in CourseTables, DOMAIN courses \subseteq DOMAIN courses',
           offerings' \in OfferingTables, OfferingsOK'
    PROVE  CatalogIInv'
  <1> DEFINE r == requests[q].run
             x == [runs[r] EXCEPT !.status = status]
  <1>1. r \in RunIds /\ tasks[r].step = "done"
    BY DEF CatalogIInv, RequestsOK, RequestOK
  <1>2. runs[r] \in RunShape /\ RunAndTask(runs[r], tasks[r])
    BY <1>1 DEF CatalogIInv, Shapes, RunsOK
  <1>3. x \in RunShape /\ x.status = status /\ x.changeset = runs[r].changeset
    BY <1>2 DEF RunShape, RunStatuses
  <1>4. /\ runs' = [runs EXCEPT ![r] = x] /\ tasks' = tasks
        /\ requests' = [requests EXCEPT ![q] = Idle]
    BY DEF Decide
  <1> HIDE DEF x, r
  <1>5. Shapes'
    BY <1>1, <1>3, <1>4, IdleIs DEF CatalogIInv, Shapes
  <1>6. RunsOK'
    <2>1. RunAndTask(x, tasks[r])
      BY <1>1, <1>2, <1>3 DEF RunAndTask
    <2>2. QED
      BY <1>1, <1>4, <2>1 DEF CatalogIInv, Shapes, RunsOK
  <1>7. RequestsOK'
    <2>1. \A p \in Requests : requests'[p] = requests[p] \/ requests'[p] = Idle
      BY <1>4 DEF CatalogIInv, Shapes
    <2>2. \A p : RequestOK(p, tasks, courses) => RequestOK(p, tasks', courses')
      BY <1>4 DEF RequestOK
    <2>3. RequestsOK
      BY DEF CatalogIInv
    <2>4. QED
      BY <2>1, <2>2, <2>3, IdleIs DEF RequestsOK
  <1>8. OpenOrStarting'
    <2>1. OpenRuns' \subseteq OpenRuns
      BY <1>1, <1>3, <1>4 DEF OpenRuns, Open, CatalogIInv, Shapes
    <2>2. Starting' \subseteq Starting
      BY <1>4, IdleIs DEF Starting, CatalogIInv, Shapes
    <2>3. QED
      BY <2>1, <2>2, FewerOpen DEF CatalogIInv
  <1>9. QED
    BY <1>5, <1>6, <1>7, <1>8 DEF CatalogIInv

LEMMA KeyIs ==
    ASSUME NEW ch, NEW s \in Sections, NEW c \in DOMAIN ch[s]
    PROVE  <<s, c>> \in Keys(ch)
  <1> DEFINE named(t) == {<<t, d>> : d \in DOMAIN ch[t]}
  <1>1. <<s, c>> \in named(s)
    OBVIOUS
  <1>2. Keys(ch) = UNION {named(t) : t \in Sections}
    BY DEF Keys
  <1> HIDE DEF named
  <1>3. QED
    BY <1>1, <1>2

(* What an approval works with. *)
LEMMA KeptGood ==
    ASSUME CatalogIInv, NEW q \in Requests, requests[q].op = "approve"
    PROVE  /\ Kept(q) \in ChangesetShape /\ ChangesetGood(Kept(q))
           /\ \A s \in Sections : \A c \in DOMAIN Kept(q)[s] :
                 <<s, c>> \in Keys(runs[requests[q].run].changeset) \ requests[q].skip
           /\ requests[q].courses \in CourseTables
           /\ requests[q].offerings \in OfferingTables
           /\ DOMAIN requests[q].courses \subseteq DOMAIN courses
           /\ \A o \in DOMAIN requests[q].offerings : Consistent(requests[q].offerings[o])
  <1> DEFINE r == requests[q].run
             ch == runs[r].changeset
  <1>1. r \in RunIds
    BY DEF CatalogIInv, RequestsOK, RequestOK
  <1>2. ch \in ChangesetShape /\ ChangesetGood(ch)
    BY <1>1 DEF CatalogIInv, Shapes, RunShape, RunsOK, RunAndTask
  <1>3. Kept(q) = FilterChangeset(ch, requests[q].skip)
    BY DEF Kept
  <1>4. requests[q].courses \in CourseTables /\ requests[q].offerings \in OfferingTables
    BY DEF CatalogIInv, Shapes, RequestShape
  <1>5. /\ DOMAIN requests[q].courses \subseteq DOMAIN courses
        /\ \A o \in DOMAIN requests[q].offerings : Consistent(requests[q].offerings[o])
    BY DEF CatalogIInv, RequestsOK, RequestOK
  <1> HIDE DEF ch
  <1>6. /\ Kept(q) \in ChangesetShape /\ ChangesetGood(Kept(q))
        /\ \A s \in Sections : DOMAIN Kept(q)[s] =
              {c \in DOMAIN ch[s] : <<s, c>> \notin requests[q].skip}
    BY <1>2, <1>3, FilterGood
  <1>7. \A s \in Sections : \A c \in DOMAIN Kept(q)[s] : <<s, c>> \in Keys(ch)
    <2> SUFFICES ASSUME NEW s \in Sections, NEW c \in DOMAIN Kept(q)[s]
                 PROVE  <<s, c>> \in Keys(ch)
      OBVIOUS
    <2>1. c \in DOMAIN ch[s]
      BY <1>6
    <2>2. QED
      BY <2>1, KeyIs
  <1>8. QED
    BY <1>4, <1>5, <1>6, <1>7 DEF ch

LEMMA StepApprove ==
    ASSUME CatalogIInv, NEW q \in Requests, Approve(q)
    PROVE  CatalogIInv'
  <1> DEFINE ch == Kept(q)
             seen == requests[q].courses
             seenOfferings == requests[q].offerings
  <1>1. /\ requests[q].op = "approve" /\ Decide(q, "approved")
        /\ courses' = ApplyToCourses(ch, seen, courses)
        /\ offerings' = ApplyToOfferings(ch, DOMAIN seen, seenOfferings, offerings)
    BY DEF Approve
  <1>2. /\ ch \in ChangesetShape /\ ChangesetGood(ch)
        /\ seen \in CourseTables /\ seenOfferings \in OfferingTables
        /\ DOMAIN seen \subseteq DOMAIN courses
        /\ \A o \in DOMAIN seenOfferings : Consistent(seenOfferings[o])
    BY <1>1, KeptGood
  <1>3. /\ courses \in CourseTables /\ offerings \in OfferingTables
        /\ \A o \in DOMAIN offerings :
              Consistent(offerings[o]) /\ offerings[o].course \in DOMAIN courses
    BY DEF CatalogIInv, Shapes, OfferingsOK
  <1> HIDE DEF ch, seen, seenOfferings
  <1>4. /\ courses' \in CourseTables
        /\ DOMAIN courses' = DOMAIN courses \union DOMAIN ch.courses_added
    BY <1>1, <1>2, <1>3, ApplyCourses
  <1>5. /\ offerings' \in OfferingTables
        /\ \A o \in DOMAIN offerings' :
              /\ Consistent(offerings'[o])
              /\ offerings'[o].course \in DOMAIN courses \union DOMAIN ch.courses_added
    BY <1>1, <1>2, <1>3, ApplyOfferings
  <1>6. OfferingsOK'
    BY <1>4, <1>5 DEF OfferingsOK, Consistent
  <1>7. QED
    BY <1>1, <1>4, <1>5, <1>6, StepDecide

LEMMA StepReject ==
    ASSUME CatalogIInv, NEW q \in Requests, Reject(q)
    PROVE  CatalogIInv'
  <1>1. requests[q].op = "reject" /\ Decide(q, "rejected") /\ UNCHANGED <<courses, offerings>>
    BY DEF Reject
  <1>2. courses \in CourseTables /\ offerings \in OfferingTables /\ OfferingsOK
    BY DEF CatalogIInv, Shapes
  <1>3. OfferingsOK'
    BY <1>1, <1>2 DEF OfferingsOK
  <1>4. QED
    BY <1>1, <1>2, <1>3, StepDecide

LEMMA CatalogNext == CatalogIInv /\ [Next]_vars => CatalogIInv'
  <1> SUFFICES ASSUME CatalogIInv, [Next]_vars PROVE CatalogIInv'
    OBVIOUS
  <1>1. ASSUME NEW q \in Requests, BeginStart(q) PROVE CatalogIInv'
    BY <1>1, StepBeginStart
  <1>2. ASSUME NEW q \in Requests, NEW r \in RunIds, OpenRun(q, r) PROVE CatalogIInv'
    BY <1>2, StepOpenRun
  <1>3. ASSUME NEW q \in Requests, NEW r \in RunIds, Review(q, r) PROVE CatalogIInv'
    <2>1. CASE \E skip \in SUBSET Keys(runs[r].changeset) : BeginReview(q, "approve", r, skip)
      BY <2>1, StepBeginReview
    <2>2. CASE BeginReview(q, "reject", r, {})
      BY <2>2, StepBeginReview
    <2>3. QED
      BY <1>3, <2>1, <2>2 DEF Review
  <1>4. ASSUME NEW q \in Requests, ReadCatalog(q) PROVE CatalogIInv'
    BY <1>4, StepReadCatalog
  <1>5. ASSUME NEW q \in Requests, Approve(q) PROVE CatalogIInv'
    BY <1>5, StepApprove
  <1>6. ASSUME NEW q \in Requests, ApprovalFails(q) \/ Abandon(q) PROVE CatalogIInv'
    BY <1>6, StepToIdle DEF ApprovalFails, Abandon
  <1>7. ASSUME NEW q \in Requests, Reject(q) PROVE CatalogIInv'
    BY <1>7, StepReject
  <1>8. ASSUME NEW r \in RunIds, Task(r) PROVE CatalogIInv'
    <2>1. CASE CrawlFails(r)
      BY <2>1, StepFail DEF CrawlFails
    <2>2. CASE \E groups \in Groups : Crawl(r, groups)
      BY <2>2, StepCrawl
    <2>3. CASE Stage(r)
      BY <2>3, StepStage
    <2>4. CASE CommitFails(r)
      BY <2>4, StepLeavesRunning DEF CommitFails
    <2>5. QED
      BY <1>8, <2>1, <2>2, <2>3, <2>4 DEF Task
  <1>9. ASSUME NEW r \in RunIds, TaskDies(r) PROVE CatalogIInv'
    BY <1>9, StepLeavesRunning DEF TaskDies
  <1>10. CASE UNCHANGED vars
    <2>1. Shapes' /\ OfferingsOK' /\ RunsOK' /\ RequestsOK'
      BY <1>10 DEF vars, CatalogIInv, Shapes, OfferingsOK, RunsOK, RequestsOK
    <2>2. OpenRuns' = OpenRuns /\ Starting' = Starting
      BY <1>10 DEF vars, OpenRuns, Starting
    <2>3. OpenOrStarting'
      BY <2>2, FewerOpen DEF CatalogIInv
    <2>4. QED
      BY <2>1, <2>3 DEF CatalogIInv
  <1>11. QED
    BY <1>1, <1>2, <1>3, <1>4, <1>5, <1>6, <1>7, <1>8, <1>9, <1>10 DEF Next

(* The invariant holds in every state of every behaviour of the catalog sync. *)
THEOREM CatalogInvariant == Spec => []CatalogIInv
  BY CatalogInit, CatalogNext, PTL DEF Spec

-----------------------------------------------------------------------------
(* The results. *)

LEMMA SectionsAre ==
    ASSUME NEW ch \in ChangesetShape
    PROVE  ChangesetOK(ch)
  <1>1. /\ ch["courses_added"] \in Tables(CourseCodes, Added)
        /\ ch["courses_updated"] \in Tables(CourseCodes, CourseChanges)
        /\ ch["courses_removed"] \in Tables(CourseCodes, SUBSET OfferingCodes)
        /\ ch["offerings_added"] \in Tables(OfferingCodes, ActiveRow)
        /\ ch["offerings_updated"] \in Tables(OfferingCodes, OfferingUpdates)
        /\ ch["offerings_removed"] \in Tables(OfferingCodes, CourseCodes)
        /\ DOMAIN ch = Sections
    BY DEF ChangesetShape, Sections
  <1>2. /\ DOMAIN ch["courses_added"] \subseteq CourseCodes
        /\ DOMAIN ch["courses_updated"] \subseteq CourseCodes
        /\ DOMAIN ch["courses_removed"] \subseteq CourseCodes
        /\ DOMAIN ch["offerings_added"] \subseteq OfferingCodes
        /\ DOMAIN ch["offerings_updated"] \subseteq OfferingCodes
        /\ DOMAIN ch["offerings_removed"] \subseteq OfferingCodes
    BY <1>1, TableIs
  <1>3. QED
    BY <1>1, <1>2 DEF ChangesetOK

(* The rows, runs, tasks and requests of the sync (courses.py, service.py)   *)
(* keep their kinds, every offering keeps a course that exists, and a run    *)
(* has a task exactly if it exists.                                          *)
THEOREM TypeCorrect == Spec => []TypeOK
  <1>1. CatalogIInv => TypeOK
    <2> SUFFICES ASSUME CatalogIInv PROVE TypeOK
      OBVIOUS
    <2>1. /\ courses \in Tables(CourseCodes, CourseRow)
          /\ offerings \in Tables(OfferingCodes, OfferingRow)
          /\ \A o \in DOMAIN offerings : offerings[o].course \in DOMAIN courses
      BY DEF CatalogIInv, Shapes, OfferingsOK, CourseTables, OfferingTables
    <2>2. ASSUME NEW r \in RunIds
          PROVE  /\ runs[r].status \in RunStatuses /\ ChangesetOK(runs[r].changeset)
                 /\ runs[r].status = "none" <=> tasks[r].step = "none"
                 /\ tasks[r].step \in {"none", "crawl", "diff", "done", "dead", "lost"}
      <3>1. runs[r] \in RunShape /\ tasks[r] \in TaskShape /\ RunAndTask(runs[r], tasks[r])
        BY DEF CatalogIInv, Shapes, RunsOK
      <3>2. runs[r].status \in RunStatuses /\ runs[r].changeset \in ChangesetShape
        BY <3>1 DEF RunShape
      <3>3. QED
        BY <3>1, <3>2, SectionsAre DEF RunAndTask, TaskShape
    <2>3. ASSUME NEW q \in Requests
          PROVE  /\ requests[q].op \in {"none", "start", "approve", "reject"}
                 /\ requests[q].step \in {"none", "open", "read", "decide"}
                 /\ requests[q].run \in 0..MaxRuns
      BY DEF CatalogIInv, Shapes, RequestShape
    <2>4. QED
      BY <2>1, <2>2, <2>3 DEF TypeOK
  <1>2. QED
    BY <1>1, CatalogInvariant, PTL

(* However the check of start_sync and its insert interleave, no more runs   *)
(* are open than requests can overlap.                                       *)
THEOREM OpenRunsLimited == Spec => []OpenRunsBounded
  <1>1. CatalogIInv => OpenRunsBounded
    BY RunIdsFinite DEF CatalogIInv, OpenOrStarting, OpenRunsBounded
  <1>2. QED
    BY <1>1, CatalogInvariant, PTL

(* The status an offering is given by _field_changes and the deactivation of *)
(* apply_changeset never contradicts its is_active.                          *)
THEOREM CancelledInactive == Spec => []CancelledIsInactive
  <1>1. CatalogIInv => CancelledIsInactive
    BY DEF CatalogIInv, OfferingsOK, Consistent, CancelledIsInactive
  <1>2. QED
    BY <1>1, CatalogInvariant, PTL

LEMMA Vetoed ==
    ASSUME CatalogIInv, NEW q \in Requests, Approve(q)
    PROVE  /\ \A c \in DOMAIN courses' :
                \/ c \in DOMAIN courses /\ courses'[c] = courses[c]
                \/ c \in Entries(q, {"courses_added", "courses_updated", "courses_removed"})
           /\ \A o \in DOMAIN offerings' :
                \/ o \in DOMAIN offerings /\ offerings'[o] = offerings[o]
                \/ o \in Entries(q, {"offerings_added", "offerings_updated",
                                     "offerings_removed"})
                \/ offerings'[o].course \in Entries(q, {"courses_added"})
  <1> DEFINE ch == Kept(q)
             seen == requests[q].courses
             seenOfferings == requests[q].offerings
  <1>1. /\ requests[q].op = "approve"
        /\ courses' = ApplyToCourses(ch, seen, courses)
        /\ offerings' = ApplyToOfferings(ch, DOMAIN seen, seenOfferings, offerings)
    BY DEF Approve
  <1>2. /\ ch \in ChangesetShape /\ ChangesetGood(ch)
        /\ seen \in CourseTables /\ seenOfferings \in OfferingTables
        /\ DOMAIN seen \subseteq DOMAIN courses
        /\ \A o \in DOMAIN seenOfferings : Consistent(seenOfferings[o])
        /\ \A s \in Sections : \A c \in DOMAIN ch[s] :
              <<s, c>> \in Keys(runs[requests[q].run].changeset) \ requests[q].skip
    BY <1>1, KeptGood
  <1>3. \A S \in SUBSET Sections : \A s \in S : DOMAIN ch[s] \subseteq Entries(q, S)
    <2> SUFFICES ASSUME NEW S \in SUBSET Sections, NEW s \in S, NEW c \in DOMAIN ch[s]
                 PROVE  c \in Entries(q, S)
      OBVIOUS
    <2> DEFINE k == <<s, c>>
    <2>1. k \in Keys(runs[requests[q].run].changeset) \ requests[q].skip
      BY <1>2
    <2>2. k[1] \in S /\ k[2] = c
      OBVIOUS
    <2> HIDE DEF k
    <2>3. QED
      BY <2>1, <2>2 DEF Entries
  <1>4. /\ courses \in CourseTables /\ offerings \in OfferingTables
        /\ \A o \in DOMAIN offerings :
              Consistent(offerings[o]) /\ offerings[o].course \in DOMAIN courses
    BY DEF CatalogIInv, Shapes, OfferingsOK
  <1> DEFINE CourseSections == {"courses_added", "courses_updated", "courses_removed"}
             OfferingSections == {"offerings_added", "offerings_updated", "offerings_removed"}
  <1>5. /\ DOMAIN ch.courses_added \subseteq Entries(q, CourseSections)
        /\ DOMAIN ch.courses_updated \subseteq Entries(q, CourseSections)
        /\ DOMAIN ch.courses_removed \subseteq Entries(q, CourseSections)
        /\ DOMAIN ch.offerings_added \subseteq Entries(q, OfferingSections)
        /\ DOMAIN ch.offerings_updated \subseteq Entries(q, OfferingSections)
        /\ DOMAIN ch.offerings_removed \subseteq Entries(q, OfferingSections)
        /\ DOMAIN ch.courses_added \subseteq Entries(q, {"courses_added"})
    <2>1. /\ CourseSections \in SUBSET Sections /\ OfferingSections \in SUBSET Sections
          /\ {"courses_added"} \in SUBSET Sections
      BY DEF Sections
    <2> HIDE DEF ch
    <2>2. QED
      BY <1>3, <2>1
  <1> HIDE DEF ch, seen, seenOfferings, CourseSections, OfferingSections
  <1>6. \A c \in DOMAIN courses' : \/ c \in DOMAIN courses /\ courses'[c] = courses[c]
                                   \/ c \in Entries(q, CourseSections)
    <2> DEFINE new == ApplyToCourses(ch, seen, courses)
    <2>1. /\ DOMAIN new = DOMAIN courses \union DOMAIN ch.courses_added
          /\ \A c \in DOMAIN courses :
                c \notin DOMAIN ch.courses_updated \union DOMAIN ch.courses_removed
                => new[c] = courses[c]
      <3>1. courses \in CourseTables /\ seen \in CourseTables /\ ch \in ChangesetShape
            /\ ChangesetGood(ch)
        BY <1>2, <1>4
      <3>2. QED
        BY <3>1, ApplyCourses
    <2>2. courses' = new
      BY <1>1
    <2> HIDE DEF new
    <2>3. QED
      BY <1>5, <2>1, <2>2
  <1>7. \A o \in DOMAIN offerings' : \/ o \in DOMAIN offerings /\ offerings'[o] = offerings[o]
                                     \/ o \in Entries(q, OfferingSections)
                                     \/ offerings'[o].course \in Entries(q, {"courses_added"})
    <2>1. \A o \in DOMAIN offerings' :
             \/ o \in DOMAIN offerings /\ offerings'[o] = offerings[o]
             \/ o \in DOMAIN ch.offerings_added \union DOMAIN ch.offerings_updated
                      \union DOMAIN ch.offerings_removed
             \/ offerings'[o].course \in DOMAIN ch.courses_added
      BY <1>1, <1>2, <1>4, ApplyOfferings
    <2>2. QED
      BY <1>5, <2>1
  <1>8. QED
    BY <1>6, <1>7 DEF CourseSections, OfferingSections

(* An approval, however old what it read and however the catalog changed     *)
(* since its run was staged, changes only rows the reviewer kept.            *)
THEOREM VetoKept == Spec => SkippedRowsUntouched
  <1> DEFINE Untouched ==
        \A q \in Requests : Commits(q) =>
          /\ \A c \in DOMAIN courses' :
                \/ c \in DOMAIN courses /\ courses'[c] = courses[c]
                \/ c \in Entries(q, {"courses_added", "courses_updated", "courses_removed"})
          /\ \A o \in DOMAIN offerings' :
                \/ o \in DOMAIN offerings /\ offerings'[o] = offerings[o]
                \/ o \in Entries(q, {"offerings_added", "offerings_updated",
                                     "offerings_removed"})
                \/ offerings'[o].course \in Entries(q, {"courses_added"})
  <1>1. CatalogIInv => Untouched
    BY Vetoed DEF Commits
  <1>2. CatalogIInv => [Untouched]_vars
    BY <1>1
  <1> HIDE DEF Untouched
  <1>3. Spec => [][Untouched]_vars
    BY <1>2, CatalogInvariant, PTL
  <1>4. QED
    BY <1>3 DEF Untouched, SkippedRowsUntouched

-----------------------------------------------------------------------------
(* What an approval leaves for the next crawl. *)

(* A live row shows in these fields what the site lists.                     *)
Agree(fields, live, listed) == \A f \in fields : live[f] = listed[f]

LEMMA ChangesEmpty ==
    ASSUME NEW fields, NEW live, NEW listed
    PROVE  Changes(fields, live, listed) = EmptyTable <=> Agree(fields, live, listed)
  <1> DEFINE D == {g \in fields : live[g] # listed[g]}
             change == [f \in D |-> listed[f]]
  <1>1. DOMAIN change = D /\ DOMAIN EmptyTable = {}
    BY DEF EmptyTable
  <1>2. D = {} <=> Agree(fields, live, listed)
    BY DEF Agree
  <1>3. D = {} => change = EmptyTable
    BY DEF EmptyTable
  <1>4. change = EmptyTable => D = {}
    BY <1>1
  <1>5. QED
    BY <1>2, <1>3, <1>4 DEF Changes

LEMMA OverChanges ==
    ASSUME NEW fields, NEW live, fields \subseteq DOMAIN live, NEW listed
    PROVE  /\ Agree(fields, Over(live, Changes(fields, live, listed)), listed)
           /\ DOMAIN Over(live, Changes(fields, live, listed)) = DOMAIN live
  <1> DEFINE change == Changes(fields, live, listed)
  <1>1. /\ DOMAIN change = {g \in fields : live[g] # listed[g]}
        /\ \A f \in DOMAIN change : change[f] = listed[f]
    BY DEF Changes
  <1> HIDE DEF change
  <1>2. /\ DOMAIN Over(live, change) = DOMAIN live \union DOMAIN change
        /\ \A f \in DOMAIN live \union DOMAIN change :
              Over(live, change)[f] = IF f \in DOMAIN change THEN change[f] ELSE live[f]
    BY DEF Over
  <1>3. DOMAIN Over(live, change) = DOMAIN live
    BY <1>1, <1>2
  <1>4. \A f \in fields : Over(live, change)[f] = listed[f]
    BY <1>1, <1>2
  <1>5. QED
    BY <1>3, <1>4 DEF Agree, change

(* A session that applies to the rows it has seen writes what it means to.   *)
LEMMA WrittenFresh ==
    ASSUME NEW row, NEW target
    PROVE  /\ DOMAIN Written(row, row, target) = DOMAIN row
           /\ \A f \in DOMAIN row : Written(row, row, target)[f] = target[f]
  BY DEF Written

(* The entries of a changeset, where every offering belongs to a live course. *)
LEMMA BuildIs ==
    ASSUME NEW groups \in GroupShape, NEW cs \in CourseTables, NEW os \in OfferingTables,
           \A o \in DOMAIN os : os[o].course \in DOMAIN cs,
           NEW ch, ch = BuildChangeset(groups, cs, os)
    PROVE  /\ DOMAIN ch = Sections
           /\ DOMAIN ch.courses_added = DOMAIN groups.courses \ DOMAIN cs
           /\ DOMAIN ch.courses_updated =
                {c \in DOMAIN groups.courses \cap DOMAIN cs :
                    ~Agree(CourseFields, cs[c], ListedCourse(groups, c))}
           /\ DOMAIN ch.courses_removed = {c \in DOMAIN cs \ DOMAIN groups.courses : cs[c].is_active}
           /\ DOMAIN ch.offerings_added =
                {o \in DOMAIN groups.offerings : groups.offerings[o].course \in DOMAIN cs} \ DOMAIN os
           /\ DOMAIN ch.offerings_updated =
                {o \in DOMAIN groups.offerings \cap DOMAIN os :
                    /\ groups.offerings[o].course \in DOMAIN cs
                    /\ ~Agree(OfferingFields, os[o], ListedOffering(groups, o))}
           /\ DOMAIN ch.offerings_removed =
                {o \in DOMAIN os \ DOMAIN groups.offerings : os[o].is_active}
  <1>1. Seen(cs, os) = DOMAIN os
    BY DEF Seen
  <1>2. DOMAIN ch = Sections
    BY DEF BuildChangeset, Sections
  <1>3. DOMAIN ch.courses_added = DOMAIN groups.courses \ DOMAIN cs
    BY DEF BuildChangeset
  <1>4. DOMAIN ch.courses_updated =
          {c \in DOMAIN groups.courses \cap DOMAIN cs :
              Changes(CourseFields, cs[c], ListedCourse(groups, c)) # EmptyTable}
    BY DEF BuildChangeset
  <1>5. DOMAIN ch.courses_removed = {c \in DOMAIN cs \ DOMAIN groups.courses : cs[c].is_active}
    BY DEF BuildChangeset
  <1>6. DOMAIN ch.offerings_added =
          {o \in DOMAIN groups.offerings : groups.offerings[o].course \in DOMAIN cs} \ Seen(cs, os)
    BY DEF BuildChangeset
  <1>7. DOMAIN ch.offerings_updated =
          {o \in {x \in DOMAIN groups.offerings : groups.offerings[x].course \in DOMAIN cs}
                     \cap Seen(cs, os) :
              OfferingChanges(os[o], ListedOffering(groups, o)) # EmptyTable}
    BY DEF BuildChangeset
  <1>8. DOMAIN ch.offerings_removed =
          {o \in Seen(cs, os) \ DOMAIN groups.offerings : os[o].is_active}
    BY DEF BuildChangeset
  <1>9. DOMAIN ch.courses_updated =
          {c \in DOMAIN groups.courses \cap DOMAIN cs :
              ~Agree(CourseFields, cs[c], ListedCourse(groups, c))}
    BY <1>4, ChangesEmpty
  <1>10. DOMAIN ch.offerings_updated =
           {o \in DOMAIN groups.offerings \cap DOMAIN os :
               /\ groups.offerings[o].course \in DOMAIN cs
               /\ ~Agree(OfferingFields, os[o], ListedOffering(groups, o))}
    BY <1>1, <1>7, ChangesEmpty DEF OfferingChanges
  <1>11. QED
    BY <1>1, <1>2, <1>3, <1>5, <1>6, <1>8, <1>9, <1>10

LEMMA EntryIs ==
    ASSUME NEW groups, NEW cs, NEW os, NEW ch, ch = BuildChangeset(groups, cs, os)
    PROVE  /\ \A c \in DOMAIN ch.courses_added :
                 /\ ch.courses_added[c].row = ListedCourse(groups, c)
                 /\ DOMAIN ch.courses_added[c].offerings = OfferingsOf(c, groups)
                 /\ \A o \in OfferingsOf(c, groups) :
                       ch.courses_added[c].offerings[o] = ListedOffering(groups, o)
           /\ \A c \in DOMAIN ch.courses_updated :
                 ch.courses_updated[c] = Changes(CourseFields, cs[c], ListedCourse(groups, c))
           /\ \A o \in DOMAIN ch.offerings_added :
                 ch.offerings_added[o] = ListedOffering(groups, o)
           /\ \A o \in DOMAIN ch.offerings_updated :
                 ch.offerings_updated[o] =
                    Changes(OfferingFields, os[o], ListedOffering(groups, o))
  <1>1. \A c \in DOMAIN ch.courses_added :
           ch.courses_added[c] =
              [row |-> ListedCourse(groups, c),
               offerings |-> [o \in OfferingsOf(c, groups) |-> ListedOffering(groups, o)]]
    BY DEF BuildChangeset
  <1>2. \A c \in DOMAIN ch.courses_updated :
           ch.courses_updated[c] = Changes(CourseFields, cs[c], ListedCourse(groups, c))
    BY DEF BuildChangeset
  <1>3. \A o \in DOMAIN ch.offerings_added : ch.offerings_added[o] = ListedOffering(groups, o)
    BY DEF BuildChangeset
  <1>4. \A o \in DOMAIN ch.offerings_updated :
           ch.offerings_updated[o] = Changes(OfferingFields, os[o], ListedOffering(groups, o))
    <2>1. \A o \in DOMAIN ch.offerings_updated :
             ch.offerings_updated[o] = OfferingChanges(os[o], ListedOffering(groups, o))
      BY DEF BuildChangeset
    <2>2. QED
      BY <2>1 DEF OfferingChanges
  <1>5. ASSUME NEW c \in DOMAIN ch.courses_added
        PROVE  /\ ch.courses_added[c].row = ListedCourse(groups, c)
               /\ DOMAIN ch.courses_added[c].offerings = OfferingsOf(c, groups)
               /\ \A o \in OfferingsOf(c, groups) :
                     ch.courses_added[c].offerings[o] = ListedOffering(groups, o)
    <2> DEFINE table == [o \in OfferingsOf(c, groups) |-> ListedOffering(groups, o)]
    <2>1. /\ DOMAIN table = OfferingsOf(c, groups)
          /\ \A o \in OfferingsOf(c, groups) : table[o] = ListedOffering(groups, o)
      OBVIOUS
    <2>2. ch.courses_added[c] = [row |-> ListedCourse(groups, c), offerings |-> table]
      BY <1>1
    <2> HIDE DEF table
    <2>3. ch.courses_added[c].row = ListedCourse(groups, c)
          /\ ch.courses_added[c].offerings = table
      BY <2>2
    <2>4. QED
      BY <2>1, <2>3
  <1>6. QED
    BY <1>2, <1>3, <1>4, <1>5

(* A reviewer keeps part of a changeset that fits the catalog as it is.      *)
FreshReview(groups, cs, os, ch, skip, kept) ==
    /\ groups \in GroupShape /\ cs \in CourseTables /\ os \in OfferingTables
    /\ \A o \in DOMAIN os : os[o].course \in DOMAIN cs
    /\ ch = BuildChangeset(groups, cs, os)
    /\ kept = FilterChangeset(ch, skip)

(* What its approval makes of a row. *)
CourseEffect(groups, cs, ch, skip, c, row) ==
    /\ c \in DOMAIN ch.courses_updated /\ <<"courses_updated", c>> \notin skip
         => Agree(CourseFields, row, ListedCourse(groups, c))
    /\ c \in DOMAIN ch.courses_removed /\ <<"courses_removed", c>> \notin skip
         => row.is_active = FALSE
    /\ \/ c \notin DOMAIN ch.courses_updated
       \/ <<"courses_updated", c>> \in skip
       => /\ c \in DOMAIN groups.courses => Agree(CourseFields, row, cs[c])
          /\ \/ c \notin DOMAIN ch.courses_removed
             \/ <<"courses_removed", c>> \in skip
             => row.is_active = cs[c].is_active
    /\ \/ Agree(CourseFields, row, cs[c])
       \/ c \in DOMAIN groups.courses /\ Agree(CourseFields, row, ListedCourse(groups, c))
       \/ c \notin DOMAIN groups.courses /\ row.is_active = FALSE

OfferingEffect(groups, os, ch, skip, o, row) ==
    /\ o \in DOMAIN ch.offerings_updated /\ <<"offerings_updated", o>> \notin skip
         => Agree(OfferingFields, row, ListedOffering(groups, o))
    /\ o \in DOMAIN ch.offerings_removed /\ <<"offerings_removed", o>> \notin skip
         => row.is_active = FALSE
    /\ \/ o \notin DOMAIN ch.offerings_updated
       \/ <<"offerings_updated", o>> \in skip
       => /\ o \in DOMAIN groups.offerings => Agree(OfferingFields, row, os[o])
          /\ \/ o \notin DOMAIN ch.offerings_removed
             \/ <<"offerings_removed", o>> \in skip
             => row.is_active = os[o].is_active
    /\ \/ Agree(OfferingFields, row, os[o])
       \/ o \in DOMAIN groups.offerings /\ Agree(OfferingFields, row, ListedOffering(groups, o))
       \/ o \notin DOMAIN groups.offerings /\ row.is_active = FALSE

LEMMA FreshCourse ==
    ASSUME NEW groups, NEW cs, NEW os, NEW ch, NEW skip, NEW kept,
           FreshReview(groups, cs, os, ch, skip, kept), NEW c \in DOMAIN cs
    PROVE  CourseEffect(groups, cs, ch, skip, c, ApplyToCourses(kept, cs, cs)[c])
  <1> USE DEF FreshReview
  <1> DEFINE row == ApplyToCourses(kept, cs, cs)[c]
  <1>1. /\ DOMAIN kept.courses_updated =
             {d \in DOMAIN ch.courses_updated : <<"courses_updated", d>> \notin skip}
        /\ DOMAIN kept.courses_removed =
             {d \in DOMAIN ch.courses_removed : <<"courses_removed", d>> \notin skip}
        /\ \A d \in DOMAIN kept.courses_updated :
              kept.courses_updated[d] = ch.courses_updated[d]
    BY DEF FilterChangeset, Sections
  <1>2. cs[c] \in CourseRow /\ DOMAIN cs[c] = CourseFields
    <2>1. cs[c] \in CourseRow
      BY TableIs DEF CourseTables
    <2>2. QED
      BY <2>1 DEF CourseRow, CourseFields
  <1> DEFINE updated == IF c \in DOMAIN kept.courses_updated
                        THEN Over(cs[c], kept.courses_updated[c]) ELSE cs[c]
             target == TargetCourse(kept, c, cs[c])
  <1>3. target = IF c \in DOMAIN kept.courses_removed
                 THEN [updated EXCEPT !.is_active = FALSE] ELSE updated
    BY DEF TargetCourse
  <1>4. row = Written(cs[c], cs[c], target)
    BY DEF ApplyToCourses
  <1>5. DOMAIN row = CourseFields /\ \A f \in CourseFields : row[f] = target[f]
    <2> HIDE DEF target
    <2>1. QED
      BY <1>2, <1>4, WrittenFresh
  <1>6. c \in DOMAIN kept.courses_updated =>
           Agree(CourseFields, updated, ListedCourse(groups, c)) /\ DOMAIN updated = CourseFields
    <2>1. SUFFICES ASSUME c \in DOMAIN kept.courses_updated
          PROVE  LET new == Over(cs[c], ch.courses_updated[c]) IN
                 Agree(CourseFields, new, ListedCourse(groups, c)) /\ DOMAIN new = CourseFields
      BY <1>1
    <2>2. ch.courses_updated[c] = Changes(CourseFields, cs[c], ListedCourse(groups, c))
      BY <1>1, <2>1, EntryIs
    <2>3. QED
      BY <1>2, <2>2, OverChanges
  <1>7. c \notin DOMAIN kept.courses_updated => updated = cs[c]
    OBVIOUS
  <1>8. /\ c \in DOMAIN ch.courses_updated => c \in DOMAIN groups.courses
        /\ c \in DOMAIN ch.courses_removed => c \notin DOMAIN groups.courses
    BY BuildIs
  <1> HIDE DEF updated, target
  <1>9. DOMAIN updated = CourseFields
    BY <1>2, <1>6, <1>7
  <1>10. "is_active" \in CourseFields
    BY DEF CourseFields
  <1>11. c \in DOMAIN kept.courses_removed => row.is_active = FALSE
    BY <1>3, <1>5, <1>9, <1>10
  <1>12. c \notin DOMAIN kept.courses_removed => \A f \in CourseFields : row[f] = updated[f]
    BY <1>3, <1>5
  <1>13. c \in DOMAIN ch.courses_updated /\ <<"courses_updated", c>> \notin skip
         => Agree(CourseFields, row, ListedCourse(groups, c))
    BY <1>1, <1>6, <1>8, <1>12 DEF Agree
  <1>14. c \notin DOMAIN kept.courses_updated =>
            /\ c \in DOMAIN groups.courses => Agree(CourseFields, row, cs[c])
            /\ c \notin DOMAIN kept.courses_removed => row.is_active = cs[c].is_active
    BY <1>1, <1>7, <1>8, <1>10, <1>12 DEF Agree
  <1>15. \/ Agree(CourseFields, row, cs[c])
         \/ c \in DOMAIN groups.courses /\ Agree(CourseFields, row, ListedCourse(groups, c))
         \/ c \notin DOMAIN groups.courses /\ row.is_active = FALSE
    BY <1>1, <1>7, <1>8, <1>11, <1>12, <1>13 DEF Agree
  <1>16. QED
    BY <1>1, <1>11, <1>13, <1>14, <1>15 DEF CourseEffect

LEMMA FreshOffering ==
    ASSUME NEW groups, NEW cs, NEW os, NEW ch, NEW skip, NEW kept,
           FreshReview(groups, cs, os, ch, skip, kept), NEW o \in DOMAIN os
    PROVE  OfferingEffect(groups, os, ch, skip, o,
                          ApplyToOfferings(kept, DOMAIN cs, os, os)[o])
  <1> USE DEF FreshReview
  <1> DEFINE row == ApplyToOfferings(kept, DOMAIN cs, os, os)[o]
  <1>1. /\ DOMAIN kept.offerings_updated =
             {d \in DOMAIN ch.offerings_updated : <<"offerings_updated", d>> \notin skip}
        /\ DOMAIN kept.offerings_removed =
             {d \in DOMAIN ch.offerings_removed : <<"offerings_removed", d>> \notin skip}
        /\ \A d \in DOMAIN kept.offerings_updated :
              kept.offerings_updated[d] = ch.offerings_updated[d]
    BY DEF FilterChangeset, Sections
  <1>2. OfferingFields \subseteq DOMAIN os[o]
    <2>1. os[o] \in OfferingRow
      BY TableIs DEF OfferingTables
    <2>2. QED
      BY <2>1 DEF OfferingRow, OfferingFields
  <1> DEFINE updated == IF o \in DOMAIN kept.offerings_updated
                        THEN Over(os[o], kept.offerings_updated[o]) ELSE os[o]
             target == TargetOffering(kept, o, os[o])
  <1>3. target = IF o \in DOMAIN kept.offerings_removed THEN Deactivated(updated) ELSE updated
    BY DEF TargetOffering
  <1>4. row = Written(os[o], os[o], target)
    BY DEF ApplyToOfferings
  <1>5. \A f \in OfferingFields : row[f] = target[f]
    <2> HIDE DEF target
    <2>1. QED
      BY <1>2, <1>4, WrittenFresh
  <1>6. o \in DOMAIN kept.offerings_updated =>
           Agree(OfferingFields, updated, ListedOffering(groups, o)) /\ DOMAIN updated = DOMAIN os[o]
    <2>1. SUFFICES ASSUME o \in DOMAIN kept.offerings_updated
          PROVE  LET new == Over(os[o], ch.offerings_updated[o]) IN
                 Agree(OfferingFields, new, ListedOffering(groups, o)) /\ DOMAIN new = DOMAIN os[o]
      BY <1>1
    <2>2. ch.offerings_updated[o] = Changes(OfferingFields, os[o], ListedOffering(groups, o))
      BY <1>1, <2>1, EntryIs
    <2>3. QED
      BY <1>2, <2>2, OverChanges
  <1>7. o \notin DOMAIN kept.offerings_updated => updated = os[o]
    OBVIOUS
  <1>8. /\ o \in DOMAIN ch.offerings_updated => o \in DOMAIN groups.offerings
        /\ o \in DOMAIN ch.offerings_removed => o \notin DOMAIN groups.offerings
    BY BuildIs
  <1> HIDE DEF updated, target
  <1>9. OfferingFields \subseteq DOMAIN updated
    BY <1>2, <1>6, <1>7
  <1>10. "is_active" \in OfferingFields
    BY DEF OfferingFields
  <1>11. o \in DOMAIN kept.offerings_removed => row.is_active = FALSE
    <2>1. Deactivated(updated)["is_active"] = FALSE
      BY <1>9, <1>10 DEF Deactivated
    <2>2. QED
      BY <1>3, <1>5, <1>10, <2>1
  <1>12. o \notin DOMAIN kept.offerings_removed => \A f \in OfferingFields : row[f] = updated[f]
    BY <1>3, <1>5
  <1>13. o \in DOMAIN ch.offerings_updated /\ <<"offerings_updated", o>> \notin skip
         => Agree(OfferingFields, row, ListedOffering(groups, o))
    BY <1>1, <1>6, <1>8, <1>12 DEF Agree
  <1>14. o \notin DOMAIN kept.offerings_updated =>
            /\ o \in DOMAIN groups.offerings => Agree(OfferingFields, row, os[o])
            /\ o \notin DOMAIN kept.offerings_removed => row.is_active = os[o].is_active
    BY <1>1, <1>7, <1>8, <1>10, <1>12 DEF Agree
  <1>15. \/ Agree(OfferingFields, row, os[o])
         \/ o \in DOMAIN groups.offerings /\ Agree(OfferingFields, row, ListedOffering(groups, o))
         \/ o \notin DOMAIN groups.offerings /\ row.is_active = FALSE
    BY <1>1, <1>7, <1>8, <1>11, <1>12, <1>13 DEF Agree
  <1>16. QED
    BY <1>1, <1>11, <1>13, <1>14, <1>15 DEF OfferingEffect

(* The offerings a fresh approval inserts: those listed for a course that is *)
(* new and kept, and those added that are kept.                              *)
LEMMA FreshInserts ==
    ASSUME NEW groups, NEW cs, NEW os, NEW ch, NEW skip, NEW kept,
           FreshReview(groups, cs, os, ch, skip, kept)
    PROVE  /\ Inserted(kept, DOMAIN cs) =
                {o \in DOMAIN groups.offerings :
                    \/ groups.offerings[o].course \in DOMAIN kept.courses_added
                    \/ o \in DOMAIN kept.offerings_added}
           /\ \A o \in Inserted(kept, DOMAIN cs) :
                 InsertedRow(kept, o) = ListedOffering(groups, o)
  <1> USE DEF FreshReview
  <1>1. /\ DOMAIN kept.courses_added =
             {d \in DOMAIN ch.courses_added : <<"courses_added", d>> \notin skip}
        /\ DOMAIN kept.offerings_added =
             {d \in DOMAIN ch.offerings_added : <<"offerings_added", d>> \notin skip}
        /\ \A d \in DOMAIN kept.courses_added : kept.courses_added[d] = ch.courses_added[d]
        /\ \A d \in DOMAIN kept.offerings_added : kept.offerings_added[d] = ch.offerings_added[d]
    BY DEF FilterChangeset, Sections
  <1>2. \A c \in DOMAIN kept.courses_added :
           /\ DOMAIN kept.courses_added[c].offerings = OfferingsOf(c, groups)
           /\ \A o \in OfferingsOf(c, groups) :
                 kept.courses_added[c].offerings[o] = ListedOffering(groups, o)
    <2>1. TAKE c \in DOMAIN kept.courses_added
    <2>2. c \in DOMAIN ch.courses_added /\ kept.courses_added[c] = ch.courses_added[c]
      BY <1>1
    <2>3. QED
      BY <2>2, EntryIs
  <1>3. \A o \in DOMAIN kept.offerings_added :
           /\ kept.offerings_added[o] = ListedOffering(groups, o)
           /\ o \in DOMAIN groups.offerings /\ groups.offerings[o].course \in DOMAIN cs
    <2>1. TAKE o \in DOMAIN kept.offerings_added
    <2>2. o \in DOMAIN ch.offerings_added /\ kept.offerings_added[o] = ch.offerings_added[o]
      BY <1>1
    <2>3. kept.offerings_added[o] = ListedOffering(groups, o)
      BY <2>2, EntryIs
    <2>4. o \in DOMAIN groups.offerings /\ groups.offerings[o].course \in DOMAIN cs
      BY <2>2, BuildIs
    <2>5. QED
      BY <2>3, <2>4
  <1>4. \A o : WithNewCourse(kept, o) =
                 {c \in DOMAIN kept.courses_added :
                     o \in DOMAIN groups.offerings /\ groups.offerings[o].course = c}
    BY <1>2 DEF WithNewCourse, OfferingsOf
  <1>5. DOMAIN groups.offerings \subseteq OfferingCodes
    BY TableIs DEF GroupShape
  <1>6. \A o \in DOMAIN kept.offerings_added :
           kept.offerings_added[o].course \in DOMAIN cs
    <2>1. \A o : ListedOffering(groups, o).course = groups.offerings[o].course
      BY DEF ListedOffering
    <2>2. QED
      BY <1>3, <2>1
  <1>7. Inserted(kept, DOMAIN cs) =
          {o \in DOMAIN groups.offerings :
              \/ groups.offerings[o].course \in DOMAIN kept.courses_added
              \/ o \in DOMAIN kept.offerings_added}
    <2>1. \A o \in OfferingCodes :
             WithNewCourse(kept, o) # {} <=>
                /\ o \in DOMAIN groups.offerings
                /\ groups.offerings[o].course \in DOMAIN kept.courses_added
      BY <1>4
    <2>2. QED
      BY <1>3, <1>5, <1>6, <2>1 DEF Inserted
  <1>8. \A o \in Inserted(kept, DOMAIN cs) : InsertedRow(kept, o) = ListedOffering(groups, o)
    <2>1. SUFFICES ASSUME NEW o \in Inserted(kept, DOMAIN cs), o \notin DOMAIN kept.offerings_added
          PROVE  InsertedRow(kept, o) = ListedOffering(groups, o)
      BY <1>3 DEF InsertedRow
    <2> DEFINE c == CHOOSE c \in WithNewCourse(kept, o) : TRUE
    <2>2. WithNewCourse(kept, o) # {}
      BY <1>4, <1>7, <2>1
    <2>3. c \in WithNewCourse(kept, o)
      BY <2>2
    <2>4. InsertedRow(kept, o) = kept.courses_added[c].offerings[o]
      BY <2>1 DEF InsertedRow
    <2> HIDE DEF c
    <2>5. c \in DOMAIN kept.courses_added /\ o \in OfferingsOf(c, groups)
      BY <1>4, <2>3 DEF OfferingsOf
    <2>6. QED
      BY <1>2, <2>4, <2>5
  <1>9. QED
    BY <1>7, <1>8

(* The approval of such a review, and the catalog it leaves. *)
FreshApproval(groups, cs, os, ch, skip, kept, newCs, newOs) ==
    /\ FreshReview(groups, cs, os, ch, skip, kept)
    /\ ~Conflicts(kept, DOMAIN cs, cs, os)
    /\ newCs = ApplyToCourses(kept, cs, cs) /\ newCs \in CourseTables
    /\ newOs = ApplyToOfferings(kept, DOMAIN cs, os, os) /\ newOs \in OfferingTables
    /\ \A o \in DOMAIN newOs : newOs[o].course \in DOMAIN newCs

(* The courses after a fresh approval: a crawl of the same site would stage  *)
(* again what was skipped, and nothing else.                                 *)
LEMMA CoursesStagedAgain ==
    ASSUME NEW groups, NEW cs, NEW os, NEW ch, NEW skip, NEW kept, NEW newCs, NEW newOs,
           FreshApproval(groups, cs, os, ch, skip, kept, newCs, newOs),
           NEW next, next = BuildChangeset(groups, newCs, newOs)
    PROVE  /\ DOMAIN next.courses_added =
                {c \in DOMAIN ch.courses_added : <<"courses_added", c>> \in skip}
           /\ DOMAIN next.courses_updated =
                {c \in DOMAIN ch.courses_updated : <<"courses_updated", c>> \in skip}
           /\ DOMAIN next.courses_removed =
                {c \in DOMAIN ch.courses_removed : <<"courses_removed", c>> \in skip}
  <1> USE DEF FreshReview, FreshApproval
  <1>1. /\ DOMAIN kept.courses_added =
             {c \in DOMAIN ch.courses_added : <<"courses_added", c>> \notin skip}
        /\ \A c \in DOMAIN kept.courses_added : kept.courses_added[c] = ch.courses_added[c]
    BY DEF FilterChangeset, Sections
  <1>2. DOMAIN newCs = DOMAIN cs \union DOMAIN kept.courses_added
    BY DEF ApplyToCourses
  <1>3. /\ DOMAIN ch.courses_added = DOMAIN groups.courses \ DOMAIN cs
        /\ DOMAIN ch.courses_updated =
             {c \in DOMAIN groups.courses \cap DOMAIN cs :
                 ~Agree(CourseFields, cs[c], ListedCourse(groups, c))}
        /\ DOMAIN ch.courses_removed = {c \in DOMAIN cs \ DOMAIN groups.courses : cs[c].is_active}
    BY BuildIs
  <1>4. /\ DOMAIN next.courses_added = DOMAIN groups.courses \ DOMAIN newCs
        /\ DOMAIN next.courses_updated =
             {c \in DOMAIN groups.courses \cap DOMAIN newCs :
                 ~Agree(CourseFields, newCs[c], ListedCourse(groups, c))}
        /\ DOMAIN next.courses_removed =
             {c \in DOMAIN newCs \ DOMAIN groups.courses : newCs[c].is_active}
    BY BuildIs
  <1>5. DOMAIN next.courses_added = {c \in DOMAIN ch.courses_added : <<"courses_added", c>> \in skip}
    BY <1>1, <1>2, <1>3, <1>4
  <1>6. \A c \in DOMAIN newCs \ DOMAIN cs :
           c \in DOMAIN groups.courses /\ Agree(CourseFields, newCs[c], ListedCourse(groups, c))
    <2>1. SUFFICES ASSUME NEW c \in DOMAIN newCs \ DOMAIN cs
          PROVE  c \in DOMAIN groups.courses /\ newCs[c] = ListedCourse(groups, c)
      BY DEF Agree
    <2>2. c \in DOMAIN kept.courses_added
      BY <1>2
    <2>3. newCs[c] = kept.courses_added[c].row
      BY <2>2 DEF ApplyToCourses
    <2>4. c \in DOMAIN ch.courses_added /\ kept.courses_added[c] = ch.courses_added[c]
      BY <1>1, <2>2
    <2>5. ch.courses_added[c].row = ListedCourse(groups, c)
      BY <2>4, EntryIs
    <2>6. QED
      BY <1>3, <2>3, <2>4, <2>5
  <1>7. ASSUME NEW c \in DOMAIN cs
        PROVE  /\ c \in DOMAIN groups.courses =>
                     (~Agree(CourseFields, newCs[c], ListedCourse(groups, c)) <=>
                         c \in DOMAIN ch.courses_updated /\ <<"courses_updated", c>> \in skip)
               /\ c \notin DOMAIN groups.courses =>
                     (newCs[c].is_active <=>
                         c \in DOMAIN ch.courses_removed /\ <<"courses_removed", c>> \in skip)
    <2> DEFINE row == newCs[c]
    <2> HIDE DEF FreshReview
    <2>1. row = ApplyToCourses(kept, cs, cs)[c]
      OBVIOUS
    <2>2. CourseEffect(groups, cs, ch, skip, c, row)
      BY <2>1, FreshCourse
    <2> HIDE DEF row
    <2>3. Agree(CourseFields, row, cs[c]) =>
             (Agree(CourseFields, row, ListedCourse(groups, c)) <=>
                 Agree(CourseFields, cs[c], ListedCourse(groups, c)))
      BY DEF Agree
    <2>4. c \in DOMAIN groups.courses =>
             (~Agree(CourseFields, row, ListedCourse(groups, c)) <=>
                 c \in DOMAIN ch.courses_updated /\ <<"courses_updated", c>> \in skip)
      BY <1>3, <2>2, <2>3 DEF CourseEffect
    <2>5. c \notin DOMAIN groups.courses =>
             (row.is_active <=>
                 c \in DOMAIN ch.courses_removed /\ <<"courses_removed", c>> \in skip)
      BY <1>3, <2>2 DEF CourseEffect
    <2>6. QED
      BY <2>4, <2>5 DEF row
  <1>8. DOMAIN next.courses_updated =
          {c \in DOMAIN ch.courses_updated : <<"courses_updated", c>> \in skip}
    BY <1>2, <1>3, <1>4, <1>6, <1>7
  <1>9. DOMAIN next.courses_removed =
          {c \in DOMAIN ch.courses_removed : <<"courses_removed", c>> \in skip}
    BY <1>2, <1>3, <1>4, <1>6, <1>7
  <1>10. QED
    BY <1>5, <1>8, <1>9

(* The same of the offerings.  That a code is taken only if nothing inserts  *)
(* it again keeps an offering out that moved to a new course.                *)
LEMMA OfferingsStagedAgain ==
    ASSUME NEW groups, NEW cs, NEW os, NEW ch, NEW skip, NEW kept, NEW newCs, NEW newOs,
           FreshApproval(groups, cs, os, ch, skip, kept, newCs, newOs),
           NEW next, next = BuildChangeset(groups, newCs, newOs)
    PROVE  /\ DOMAIN next.offerings_added =
                {o \in DOMAIN ch.offerings_added : <<"offerings_added", o>> \in skip}
           /\ DOMAIN next.offerings_updated =
                {o \in DOMAIN ch.offerings_updated : <<"offerings_updated", o>> \in skip}
           /\ DOMAIN next.offerings_removed =
                {o \in DOMAIN ch.offerings_removed : <<"offerings_removed", o>> \in skip}
  <1> USE DEF FreshReview, FreshApproval
  <1> DEFINE inserted == Inserted(kept, DOMAIN cs)
             course(o) == groups.offerings[o].course
             listed(o) == ListedOffering(groups, o)
  <1>1. /\ inserted = {o \in DOMAIN groups.offerings :
                          \/ course(o) \in DOMAIN kept.courses_added
                          \/ o \in DOMAIN kept.offerings_added}
        /\ \A o \in inserted : InsertedRow(kept, o) = listed(o)
    BY FreshInserts
  <1>2. DOMAIN newOs = DOMAIN os \union inserted
    BY DEF ApplyToOfferings
  <1>3. inserted \cap DOMAIN os = {}
    BY DEF Conflicts
  <1>4. \A o \in inserted : newOs[o] = listed(o)
    BY <1>1, <1>3 DEF ApplyToOfferings
  <1>5. /\ DOMAIN newCs = DOMAIN cs \union DOMAIN kept.courses_added
        /\ DOMAIN kept.courses_added =
             {c \in DOMAIN ch.courses_added : <<"courses_added", c>> \notin skip}
    BY DEF ApplyToCourses, FilterChangeset, Sections
  <1>6. DOMAIN kept.offerings_added =
          {o \in DOMAIN ch.offerings_added : <<"offerings_added", o>> \notin skip}
    BY DEF FilterChangeset, Sections
  <1>7. /\ DOMAIN ch.courses_added = DOMAIN groups.courses \ DOMAIN cs
        /\ DOMAIN ch.offerings_added =
             {o \in DOMAIN groups.offerings : course(o) \in DOMAIN cs} \ DOMAIN os
        /\ DOMAIN ch.offerings_updated =
             {o \in DOMAIN groups.offerings \cap DOMAIN os :
                 course(o) \in DOMAIN cs /\ ~Agree(OfferingFields, os[o], listed(o))}
        /\ DOMAIN ch.offerings_removed = {o \in DOMAIN os \ DOMAIN groups.offerings : os[o].is_active}
    BY BuildIs
  <1>8. /\ DOMAIN next.offerings_added =
             {o \in DOMAIN groups.offerings : course(o) \in DOMAIN newCs} \ DOMAIN newOs
        /\ DOMAIN next.offerings_updated =
             {o \in DOMAIN groups.offerings \cap DOMAIN newOs :
                 course(o) \in DOMAIN newCs /\ ~Agree(OfferingFields, newOs[o], listed(o))}
        /\ DOMAIN next.offerings_removed =
             {o \in DOMAIN newOs \ DOMAIN groups.offerings : newOs[o].is_active}
    BY BuildIs
  <1>9. ASSUME NEW o \in DOMAIN os
        PROVE  /\ o \in DOMAIN groups.offerings /\ course(o) \in DOMAIN cs =>
                     (~Agree(OfferingFields, newOs[o], listed(o)) <=>
                         o \in DOMAIN ch.offerings_updated /\ <<"offerings_updated", o>> \in skip)
               /\ o \notin DOMAIN groups.offerings =>
                     (newOs[o].is_active <=>
                         o \in DOMAIN ch.offerings_removed /\ <<"offerings_removed", o>> \in skip)
    <2> DEFINE row == newOs[o]
    <2> HIDE DEF FreshReview
    <2>1. row = ApplyToOfferings(kept, DOMAIN cs, os, os)[o]
      OBVIOUS
    <2>2. OfferingEffect(groups, os, ch, skip, o, row)
      BY <2>1, FreshOffering
    <2> HIDE DEF row
    <2>3. Agree(OfferingFields, row, os[o]) =>
             (Agree(OfferingFields, row, listed(o)) <=> Agree(OfferingFields, os[o], listed(o)))
      BY DEF Agree
    <2> HIDE DEF listed
    <2>4. o \in DOMAIN groups.offerings /\ course(o) \in DOMAIN cs =>
             (~Agree(OfferingFields, row, listed(o)) <=>
                 o \in DOMAIN ch.offerings_updated /\ <<"offerings_updated", o>> \in skip)
      BY <1>7, <2>2, <2>3 DEF OfferingEffect, listed
    <2>5. o \notin DOMAIN groups.offerings =>
             (row.is_active <=>
                 o \in DOMAIN ch.offerings_removed /\ <<"offerings_removed", o>> \in skip)
      BY <1>7, <2>2 DEF OfferingEffect
    <2>6. QED
      BY <2>4, <2>5 DEF row
  <1>10. \A o : Agree(OfferingFields, listed(o), listed(o))
    BY DEF Agree
  <1>11. \A o \in DOMAIN groups.offerings \cap DOMAIN os :
            course(o) \in DOMAIN newCs <=> course(o) \in DOMAIN cs
    BY <1>1, <1>3, <1>5
  <1> HIDE DEF inserted, course, listed
  <1>12. DOMAIN next.offerings_added =
           {o \in DOMAIN ch.offerings_added : <<"offerings_added", o>> \in skip}
    BY <1>1, <1>2, <1>5, <1>6, <1>7, <1>8
  <1>13. DOMAIN next.offerings_updated =
           {o \in DOMAIN ch.offerings_updated : <<"offerings_updated", o>> \in skip}
    <2>1. \A o \in DOMAIN next.offerings_updated :
             /\ o \in DOMAIN groups.offerings /\ o \in DOMAIN newOs
             /\ course(o) \in DOMAIN newCs /\ ~Agree(OfferingFields, newOs[o], listed(o))
      BY <1>8
    <2>2. \A o \in DOMAIN next.offerings_updated : o \in DOMAIN os
      BY <1>2, <1>4, <1>10, <2>1
    <2>3. \A o \in DOMAIN next.offerings_updated :
             o \in DOMAIN ch.offerings_updated /\ <<"offerings_updated", o>> \in skip
      BY <1>9, <1>11, <2>1, <2>2
    <2>4. \A o \in DOMAIN ch.offerings_updated :
             /\ o \in DOMAIN groups.offerings /\ o \in DOMAIN os /\ o \in DOMAIN newOs
             /\ course(o) \in DOMAIN cs /\ course(o) \in DOMAIN newCs
      BY <1>2, <1>5, <1>7
    <2>5. \A o \in DOMAIN ch.offerings_updated :
             <<"offerings_updated", o>> \in skip => o \in DOMAIN next.offerings_updated
      BY <1>8, <1>9, <2>4
    <2>6. QED
      BY <2>3, <2>5
  <1>14. DOMAIN next.offerings_removed =
           {o \in DOMAIN ch.offerings_removed : <<"offerings_removed", o>> \in skip}
    BY <1>1, <1>2, <1>7, <1>8, <1>9
  <1>15. QED
    BY <1>12, <1>13, <1>14

(* The changeset that a fresh approval leaves for the next crawl.            *)
LEMMA SkippedRemain ==
    ASSUME NEW groups, NEW cs, NEW os, NEW ch, NEW skip, NEW kept, NEW newCs, NEW newOs,
           FreshApproval(groups, cs, os, ch, skip, kept, newCs, newOs), skip \subseteq Keys(ch)
    PROVE  Keys(BuildChangeset(groups, newCs, newOs)) = skip
  <1> DEFINE next == BuildChangeset(groups, newCs, newOs)
  <1>1. next = BuildChangeset(groups, newCs, newOs)
    OBVIOUS
  <1> HIDE DEF next
  <1>2. /\ DOMAIN next.courses_added =
             {c \in DOMAIN ch.courses_added : <<"courses_added", c>> \in skip}
        /\ DOMAIN next.courses_updated =
             {c \in DOMAIN ch.courses_updated : <<"courses_updated", c>> \in skip}
        /\ DOMAIN next.courses_removed =
             {c \in DOMAIN ch.courses_removed : <<"courses_removed", c>> \in skip}
    BY <1>1, CoursesStagedAgain
  <1>3. /\ DOMAIN next.offerings_added =
             {o \in DOMAIN ch.offerings_added : <<"offerings_added", o>> \in skip}
        /\ DOMAIN next.offerings_updated =
             {o \in DOMAIN ch.offerings_updated : <<"offerings_updated", o>> \in skip}
        /\ DOMAIN next.offerings_removed =
             {o \in DOMAIN ch.offerings_removed : <<"offerings_removed", o>> \in skip}
    BY <1>1, OfferingsStagedAgain
  <1>4. \A s \in Sections : DOMAIN next[s] = {x \in DOMAIN ch[s] : <<s, x>> \in skip}
    BY <1>2, <1>3 DEF Sections
  <1>5. Keys(next) = {k \in Keys(ch) : k \in skip}
    BY <1>4 DEF Keys
  <1>6. QED
    BY <1>5 DEF next

(* An empty changeset says that the catalog shows what the site shows. *)
LEMMA NothingStagedMirrors ==
    ASSUME NEW groups \in GroupShape, NEW cs \in CourseTables, NEW os \in OfferingTables,
           \A o \in DOMAIN os : os[o].course \in DOMAIN cs,
           \A o \in DOMAIN groups.offerings :
              groups.offerings[o].course \in DOMAIN groups.courses,
           Keys(BuildChangeset(groups, cs, os)) = {}
    PROVE  Mirrors(groups, cs, os)
  <1> DEFINE ch == BuildChangeset(groups, cs, os)
  <1>1. ch = BuildChangeset(groups, cs, os)
    OBVIOUS
  <1> HIDE DEF ch
  <1>2. \A s \in Sections : DOMAIN ch[s] = {}
    BY <1>1, KeyIs
  <1>3. /\ DOMAIN ch.courses_added = {} /\ DOMAIN ch.courses_updated = {}
        /\ DOMAIN ch.courses_removed = {}
        /\ DOMAIN ch.offerings_added = {} /\ DOMAIN ch.offerings_updated = {}
        /\ DOMAIN ch.offerings_removed = {}
    BY <1>2 DEF Sections
  <1>4. /\ DOMAIN groups.courses \subseteq DOMAIN cs
        /\ \A c \in DOMAIN groups.courses : Agree(CourseFields, cs[c], ListedCourse(groups, c))
        /\ \A c \in DOMAIN cs \ DOMAIN groups.courses : ~cs[c].is_active
    BY <1>1, <1>3, BuildIs
  <1>5. /\ DOMAIN groups.offerings \subseteq DOMAIN os
        /\ \A o \in DOMAIN groups.offerings :
              Agree(OfferingFields, os[o], ListedOffering(groups, o))
        /\ \A o \in DOMAIN os \ DOMAIN groups.offerings : ~os[o].is_active
    <2>1. /\ {o \in DOMAIN groups.offerings : groups.offerings[o].course \in DOMAIN cs}
                \ DOMAIN os = {}
          /\ {o \in DOMAIN groups.offerings \cap DOMAIN os :
                /\ groups.offerings[o].course \in DOMAIN cs
                /\ ~Agree(OfferingFields, os[o], ListedOffering(groups, o))} = {}
          /\ {o \in DOMAIN os \ DOMAIN groups.offerings : os[o].is_active} = {}
      BY <1>1, <1>3, BuildIs
    <2>2. \A o \in DOMAIN groups.offerings : groups.offerings[o].course \in DOMAIN cs
      BY <1>4
    <2>3. QED
      BY <2>1, <2>2
  <1>6. \A c \in DOMAIN groups.courses : cs[c].data = groups.courses[c] /\ cs[c].is_active = TRUE
    BY <1>4 DEF Agree, CourseFields, ListedCourse
  <1>7. \A o \in DOMAIN groups.offerings :
           os[o].data = groups.offerings[o].data /\ os[o].is_active = TRUE
    BY <1>5 DEF Agree, OfferingFields, ListedOffering
  <1>8. QED
    BY <1>4, <1>5, <1>6, <1>7 DEF Mirrors

(* build_course_groups: an offering belongs to a course that is listed. *)
LEMMA OfferingsOfListed ==
    ASSUME NEW groups \in Groups, NEW o \in DOMAIN groups.offerings
    PROVE  groups.offerings[o].course \in DOMAIN groups.courses
  <1>1. PICK cards \in Tables(CourseCodes, CourseData) :
          \E rows \in Tables(Scheduled, [course : DOMAIN cards, data : OfferingData]) :
             groups = CourseGroups(cards, rows)
    BY DEF Groups
  <1>2. PICK rows \in Tables(Scheduled, [course : DOMAIN cards, data : OfferingData]) :
             groups = CourseGroups(cards, rows)
    BY <1>1
  <1> DEFINE bare == {c \in DOMAIN cards : \A p \in DOMAIN rows : rows[p].course # c}
             synthetic == [p \in {OnDemand(c) : c \in bare} |->
                             [course |-> p[2], data |-> OnDemandData]]
  <1>3. \A p \in DOMAIN rows : rows[p].course \in DOMAIN cards
    <2> DEFINE Row == [course : DOMAIN cards, data : OfferingData]
    <2>1. \A row \in Row : row.course \in DOMAIN cards
      OBVIOUS
    <2>2. rows \in Tables(Scheduled, Row)
      OBVIOUS
    <2> HIDE DEF Row
    <2>3. QED
      BY <2>1, <2>2, TableIs
  <1>4. \A p \in DOMAIN synthetic : synthetic[p].course \in DOMAIN cards
    <2>1. TAKE p \in DOMAIN synthetic
    <2>2. PICK c \in bare : p = OnDemand(c)
      OBVIOUS
    <2>3. p[2] = c
      BY <2>2 DEF OnDemand
    <2>4. QED
      BY <2>3
  <1>5. groups = [courses |-> cards, offerings |-> Over(rows, synthetic)]
    BY <1>2 DEF CourseGroups
  <1> HIDE DEF synthetic
  <1>6. /\ DOMAIN groups.offerings = DOMAIN rows \union DOMAIN synthetic
        /\ groups.offerings[o] = IF o \in DOMAIN synthetic THEN synthetic[o] ELSE rows[o]
    BY <1>5 DEF Over
  <1>7. QED
    BY <1>3, <1>4, <1>5, <1>6

-----------------------------------------------------------------------------
(* Fresh approvals in the sync. *)

(* What the crawl of a run found is what a site can show, and a reviewer     *)
(* skips entries that the run has.                                           *)
GroupsFound == \A r \in RunIds : tasks[r].groups \in Groups

SkipsNamed ==
    \A q \in Requests :
        requests[q].op = "approve" =>
            requests[q].skip \subseteq Keys(runs[requests[q].run].changeset)

(* A step that begins no review, restages no run that is done and keeps what *)
(* was crawled unless it crawls.                                             *)
KeepsReviews ==
    /\ \A q \in Requests :
          requests'[q].op = "approve" =>
             /\ requests[q].op = "approve"
             /\ requests'[q].run = requests[q].run /\ requests'[q].skip = requests[q].skip
    /\ \A r \in RunIds : tasks[r].step = "done" => runs'[r].changeset = runs[r].changeset
    /\ \A r \in RunIds : tasks'[r].groups = tasks[r].groups \/ tasks'[r].groups \in Groups

LEMMA ReviewsKept ==
    ASSUME CatalogIInv, GroupsFound, SkipsNamed, KeepsReviews
    PROVE  GroupsFound' /\ SkipsNamed'
  <1>1. GroupsFound'
    BY DEF GroupsFound, KeepsReviews
  <1>2. ASSUME NEW q \in Requests, requests'[q].op = "approve"
        PROVE  requests'[q].skip \subseteq Keys(runs'[requests'[q].run].changeset)
    <2>1. /\ requests[q].op = "approve"
          /\ requests'[q].run = requests[q].run /\ requests'[q].skip = requests[q].skip
      BY <1>2 DEF KeepsReviews
    <2>2. requests[q].run \in RunIds /\ tasks[requests[q].run].step = "done"
      BY <2>1 DEF CatalogIInv, RequestsOK, RequestOK
    <2>3. runs'[requests[q].run].changeset = runs[requests[q].run].changeset
      BY <2>2 DEF KeepsReviews
    <2>4. QED
      BY <2>1, <2>3 DEF SkipsNamed
  <1>3. QED
    BY <1>1, <1>2 DEF SkipsNamed

(* A request that ends or starts, beside runs and tasks that keep. *)
LEMMA EndsKeep ==
    ASSUME CatalogIInv, NEW q \in Requests, NEW x, x.op # "approve",
           requests' = [requests EXCEPT ![q] = x],
           \A r \in RunIds : /\ runs'[r].changeset = runs[r].changeset
                             /\ tasks'[r].groups = tasks[r].groups
    PROVE  KeepsReviews
  BY DEF KeepsReviews, CatalogIInv, Shapes

LEMMA ReviewsInit == Init => GroupsFound /\ SkipsNamed
  BY NothingCrawled, IdleIs DEF Init, GroupsFound, SkipsNamed

LEMMA ReviewsStep == CatalogIInv /\ GroupsFound /\ SkipsNamed /\ [Next]_vars
                     => GroupsFound' /\ SkipsNamed'
  <1> SUFFICES ASSUME CatalogIInv, GroupsFound, SkipsNamed, [Next]_vars
               PROVE  GroupsFound' /\ SkipsNamed'
    OBVIOUS
  <1>1. /\ runs \in [RunIds -> RunShape] /\ tasks \in [RunIds -> TaskShape]
        /\ requests \in [Requests -> RequestShape]
    BY DEF CatalogIInv, Shapes
  <1>2. ASSUME NEW q \in Requests, BeginStart(q) PROVE KeepsReviews
    <2> DEFINE x == [Idle EXCEPT !.op = "start", !.step = "open"]
    <2>1. x.op # "approve"
      BY DEF Idle
    <2>2. requests' = [requests EXCEPT ![q] = x] /\ UNCHANGED <<runs, tasks>>
      BY <1>2 DEF BeginStart
    <2> HIDE DEF x
    <2>3. QED
      BY <2>1, <2>2, EndsKeep
  <1>3. ASSUME NEW q \in Requests, NEW r \in RunIds, OpenRun(q, r) PROVE KeepsReviews
    <2>1. /\ requests' = [requests EXCEPT ![q] = Idle]
          /\ runs' = [runs EXCEPT ![r].status = "running"]
          /\ tasks' = [tasks EXCEPT ![r].step = "crawl"]
      BY <1>3 DEF OpenRun, Opens
    <2>2. \A k \in RunIds : /\ runs'[k].changeset = runs[k].changeset
                            /\ tasks'[k].groups = tasks[k].groups
      BY <1>1, <2>1 DEF RunShape, TaskShape
    <2>3. QED
      BY <2>1, <2>2, IdleIs, EndsKeep
  <1>4. ASSUME NEW q \in Requests, NEW r \in RunIds, Review(q, r)
        PROVE  GroupsFound' /\ SkipsNamed'
    <2>1. ASSUME NEW op \in {"approve", "reject"}, NEW skip \in SUBSET Keys(runs[r].changeset),
                 BeginReview(q, op, r, skip)
          PROVE  GroupsFound' /\ SkipsNamed'
      <3> DEFINE x == [Idle EXCEPT !.op = op, !.run = r, !.skip = skip,
                                   !.step = IF op = "approve" THEN "read" ELSE "decide"]
      <3>1. x.run = r /\ x.skip = skip
        BY DEF Idle
      <3>2. requests' = [requests EXCEPT ![q] = x] /\ UNCHANGED <<runs, tasks>>
        BY <2>1 DEF BeginReview
      <3> HIDE DEF x
      <3>3. QED
        BY <1>1, <3>1, <3>2 DEF GroupsFound, SkipsNamed
    <2>2. {} \in SUBSET Keys(runs[r].changeset)
      OBVIOUS
    <2>3. QED
      BY <1>4, <2>1, <2>2 DEF Review
  <1>5. ASSUME NEW q \in Requests, ReadCatalog(q) PROVE KeepsReviews
    BY <1>1, <1>5 DEF ReadCatalog, KeepsReviews, RequestShape
  <1>6. ASSUME NEW q \in Requests, NEW status, Decide(q, status) PROVE KeepsReviews
    <2>1. /\ requests' = [requests EXCEPT ![q] = Idle] /\ UNCHANGED tasks
          /\ runs' = [runs EXCEPT ![requests[q].run].status = status]
      BY <1>6 DEF Decide
    <2>2. \A k \in RunIds : runs'[k].changeset = runs[k].changeset
      BY <1>1, <2>1 DEF RunShape
    <2>3. QED
      BY <2>1, <2>2, IdleIs, EndsKeep
  <1>7. ASSUME NEW q \in Requests, ApprovalFails(q) \/ Abandon(q) PROVE KeepsReviews
    <2>1. requests' = [requests EXCEPT ![q] = Idle] /\ UNCHANGED <<runs, tasks>>
      BY <1>7 DEF ApprovalFails, Abandon
    <2>2. QED
      BY <2>1, IdleIs, EndsKeep
  <1>8. ASSUME NEW r \in RunIds, Fail(r), UNCHANGED requests PROVE KeepsReviews
    <2>1. /\ runs' = [runs EXCEPT ![r].status = "failed"]
          /\ tasks' = [tasks EXCEPT ![r] = [NoTask EXCEPT !.step = "done"]]
      BY <1>8 DEF Fail
    <2>2. [NoTask EXCEPT !.step = "done"].groups = NoTask.groups
      BY DEF NoTask
    <2>3. \A k \in RunIds : runs'[k].changeset = runs[k].changeset
      BY <1>1, <2>1 DEF RunShape
    <2>4. \A k \in RunIds : tasks'[k].groups = tasks[k].groups \/ tasks'[k].groups \in Groups
      BY <1>1, <2>1, <2>2, NothingCrawled
    <2>5. QED
      BY <1>8, <2>3, <2>4 DEF KeepsReviews
  <1>9. ASSUME NEW r \in RunIds, NEW step \in {"dead", "lost"}, LeavesRunning(r, step)
        PROVE  KeepsReviews
    <2>1. /\ tasks' = [tasks EXCEPT ![r] = [NoTask EXCEPT !.step = step]]
          /\ UNCHANGED <<runs, requests>>
      BY <1>9 DEF LeavesRunning
    <2>2. [NoTask EXCEPT !.step = step].groups = NoTask.groups
      BY DEF NoTask
    <2>3. \A k \in RunIds : tasks'[k].groups = tasks[k].groups \/ tasks'[k].groups \in Groups
      BY <1>1, <2>1, <2>2, NothingCrawled
    <2>4. QED
      BY <2>1, <2>3 DEF KeepsReviews
  <1>10. ASSUME NEW r \in RunIds, Task(r) PROVE KeepsReviews
    <2>1. CASE CrawlFails(r)
      BY <1>8, <2>1 DEF CrawlFails
    <2>2. ASSUME NEW groups \in Groups, Crawl(r, groups) PROVE KeepsReviews
      <3>1. CASE Fail(r)
        BY <1>8, <2>2, <3>1 DEF Crawl
      <3>2. CASE tasks' = [tasks EXCEPT ![r] =
                             [step |-> "diff", groups |-> groups, courses |-> courses]]
                 /\ UNCHANGED runs
        <4>1. \A k \in RunIds : tasks'[k].groups = tasks[k].groups \/ tasks'[k].groups \in Groups
          BY <1>1, <3>2
        <4>2. UNCHANGED requests
          BY <2>2 DEF Crawl
        <4>3. QED
          BY <3>2, <4>1, <4>2 DEF KeepsReviews
      <3>3. QED
        BY <2>2, <3>1, <3>2 DEF Crawl
    <2>3. CASE Stage(r)
      <3>1. /\ tasks[r].step = "diff" /\ UNCHANGED requests
            /\ \A k \in RunIds \ {r} : runs'[k] = runs[k]
        BY <1>1, <2>3 DEF Stage
      <3>2. tasks' = [tasks EXCEPT ![r].step = "done", ![r].courses = EmptyTable]
        BY <2>3 DEF Stage
      <3>3. \A k \in RunIds : tasks'[k].groups = tasks[k].groups
        BY <1>1, <3>2 DEF TaskShape
      <3>4. QED
        BY <3>1, <3>3 DEF KeepsReviews
    <2>4. CASE CommitFails(r)
      BY <1>9, <2>4 DEF CommitFails
    <2>5. QED
      BY <1>10, <2>1, <2>2, <2>3, <2>4 DEF Task
  <1>11. ASSUME NEW r \in RunIds, TaskDies(r) PROVE KeepsReviews
    BY <1>9, <1>11 DEF TaskDies
  <1>12. ASSUME UNCHANGED vars PROVE KeepsReviews
    BY <1>12 DEF vars, KeepsReviews
  <1>13. \A q \in Requests : Approve(q) \/ Reject(q) => KeepsReviews
    BY <1>6 DEF Approve, Reject
  <1>14. KeepsReviews \/ \E q \in Requests, r \in RunIds : Review(q, r)
    BY <1>2, <1>3, <1>5, <1>7, <1>10, <1>11, <1>12, <1>13 DEF Next
  <1>15. KeepsReviews => GroupsFound' /\ SkipsNamed'
    BY ReviewsKept
  <1>16. QED
    BY <1>4, <1>14, <1>15

(* The invariant of the sync, with what a reviewer sees. *)
ReviewInv == CatalogIInv /\ GroupsFound /\ SkipsNamed

LEMMA ReviewInvariant == Spec => []ReviewInv
  <1>1. Init => ReviewInv
    BY CatalogInit, ReviewsInit DEF ReviewInv
  <1>2. ReviewInv /\ [Next]_vars => ReviewInv'
    BY CatalogNext, ReviewsStep DEF ReviewInv
  <1>3. QED
    BY <1>1, <1>2, PTL DEF Spec

(* A commit of a fresh review is a fresh approval. *)
LEMMA CommitIsFresh ==
    ASSUME CatalogIInv, CatalogIInv', NEW q \in Requests, Commits(q), Fresh(q),
           NEW r, r = requests[q].run
    PROVE  FreshApproval(tasks[r].groups, courses, offerings, runs[r].changeset,
                         requests[q].skip, Kept(q), courses', offerings')
  <1>1. /\ requests[q].op = "approve" /\ ~Conflicting(q)
        /\ courses' = ApplyToCourses(Kept(q), requests[q].courses, courses)
        /\ offerings' = ApplyToOfferings(Kept(q), DOMAIN requests[q].courses,
                                         requests[q].offerings, offerings)
    BY DEF Commits, Approve
  <1>2. /\ requests[q].courses = courses /\ requests[q].offerings = offerings
        /\ runs[r].changeset = BuildChangeset(tasks[r].groups, courses, offerings)
    BY DEF Fresh
  <1>3. r \in RunIds
    BY <1>1 DEF CatalogIInv, RequestsOK, RequestOK
  <1>4. tasks[r].groups \in GroupShape
    BY <1>3 DEF CatalogIInv, Shapes, TaskShape
  <1>5. Kept(q) = FilterChangeset(runs[r].changeset, requests[q].skip)
    BY DEF Kept
  <1>6. /\ courses \in CourseTables /\ offerings \in OfferingTables
        /\ \A o \in DOMAIN offerings : offerings[o].course \in DOMAIN courses
    BY DEF CatalogIInv, Shapes, OfferingsOK
  <1>7. /\ courses' \in CourseTables /\ offerings' \in OfferingTables
        /\ \A o \in DOMAIN offerings' : offerings'[o].course \in DOMAIN courses'
    BY DEF CatalogIInv, Shapes, OfferingsOK
  <1>8. FreshReview(tasks[r].groups, courses, offerings, runs[r].changeset,
                    requests[q].skip, Kept(q))
    BY <1>2, <1>4, <1>5, <1>6 DEF FreshReview
  <1>9. ~Conflicts(Kept(q), DOMAIN courses, courses, offerings)
    BY <1>1, <1>2 DEF Conflicting
  <1>10. QED
    BY <1>1, <1>2, <1>7, <1>8, <1>9 DEF FreshApproval

LEMMA FreshCommit ==
    ASSUME ReviewInv, CatalogIInv', NEW q \in Requests, Commits(q), Fresh(q),
           NEW groups, groups = tasks[requests[q].run].groups
    PROVE  /\ Keys(BuildChangeset(groups, courses', offerings')) = requests[q].skip
           /\ requests[q].skip = {} => Mirrors(groups, courses', offerings')
  <1> DEFINE r == requests[q].run
  <1>1. CatalogIInv /\ GroupsFound /\ SkipsNamed
    BY DEF ReviewInv
  <1>2. requests[q].op = "approve" /\ r \in RunIds
    BY <1>1 DEF Commits, CatalogIInv, RequestsOK, RequestOK
  <1>3. FreshApproval(groups, courses, offerings, runs[r].changeset,
                      requests[q].skip, Kept(q), courses', offerings')
    BY <1>1, CommitIsFresh
  <1>4. requests[q].skip \subseteq Keys(runs[r].changeset)
    BY <1>1, <1>2 DEF SkipsNamed
  <1>5. Keys(BuildChangeset(groups, courses', offerings')) = requests[q].skip
    BY <1>3, <1>4, SkippedRemain
  <1>6. ASSUME requests[q].skip = {} PROVE Mirrors(groups, courses', offerings')
    <2>1. groups \in Groups
      BY <1>1, <1>2 DEF GroupsFound
    <2>2. /\ courses' \in CourseTables /\ offerings' \in OfferingTables
          /\ \A o \in DOMAIN offerings' : offerings'[o].course \in DOMAIN courses'
      BY DEF CatalogIInv, Shapes, OfferingsOK
    <2>3. groups \in GroupShape
      BY <2>1, GroupsShape
    <2>4. \A o \in DOMAIN groups.offerings : groups.offerings[o].course \in DOMAIN groups.courses
      BY <2>1, OfferingsOfListed
    <2>5. Keys(BuildChangeset(groups, courses', offerings')) = {}
      BY <1>5, <1>6
    <2>6. QED
      BY <2>2, <2>3, <2>4, <2>5, NothingStagedMirrors
  <1>7. QED
    BY <1>5, <1>6

(* The approval of a changeset that fits the catalog leaves for the next     *)
(* crawl of the same site (build_changeset) just the entries the reviewer    *)
(* left out (filter_changeset), whatever they are.                           *)
THEOREM SkippedStay == Spec => OnlySkippedRemains
  <1> DEFINE Remains ==
        \A q \in Requests : Commits(q) /\ Fresh(q) =>
          LET r == requests[q].run IN
          Keys(BuildChangeset(tasks[r].groups, courses', offerings')) = requests[q].skip
  <1>1. ReviewInv /\ CatalogIInv' => Remains
    BY FreshCommit
  <1>2. ReviewInv /\ ReviewInv' => [Remains]_vars
    BY <1>1 DEF ReviewInv
  <1> HIDE DEF Remains
  <1>3. Spec => [][Remains]_vars
    BY <1>2, ReviewInvariant, PTL
  <1>4. QED
    BY <1>3 DEF Remains, OnlySkippedRemains

(* Approved in full, it makes the catalog show what the site shows           *)
(* (apply_changeset): every listed row with its data, and no other active.   *)
THEOREM FullApprovalComplete == Spec => FullApprovalMirrors
  <1> DEFINE Complete ==
        \A q \in Requests : Commits(q) /\ Fresh(q) /\ requests[q].skip = {} =>
          Mirrors(tasks[requests[q].run].groups, courses', offerings')
  <1>1. ReviewInv /\ CatalogIInv' => Complete
    BY FreshCommit
  <1>2. ReviewInv /\ ReviewInv' => [Complete]_vars
    BY <1>1 DEF ReviewInv
  <1> HIDE DEF Complete
  <1>3. Spec => [][Complete]_vars
    BY <1>2, ReviewInvariant, PTL
  <1>4. QED
    BY <1>3 DEF Complete, FullApprovalMirrors

-----------------------------------------------------------------------------
(* One request at a time.                                                    *)

OneRequest == \A p, q \in Requests : p = q

(* No two runs are open, and none is while a request is about to open one.   *)
OneOpen ==
    /\ \A r, s \in OpenRuns : r = s
    /\ \A q \in Requests : requests[q].op = "start" => OpenRuns = {}

(* What a task has read of the catalog, and what it has staged, is true.     *)
RunFits(run, task, cs, os) ==
    /\ task.step = "diff" => task.courses = cs
    /\ run.status = "pending" => run.changeset = BuildChangeset(task.groups, cs, os)

(* A review is of a run that still waits, and what it has read is true.      *)
ReviewFits(request, rs, cs, os) ==
    /\ request.op \in {"approve", "reject"} => rs[request.run].status = "pending"
    /\ request.op = "approve" /\ request.step = "decide" =>
          request.courses = cs /\ request.offerings = os

CatalogSeqInv ==
    /\ OneOpen
    /\ \A r \in RunIds : RunFits(runs[r], tasks[r], courses, offerings)
    /\ \A q \in Requests : ReviewFits(requests[q], runs, courses, offerings)

LEMMA IdleFits == \A rs, cs, os : ReviewFits(Idle, rs, cs, os)
  BY DEF Idle, ReviewFits

LEMMA CatalogSeqInit == Init => CatalogSeqInv
  <1> SUFFICES ASSUME Init PROVE CatalogSeqInv
    OBVIOUS
  <1>1. NoRun.status = "none" /\ NoTask.step = "none"
    BY DEF NoRun, NoTask
  <1>2. OneOpen
    BY <1>1, IdleIs DEF Init, OneOpen, OpenRuns, Open
  <1>3. \A r \in RunIds : RunFits(runs[r], tasks[r], courses, offerings)
    BY <1>1 DEF Init, RunFits
  <1>4. QED
    BY <1>2, <1>3, IdleFits DEF Init, CatalogSeqInv

(* A step that only changes a request. *)
LEMMA RequestStaysFit ==
    ASSUME CatalogIInv, CatalogSeqInv, NEW q \in Requests, NEW x,
           requests' = [requests EXCEPT ![q] = x],
           UNCHANGED <<courses, offerings, runs, tasks>>,
           ReviewFits(x, runs, courses, offerings),
           x.op = "start" => OpenRuns = {}
    PROVE  CatalogSeqInv'
  <1>1. /\ requests'[q] = x
        /\ \A p \in Requests \ {q} : requests'[p] = requests[p]
    BY DEF CatalogIInv, Shapes
  <1>2. OpenRuns' = OpenRuns
    BY DEF OpenRuns
  <1>3. OneOpen'
    BY <1>1, <1>2 DEF CatalogSeqInv, OneOpen
  <1>4. \A p \in Requests : ReviewFits(requests'[p], runs, courses, offerings)
    BY <1>1 DEF CatalogSeqInv
  <1>5. QED
    BY <1>3, <1>4 DEF CatalogSeqInv

(* A step of the task of a run that was opened and is not yet staged. *)
LEMMA TaskStaysFit ==
    ASSUME CatalogIInv, CatalogSeqInv, NEW r \in RunIds, NEW x, NEW y,
           runs' = [runs EXCEPT ![r] = x], tasks' = [tasks EXCEPT ![r] = y],
           UNCHANGED <<courses, offerings, requests>>,
           tasks[r].step \in {"crawl", "diff"}, RunFits(x, y, courses, offerings)
    PROVE  CatalogSeqInv'
  <1>1. /\ runs'[r] = x /\ tasks'[r] = y
        /\ \A s \in RunIds \ {r} : runs'[s] = runs[s] /\ tasks'[s] = tasks[s]
    BY DEF CatalogIInv, Shapes
  <1>2. runs[r].status = "running"
    BY DEF CatalogIInv, RunsOK, RunAndTask
  <1>3. OneOpen'
    <2>1. OpenRuns' \subseteq OpenRuns
      BY <1>1, <1>2 DEF OpenRuns, Open
    <2>2. QED
      BY <2>1 DEF CatalogSeqInv, OneOpen
  <1>4. \A s \in RunIds : RunFits(runs'[s], tasks'[s], courses, offerings)
    BY <1>1 DEF CatalogSeqInv
  <1>5. ASSUME NEW q \in Requests PROVE ReviewFits(requests[q], runs', courses, offerings)
    <2>1. ReviewFits(requests[q], runs, courses, offerings)
      BY DEF CatalogSeqInv
    <2>2. requests[q].op \in {"approve", "reject"} => requests[q].run \in RunIds \ {r}
      BY DEF CatalogIInv, RequestsOK, RequestOK
    <2>3. QED
      BY <1>1, <2>1, <2>2 DEF ReviewFits
  <1>6. QED
    BY <1>3, <1>4, <1>5 DEF CatalogSeqInv

LEMMA OpeningFits ==
    ASSUME OneRequest, CatalogIInv, CatalogSeqInv,
           NEW q \in Requests, NEW r \in RunIds, OpenRun(q, r)
    PROVE  CatalogSeqInv'
  <1>1. /\ requests[q].op = "start" /\ runs[r].status = "none"
        /\ runs' = [runs EXCEPT ![r].status = "running"]
        /\ tasks' = [tasks EXCEPT ![r].step = "crawl"]
        /\ requests' = [requests EXCEPT ![q] = Idle]
        /\ UNCHANGED <<courses, offerings>>
    BY DEF OpenRun, Opens
  <1>2. /\ runs'[r].status = "running" /\ tasks'[r].step = "crawl"
        /\ \A s \in RunIds \ {r} : runs'[s] = runs[s] /\ tasks'[s] = tasks[s]
        /\ \A p \in Requests : requests'[p] = Idle
    BY <1>1 DEF OneRequest, CatalogIInv, Shapes, RunShape, TaskShape
  <1>3. OneOpen'
    <2>1. OpenRuns = {}
      BY <1>1 DEF CatalogSeqInv, OneOpen
    <2>2. OpenRuns' \subseteq {r}
      BY <1>2, <2>1 DEF OpenRuns
    <2>3. QED
      BY <1>2, <2>2, IdleIs DEF OneOpen
  <1>4. \A s \in RunIds : RunFits(runs'[s], tasks'[s], courses, offerings)
    BY <1>2 DEF CatalogSeqInv, RunFits
  <1>5. QED
    BY <1>1, <1>2, <1>3, <1>4, IdleFits DEF CatalogSeqInv

(* A decision ends the only request and closes the only open run, so nothing *)
(* is left that could be stale, whatever it wrote.                           *)
LEMMA DecisionFits ==
    ASSUME OneRequest, CatalogIInv, CatalogSeqInv, NEW q \in Requests,
           NEW status \in {"approved", "rejected"},
           requests[q].op \in {"approve", "reject"}, Decide(q, status)
    PROVE  CatalogSeqInv'
  <1> DEFINE r == requests[q].run
  <1>1. r \in RunIds /\ runs[r].status = "pending"
    BY DEF CatalogIInv, RequestsOK, RequestOK, CatalogSeqInv, ReviewFits
  <1>2. /\ runs' = [runs EXCEPT ![r].status = status] /\ tasks' = tasks
        /\ requests' = [requests EXCEPT ![q] = Idle]
    BY DEF Decide
  <1>3. \A s \in RunIds : s \in OpenRuns => s = r
    BY <1>1 DEF CatalogSeqInv, OneOpen, OpenRuns, Open
  <1> HIDE DEF r
  <1>4. /\ runs'[r].status = status
        /\ \A s \in RunIds \ {r} : runs'[s] = runs[s]
        /\ \A p \in Requests : requests'[p] = Idle
    BY <1>1, <1>2 DEF OneRequest, CatalogIInv, Shapes, RunShape
  <1>5. \A s \in RunIds : runs'[s].status \notin Open
    BY <1>3, <1>4 DEF OpenRuns, Open
  <1>6. OneOpen'
    BY <1>4, <1>5, IdleIs DEF OneOpen, OpenRuns
  <1>7. ASSUME NEW s \in RunIds PROVE RunFits(runs'[s], tasks'[s], courses', offerings')
    <2>1. tasks[s].step = "diff" => runs[s].status = "running"
      BY DEF CatalogIInv, RunsOK, RunAndTask
    <2>2. tasks[s].step # "diff"
      BY <1>1, <1>4, <1>5, <2>1 DEF Open
    <2>3. QED
      BY <1>2, <1>5, <2>2 DEF RunFits, Open
  <1>8. QED
    BY <1>4, <1>6, <1>7, IdleFits DEF CatalogSeqInv

LEMMA TasksFit ==
    ASSUME CatalogIInv, CatalogSeqInv, NEW r \in RunIds, Task(r) \/ TaskDies(r)
    PROVE  CatalogSeqInv'
  <1>1. /\ runs \in [RunIds -> RunShape] /\ tasks \in [RunIds -> TaskShape]
        /\ RunAndTask(runs[r], tasks[r]) /\ RunFits(runs[r], tasks[r], courses, offerings)
    BY DEF CatalogIInv, Shapes, RunsOK, CatalogSeqInv
  <1>2. ASSUME tasks[r].step \in {"crawl", "diff"}, Fail(r),
               UNCHANGED <<courses, offerings, requests>>
        PROVE  CatalogSeqInv'
    <2> DEFINE x == [runs[r] EXCEPT !.status = "failed"]
               y == [NoTask EXCEPT !.step = "done"]
    <2>1. RunFits(x, y, courses, offerings)
      BY <1>1 DEF RunFits, NoTask, RunShape
    <2>2. runs' = [runs EXCEPT ![r] = x] /\ tasks' = [tasks EXCEPT ![r] = y]
      BY <1>2 DEF Fail
    <2> HIDE DEF x, y
    <2>3. QED
      BY <1>2, <2>1, <2>2, TaskStaysFit
  <1>3. CASE CrawlFails(r)
    BY <1>2, <1>3 DEF CrawlFails
  <1>4. ASSUME NEW groups \in Groups, Crawl(r, groups) PROVE CatalogSeqInv'
    <2>1. tasks[r].step = "crawl" /\ UNCHANGED <<courses, offerings, requests>>
      BY <1>4 DEF Crawl
    <2>2. CASE Fail(r)
      BY <1>2, <2>1, <2>2
    <2>3. CASE ~Fail(r)
      <3> DEFINE y == [step |-> "diff", groups |-> groups, courses |-> courses]
      <3>1. tasks' = [tasks EXCEPT ![r] = y] /\ runs' = runs
        BY <1>4, <2>3 DEF Crawl
      <3>2. runs' = [runs EXCEPT ![r] = runs[r]]
        BY <1>1, <3>1
      <3>3. RunFits(runs[r], y, courses, offerings)
        BY <1>1, <2>1 DEF RunFits, RunAndTask
      <3> HIDE DEF y
      <3>4. QED
        BY <2>1, <3>1, <3>2, <3>3, TaskStaysFit
    <2>4. QED
      BY <2>2, <2>3
  <1>5. CASE Stage(r)
    <2> DEFINE ch == BuildChangeset(tasks[r].groups, tasks[r].courses, offerings)
               x == [status |-> "pending", changeset |-> ch]
               y == [tasks[r] EXCEPT !.step = "done", !.courses = EmptyTable]
    <2>1. /\ tasks[r].step = "diff" /\ UNCHANGED <<courses, offerings, requests>>
          /\ runs' = [runs EXCEPT ![r] = x]
      BY <1>5 DEF Stage, Difference
    <2>2. tasks' = [tasks EXCEPT ![r] = y]
      BY <1>1, <1>5 DEF Stage
    <2>3. tasks[r].courses = courses
      BY <1>1, <2>1 DEF RunFits
    <2>4. y.groups = tasks[r].groups /\ y.step = "done"
      BY <1>1 DEF TaskShape
    <2>5. RunFits(x, y, courses, offerings)
      BY <2>3, <2>4 DEF RunFits
    <2> HIDE DEF x, y
    <2>6. QED
      BY <2>1, <2>2, <2>5, TaskStaysFit
  <1>6. ASSUME tasks[r].step \in {"crawl", "diff"}, NEW step \in {"dead", "lost"},
               LeavesRunning(r, step)
        PROVE  CatalogSeqInv'
    <2> DEFINE y == [NoTask EXCEPT !.step = step]
    <2>1. /\ tasks[r].step \in {"crawl", "diff"} /\ tasks' = [tasks EXCEPT ![r] = y]
          /\ UNCHANGED <<courses, offerings, requests, runs>>
      BY <1>6 DEF LeavesRunning
    <2>2. runs' = [runs EXCEPT ![r] = runs[r]]
      BY <1>1, <2>1
    <2>3. RunFits(runs[r], y, courses, offerings)
      BY <1>1, <2>1 DEF RunFits, RunAndTask, NoTask
    <2> HIDE DEF y
    <2>4. QED
      BY <2>1, <2>2, <2>3, TaskStaysFit
  <1>7. CASE CommitFails(r) \/ TaskDies(r)
    BY <1>6, <1>7 DEF CommitFails, TaskDies
  <1>8. QED
    BY <1>3, <1>4, <1>5, <1>7 DEF Task

LEMMA ReviewBeginsFit ==
    ASSUME CatalogIInv, CatalogSeqInv, NEW q \in Requests, NEW r \in RunIds,
           NEW op \in {"approve", "reject"}, NEW skip, BeginReview(q, op, r, skip)
    PROVE  CatalogSeqInv'
  <1> DEFINE x == [Idle EXCEPT !.op = op, !.run = r, !.skip = skip,
                               !.step = IF op = "approve" THEN "read" ELSE "decide"]
  <1>1. /\ runs[r].status = "pending" /\ requests' = [requests EXCEPT ![q] = x]
        /\ UNCHANGED <<courses, offerings, runs, tasks>>
    BY DEF BeginReview
  <1>2. x.op = op /\ x.run = r /\ (x.op = "approve" => x.step = "read")
    BY DEF Idle
  <1> HIDE DEF x
  <1>3. ReviewFits(x, runs, courses, offerings) /\ x.op # "start"
    BY <1>1, <1>2 DEF ReviewFits
  <1>4. QED
    BY <1>1, <1>3, RequestStaysFit

LEMMA RequestsFit ==
    ASSUME CatalogIInv, CatalogSeqInv, NEW q \in Requests,
           BeginStart(q) \/ ReadCatalog(q) \/ ApprovalFails(q) \/ Abandon(q)
    PROVE  CatalogSeqInv'
  <1>1. CASE BeginStart(q)
    <2> DEFINE x == [Idle EXCEPT !.op = "start", !.step = "open"]
    <2>1. x.op = "start"
      BY DEF Idle
    <2>2. /\ requests' = [requests EXCEPT ![q] = x] /\ OpenRuns = {}
          /\ UNCHANGED <<courses, offerings, runs, tasks>>
      BY <1>1 DEF BeginStart, NoOpenRun
    <2> HIDE DEF x
    <2>3. ReviewFits(x, runs, courses, offerings)
      BY <2>1 DEF ReviewFits
    <2>4. QED
      BY <2>2, <2>3, RequestStaysFit
  <1>2. CASE ReadCatalog(q)
    <2> DEFINE x == [requests[q] EXCEPT !.step = "decide", !.courses = courses,
                                        !.offerings = offerings]
    <2>1. /\ requests[q] \in RequestShape /\ ReviewFits(requests[q], runs, courses, offerings)
          /\ requests[q].op = "approve"
      BY <1>2 DEF ReadCatalog, CatalogIInv, Shapes, CatalogSeqInv
    <2>2. requests' = [requests EXCEPT ![q] = x] /\ UNCHANGED <<courses, offerings, runs, tasks>>
      BY <1>2 DEF ReadCatalog, CatalogIInv, Shapes
    <2>3. /\ x.op = "approve" /\ x.run = requests[q].run
          /\ x.courses = courses /\ x.offerings = offerings
      BY <2>1 DEF RequestShape
    <2> HIDE DEF x
    <2>4. ReviewFits(x, runs, courses, offerings)
      BY <2>1, <2>3 DEF ReviewFits
    <2>5. QED
      BY <2>2, <2>3, <2>4, RequestStaysFit
  <1>3. CASE ApprovalFails(q) \/ Abandon(q)
    <2>1. requests' = [requests EXCEPT ![q] = Idle] /\ UNCHANGED <<courses, offerings, runs, tasks>>
      BY <1>3 DEF ApprovalFails, Abandon
    <2>2. QED
      BY <2>1, IdleIs, IdleFits, RequestStaysFit
  <1>4. QED
    BY <1>1, <1>2, <1>3

LEMMA CatalogSeqNext ==
    ASSUME OneRequest
    PROVE  CatalogIInv /\ CatalogSeqInv /\ [Next]_vars => CatalogSeqInv'
  <1> SUFFICES ASSUME CatalogIInv, CatalogSeqInv, [Next]_vars PROVE CatalogSeqInv'
    OBVIOUS
  <1>1. ASSUME NEW q \in Requests, NEW r \in RunIds, OpenRun(q, r) PROVE CatalogSeqInv'
    BY <1>1, OpeningFits
  <1>2. ASSUME NEW q \in Requests, NEW r \in RunIds, Review(q, r) PROVE CatalogSeqInv'
    BY <1>2, ReviewBeginsFit DEF Review
  <1>3. ASSUME NEW q \in Requests, Approve(q) \/ Reject(q) PROVE CatalogSeqInv'
    <2>1. /\ requests[q].op \in {"approve", "reject"}
          /\ Decide(q, "approved") \/ Decide(q, "rejected")
      BY <1>3 DEF Approve, Reject
    <2>2. QED
      BY <2>1, DecisionFits
  <1>4. ASSUME NEW q \in Requests,
               BeginStart(q) \/ ReadCatalog(q) \/ ApprovalFails(q) \/ Abandon(q)
        PROVE  CatalogSeqInv'
    BY <1>4, RequestsFit
  <1>5. ASSUME NEW r \in RunIds, Task(r) \/ TaskDies(r) PROVE CatalogSeqInv'
    BY <1>5, TasksFit
  <1>6. CASE UNCHANGED vars
    <2>1. OpenRuns' = OpenRuns
      BY <1>6 DEF vars, OpenRuns
    <2>2. QED
      BY <1>6, <2>1 DEF vars, CatalogSeqInv, OneOpen
  <1>7. QED
    BY <1>1, <1>2, <1>3, <1>4, <1>5, <1>6 DEF Next

LEMMA CatalogSeqInvariant ==
    ASSUME OneRequest
    PROVE  Spec => [](CatalogIInv /\ CatalogSeqInv)
  BY CatalogInit, CatalogNext, CatalogSeqInit, CatalogSeqNext, PTL DEF Spec

(* An approval that commits finds the catalog its run was compared with. *)
LEMMA CommitsFresh ==
    ASSUME CatalogIInv, CatalogSeqInv, NEW q \in Requests, Commits(q)
    PROVE  Fresh(q)
  <1> DEFINE r == requests[q].run
  <1>1. requests[q].op = "approve" /\ requests[q].step = "decide"
    BY DEF Commits, Approve
  <1>2. /\ r \in RunIds /\ runs[r].status = "pending"
        /\ requests[q].courses = courses /\ requests[q].offerings = offerings
    BY <1>1 DEF CatalogIInv, RequestsOK, RequestOK, CatalogSeqInv, ReviewFits
  <1>3. RunFits(runs[r], tasks[r], courses, offerings)
    BY <1>2 DEF CatalogSeqInv
  <1>4. runs[r].changeset = BuildChangeset(tasks[r].groups, courses, offerings)
    BY <1>2, <1>3 DEF RunFits
  <1>5. QED
    BY <1>2, <1>4 DEF Fresh

(* One request at a time, an approval always finds the catalog its run was   *)
(* compared with (start_sync, assert_reviewable): SkippedStay and            *)
(* FullApprovalComplete then hold of every approval there is.                *)
THEOREM FreshWhenAlone ==
    ASSUME OneRequest
    PROVE  Spec => ApprovalsAreFresh
  <1> DEFINE AllFresh == \A q \in Requests : Commits(q) => Fresh(q)
  <1>1. CatalogIInv /\ CatalogSeqInv => AllFresh
    BY CommitsFresh
  <1>2. CatalogIInv /\ CatalogSeqInv => [AllFresh]_vars
    BY <1>1
  <1> HIDE DEF AllFresh
  <1>3. Spec => [][AllFresh]_vars
    BY <1>2, CatalogSeqInvariant, PTL
  <1>4. QED
    BY <1>3 DEF AllFresh, ApprovalsAreFresh

-----------------------------------------------------------------------------
(* The mirror.                                                               *)

(* Two tables show the same of a code. *)
SameOf(x, f, g) ==
    /\ x \in DOMAIN f <=> x \in DOMAIN g
    /\ x \in DOMAIN f => f[x] = g[x]

(* A table that says of each code what one of two others says is the one     *)
(* with the other adopted for some of them.                                  *)
LEMMA AdoptedIs ==
    ASSUME NEW Codes, NEW old, NEW listed, NEW new,
           new = [x \in DOMAIN new |-> new[x]],
           DOMAIN old \subseteq Codes, DOMAIN listed \subseteq Codes, DOMAIN new \subseteq Codes,
           \A x \in Codes : SameOf(x, new, old) \/ SameOf(x, new, listed)
    PROVE  \E some \in SUBSET Codes : new = Mirror!Adopted(old, listed, some)
  <1> DEFINE some == {x \in Codes : SameOf(x, new, listed)}
             both == (DOMAIN old \ some) \union (DOMAIN listed \cap some)
             value(x) == IF x \in some THEN listed[x] ELSE old[x]
  <1>1. \A x \in Codes : x \in some <=> SameOf(x, new, listed)
    OBVIOUS
  <1>2. some \in SUBSET Codes
    OBVIOUS
  <1>3. Mirror!Adopted(old, listed, some) = [x \in both |-> value(x)]
    BY DEF Mirror!Adopted
  <1> HIDE DEF some
  <1>4. \A x \in Codes : x \in DOMAIN new <=> x \in both
    BY <1>1 DEF SameOf
  <1>5. both = DOMAIN new
    BY <1>4
  <1>6. \A x \in DOMAIN new : new[x] = value(x)
    BY <1>1 DEF SameOf
  <1> HIDE DEF both, value
  <1>7. new = [x \in both |-> value(x)]
    BY <1>5, <1>6
  <1>8. QED
    BY <1>2, <1>3, <1>7

(* Nothing adopted. *)
LEMMA NothingAdopted ==
    ASSUME NEW old, NEW listed, old = [x \in DOMAIN old |-> old[x]]
    PROVE  old = Mirror!Adopted(old, listed, {})
  <1>1. (DOMAIN old \ {}) \union (DOMAIN listed \cap {}) = DOMAIN old
    OBVIOUS
  <1>2. QED
    BY <1>1 DEF Mirror!Adopted

LEMMA ShownIs ==
    ASSUME NEW table
    PROVE  /\ DOMAIN Shown(table) = {x \in DOMAIN table : table[x].is_active}
           /\ \A x \in DOMAIN Shown(table) : Shown(table)[x] = table[x].data
           /\ Shown(table) = [x \in DOMAIN Shown(table) |-> Shown(table)[x]]
  BY DEF Shown

(* Rows that agree show the same. *)
LEMMA SameRows ==
    ASSUME NEW f, NEW g, NEW x, x \in DOMAIN f, x \in DOMAIN g,
           f[x].data = g[x].data, f[x].is_active = g[x].is_active
    PROVE  SameOf(x, Shown(f), Shown(g))
  <1>1. f[x].is_active <=> g[x].is_active
    OBVIOUS
  <1>2. x \in DOMAIN Shown(f) <=> f[x].is_active
    BY ShownIs
  <1>3. x \in DOMAIN Shown(g) <=> g[x].is_active
    BY ShownIs
  <1>4. ASSUME x \in DOMAIN Shown(f), x \in DOMAIN Shown(g)
        PROVE  Shown(f)[x] = Shown(g)[x]
    <2>1. Shown(f)[x] = f[x].data /\ Shown(g)[x] = g[x].data
      BY <1>4, ShownIs
    <2>2. QED
      BY <2>1
  <1>5. QED
    BY <1>1, <1>2, <1>3, <1>4 DEF SameOf

(* So a table whose rows show what they did, or what is listed, is adopted.  *)
LEMMA ShownAdopts ==
    ASSUME NEW Codes, NEW old, NEW listed, NEW new,
           DOMAIN old \subseteq Codes, DOMAIN listed \subseteq Codes, DOMAIN new \subseteq Codes,
           \A x : SameOf(x, Shown(new), Shown(old)) \/ SameOf(x, Shown(new), listed)
    PROVE  \E some \in SUBSET Codes : Shown(new) = Mirror!Adopted(Shown(old), listed, some)
  <1> DEFINE before == Shown(old)
             after == Shown(new)
  <1>1. /\ after = [x \in DOMAIN after |-> after[x]]
        /\ DOMAIN after \subseteq DOMAIN new /\ DOMAIN before \subseteq DOMAIN old
    BY ShownIs
  <1>2. \A x : SameOf(x, after, before) \/ SameOf(x, after, listed)
    OBVIOUS
  <1> HIDE DEF before, after
  <1>3. DOMAIN after \subseteq Codes /\ DOMAIN before \subseteq Codes
    BY <1>1
  <1>4. \E some \in SUBSET Codes : after = Mirror!Adopted(before, listed, some)
    BY <1>1, <1>2, <1>3, AdoptedIs
  <1>5. QED
    BY <1>4 DEF before, after

(* After a fresh approval every course shows what it did, or what is listed. *)
LEMMA CoursesShown ==
    ASSUME NEW groups, NEW cs, NEW os, NEW ch, NEW skip, NEW kept, NEW newCs, NEW newOs,
           FreshApproval(groups, cs, os, ch, skip, kept, newCs, newOs), NEW c
    PROVE  \/ SameOf(c, Shown(newCs), Shown(cs))
           \/ SameOf(c, Shown(newCs), groups.courses)
  <1>1. /\ FreshReview(groups, cs, os, ch, skip, kept)
        /\ newCs = ApplyToCourses(kept, cs, cs)
    BY DEF FreshApproval
  <1>2. DOMAIN newCs = DOMAIN cs \union DOMAIN kept.courses_added
    BY <1>1 DEF ApplyToCourses
  <1>3. {"data", "is_active"} \subseteq CourseFields
    BY DEF CourseFields
  <1>4. ListedCourse(groups, c).data = groups.courses[c] /\ ListedCourse(groups, c).is_active = TRUE
    BY DEF ListedCourse
  <1>5. CASE c \in DOMAIN cs
    <2>1. CourseEffect(groups, cs, ch, skip, c, newCs[c])
      BY <1>1, <1>5, FreshCourse
    <2>2. CASE Agree(CourseFields, newCs[c], cs[c])
      <3>1. newCs[c].data = cs[c].data /\ newCs[c].is_active = cs[c].is_active
        BY <1>3, <2>2 DEF Agree
      <3>2. QED
        BY <1>2, <1>5, <3>1, SameRows
    <2>3. CASE c \in DOMAIN groups.courses /\ Agree(CourseFields, newCs[c], ListedCourse(groups, c))
      <3>1. newCs[c].data = groups.courses[c] /\ newCs[c].is_active = TRUE
        BY <1>3, <1>4, <2>3 DEF Agree
      <3>2. QED
        BY <1>2, <1>5, <2>3, <3>1, ShownIs DEF SameOf
    <2>4. CASE c \notin DOMAIN groups.courses /\ newCs[c].is_active = FALSE
      BY <2>4, ShownIs DEF SameOf
    <2>5. QED
      BY <2>1, <2>2, <2>3, <2>4 DEF CourseEffect
  <1>6. CASE c \notin DOMAIN cs /\ c \in DOMAIN kept.courses_added
    <2>1. newCs[c] = kept.courses_added[c].row
      BY <1>1, <1>6 DEF ApplyToCourses
    <2>2. c \in DOMAIN ch.courses_added /\ kept.courses_added[c] = ch.courses_added[c]
      BY <1>1, <1>6 DEF FreshReview, FilterChangeset, Sections
    <2>3. ch = BuildChangeset(groups, cs, os)
      BY <1>1 DEF FreshReview
    <2>4. ch.courses_added[c].row = ListedCourse(groups, c)
      BY <2>2, <2>3, EntryIs
    <2>5. c \in DOMAIN groups.courses
      BY <1>1, <2>2, BuildIs DEF FreshReview
    <2>6. newCs[c].data = groups.courses[c] /\ newCs[c].is_active = TRUE
      BY <1>4, <2>1, <2>2, <2>4
    <2>7. QED
      BY <1>2, <1>6, <2>5, <2>6, ShownIs DEF SameOf
  <1>7. CASE c \notin DOMAIN newCs
    BY <1>2, <1>7, ShownIs DEF SameOf
  <1>8. QED
    BY <1>2, <1>5, <1>6, <1>7

(* And so does every offering. *)
LEMMA OfferingsShown ==
    ASSUME NEW groups, NEW cs, NEW os, NEW ch, NEW skip, NEW kept, NEW newCs, NEW newOs,
           FreshApproval(groups, cs, os, ch, skip, kept, newCs, newOs), NEW o
    PROVE  \/ SameOf(o, Shown(newOs), Shown(os))
           \/ SameOf(o, Shown(newOs), Listing(groups).offerings)
  <1>1. /\ FreshReview(groups, cs, os, ch, skip, kept)
        /\ newOs = ApplyToOfferings(kept, DOMAIN cs, os, os)
    BY DEF FreshApproval
  <1> DEFINE inserted == Inserted(kept, DOMAIN cs)
  <1>2. DOMAIN newOs = DOMAIN os \union inserted
    BY <1>1 DEF ApplyToOfferings
  <1>3. {"data", "is_active"} \subseteq OfferingFields
    BY DEF OfferingFields
  <1>4. /\ ListedOffering(groups, o).data = groups.offerings[o].data
        /\ ListedOffering(groups, o).is_active = TRUE
    BY DEF ListedOffering
  <1>5. /\ DOMAIN Listing(groups).offerings = DOMAIN groups.offerings
        /\ o \in DOMAIN groups.offerings => Listing(groups).offerings[o] = groups.offerings[o].data
    BY DEF Listing
  <1>6. CASE o \in DOMAIN os
    <2>1. OfferingEffect(groups, os, ch, skip, o, newOs[o])
      BY <1>1, <1>6, FreshOffering
    <2>2. CASE Agree(OfferingFields, newOs[o], os[o])
      <3>1. newOs[o].data = os[o].data /\ newOs[o].is_active = os[o].is_active
        BY <1>3, <2>2 DEF Agree
      <3>2. QED
        BY <1>2, <1>6, <3>1, SameRows
    <2>3. CASE /\ o \in DOMAIN groups.offerings
               /\ Agree(OfferingFields, newOs[o], ListedOffering(groups, o))
      <3>1. newOs[o].data = groups.offerings[o].data /\ newOs[o].is_active = TRUE
        BY <1>3, <1>4, <2>3 DEF Agree
      <3>2. QED
        BY <1>2, <1>5, <1>6, <2>3, <3>1, ShownIs DEF SameOf
    <2>4. CASE o \notin DOMAIN groups.offerings /\ newOs[o].is_active = FALSE
      BY <1>5, <2>4, ShownIs DEF SameOf
    <2>5. QED
      BY <2>1, <2>2, <2>3, <2>4 DEF OfferingEffect
  <1>7. CASE o \notin DOMAIN os /\ o \in inserted
    <2>1. newOs[o] = InsertedRow(kept, o)
      BY <1>1, <1>7 DEF ApplyToOfferings
    <2>2. o \in DOMAIN groups.offerings /\ InsertedRow(kept, o) = ListedOffering(groups, o)
      BY <1>1, <1>7, FreshInserts
    <2> HIDE DEF inserted
    <2>3. newOs[o].data = groups.offerings[o].data /\ newOs[o].is_active = TRUE
      BY <1>4, <2>1, <2>2
    <2>4. QED
      BY <1>2, <1>5, <1>7, <2>2, <2>3, ShownIs DEF SameOf
  <1> HIDE DEF inserted
  <1>8. CASE o \notin DOMAIN newOs
    BY <1>2, <1>8, ShownIs DEF SameOf
  <1>9. QED
    BY <1>2, <1>6, <1>7, <1>8

(* What a run found is a listing. *)
LEMMA ListingsAre ==
    ASSUME NEW groups \in GroupShape
    PROVE  Listing(groups) \in Mirror!Listings
  <1>1. \A Codes, Data : Mirror!Entries(Codes, Data) = Tables(Codes, Data)
    BY DEF Mirror!Entries, Tables
  <1>2. groups.courses \in Tables(CourseCodes, CourseData)
    BY DEF GroupShape
  <1>3. /\ groups.offerings \in Tables(OfferingCodes, Found)
    BY DEF GroupShape
  <1>4. /\ DOMAIN groups.offerings \subseteq OfferingCodes
        /\ \A o \in DOMAIN groups.offerings : groups.offerings[o] \in Found
    BY <1>3, TableIs
  <1>5. \A o \in DOMAIN groups.offerings : groups.offerings[o].data \in OfferingData
    BY <1>4 DEF Found
  <1> DEFINE data == [o \in DOMAIN groups.offerings |-> groups.offerings[o].data]
  <1>6. data \in [DOMAIN groups.offerings -> OfferingData]
    BY <1>5
  <1>7. data \in Tables(OfferingCodes, OfferingData)
    BY <1>4, <1>6 DEF Tables
  <1>8. Listing(groups) = [courses |-> groups.courses, offerings |-> data]
    BY DEF Listing
  <1> HIDE DEF data
  <1>9. QED
    BY <1>1, <1>2, <1>7, <1>8 DEF Mirror!Listings

(* A run that waits is the only one. *)
LEMMA WaitsAlone ==
    ASSUME CatalogSeqInv, NEW r \in RunIds, runs[r].status = "pending"
    PROVE  PendingRuns = {r} /\ Awaiting = {Listing(tasks[r].groups)}
  <1>1. PendingRuns \subseteq OpenRuns /\ r \in PendingRuns
    BY DEF PendingRuns, OpenRuns, Open
  <1>2. PendingRuns = {r}
    BY <1>1 DEF CatalogSeqInv, OneOpen, OpenRuns
  <1>3. QED
    BY <1>2 DEF Awaiting

LEMMA InitMirrors == Init => Mirror!MirrorInit
  <1> SUFFICES ASSUME Init PROVE Mirror!MirrorInit
    OBVIOUS
  <1>1. Shown(EmptyTable) = [x \in {} |-> x]
    BY DEF Shown, EmptyTable
  <1>2. PendingRuns = {}
    BY DEF Init, NoRun, PendingRuns
  <1>3. Awaiting = {}
    BY <1>2 DEF Awaiting
  <1>4. QED
    BY <1>1, <1>3 DEF Init, Mirror!MirrorInit

(* A step that touches neither what waits nor the catalog. *)
LEMMA NothingShown ==
    ASSUME UNCHANGED <<courses, offerings>>, PendingRuns' = PendingRuns,
           \A r \in PendingRuns : tasks'[r].groups = tasks[r].groups
    PROVE  UNCHANGED Mirror!mirrorVars
  <1>1. Awaiting' = {Listing(tasks'[r].groups) : r \in PendingRuns}
    BY DEF Awaiting
  <1>2. Awaiting' = Awaiting
    BY <1>1 DEF Awaiting
  <1>3. QED
    BY <1>2 DEF Mirror!mirrorVars

LEMMA StagingIsFinding ==
    ASSUME CatalogIInv, CatalogSeqInv, NEW r \in RunIds, Stage(r)
    PROVE  Mirror!MirrorNext
  <1> DEFINE listing == Listing(tasks[r].groups)
  <1>1. /\ runs \in [RunIds -> RunShape] /\ tasks \in [RunIds -> TaskShape]
        /\ RunAndTask(runs[r], tasks[r])
    BY DEF CatalogIInv, Shapes, RunsOK
  <1>2. /\ tasks[r].step = "diff" /\ UNCHANGED <<courses, offerings>>
        /\ runs'[r].status = "pending"
        /\ \A s \in RunIds \ {r} : runs'[s] = runs[s]
        /\ tasks'[r].groups = tasks[r].groups
    BY <1>1 DEF Stage, TaskShape
  <1>3. runs[r].status = "running"
    BY <1>1, <1>2 DEF RunAndTask
  <1>4. PendingRuns = {}
    BY <1>3 DEF CatalogSeqInv, OneOpen, OpenRuns, Open, PendingRuns
  <1>5. PendingRuns' = {r}
    BY <1>2, <1>4 DEF PendingRuns
  <1>6. Awaiting = {} /\ Awaiting' = {listing}
    <2>1. Awaiting' = {Listing(tasks'[s].groups) : s \in PendingRuns'}
      BY DEF Awaiting
    <2>2. Awaiting' = {Listing(tasks'[r].groups)}
      BY <1>5, <2>1
    <2>3. QED
      BY <1>2, <1>4, <2>2 DEF Awaiting
  <1>7. listing \in Mirror!Listings
    BY <1>1, ListingsAre DEF TaskShape
  <1> HIDE DEF listing
  <1>8. Mirror!Find(listing)
    BY <1>2, <1>6 DEF Mirror!Find
  <1>9. QED
    BY <1>7, <1>8 DEF Mirror!MirrorNext

(* A decision leaves nothing that waits. *)
LEMMA NothingWaits ==
    ASSUME CatalogIInv, CatalogSeqInv, NEW q \in Requests,
           NEW status \in {"approved", "rejected"},
           requests[q].op \in {"approve", "reject"}, Decide(q, status)
    PROVE  LET listing == Listing(tasks[requests[q].run].groups) IN
           Awaiting = {listing} /\ Awaiting' = {}
  <1> DEFINE r == requests[q].run
  <1>1. r \in RunIds /\ runs[r].status = "pending"
    BY DEF CatalogIInv, RequestsOK, RequestOK, CatalogSeqInv, ReviewFits
  <1>2. PendingRuns = {r} /\ Awaiting = {Listing(tasks[r].groups)}
    BY <1>1, WaitsAlone
  <1>3. /\ runs'[r].status = status
        /\ \A s \in RunIds \ {r} : runs'[s] = runs[s]
    BY <1>1 DEF Decide, CatalogIInv, Shapes, RunShape
  <1> HIDE DEF r
  <1>4. PendingRuns' = {}
    BY <1>2, <1>3 DEF PendingRuns
  <1>5. Awaiting' = {}
    BY <1>4 DEF Awaiting
  <1>6. QED
    BY <1>2, <1>5 DEF r

LEMMA ApprovalIsDecision ==
    ASSUME CatalogIInv, CatalogIInv', CatalogSeqInv, NEW q \in Requests, Approve(q)
    PROVE  Mirror!MirrorNext
  <1> DEFINE groups == tasks[requests[q].run].groups
             listing == Listing(groups)
  <1>1. requests[q].op = "approve" /\ Decide(q, "approved") /\ Commits(q)
    BY DEF Approve, Commits
  <1>2. Awaiting = {listing} /\ Awaiting' = {}
    BY <1>1, NothingWaits
  <1>3. FreshApproval(groups, courses, offerings, runs[requests[q].run].changeset,
                      requests[q].skip, Kept(q), courses', offerings')
    BY <1>1, CommitsFresh, CommitIsFresh
  <1>4. /\ courses \in CourseTables /\ offerings \in OfferingTables
        /\ courses' \in CourseTables /\ offerings' \in OfferingTables
        /\ groups \in GroupShape
    BY <1>3 DEF FreshApproval, FreshReview
  <1>5. /\ DOMAIN courses \subseteq CourseCodes /\ DOMAIN courses' \subseteq CourseCodes
        /\ DOMAIN offerings \subseteq OfferingCodes /\ DOMAIN offerings' \subseteq OfferingCodes
        /\ DOMAIN groups.courses \subseteq CourseCodes
        /\ DOMAIN groups.offerings \subseteq OfferingCodes
    BY <1>4, TableIs DEF CourseTables, OfferingTables, GroupShape
  <1>6. /\ listing.courses = groups.courses
        /\ DOMAIN listing.offerings = DOMAIN groups.offerings
    BY DEF Listing
  <1>7. \A c : \/ SameOf(c, Shown(courses'), Shown(courses))
               \/ SameOf(c, Shown(courses'), groups.courses)
    BY <1>3, CoursesShown
  <1>8. \A o : \/ SameOf(o, Shown(offerings'), Shown(offerings))
               \/ SameOf(o, Shown(offerings'), listing.offerings)
    BY <1>3, OfferingsShown
  <1> HIDE DEF groups, listing
  <1>9. PICK someCourses \in SUBSET CourseCodes :
           Shown(courses') = Mirror!Adopted(Shown(courses), listing.courses, someCourses)
    BY <1>5, <1>6, <1>7, ShownAdopts
  <1>10. PICK someOfferings \in SUBSET OfferingCodes :
           Shown(offerings') = Mirror!Adopted(Shown(offerings), listing.offerings, someOfferings)
    BY <1>5, <1>6, <1>8, ShownAdopts
  <1>11. Mirror!Decide(listing, someCourses, someOfferings)
    BY <1>2, <1>9, <1>10 DEF Mirror!Decide
  <1>12. listing \in Awaiting
    BY <1>2
  <1>13. QED
    BY <1>11, <1>12 DEF Mirror!MirrorNext

LEMMA RejectIsDecision ==
    ASSUME CatalogIInv, CatalogSeqInv, NEW q \in Requests, Reject(q)
    PROVE  Mirror!MirrorNext
  <1> DEFINE listing == Listing(tasks[requests[q].run].groups)
  <1>1. /\ requests[q].op = "reject" /\ Decide(q, "rejected")
        /\ UNCHANGED <<courses, offerings>>
    BY DEF Reject
  <1>2. Awaiting = {listing} /\ Awaiting' = {}
    BY <1>1, NothingWaits
  <1> HIDE DEF listing
  <1>3. Mirror!Decide(listing, {}, {})
    BY <1>1, <1>2, ShownIs, NothingAdopted DEF Mirror!Decide
  <1>4. QED
    BY <1>2, <1>3 DEF Mirror!MirrorNext

(* Before a run is staged, its task is unseen. *)
LEMMA TasksUnseen ==
    ASSUME CatalogIInv, NEW r \in RunIds,
           \/ CrawlFails(r) \/ \E groups \in Groups : Crawl(r, groups)
           \/ CommitFails(r) \/ TaskDies(r)
    PROVE  UNCHANGED Mirror!mirrorVars
  <1>1. /\ runs \in [RunIds -> RunShape] /\ tasks \in [RunIds -> TaskShape]
        /\ RunAndTask(runs[r], tasks[r])
    BY DEF CatalogIInv, Shapes, RunsOK
  <1>2. tasks[r].step \in {"crawl", "diff"} /\ UNCHANGED <<courses, offerings>>
    BY DEF CrawlFails, Crawl, CommitFails, TaskDies, LeavesRunning
  <1>3. runs[r].status = "running"
    BY <1>1, <1>2 DEF RunAndTask
  <1>4. \A s \in RunIds \ {r} : runs'[s] = runs[s] /\ tasks'[s] = tasks[s]
    BY <1>1 DEF CrawlFails, Crawl, CommitFails, TaskDies, LeavesRunning, Fail
  <1>5. runs'[r].status # "pending"
    BY <1>1, <1>3 DEF CrawlFails, Crawl, CommitFails, TaskDies,
              LeavesRunning, Fail, RunShape
  <1>6. PendingRuns' = PendingRuns /\ r \notin PendingRuns
    BY <1>3, <1>4, <1>5 DEF PendingRuns
  <1>7. QED
    BY <1>2, <1>4, <1>6, NothingShown DEF PendingRuns

LEMMA OpeningUnseen ==
    ASSUME CatalogIInv, NEW q \in Requests, NEW r \in RunIds, OpenRun(q, r)
    PROVE  UNCHANGED Mirror!mirrorVars
  <1>1. /\ runs \in [RunIds -> RunShape] /\ tasks \in [RunIds -> TaskShape]
    BY DEF CatalogIInv, Shapes
  <1>2. /\ runs[r].status = "none" /\ runs'[r].status = "running"
        /\ \A s \in RunIds \ {r} : runs'[s] = runs[s] /\ tasks'[s] = tasks[s]
        /\ UNCHANGED <<courses, offerings>>
    BY <1>1 DEF OpenRun, Opens, RunShape
  <1>3. PendingRuns' = PendingRuns /\ r \notin PendingRuns
    BY <1>2 DEF PendingRuns
  <1>4. QED
    BY <1>2, <1>3, NothingShown DEF PendingRuns

LEMMA StepsMirror ==
    CatalogIInv /\ CatalogIInv' /\ CatalogSeqInv /\ [Next]_vars
       => [Mirror!MirrorNext]_Mirror!mirrorVars
  <1> SUFFICES ASSUME CatalogIInv, CatalogIInv', CatalogSeqInv, [Next]_vars
               PROVE  Mirror!MirrorNext \/ UNCHANGED Mirror!mirrorVars
    BY DEF Mirror!mirrorVars
  <1>1. ASSUME NEW q \in Requests, NEW r \in RunIds, OpenRun(q, r)
        PROVE  UNCHANGED Mirror!mirrorVars
    BY <1>1, OpeningUnseen
  <1>2. ASSUME UNCHANGED <<courses, offerings, runs, tasks>>
        PROVE  UNCHANGED Mirror!mirrorVars
    BY <1>2, NothingShown DEF PendingRuns
  <1>3. ASSUME NEW q \in Requests, NEW r \in RunIds, Review(q, r)
        PROVE  UNCHANGED Mirror!mirrorVars
    BY <1>2, <1>3 DEF Review, BeginReview
  <1>4. ASSUME NEW q \in Requests,
               BeginStart(q) \/ ReadCatalog(q) \/ ApprovalFails(q) \/ Abandon(q)
        PROVE  UNCHANGED Mirror!mirrorVars
    BY <1>2, <1>4 DEF BeginStart, ReadCatalog, ApprovalFails, Abandon
  <1>5. ASSUME NEW q \in Requests, Approve(q) \/ Reject(q) PROVE Mirror!MirrorNext
    BY <1>5, ApprovalIsDecision, RejectIsDecision
  <1>6. ASSUME NEW r \in RunIds, Task(r) \/ TaskDies(r)
        PROVE  Mirror!MirrorNext \/ UNCHANGED Mirror!mirrorVars
    BY <1>6, StagingIsFinding, TasksUnseen DEF Task
  <1>7. CASE UNCHANGED vars
    BY <1>2, <1>7 DEF vars
  <1>8. QED
    BY <1>1, <1>3, <1>4, <1>5, <1>6, <1>7 DEF Next

(* One request at a time, the sync (crawl, build_changeset, filter_changeset *)
(* and apply_changeset) is a mirror of the site that moves code by code.     *)
THEOREM MirrorWhenAlone ==
    ASSUME OneRequest
    PROVE  Spec => ImplementsCatalogMirror
  <1>1. Spec => [](CatalogIInv /\ CatalogSeqInv)
    BY CatalogSeqInvariant
  <1>2. QED
    BY <1>1, InitMirrors, StepsMirror, PTL DEF Spec, ImplementsCatalogMirror, Mirror!MirrorSpec

=============================================================================
