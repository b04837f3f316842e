---------------------------- MODULE CatalogMirror ----------------------------
(***************************************************************************)
(* What the catalog sync promises, without rows, changesets, runs, tasks   *)
(* and requests: the application shows a catalog, a look at the site waits *)
(* for a reviewer, and the reviewer adopts what it says of some codes.     *)
(***************************************************************************)
CONSTANTS CourseCodes, OfferingCodes, CourseData, OfferingData

VARIABLES
    courses,    \* the courses that are shown: the data of each, by code
    offerings,  \* the offerings that are shown
    awaiting    \* the listings of the site that wait for a reviewer

mirrorVars == <<courses, offerings, awaiting>>

Entries(Codes, Data) == UNION {[D -> Data] : D \in SUBSET Codes}

Listings == [courses : Entries(CourseCodes, CourseData),
             offerings : Entries(OfferingCodes, OfferingData)]

MirrorInit ==
    /\ courses = [c \in {} |-> c]
    /\ offerings = [o \in {} |-> o]
    /\ awaiting = {}

(* The site is looked at when nothing waits. *)
Find(listing) ==
    /\ awaiting = {}
    /\ awaiting' = {listing}
    /\ UNCHANGED <<courses, offerings>>

(* What the site says of these codes, and of the others what was shown. *)
Adopted(shown, listed, codes) ==
    [x \in (DOMAIN shown \ codes) \union (DOMAIN listed \cap codes) |->
        IF x \in codes THEN listed[x] ELSE shown[x]]

(* A reviewer adopts the listing for some codes, or for none: what is listed  *)
(* of them is shown as it is listed, and what is not is no longer shown.     *)
Decide(listing, someCourses, someOfferings) ==
    /\ courses' = Adopted(courses, listing.courses, someCourses)
    /\ offerings' = Adopted(offerings, listing.offerings, someOfferings)
    /\ awaiting' = awaiting \ {listing}

MirrorNext ==
    \/ \E listing \in Listings : Find(listing)
    \/ \E listing \in awaiting :
          \E someCourses \in SUBSET CourseCodes, someOfferings \in SUBSET OfferingCodes :
             Decide(listing, someCourses, someOfferings)

MirrorSpec == MirrorInit /\ [][MirrorNext]_mirrorVars

=============================================================================
