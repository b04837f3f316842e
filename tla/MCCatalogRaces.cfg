\* Two requests at once, three runs of a course that may disappear and return.
SPECIFICATION FairSpec
CONSTANTS
    c1 = c1
    c2 = c2
    o1 = o1
    o2 = o2
    d1 = d1
    d2 = d2
    q1 = q1
    q2 = q2
    CourseCodes = {c1}
    Scheduled = {o1}
    CourseData = {d1}
    OfferingData = {d1, d2}
    OnDemandData = d1
    Repriced <- PricedChanges
    MaxRuns = 3
    Requests = {q1, q2}
CHECK_DEADLOCK FALSE
INVARIANTS
    OpenRunsBounded
    CancelledIsInactive
PROPERTIES
    SkippedRowsUntouched
    RunResolves
