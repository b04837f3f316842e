\* A run that finds the price of an offering changed, while no process dies.
SPECIFICATION FairSpec
CONSTANTS
    c1 = c1
    c2 = c2
    o1 = o1
    o2 = o2
    d1 = d1
    d2 = d2
    q1 = q1
    q2 = q2
    CourseCodes = {c1}
    Scheduled = {o1}
    CourseData = {d1}
    OfferingData = {d1, d2}
    OnDemandData = d1
    Repriced <- PricedChanges
    MaxRuns = 2
    Requests = {q1}
CHECK_DEADLOCK FALSE
PROPERTIES
    RecordsAnyFailure
