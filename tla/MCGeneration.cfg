\* A call with its retry lasts at most 2 + 1 + 2, below the deadline of 6; of a
\* generation for two platforms two calls queue.
SPECIFICATION FairSpec
CONSTANTS
    Platforms = 2
    Styles = 2
    Concurrency = 2
    MaxAttempts = 2
    CallTimeout = 2
    ImageTimeout = 3
    Backoff = 1
    Deadline = 6
CHECK_DEADLOCK FALSE
INVARIANTS
    AllOrNothing
    AnsweredInTime
    RetriesFit
PROPERTIES
    FailureEndsAtOnce
    Terminates
