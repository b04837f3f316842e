\* Any of two requests in flight at once, on one item.
SPECIFICATION FairSpec
CONSTANTS
    Items = {i1}
    Texts = {t1}
    Workers = {w1, w2}
    Attempts = {a1, a2, a3}
    NoItem = NoItem
    NoText = NoText
    NoAttempt = NoAttempt
INVARIANTS
    DuplicateOnlyAfterFailure
    EvidenceBeforeCall
    PublishedIsLive
PROPERTIES
    NeverRepublished
    AttemptResolves
    ImplementsPublishOnce
