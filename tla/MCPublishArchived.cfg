\* Two requests in flight: an archive beside a publish.
SPECIFICATION Spec
CONSTANTS
    Items = {i1}
    Texts = {t1}
    Workers = {w1, w2}
    Attempts = {a1, a2, a3}
    NoItem = NoItem
    NoText = NoText
    NoAttempt = NoAttempt
PROPERTIES
    PublishedOnlyFromApproved
