\* One request at a time, on two items with two texts.
SPECIFICATION Spec
CONSTANTS
    Items = {i1, i2}
    Texts = {t1, t2}
    Workers = {w1}
    Attempts = {a1, a2}
    NoItem = NoItem
    NoText = NoText
    NoAttempt = NoAttempt
SYMMETRY Symmetry
INVARIANTS
    SentTextWasReviewed
PROPERTIES
    ImplementsReviewCycle
