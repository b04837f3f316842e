\* Any two requests at once on a post of a group.
SPECIFICATION Spec
CONSTANTS
    i1 = i1
    i2 = i2
    u1 = u1
    Items = {i1}
    Grouped = {i1}
    Assets = {a1, a2}
    Files = {f1}
    Workers = {w1, w2}
    MaxImages <- SmallLimits
    MaxAssets = 2
    NoItem = NoItem
    NoAsset = NoAsset
SYMMETRY Alike
CHECK_DEADLOCK FALSE
INVARIANTS
    SelectionIsAvailable
    RecordIsTrue
PROPERTIES
    NoImageLostLater
