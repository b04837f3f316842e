\* One request at a time, on two posts of a group and one without.
SPECIFICATION Spec
CONSTANTS
    i1 = i1
    i2 = i2
    u1 = u1
    Items = {i1, i2, u1}
    Grouped = {i1, i2}
    Assets = {a1, a2}
    Files = {f1}
    Workers = {w1}
    MaxImages <- SmallLimits
    MaxAssets = 2
    NoItem = NoItem
    NoAsset = NoAsset
SYMMETRY Alike
CHECK_DEADLOCK FALSE
INVARIANTS
    SelectionIsACarousel
    UploadsAreDistinct
PROPERTIES
    ImplementsGallery
