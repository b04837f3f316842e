\* Two requests at once over two Pages and an Instagram account.
SPECIFICATION Spec
CONSTANTS
    fb = fb
    ig = ig
    p1 = p1
    p2 = p2
    i1 = i1
    a1 = a1
    q1 = q1
    q2 = q2
    NoId = NoId
    Platforms = {fb, ig}
    Destinations = {p1, p2, i1}
    PlatformOf <- MCPlatformOf
    Exchanges <- MCExchanges
    MaxInserts = 2
    Publications = {a1}
    Requests = {q1, q2}
SYMMETRY Alike
INVARIANTS
    TypeOK
    HistoryNamesOneRow
    EachDestinationOnce
PROPERTIES
    SwitchTakesEffect
