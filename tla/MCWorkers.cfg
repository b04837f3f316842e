\* Every number of a process may end and be given again; a window of one tick
\* with room for two hits.
SPECIFICATION FairSpec
CONSTANTS
    Pids = {p1, p2}
    Threads = {t1, t2}
    Clients = {c1}
    MaxHits = 2
    Window = 1
    None = None
INVARIANTS
    OneOwnLoop
PROPERTIES
    LimitIsExact
    EveryRequestServed
