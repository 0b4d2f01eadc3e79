SPECIFICATION FairSpec
CONSTANTS
    Threads = {t1, t2}
    Bufs = {b1, b2}
    Blocks = {1, 2, 3}
    Values = {0, 1}
    NUMs = {4, 6}
    None = None
    Written = {1}
    MaxPins = 1
INVARIANTS CacheExact NobodyStranded
PROPERTIES IsStore RequestReturns
