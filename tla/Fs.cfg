SPECIFICATION Spec
CONSTANTS
    Threads = {t1, t2}
    NINODES = 4
    NBLOCKS = 5
    NDIRECT = 1
    NINDIRECT = 2
    DPB = 4
    None = None
    Files <- MCFiles
    Calls <- MCCalls
    MaxCalls = 3
    MaxCrashes = 1
SYMMETRY Symmetry
INVARIANTS CountsExact DurableTree Reclaimed SafeWalk SomeoneRuns
