\* Sources that end early or fail, files that fail to open, and one crash: the counter may leak but never under-counts, committed entries match their files, no partial file survives, and no stale pending id keeps a file.
CONSTANTS
    o1 = o1
    o2 = o2
    o3 = o3
    r1 = r1
    r2 = r2
    r3 = r3
    NoObj = NoObj
    Objs <- MCObjs
    ObjSize <- MCObjSize
    Reqs <- MCReqs
    Limit = 2
    ChunkSizes = {1, 2}
    SourceModes = {"short", "error", "openfail"}
    InitFileSizes = {1, 2}
    MaxIngests = 3
    CallerGuard = TRUE
    MaxRestarts = 1
SPECIFICATION Spec
INVARIANTS
    TypeOK
    DiskWithinAccounted
    CommittedMatchesDisk
    NoPartialFiles
    StalePendingHoldsNoFile
SYMMETRY MCSymmetry
