\* Callers that may re-ingest an id that is on disk or pending: the same bytes reserved twice.
CONSTANTS
    o1 = o1
    o2 = o2
    o3 = o3
    r1 = r1
    r2 = r2
    r3 = r3
    NoObj = NoObj
    Objs <- MCObjs
    ObjSize <- MCObjSize
    Reqs <- MCReqs
    Limit = 2
    ChunkSizes = {1, 2}
    SourceModes = {}
    InitFileSizes = {1, 2}
    MaxIngests = 3
    CallerGuard = FALSE
    MaxRestarts = 0
SPECIFICATION Spec
INVARIANTS
    UsedSpaceAccounting
SYMMETRY MCSymmetry
