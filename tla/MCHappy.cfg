\* Well-behaved sources, three objects, two concurrent requests and one crash: the exact accounting and the refinement of ContentCache.
CONSTANTS
    o1 = o1
    o2 = o2
    o3 = o3
    r1 = r1
    r2 = r2
    r3 = r3
    NoObj = NoObj
    Objs <- MCObjs3
    ObjSize <- MCObjSize3
    Reqs <- MCReqs
    Limit = 2
    ChunkSizes = {1, 2}
    SourceModes = {}
    InitFileSizes = {1, 2}
    MaxIngests = 2
    CallerGuard = TRUE
    MaxRestarts = 1
SPECIFICATION Spec
SYMMETRY MCSymmetry
INVARIANTS
    UsedSpaceAccounting
PROPERTIES
    ImplementsContentCache
