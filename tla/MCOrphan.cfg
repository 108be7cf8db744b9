\* Files kept by startupInit are never cache entries: a download can wait forever behind them.
CONSTANTS
    o1 = o1
    o2 = o2
    o3 = o3
    r1 = r1
    r2 = r2
    r3 = r3
    NoObj = NoObj
    Objs <- MCObjs
    ObjSize <- MCObjSize
    Reqs <- MCReqs
    Limit = 2
    ChunkSizes = {1, 2}
    SourceModes = {}
    InitFileSizes = {1, 2}
    MaxIngests = 3
    CallerGuard = TRUE
    MaxRestarts = 0
SPECIFICATION Spec
PROPERTIES
    IngestionCompletes
