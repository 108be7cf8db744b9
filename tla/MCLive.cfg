\* Every download finishes when the loaded index lists every file on disk.
CONSTANTS
    o1 = o1
    o2 = o2
    o3 = o3
    r1 = r1
    r2 = r2
    r3 = r3
    NoObj = NoObj
    Objs <- MCObjs
    ObjSize <- MCObjSize
    Reqs <- MCReqs
    Limit = 2
    ChunkSizes = {1, 2}
    SourceModes = {}
    InitFileSizes = {1, 2}
    MaxIngests = 3
    CallerGuard = TRUE
    MaxRestarts = 0
SPECIFICATION MCSpecIndexCoversDisk
PROPERTIES
    IngestionCompletes
    UnsupportedEventuallyDropped
