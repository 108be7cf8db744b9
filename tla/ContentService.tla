--------------------------- MODULE ContentService ---------------------------
(***************************************************************************)
(* The content cache manager of the distributor node: class ContentService *)
(* (src/types/src/storage.ts, lines 190-437).  It owns contentSizeSum, the *)
(* running count of used bytes, and reconciles three views: the files of   *)
(* the data directory (disk), the cache index (CacheIndex) and the set of  *)
(* objects the chain currently supports (the networking collaborator).     *)
(*                                                                         *)
(* Node runs each callback to completion, so every synchronous stretch of  *)
(* a handler is one action; an await, a stream event or a timer splits a   *)
(* handler into several actions.  Concurrent ingestions are the request    *)
(* slots Reqs; the periodic cacheCleanup is one more process.              *)
(***************************************************************************)
EXTENDS Integers, FiniteSets, Functions, TLC, CacheIndex

CONSTANTS
    ObjSize,        \* the size the chain records for each object
    Limit,          \* config.limits.storage
    Reqs,           \* concurrent ingestion requests (handleNewContent calls)
    ChunkSizes,     \* sizes of the chunks a source stream emits
    SourceModes,    \* what may go wrong besides nothing: sources end
                    \* "short", send too much ("over") or fail ("error");
                    \* the file fails to open ("openfail")
    InitFileSizes,  \* sizes of files found in the data directory at start
    MaxIngests,     \* bound on the number of handleNewContent calls
    CallerGuard,    \* TRUE: callers never ingest an id that exists or is pending
    MaxRestarts,    \* bound on the number of node crashes and restarts
    NoObj           \* the obj field of an idle request slot

ASSUME ObjSize \in [Objs -> Nat]
ASSUME Limit \in Nat /\ MaxIngests \in Nat /\ MaxRestarts \in Nat
ASSUME ChunkSizes \subseteq Nat \ {0} /\ InitFileSizes \subseteq Nat
ASSUME SourceModes \subseteq {"short", "over", "error", "openfail"}
ASSUME CallerGuard \in BOOLEAN /\ NoObj \notin Objs

VARIABLES
    phase,          \* "init" until startupInit has run, then "running"
    disk,           \* the data directory: a function from object id to file size
    contentSizeSum, \* ContentService.contentSizeSum
    index,          \* the cache index (CacheIndex)
    supported,      \* the ids the chain currently assigns to this node
    ing,            \* per request: the state of one handleNewContent call
    cleanup,        \* the periodic cacheCleanup: pc and fetched snapshot
    ingests,        \* number of handleNewContent calls so far
    restarts        \* number of crashes so far

vars == <<phase, disk, contentSizeSum, index, supported, ing, cleanup, ingests, restarts>>

(***************************************************************************)
(* An ingestion: pc is "idle", "waiting" (eviction loop asleep on its      *)
(* timer), "streaming" (pipeline running) or "detecting" (awaiting         *)
(* detectMimeType after a verified write).  recv is bytesRecieved, buf the *)
(* bytes handed to the file stream but not yet written, written the        *)
(* fileStream's bytesWritten.                                              *)
(***************************************************************************)
ReqType == [pc : {"idle", "waiting", "streaming", "detecting"},
            obj : Objs \cup {NoObj}, exp : Nat, recv : Nat, buf : Nat,
            written : Nat, opened : BOOLEAN, openErr : BOOLEAN,
            ended : BOOLEAN, err : BOOLEAN]

IdleReq == [pc |-> "idle", obj |-> NoObj, exp |-> 0, recv |-> 0, buf |-> 0,
            written |-> 0, opened |-> FALSE, openErr |-> FALSE,
            ended |-> FALSE, err |-> FALSE]

\* freeSpace getter (lines 215-217)
freeSpace == Limit - contentSizeSum

\* fileSize(id) summed over the ids of S that exist (lines 324-334)
FilesSize(S) == SumFunctionOnSet(disk, S \cap DOMAIN disk)

\* detectMimeType(id) (lines 348-351) resolves only while the file exists:
\* FileType.fromFile rejects for a missing file.
MimeDetectable(o) == o \in DOMAIN disk

\* drop(id) for every id of S (lines 312-322): existing files are unlinked
\* and their current size subtracted; the index entry goes in every case.
DiskAfterDrop(S) == Restrict(disk, DOMAIN disk \ S)

SizeSumAfterDrop(S) == contentSizeSum - FilesSize(S)

Drop(S) ==
    /\ disk' = DiskAfterDrop(S)
    /\ contentSizeSum' = SizeSumAfterDrop(S)
    /\ index' = DropById(index, S)

(***************************************************************************)
(* One synchronous run of the while loop of evictCacheUntilFreeSpaceReached *)
(* (lines 353-367) from index idx: the set of candidates it drops before   *)
(* it either reaches the target or finds no candidate and sleeps.  The     *)
(* loop stops at the first drop that reaches the target, so every proper   *)
(* prefix of the evicted set stays below it.                               *)
(***************************************************************************)
EvictionOutcomes(idx, target) ==
    LET C == EvictCandidates(idx) IN
    { S \in SUBSET C :
        \/ S = {} /\ freeSpace >= target
        \/ /\ freeSpace + FilesSize(S) >= target
           /\ \E x \in S : freeSpace + FilesSize(S \ {x}) < target
        \/ S = C /\ freeSpace + FilesSize(C) < target }

(***************************************************************************)
(* Lines 375-390: evict if freeSpace < expectedSize, then reserve the      *)
(* expected size and open the write stream; or, when the loop ran out of   *)
(* candidates, sleep for one second (line 363).  The continuation after    *)
(* the awaited loop runs as a microtask, before any other callback.        *)
(***************************************************************************)
\* Mutant: when the loop finds nothing to evict it gives up and reserves.
EvictAndReserveNoWait(r, req, idx) ==
    \E S \in EvictionOutcomes(idx, req.exp) :
        /\ disk' = DiskAfterDrop(S)
        /\ index' = DropById(idx, S)
        /\ contentSizeSum' = SizeSumAfterDrop(S) + req.exp
        /\ ing' = [ing EXCEPT ![r] = [req EXCEPT !.pc = "streaming"]]

\* Mutant: the reservation sits inside the "if (freeSpace < expectedSize)"
\* block, so a request that needs no eviction reserves nothing.
EvictAndReserveNoFastReserve(r, req, idx) ==
    \E S \in EvictionOutcomes(idx, req.exp) :
        /\ disk' = DiskAfterDrop(S)
        /\ index' = DropById(idx, S)
        /\ \/ /\ freeSpace + FilesSize(S) >= req.exp
              /\ contentSizeSum' = SizeSumAfterDrop(S) + (IF freeSpace < req.exp THEN req.exp ELSE 0)
              /\ ing' = [ing EXCEPT ![r] = [req EXCEPT !.pc = "streaming"]]
           \/ /\ freeSpace + FilesSize(S) < req.exp
              /\ contentSizeSum' = SizeSumAfterDrop(S)
              /\ ing' = [ing EXCEPT ![r] = [req EXCEPT !.pc = "waiting"]]

EvictAndReserve(r, req, idx) ==
    \E S \in EvictionOutcomes(idx, req.exp) :
        /\ disk' = DiskAfterDrop(S)
        /\ index' = DropById(idx, S)
        /\ \/ /\ freeSpace + FilesSize(S) >= req.exp
              /\ contentSizeSum' = SizeSumAfterDrop(S) + req.exp
              /\ ing' = [ing EXCEPT ![r] = [req EXCEPT !.pc = "streaming"]]
           \/ /\ freeSpace + FilesSize(S) < req.exp
              /\ contentSizeSum' = SizeSumAfterDrop(S)
              /\ ing' = [ing EXCEPT ![r] = [req EXCEPT !.pc = "waiting"]]

(***************************************************************************)
(* startupInit (lines 254-310), run before the node serves requests.       *)
(* Every file's size is added, files that are unsupported or of the wrong  *)
(* size are dropped again, kept files get a content type if they lack one, *)
(* and index entries without a file are dropped.  Kept files are NOT made  *)
(* cache entries: nothing calls newContent for them.                       *)
(***************************************************************************)
\* Mutant: files dropped during startup keep their size in the counter.
StartupInitCountAll ==
    LET keep == {o \in DOMAIN disk : o \in supported /\ disk[o] = ObjSize[o]}
        ghosts == GetCachedObjectsIds(index) \ keep
    IN
    /\ phase = "init"
    /\ phase' = "running"
    /\ disk' = Restrict(disk, keep)
    /\ contentSizeSum' = contentSizeSum + FilesSize(DOMAIN disk)
    /\ index' = DropById(SetContentMimeType(DropById(index, DOMAIN disk \ keep), keep), ghosts)
    /\ UNCHANGED <<supported, ing, cleanup, ingests, restarts>>

StartupInit ==
    LET keep == {o \in DOMAIN disk : o \in supported /\ disk[o] = ObjSize[o]}
        dropped == DOMAIN disk \ keep
        ghosts == GetCachedObjectsIds(index) \ keep
    IN
    /\ phase = "init"
    /\ phase' = "running"
    /\ disk' = Restrict(disk, keep)
    /\ contentSizeSum' = contentSizeSum + FilesSize(DOMAIN disk) - FilesSize(dropped)
    /\ index' = DropById(SetContentMimeType(DropById(index, dropped), keep), ghosts)
    /\ UNCHANGED <<supported, ing, cleanup, ingests, restarts>>

(***************************************************************************)
(* handleNewContent(objectId, expectedSize, dataStream) called by a        *)
(* downloader for a supported object, with the chain's size as expected    *)
(* size.  The caller marks the download pending first; with CallerGuard it *)
(* never asks for an id that is on disk or already pending.                *)
(***************************************************************************)
HandleNewContent(r) ==
    /\ phase = "running"
    /\ ing[r].pc = "idle"
    /\ ingests < MaxIngests
    /\ \E o \in supported :
        /\ CallerGuard => o \notin DOMAIN disk /\ o \notin index.pending
        /\ EvictAndReserve(r, [IdleReq EXCEPT !.obj = o, !.exp = ObjSize[o]],
                           NewPendingDownload(index, o))
    /\ ingests' = ingests + 1
    /\ UNCHANGED <<phase, supported, cleanup, restarts>>

\* The one-second timer of the eviction loop fires: the loop runs again.
WakeEviction(r) ==
    /\ ing[r].pc = "waiting"
    /\ EvictAndReserve(r, ing[r], index)
    /\ UNCHANGED <<phase, supported, cleanup, ingests, restarts>>

\* The write stream's 'open' event (lines 425-428): flags 'w' create or
\* truncate the file; the caller's promise resolves here.
OpenFile(r) ==
    LET o == ing[r].obj IN
    /\ ing[r].pc = "streaming"
    /\ ~ing[r].opened /\ ~ing[r].openErr
    /\ ing' = [ing EXCEPT ![r].opened = TRUE]
    /\ disk' = (o :> 0) @@ disk
    /\ UNCHANGED <<phase, contentSizeSum, index, supported, cleanup, ingests, restarts>>

(***************************************************************************)
(* The write stream fails to open (EMFILE, ENOSPC, EACCES): no file is     *)
(* created, 'open' never fires, and pipeline destroys the source and calls *)
(* back with the error.  The promise is rejected (line 408), the only path *)
(* on which that rejection reaches the caller.                             *)
(***************************************************************************)
OpenFail(r) ==
    /\ "openfail" \in SourceModes
    /\ ing[r].pc = "streaming"
    /\ ~ing[r].opened /\ ~ing[r].openErr /\ ~ing[r].err
    /\ ing' = [ing EXCEPT ![r].openErr = TRUE, ![r].err = TRUE, ![r].buf = 0]
    /\ UNCHANGED <<phase, disk, contentSizeSum, index, supported, cleanup, ingests, restarts>>

(***************************************************************************)
(* A 'data' event (lines 430-435): pipe hands the chunk to the file stream *)
(* first, then the counting listener adds it and destroys the source when  *)
(* more than expectedSize bytes have arrived.  A well-behaved source never *)
(* exceeds the expected size; an "over" source may.                        *)
(***************************************************************************)
SourceChunk(r, c) ==
    LET q == ing[r] IN
    /\ q.pc = "streaming"
    /\ ~q.ended /\ ~q.err
    /\ q.recv + c <= q.exp \/ "over" \in SourceModes
    /\ ing' = [ing EXCEPT ![r].recv = q.recv + c, ![r].buf = q.buf + c,
                          ![r].err = (q.recv + c > q.exp)]
    /\ UNCHANGED <<phase, disk, contentSizeSum, index, supported, cleanup, ingests, restarts>>

\* The source ends: after exactly the expected bytes, or early ("short").
SourceEnd(r) ==
    LET q == ing[r] IN
    /\ q.pc = "streaming"
    /\ ~q.ended /\ ~q.err
    /\ q.recv = q.exp \/ "short" \in SourceModes
    /\ ing' = [ing EXCEPT ![r].ended = TRUE]
    /\ UNCHANGED <<phase, disk, contentSizeSum, index, supported, cleanup, ingests, restarts>>

\* The source stream fails (network error).
SourceError(r) ==
    /\ "error" \in SourceModes
    /\ ing[r].pc = "streaming"
    /\ ~ing[r].ended /\ ~ing[r].err
    /\ ing' = [ing EXCEPT ![r].err = TRUE]
    /\ UNCHANGED <<phase, disk, contentSizeSum, index, supported, cleanup, ingests, restarts>>

(***************************************************************************)
(* The file stream writes its buffered bytes at its own offset.  A file    *)
(* unlinked meanwhile keeps receiving them through the open descriptor,    *)
(* invisible in the data directory.                                        *)
(***************************************************************************)
FileWrite(r) ==
    LET q == ing[r] IN
    LET end == q.written + q.buf IN
    /\ q.pc = "streaming"
    /\ q.opened /\ q.buf > 0
    /\ ing' = [ing EXCEPT ![r].written = end, ![r].buf = 0]
    /\ disk' = IF q.obj \in DOMAIN disk
                 THEN [disk EXCEPT ![q.obj] = IF @ < end THEN end ELSE @]
                 ELSE disk
    /\ UNCHANGED <<phase, contentSizeSum, index, supported, cleanup, ingests, restarts>>

(***************************************************************************)
(* The pipeline callback (lines 394-423).  It runs once both streams have  *)
(* closed: on error, with whatever was buffered discarded; on success,     *)
(* after every byte was written.  An error or any mismatch of written,     *)
(* received and expected drops the object; otherwise detectMimeType is     *)
(* awaited before the commit.                                              *)
(***************************************************************************)
\* Mutant: only written = received is checked, not the expected size.
PipelineDoneNoSizeCheck(r) ==
    LET q == ing[r] IN
    /\ q.pc = "streaming"
    /\ q.opened \/ q.openErr
    /\ q.err \/ (q.ended /\ q.buf = 0)
    /\ \/ /\ ~q.err /\ q.written = q.recv
          /\ ing' = [ing EXCEPT ![r].pc = "detecting"]
          /\ UNCHANGED <<disk, contentSizeSum, index>>
       \/ /\ q.err \/ q.written # q.recv
          /\ Drop({q.obj})
          /\ ing' = [ing EXCEPT ![r] = IdleReq]
    /\ UNCHANGED <<phase, supported, cleanup, ingests, restarts>>

\* Mutant: a failed download releases its reservation and then drop()
\* subtracts the partial file as well.
PipelineDoneDoubleRelease(r) ==
    LET q == ing[r] IN
    /\ q.pc = "streaming"
    /\ q.opened \/ q.openErr
    /\ q.err \/ (q.ended /\ q.buf = 0)
    /\ \/ /\ ~q.err /\ q.written = q.recv /\ q.written = q.exp
          /\ ing' = [ing EXCEPT ![r].pc = "detecting"]
          /\ UNCHANGED <<disk, contentSizeSum, index>>
       \/ /\ q.err \/ q.written # q.recv \/ q.written # q.exp
          /\ disk' = DiskAfterDrop({q.obj})
          /\ contentSizeSum' = SizeSumAfterDrop({q.obj}) - q.exp
          /\ index' = DropById(index, {q.obj})
          /\ ing' = [ing EXCEPT ![r] = IdleReq]
    /\ UNCHANGED <<phase, supported, cleanup, ingests, restarts>>

\* Mutant: a byte-count mismatch is logged but the partial file is not dropped.
PipelineDoneNoMismatchDrop(r) ==
    LET q == ing[r] IN
    /\ q.pc = "streaming"
    /\ q.opened \/ q.openErr
    /\ q.err \/ (q.ended /\ q.buf = 0)
    /\ \/ /\ ~q.err
          /\ q.written = q.recv /\ q.written = q.exp
          /\ ing' = [ing EXCEPT ![r].pc = "detecting"]
          /\ UNCHANGED <<disk, contentSizeSum, index>>
       \/ /\ q.err
          /\ Drop({q.obj})
          /\ ing' = [ing EXCEPT ![r] = IdleReq]
       \/ /\ ~q.err /\ (q.written # q.recv \/ q.written # q.exp)
          /\ ing' = [ing EXCEPT ![r] = IdleReq]
          /\ UNCHANGED <<disk, contentSizeSum, index>>
    /\ UNCHANGED <<phase, supported, cleanup, ingests, restarts>>

\* Mutant: the pipeline error is logged and rejected but the file is not dropped.
PipelineDoneErrKeepsFile(r) ==
    LET q == ing[r] IN
    /\ q.pc = "streaming"
    /\ q.opened \/ q.openErr
    /\ q.err \/ (q.ended /\ q.buf = 0)
    /\ \/ /\ ~q.err
          /\ q.written = q.recv /\ q.written = q.exp
          /\ ing' = [ing EXCEPT ![r].pc = "detecting"]
          /\ UNCHANGED <<disk, contentSizeSum, index>>
       \/ /\ ~q.err /\ (q.written # q.recv \/ q.written # q.exp)
          /\ Drop({q.obj})
          /\ ing' = [ing EXCEPT ![r] = IdleReq]
       \/ /\ q.err
          /\ ing' = [ing EXCEPT ![r] = IdleReq]
          /\ UNCHANGED <<disk, contentSizeSum, index>>
    /\ UNCHANGED <<phase, supported, cleanup, ingests, restarts>>

PipelineDone(r) ==
    LET q == ing[r] IN
    /\ q.pc = "streaming"
    /\ q.opened \/ q.openErr
    /\ q.err \/ (q.ended /\ q.buf = 0)
    /\ \/ /\ ~q.err
          /\ q.written = q.recv /\ q.written = q.exp
          /\ ing' = [ing EXCEPT ![r].pc = "detecting"]
          /\ UNCHANGED <<disk, contentSizeSum, index>>
       \/ /\ q.err \/ q.written # q.recv \/ q.written # q.exp
          /\ Drop({q.obj})
          /\ ing' = [ing EXCEPT ![r] = IdleReq]
    /\ UNCHANGED <<phase, supported, cleanup, ingests, restarts>>

(***************************************************************************)
(* detectMimeType resolves (lines 411-415): the pending flag is dropped    *)
(* and the object becomes a committed entry with its type.  If the file    *)
(* vanished meanwhile, FileType.fromFile throws inside the callback and    *)
(* nothing is committed.                                                   *)
(***************************************************************************)
\* Mutant: the pending flag and type are recorded but newContent is not called.
CommitContentNoNewContent(r) ==
    LET o == ing[r].obj IN
    /\ ing[r].pc = "detecting"
    /\ ing' = [ing EXCEPT ![r] = IdleReq]
    /\ \/ /\ MimeDetectable(o)
          /\ index' = SetContentMimeType(DropPendingDownload(index, o), {o})
       \/ /\ ~MimeDetectable(o)
          /\ UNCHANGED index
    /\ UNCHANGED <<phase, disk, contentSizeSum, supported, cleanup, ingests, restarts>>

CommitContent(r) ==
    LET o == ing[r].obj IN
    /\ ing[r].pc = "detecting"
    /\ ing' = [ing EXCEPT ![r] = IdleReq]
    /\ \/ /\ MimeDetectable(o)
          /\ index' = SetContentMimeType(NewContent(DropPendingDownload(index, o), o), {o})
       \/ /\ ~MimeDetectable(o)
          /\ UNCHANGED index
    /\ UNCHANGED <<phase, disk, contentSizeSum, supported, cleanup, ingests, restarts>>

\* cacheCleanup, first half (line 233): the supported set is fetched.
CleanupFetch ==
    /\ phase = "running"
    /\ cleanup.pc = "idle"
    /\ cleanup' = [pc |-> "fetched", snap |-> supported]
    /\ UNCHANGED <<phase, disk, contentSizeSum, index, supported, ing, ingests, restarts>>

\* Mutant: the membership test is inverted, so supported entries are dropped.
CleanupDropInverted ==
    /\ cleanup.pc = "fetched"
    /\ Drop(GetCachedObjectsIds(index) \cap cleanup.snap)
    /\ cleanup' = [pc |-> "idle", snap |-> {}]
    /\ UNCHANGED <<phase, supported, ing, ingests, restarts>>

\* cacheCleanup, after the await (lines 234-251): every cached id missing
\* from the fetched set is dropped.
CleanupDrop ==
    /\ cleanup.pc = "fetched"
    /\ Drop(GetCachedObjectsIds(index) \ cleanup.snap)
    /\ cleanup' = [pc |-> "idle", snap |-> {}]
    /\ UNCHANGED <<phase, supported, ing, ingests, restarts>>

\* The chain assigns an object to, or removes it from, this node.
AuthorityChange(o) ==
    /\ supported' = IF o \in supported THEN supported \ {o} ELSE supported \cup {o}
    /\ UNCHANGED <<phase, disk, contentSizeSum, index, ing, cleanup, ingests, restarts>>

(***************************************************************************)
(* The node process crashes at any point and a new ContentService starts:  *)
(* the files stay (a file unlinked while open is gone), the counter starts *)
(* at 0 (line 209), in-flight requests and the cleanup pass are lost, and  *)
(* the index is whatever StateCacheService loads.                          *)
(***************************************************************************)
Restart ==
    /\ restarts < MaxRestarts
    /\ restarts' = restarts + 1
    /\ phase' = "init"
    /\ contentSizeSum' = 0
    /\ index' \in LoadedIndexes
    /\ ing' = [r \in Reqs |-> IdleReq]
    /\ cleanup' = [pc |-> "idle", snap |-> {}]
    /\ UNCHANGED <<disk, supported, ingests>>

(***************************************************************************)
(* The node starts with whatever files the data directory holds and the    *)
(* index it loaded; nothing is pending and nothing is counted yet.         *)
(***************************************************************************)
Init ==
    /\ phase = "init"
    /\ disk \in UNION {[D -> InitFileSizes] : D \in SUBSET Objs}
    /\ contentSizeSum = 0
    /\ index \in LoadedIndexes
    /\ supported \in SUBSET Objs
    /\ ing = [r \in Reqs |-> IdleReq]
    /\ cleanup = [pc |-> "idle", snap |-> {}]
    /\ ingests = 0
    /\ restarts = 0

SourceStep(r) ==
    \/ \E c \in ChunkSizes : SourceChunk(r, c)
    \/ SourceEnd(r)
    \/ SourceError(r)

Next ==
    \/ StartupInit
    \/ \E r \in Reqs :
        \/ HandleNewContent(r)
        \/ WakeEviction(r)
        \/ OpenFile(r)
        \/ OpenFail(r)
        \/ SourceStep(r)
        \/ FileWrite(r)
        \/ PipelineDone(r)
        \/ CommitContent(r)
    \/ CleanupFetch
    \/ CleanupDrop
    \/ \E o \in Objs : AuthorityChange(o)
    \/ Restart

(***************************************************************************)
(* Node's event loop eventually runs every ready callback: timers, stream  *)
(* events and resolved promises.  Sources are assumed to keep sending      *)
(* until they end or fail (the code has no timeout for a stalled source).  *)
(* cacheCleanup runs periodically (spec 4.3) and its fetch resolves.       *)
(***************************************************************************)
Fairness ==
    /\ WF_vars(StartupInit)
    /\ WF_vars(CleanupFetch)
    /\ WF_vars(CleanupDrop)
    /\ \A r \in Reqs :
        /\ WF_vars(WakeEviction(r))
        /\ WF_vars(OpenFile(r))
        /\ WF_vars(SourceStep(r))
        /\ WF_vars(FileWrite(r))
        /\ WF_vars(PipelineDone(r))
        /\ WF_vars(CommitContent(r))

Spec == Init /\ [][Next]_vars /\ Fairness

-----------------------------------------------------------------------------
(* Properties *)

TypeOK ==
    /\ phase \in {"init", "running"}
    /\ DOMAIN disk \subseteq Objs /\ \A o \in DOMAIN disk : disk[o] \in Nat
    /\ contentSizeSum \in Nat
    /\ index \in IndexType
    /\ supported \subseteq Objs
    /\ ing \in [Reqs -> ReqType]
    /\ cleanup \in [pc : {"idle", "fetched"}, snap : SUBSET Objs]
    /\ ingests \in 0..MaxIngests
    /\ restarts \in 0..MaxRestarts

\* Requests holding a reservation: from the reserve step to the end.
Reserving == {r \in Reqs : ing[r].pc \in {"streaming", "detecting"}}

\* Reserved bytes plus the sizes of the files no reservation stands for.
AccountedBytes ==
    LET inflight == {ing[r].obj : r \in Reserving} IN
    FilesSize(DOMAIN disk \ inflight)
      + SumFunctionOnSet([r \in Reqs |-> ing[r].exp], Reserving)

(***************************************************************************)
(* Spec 3 and 8: once reconciled, contentSizeSum is exactly the bytes of   *)
(* the files in the data directory, with an in-flight download counted at  *)
(* its reservation.  Breaking it takes a reservation, drops by eviction,   *)
(* cleanup or failure, and startup's add-then-drop to disagree.            *)
(***************************************************************************)
UsedSpaceAccounting ==
    phase = "running" => contentSizeSum = AccountedBytes

(***************************************************************************)
(* The bytes physically in the data directory never exceed contentSizeSum: *)
(* the counter may over-count (a leaked reservation) but an under-count    *)
(* lets later downloads fill the disk past config.limits.storage.          *)
(***************************************************************************)
DiskWithinAccounted ==
    phase = "running" => FilesSize(DOMAIN disk) <= contentSizeSum

(***************************************************************************)
(* Every committed cache entry is backed by a file of exactly the size the *)
(* chain records: the pipeline callback's byte checks, the await of        *)
(* detectMimeType, eviction and cleanup drops never leave an entry whose   *)
(* file is missing or partial.                                             *)
(***************************************************************************)
CommittedMatchesDisk ==
    phase = "running" =>
        \A o \in GetCachedObjectsIds(index) :
            o \in DOMAIN disk /\ disk[o] = ObjSize[o]

(***************************************************************************)
(* Spec 8, boundaries: an ingestion that fails, ends short or overflows    *)
(* leaves no partial file behind, and startup purges files of the wrong    *)
(* size.  Every file no ingestion is writing has the chain's size.  It     *)
(* takes a failure path of the pipeline callback, drop() and the file      *)
(* stream's late writes to agree.                                          *)
(***************************************************************************)
NoPartialFiles ==
    phase = "running" =>
        \A o \in DOMAIN disk \ {ing[r].obj : r \in Reserving} : disk[o] = ObjSize[o]

\* The objects some handleNewContent call is still working on.
LiveObjs == {ing[r].obj : r \in {q \in Reqs : ing[q].pc # "idle"}}

(***************************************************************************)
(* Neither failure branch of the pipeline callback (lines 402-421) calls   *)
(* dropPendingDownload, so a failed id stays pending in the index, where   *)
(* neither eviction nor cacheCleanup ever looks.  Such a stale pending id  *)
(* must at least hold no file: its bytes would otherwise stay on disk, and *)
(* in the counter, for good.  It takes drop() on every failure path, the   *)
(* late writes of the failed stream and a crash at any point to agree.     *)
(***************************************************************************)
StalePendingHoldsNoFile ==
    \A o \in index.pending \ LiveObjs : o \notin DOMAIN disk

\* The objects of the requests holding a reservation.
InflightObjs == {ing[r].obj : r \in Reserving}

(***************************************************************************)
(* The refinement mapping onto ContentCache.  Before startupInit nothing  *)
(* is stored; afterwards the stored objects are the files no ingestion is  *)
(* writing, the committed entries are the index's cache entries, and the   *)
(* counter is contentSizeSum.                                              *)
(***************************************************************************)
Abstract == INSTANCE ContentCache WITH
    loaded <- phase = "running",
    stored <- IF phase = "init" THEN {} ELSE DOMAIN disk \ InflightObjs,
    evictable <- IF phase = "init" THEN {} ELSE GetCachedObjectsIds(index),
    reserved <- InflightObjs,
    used <- contentSizeSum

(***************************************************************************)
(* ContentService implements ContentCache: startup, every eviction,       *)
(* reservation, commit and cleanup step of the code is a step of the       *)
(* abstract cache (or leaves it unchanged).  Among other things this says  *)
(* that a reservation never takes contentSizeSum past the limit although   *)
(* the free-space check and the reservation are separated by the awaited   *)
(* eviction loop, that eviction and cleanup only remove committed entries  *)
(* and free exactly their bytes, and that only a reserved object becomes   *)
(* a committed entry.                                                      *)
(***************************************************************************)
ImplementsContentCache == Abstract!Spec

(***************************************************************************)
(* Every handleNewContent call eventually finishes: the eviction loop's    *)
(* wait ends and the download is committed or dropped.                     *)
(***************************************************************************)
IngestionCompletes ==
    \A r \in Reqs : ing[r].pc # "idle" ~> ing[r].pc = "idle"

(***************************************************************************)
(* Spec 8: a committed entry the chain no longer assigns to the node is    *)
(* removed by a later cleanup pass, although each pass works from a        *)
(* snapshot fetched before its await while downloads, evictions and       *)
(* assignment changes go on.                                               *)
(***************************************************************************)
UnsupportedEventuallyDropped ==
    \A o \in Objs :
        (o \in GetCachedObjectsIds(index) /\ o \notin supported)
            ~> (o \notin GetCachedObjectsIds(index) \/ o \in supported)

(***************************************************************************)
(* Spec 4.4 step 5: a failed ingestion is removed and its failure is      *)
(* reported to the caller.  The only report handleNewContent has is the    *)
(* promise it returns, which resolve() settles on the file's 'open' event  *)
(* (line 427); the pipeline callback's reject(err) (line 408) therefore    *)
(* reaches the caller only when the file never opened.  Every step that   *)
(* ends a download in the failure branch of the callback, other than a     *)
(* crash, happens while the promise is still unsettled.                    *)
(***************************************************************************)
FailureReportedToCaller ==
    [][\A r \in Reqs :
         (ing[r].pc = "streaming" /\ ing'[r].pc = "idle" /\ restarts' = restarts)
             => ~ing[r].opened]_vars

=============================================================================
