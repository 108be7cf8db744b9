# Model-checking the distributor node's content cache and its tooling

TLA+ models, checked with TLC, of:

- the content cache manager in `src/types/src/storage.ts` (class
  `ContentService`, lines 190-437), the core of this project;
- the CLI command `content:deleteVideoAssetsAsModerator`;
- the network-tests flow `leaderSetup`;
- the runtime-upgrade migration script (`src/unnamed/part_001`).

## 1. Inventory

### Components

| Component | Source | State | Operations |
|---|---|---|---|
| Content cache manager (`ContentService`) | storage.ts 190-437 | `contentSizeSum` (used bytes, owned here) | `startupInit`, `cacheCleanup`, `drop`, `evictCacheUntilFreeSpaceReached`, `handleNewContent` (pipeline callback, `'open'` and `'data'` handlers); read-only `fileSize`, `exists`, `detectMimeType`, read streams |
| Filesystem content store | storage.ts 324-351 (`fs` calls) | files of the data directory: id -> size | unlink, create/truncate on `createWriteStream` (flags `'w'`), asynchronous writes, stat |
| Cache index (`StateCacheService`) | not in this repository | committed LRU entries, pending downloads, MIME types | `getCachedObjectsIds`, `getCacheEvictCandidateObjectId`, `dropById`, `newPendingDownload`, `dropPendingDownload`, `newContent`, `setContentMimeType` |
| Authority (`NetworkingService`) | not in this repository | the set of objects the chain assigns to the node, with sizes | `fetchSupportedDataObjects` |
| Storage chain types | storage.ts 1-189 | none (codec declarations) | none |
| CLI `content:deleteVideoAssetsAsModerator` | cli/.../deleteVideoAssetsAsModerator.ts | query-node data objects, confirmation | validate asset ids, sum the bloat bonds, send the extrinsic |
| network-tests `leaderSetup` flow | tests/network-tests/src/flows/leaderSetup.ts | `DbService` leaders per working group | hire a lead unless one is recorded |
| CLI JSON input schemas | unnamed/part_000 | static data | none |
| Runtime-upgrade test script | unnamed/part_001 | shell variables, docker | sequential orchestration |
| Infrastructure deploy script | devops/infrastructure/deploy-infra.sh | AWS stack | sequential provisioning |

### How the components interact

`ContentService` calls the index synchronously and the filesystem through
`fs`. Synchronous calls include `existsSync`, `statSync` and `unlinkSync`.
Streams are asynchronous. It awaits the authority in `startupInit` and
`cacheCleanup`. Downloaders call `handleNewContent` concurrently. The caller
marks a download pending before the call. The returned promise resolves on
the write stream's `'open'` event. The commit or drop happens later, in the
`pipeline` callback. `cacheCleanup` runs periodically. Nothing serialises it
against downloads.

Node runs every callback to completion. The interleavings therefore happen
only at awaits and at events:

- awaits: the fetch, the eviction timer, `detectMimeType`;
- events: stream `'data'`, `'open'`, write completion, the pipeline callback.

### What is hard

- **Accounting across partial failure.** The reservation at line 381 is
  released by `drop()`. `drop()` subtracts the current file size, not the
  reservation. An error, a short source or an overflowing source all leave
  the counter wrong.
- **Check-then-reserve across an await.** Lines 376-381 check free space,
  then reserve, with the eviction loop awaited in between. Other downloads
  run during that await.
- **Unbounded waiting.** The eviction loop (line 363) sleeps until something
  is evictable. Nothing guarantees that this ever happens.
- **Restart.** `startupInit` rebuilds the counter from the files found on
  disk. It does not rebuild the index from them.
- **Stale reads.** `cacheCleanup` applies a snapshot fetched before an await.
  The commit awaits `detectMimeType` after the byte checks.
- **Same id twice.** `handleNewContent` does not check whether the id is
  already on disk or pending.

### What makes each component correct

- Manager and store, from spec sections 3, 5 and 8:
  - `contentSizeSum` equals the bytes on disk plus in-flight reservations.
  - The counter never drops below the bytes on disk.
  - No reservation passes the limit.
  - Every committed entry has a file of the chain's size.
  - Every download eventually finishes.
- Index: pending entries are never eviction candidates. The index never
  lists a committed entry without a file.

The hazards, each at its line, are listed in `PROJECT.json`.

## 2. Modules

| Module | Models |
|---|---|
| `CacheIndex` | The index interface as pure operators on a record `[cached, pending, mime]`. Its source is not in this repository, so it is modelled from spec section 6. |
| `ContentService` | The manager, the data directory (`disk`), the authority (`supported`), concurrent requests `Reqs`, one `cacheCleanup` process. |
| `ContentCache` | The abstract specification of the manager: stored objects, committed (evictable) entries, reservations and the used counter, with the actions `Load`, `Reserve`, `Remove`, `Complete`, `Abort` and `Crash`. It is written from spec sections 3, 4 and 8, not from code. |
| `MCContentService` | TLC instance: model values, sizes, symmetry, and the initial condition "the loaded index lists every file". |
| `DeleteVideoAssets` | The CLI command: the `--assetIds` list, the query node's view of the video's objects, the chain's, the bond shown and the bond paid. |
| `MCDeleteVideoAssets` | TLC instance: three objects with bonds 0, 1 and 2. |
| `LeaderSetup` | Concurrent `leaderSetup` calls for several working groups sharing one `DbService`, and the chain's leads. |
| `MCLeaderSetup` | TLC instance: two groups, four calls (two per group). |
| `RuntimeUpgradeScript` | The migration script rerun on one working directory: `set -e`, the flag defaults, `fork_off_init`'s download of `storage.json`, `main`. |

How the state of `ContentService` maps to the code:

| TLA+ variable | Code |
|---|---|
| `contentSizeSum` | `this.contentSizeSum` |
| `disk` | files under `config.directories.data` and their sizes |
| `index` | `StateCacheService` |
| `supported` | what `fetchSupportedDataObjects` would return now |
| `ing[r]` | one `handleNewContent` call: `pc`, `obj`, `exp` = `expectedSize`, `recv` = `bytesRecieved`, `buf` = bytes piped but not yet written, `written` = `fileStream.bytesWritten`, `opened`, `ended`, `err` |
| `cleanup` | an in-progress `cacheCleanup` and the snapshot it fetched |
| `phase` | before and after `startupInit` |

Each synchronous stretch of code is one action:

- `StartupInit`: the whole of `startupInit`. The node runs it before serving.
- `HandleNewContent`: the call up to the reservation or the first sleep.
  The eviction loop's synchronous run is the set-valued `EvictionOutcomes`:
  every set of candidates the loop can drop before it reaches the target or
  runs out.
- `WakeEviction`: the timer fires and the loop runs again.
- `OpenFile`: the `'open'` event, which creates or truncates the file.
- `OpenFail`: the file fails to open (too many open files, a full disk,
  no permission). No file exists, `'open'` never fires, and the pipeline
  callback gets the error. `drop()` then finds no file and subtracts
  nothing. This is the only path on which the promise's `reject` reaches
  the caller. It is enabled by the mode `"openfail"` and has no fairness.
- `SourceChunk`: a `'data'` event, with the overflow guard.
- `SourceEnd`, `SourceError`: the source stream ends or fails.
- `FileWrite`: buffered bytes are written at the stream's offset.
- `PipelineDone`: the pipeline callback.
- `CommitContent`: the continuation after `detectMimeType`.
- `CleanupFetch`, `CleanupDrop`: the two halves of `cacheCleanup` around its
  await.
- `AuthorityChange`: the chain reassigns an object.
- `Restart`: the node crashes and a new `ContentService` is constructed.
  Spec section 8 makes the files the only durable state, so the files
  stay, the counter starts at 0 (line 209), in-flight requests and the
  cleanup pass are lost, and the index is any index
  `StateCacheService` may load (`LoadedIndexes`, no pending entries).
  `startupInit` must then run again. `MaxRestarts` bounds the crashes.

`Drop(S)` is `drop()` applied to each id of `S`. `MimeDetectable(o)` is
`detectMimeType`: it resolves only while the file exists.

`ContentService!Abstract` is the refinement mapping onto `ContentCache`:

- `stored` is the files no ingestion is writing;
- `evictable` is the index's cache entries;
- `reserved` is the objects of the requests holding a reservation;
- `used` is `contentSizeSum`.

Before `startupInit` everything maps to empty. `ImplementsContentCache`
(`Abstract!Spec`) is checked as a temporal property. Each code step maps
to one abstract step or to a stutter:

- `StartupInit` is `Load`.
- An eviction that leaves the request waiting, and a cleanup drop, are
  `Remove`.
- A reservation, with the evictions of the same step, is `Reserve`.
- The commit is `Complete`.
- `Restart` is `Crash`. The next `StartupInit` is `Load`, of whatever
  files survived the crash.
- Stream events, writes and the byte checks are stutters.

`DeleteVideoAssets` has one action per await of `run()`:

- `GetDataObjectsInfo`: the query, the per-id check and the bond sum.
- `Confirm`: the prompt.
- `ApplyTx`: the extrinsic with the ids as a set.

`OtherAssetChange` and `QueryNodeSync` model the chain changing under the
command and the query node catching up. The chain's behaviour is not in
this repository; it is modelled from the extrinsic's contract.

`LeaderSetup` has one action per step of a call:

- `CheckLeader`: the early return at line 14.
- `RunHiringFixture`: the awaited fixture at line 46. The chain refuses a
  second lead for a group, and the fixture then fails.
- `SetLeader`: line 48.

`RuntimeUpgradeScript` has one action per command group of `main`. Each
command may fail, and `set -e` then ends the run. `storage.json` persists
between runs. `StartRun` applies the default assignments. `$true` and
`$false` are never assigned, so they expand to the empty string.
`SubshellStatus` gives the exit status of `( $X )`.

## 3. Runs

The `ContentService` runs use:

- two objects, `o1` of size 2 and `o2` of size 1;
- `Limit = 2`, so `o2` cannot be stored next to `o1` and downloads evict;
- two concurrent requests;
- chunks of size 1 or 2;
- leftover files of size 1 or 2, which covers matching and mismatching
  sizes at startup;
- at most 3 downloads (`MaxIngests`).

The happy run is larger:

- a third object `o3` of size 1, so `o2` and `o3` fit together and a
  download of `o1` must evict both;
- one crash (`MaxRestarts = 1`) at any step, so a restart can hit two
  downloads in flight, a waiting eviction or a cleanup pass;
- at most 2 downloads, which keeps the run near two minutes.

This instance has about 340,000 distinct states. The robust run also
allows one crash. The other runs allow none: a crash can leave a file the
loaded index does not list, and that is the orphan finding, which
`ingestion_completes` excludes by its initial condition.

Every initial state is a state the node can start in: any files, any loaded
index, any assignment. Symmetry over the request slots is used only in the
safety runs.

| Run | cfg | Expect | Shows |
|---|---|---|---|
| happy_accounting | MCHappy | pass | Sources send exactly the expected bytes. `UsedSpaceAccounting`: the counter equals the disk's bytes plus reservations through startup, eviction, cleanup, concurrency and a crash. `ImplementsContentCache`: every step is a step of the abstract cache. In particular, no reservation passes the limit, eviction and cleanup only remove committed entries and free exactly their bytes, and only a reserved object becomes committed. No download fails here, so `Abort` is never exercised; the failure paths are the robust run's. |
| robust_accounting | MCRobust | pass | Sources may end early or fail, and files may fail to open (no source overflows here; that is `overflow_undercounts`). `TypeOK`: the variables keep their types. `DiskWithinAccounted`: the counter is never below the disk's bytes. `CommittedMatchesDisk`: committed entries have full files. `NoPartialFiles`: every file no ingestion is writing has the chain's size, so failed, short and overflowing downloads leave nothing behind (spec 8, boundaries). `StalePendingHoldsNoFile`: neither failure branch calls `dropPendingDownload`, so a failed id stays pending, out of reach of eviction and cleanup; it must hold no file. Only a download that fails after its last byte was written tells this apart from `NoPartialFiles`. All of these hold across a crash in the middle of a download: the size check of `startupInit` removes the partial file. |
| noguard_accounting | MCNoGuard | pass | Callers may re-ingest an existing or pending id. `DiskWithinAccounted`: with two writers of one id (a truncating open, overlapping writes, a drop of the shared file) the counter still never under-counts. |
| ingestion_completes | MCLive | pass | `IngestionCompletes` holds when the loaded index lists every file on disk. `UnsupportedEventuallyDropped`: a committed entry the chain stops assigning is eventually removed, although each cleanup pass works from a snapshot fetched before its await. |
| failed_download_leaks | MCLeak | violation | A failed or short download leaves part of its reservation counted. |
| overflow_undercounts | MCOverflow | violation | Overflow bytes reach the disk, and `drop()` subtracts more than was reserved. |
| startup_orphans_block_eviction | MCOrphan | violation | A file kept at startup but not in the index is counted and never evictable, so a download waits forever. |
| same_id_double_reserve | MCSameId | violation | Re-ingesting an id that is already on disk (a file kept at startup) reserves its bytes a second time. |
| unreported_failure | MCUnreported | violation | `FailureReportedToCaller`: a source that fails after the file opened has its download dropped, but the promise resolved at `'open'` and the later `reject(err)` does nothing, so the caller never learns of the failure (spec 4.4 steps 5 and 6). |
| delete_assets_repeated_ids | MCDeleteVideoAssetsRepeats | violation | A repeated id is summed twice but sent once. |
| leader_setup_wrong_group | MCLeaderSetupSetup | violation | After a storage leader is recorded, `leaderSetup` for the content group returns without a content leader. |
| upgrade_partial_state | MCRuntimeUpgradePartialState | violation | A failed download leaves a partial `storage.json`, and the next run forks from it. |

The bounds are enough for these reasons:

- every eviction outcome occurs: none, one object, or all objects with the
  target still not reached;
- every startup branch occurs: unsupported, size mismatch, kept, ghost
  index entry;
- two requests are enough for one to wait on the other's reservation;
- three objects (happy run) make one download evict several entries;
- one crash is enough to reach every point where a crash can hit: each
  state before it is reachable, and after `startupInit` the node is in a
  state the first start could also produce;
- each failure mode occurs at the first chunk and after it, including a
  source error after the last byte was written.

Larger instances were tried and are out of the time budget: the robust
run with three objects takes about 3 minutes (1.8 million states, 7.5
minutes with three requests), the liveness run with three objects about
10 minutes.

### Fairness

The liveness run assumes weak fairness on these actions:

- the eviction timer;
- stream events and writes;
- the pipeline callback;
- the `detectMimeType` continuation;
- source progress;
- the two steps of `cacheCleanup`.

Node's event loop runs every ready callback, which justifies the first four.
Source progress is an assumption about the network: the code has no timeout
for a stalled source, which is listed as a hazard. `cacheCleanup` runs
periodically (spec 4.3). The timer that calls it is outside the
repository, so its fairness rests on the spec. Chain changes get no
fairness.

### Findings

The eight violations are recorded in `PROJECT.json` under `findings`:

- two accounting bugs in the failure paths of `handleNewContent`;
- startup orphans, which can block eviction forever;
- the missing per-id guard (spec section 5 requires the manager to reject
  it);
- a failure after the file opened is never reported to the caller;
- the CLI's bond message counts repeated ids;
- `leaderSetup` checks the storage group's leader for every group;
- the migration script reuses a partial `storage.json` after a failed
  download.

## 4. Not modelled

- The storage chain types: codecs only.
- The JSON schemas: static data.
- The deploy script: AWS and Ansible provisioning.
- The migration script's docker containers, and its functions that `main`
  never calls (`upgrade_runtime`, `pre_migration_cli`,
  `post_migration_cli`).
- `cleanup` and `start_node`: they live in `node-utils.sh`, which is not in
  the repository. The model assumes `cleanup` stops the node.
- The internals of the index's LRU policy. The model allows any committed,
  non-pending candidate, which covers every policy.
- Index persistence. `StateCacheService` is not in the repository; a
  restart loads any index without pending entries.
- Read streams. They change no state.

## 5. Plan

1. Done: `ContentService` with `CacheIndex`, the accounting, commit,
   partial-file and liveness properties, and the five violations above.
2. Done: the abstract `ContentCache` and the refinement
   `ImplementsContentCache`, including a crash; `Restart` in the happy and
   robust runs.
3. Done: `DeleteVideoAssets`, `LeaderSetup` and `RuntimeUpgradeScript`,
   each with the violation above. `DeleteVideoAssets` has no passing
   run: bonds are fixed per object and the chain re-checks the ids, so with
   distinct ids the bond shown equals the bond paid by arithmetic alone,
   and the query node's lag only decides whether the command exits.
4. Open: runs for the hazards without a property. They need violation
   runs of their own:
   - objects larger than the limit (eviction waits forever);
   - stalled sources (no timeout);
   - failed ids left pending forever (the caller is not in the repository;
     `StalePendingHoldsNoFile` checks only that they hold no file).
5. Open: a property for the node left running when a migration run fails.
   It needs `node-utils.sh`. A property for concurrent `leaderSetup` calls
   of one group: both pass the check, and the second hire fails.
