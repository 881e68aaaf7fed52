# TLA+ models of HDTN's bundle store, BPSec policy engine and directory scanner

This directory holds TLA+ specifications of the parts of HDTN under `src/`
whose behaviour depends on more than one thread, on the order of events, or
on what survives a restart. Each model is checked with TLC. `PROJECT.json`
lists the components, the runs, the mutants that show each property can fail,
the source lines behind every definition, the findings and the hazards.

## The system

HDTN is a delay-tolerant networking node. Three of its parts hold most of
the state:

1. **Bundle store** (`src/module/storage/src/BundleStorageManagerBase.cpp`).
   A bundle is cut into fixed-size segments. Each segment is written with a
   header: `bundleSizeBytes` (the real size on the head, `UINT64_MAX` on the
   others) and `nextSegmentId` (`UINT32_MAX` on the last). A segment with id
   `s` lives at offset `s / D` of disk file `s % D`.
   - The **memory manager** (`MemoryManagerTreeArray`, not under `src/`) hands
     out free segment ids.
   - The **catalog** `m_destMap` maps destination → priority (0..2) →
     expiration → a list of chains, used as a LIFO.
   - The main thread drives the store through sessions: `Push`,
     `PushSegment`, `PopTop`, `ReturnTop`, `TopSegment` (read-ahead into a
     per-session cache of `READ_CACHE_NUM_SEGMENTS_PER_SESSION` slots) and
     `RemoveReadBundleFromDisk`. Removal overwrites the head's size with
     `UINT64_MAX`.
   - Each disk has a **worker thread** that drains a single-producer /
     single-consumer ring of segment operations (the ring and workers are not
     under `src/`). The main thread blocks while a ring is full.
   - On construction with `tryToRestoreFromDisk`, **RestoreFromDisk** scans
     the files for heads and rebuilds the catalog and the allocation map.
2. **BPSec policy engine** (`src/common/bpsec/src/BpSecPolicyManager.cpp`).
   - A trie of policies keyed by security source, bundle source and bundle
     final destination, each level with exact, node-wildcard and any-EID
     entries. A one-entry search cache sits in front of the lookup.
   - On receive it processes all BCBs, then all BIBs, applying the policy's
     failure-event actions.
   - On send it adds the BIB first, then the BCB.
   - `LoadFromConfig` builds the trie from JSON rules.
3. **Directory scanner** (`src/common/util/src/DirectoryScanner.cpp`). It
   feeds a file sender.
   - `Reload` scans the tree down to `m_recurseDirectoriesDepth` and lists
     the files.
   - An io_service thread handles the directory monitor's events: a new
     directory is watched and scanned, and a new or modified file is queued
     for a size recheck (`TryAddNewFile`).
   - The recheck timer accepts a file once its size stayed the same for
     one period (`OnRecheckFileSize_TimerExpired`). A file with several
     events has several queue entries; a queue count says which is last.
   - The sender's thread drains the list through `GetNextFilePath`, under
     a mutex, with an iterator that the timer handler moves when it appends
     to a drained list.

The other files under `src/` are startup runners, header structs, a
websocket server and a test app. They hold no protocol state (see
"Not modelled").

## Inventory: state, operations and hazards

| Component | State | Operations | What is hard |
|---|---|---|---|
| Bundle store | free set, catalog, write session, read session (indices, cache, ready flags), disk files | Push, PushSegment, PopTop, ReturnTop, TopSegment, RemoveReadBundleFromDisk, RestoreFromDisk | read-ahead racing the workers; the kill write and the freeing of segments before writes are durable; restore after a crash; LIFO order across restart |
| Disk workers | one ring per disk (buffers, read and write index) | drain one operation | full rings block the main thread; FIFO only per disk |
| Memory manager | free leaves | allocate n (smallest first), free, allocate one id (restore) | leaks on partial restore |
| BPSec engine | policy trie, search cache | FindPolicy(WithCacheSupport), ProcessReceivedBundle, ProcessOutgoingBundle, LoadFromConfig | cascade order, cache staleness, failure-event actions, BIB/BCB ordering, validation of merged policies |
| Directory scanner | pending paths with queue counts, timer queue, accepted paths, iterator | add file, timer expiry, get next path | debounce counts against the timer queue; the iterator against appends |

## Modules

- `MemoryManager.tla` gives the memory manager's operators as pure operators
  over the free set. Its source is not under `src/`, so it is modelled from
  spec §4.1. It also holds two mutation variants.
- `BundleStorage.tla` is the store, its rings, its workers and its restarts.
  - **Variables:**
    - `free` is the memory manager.
    - `disk` maps a segment id to its record `[size, next, data]`.
    - `ring` holds the per-disk rings. Each slot keeps its data buffer, so a
      kill write carries the stale bytes the slot last held.
    - `catalog` maps `<<dest, prio, exp>>` to a sequence of chains, front
      first.
    - `ws` and `rs` are the two sessions.
    - `readCache` and `ready` are the read session's cache slots and flags.
    - `mainPc` is either `"idle"` or `"topSegment"`.
    - `restored` holds the restore's result and counters.
    - `attr` (ghost, used only by the properties) records each pushed
      bundle's attributes; `restarts` counts restarts up to `MaxRestarts`.
  - **Payloads:** a payload is abstracted to the tag `<<bid, k>>`, the k-th
    part of bundle `bid`. A never-written hole reads as zeros (`Zero`).
  - **Actions:** `Push`, `PushSegment`, `PopTop`, `ReturnTop`, and
    `TopSegment` split at its wait into `TopSegmentSchedule` and
    `TopSegmentConsume`. Then `RemoveReadBundleFromDisk(force)`,
    `DiskWorker(d)`, `CleanRestart` and `Crash`. Each action follows its
    function's guards, early returns and assignments.
  - **Restore:** `RestoreFromDisk` is the recursive pair `Scan` (the outer
    loop over potential heads) and `Walk` (the inner loop along one chain).
    Every `return false` of the code ends the recursion, keeping the partial
    state, as the code does.
  - **Refinement:** `Abs == INSTANCE BundleCatalog WITH ...` maps the
    catalog to its bundle ids and the read session's open bundle to the one
    the abstract reader holds; `CatalogRefinement == Abs!Spec`.
- `BundleCatalog.tla` is what the store promises its caller (spec §3, §5):
  buckets per (destination, priority, expiration); `Store` puts a bundle in
  front; `Take` over a vector of available links serves the highest
  priority, then the earliest expiration, then the front; `GiveBack` and
  `Delete`.
- `MCBundleStorage.tla` fixes the attribute set and the link vectors for TLC.
- `BpSecPolicy.tla` is the policy manager's load and lookup.
  - **State:** `filters` (the trie nodes created, as paths of at most three
    EID patterns), `policies` (path × role → policy or `None`), `config` and
    `ruleI` (the rules loop of `LoadFromConfig`), `pc` (`load`, `loaded`,
    `failed`), `cache` (one `PolicySearchCache` per processing context) and
    the ghost `answer`.
  - **Data abstraction:** a pattern is `ipn:*.*`, `ipn:N.*`, an exact EID or
    a URI that does not parse. Keys, variants, masks and CRC types are
    abstracted to one `paramsOk` flag per rule; a policy keeps its two
    halves' flags, target block types and failure-event masks.
  - **Actions:** `LoadRule` is one iteration of the rules loop, including
    the SOURCE `ValidateAndFinalize` of `policyToCopy`, the pair loop
    (`MergePairs`: `CreateOrGetNewPolicy`, the duplicate-service check, the
    merge and the flag overwrite of lines 1214–1216). `LoadDone` ends the
    loop. `Lookup(x, q)` is `FindPolicyWithCacheSupport` through context
    `x`'s cache. `FindPolicy` descends exact, then node wildcard, then any,
    without backtracking, as `Internal_GetPolicyFilterFromThisFilter` does.
- `BpSecReceive.tla` extends it with `ProcessReceivedBundle` on one
  received bundle (blocks, and ASBs with security source and target list).
  - **State:** `phase` (`bcb`, `bib`, `done`, `dropped`), `asbI` (the loop
    index), `sops` (each ASB's remaining targets), `marked` (blocks marked
    for deletion), `encrypted` (blocks still encrypted), `missingMask` (the
    configured SOp-missing-at-acceptor mask) and the ghost `intended`.
  - **Actions:** `ProcessBcb` and `ProcessBib` are one iteration of the
    BCB loop and of the BIB loop; the two loops differ only in the service
    and contexts, so both are `ProcessAsb` with `isIntegrity` set:
    acceptor lookup, the missing-acceptor path at the final destination,
    the verifier lookup, the `continue` when the policy lacks the service,
    and the processor's result. `DoFailureEvent` and
    `DoFailureEventSopMissingAtAcceptor` are operators that follow every
    branch of the code for the three events; one error of
    `DoFailureEvent` is `FailureStep`, which hands it to
    `AcceptorFailure` or `VerifierFailure`, the code's two branches. `EndBcbs` and `EndBibs` end
    the loops.
  - **Processor (spec-modelled):** `BpSecBundleProcessor` is not under
    `src/`. Its error list is any set of failed target indices, greatest
    first, or `<<All>>`. An acceptor decrypts or verifies the targets
    without errors.
- `BpSecSource.tla` extends `BpSecPolicy` with
  `FindPolicyAndProcessOutgoingBundle`: the source-cache lookup,
  `PopulateTargetArraysForSecuritySource` (with the placeholder 0 for block
  type 11), the BIB added before the primary's successor, the backfill of
  the placeholder and the BCB. Whether the processor succeeds is a choice.
  The LUT overload of `PopulateTargetArraysForSecuritySource` (lines
  858–906, for callers that number blocks themselves) is the operator
  `PopulateTargetArraysLut`, which takes a table from block type (below
  `MaxBlockTypes`, `RESERVED_MAX_BLOCK_TYPES`) to block number.
- `BpSecNode.tla` composes the two: one manager, loaded once, processes a
  received bundle and then sends one, so the receive contexts' caches and
  the source cache are filled from one trie. While the receive has not
  started, any lookup through the contexts in `ProbeCtxs` may happen
  (earlier bundles filling the caches). The send starts only once the
  receive has finished: the two touch disjoint state except the trie, which
  neither changes, so the other orders reach the same states.
- `DirectoryScanner.tla` is the scanner.
  - **State:** `exists` and `size` (the disk), `events` (the monitor's
    undelivered events), `monitored`, `added` (`m_newFilePathsAddedSet`),
    `pendSize` and `pendCount` (`m_currentlyPendingFilesToAddMap`), `timerQ`
    (the timer queue as a FIFO of paths: every entry has the same delay),
    `timerArmed`, `list` and `iter` (the path list and its iterator, an
    index or `End`), and the ghost `sent`.
  - **Paths:** directories and files are model values with a fixed parent;
    `Depth` is the depth `relative()` gives. `Visited` is the set a
    `recursive_directory_iterator` with `no_push` beyond the depth visits.
  - **Actions:** `OnDirectoryChangeEvent` handles the head event with
    every branch of the handler (`AddDirectoryAndScan` for a new directory,
    `TryAddNewFile`, removal, rename-in). `OnRecheckFileSize_TimerExpired`
    pops the front entry. `GetNextFilePath` returns and erases the path at
    the iterator. `Init` is the constructor's `Reload` on any tree.
  - **Environment:** `MkDir`, `RmDir`, `CreateFile`, `WriteFile`,
    `MoveInFile`, `MoveInDir` change the disk and queue an event when the
    parent is watched.
- `MCDirectoryScanner.tla` fixes the tree: `d1` and `f1` in the root, `f2`
  and `d2` in `d1`, `f3` in `d2`.
- `MCBpSecPolicy.tla`, `MCBpSecReceive.tla`, `MCBpSecSource.tla` and
  `MCBpSecNode.tla` give
  nine rules (one of each kind the properties tell apart: node-wildcard,
  exact and any security sources; a pair with a bad URI; two rules on one
  path for the duplicate check; a verifier rule for two exact destinations
  next to an any-destination one; SOURCE rules with overlapping targets; a
  rule whose parameters fail), the EIDs ipn:1.1, ipn:1.2 and ipn:2.1, and
  a received bundle with a BIB over blocks 1 and 2 and a BCB over blocks 1,
  2 and 3.

## Runs

All the runs below use two disks, four segments (two per file), two payload
units per segment, and a read cache of depth 2. The bundles take one, two or
three segments, so read-ahead wraps its cache index and chains cross disks.
The rings have `CIRCULAR_INDEX_BUFFER_SIZE = 2`, i.e. one usable slot, so the
main thread really blocks on a full ring.

| Run | Cfg | Expect | What it shows |
|---|---|---|---|
| store_clean | MCBundleStorage.cfg | pass (480,915 states) | 3 bundles and 1 clean restart. Segment ownership is exact; `TopSegment` returns each segment of the bundle being read; a clean restart restores exactly the stored bundles, free map and counters; `TopSegment` always returns. |
| store_crash | MCBundleStorageCrash.cfg | pass (205,326 states) | 3 bundles of two or three segments (`MCAttrsCrash`) and up to 2 restarts, each a crash or a clean restart. A restore that reports success, crash or not, rebuilds chains that share no segment and repeat none, a free map that is exactly the complement of their segments, and bundle and segment counters that match (`RestoreConsistent`). The walk's check that a segment is still free (line 446) is what makes this hold: without it a stale head left by the first restart claims a segment of a live chain at the second. |
| catalog_refinement | MCBundleStorageRefine.cfg | pass (248,794 states) | 3 bundles, no restart, callers that may give back or force-remove a partly read bundle. The store implements `BundleCatalog`: pop order is priority, then expiration, then LIFO, and no stored bundle is lost or duplicated. |
| restore_order | MCBundleStorageOrder.cfg | violation | The LIFO order of a bucket is not preserved across a clean restart. |
| crash_content | MCBundleStorageCrashContent.cfg | violation | After a crash a restored bundle can consist of another bundle's segments. |
| stale_read | MCBundleStorageStaleRead.cfg | violation | When a bundle is given back with reads outstanding, the next `TopSegment` of that session returns the old bundle's data. |

The BPSec runs load every configuration of up to two of the nine rules
(`MaxRules = 2`), which covers each pair of rules that can share a trie path.

| Run | Cfg | Expect | What it shows |
|---|---|---|---|
| bpsec_node | MCBpSecNode.cfg | pass (116,775 states) | Load, a cache probe by the BCB verifier context, a receive with any error lists and masks, then a send. A successful load gives every policy half exactly one covering rule (`LoadedPoliciesFollowRules`). A cached lookup returns `FindPolicy`'s answer through a path matching the query (`LookupSound`). Each surviving ASB keeps exactly its original targets minus the failed ones and is never empty (`AsbSopsConsistent`). The payload is never marked for deletion (`PayloadNeverRemoved`). A source adding a BIB and a BCB that targets type 11 names the new BIB (`BcbCoversNewBib`). For every SOURCE policy loaded, the LUT overload given the bundle's table returns the BIB list, BCB list and placeholder index of the bundle-view overload (`LutOverloadAgrees`). |
| bpsec_dangling | MCBpSecReceiveDangling.cfg | violation | REMOVE_SECURITY_OPERATION_TARGET_BLOCK leaves the SOp naming the deleted block. |
| bpsec_final_dest_encrypted | MCBpSecReceivePayload.cfg | violation | The payload reaches its final destination still encrypted. |

The scanner runs use the five-path tree of `MCDirectoryScanner.tla`,
`RecurseDepth = 1` (so `d1` is watched and `d2` is not), both include
flags, sizes 0..1 and at most two undelivered events.

| Run | Cfg | Expect | What it shows |
|---|---|---|---|
| scanner | MCDirectoryScanner.cfg | pass (8,646 states) | The queue count of each pending file equals its entries in the timer queue, and only pending files are queued (`QueueCountsMatch`). The timer is armed exactly while the queue is not empty (`TimerArmedIffQueued`). Once the handler has caught up with a directory's events, the directory is watched exactly when it exists, its parent is watched and it lies above the depth limit (`MonitoredMatchesTree`): none is watched a level too deep, and none is left unwatched by a removal followed by a re-creation. Every path listed at or after the iterator is eventually returned (`ListedPathSent`, under the fairness below). |
| scanner_stranded | MCDirectoryScannerStranded.cfg | violation | Files of a directory created after the list was drained are listed behind the iterator and never sent. |
| scanner_recheck | MCDirectoryScannerRecheck.cfg | violation | A file that grows after its first event is never accepted, although it stops growing. |

**Why these bounds are enough.**
- Three bundles over four segments force segment reuse after a removal.
- The restore-order counterexample needs two bundles in one bucket whose
  push order differs from their segment order. That takes at least three
  pushes and one removal.
- The crash cases need a removal followed by a push that reuses the
  segments, with a write still queued. One restart suffices for these.
  `RestoreConsistent` needs two: a first restart leaves a stale chain on
  disk, and only a second one walks it against live chains.
- The received bundle has three targets in its BCB, so an error list in the
  wrong order shifts an index onto a different target. It has two ASBs
  sharing targets, so a removed block can stay named by the other one.
- The scanner's tree has a file at each depth and a directory on each side
  of the depth limit. Two queued events let two events for one file be
  pending together (count 2) and a directory event race a file event;
  size 0..1 lets a file grow once between its event and its recheck.

## Fairness

- Each disk worker is weakly fair: `NotifyDiskOfWorkToDo` wakes it, and it
  loops while its ring has work.
- The main thread is weakly fair only while it is inside `TopSegment`, whose
  loops are timed waits that re-check their condition.
- The BPSec models check only safety: `ProcessReceivedBundle` and
  `LoadFromConfig` are bounded loops on one thread, and a failed load or a
  dropped bundle is terminal (hence `CHECK_DEADLOCK FALSE`).
- The scanner's io_service thread is weakly fair on the event handler (a
  queued event is delivered to the outstanding `async_monitor`) and on the
  timer expiry (an armed timer fires after its period); the sender is
  weakly fair on `GetNextFilePath`, which its send loop calls. The
  filesystem owes nothing, and the scanner idles once it stops changing
  (`CHECK_DEADLOCK FALSE`).
- Callers are not assumed to push or pop anything. `CHECK_DEADLOCK FALSE` is
  set because the bounded set of bundle ids runs out, after which the store
  idles waiting for input.

## Findings

1. **Restore order (spec §8 property 3).** The restore inserts chains in
   ascending head id, so a bucket can come back in a different order.
2. **Crash content.** `RemoveReadBundleFromDisk` frees segments before the
   queued writes land, and the restore validates only the chain length and
   the final `UINT32_MAX`. A crash can therefore produce a chimera bundle.
3. **Stale read.** Nothing waits for the read-ahead still queued when a
   bundle is given back. That late read lands in the slot of the bundle the
   reused session pops next and sets its ready flag, which `PopTop` never
   clears, so `TopSegment` returns the previous bundle's segment.
4. **SOURCE validation never fires (line 1138).** (Observation; its run
   was dropped when the scanner runs were added.) `ValidateAndFinalize`
   runs on `policyToCopy`, whose service flags are still false, and lines
   1214–1216 copy its false `bibMustBeEncrypted` into the merged policy.
5. **Dangling security target (line 554, and 367).** The verifier's
   REMOVE_SECURITY_OPERATION_TARGET_BLOCK marks the block for deletion but
   keeps the SOp, contrary to spec §4.4.
6. **Encrypted payload at the final destination (line 616).** An acceptor
   policy found without a confidentiality half (for example an exact
   integrity rule shadowing a node-wildcard confidentiality rule, since the
   lookup does not backtrack) makes the loop skip the BCB without
   decrypting it or raising MISSING.
7. **BCB placeholder 0 (lines 829–831, 931).** (Observation; its run was
   dropped when the scanner runs were added.) The placeholder for block
   type 11 is backfilled only when integrity is also configured, so a
   confidentiality-only source policy produces a BCB targeting block 0.
8. **Scanner: stranded paths (line 184).** The scan of a new directory
   appends to the list without the mutex and without moving an iterator at
   `end()`. Once the sender has drained the list, the appended files are
   never returned (the timer handler, lines 303–307, is the only code that
   moves the iterator, and it moves it to its own path only).
9. **Scanner: a grown file is never accepted (lines 267, 313).** The size
   is recorded on the file's first event only: `emplace` leaves a pending
   entry's size alone, and a size mismatch requeues the entry with count 1
   but keeps the old size. A file that grows at all after its first event
   (written in two chunks, say) mismatches on every later recheck and is
   never accepted.
10. **Scanner: a directory moved in is not scanned (lines 235–251).** It is
   watched, but the files already in it are never listed (the model shows
   it with `MoveInDir`; no property, since the header does not say whether
   such files are to be sent).
11. **Store: a bundle lost behind a hole, then brought back (line 394).**
   (Observation; no run slot.) If the head write of a bundle on disk 0 is
   still queued at a crash while a later bundle on disk 1 has landed, the
   scan of disk 0 stops at segment 0 and the restore reports success
   without the later bundle. Its segments are free again. When a new
   bundle later fills segment 0, the next clean restart finds the lost
   bundle again, with TLC reaching this in ten steps.

Also seen in the code but not turned into a run: an acceptor facing an
event with no configured mask drops the bundle (around line 480), while
spec §4.4 says an acceptor logs and moves on. None of the model's acceptor
rules lack a mask.

Also seen: the two overloads of `PopulateTargetArraysForSecuritySource`
disagree when the policy targets a block type the bundle lacks. The view
overload adds no target, the LUT overload adds the table's entry (lines
877 and 899), which for an entry the caller did not assign is whatever the
table holds, 0 (the primary block) for a zeroed one. The callers building
the table are not under `src/`, so `LutOverloadAgrees` is checked only for
bundles holding each targeted type once.

## Not modelled (yet) and why

- **Several concurrent read sessions.** The tests use two, but they hold
  disjoint chains, and only one read session does anything at a time.
- **Allocation failure in Push.** It is a no-op return of 0. The priority
  value 3, which is undefined behaviour, is listed as a hazard.
- **BPSec crypto, keys and IVs.** The crypto is not under `src/`. The
  value of `RESERVED_MAX_BLOCK_TYPES` is in a header outside `src/`; the
  model uses 13, above every type the rules target (it only decides
  whether the LUT overload fails).
- **Directory scanner, partly.** A single-file root, the extension and
  255-character filters (names are model values), the exceptions of
  `add_directory`, and the error completions are not modelled. File
  deletion is left out: for a file deleted before its last recheck,
  `file_size` (line 297) throws after the pop and the count decrement and
  before the erase and the re-arm (lines 309, 317-320), so the handler
  leaves a map entry with count 0 and, if entries remain, a queue with no
  timer. Where the exception goes is up to the caller of
  `io_service::run`, which is not under `src/`. Every invariant of the
  scanner run would fail on that step, so the model keeps to the handlers
  that complete and lists the throw as a hazard. The list is
  sorted only in `Reload`; the model's first listing is one fixed order.
  The unlocked append at line 184 races `GetNextFilePath`; the model makes
  each handler atomic.
- **Egress (`egress.cpp`, `EgressAsyncMain.cpp`).** The old egress main is
  one thread in a blocking receive loop with no state beyond counters; the
  async main only waits for a signal. Two hazards are listed: the unchecked
  `memcpy` of a STORE body into a 64 KiB stack buffer (line 95) and the
  framing of the cut-through socket (line 91). Neither is a question about
  interleavings: the first compares one size with a constant, the second
  depends on what the senders (ingress, storage, not under `src/`) put on
  the socket.
- **Router and storage mains, the one-process runner, message headers,
  the websocket server, the test pattern app.** These are I/O and startup
  glue: option parsing, thread start and join, and struct layouts.
- **Storage unit tests.** Their assertions (a bundle reads back as pushed,
  a restart restores every bundle but the removed one, with the same
  allocation) are the properties `ReadReturnsOwnData` and `RestoreIsExact`,
  which the `store_clean` run checks over every interleaving;
  the tests' own code is drivers and buffers.
- **Sender and receiver on two nodes.** The bundle a source secures would
  have to be processed by a second node's policies; the node run already
  takes about two minutes with one manager, and two managers multiply its
  states.

## Plan

1. **Done:** MemoryManager, BundleStorage, BundleCatalog with the
   refinement, BpSecPolicy, BpSecReceive, BpSecSource, BpSecNode and
   DirectoryScanner with the runs above.
2. **Sender and receiver together.** See "Not modelled": a second
   manager does not fit the node run's bounds.
3. **Acceptor unmapped-event drop.** A rule without an acceptor mask, to
   turn the line-480 divergence into a run.
4. **Store numeric edges.** Priority 3 (line 109) and a zero-size bundle
   (line 100) in `Push`.
