--------------------------- MODULE BundleStorage ---------------------------
(***************************************************************************)
(* The bundle store of HDTN (BundleStorageManagerBase), its per-disk      *)
(* single-producer/single-consumer rings of segment operations, the disk  *)
(* worker threads that drain them, the store files, and the restore scan  *)
(* run by the constructor after a restart.                                *)
(*                                                                         *)
(* One main thread calls the store API (Push, PushSegment, PopTop,        *)
(* ReturnTop, TopSegment, RemoveReadBundleFromDisk) with one write        *)
(* session and one read session object; each disk has its own worker.    *)
(* A bundle's bytes are abstracted to a tag <<bid, k>> per segment; bid   *)
(* is a ghost identity of the bundle that the code does not keep.         *)
(***************************************************************************)
EXTENDS Naturals, Sequences, FiniteSets, FiniteSetsExt, SequencesExt,
        MemoryManager

CONSTANTS
  NumDisks,        \* M_NUM_STORAGE_DISKS
  NumSegments,     \* M_MAX_SEGMENTS
  RingSize,        \* CIRCULAR_INDEX_BUFFER_SIZE
  ReadCacheDepth,  \* READ_CACHE_NUM_SEGMENTS_PER_SESSION
  PerSegment,      \* BUNDLE_STORAGE_PER_SEGMENT_SIZE (payload bytes)
  Bids,            \* ghost identities of the bundles ingress delivers
  Attrs,           \* [size, dest, prio, exp] of the bundles that may arrive
  Dests, Exps,     \* destination node ids and absolute expirations
  AvailLinkSeqs,   \* availableDestLinks vectors egress may pass to PopTop
  AbandonMidRead,  \* may the caller ReturnTop/force-remove a partly read bundle
  AllowCrash,      \* may the process die without draining its rings
  MaxRestarts,     \* bound on restarts (clean or crash)
  U64Max, U32Max,  \* the sentinels UINT64_MAX and UINT32_MAX
  Zero,            \* payload bytes of a zero-filled segment
  None

ASSUME NumDisks \in Nat \ {0} /\ RingSize >= 2 /\ ReadCacheDepth >= 1
ASSUME PerSegment \in Nat \ {0}

SegIds == 0 .. (NumSegments - 1)
Prios == 0 .. 2                  \* NUMBER_OF_PRIORITIES = 3
Keys == Dests \X Prios \X Exps   \* m_destMap[dest][prio][exp]
Slots == 0 .. (RingSize - 1)
CacheSlots == 0 .. (ReadCacheDepth - 1)

DiskOf(s) == s % NumDisks
OffsetOf(s) == s \div NumDisks

\* On-disk segment header and payload: bundleSizeBytes, nextSegmentId, data.
ZeroRec == [size |-> 0, next |-> 0, data |-> Zero]
\* A ring slot: segment id, write or read, the slot's data buffer, and the
\* read-cache slot a read lands in.  The data buffers start zeroed.
EmptyOp == [seg |-> 0, isWrite |-> TRUE, rec |-> ZeroRec, slot |-> 0]
NoWS == [open |-> FALSE, bid |-> None, size |-> 0, chain |-> <<>>, next |-> 0,
         key |-> None]
NoRS == [open |-> FALSE, bid |-> None, size |-> 0, chain |-> <<>>, next |-> 0,
         toCache |-> 0, cri |-> 0, cwi |-> 0, key |-> None]

VARIABLES
  free,       \* m_memoryManager: the free segment ids
  disk,       \* store files: segment id -> record, None if never written
  ring,       \* per disk: circular index buffer [buf, rd, wr]
  catalog,    \* m_destMap flattened: key -> sequence of chains, front first
  ws,         \* BundleStorageManagerSession_WriteToDisk
  rs,         \* BundleStorageManagerSession_ReadFromDisk (indices, chain)
  readCache,  \* rs.readCache: segment records delivered by the workers
  ready,      \* rs.readCacheIsSegmentReady
  mainPc,     \* "idle" or inside TopSegment ("topSegment")
  restored,   \* m_successfullyRestoredFromDisk and the restore counters
  attr,       \* ghost: attributes of each bundle pushed, None if not yet
  restarts    \* number of restarts so far (bounded by MaxRestarts)

vars == <<free, disk, ring, catalog, ws, rs, readCache, ready, mainPc,
          restored, attr, restarts>>

-----------------------------------------------------------------------------
(* Helpers *)

\* Push / RestoreFromDisk: ceil(bundleSizeBytes / PER_SEGMENT_SIZE)
TotalSegmentsRequired(size) ==
  (size \div PerSegment) + (IF size % PerSegment = 0 THEN 0 ELSE 1)

KeyOf(a) == <<a.dest, a.prio, a.exp>>

\* CircularIndexBufferSingleProducerSingleConsumerConfigurable: one slot is
\* kept empty, GetIndexForWrite returns UINT32_MAX when full.
RingFull(d) == (ring[d].wr + 1) % RingSize = ring[d].rd
\* Mutation: the consumer takes a full ring for an empty one.
RingEmptyConfused(d) ==
  ring[d].rd = ring[d].wr \/ (ring[d].wr + 1) % RingSize = ring[d].rd
RingEmpty(d) == ring[d].rd = ring[d].wr
\* Fill the slot at the write index (keeping its data buffer unless the op
\* writes one) and CommitWrite.
\* Mutation: the write index is not wrapped around the ring.
ProduceNoWrap(r, op) == [r EXCEPT !.buf[r.wr] = op, !.wr = r.wr + 1]
Produce(r, op) == [r EXCEPT !.buf[r.wr] = op, !.wr = (r.wr + 1) % RingSize]

\* Size of a store file in segments, and the end-of-file test.
FileSegs(d) ==
  LET offs == {OffsetOf(s) : s \in {t \in SegIds : DiskOf(t) = d /\ disk[t] # None}}
  IN IF offs = {} THEN 0 ELSE Max(offs) + 1
PastEof(s) == s \notin SegIds \/ OffsetOf(s) >= FileSegs(DiskOf(s))
\* fread of a segment inside the file; never-written holes read as zeros.
ReadSeg(s) == IF disk[s] = None THEN ZeroRec ELSE disk[s]

\* Chains held by the catalog, with their keys.
CatalogEntries ==
  UNION {{[key |-> k, bid |-> c.bid, size |-> c.size, chain |-> c.chain] :
             c \in ToSet(catalog[k])} : k \in Keys}

-----------------------------------------------------------------------------
(* RestoreFromDisk: the scan over potential head segments, as a recursive *)
(* operator over the files (it runs single-threaded in the constructor).  *)

\* cbhe_bpv6_primary_block_decode of a head's payload: a zero-filled
\* payload does not decode; a head carries the bundle's primary block.
Decodes(rec) == rec.data # Zero
Primary(rec) == attr[rec.data[1]]

\* Mutation: the walk does not check that a segment is still free (line 446).
RECURSIVE WalkNoFreeCheck(_, _, _, _, _)
WalkNoFreeCheck(seg, k, hdr, chain, st) ==
  IF k > 0 /\ PastEof(seg) THEN [st EXCEPT !.ok = FALSE, !.done = TRUE]
  ELSE
   LET rec == ReadSeg(seg)
       n == TotalSegmentsRequired(hdr.size)
   IN
   IF k >= n THEN [st EXCEPT !.ok = FALSE, !.done = TRUE]
   ELSE
    LET st2 == [st EXCEPT !.free = AllocateSegmentId(@, seg)]
        chain2 == Append(chain, seg)
    IN
    IF k + 1 >= n THEN
      IF rec.next # U32Max THEN [st2 EXCEPT !.ok = FALSE, !.done = TRUE]
      ELSE [st2 EXCEPT
              !.catalog[hdr.key] = Cons([bid |-> hdr.bid, size |-> hdr.size,
                                         chain |-> chain2], @),
              !.bundles = @ + 1]
    ELSE IF rec.next = U32Max THEN [st2 EXCEPT !.ok = FALSE, !.done = TRUE]
    ELSE WalkNoFreeCheck(rec.next, k + 1, hdr, chain2, st2)

\* Walk of the chain from a head (inner for loop, logical segment k >= 0).
RECURSIVE Walk(_, _, _, _, _)
Walk(seg, k, hdr, chain, st) ==
  IF k > 0 /\ PastEof(seg) THEN [st EXCEPT !.ok = FALSE, !.done = TRUE]
  ELSE
   LET rec == ReadSeg(seg)
       n == TotalSegmentsRequired(hdr.size)
   IN
   IF k >= n THEN [st EXCEPT !.ok = FALSE, !.done = TRUE]
   ELSE IF ~IsSegmentFree(st.free, NumSegments, seg)
     THEN [st EXCEPT !.ok = FALSE, !.done = TRUE]
   ELSE
    LET st2 == [st EXCEPT !.free = AllocateSegmentId(@, seg)]
        chain2 == Append(chain, seg)
    IN
    IF k + 1 >= n THEN
      IF rec.next # U32Max THEN [st2 EXCEPT !.ok = FALSE, !.done = TRUE]
      ELSE [st2 EXCEPT
              !.catalog[hdr.key] = Cons([bid |-> hdr.bid, size |-> hdr.size,
                                         chain |-> chain2], @),
              !.bundles = @ + 1]
    ELSE IF rec.next = U32Max THEN [st2 EXCEPT !.ok = FALSE, !.done = TRUE]
    ELSE Walk(rec.next, k + 1, hdr, chain2, st2)

\* Outer for loop over potentialHeadSegmentId.
RECURSIVE Scan(_, _)
Scan(id, st) ==
  IF ~IsSegmentFree(st.free, NumSegments, id) THEN Scan(id + 1, st)
  ELSE IF PastEof(id) THEN [st EXCEPT !.ok = TRUE]        \* end of restore
  ELSE
   LET rec == ReadSeg(id) IN
   IF rec.size = U64Max THEN Scan(id + 1, st)             \* not a head
   ELSE IF ~Decodes(rec) THEN [st EXCEPT !.ok = FALSE]    \* malformed bundle
   ELSE
    LET hdr == [bid |-> rec.data[1], size |-> rec.size, key |-> KeyOf(Primary(rec))]
        st2 == [st EXCEPT !.bytes = @ + rec.size,
                          !.segments = @ + TotalSegmentsRequired(rec.size)]
        w == Walk(id, 0, hdr, <<>>, st2)
    IN IF w.done THEN w ELSE Scan(id + 1, w)

\* Mutation: the scan starts at segment 1.
RestoreFromDiskSkipFirst ==
  Scan(1, [ok |-> FALSE, done |-> FALSE, free |-> SegIds,
           catalog |-> [k \in Keys |-> <<>>],
           bundles |-> 0, bytes |-> 0, segments |-> 0])

RestoreFromDisk ==
  Scan(0, [ok |-> FALSE, done |-> FALSE, free |-> SegIds,
           catalog |-> [k \in Keys |-> <<>>],
           bundles |-> 0, bytes |-> 0, segments |-> 0])

-----------------------------------------------------------------------------
(* Initial state: a fresh store (tryToRestoreFromDisk finds no files).    *)

EmptyRings == [d \in 0 .. (NumDisks - 1) |->
                 [buf |-> [i \in Slots |-> EmptyOp], rd |-> 0, wr |-> 0]]
EmptyCache == [i \in CacheSlots |-> ZeroRec]
NotReady == [i \in CacheSlots |-> FALSE]

\* The state a newly constructed store object starts in, besides the
\* files and what the restore rebuilds.
FreshVolatile ==
  /\ ring = EmptyRings /\ ws = NoWS /\ rs = NoRS /\ readCache = EmptyCache
  /\ ready = NotReady /\ mainPc = "idle"
FreshVolatileNext ==
  /\ ring' = EmptyRings /\ ws' = NoWS /\ rs' = NoRS /\ readCache' = EmptyCache
  /\ ready' = NotReady /\ mainPc' = "idle"

Init ==
  /\ free = SegIds
  /\ disk = [s \in SegIds |-> None]
  /\ catalog = [k \in Keys |-> <<>>]
  /\ restored = [ok |-> FALSE, bundles |-> 0, bytes |-> 0, segments |-> 0]
  /\ attr = [b \in Bids |-> None]
  /\ restarts = 0
  /\ FreshVolatile

-----------------------------------------------------------------------------
(* Main thread: write path                                                 *)

\* The ghost identity given to the next bundle ingress hands over (the
\* identities are interchangeable, so the choice among them is fixed).
NewBid ==
  IF \E b \in Bids : attr[b] = None THEN CHOOSE b \in Bids : attr[b] = None
  ELSE None

\* Push: computes totalSegmentsRequired, sets the session's destination,
\* priority and expiration from the primary block and allocates the chain.
\* When the allocation fails Push returns 0 and nothing changes.
Push(b, a) ==
  LET n == TotalSegmentsRequired(a.size)
      chain == AllocateSegments(free, n)
  IN
  /\ mainPc = "idle"
  /\ ~ws.open
  /\ b # None
  /\ CanAllocate(free, n)
  /\ ws' = [open |-> TRUE, bid |-> b, size |-> a.size, chain |-> chain,
            next |-> 0, key |-> KeyOf(a)]
  /\ free' = free \ ToSet(chain)
  /\ attr' = [attr EXCEPT ![b] = a]
  /\ UNCHANGED <<disk, ring, catalog, rs, readCache, ready, mainPc,
                 restored, restarts>>

\* PushSegment: waits for a free slot of the segment's disk ring, fills it
\* with [bundleSizeBytes | nextSegmentId | payload] and commits; the last
\* segment inserts the chain at the front of its catalog bucket.
PushSegment ==
  LET k == ws.next
      s == ws.chain[k + 1]
      d == DiskOf(s)
      last == k + 1 = Len(ws.chain)
      rec == [size |-> IF k = 0 THEN ws.size ELSE U64Max,
              next |-> IF last THEN U32Max ELSE ws.chain[k + 2],
              data |-> <<ws.bid, k>>]
  IN
  /\ mainPc = "idle"
  /\ ws.open
  /\ k < Len(ws.chain)
  /\ ~RingFull(d)
  /\ ring' = [ring EXCEPT ![d] = Produce(@, [seg |-> s, isWrite |-> TRUE,
                                              rec |-> rec, slot |-> 0])]
  /\ IF last
       THEN /\ catalog' = [catalog EXCEPT ![ws.key] =
                 Cons([bid |-> ws.bid, size |-> ws.size, chain |-> ws.chain], @)]
            /\ ws' = NoWS
       ELSE /\ ws' = [ws EXCEPT !.next = k + 1]
            /\ UNCHANGED catalog
  /\ UNCHANGED <<free, disk, readCache, ready, rs, mainPc, restored, attr,
                 restarts>>

-----------------------------------------------------------------------------
(* Main thread: read path                                                  *)

\* PopTop: for priority 2 down to 0, the available link whose expiration
\* map has the smallest first expiration (the first such link on ties);
\* the session takes the front chain of that bucket.
HasAt(dest, p) == \E e \in Exps : catalog[<<dest, p, e>>] # <<>>
FirstExp(dest, p) == Min({e \in Exps : catalog[<<dest, p, e>>] # <<>>})
LinksAt(avail, p) == {j \in 1 .. Len(avail) : HasAt(avail[j], p)}
\* Mutation: priorities scanned from bulk upwards.
TopPriorityAscending(avail) == Min({p \in Prios : LinksAt(avail, p) # {}})
TopPriority(avail) == Max({p \in Prios : LinksAt(avail, p) # {}})
TopKey(avail) ==
  LET p == TopPriority(avail)
      lowest == Min({FirstExp(avail[j], p) : j \in LinksAt(avail, p)})
      j0 == Min({j \in LinksAt(avail, p) : FirstExp(avail[j], p) = lowest})
  IN <<avail[j0], p, lowest>>

PopTop(avail) ==
  /\ mainPc = "idle"
  /\ ~rs.open
  /\ \E p \in Prios : LinksAt(avail, p) # {}     \* else returns 0
  /\ LET key == TopKey(avail)
         c == Head(catalog[key])
     IN /\ rs' = [open |-> TRUE, bid |-> c.bid, size |-> c.size,
                  chain |-> c.chain, next |-> 0, toCache |-> 0,
                  cri |-> 0, cwi |-> 0, key |-> key]
        /\ catalog' = [catalog EXCEPT ![key] = Tail(@)]
  /\ UNCHANGED <<free, disk, ring, ws, readCache, ready, mainPc, restored,
                 attr, restarts>>

\* The caller gives the bundle back or removes it either when no read of
\* it is outstanding or, with AbandonMidRead, at any point.
MayAbandon == AbandonMidRead \/ rs.toCache = rs.next

\* ReturnTop: the chain goes back to the front of its bucket.
ReturnTop ==
  /\ mainPc = "idle"
  /\ rs.open
  /\ MayAbandon
  /\ catalog' = [catalog EXCEPT ![rs.key] =
                   Cons([bid |-> rs.bid, size |-> rs.size, chain |-> rs.chain], @)]
  /\ rs' = NoRS
  /\ UNCHANGED <<free, disk, ring, ws, readCache, ready, mainPc, restored,
                 attr, restarts>>

\* TopSegment, first loop: schedule read-ahead of up to READ_CACHE depth
\* segments, each waiting for a slot in its disk's ring.
CanCallTopSegment == mainPc = "idle" /\ rs.open /\ rs.next < Len(rs.chain)
\* Mutation: off by one in the read-ahead window.
ReadAheadPendingOverrun ==
  /\ rs.toCache - rs.next <= ReadCacheDepth
  /\ rs.toCache < Len(rs.chain)
ReadAheadPending ==
  /\ rs.toCache - rs.next < ReadCacheDepth
  /\ rs.toCache < Len(rs.chain)

\* Mutation: cacheWriteIndex advanced before the read pointers are taken.
ScheduleReadAfterAdvance(r, s, cwi) ==
  Produce(r, [seg |-> s, isWrite |-> FALSE, rec |-> r.buf[r.wr].rec,
              slot |-> (cwi + 1) % ReadCacheDepth])
\* A read of segment s into cache slot cwi: the slot's completion flag and
\* destination pointers, the segment id, and CommitWrite.
ScheduleRead(r, s, cwi) ==
  Produce(r, [seg |-> s, isWrite |-> FALSE, rec |-> r.buf[r.wr].rec,
              slot |-> cwi])

TopSegmentSchedule ==
  LET s == rs.chain[rs.toCache + 1]
      d == DiskOf(s)
  IN
  /\ mainPc = "topSegment" \/ CanCallTopSegment
  /\ ReadAheadPending
  /\ ~RingFull(d)
  /\ ready' = [ready EXCEPT ![rs.cwi] = FALSE]
  /\ ring' = [ring EXCEPT ![d] = ScheduleRead(@, s, rs.cwi)]
  /\ rs' = [rs EXCEPT !.toCache = @ + 1, !.cwi = (@ + 1) % ReadCacheDepth]
  /\ mainPc' = "topSegment"
  /\ UNCHANGED <<free, disk, catalog, ws, readCache, restored, attr,
                 restarts>>

\* TopSegment, then: wait until the current cache slot is ready and return
\* its payload; the header checks only log, and the length is the payload
\* size except on the segment whose nextSegmentId is UINT32_MAX.
SegmentLength(size, isLast) ==
  IF isLast /\ size % PerSegment # 0 THEN size % PerSegment ELSE PerSegment

\* What TopSegment copies out of the current cache slot, and its length.
Returned ==
  [data |-> readCache[rs.cri].data,
   len |-> SegmentLength(rs.size, readCache[rs.cri].next = U32Max)]

TopSegmentConsume ==
  /\ mainPc = "topSegment" \/ CanCallTopSegment
  /\ ~ReadAheadPending
  /\ ready[rs.cri]
  /\ rs' = [rs EXCEPT !.next = @ + 1, !.cri = (@ + 1) % ReadCacheDepth]
  /\ mainPc' = "idle"
  /\ UNCHANGED <<free, disk, ring, catalog, ws, readCache, ready, restored,
                 attr, restarts>>

\* RemoveReadBundleFromDisk: without force, refused until every segment
\* was read.  Overwrites bundleSizeBytes of the head with UINT64_MAX (the
\* rest of the slot's buffer is whatever that slot last carried) and frees
\* the chain's segments.
RemoveReadBundleFromDisk(force) ==
  LET s == rs.chain[1]
      d == DiskOf(s)
  IN
  /\ mainPc = "idle"
  /\ rs.open
  /\ force \/ rs.next = Len(rs.chain)
  /\ MayAbandon
  /\ ~RingFull(d)
  /\ ring' = [ring EXCEPT ![d] = Produce(@, [seg |-> s, isWrite |-> TRUE,
                    rec |-> [@.buf[@.wr].rec EXCEPT !.size = U64Max],
                    slot |-> 0])]
  /\ free' = FreeSegments(free, rs.chain)
  /\ rs' = NoRS
  /\ UNCHANGED <<disk, catalog, ws, readCache, ready, mainPc, restored,
                 attr, restarts>>

-----------------------------------------------------------------------------
(* Disk worker threads                                                      *)

\* A worker takes the oldest slot of its ring: a write stores the slot's
\* buffer at the segment's offset; a read copies the segment into the
\* session's cache slot and sets its ready flag.  Of a consumed slot only
\* its data buffer is ever looked at again (by the kill write), so the
\* other fields are reset.
DiskWorker(d) ==
  LET op == ring[d].buf[ring[d].rd] IN
  /\ ~RingEmpty(d)
  /\ ring' = [ring EXCEPT ![d].buf[ring[d].rd] = [EmptyOp EXCEPT !.rec = op.rec],
                          ![d].rd = (@ + 1) % RingSize]
  /\ IF op.isWrite
       THEN /\ disk' = [disk EXCEPT ![op.seg] = op.rec]
            /\ UNCHANGED <<readCache, ready>>
       ELSE /\ readCache' = [readCache EXCEPT ![op.slot] = ReadSeg(op.seg)]
            /\ ready' = [ready EXCEPT ![op.slot] = TRUE]
            /\ UNCHANGED disk
  /\ UNCHANGED <<free, catalog, ws, rs, mainPc, restored, attr, restarts>>

-----------------------------------------------------------------------------
(* Restarts: the process stops and a new store object is constructed with *)
(* tryToRestoreFromDisk; its constructor runs RestoreFromDisk.             *)

Restart ==
  LET r == RestoreFromDisk IN
  /\ restarts < MaxRestarts
  /\ free' = r.free
  /\ catalog' = r.catalog
  /\ restored' = [ok |-> r.ok, bundles |-> r.bundles, bytes |-> r.bytes,
                  segments |-> r.segments]
  /\ restarts' = restarts + 1
  /\ FreshVolatileNext
  /\ UNCHANGED <<disk, attr>>

\* A clean shutdown: no push in progress and every ring drained.
CleanRestart ==
  /\ mainPc = "idle"
  /\ ~ws.open
  /\ \A d \in 0 .. (NumDisks - 1) : RingEmpty(d)
  /\ Restart

\* A crash: queued ring operations are lost.
Crash ==
  /\ AllowCrash
  /\ Restart

-----------------------------------------------------------------------------
Next ==
  \/ \E a \in Attrs : Push(NewBid, a)
  \/ PushSegment
  \/ \E avail \in AvailLinkSeqs : PopTop(avail)
  \/ ReturnTop
  \/ TopSegmentSchedule
  \/ TopSegmentConsume
  \/ \E force \in BOOLEAN : RemoveReadBundleFromDisk(force)
  \/ \E d \in 0 .. (NumDisks - 1) : DiskWorker(d)
  \/ CleanRestart
  \/ Crash

\* Disk workers are woken by NotifyDiskOfWorkToDo and never stop while
\* their ring has work; a thread inside TopSegment keeps running.
Fairness ==
  /\ \A d \in 0 .. (NumDisks - 1) : WF_vars(DiskWorker(d))
  /\ WF_vars(mainPc = "topSegment" /\ TopSegmentSchedule)
  /\ WF_vars(mainPc = "topSegment" /\ TopSegmentConsume)

Spec == Init /\ [][Next]_vars /\ Fairness

-----------------------------------------------------------------------------
(* Properties                                                               *)

Rec == [size : Nat \cup {U64Max}, next : Nat \cup {U32Max},
        data : (Bids \X Nat) \cup {Zero}]
Op == [seg : SegIds, isWrite : BOOLEAN, rec : Rec, slot : CacheSlots]
Stored == [bid : Bids, size : Nat, chain : Seq(SegIds)]

TypeOK ==
  /\ free \subseteq SegIds
  /\ disk \in [SegIds -> Rec \cup {None}]
  /\ ring \in [0 .. (NumDisks - 1) ->
                [buf : [Slots -> Op], rd : Slots, wr : Slots]]
  /\ catalog \in [Keys -> Seq(Stored)]
  /\ ws.open => ws.next < Len(ws.chain) /\ ws.key \in Keys
  /\ rs.open => rs.next <= rs.toCache /\ rs.toCache <= Len(rs.chain)
                /\ rs.cri \in CacheSlots /\ rs.cwi \in CacheSlots
  /\ readCache \in [CacheSlots -> Rec]
  /\ ready \in [CacheSlots -> BOOLEAN]
  /\ mainPc \in {"idle", "topSegment"}

\* The chains owned by the catalog and by the two sessions.
OwnedChains ==
  {e.chain : e \in CatalogEntries}
    \cup (IF ws.open THEN {ws.chain} ELSE {})
    \cup (IF rs.open THEN {rs.chain} ELSE {})

\* No segment is held by two chains or sessions, and none that one holds
\* is free for the memory manager to hand out again (part of
\* SegmentOwnership).
NoSharedSegments ==
  /\ \A c1, c2 \in OwnedChains : c1 # c2 => ToSet(c1) \cap ToSet(c2) = {}
  /\ \A c \in OwnedChains : Len(c) = Cardinality(ToSet(c))
  /\ UNION {ToSet(c) : c \in OwnedChains} \subseteq SegIds \ free

\* Segment ownership (Push, PopTop, ReturnTop, RemoveReadBundleFromDisk and
\* RestoreFromDisk together): every allocated segment belongs to exactly
\* one stored chain or session, and no free segment does.
SegmentOwnership ==
  /\ NoSharedSegments
  /\ UNION {ToSet(c) : c \in OwnedChains} = SegIds \ free

\* TopSegment returns the payload of the bundle being read, segment after
\* segment, with the length derived from bundleSizeBytes: read-ahead into
\* the session's cache slots never hands back another segment's data.
ReadReturnsOwnData ==
  [][ TopSegmentConsume =>
        Returned = [data |-> <<rs.bid, rs.next>>,
                    len |-> SegmentLength(rs.size, rs.next + 1 = Len(rs.chain))]
    ]_vars

\* What the store holds, as the restore would present it: the catalog and
\* a bundle popped but not removed.
StoredSet ==
  {[bid |-> e.bid, size |-> e.size, chain |-> e.chain] : e \in CatalogEntries}
    \cup (IF rs.open THEN {[bid |-> rs.bid, size |-> rs.size,
                             chain |-> rs.chain]} ELSE {})

\* After a clean shutdown the constructor's RestoreFromDisk succeeds and
\* rebuilds exactly the stored bundles, their chains and keys, and the
\* allocation map: removed bundles (head overwritten with UINT64_MAX)
\* stay removed and no live bundle is lost.
RestoreIsExact ==
  [][ CleanRestart =>
        /\ restored'.ok
        /\ free' = free
        /\ StoredSet' = StoredSet
        /\ restored'.bundles = Cardinality(StoredSet)
        /\ restored'.segments = NumSegments - Cardinality(free) ]_vars

\* A TopSegment call returns: the disk workers serve its reads.
TopSegmentCompletes == mainPc = "topSegment" ~> mainPc = "idle"

\* Spec section 8: a store rebuilt from disk after a clean shutdown hands
\* bundles of a (destination, priority, expiration) bucket out in the same
\* order as before; RestoreFromDisk re-inserts each chain at the front of
\* its bucket in ascending head segment id.
RestorePreservesOrder ==
  [][ CleanRestart /\ ~rs.open => catalog' = catalog ]_vars

\* A chain as the files hold it: segment k carries the bundle's k-th part.
ChainIntact(e) ==
  \A k \in 1 .. Len(e.chain) : ReadSeg(e.chain[k]).data = <<e.bid, k - 1>>

\* Whatever RestoreFromDisk rebuilds after the process dies with ring
\* operations still queued (the kill write of a removed bundle, segments of
\* a newer one) reads back as the bundle its head describes.
RestoredChainsIntact ==
  [][ Crash => \A e \in CatalogEntries' : ChainIntact(e)' ]_vars

\* Spec 4.3 (restore): a linkage inconsistency is fatal, so a restore after
\* a crash either reports failure or rebuilds a consistent store.  When
\* RestoreFromDisk succeeds after the process died with writes and kill
\* writes still queued, the chains it linked are disjoint and duplicate
\* free, the allocation map holds exactly their segments, and the restore
\* counters count them: a stale head whose old chain runs into segments
\* another restored chain took (lines 382 and 446) is never linked.
RestoreConsistent ==
  [][ Crash /\ restored'.ok =>
        LET cs == {e.chain : e \in CatalogEntries'} IN
        /\ \A c1, c2 \in cs : c1 # c2 => ToSet(c1) \cap ToSet(c2) = {}
        /\ \A c \in cs : Len(c) = Cardinality(ToSet(c))
        /\ SegIds \ free' = UNION {ToSet(c) : c \in cs}
        /\ restored'.bundles = Cardinality(CatalogEntries')
        /\ restored'.segments = NumSegments - Cardinality(free') ]_vars

-----------------------------------------------------------------------------
(* Refinement: the store implements the abstract catalog of BundleCatalog. *)
(* A bundle is stored when its last PushSegment links it into m_destMap;  *)
(* the read session holds the bundle PopTop gave it.                      *)

Abs == INSTANCE BundleCatalog WITH
         catalog <- [k \in Keys |-> [i \in 1 .. Len(catalog[k]) |->
                                        catalog[k][i].bid]],
         held <- IF rs.open THEN rs.bid ELSE None,
         heldKey <- IF rs.open THEN rs.key ELSE None

\* PopTop serves the highest priority, then the earliest expiration, then
\* the most recently stored bundle of that bucket; ReturnTop puts it back
\* in front and nothing else reorders or loses a stored bundle.
CatalogRefinement == Abs!Spec

=============================================================================
