--------------------------- MODULE MemoryManager ---------------------------
(***************************************************************************)
(* The segment memory manager (MemoryManagerTreeArray) of the bundle      *)
(* store.  Its source is not part of this repository's src/ tree; the     *)
(* operators below follow spec.md section 4.1: a set of free segment ids, *)
(* all-or-nothing allocation of the smallest free ids, and freeing.  The  *)
(* tree and its bitmaps are abstracted to the set of free leaves, which   *)
(* is all that the callers in BundleStorageManagerBase observe.           *)
(***************************************************************************)
EXTENDS Naturals, Sequences, FiniteSets, SequencesExt

\* AllocateSegments_ThreadSafe(vec) succeeds only when at least Len(vec)
\* segments are free.
CanAllocate(free, n) == Cardinality(free) >= n

\* The ids it records in vec: the n smallest free ids, in ascending order
\* (the smallest-id-first traversal of the tree).
AllocateSegments(free, n) == SubSeq(SetToSortSeq(free, <), 1, n)

\* Mutation: only the head segment of the chain is freed.
FreeSegmentsHeadOnly(free, chain) == free \cup {Head(chain)}

\* FreeSegments_ThreadSafe(vec): every id of the chain becomes free again.
FreeSegments(free, chain) == free \cup ToSet(chain)

\* IsSegmentFree(id): ids past the managed range are reported free, as the
\* unused leaves of the tree start with their free bit set.
IsSegmentFree(free, numSegments, id) == id >= numSegments \/ id \in free

\* Mutation: the id is not marked as used.
AllocateSegmentIdNoop(free, id) == free

\* AllocateSegmentId_NoCheck_NotThreadSafe(id), used only by the restore.
AllocateSegmentId(free, id) == free \ {id}
=============================================================================
