CONSTANTS
  NumDisks = 2
  NumSegments = 4
  RingSize = 2
  ReadCacheDepth = 2
  PerSegment = 2
  Bids = {b1, b2, b3}
  Attrs <- MCAttrs
  Dests = {1, 2}
  Exps = {1, 2}
  AvailLinkSeqs <- MCAvailLinkSeqs
  AbandonMidRead = FALSE
  AllowCrash = FALSE
  MaxRestarts = 1
  U64Max = U64Max
  U32Max = U32Max
  Zero = Zero
  None = None
SPECIFICATION Spec
INVARIANTS TypeOK SegmentOwnership
PROPERTIES ReadReturnsOwnData RestoreIsExact TopSegmentCompletes
CHECK_DEADLOCK FALSE
