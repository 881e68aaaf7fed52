CONSTANTS
  NumDisks = 2
  NumSegments = 4
  RingSize = 2
  ReadCacheDepth = 2
  PerSegment = 2
  Bids = {b1, b2, b3}
  Attrs <- MCAttrsCrash
  Dests = {1, 2}
  Exps = {1, 2}
  AvailLinkSeqs <- MCAvailLinkSeqs
  AbandonMidRead = FALSE
  AllowCrash = TRUE
  MaxRestarts = 2
  U64Max = U64Max
  U32Max = U32Max
  Zero = Zero
  None = None
SPECIFICATION Spec
PROPERTIES RestoreConsistent
CHECK_DEADLOCK FALSE
