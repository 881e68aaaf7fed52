CONSTANTS
  Rules <- MCRules
  Patterns <- MCPatterns
  MaxRules = 2
  SecSrcEids <- MCSecSrcEids
  BundleEids <- MCRBundleEids
  LookupCtxs <- MCRLookupCtxs
  Bundles <- MCBundles
  MyNode = 1
  MissingMasks <- MCMissingMasks
  None = None
  All = All
SPECIFICATION RSpec
INVARIANTS
  PayloadDecryptedAtFinalDest
CHECK_DEADLOCK FALSE
