CONSTANTS
  Rules <- MCRules
  Patterns <- MCPatterns
  MaxRules = 2
  SecSrcEids <- MCSecSrcEids
  BundleEids <- MCRBundleEids
  LookupCtxs <- MCNodeCtxs
  Bundles <- MCBundles
  MyNode = 1
  MissingMasks <- MCMissingMasks
  OutBundles <- MCOutBundles
  SourceEid <- E11
  MaxBlockTypes = 13
  ProbeCtxs = {"BcbVerifier"}
  None = None
  All = All
SPECIFICATION NodeSpec
INVARIANTS
  NodeTypeOK
  LoadedPoliciesFollowRules
  LookupSound
  AsbSopsConsistent
  PayloadNeverRemoved
  BcbCoversNewBib
  LutOverloadAgrees
CHECK_DEADLOCK FALSE
