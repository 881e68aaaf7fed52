--------------------------- MODULE MCBpSecPolicy ---------------------------
(***************************************************************************)
(* Model values for BpSecPolicy: three EIDs (ipn:1.1, ipn:1.2, ipn:2.1),  *)
(* the patterns over them that the rules use, and eight rules whose pairs *)
(* are listed in the order of the std::set of URI strings LoadFromConfig   *)
(* iterates ("ipn:*.*" < "ipn:1.1" < "ipn:x.y").                           *)
(***************************************************************************)
EXTENDS BpSecPolicy

E11 == <<1, 1>>
E12 == <<1, 2>>
E21 == <<2, 1>>
BadEid == [kind |-> "bad"]   \* "ipn:x.y"

\* A security failure event set: the action mask (a subset of FAIL
\* (FAIL_BUNDLE_FORWARDING), RSO (REMOVE_SECURITY_OPERATION) and RSOTB
\* (REMOVE_SECURITY_OPERATION_TARGET_BLOCK)) of the operation-corrupted
\* event at an acceptor and at a verifier, None when the set has no entry.
Events(acc, ver) == [ACCEPTOR |-> acc, VERIFIER |-> ver]

Rule(role, svc, src, pairs, targets, events, ok) ==
  [role |-> role, service |-> svc, secSrc |-> src, pairs |-> pairs,
   targets |-> targets, events |-> events, paramsOk |-> ok]

MCPatterns == {AnyEid, NodeWild(2), Exact(E11), Exact(E21)}

MCRules ==
  { \* acceptor of BCBs from any service of node 2
    Rule("ACCEPTOR", "confidentiality", NodeWild(2), <<<<AnyEid, AnyEid>>>>, {1},
         Events({"RSOTB"}, None), TRUE),
    \* acceptor of BIBs from ipn:2.1
    Rule("ACCEPTOR", "integrity", Exact(E21), <<<<AnyEid, AnyEid>>>>, {1},
         Events({"FAIL"}, None), TRUE),
    \* verifiers of BCBs from anyone
    Rule("VERIFIER", "confidentiality", AnyEid, <<<<AnyEid, AnyEid>>>>, {1},
         Events(None, {"RSOTB"}), TRUE),
    Rule("VERIFIER", "confidentiality", AnyEid,
         <<<<AnyEid, Exact(E11)>>, <<AnyEid, Exact(E21)>>>>, {7},
         Events(None, {"RSO"}), TRUE),
    \* a verifier rule whose second bundle source does not parse
    Rule("VERIFIER", "integrity", AnyEid,
         <<<<AnyEid, AnyEid>>, <<BadEid, AnyEid>>>>, {1},
         Events(None, {"RSO", "RSOTB"}), TRUE),
    \* a source adding a BIB and a BCB over the payload
    Rule("SOURCE", "integrity", Exact(E11), <<<<AnyEid, AnyEid>>>>, {1},
         Events(None, None), TRUE),
    Rule("SOURCE", "confidentiality", Exact(E11), <<<<AnyEid, AnyEid>>>>, {1},
         Events(None, None), TRUE),
    \* a source encrypting the payload and the BIB
    Rule("SOURCE", "confidentiality", Exact(E11), <<<<AnyEid, AnyEid>>>>, {1, 11},
         Events(None, None), TRUE),
    \* a rule with an invalid parameter or key
    Rule("ACCEPTOR", "integrity", AnyEid, <<<<AnyEid, AnyEid>>>>, {1},
         Events(None, None), FALSE) }

MCSecSrcEids == {E11, E21}
====
