-------------------------- MODULE MCBpSecReceive --------------------------
(***************************************************************************)
(* Model values for BpSecReceive: the rules of MCBpSecPolicy, and a       *)
(* bundle from ipn:1.1 with an extension block (2), a BIB (3) and a BCB   *)
(* (4) from ipn:2.1 over the payload (1), block 2 and the BIB, addressed  *)
(* to this node (ipn:1.2, myNodeId 1) or forwarded (ipn:2.1).             *)
(***************************************************************************)
EXTENDS MCBpSecPolicy, BpSecReceive

Received(dest) ==
  [src |-> E11, dest |-> dest, blocks |-> {1, 2, 3, 4},
   asb |-> (3 :> [kind |-> "BIB", secSrc |-> E21, targets |-> <<1, 2>>])
           @@ (4 :> [kind |-> "BCB", secSrc |-> E21, targets |-> <<1, 2, 3>>])]

MCBundles == {Received(E12), Received(E21)}
MCRBundleEids == {E11, E12, E21}
MCMissingMasks == {{}, {"RSOTB"}, {"FAIL"}}
MCRLookupCtxs == {"BcbAcceptor", "BcbVerifier", "BibAcceptor", "BibVerifier"}
====
