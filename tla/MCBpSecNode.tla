---------------------------- MODULE MCBpSecNode ----------------------------
(***************************************************************************)
(* Model values for BpSecNode: the received bundles of MCBpSecReceive and *)
(* the outgoing bundle of MCBpSecSource, with every receive context and   *)
(* the source context.                                                     *)
(***************************************************************************)
EXTENDS MCBpSecReceive, MCBpSecSource, BpSecNode

MCNodeCtxs == MCRLookupCtxs \cup {"Source"}
====
