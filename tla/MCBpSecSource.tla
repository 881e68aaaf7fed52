--------------------------- MODULE MCBpSecSource ---------------------------
(***************************************************************************)
(* Model values for BpSecSource: an outgoing bundle from ipn:1.1 to       *)
(* ipn:1.2 with a payload (1) and an extension block of type 7 (2), sent  *)
(* by security source ipn:1.1, under the rules of MCBpSecPolicy.          *)
(***************************************************************************)
EXTENDS MCBpSecPolicy, BpSecSource

MCOutBundles == {[src |-> E11, dest |-> E12, blocks |-> (1 :> 1) @@ (2 :> 7)]}
====
