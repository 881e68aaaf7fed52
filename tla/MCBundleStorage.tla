-------------------------- MODULE MCBundleStorage --------------------------
(* Constants of BundleStorage for TLC: two disks of two segments each,    *)
(* payload of two units per segment, bundles of one to three segments.   *)
EXTENDS BundleStorage

MCAttrs ==
  { [size |-> 5, dest |-> 1, prio |-> 0, exp |-> 1],   \* three segments
    [size |-> 1, dest |-> 2, prio |-> 2, exp |-> 1],   \* one segment
    [size |-> 3, dest |-> 1, prio |-> 0, exp |-> 2] }  \* two segments

\* For the crash run: only multi-segment bundles, whose chains cross disks.
MCAttrsCrash ==
  { [size |-> 5, dest |-> 1, prio |-> 0, exp |-> 1],   \* three segments
    [size |-> 3, dest |-> 1, prio |-> 0, exp |-> 2] }  \* two segments

MCAvailLinkSeqs == {<<1, 2>>}
====
