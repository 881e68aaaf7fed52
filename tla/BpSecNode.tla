----------------------------- MODULE BpSecNode -----------------------------
(***************************************************************************)
(* One node's BpSecPolicyManager serving both directions: the policies    *)
(* LoadFromConfig built are shared by the ingress context that runs       *)
(* ProcessReceivedBundle and the egress context that runs                 *)
(* FindPolicyAndProcessOutgoingBundle.  Bundles the ingress context      *)
(* handled before the one being processed are lookups, through the        *)
(* contexts ProbeCtxs, that leave those search caches holding their query.*)
(***************************************************************************)
EXTENDS BpSecReceive, BpSecSource

CONSTANT ProbeCtxs   \* receive contexts whose caches earlier bundles used

\* The received bundle's processing has not started yet.
NotStarted == phase = "bcb" /\ asbI = 1

\* The ingress and egress contexts share only the policies, which no step
\* changes once loaded, and write disjoint variables: every interleaving
\* of a send with the receive steps reaches the states of one in which
\* the send comes after them, so only those are explored.
ReceiveFinished == phase \in {"done", "dropped"}

NodeInit == RInit /\ out = None /\ sent = None

NodeNext ==
  \/ RNext /\ UNCHANGED svars
  \/ \E x \in ProbeCtxs, q \in Queries :
       NotStarted /\ Lookup(x, q) /\ UNCHANGED <<rvars, svars>>
  \/ \E bdl \in OutBundles, bibOk, bcbOk \in BOOLEAN :
       ReceiveFinished /\ SendBundle(bdl, bibOk, bcbOk) /\ UNCHANGED rvars

NodeSpec == NodeInit /\ [][NodeNext]_<<vars, rvars, svars>>

NodeTypeOK == RTypeOK /\ STypeOK
====
