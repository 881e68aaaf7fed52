--------------------------- MODULE BundleCatalog ---------------------------
(***************************************************************************)
(* What the bundle store promises its caller (spec sections 3 and 5):     *)
(* stored bundles sit in buckets per (destination, priority, expiration); *)
(* a store puts a bundle at the front of its bucket; a pop over a set of  *)
(* available links takes the front of a bucket of the highest priority   *)
(* and, among those, of the earliest expiration; the caller then gives    *)
(* the bundle back to the front of its bucket or deletes it.  Chains,     *)
(* segments, disks and read-ahead are not visible at this level.          *)
(***************************************************************************)
EXTENDS Naturals, Sequences

CONSTANTS Bids, Dests, Exps, AvailLinkSeqs, None

Prios == 0 .. 2
Keys == Dests \X Prios \X Exps

VARIABLES
  catalog,   \* key -> sequence of bundle ids, front first
  held,      \* the bundle a reader has taken, or None
  heldKey    \* the bucket it came from

vars == <<catalog, held, heldKey>>

Init ==
  /\ catalog = [k \in Keys |-> <<>>]
  /\ held = None
  /\ heldKey = None

Store(b, k) ==
  /\ catalog'[k] = <<b>> \o catalog[k]
  /\ catalog' = [catalog EXCEPT ![k] = <<b>> \o @]
  /\ UNCHANGED <<held, heldKey>>

\* The non-empty buckets of the links in avail.
Open(avail) ==
  {j \in Keys : j[1] \in {avail[i] : i \in 1 .. Len(avail)} /\ catalog[j] # <<>>}

\* A pop serves a bucket of the available links such that no other
\* non-empty one has a higher priority, or the same priority and an
\* earlier expiration.
Take(avail) ==
  LET open == Open(avail) IN
  /\ held = None
  /\ \E k \in open :
       /\ \A j \in open : j[2] < k[2] \/ (j[2] = k[2] /\ j[3] >= k[3])
       /\ held' = Head(catalog[k])
       /\ heldKey' = k
       /\ catalog' = [catalog EXCEPT ![k] = Tail(@)]

GiveBack ==
  /\ held # None
  /\ catalog' = [catalog EXCEPT ![heldKey] = <<held>> \o @]
  /\ held' = None
  /\ heldKey' = None

Delete ==
  /\ held # None
  /\ held' = None
  /\ heldKey' = None
  /\ UNCHANGED catalog

Next ==
  \/ \E b \in Bids, k \in Keys : Store(b, k)
  \/ \E avail \in AvailLinkSeqs : Take(avail)
  \/ GiveBack
  \/ Delete

Spec == Init /\ [][Next]_vars
=============================================================================
