----------------------------- MODULE BpSecSource -----------------------------
(***************************************************************************)
(* FindPolicyAndProcessOutgoingBundle: a node acting as security source   *)
(* looks up its SOURCE policy for a bundle, collects the BIB and BCB       *)
(* target block numbers (PopulateTargetArraysForSecuritySource) and adds  *)
(* the BIB, then the BCB (ProcessOutgoingBundle).                          *)
(*                                                                         *)
(* A bundle is a function from block number to block type.  The           *)
(* processor's TryAddBundleIntegrity and TryEncryptBundle are not part of *)
(* src/; from spec 4.4 they may fail, and the BIB is placed first with a   *)
(* block number one above the largest in the bundle.                       *)
(***************************************************************************)
EXTENDS BpSecPolicy

CONSTANTS
  OutBundles,   \* outgoing bundles: [src, dest, blocks : number -> type]
  SourceEid,    \* thisSecuritySourceEid
  MaxBlockTypes \* BPV7_BLOCK_TYPE_CODE::RESERVED_MAX_BLOCK_TYPES

VARIABLES
  out,    \* the bundle as sent, or None
  sent    \* None, or the outcome: [ok, pol, bib, bcb] (targets, or None)

svars == <<out, sent>>

\* The block numbers of the bundle's blocks of a type, in block order.
BlocksOfType(bdl, t) ==
  SetToSortSeq({n \in DOMAIN bdl.blocks : bdl.blocks[n] = t}, <)

\* Target lists, over the target block types in ascending order.
RECURSIVE Collect(_, _, _)
Collect(bdl, types, acc) ==
  IF types = <<>> THEN acc
  ELSE Collect(bdl, Tail(types), acc \o BlocksOfType(bdl, Head(types)))

\* Mutation: the placeholder index is taken after the push.
RECURSIVE CollectBcbLate(_, _, _)
CollectBcbLate(bdl, types, acc) ==
  IF types = <<>> THEN acc
  ELSE CollectBcbLate(bdl, Tail(types),
         IF Head(types) = INTEGRITY
           THEN [list |-> Append(acc.list, 0), ph |-> Len(acc.list) + 2]
           ELSE [acc EXCEPT !.list = @ \o BlocksOfType(bdl, Head(types))])

\* The BCB list: a 0 placeholder (and its index) for the integrity type.
RECURSIVE CollectBcb(_, _, _)
CollectBcb(bdl, types, acc) ==
  IF types = <<>> THEN acc
  ELSE CollectBcb(bdl, Tail(types),
         IF Head(types) = INTEGRITY
           THEN [list |-> Append(acc.list, 0), ph |-> Len(acc.list) + 1]
           ELSE [acc EXCEPT !.list = @ \o BlocksOfType(bdl, Head(types))])

\* PopulateTargetArraysForSecuritySource.
PopulateTargetArrays(bdl, p) ==
  [bib |-> IF p.doIntegrity
             THEN Collect(bdl, SetToSortSeq(p.bibTargets, <), <<>>) ELSE <<>>,
   bcb |-> IF p.doConfidentiality
             THEN CollectBcb(bdl, SetToSortSeq(p.bcbTargets, <),
                             [list |-> <<>>, ph |-> None])
             ELSE [list |-> <<>>, ph |-> None]]

\* The LUT overload of PopulateTargetArraysForSecuritySource, for callers
\* that assign block numbers themselves: lut maps each block type below
\* MaxBlockTypes to a block number, and a target type outside the table
\* fails the call.
LutTargets(lut, types) == [i \in 1 .. Len(types) |-> lut[types[i]]]

\* Mutation: the integrity type is looked up like any other type.
RECURSIVE CollectBcbLutNoPlaceholder(_, _, _)
CollectBcbLutNoPlaceholder(lut, types, acc) ==
  IF types = <<>> THEN acc
  ELSE CollectBcbLutNoPlaceholder(lut, Tail(types),
         [acc EXCEPT !.list = Append(@, lut[Head(types)])])

\* The BCB list of the LUT overload, with the placeholder as CollectBcb.
RECURSIVE CollectBcbLut(_, _, _)
CollectBcbLut(lut, types, acc) ==
  IF types = <<>> THEN acc
  ELSE CollectBcbLut(lut, Tail(types),
         IF Head(types) = INTEGRITY
           THEN [list |-> Append(acc.list, 0), ph |-> Len(acc.list) + 1]
           ELSE [acc EXCEPT !.list = Append(@, lut[Head(types)])])

PopulateTargetArraysLut(lut, p) ==
  LET InTable(T) == \A t \in T : t < MaxBlockTypes IN
  IF ~(/\ p.doIntegrity => InTable(p.bibTargets)
       /\ p.doConfidentiality => InTable(p.bcbTargets))
    THEN [ok |-> FALSE]
    ELSE [ok |-> TRUE,
          bib |-> IF p.doIntegrity
                    THEN LutTargets(lut, SetToSortSeq(p.bibTargets, <)) ELSE <<>>,
          bcb |-> IF p.doConfidentiality
                    THEN CollectBcbLut(lut, SetToSortSeq(p.bcbTargets, <),
                                       [list |-> <<>>, ph |-> None])
                    ELSE [list |-> <<>>, ph |-> None]]

\* The block number the processor gives a new block.
NewBlockNumber(bdl) == 1 + CHOOSE n \in DOMAIN bdl.blocks :
                             \A m \in DOMAIN bdl.blocks : m <= n

\* Mutation: the placeholder is not backfilled.
BackfillNone(list, ph, bibNum) == list

\* The backfill of the placeholder with the new BIB's block number.
Backfill(list, ph, bibNum) ==
  IF ph = None \/ ph > Len(list) THEN list ELSE [list EXCEPT ![ph] = bibNum]

\* FindPolicyAndProcessOutgoingBundle for bundle bdl; bibOk and bcbOk are
\* the processor's outcomes.
SendBundle(bdl, bibOk, bcbOk) ==
  LET q == [secSrc |-> SourceEid, bundleSrc |-> bdl.src,
            bundleDest |-> bdl.dest, role |-> "SOURCE"]
      l == CachedLookup(cache["Source"], q)
      p == l.found
      t == PopulateTargetArrays(bdl, p)
      bibNum == NewBlockNumber(bdl)
      b1 == IF p.doIntegrity
              THEN [bdl EXCEPT !.blocks = @ @@ (bibNum :> INTEGRITY)] ELSE bdl
      b2 == [b1 EXCEPT !.blocks = @ @@ (NewBlockNumber(b1) :> 12)]
      bcb == IF p.doIntegrity THEN Backfill(t.bcb.list, t.bcb.ph, bibNum)
             ELSE t.bcb.list
  IN
  /\ pc = "loaded"
  /\ sent = None
  /\ cache' = [cache EXCEPT !["Source"] = l.cache]
  /\ IF p = None
       THEN /\ bibOk /\ bcbOk
            /\ out' = bdl
            /\ sent' = [ok |-> TRUE, pol |-> None, bib |-> None, bcb |-> None]
     ELSE IF p.doIntegrity /\ ~bibOk
       THEN /\ bcbOk
            /\ out' = bdl
            /\ sent' = [ok |-> FALSE, pol |-> p, bib |-> None, bcb |-> None]
     ELSE /\ ~p.doIntegrity => bibOk
          /\ ~p.doConfidentiality => bcbOk
          /\ out' = IF p.doConfidentiality THEN b2 ELSE b1
          /\ sent' = [ok |-> ~p.doConfidentiality \/ bcbOk, pol |-> p,
                      bib |-> IF p.doIntegrity THEN t.bib ELSE None,
                      bcb |-> IF p.doConfidentiality THEN bcb ELSE None]
  /\ UNCHANGED <<filters, policies, config, ruleI, pc, answer>>

SInit == Init /\ out = None /\ sent = None

SNext ==
  \/ LoadRule /\ UNCHANGED svars
  \/ LoadDone /\ UNCHANGED svars
  \/ \E x \in LookupCtxs \ {"Source"}, q \in Queries :
       Lookup(x, q) /\ UNCHANGED svars
  \/ \E bdl \in OutBundles, bibOk, bcbOk \in BOOLEAN : SendBundle(bdl, bibOk, bcbOk)

SSpec == SInit /\ [][SNext]_<<vars, svars>>

-----------------------------------------------------------------------------
(* Properties                                                              *)

STypeOK ==
  /\ TypeOK
  /\ out = None \/ (out.src \in BundleEids /\ DOMAIN out.blocks \subseteq Nat)
  /\ sent = None \/ sent.ok \in BOOLEAN

\* PopulateTargetArraysForSecuritySource and the backfill in
\* ProcessOutgoingBundle: when a source adds both a BIB and a BCB whose
\* policy targets the integrity block type, the BCB names the BIB just
\* added and no placeholder is left.
BcbCoversNewBib ==
  sent # None /\ sent.ok /\ sent.bib # None /\ sent.bcb # None
    /\ INTEGRITY \in sent.pol.bcbTargets
    => \E j \in 1 .. Len(sent.bcb) :
         /\ sent.bcb[j] \in DOMAIN out.blocks
         /\ out.blocks[sent.bcb[j]] = INTEGRITY
\* The table a caller of the LUT overload builds for bundle bdl: each
\* type present in the bundle maps to its block number, others to 0.
LutOf(bdl) ==
  [t \in 0 .. (MaxBlockTypes - 1) |->
     IF \E n \in DOMAIN bdl.blocks : bdl.blocks[n] = t
       THEN CHOOSE n \in DOMAIN bdl.blocks : bdl.blocks[n] = t ELSE 0]

\* Every type policy p targets (but the integrity placeholder) is in bdl
\* exactly once.
OncePerTargetType(bdl, p) ==
  LET types == (IF p.doIntegrity THEN p.bibTargets ELSE {})
                 \cup (IF p.doConfidentiality THEN p.bcbTargets \ {INTEGRITY}
                                              ELSE {})
  IN \A t \in types : Cardinality({n \in DOMAIN bdl.blocks : bdl.blocks[n] = t}) = 1

\* The two overloads of PopulateTargetArraysForSecuritySource agree: for
\* every SOURCE policy the load produced and a bundle holding each targeted
\* type once, the LUT overload given that bundle's table returns the BIB
\* list, the BCB list and the placeholder index the bundle-view overload
\* computes, and does not fail.
LutOverloadAgrees ==
  pc = "loaded" =>
    \A bdl \in OutBundles, path \in Paths3 :
      LET p == policies[path]["SOURCE"] IN
      p # None /\ OncePerTargetType(bdl, p) =>
        PopulateTargetArraysLut(LutOf(bdl), p)
          = [ok |-> TRUE] @@ PopulateTargetArrays(bdl, p)
====
