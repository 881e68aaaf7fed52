---------------------------- MODULE BpSecReceive ----------------------------
(***************************************************************************)
(* ProcessReceivedBundle over a bundle received after the policies were   *)
(* loaded: every BCB, then every BIB, each looked up as ACCEPTOR and then  *)
(* VERIFIER through the context's search caches, handed to the            *)
(* cryptographic bundle processor, and its per-target errors dispatched   *)
(* by DoFailureEvent or DoFailureEventSopMissingAtAcceptor.               *)
(*                                                                         *)
(* The processor (BpSecBundleProcessor) is not part of src/: it is        *)
(* modelled from spec 4.4 step 4 as a nondeterministic list of failed     *)
(* target indices in greatest-to-least order, or one error for the whole  *)
(* ASB (index UINT64_MAX).  It decrypts (as acceptor) the targets with no *)
(* error, and consumes the ASB when there is none.  The error codes        *)
(* CORRUPTED and MISCONFIGURED select two events handled alike; one is    *)
(* modelled.  Block contents are not modelled.                            *)
(***************************************************************************)
EXTENDS BpSecPolicy

CONSTANTS
  Bundles,       \* received bundles: primary EIDs, blocks, ASBs
  MyNode,        \* myNodeId
  MissingMasks,  \* values of m_actionMaskSopMissingAtAcceptor
  All            \* the error index UINT64_MAX

VARIABLES
  bundle,      \* the bundle being processed
  phase,       \* "bcb", "bib", "done" or "dropped"
  asbI,        \* loop index into the BCBs or BIBs
  sops,        \* ASB block number -> its security targets (SOps) left
  marked,      \* block numbers marked for deletion
  encrypted,   \* block numbers still encrypted
  missingMask, \* m_actionMaskSopMissingAtAcceptor
  intended     \* ghost: ASB -> targets whose SOp a failure removed

rvars == <<bundle, phase, asbI, sops, marked, encrypted, missingMask, intended>>
allVars == <<vars, rvars>>

\* GetCanonicalBlocksByType: the ASBs of one kind, in block order.
AsbsOf(bdl, kind) ==
  SetToSortSeq({n \in DOMAIN bdl.asb : bdl.asb[n].kind = kind}, <)

AtFinalDest == bundle.dest[1] = MyNode

\* The processor's possible error lists for an ASB with n SOps.
ErrorLists(n) ==
  {<<All>>} \cup {SetToSortSeq(S, >) : S \in SUBSET (1 .. n)}

-----------------------------------------------------------------------------
(* Failure handling on st = [keep, sops, marked, intended] of ASB b       *)

\* Mutation: the empty-ASB rule (RFC 9172 5.1.1/5.1.2) is missing.
RemoveSopKeepEmpty(st, b, i) ==
  IF i = All THEN [st EXCEPT !.marked = @ \cup {b}]
  ELSE IF i > Len(st.sops) THEN [st EXCEPT !.keep = FALSE]
  ELSE [st EXCEPT !.sops = RemoveAt(@, i),
                  !.intended = @ \cup {bundle.asb[b].targets[i]}]

\* RemoveSopByGreatestToLeastIndex; a false return drops the bundle at
\* every call site, so it is folded into keep.
RemoveSopByGreatestToLeastIndex(st, b, i) ==
  IF i = All THEN [st EXCEPT !.marked = @ \cup {b}]
  ELSE IF i > Len(st.sops) THEN [st EXCEPT !.keep = FALSE]
  ELSE LET left == RemoveAt(st.sops, i) IN
       [st EXCEPT !.sops = left,
                  !.marked = IF left = <<>> THEN @ \cup {b} ELSE @,
                  !.intended = @ \cup {bundle.asb[b].targets[i]}]

\* RemoveSopTargetBlock: the block (or every block the ASB targets) that
\* exists in the bundle is marked for deletion.
RemoveSopTargetBlock(st, canon) ==
  LET blocks == IF canon = All THEN {st.sops[j] : j \in 1 .. Len(st.sops)}
                ELSE {canon}
  IN [st EXCEPT !.marked = @ \cup (blocks \cap bundle.blocks)]

Drop(st) == [st EXCEPT !.keep = FALSE]

\* Mutation: only the whole-ASB error counts as targeting the payload.
ErrorTargetsPayloadOnlyAll(canon) == canon = All

\* errorTargetsPayloadBlock.
ErrorTargetsPayload(canon) == canon = PAYLOAD \/ canon = All

\* The acceptor's handling of one error (the isAcceptor branch): a BCB
\* error drops the bundle when it names the payload, else removes the SOp
\* and its target; then the event's required SOp removal and its
\* optional actions.
AcceptorFailure(st, b, e, canon, mask, isIntegrity) ==
  LET payload == ErrorTargetsPayload(canon)
      bcbAcc == IF isIntegrity THEN st
                ELSE RemoveSopTargetBlock(
                       RemoveSopByGreatestToLeastIndex(st, b, e), canon)
      acc == IF isIntegrity THEN RemoveSopByGreatestToLeastIndex(bcbAcc, b, e)
             ELSE bcbAcc
  IN
  IF ~isIntegrity /\ payload THEN Drop(st)
  ELSE IF ~bcbAcc.keep THEN bcbAcc
  ELSE IF mask = None THEN Drop(bcbAcc)
  ELSE IF ~acc.keep \/ "FAIL" \in mask THEN Drop(acc)
  ELSE IF "RSOTB" \in mask
    THEN IF payload THEN Drop(acc)
         ELSE IF isIntegrity THEN RemoveSopTargetBlock(acc, canon) ELSE acc
  ELSE acc

\* The verifier's handling of one error: the optional SOp removal, then
\* FAIL_BUNDLE_FORWARDING or REMOVE_SECURITY_OPERATION_TARGET_BLOCK.
VerifierFailure(st, b, e, canon, mask) ==
  LET ver == IF "RSO" \in mask THEN RemoveSopByGreatestToLeastIndex(st, b, e)
             ELSE st
  IN
  IF mask = None THEN Drop(st)
  ELSE IF ~ver.keep \/ "FAIL" \in mask THEN Drop(ver)
  ELSE IF "RSOTB" \in mask
    THEN IF ErrorTargetsPayload(canon) THEN Drop(ver)
         ELSE RemoveSopTargetBlock(ver, canon)
  ELSE ver

\* One error of DoFailureEvent.  canon is read before any removal for this
\* error; an index past the end is an out-of-range read, which is taken to
\* name no block.
FailureStep(st, b, e, mask, isAcceptor, isIntegrity) ==
  LET canon == IF e = All THEN All
               ELSE IF e <= Len(st.sops) THEN st.sops[e] ELSE None
  IN
  IF isAcceptor THEN AcceptorFailure(st, b, e, canon, mask, isIntegrity)
  ELSE VerifierFailure(st, b, e, canon, mask)

\* DoFailureEvent: the errors in list order, stopping at the first drop.
RECURSIVE DoFailureEvent(_, _, _, _, _, _)
DoFailureEvent(st, b, errs, mask, isAcceptor, isIntegrity) ==
  IF errs = <<>> \/ ~st.keep THEN st
  ELSE DoFailureEvent(FailureStep(st, b, Head(errs), mask, isAcceptor, isIntegrity),
                      b, Tail(errs), mask, isAcceptor, isIntegrity)

\* DoFailureEventSopMissingAtAcceptor.
DoFailureEventSopMissingAtAcceptor(st, isIntegrity) ==
  LET toPayload == PAYLOAD \in {st.sops[j] : j \in 1 .. Len(st.sops)} IN
  IF ~isIntegrity /\ toPayload THEN Drop(st)
  ELSE IF "FAIL" \in missingMask THEN Drop(st)
  ELSE IF "RSOTB" \in missingMask
    THEN IF toPayload THEN Drop(st) ELSE RemoveSopTargetBlock(st, All)
  ELSE st

-----------------------------------------------------------------------------
(* ProcessReceivedBundle                                                    *)

\* One iteration of the BCB loop (isIntegrity FALSE) or the BIB loop
\* (isIntegrity TRUE) on ASB b, the processor returning errs.
ProcessAsb(isIntegrity, errs) ==
  LET kind == IF isIntegrity THEN "BIB" ELSE "BCB"
      accX == IF isIntegrity THEN "BibAcceptor" ELSE "BcbAcceptor"
      verX == IF isIntegrity THEN "BibVerifier" ELSE "BcbVerifier"
      b == AsbsOf(bundle, kind)[asbI]
      Q(role) == [secSrc |-> bundle.asb[b].secSrc, bundleSrc |-> bundle.src,
                  bundleDest |-> bundle.dest, role |-> role]
      acc == CachedLookup(cache[accX], Q("ACCEPTOR"))
      ver == CachedLookup(cache[verX], Q("VERIFIER"))
      isAcceptor == acc.found # None
      p == IF isAcceptor THEN acc.found ELSE ver.found
      st == [keep |-> TRUE, sops |-> sops[b], marked |-> marked,
             intended |-> intended[b]]
      missing == DoFailureEventSopMissingAtAcceptor(st, isIntegrity)
      doService == IF isIntegrity THEN p.doIntegrity ELSE p.doConfidentiality
      mask == IF isIntegrity THEN p.intEvents[IF isAcceptor THEN "ACCEPTOR" ELSE "VERIFIER"]
                             ELSE p.confEvents[IF isAcceptor THEN "ACCEPTOR" ELSE "VERIFIER"]
      failed == {errs[j] : j \in 1 .. Len(errs)}
      \* the processor: an acceptor decrypts the targets without error and,
      \* with no error at all, consumes the ASB
      decrypted == IF ~isAcceptor \/ isIntegrity \/ All \in failed THEN {}
                   ELSE {sops[b][j] : j \in (1 .. Len(sops[b])) \ failed}
      ran == IF errs = <<>>
               THEN [st EXCEPT !.marked = IF isAcceptor THEN @ \cup {b} ELSE @]
               ELSE DoFailureEvent(st, b, errs, mask, isAcceptor, isIntegrity)
      Apply(r) == /\ sops' = [sops EXCEPT ![b] = r.sops]
                  /\ marked' = r.marked
                  /\ intended' = [intended EXCEPT ![b] = r.intended]
                  /\ phase' = IF r.keep THEN phase ELSE "dropped"
                  /\ asbI' = asbI + 1
      Skip == /\ asbI' = asbI + 1
              /\ UNCHANGED <<sops, marked, intended, phase, encrypted>>
  IN
  /\ pc = "loaded"
  /\ phase = IF isIntegrity THEN "bib" ELSE "bcb"
  /\ asbI <= Len(AsbsOf(bundle, kind))
  /\ cache' = [cache EXCEPT ![accX] = acc.cache,
                            ![verX] = IF isAcceptor \/ AtFinalDest THEN @
                                      ELSE ver.cache]
  /\ IF ~isAcceptor /\ AtFinalDest
       THEN /\ errs = <<>>
            /\ Apply(missing)
            /\ UNCHANGED encrypted
     ELSE IF p = None \/ ~doService
       THEN errs = <<>> /\ Skip
     ELSE /\ errs \in ErrorLists(Len(sops[b]))
          /\ Apply(ran)
          /\ encrypted' = encrypted \ decrypted
  /\ UNCHANGED <<bundle, missingMask, filters, policies, config, ruleI, pc, answer>>

\* An iteration of the first loop, over the BCBs (confidentiality).
ProcessBcb(errs) == ProcessAsb(FALSE, errs)

\* An iteration of the second loop, over the BIBs (integrity).
ProcessBib(errs) == ProcessAsb(TRUE, errs)

\* The end of the BCB loop, and of the BIB loop: ProcessReceivedBundle
\* returns true.
EndBcbs ==
  /\ phase = "bcb"
  /\ asbI > Len(AsbsOf(bundle, "BCB"))
  /\ phase' = "bib"
  /\ asbI' = 1
  /\ UNCHANGED <<vars, bundle, sops, marked, encrypted, missingMask, intended>>

EndBibs ==
  /\ phase = "bib"
  /\ asbI > Len(AsbsOf(bundle, "BIB"))
  /\ phase' = "done"
  /\ UNCHANGED <<vars, bundle, asbI, sops, marked, encrypted, missingMask, intended>>

-----------------------------------------------------------------------------
(* Specification                                                           *)

RInit ==
  /\ Init
  /\ bundle \in Bundles
  /\ phase = "bcb"
  /\ asbI = 1
  /\ sops = [n \in DOMAIN bundle.asb |-> bundle.asb[n].targets]
  /\ marked = {}
  /\ encrypted = UNION {{bundle.asb[n].targets[j] : j \in DOMAIN bundle.asb[n].targets} :
                        n \in {m \in DOMAIN bundle.asb : bundle.asb[m].kind = "BCB"}}
  /\ missingMask \in MissingMasks
  /\ intended = [n \in DOMAIN bundle.asb |-> {}]

RNext ==
  \/ LoadRule /\ UNCHANGED rvars
  \/ LoadDone /\ UNCHANGED rvars
  \/ \E errs \in ErrorLists(Cardinality(bundle.blocks)) :
       ProcessBcb(errs) \/ ProcessBib(errs)
  \/ EndBcbs
  \/ EndBibs

RSpec == RInit /\ [][RNext]_allVars
-----------------------------------------------------------------------------
(* Properties                                                              *)

RTypeOK ==
  /\ TypeOK
  /\ bundle \in Bundles
  /\ phase \in {"bcb", "bib", "done", "dropped"}
  /\ asbI \in 1 .. Cardinality(DOMAIN bundle.asb) + 1
  /\ \A n \in DOMAIN bundle.asb :
       /\ sops[n] \in Seq(bundle.blocks)
       /\ intended[n] \subseteq bundle.blocks
  /\ marked \subseteq bundle.blocks
  /\ encrypted \subseteq bundle.blocks

\* DoFailureEvent and RemoveSopByGreatestToLeastIndex: removing SOps by
\* the processor's indices, one error after another, removes exactly the
\* SOps whose targets failed (the indices name the ASB as received), and
\* an ASB whose last SOp is removed is marked for deletion.
AsbSopsConsistent ==
  \A n \in DOMAIN bundle.asb \ marked :
    /\ sops[n] = SelectSeq(bundle.asb[n].targets, LAMBDA t : t \notin intended[n])
    /\ sops[n] # <<>>

\* The failure actions of DoFailureEvent and
\* DoFailureEventSopMissingAtAcceptor never delete the payload block of a
\* bundle they let through: a failure on the payload drops the bundle.
PayloadNeverRemoved ==
  phase = "done" => PAYLOAD \notin marked

\* REMOVE_SECURITY_OPERATION_TARGET_BLOCK (spec 4.4 failure action 3): a
\* target block marked for deletion has its SOp removed too, so no ASB of
\* a bundle that is let through names a deleted block.
NoDanglingSecurityTarget ==
  phase = "done" =>
    \A n \in DOMAIN bundle.asb \ marked :
      \A j \in 1 .. Len(sops[n]) : sops[n][j] \notin marked

\* Spec 4.4 BCB steps 1-2: at its final destination a bundle's BCBs are
\* decrypted by an acceptor policy or reported missing, so a bundle let
\* through there never carries an encrypted payload.
PayloadDecryptedAtFinalDest ==
  phase = "done" /\ AtFinalDest => PAYLOAD \notin encrypted
====
