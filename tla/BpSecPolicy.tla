---------------------------- MODULE BpSecPolicy ----------------------------
(***************************************************************************)
(* The BPSec policy manager: LoadFromConfig building the policy filter    *)
(* trie rule by rule, the cascading FindPolicy over the trie, and the     *)
(* per-context search caches of FindPolicyWithCacheSupport.              *)
(*                                                                         *)
(* A trie node is identified by its path from the security-source level:  *)
(* a sequence of at most three EID patterns.  A pattern is the any-EID    *)
(* "ipn:*.*", a node wildcard "ipn:N.*", a fully qualified EID, or a URI  *)
(* that does not parse.  Key material, variants, masks and CRC types are  *)
(* abstracted to whether the rule's parameters pass the checks.           *)
(***************************************************************************)
EXTENDS Naturals, Sequences, FiniteSets, SequencesExt

CONSTANTS
  Rules,        \* the policy rules a configuration may contain
  Patterns,     \* the EID patterns (that parse) the rules use
  MaxRules,     \* bound on the number of rules of a configuration
  SecSrcEids,   \* security sources of the looked-up ASBs
  BundleEids,   \* bundle sources and final destinations looked up
  LookupCtxs,   \* the processing-context caches the lookup callers use
  None

Roles == {"SOURCE", "VERIFIER", "ACCEPTOR"}
PAYLOAD == 1       \* BPV7_BLOCK_TYPE_CODE::PAYLOAD
INTEGRITY == 11    \* BPV7_BLOCK_TYPE_CODE::INTEGRITY

\* EID patterns.
AnyEid == [kind |-> "any"]
NodeWild(n) == [kind |-> "node", node |-> n]
Exact(e) == [kind |-> "eid", eid |-> e]

\* A policy of the trie: which halves were merged in, their target block
\* types and failure event sets, the flags ValidateAndFinalize derives, and
\* (ghost) the rule that supplied each half.
DefaultPolicy ==
  [doIntegrity |-> FALSE, doConfidentiality |-> FALSE,
   bibTargets |-> {}, bcbTargets |-> {},
   bcbTargetsPayloadBlock |-> FALSE, bibMustBeEncrypted |-> FALSE,
   intEvents |-> None, confEvents |-> None,
   intRule |-> None, confRule |-> None]

VARIABLES
  filters,   \* trie nodes created: paths of length 1 .. 3
  policies,  \* [path of length 3 -> [role -> policy or None]]
  config,    \* the rules of the configuration being loaded
  ruleI,     \* next rule LoadFromConfig processes
  pc,        \* "load", "loaded" or "failed"
  cache,     \* context -> PolicySearchCache: last query and its result
  answer     \* ghost: the last query a lookup answered, and its answer

vars == <<filters, policies, config, ruleI, pc, cache, answer>>

-----------------------------------------------------------------------------
(* Policy filter trie                                                      *)

\* Internal_AddPolicyFilterToThisFilter returns NULL for a URI that does
\* not parse.
ParsesAsIpn(pat) == pat.kind # "bad"

\* Mutation: a level is created before its URI is parsed.
CreatedPrefixesUnparsed(path) == {SubSeq(path, 1, i) : i \in 1 .. 3}

\* CreateOrGetNewPolicy: the three levels are created in turn; the first
\* pattern that does not parse stops it after creating the levels before.
CreatedPrefixes(path) ==
  LET ok == {i \in 1 .. 3 : \A j \in 1 .. i : ParsesAsIpn(path[j])}
  IN {SubSeq(path, 1, i) : i \in ok}

\* Internal_GetPolicyFilterFromThisFilter: exact EID first, then the node
\* wildcard map, then the any-EID child; None if the node has none of them.
ChildFor(prefix, eid) ==
  LET cands == <<Exact(eid), NodeWild(eid[1]), AnyEid>>
      present == {i \in 1 .. 3 : Append(prefix, cands[i]) \in filters}
  IN IF present = {} THEN None
     ELSE Append(prefix, cands[CHOOSE i \in present :
                                 \A j \in present : i <= j])

\* FindPolicy: descend the three levels, then the role's policy.
FindPolicy(q) ==
  LET l1 == ChildFor(<<>>, q.secSrc)
      l2 == IF l1 = None THEN None ELSE ChildFor(l1, q.bundleSrc)
      l3 == IF l2 = None THEN None ELSE ChildFor(l2, q.bundleDest)
  IN IF l3 = None THEN None ELSE policies[l3][q.role]

-----------------------------------------------------------------------------
(* LoadFromConfig                                                          *)

\* BpSecPolicy::ValidateAndFinalize.
ValidateAndFinalize(p) ==
  LET payload == p.doConfidentiality /\ PAYLOAD \in p.bcbTargets
      must == p.doIntegrity /\ p.doConfidentiality
                /\ p.bcbTargets \cap p.bibTargets # {}
  IN [ok |-> ~must \/ INTEGRITY \in p.bcbTargets,
      bcbTargetsPayloadBlock |-> payload, bibMustBeEncrypted |-> must]

\* policyToCopy: a default policy with the rule's targets for its service.
PolicyToCopy(r) ==
  IF r.service = "confidentiality"
    THEN [DefaultPolicy EXCEPT !.bcbTargets = r.targets]
    ELSE [DefaultPolicy EXCEPT !.bibTargets = r.targets]

\* The merge of one rule's half into an existing (or new) policy; the two
\* derived flags are overwritten with policyToCopy's.
Merge(p, r, i, v) ==
  LET base == IF p = None THEN DefaultPolicy ELSE p
      half == IF r.service = "confidentiality"
                THEN [base EXCEPT !.doConfidentiality = TRUE,
                                  !.bcbTargets = r.targets,
                                  !.confEvents = r.events, !.confRule = i]
                ELSE [base EXCEPT !.doIntegrity = TRUE,
                                  !.bibTargets = r.targets,
                                  !.intEvents = r.events, !.intRule = i]
  IN [half EXCEPT !.bcbTargetsPayloadBlock = v.bcbTargetsPayloadBlock,
                  !.bibMustBeEncrypted = v.bibMustBeEncrypted]

\* Mutation: the duplicate-service check is missing.
DuplicateServiceUnchecked(p, r) == FALSE

\* The duplicate-service check on a policy that already existed.
DuplicateService(p, r) ==
  /\ p # None
  /\ IF r.service = "confidentiality" THEN p.doConfidentiality
                                      ELSE p.doIntegrity

\* The nested loops over bundle sources and final destinations on the
\* state [ok, filters, policies], stopping at the first failure.
RECURSIVE MergePairs(_, _, _, _, _)
MergePairs(r, i, v, pairs, st) ==
  IF pairs = <<>> \/ ~st.ok THEN st
  ELSE
   LET path == <<r.secSrc>> \o Head(pairs)
       parsed == \A j \in 1 .. 3 : ParsesAsIpn(path[j])
       st1 == [st EXCEPT !.filters = @ \cup CreatedPrefixes(path)]
       p == IF parsed THEN st.policies[path][r.role] ELSE None
   IN IF ~parsed \/ DuplicateService(p, r) THEN [st1 EXCEPT !.ok = FALSE]
      ELSE MergePairs(r, i, v, Tail(pairs),
             [st1 EXCEPT !.policies[path][r.role] = Merge(p, r, i, v)])

\* The checks that reject a rule before any of its pairs is merged: a
\* parameter of the wrong service or with an invalid value, a key file
\* that does not load, no key or two keys (paramsOk), and the
\* ValidateAndFinalize of a SOURCE rule's policyToCopy.
RuleRejected(r, v) == ~r.paramsOk \/ (r.role = "SOURCE" /\ ~v.ok)

\* One iteration of the rules loop of LoadFromConfig: the role, service,
\* parameter and key checks (paramsOk), ValidateAndFinalize of a SOURCE
\* rule's policyToCopy, then the merge loop.
LoadRule ==
  LET r == config[ruleI]
      v == ValidateAndFinalize(PolicyToCopy(r))
      st == MergePairs(r, ruleI, v, r.pairs,
                       [ok |-> TRUE, filters |-> filters, policies |-> policies])
  IN
  /\ pc = "load"
  /\ ruleI <= Len(config)
  /\ IF RuleRejected(r, v)
       THEN /\ pc' = "failed"
            /\ UNCHANGED <<filters, policies, ruleI>>
       ELSE /\ filters' = st.filters
            /\ policies' = st.policies
            /\ ruleI' = ruleI + 1
            /\ pc' = IF st.ok THEN "load" ELSE "failed"
  /\ UNCHANGED <<config, cache, answer>>

\* The loop ends: LoadFromConfig returns true.
LoadDone ==
  /\ pc = "load"
  /\ ruleI > Len(config)
  /\ pc' = "loaded"
  /\ UNCHANGED <<filters, policies, config, ruleI, cache, answer>>

-----------------------------------------------------------------------------
(* FindPolicyWithCacheSupport                                              *)

\* The search caches of a BpSecPolicyProcessingContext and the role each
\* call site looks up through it.
CtxRole == [BcbAcceptor |-> "ACCEPTOR", BcbVerifier |-> "VERIFIER",
            BibAcceptor |-> "ACCEPTOR", BibVerifier |-> "VERIFIER",
            Source |-> "SOURCE"]

Queries == [secSrc : SecSrcEids, bundleSrc : BundleEids,
            bundleDest : BundleEids, role : Roles]

\* A fresh PolicySearchCache holds role RESERVED_MAX_ROLE_TYPES, which no
\* query has.
EmptyCache == [q |-> None, found |-> None]

\* Mutation: the cache key comparison leaves out the final destination.
CacheHitIgnoringDest(c, q) ==
  /\ c.q # None
  /\ c.q.role = q.role /\ c.q.secSrc = q.secSrc /\ c.q.bundleSrc = q.bundleSrc

\* The cache's key comparison: role and the three EIDs.
CacheHit(c, q) == c.q = q

\* FindPolicyWithCacheSupport: the result and the cache after the call.
CachedLookup(c, q) ==
  IF CacheHit(c, q) THEN [found |-> c.found, cache |-> c]
  ELSE LET f == FindPolicy(q) IN [found |-> f, cache |-> [q |-> q, found |-> f]]

\* A caller looks a query up through one of its context's caches.
Lookup(x, q) ==
  LET l == CachedLookup(cache[x], q) IN
  /\ pc = "loaded"
  /\ q.role = CtxRole[x]
  /\ cache' = [cache EXCEPT ![x] = l.cache]
  /\ answer' = [q |-> q, result |-> l.found]
  /\ UNCHANGED <<filters, policies, config, ruleI, pc>>

-----------------------------------------------------------------------------
(* Specification                                                           *)

Paths3 == Patterns \X Patterns \X Patterns

Init ==
  /\ config \in SeqOf(Rules, MaxRules)
  /\ filters = {}
  /\ policies = [p \in Paths3 |-> [r \in Roles |-> None]]
  /\ ruleI = 1
  /\ pc = "load"
  /\ cache = [x \in LookupCtxs |-> EmptyCache]
  /\ answer = None

Next ==
  \/ LoadRule
  \/ LoadDone
  \/ \E x \in LookupCtxs, q \in Queries : Lookup(x, q)

Spec == Init /\ [][Next]_vars

-----------------------------------------------------------------------------
(* Properties                                                              *)

EventSets == {r.events : r \in Rules}
Policy == [doIntegrity : BOOLEAN, doConfidentiality : BOOLEAN,
           bibTargets : SUBSET Nat, bcbTargets : SUBSET Nat,
           bcbTargetsPayloadBlock : BOOLEAN, bibMustBeEncrypted : BOOLEAN,
           intEvents : EventSets \cup {None}, confEvents : EventSets \cup {None},
           intRule : Nat \cup {None}, confRule : Nat \cup {None}]

TypeOK ==
  /\ filters \subseteq UNION {[1 .. n -> Patterns] : n \in 1 .. 3}
  /\ policies \in [Paths3 -> [Roles -> Policy \cup {None}]]
  /\ ruleI \in 1 .. MaxRules + 1
  /\ pc \in {"load", "loaded", "failed"}
  /\ \A x \in LookupCtxs : cache[x] = EmptyCache
        \/ (cache[x].q \in Queries /\ cache[x].found \in Policy \cup {None})

\* The trie paths a rule's cross product of bundle sources and final
\* destinations covers, and whether a pattern matches an EID.
RulePaths(r) == {<<r.secSrc>> \o pr : pr \in ToSet(r.pairs)}
Matches(pat, e) ==
  \/ pat.kind = "any"
  \/ pat.kind = "node" /\ pat.node = e[1]
  \/ pat.kind = "eid" /\ pat.eid = e

\* The rules of the configuration with this role and service covering path.
Covering(path, role, svc) ==
  {i \in 1 .. Len(config) : /\ config[i].role = role
                            /\ config[i].service = svc
                            /\ path \in RulePaths(config[i])}

\* LoadFromConfig's merge loop: after a successful load every policy of
\* the trie is determined by the rules, each half of it by exactly one rule
\* of that role and service covering its path, whose targets it carries;
\* no two rules silently overwrite each other.
LoadedPoliciesFollowRules ==
  pc = "loaded" =>
    \A path \in Paths3, role \in Roles :
      LET p == policies[path][role]
          ci == Covering(path, role, "integrity")
          cc == Covering(path, role, "confidentiality")
      IN /\ (p = None) = (ci = {} /\ cc = {})
         /\ p # None =>
              /\ IF p.doIntegrity
                   THEN ci = {p.intRule} /\ p.bibTargets = config[p.intRule].targets
                   ELSE ci = {}
              /\ IF p.doConfidentiality
                   THEN cc = {p.confRule} /\ p.bcbTargets = config[p.confRule].targets
                   ELSE cc = {}

\* FindPolicy and its cache: a policy the lookup returns comes from rules
\* of the queried role whose security-source, bundle-source and
\* destination patterns all match the query, and a cached answer is what
\* an uncached lookup of the same query returns.
LookupSound ==
  answer # None =>
    /\ answer.result = FindPolicy(answer.q)
    /\ answer.result # None =>
         \E path \in Paths3 :
           /\ Matches(path[1], answer.q.secSrc)
           /\ Matches(path[2], answer.q.bundleSrc)
           /\ Matches(path[3], answer.q.bundleDest)
           /\ \A i \in {answer.result.intRule, answer.result.confRule} \ {None} :
                i \in Covering(path, answer.q.role, config[i].service)
====
