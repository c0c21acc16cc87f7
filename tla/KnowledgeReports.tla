-------------------------- MODULE KnowledgeReports --------------------------
(***************************************************************************)
(* What qsm makes of the shared cache after a run: the interaction score   *)
(* (internal/lakebrain) and the promotion of repeated recipes              *)
(* (internal/lake/promotion.go).                                           *)
(*                                                                         *)
(* A node is a record [refreshed, memory, events, written, cites, wiki,    *)
(* verified]: did it refresh its view, does its memory file list items,    *)
(* did its events show new ones, did it write any, which cache items and   *)
(* wiki entries does it cite, and did its product pass.                    *)
(***************************************************************************)
EXTENDS Integers, Sequences, FiniteSets, FiniteSetsExt

Pts(cond, n) == IF cond THEN n ELSE 0

\* A cache citation is a citation of the result, an id in its metadata (used, cited, or merely
\* observed) or an id in its evidence file.
CiteKinds == {"citation", "used", "observed", "memory", "evidence"}

CacheCited(node) == node.cites # {}

DecisionCited(node) == CacheCited(node) \/ node.wiki

NodeScore(node) ==
  Pts(node.refreshed, 25) + Pts(node.memory, 20) + Pts(node.events, 10) + Pts(node.written, 25)
  + Pts(CacheCited(node), 10) + Pts(node.verified, 10)

TotalScore(nodes) == MapThenSumSet(LAMBDA i : NodeScore(nodes[i]), DOMAIN nodes)

\* At least share per cent of the nodes.
Covered(nodes, yes, share) == 100 * Cardinality(yes) >= share * Len(nodes)

EnterpriseReady(nodes, items) ==
  /\ nodes # <<>> /\ items > 0
  /\ \A i \in DOMAIN nodes : nodes[i].refreshed /\ nodes[i].written
  /\ Covered(nodes, {i \in DOMAIN nodes : DecisionCited(nodes[i])}, 70)
  /\ TotalScore(nodes) >= 75 * Len(nodes)

-----------------------------------------------------------------------------
(***************************************************************************)
(* Promotion.  The verified, confident recipes of the cache are grouped by *)
(* their content; a group of two or more is a candidate, and the strongest *)
(* few candidates are looked at.  Cache items are records [id, content,    *)
(* recipe, verified, confidence], in hundredths.  A policy is a record     *)
(* [repeat, confidence, most], zero or less meaning the default.  Which of *)
(* several equals a cut takes is not fixed.                                *)
(***************************************************************************)
Recipes(items) == {i \in items : i.recipe /\ i.verified /\ i.confidence >= 75}

Candidate(items, content) ==
  LET same == {i \in Recipes(items) : i.content = content} IN
    [content |-> content, count |-> Cardinality(same),
     sum |-> MapThenSumSet(LAMBDA i : i.confidence, same)]

Candidates(items) ==
  {c \in {Candidate(items, i.content) : i \in Recipes(items)} : c.count >= 2}

Stronger(c, d) == c.count > d.count \/ (c.count = d.count /\ c.sum > d.sum)

\* Mutant: the cut takes whatever comes first.
CutsUnsorted(S, n) == kSubset(Min({n, Cardinality(S)}), S)

\* What a cut at n may leave of S: nothing stronger is left out.
Cuts(S, n) ==
  {T \in kSubset(Min({n, Cardinality(S)}), S) : \A c \in S \ T : \A d \in T : ~Stronger(c, d)}

Default(value, default) == IF value <= 0 THEN default ELSE value

Policy(p) == [repeat |-> Default(p.repeat, 3), confidence |-> Default(p.confidence, 75),
              most |-> Default(p.most, 12)]

\* signal is the set of the contents that say more than an operational message.
Promotable(candidates, policy, signal) ==
  {c \in candidates : /\ c.count >= Policy(policy).repeat
                      /\ c.sum >= Policy(policy).confidence * c.count
                      /\ c.content \in signal}

\* What PromoteCache may promote; look is how many candidates are looked at.
Promotions(items, policy, signal, look) ==
  UNION {Cuts(Promotable(seen, policy, signal), Policy(policy).most) :
           seen \in Cuts(Candidates(items), look)}

\* PromoteCache with apply: writes is what the disk lets through, the files and then one artifact
\* after another; the report lists only what was written before the first error.
Applied(promoted, writes) ==
  [curated   |-> writes > 0 /\ promoted # {},
   artifacts |-> Min({Cardinality(promoted), Max({0, writes - 1})})]
=============================================================================
