--------------------------- MODULE BranchCollapse ---------------------------
(***************************************************************************)
(* From a branch of the swarm to the verdict: what the product verifier    *)
(* and the project manifest say of one product directory, the four         *)
(* auditors, and the ranking (internal/swarm/verifier.go,                  *)
(* internal/productmanifest, internal/collapse).                           *)
(*                                                                         *)
(* A branch is a record with the fields pos, build, test, lint, score (in  *)
(* tenths), verification ("none", "passed", "failed") and product.  A      *)
(* product is a record with the fields dir ("missing", "empty", "file",    *)
(* "full"), page and manifest.  Branches come in the order of the run      *)
(* report, which sorts them by position.                                   *)
(***************************************************************************)
EXTENDS Integers, Sequences, FiniteSets

\* VerifyProduct: any directory with something in it, except that a product with an index page
\* must have a document, a script surface, every local asset and well-formed scripts.  A page
\* is the set of what is wrong with it; without node the scripts go unchecked.
PageFaults == {"no html", "no script", "missing asset", "bad script"}

VerifyProduct(product, hasNode) ==
  /\ product.dir = "full"
  /\ product.page \ (IF hasNode THEN {} ELSE {"bad script"}) = {}

-----------------------------------------------------------------------------
(***************************************************************************)
(* The project manifest.  Two names are tried; the first one that can be   *)
(* opened counts, also when it is not JSON.  A manifest has a state        *)
(* ("none", "torn" or "json"), and if it is JSON, the flag version, a      *)
(* kind, the set of its expected artifacts ("there", "missing", "outside"  *)
(* when the path leaves the product), the flag tests and what it cites.    *)
(***************************************************************************)
LoadManifest(files) == IF files[1].state # "none" THEN files[1] ELSE files[2]

ManifestErrors(m) ==
  IF m.state # "json" THEN {m.state}
  ELSE (IF m.version THEN {} ELSE {"version"})
       \cup (IF m.kind \in {"static-web", "cli-tool", "go-service", "python-package",
                            "node-fullstack", "data-transform"} THEN {} ELSE {"kind"})
       \cup (IF m.artifacts = {} THEN {"no artifacts"} ELSE m.artifacts \cap {"missing", "outside"})
       \cup (IF m.tests THEN {} ELSE {"no tests"})
       \cup (IF m.cites \cap {"cache_item", "wiki_item"} # {} THEN {} ELSE {"no memory"})

ManifestPassed(files) == ManifestErrors(LoadManifest(files)) = {}

-----------------------------------------------------------------------------
\* Audit: what the four auditors of a branch approve, each leaning on the one before.
Evidence(b)        == b.build /\ b.test /\ b.lint
ProductExists(b)   == b.product.dir = "full"
ProductApproved(b) ==
  /\ Evidence(b)
  /\ IF b.verification = "none" THEN ProductExists(b) ELSE b.verification = "passed"

Audit(b) ==
  {[pos |-> b.pos, auditor |-> a,
    approved |-> CASE a \in {"code", "security"} -> Evidence(b)
                   [] a = "product"              -> ProductApproved(b)
                   [] a = "product-manifest"     -> ProductApproved(b)
                                                    /\ ManifestPassed(b.product.manifest)] :
   a \in {"code", "security", "product", "product-manifest"}}

-----------------------------------------------------------------------------
\* Collapse.  A position nobody objects to has passed the audit; a pass is worth two tenths,
\* and no score is above ten.
AuditPassed(b, findings) == \A f \in findings : f.pos = b.pos => f.approved

Ranked(b, findings) ==
  LET passed == AuditPassed(b, findings)
      score  == b.score + (IF passed THEN 2 ELSE 0)
  IN [branch |-> b, audit |-> passed, score |-> IF score > 10 THEN 10 ELSE score]

\* Mutant: the score goes before the audit.
BeforeByScore(r, s) ==
  \/ r.score > s.score
  \/ r.score = s.score /\ r.audit /\ ~s.audit

Before(r, s) ==
  \/ r.audit /\ ~s.audit
  \/ r.audit = s.audit /\ r.score > s.score

\* The stable sort: an entry stands behind those that go before it and its equals listed earlier.
Ranking(results, findings) ==
  LET entry(i)  == Ranked(results[i], findings)
      place(i)  == 1 + Cardinality({j \in DOMAIN results :
                        \/ Before(entry(j), entry(i))
                        \/ j < i /\ ~Before(entry(i), entry(j))})
  IN [n \in DOMAIN results |-> entry(CHOOSE i \in DOMAIN results : place(i) = n)]

Collapse(results) ==
  LET findings == UNION {Audit(results[i]) : i \in DOMAIN results}
      ranking  == Ranking(results, findings)
      winner   == ranking[1]
  IN [winner |-> winner, ranked |-> ranking,
      approved |-> Evidence(winner.branch) /\ winner.audit]
=============================================================================
