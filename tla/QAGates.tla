------------------------------- MODULE QAGates -------------------------------
(***************************************************************************)
(* qsm qa: the gates of a profile over the report files of a root, the     *)
(* release report it renews on the way, and the production-gap report that *)
(* reads its outcome (cmd/qsm).                                            *)
(*                                                                         *)
(* A desk is a record of what the files say:                               *)
(*   run      [there, accounted, stale, succeeded] and results, a set of   *)
(*            branch results [ok, tested, passed, failed, weak, severe]    *)
(*   approved, cost                the verdict's approval, a cost report   *)
(*   force    [there, average, top]   the average in quarters of a tenth   *)
(*   bench    [there, suite, official, tasks], tasks [kind, passed]        *)
(*   sandbox  [there, hard, omni]                                          *)
(*   lake     [there, cited]       cited: coverage of 70 % or more         *)
(*   self     "missing", "failed" or "passed"                              *)
(*   files    for each of ReportFiles "missing", "torn", "failed", "passed"*)
(*   env      [ci, waiver]         CI, QSM_ALLOW_LOCAL_RELEASE_EVIDENCE    *)
(* A file that cannot be decoded reads as one that is not there.           *)
(***************************************************************************)
EXTENDS Integers, FiniteSets

Profiles == {"alpha", "beta", "local-production", "production", "omni-alpha"}

QAProfileRank(p) ==
  CASE p = "omni-alpha"                         -> 4
    [] p \in {"production", "local-production"} -> 3
    [] p = "beta"                               -> 2
    [] p = "alpha"                              -> 1

\* In quarters of a tenth: 9.5, 8.5, 7 and 5.
QAForceMinimum(p) ==
  CASE QAProfileRank(p) = 4 -> 380
    [] QAProfileRank(p) = 3 -> 340
    [] QAProfileRank(p) = 2 -> 280
    [] QAProfileRank(p) = 1 -> 200

\* Gates of which only production asks.
ReportFiles == {"trace", "failure", "stress", "recovery", "contributor", "coverage", "mutation",
                "flake", "compliance", "ci-release", "cost-budget"}

-----------------------------------------------------------------------------
\* A successful branch without a report is missing one; a report of a failed branch counts too.
MissingReports(results) == {r \in results : r.ok /\ ~r.tested}
TestReports(results)    == {r \in results : r.tested}

QATestEvidence(results) ==
  /\ MissingReports(results) = {}
  /\ TestReports(results) # {}
  /\ \A r \in TestReports(results) : r.passed /\ ~r.failed /\ ~r.weak

QASecurity(results) == \A r \in TestReports(results) : ~r.severe

BenchmarkPassed(b) == b.there /\ b.tasks # {} /\ \A t \in b.tasks : t.passed

OfficialLikeBenchmark(b) == BenchmarkPassed(b) /\ b.suite # "local-smoke" /\ b.official

OmniKinds == {"static-web", "cli-tool", "go-service", "python-package", "node-fullstack",
              "data-transform"}

OmniContract(b) ==
  /\ b.suite = "omni-contract" /\ Cardinality(b.tasks) = 6
  /\ \A t \in b.tasks : t.passed
  /\ {t.kind : t \in b.tasks} = OmniKinds

-----------------------------------------------------------------------------
\* The release report qa makes for itself, before its gates: only the profile and where it runs
\* are asked, not how the gates will end.
CIReleaseFromQA(profile, env) ==
  /\ QAProfileRank(profile) >= 3
  /\ env.ci \/ (profile = "local-production" /\ env.waiver)
  /\ ~(profile = "production" /\ env.waiver)

\* qsm ci-release asks which profile the last report had, not whether it passed.
CIRelease(qa, env) == qa.there /\ qa.profile = "production" /\ (env.ci \/ env.waiver)

Refreshed(desk, profile) ==
  IF desk.run.there /\ QAProfileRank(profile) >= 3
  THEN [desk EXCEPT !.files["ci-release"] =
          IF CIReleaseFromQA(profile, desk.env) THEN "passed" ELSE "failed"]
  ELSE desk

-----------------------------------------------------------------------------
\* A gate that is not required warns instead of failing.
Gate(id, ok, required) ==
  [id |-> id, required |-> required,
   status |-> CASE ok -> "PASS" [] ~ok /\ required -> "FAIL" [] ~ok /\ ~required -> "WARN"]

OmniGates(desk) ==
  {Gate("omni-contract", OmniContract(desk.bench), TRUE),
   Gate("self-improvement", desk.self = "passed", TRUE),
   Gate("omni-sandbox", desk.sandbox.omni /\ desk.sandbox.hard, TRUE),
   Gate("force-omni-threshold", desk.force.there /\ desk.force.average >= 380, TRUE)}

RunGates(desk, profile) ==
  LET beta       == QAProfileRank(profile) >= 2
      production == QAProfileRank(profile) >= 3
  IN {Gate("run-report", TRUE, TRUE),
      Gate("nodes-accounted", desk.run.accounted, TRUE),
      Gate("no-stale-rooms", ~desk.run.stale, TRUE),
      Gate("node-success", desk.run.succeeded, TRUE),
      Gate("qsm-test-report", QATestEvidence(desk.run.results), TRUE),
      Gate("security-basic", QASecurity(desk.run.results), TRUE),
      Gate("force-score", desk.force.there /\ desk.force.average >= QAForceMinimum(profile), TRUE),
      Gate("collapse-approved", desk.approved, beta),
      Gate("cost-accounting", desk.cost, beta),
      Gate("benchmark", BenchmarkPassed(desk.bench), beta),
      Gate("official-shaped-benchmark", production /\ OfficialLikeBenchmark(desk.bench), production),
      Gate("hard-sandbox", desk.sandbox.there /\ desk.sandbox.hard, production),
      Gate("lake-citations", desk.lake.there /\ desk.lake.cited, beta)}
     \cup {Gate(f, desk.files[f] = "passed", production) : f \in ReportFiles}
     \cup (IF QAProfileRank(profile) >= 4 THEN OmniGates(desk) ELSE {})

\* Mutant: the omni profile is asked for its own gates only.
GatesOmniAlone(desk, profile) ==
  IF QAProfileRank(profile) >= 4 THEN OmniGates(desk) \cup {Gate("run-report", desk.run.there, TRUE)}
  ELSE IF desk.run.there THEN RunGates(desk, profile) ELSE {Gate("run-report", FALSE, TRUE)}

Gates(desk, profile) ==
  IF desk.run.there THEN RunGates(desk, profile) ELSE {Gate("run-report", FALSE, TRUE)}

GatesPassed(gates) == \A g \in gates : ~(g.required /\ g.status = "FAIL")

\* runQA, where refresh renews the release report first.
QAPasses(desk, profile, refresh) ==
  GatesPassed(Gates(IF refresh THEN Refreshed(desk, profile) ELSE desk, profile))

-----------------------------------------------------------------------------
\* The production-gap report: qa is the report on file, [there, profile, passed].
ProductionReady(qa, force) ==
  /\ qa.there /\ qa.profile = "production" /\ qa.passed
  /\ force.there /\ force.average >= 340

TopTierReady(qa, force, smoke) ==
  /\ qa.there /\ qa.profile = "omni-alpha" /\ qa.passed
  /\ force.there /\ force.average >= 380 /\ force.top /\ smoke = "passed"
=============================================================================
