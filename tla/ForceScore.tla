----------------------------- MODULE ForceScore -----------------------------
(***************************************************************************)
(* The force requirements: the evidence gathered from the reports on disk, *)
(* the ten scores it earns, and the gate that may take an approved verdict *)
(* back (internal/requirements, cmd/qsm).                                  *)
(*                                                                         *)
(* Evidence is the set of the facts that hold: a flag that is set, or a    *)
(* count that reaches the threshold the code compares it with.  Points are *)
(* counted in quarters, which makes every score of the code an integer.    *)
(***************************************************************************)
EXTENDS Integers, FiniteSets

\* What each report file can attest.  A file that is missing or has no schema attests nothing.
Attests ==
  [cost        |-> {"CostReport", "Tokens"},
   sandbox     |-> {"SandboxReport", "HardSandbox"},
   compliance  |-> {"CompliancePassed", "SBOM"},
   benchmark   |-> {"BenchmarkPresent", "BenchmarkTasks", "BenchmarkAllPassed", "OfficialBenchmark"},
   trace       |-> {"TraceReport", "TracePassed"},
   coverage    |-> {"CoveragePassed"},
   mutation    |-> {"MutationPassed"},
   flake       |-> {"FlakePassed"},
   budget      |-> {"CostBudgetPassed"},
   ci          |-> {"CIPresent", "CIPassed", "CICI"},
   stress      |-> {"StressPassed", "StressNodes7", "StressParallel4", "LargeRepoPassed", "LargeRepo1000"},
   recovery    |-> {"RecoveryPassed", "Recovered90"},
   contributor |-> {"ContributorPassed"},
   ops         |-> {"OpsPassed", "ApprovalGate", "ArtifactRetention", "Runbook"},
   self        |-> {"SelfImprovePassed", "SelfImproveCycles3", "NoRepeatedFailure"},
   lake        |-> {"LakeReport", "LakeEnterprise", "DecisionCited"},
   routes      |-> {"RouteFresh", "HealthyRoutes", "TotalRoutes"},
   root        |-> {"AutorunState", "AuditOK", "CIWorkflow", "LaunchdPlist"},
   plan        |-> {"PlanApproved"},
   verdict     |-> {"CollapseApproved"},
   run         |-> {"RunPresent", "Nodes7", "Concurrency2", "AllNodesAccounted", "Retries",
                    "CacheItems", "TestCommands", "NoFailedTests", "NoSevere", "Simulated"}]

Sources == DOMAIN Attests
Facts   == UNION {Attests[s] : s \in Sources}

\* desk[s] is what source s attests, {} when it is not there.
ForceEvidence(desk) == UNION {desk[s] \cap Attests[s] : s \in Sources}

-----------------------------------------------------------------------------
\* The ten scores.  All(e, fs): every fact of fs is in evidence.

All(e, fs)    == fs \subseteq e
Pts(cond, n)  == IF cond THEN n ELSE 0
Cap(n, most)  == IF n > most THEN most ELSE n
HostedCI(e)   == All(e, {"CIPassed", "CICI"})
RunCounted(e) == All(e, {"RunPresent", "AllNodesAccounted"})

ScalabilityScore(e) ==
  IF "RunPresent" \notin e THEN 4
  ELSE Cap(12 + Pts("Nodes7" \in e, 6) + Pts("Concurrency2" \in e, 4)
           + Pts("AllNodesAccounted" \in e, 4)
           + Pts(All(e, {"BenchmarkPresent", "BenchmarkTasks"}), 3)
           + Pts("OfficialBenchmark" \in e, 3) + Pts(HostedCI(e), 1)
           + Pts(All(e, {"StressPassed", "StressNodes7"}), 4)
           + Pts(All(e, {"StressPassed", "StressParallel4"}), 3)
           + Pts(All(e, {"StressPassed", "LargeRepoPassed", "LargeRepo1000"}), 3), 40)

ReliabilityScore(e) ==
  Cap(Pts("PlanApproved" \in e, 8) + Pts(RunCounted(e), 8) + Pts("AutorunState" \in e, 8)
      + Pts(All(e, {"RouteFresh", "HealthyRoutes"}), 4) + Pts("CollapseApproved" \in e, 4)
      + Pts("TracePassed" \in e, 3) + Pts("FlakePassed" \in e, 3)
      + Pts("CostBudgetPassed" \in e, 2) + Pts("RecoveryPassed" \in e, 3)
      + Pts("LaunchdPlist" \in e, 2) + Pts(All(e, {"OpsPassed", "Runbook"}), 3), 38)

SelfHealingScore(e) ==
  Cap(Pts("Retries" \in e, 8) + Pts("CacheItems" \in e, 6)
      + Pts(All(e, {"TestCommands", "NoFailedTests"}), 8) + Pts("TotalRoutes" \in e, 4)
      + Pts("FlakePassed" \in e, 3) + Pts("MutationPassed" \in e, 3)
      + Pts("LakeEnterprise" \in e \/ "DecisionCited" \in e, 3)
      + Pts("RecoveryPassed" \in e, 4) + Pts("Recovered90" \in e, 2)
      + Pts(All(e, {"SelfImprovePassed", "SelfImproveCycles3", "NoRepeatedFailure"}), 2), 38)

ObservabilityScore(e) ==
  Cap(Pts("RunPresent" \in e, 8) + Pts("AllNodesAccounted" \in e, 6)
      + Pts("TestCommands" \in e, 6) + Pts("RouteFresh" \in e \/ "TotalRoutes" \in e, 4)
      + Pts("AutorunState" \in e, 4) + Pts("CostReport" \in e, 4) + Pts("TracePassed" \in e, 4)
      + Pts("CostBudgetPassed" \in e, 3) + Pts("LakeReport" \in e, 3) + Pts(HostedCI(e), 2), 38)

\* Mutant: the caps of a passed and of a missing compliance are exchanged.
SecurityScoreCapsSwapped(e) ==
  Cap(12 + Pts("NoSevere" \in e, 8) + Pts("TestCommands" \in e, 4) + Pts("AuditOK" \in e, 4)
      + Pts("SandboxReport" \in e, 2) + Pts("HardSandbox" \in e, 6) + Pts("CIWorkflow" \in e, 2)
      + Pts(All(e, {"CompliancePassed", "SBOM"}), 4) + Pts(HostedCI(e), 1),
      IF "HardSandbox" \notin e THEN 30 ELSE IF "CompliancePassed" \in e THEN 34 ELSE 39)

\* Without a hard sandbox, and without compliance, the rest counts for less.
SecurityScore(e) ==
  Cap(12 + Pts("NoSevere" \in e, 8) + Pts("TestCommands" \in e, 4) + Pts("AuditOK" \in e, 4)
      + Pts("SandboxReport" \in e, 2) + Pts("HardSandbox" \in e, 6) + Pts("CIWorkflow" \in e, 2)
      + Pts(All(e, {"CompliancePassed", "SBOM"}), 4) + Pts(HostedCI(e), 1),
      IF "HardSandbox" \notin e THEN 30 ELSE IF "CompliancePassed" \in e THEN 39 ELSE 34)

CostScore(e) ==
  Cap(8 + Pts("Simulated" \in e, 8) + Pts("CostReport" \in e, 8) + Pts("Tokens" \in e, 4)
      + Pts("TotalRoutes" \in e, 4) + Pts("HealthyRoutes" \in e, 4)
      + Pts("CostBudgetPassed" \in e, 4) + Pts(HostedCI(e), 1), 38)

MaintainabilityScore(e) ==
  Cap(16 + Pts("AuditOK" \in e, 4) + Pts("TestCommands" \in e, 4) + Pts("CoveragePassed" \in e, 3)
      + Pts("FlakePassed" \in e, 3) + Pts("MutationPassed" \in e, 3) + Pts("CIWorkflow" \in e, 2)
      + Pts("ArtifactRetention" \in e, 1) + Pts("OpsPassed" \in e, 1)
      + Pts("ContributorPassed" \in e, 3) + Pts("SelfImprovePassed" \in e, 2)
      + Pts(HostedCI(e), 3), 39)

UsabilityScore(e) ==
  Cap(16 + Pts("PlanApproved" \in e, 4) + Pts("AutorunState" \in e, 4) + Pts("TraceReport" \in e, 2)
      + Pts("BenchmarkPresent" \in e, 2) + Pts("ContributorPassed" \in e, 2)
      + Pts("ApprovalGate" \in e, 4) + Pts("OpsPassed" \in e, 3)
      + Pts("SelfImprovePassed" \in e, 2) + Pts(HostedCI(e), 2), 38)

OperationsScore(e) ==
  Cap(4 + Pts("AutorunState" \in e, 12) + Pts("RouteFresh" \in e, 4) + Pts(RunCounted(e), 4)
      + Pts("TracePassed" \in e, 4) + Pts("CIPresent" \in e, 3) + Pts(HostedCI(e), 5)
      + Pts("LaunchdPlist" \in e, 3) + Pts("RecoveryPassed" \in e, 2) + Pts("OpsPassed" \in e, 3)
      + Pts("ApprovalGate" \in e, 2) + Pts("ArtifactRetention" \in e, 1), 38)

\* Commands are passed or failed, so "all passed" is "none failed".
BusinessScore(e) ==
  Cap(4 + Pts(All(e, {"CollapseApproved", "NoFailedTests", "TestCommands"}), 8)
      + Pts("BenchmarkPresent" \in e, 8) + Pts(All(e, {"BenchmarkTasks", "BenchmarkAllPassed"}), 4)
      + Pts("OfficialBenchmark" \in e, 4) + Pts("LakeEnterprise" \in e, 3)
      + Pts("CostBudgetPassed" \in e, 2) + Pts("StressPassed" \in e, 2)
      + Pts(All(e, {"OpsPassed", "OfficialBenchmark"}), 2)
      + Pts(All(e, {"LargeRepoPassed", "LargeRepo1000"}), 1)
      + Pts("SelfImprovePassed" \in e, 2) + Pts(HostedCI(e), 3), 40)

-----------------------------------------------------------------------------
StatusFromScore(n) ==
  CASE n >= 36            -> "PASS"
    [] n >= 24 /\ n < 36  -> "PARTIAL"
    [] n >= 12 /\ n < 24  -> "LOCAL-GAP"
    [] n < 12             -> "GAP"

SecurityStatus(e) == IF "NoSevere" \in e THEN StatusFromScore(SecurityScore(e)) ELSE "FAIL"

Categories == 1 .. 10

CategoryScore(e, i) ==
  CASE i = 1 -> ScalabilityScore(e)      [] i = 2  -> ReliabilityScore(e)
    [] i = 3 -> SelfHealingScore(e)      [] i = 4  -> ObservabilityScore(e)
    [] i = 5 -> SecurityScore(e)         [] i = 6  -> CostScore(e)
    [] i = 7 -> MaintainabilityScore(e)  [] i = 8  -> UsabilityScore(e)
    [] i = 9 -> OperationsScore(e)       [] i = 10 -> BusinessScore(e)

\* Ten times the average, in quarters.
Total(e) ==
  ScalabilityScore(e) + ReliabilityScore(e) + SelfHealingScore(e) + ObservabilityScore(e)
  + SecurityScore(e) + CostScore(e) + MaintainabilityScore(e) + UsabilityScore(e)
  + OperationsScore(e) + BusinessScore(e)

\* Average 9, no category below 7: the scores decide, not the statuses.
TopTier(e) == Total(e) >= 360 /\ \A i \in Categories : CategoryScore(e, i) >= 28

CategoryStatus(e, i) == IF i = 5 THEN SecurityStatus(e) ELSE StatusFromScore(CategoryScore(e, i))

\* forceLocalCollapseGate: reliability, observability and security must not be a gap or failed.
ForceLocalCollapseGate(e) == \A i \in {2, 4, 5} : CategoryStatus(e, i) \notin {"FAIL", "GAP"}
=============================================================================
