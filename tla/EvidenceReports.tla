--------------------------- MODULE EvidenceReports ---------------------------
(***************************************************************************)
(* The reports that qsm builds about a run and about itself (cmd/qsm):     *)
(* trace, cost budget, coverage, flake, mutation, stress, recovery,        *)
(* sandbox probe, compliance, contributor smoke and operations readiness.  *)
(* Each operator is the verdict "passed" of one report.                    *)
(*                                                                         *)
(* A branch is a record [ok, product, report, commands, copy]: whether it  *)
(* succeeded, whether it names a product, its test report ("none",         *)
(* "failed", "passed"), the commands of that report, and what becomes of   *)
(* the product in the mutation room.  A command is a record [kind, origin, *)
(* runs, copied]: the results of running it again in the room, and its     *)
(* result on the mutated copy.  TRUE is exit status zero; a command that   *)
(* cannot be run or is timed out has a status other than zero.             *)
(***************************************************************************)
EXTENDS Integers, Sequences, FiniteSets

\* A branch whose reports ask for it: built, tested, linted and without an error.
Successful(branches) == {b \in branches : b.ok}

-----------------------------------------------------------------------------
(***************************************************************************)
(* Trace.  A line of a room's trace is a record [type, name, inside]; a    *)
(* line that is not JSON has type "torn", and one that is blank is passed  *)
(* over.  The trace grows over all attempts of a branch.                   *)
(***************************************************************************)
LinesOf(lines, type, name) ==
  {i \in DOMAIN lines : lines[i].type = type /\ lines[i].name = name}

Unmatched(lines, name) ==
  Cardinality(LinesOf(lines, "start", name)) > Cardinality(LinesOf(lines, "end", name))

TraceRoomPassed(t) ==
  /\ t.there
  /\ \A i \in DOMAIN t.lines :
       /\ t.lines[i].type # "torn"
       /\ t.lines[i].type = "start" => t.lines[i].inside
       /\ ~Unmatched(t.lines, t.lines[i].name)

\* The rooms of the successful branches; there must be one.
TracePassed(rooms) == rooms # {} /\ \A t \in rooms : TraceRoomPassed(t)

-----------------------------------------------------------------------------
(***************************************************************************)
(* Cost budget.  A setting of zero or less, or none, means the default     *)
(* number of tokens and half an hour, and no limit on the money.  The      *)
(* duration is set in microseconds (finer ones act like these) and cut     *)
(* down to milliseconds, in which the run is measured.  A limit of zero    *)
(* is none, on the time too.                                               *)
(***************************************************************************)
Limits(set) ==
  [tokens     |-> IF set.tokens > 0 THEN set.tokens ELSE 250000,
   duration   |-> IF set.duration > 0 THEN set.duration \div 1000 ELSE 1800000,
   usd        |-> IF set.usd > 0 THEN set.usd ELSE 0,
   perSuccess |-> IF set.perSuccess > 0 THEN set.perSuccess ELSE 0]

CostBudgetPassed(cost, duration, set) ==
  LET limit == Limits(set) IN
    /\ cost.there
    /\ cost.tokens <= limit.tokens
    /\ limit.duration > 0 => duration <= limit.duration
    /\ limit.usd > 0 => cost.usd <= limit.usd
    /\ limit.perSuccess > 0 => cost.perSuccess <= limit.perSuccess

-----------------------------------------------------------------------------
(***************************************************************************)
(* Coverage.  The command comes from the first manifest that can be read   *)
(* and names one, else from the type of product.                           *)
(***************************************************************************)
ManifestCommandByKind(manifests, kind) ==
  {i \in DOMAIN manifests : manifests[i].readable /\ kind \in manifests[i].kinds}

CoverageItemPassed(b) ==
  /\ ManifestCommandByKind(b.manifests, "coverage") # {} \/ b.type \in {"go", "python", "node"}
  /\ b.covered

CoveragePassed(branches) ==
  LET items == {b \in Successful(branches) : b.product} IN
    items # {} /\ \A b \in items : CoverageItemPassed(b)

-----------------------------------------------------------------------------
\* Flake: every test and browser command of every branch with a report, run again and again.
Proving(cmd) == cmd.kind \in {"test", "browser"}

Repeated(b) == {i \in DOMAIN b.commands : Proving(b.commands[i])}

Deterministic(cmd) == \A i \in DOMAIN cmd.runs : cmd.runs[i]

FlakePassed(branches) ==
  LET tested == {b \in branches : b.report # "none" /\ b.product} IN
    /\ \E b \in tested : Repeated(b) # {}
    /\ \A b \in tested : \A i \in Repeated(b) : Deterministic(b.commands[i])

-----------------------------------------------------------------------------
(***************************************************************************)
(* Mutation.  A copy of the product alone is changed and one proving       *)
(* command, the manifest's first, is run on it.  Whatever makes it fail    *)
(* counts as having caught the change.                                     *)
(***************************************************************************)
FirstOf(S) == CHOOSE i \in S : \A j \in S : i <= j

\* Mutant: any command of the manifest will do.
AnyManifestCommand(b) ==
  LET own == {i \in DOMAIN b.commands : b.commands[i].origin = "manifest"} IN
    b.commands[FirstOf(IF own # {} THEN own ELSE Repeated(b))]

FirstRequiredTestCommand(b) ==
  LET own == {i \in Repeated(b) : b.commands[i].origin = "manifest"} IN
    b.commands[FirstOf(IF own # {} THEN own ELSE Repeated(b))]

\* A copy is "failed", "unchanged" (no operator matched) or "mutated".
Caught(b) ==
  b.copy = "mutated" /\ Repeated(b) # {} /\ ~FirstRequiredTestCommand(b).copied

MutationPassed(branches) ==
  LET eligible == {b \in branches : b.report = "passed" /\ b.product} IN
    eligible # {} /\ \A b \in eligible : Caught(b)

-----------------------------------------------------------------------------
\* Stress: the number of nodes and of those at work together, and the verdict over their results.
StressNodes(nodes) == IF nodes <= 0 THEN 1 ELSE nodes

StressParallel(nodes, parallel) ==
  IF parallel <= 0 \/ parallel > StressNodes(nodes) THEN StressNodes(nodes) ELSE parallel

\* A large repository of no files is not built, and the report passes without it.
StressPassed(results, largeFiles, largeResult) ==
  (\A i \in DOMAIN results : results[i]) /\ (largeFiles > 0 => largeResult)

\* Recovery: a command that must fail, then one that must not.
RecoveryPassed(failing, succeeding) == ~failing /\ succeeding

-----------------------------------------------------------------------------
(***************************************************************************)
(* The sandbox report.  A machine is a record [docker, daemon, sbx, image] *)
(* and four observations of a probe, the set of those that came out well.  *)
(***************************************************************************)
ProbeGoals == {"inside", "outside", "network", "timeout"}

ResolveBackend(backend, machine) ==
  IF backend = "auto" THEN IF machine.daemon THEN "docker" ELSE "room" ELSE backend

Probe(backend, machine, seen) ==
  LET resolved == ResolveBackend(backend, machine) IN
    [backend |-> resolved,
     valid   |-> resolved = "room" \/ machine.daemon,
     passed  |-> resolved = "docker" /\ machine.daemon /\ ProbeGoals \subseteq seen]

\* Without a probe, the sandbox tool being there is enough to be called hard.
Inspect(machine) == [hard |-> machine.sbx, probe |-> [backend |-> "none", valid |-> FALSE, passed |-> FALSE]]

InspectWithProbe(backend, machine, seen) ==
  LET probe == Probe(backend, machine, seen) IN [hard |-> probe.passed, probe |-> probe]

\* Compliance asks for the probe, the policy and an inventory.
CompliancePassed(report, policy, inventory) ==
  /\ report.hard /\ report.probe.valid /\ report.probe.passed
  /\ policy = {"network_none", "non_root_user", "drop_caps", "read_only_root"}
  /\ inventory

-----------------------------------------------------------------------------
\* Contributor smoke and operations readiness: lists of checks, all of which must pass.
ContributorChecks == {"go-test", "go-build", "readme", "production-ci-workflow",
                      "sandbox-dockerfile", "omni-sandbox-dockerfile", "ci-artifact-retention"}

ContributorPassed(checks) == ContributorChecks \subseteq checks

OpsChecks == {"ci-workflow", "ci-artifact-retention", "ci-production-qa", "ci-omni-alpha-qa",
              "ci-omni-image", "launchd-plist", "autorun-state", "operational-runbook",
              "runbook-approval-gates", "runbook-disaster-recovery", "production-gap-report"}

\* A gap report is called untruthful when both readiness flags are set beside failed gates.
OpsPassed(checks, gap) ==
  /\ OpsChecks \subseteq checks
  /\ ~(gap.production /\ gap.topTier /\ gap.failedGates)
=============================================================================
