------------------------------ MODULE PlanGate ------------------------------
(***************************************************************************)
(* The planning gate of a run (internal/planning), the validation and the  *)
(* doctor of a real harness (internal/runtime/config.go), harness          *)
(* readiness and the real-harness smoke (cmd/qsm).                         *)
(*                                                                         *)
(* A host is a record [tools, broken, files, url, key, live, imports]: the *)
(* commands on the path, those of them that fail, the files that exist,    *)
(* whether the router has an address and a key and answers, and the Python *)
(* packages that can be imported.                                          *)
(***************************************************************************)
EXTENDS FiniteSets

Modes == {"simulated", "opencode", "langchain"}

Tools == {"go", "node", "python", "playwright", "git"}

\* checkCommand: available, missing or there and failing.
CheckCommand(tool, host) ==
  IF tool \notin host.tools THEN "missing" ELSE IF tool \in host.broken THEN "unknown" ELSE "available"

\* harnessMaterial: the files the plan asks for.
HarnessMaterial(mode) ==
  CASE mode = "langchain" -> {"langchain-runner", "wiki"}
    [] mode = "opencode"  -> {"opencode-cli", "opencode-config", "wiki"}
    [] mode \notin {"langchain", "opencode"} -> {}

\* Playwright alone is optional; a tool that is optional and missing only warns.
Blockers(mode, host, routesFresh) ==
  {t \in Tools \ {"playwright"} : CheckCommand(t, host) # "available"}
  \cup (HarnessMaterial(mode) \ host.files)
  \cup (IF mode \in Modes THEN {} ELSE {"harness-mode"})
  \cup (IF mode # "simulated" /\ ~routesFresh THEN {"route-health"} ELSE {})

Warnings(host) == {t \in {"playwright"} : CheckCommand(t, host) # "available"}

\* Generate.  Ten artifacts go to the lake; three of them are marked as verified only if the plan
\* is approved, the others whatever the verdict.
PlanApproved(mode, host, routesFresh) == Blockers(mode, host, routesFresh) = {}

VerifiedOnlyIfApproved ==
  {"materials_quality_audit", "resource_freshness_report", "chop_readiness_verdict"}

-----------------------------------------------------------------------------
\* ValidateForRealHarness, ...
Validated(mode, host) ==
  \/ mode = "simulated"
  \/ /\ host.url /\ host.key /\ "wiki" \in host.files
     /\ \/ mode = "opencode" /\ {"opencode-cli", "opencode-config"} \subseteq host.files
        \/ /\ mode = "langchain" /\ "langchain-runner" \in host.files
           /\ {"deepagents", "langchain"} \subseteq host.imports

\* ... and readiness, which also asks the router.
Ready(mode, host) == Validated(mode, host) /\ host.url /\ host.live

ReadinessModes(mode) ==
  CASE mode \in {"opencode", "langchain"} -> {mode}
    [] mode \in {"all", ""}               -> {"opencode", "langchain"}
    [] mode \notin {"opencode", "langchain", "all", ""} -> {}

ReadinessPassed(mode, host) ==
  ReadinessModes(mode) # {} /\ \A m \in ReadinessModes(mode) : Ready(m, host)

-----------------------------------------------------------------------------
(***************************************************************************)
(* runRealHarnessSmoke.  routes says whether any were found and whether    *)
(* one of them is healthy; run is what the live run leaves behind.         *)
(***************************************************************************)
RunSucceeded(mode, run) ==
  run.exited /\ run.report /\ run.harness = mode /\ run.succeeded /\ run.accounted

SmokeReachesRun(mode, host, routes) ==
  /\ mode \in {"opencode", "langchain"}
  /\ ReadinessPassed(mode, host)
  /\ routes.found /\ routes.healthy

SmokePassed(mode, backend, host, routes, execute, run) ==
  /\ SmokeReachesRun(mode, host, routes)
  /\ backend # "room"
  /\ execute => RunSucceeded(mode, run)
=============================================================================
