----------------------------- MODULE Benchmarks -----------------------------
(***************************************************************************)
(* qsm benchmark and qsm self-improve (cmd/qsm): each task is a qsm run of *)
(* its own in a fresh root, judged by the files that run leaves there.     *)
(*                                                                         *)
(* A task root is a record [exit, succeeded, verdict, manifests, trace,    *)
(* cited, force]: did the child exit with status zero, did its report name *)
(* a branch that succeeded, its verdict, a record [there, approved,        *)
(* winner] whose winner is an index of manifests or zero, the validity of  *)
(* the manifest of each product in the report, whether its rooms' traces   *)
(* pass, whether 70 % of its nodes cite the cache, and its force average.  *)
(* The reports of trace, budget and manifest are made only when the child  *)
(* ended well; a new root holds none before.                               *)
(***************************************************************************)
EXTENDS Integers, Sequences, FiniteSets

\* The winner's manifest, or any valid one when there is no verdict or it names no product.
WinnerManifest(t) ==
  IF t.verdict.there /\ t.verdict.winner > 0
  THEN t.manifests[t.verdict.winner]
  ELSE \E i \in DOMAIN t.manifests : t.manifests[i]

TaskPassed(t) ==
  /\ t.exit /\ t.succeeded
  /\ t.verdict.there /\ t.verdict.approved
  /\ t.trace /\ WinnerManifest(t) /\ t.cited

PassedTasks(report)  == {i \in DOMAIN report : TaskPassed(report[i])}

-----------------------------------------------------------------------------
(***************************************************************************)
(* Self-improvement over cycles of one suite.  A cycle is a record         *)
(* [passed, force, cached]: the tasks that passed, the average force in    *)
(* tenths, and whether its lesson went into the cache; the artifact a      *)
(* lesson falls back on is no citation.                                    *)
(***************************************************************************)
Failures(cycles, task) == Cardinality({c \in DOMAIN cycles : task \notin cycles[c].passed})

\* Nothing left to improve: every task passed in every cycle.
Saturated(cycles, tasks) ==
  tasks # {} /\ \A c \in DOMAIN cycles : cycles[c].passed = tasks

Repeated(cycles, tasks) == {t \in tasks : Failures(cycles, t) > 1}

SelfImprovePassed(cycles, tasks) ==
  LET first == cycles[1]
      last  == cycles[Len(cycles)]
  IN /\ Cardinality(last.passed) >= Cardinality(first.passed)
     /\ \/ last.force - first.force >= 5
        \/ last.force >= 95
        \/ Saturated(cycles, tasks)
     /\ Repeated(cycles, tasks) = {}
     /\ \A c \in DOMAIN cycles : cycles[c].cached
=============================================================================
