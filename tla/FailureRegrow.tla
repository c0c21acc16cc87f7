---------------------------- MODULE FailureRegrow ----------------------------
(***************************************************************************)
(* Failure analysis (internal/failure): which branches of a run are        *)
(* analysed, the class of each failure, the checkpoint its regrowth starts *)
(* from, and the verdict of the report; and how many failures qsm regrow   *)
(* takes from it (cmd/qsm).                                                *)
(*                                                                         *)
(* A result is a record [pos, gates, error, report, signals, room]: gates  *)
(* is the set of "build", "test", "lint", "audit" that passed, error says  *)
(* whether it has an error text, report is "none", "clean" or "failing" (a *)
(* test report with a failed command), and signals is the set of the       *)
(* families of words found in its error, the report's errors and warnings  *)
(* and the failed commands.                                                *)
(***************************************************************************)
EXTENDS Integers, Sequences, FiniteSets

Classes == {"cost_timeout", "sandbox_tooling", "model_route", "compile_test_runtime",
            "hallucinated_files_tests", "missing_knowledge_materials", "other"}

Signals == {"timeout", "sandbox", "route", "missing", "knowledge"}

Succeeded(r) == {"build", "test", "lint"} \subseteq r.gates /\ ~r.error

-----------------------------------------------------------------------------
\* The cause: the words are asked before the commands, and the commands before the gates.
Cause(r) ==
  IF "timeout" \in r.signals                            THEN "cost_timeout"
  ELSE IF "sandbox" \in r.signals                       THEN "sandbox_tooling"
  ELSE IF "route" \in r.signals                         THEN "model_route"
  ELSE IF r.report = "failing"                          THEN "compile_test_runtime"
  ELSE IF "build" \notin r.gates \/ "missing" \in r.signals THEN "hallucinated_files_tests"
  ELSE IF ~({"test", "lint", "audit"} \subseteq r.gates) THEN "compile_test_runtime"
  ELSE "other"

\* Words of missing knowledge replace the class, and keep what the cause said of reproducing it.
Class(r) == IF "knowledge" \in r.signals THEN "missing_knowledge_materials" ELSE Cause(r)

CheckpointPhase(r) ==
  CASE Class(r) \in {"cost_timeout", "sandbox_tooling"} -> "scaffold"
    [] Class(r) = "compile_test_runtime"                -> "build"
    [] Class(r) \in {"model_route", "hallucinated_files_tests",
                     "missing_knowledge_materials", "other"} -> "plan"

\* In hundredths; a failed command is surer than a failed gate.
CauseConfidence(r) ==
  CASE Cause(r) = "cost_timeout"             -> 88
    [] Cause(r) = "sandbox_tooling"          -> 82
    [] Cause(r) = "model_route"              -> 84
    [] Cause(r) = "compile_test_runtime"     -> IF r.report = "failing" THEN 90 ELSE 76
    [] Cause(r) = "hallucinated_files_tests" -> 78
    [] Cause(r) = "other"                    -> 62

Confidence(r) ==
  IF "knowledge" \in r.signals /\ CauseConfidence(r) < 86 THEN 86 ELSE CauseConfidence(r)

\* The phases looked for, and the first that has an archive in the room ("" if none has).
Phases(r) == <<CheckpointPhase(r), "build", "scaffold", "plan">>

BestCheckpoint(r) ==
  LET found == {i \in 1..4 : Phases(r)[i] \in r.room} IN
    IF found = {} THEN "" ELSE Phases(r)[CHOOSE i \in found : \A j \in found : i <= j]

-----------------------------------------------------------------------------
\* Every recommended field but the last is fixed by the class.
Record(r) ==
  [pos |-> r.pos, class |-> Class(r), confidence |-> Confidence(r),
   reproducible |-> Cause(r) # "model_route",
   research |-> Class(r) \in {"hallucinated_files_tests", "missing_knowledge_materials"}
                \/ Cause(r) = "hallucinated_files_tests",
   regrow |-> TRUE, checkpoint |-> BestCheckpoint(r)]

\* Analyze: failed is the run report's count, unwritten the positions whose evidence, lesson or
\* lake entry could not be written.
Analyze(results, failed, unwritten) ==
  LET bad == {r \in results : ~Succeeded(r)} IN
    [failures |-> {Record(r) : r \in bad},
     passed   |-> /\ failed > 0 => Cardinality(bad) >= failed
                  /\ \A r \in bad : r.pos \notin unwritten]

\* buildRegrowReport takes recommended failures in order until it has seeded its limit.
RegrowLimit(limit) == IF limit <= 0 THEN 1 ELSE limit
=============================================================================
