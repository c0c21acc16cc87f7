---------------------------- MODULE RootReports ----------------------------
(***************************************************************************)
(* The report files of one root, over several runs: qsm run leaves some of *)
(* them, the report commands renew one at a time, qsm qa renews most and   *)
(* judges them, and the production-gap report reads its verdict and the    *)
(* force score (cmd/qsm).  A run may die between two files.  No file names *)
(* the run it was made from in a way any reader compares.                  *)
(*                                                                         *)
(* What a file says is left out: a judgement may fail whatever is there.   *)
(* It cannot pass when a file it needs is missing.  (The second writing of *)
(* the verdict by a run is in AutorunCycles.)                              *)
(***************************************************************************)
EXTENDS Integers, Sequences, SequencesExt, QAGates

CONSTANTS
  Quality,      \* the sequence of the reports renewed only in a hard sandbox
  Judged,       \* the profiles qa is called with
  MaxRuns,      \* bound: runs of this root
  MaxJudged,    \* bound: calls of qa
  MaxReports    \* bound: calls of the report commands

RunFiles == <<"run", "lake", "cost", "trace", "cost-budget", "verdict", "force">>

\* What is assumed of the constants: no run writes the quality reports.
ReportsAssumption ==
  /\ Judged \subseteq Profiles
  /\ Quality \in Seq(ToSet(Quality)) /\ ToSet(Quality) \cap ToSet(RunFiles) = {}

FileNames == ToSet(RunFiles) \cup ToSet(Quality) \cup {"failure"}

VARIABLES
  of,       \* the run each file was made from, 0 for a file that is not there
  run,      \* qsm run: the number of the last one, and the files it has yet to write
  qa,       \* qsm qa
  report,   \* qa_report.json
  claim,    \* the production-gap report
  reports   \* how often a report command was called

vars == <<of, run, qa, report, claim, reports>>

Init ==
  /\ of = [f \in FileNames |-> 0]
  /\ run = [nr |-> 0, todo |-> <<>>]
  /\ qa = [pc |-> "idle", calls |-> 0, profile |-> "alpha", refresh |-> FALSE, run |-> 0,
           verdict |-> 0, hard |-> FALSE, todo |-> <<>>, calm |-> FALSE]
  /\ report = [there |-> FALSE, profile |-> "alpha", passed |-> FALSE, basis |-> {}, calm |-> FALSE]
  /\ claim = [ready |-> FALSE, basis |-> {}, run |-> 0, calm |-> FALSE]
  /\ reports = 0

Production(profile) == QAProfileRank(profile) >= 3

\* History: a file that something else writes while qa is at work, or after it.
Disturbed == qa' = [qa EXCEPT !.calm = FALSE] /\ report' = [report EXCEPT !.calm = FALSE]

-----------------------------------------------------------------------------
\* qsm run, file after file.  It dies when it is never heard of again: the next one may start
\* at any time.
RunStart ==
  /\ run.nr < MaxRuns
  /\ run' = [nr |-> run.nr + 1, todo |-> RunFiles]
  /\ Disturbed
  /\ UNCHANGED <<of, claim, reports>>

RunWrite ==
  /\ run.todo # <<>>
  /\ of' = [of EXCEPT ![Head(run.todo)] = run.nr]
  /\ run' = [run EXCEPT !.todo = Tail(@)]
  /\ Disturbed
  /\ UNCHANGED <<claim, reports>>

\* qsm trace, coverage and the others, on the run report that is there now.
ReportCommand(f) ==
  /\ reports < MaxReports
  /\ reports' = reports + 1
  /\ of' = [of EXCEPT ![f] = of["run"]]
  /\ Disturbed
  /\ UNCHANGED <<run, claim>>

-----------------------------------------------------------------------------
\* Mutant: the quality reports are taken as they are.
RenewalsKeepQuality(profile, hard) == <<"trace", "lake", "failure", "cost-budget", "force">>

\* What qa renews, in its order, once it knows whether the sandbox is hard.
Renewals(profile, hard) ==
  <<"trace", "lake", "failure", "cost-budget">>
  \o (IF Production(profile) /\ hard THEN Quality ELSE <<>>)
  \o <<"force">>

\* runQA reads the run report and the verdict once, and probes the sandbox when it refreshes.
\* (Without a refresh the sandbox report on file says what it says.)
QABegin(profile, refresh, hard) ==
  /\ qa.pc = "idle" /\ qa.calls < MaxJudged
  /\ qa' = [pc |-> "renew", calls |-> qa.calls + 1, profile |-> profile, refresh |-> refresh,
            run |-> of["run"], verdict |-> of["verdict"], hard |-> hard,
            todo |-> IF refresh /\ of["run"] > 0 THEN Renewals(profile, hard) ELSE <<>>,
            calm |-> run.nr > 0 /\ run.todo = <<>>]
  /\ UNCHANGED <<of, run, report, claim, reports>>

\* Some are built from the run report read at the start, the others from the one on file now.
QARenew ==
  /\ qa.pc = "renew" /\ qa.todo # <<>>
  /\ LET f == Head(qa.todo) IN
       of' = [of EXCEPT ![f] = IF f \in {"lake", "failure", "force"} THEN qa.run ELSE of["run"]]
  /\ qa' = [qa EXCEPT !.todo = Tail(@)]
  /\ UNCHANGED <<run, report, claim, reports>>

\* The files the required gates of a profile ask for, with the run each of them was made from.
GateFiles(profile) ==
  {"force"} \cup (IF QAProfileRank(profile) >= 2 THEN {"cost", "lake"} ELSE {})
            \cup (IF Production(profile) THEN {"trace", "failure", "cost-budget"} \cup ToSet(Quality)
                                         ELSE {})

Basis == {of[f] : f \in GateFiles(qa.profile)} \cup {qa.run}
         \cup (IF QAProfileRank(qa.profile) >= 2 THEN {qa.verdict} ELSE {})

QAJudge(passed) ==
  /\ qa.pc = "renew" /\ qa.todo = <<>>
  /\ passed => 0 \notin Basis /\ (Production(qa.profile) => qa.hard)
  /\ report' = [there |-> TRUE, profile |-> qa.profile, passed |-> passed, basis |-> Basis,
                calm |-> qa.calm /\ qa.refresh]
  /\ qa' = [qa EXCEPT !.pc = IF Production(qa.profile) THEN "gap" ELSE "idle"]
  /\ UNCHANGED <<of, run, claim, reports>>

\* buildProductionGapReport, at the end of a production-grade qa and as a command of its own.
Claims ==
  claim' = [ready |-> /\ report.there /\ report.profile = "production" /\ report.passed
                      /\ of["force"] > 0,
            basis |-> report.basis \cup {of["force"]}, run |-> of["run"], calm |-> report.calm]

QAGap ==
  /\ qa.pc = "gap"
  /\ Claims
  /\ qa' = [qa EXCEPT !.pc = "idle"]
  /\ UNCHANGED <<of, run, report, reports>>

GapCommand ==
  /\ report.there
  /\ Claims
  /\ UNCHANGED <<of, run, qa, report, reports>>

Next ==
  \/ RunStart \/ RunWrite
  \/ \E f \in {"trace", "failure", "cost-budget"} \cup ToSet(Quality) : ReportCommand(f)
  \/ \E profile \in Judged, refresh \in BOOLEAN, hard \in BOOLEAN : QABegin(profile, refresh, hard)
  \/ QARenew
  \/ \E passed \in BOOLEAN : QAJudge(passed)
  \/ QAGap \/ GapCommand

Spec == Init /\ [][Next]_vars

-----------------------------------------------------------------------------
\* A root is called ready for production on the evidence of one run, the one on file, provided
\* that run had written all its files when a refreshing qa began and nothing else has written
\* since: no report of an earlier run is left among what the gates read, although qa renews the
\* quality reports only in a hard sandbox and never the verdict and the costs.
ReadyOnOneRun == claim.ready /\ claim.calm => claim.basis = {claim.run}
=============================================================================
