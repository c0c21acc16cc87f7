---------------------------- MODULE NodeRun_proof ----------------------------
(***************************************************************************)
(* Proofs about NodeRun for every number of retries, every timeout, every  *)
(* bound on background refreshes and every set of harness modes.           *)
(***************************************************************************)
EXTENDS NodeRun, TLAPS

-----------------------------------------------------------------------------
\* The two halves of UpdateRoomStatus, and the mutations applied in between.

\* A mutation of a room status is a room status.
LEMMA MutationType ==
  ASSUME NEW s \in Status, attempt \in Nat
  PROVE  /\ Running(s) \in Status
         /\ Failed(s) \in Status
         /\ \A x \in States : [s EXCEPT !.state = x] \in Status
         /\ Attempted(s) \in Status
         /\ Refreshed(s) \in Status
         /\ [Running(s) EXCEPT !.refresh = @ + 1] \in Status
<1>1. Running(s) \in Status /\ Failed(s) \in Status
  BY DEF Status, States, Running, Failed
<1>2. \A x \in States : [s EXCEPT !.state = x] \in Status
  BY DEF Status
<1>3. Attempted(s) \in Status
  BY <1>1 DEF Status, Attempted
<1>4. Refreshed(s) \in Status
  BY <1>3 DEF Status, Refreshed
<1>5. [Running(s) EXCEPT !.refresh = @ + 1] \in Status
  BY <1>1 DEF Status
<1>6. QED BY <1>1, <1>2, <1>3, <1>4, <1>5

\* A copy that was read is a status.
LEMMA CopyType ==
  ASSUME FileType, NEW a \in Actors, buf[a] # NoStatus
  PROVE  buf[a] \in Status
BY DEF FileType

\* Reading the file keeps the copies well formed.
LEMMA ReadType ==
  ASSUME FileType, NEW a \in Actors, ReadStatus(a), UNCHANGED <<fileVars, refreshed>>
  PROVE  FileType'
BY DEF FileType, ReadStatus, fileVars

\* Writing a status over it keeps the file and the copies well formed.
LEMMA WriteType ==
  ASSUME FileType, NEW a \in Actors, NEW s \in Status, WriteStatus(a, s),
         refreshed' \in [Actors -> Nat]
  PROVE  FileType'
<1>1. buf' \in [Actors -> Status \cup {NoStatus}]
  BY DEF FileType, WriteStatus
<1>2. status' \in Status /\ age' \in 0 .. Timeout
  BY NodeRunAssumption DEF WriteStatus, Write
<1>3. QED BY <1>1, <1>2 DEF FileType

\* The executor's one-step updates likewise.
LEMMA UpdateType ==
  ASSUME FileType, NEW s \in Status, Write(s), UNCHANGED buf,
         refreshed' \in [Actors -> Nat]
  PROVE  FileType'
BY NodeRunAssumption DEF FileType, Write

\* Counting a refresh keeps the counters natural.
LEMMA CountType ==
  ASSUME FileType, NEW a \in Actors, CountRefresh(a)
  PROVE  refreshed' \in [Actors -> Nat]
BY DEF FileType, CountRefresh

\* Facts of the current state that most steps use.
LEMMA StateFacts ==
  ASSUME TypeOK
  PROVE  /\ status \in Status
         /\ attempt \in Nat
         /\ ret \in Outcome
         /\ refreshed \in [Actors -> Nat]
         /\ FinalState(ret) \in {"succeeded", "failed"}
         /\ FinalState(ret) \in States
         /\ MaxAttempts \in Nat \ {0}
BY NodeRunAssumption DEF TypeOK, ExecType, FileType, FinalState, States, MaxAttempts

-----------------------------------------------------------------------------
\* Type correctness, one lemma per group of steps.

LEMMA InitType == Init => TypeOK
<1> SUFFICES ASSUME Init PROVE TypeOK
  OBVIOUS
<1>1. ExecType
  BY NodeRunAssumption DEF Init, ExecType, Labels, MaxAttempts, Outcome, NoOutcome, Errs
<1>2. FileType
  BY NodeRunAssumption DEF Init, FileType, Status, States
<1>3. BackgroundType
  <2>1. silent \in 0 .. SilentCap
    BY NodeRunAssumption DEF Init, SilentCap
  <2>2. QED BY <2>1 DEF Init, BackgroundType
<1>4. QED BY <1>1, <1>2, <1>3 DEF TypeOK

\* The retry loop of runOne.
LEMMA LoopType == TypeOK /\ AttemptCounter /\ LoopNext => TypeOK'
<1> SUFFICES ASSUME TypeOK, AttemptCounter, LoopNext PROVE TypeOK'
  OBVIOUS
<1> USE DEF execVars, bgVars, Goto
<1>0. /\ ExecType /\ FileType /\ BackgroundType
      /\ status \in Status /\ attempt \in Nat /\ ret \in Outcome
      /\ FinalState(ret) \in {"succeeded", "failed"} /\ FinalState(ret) \in States
      /\ refreshed \in [Actors -> Nat]
      /\ MaxAttempts \in Nat \ {0}
  BY StateFacts DEF TypeOK
<1>f. \A s \in Status : Write(s) /\ UNCHANGED <<buf, refreshed>> => FileType'
  BY <1>0, UpdateType
<1>u. UNCHANGED <<fileVars, buf, refreshed>> => FileType'
  BY <1>0 DEF FileType, fileVars
<1>b. UNCHANGED <<bgVars, cancelled, parent, silent>> => BackgroundType'
  BY <1>0 DEF BackgroundType
<1>1. CASE KitFails
  <2>1. ExecType' BY <1>0, <1>1 DEF KitFails, ExecType, Labels
  <2>2. FileType' BY <1>0, <1>1, <1>f, MutationType DEF KitFails
  <2>3. QED BY <1>1, <1>b, <2>1, <2>2 DEF KitFails, TypeOK
<1>2. CASE KitReady
  <2>1. ExecType' BY <1>0, <1>2 DEF KitReady, ExecType, Labels
  <2>2. FileType' BY <1>0, <1>2, <1>f DEF KitReady
  <2>3. QED BY <1>2, <1>b, <2>1, <2>2 DEF KitReady, TypeOK
<1>3. CASE RefreshRoomCache
  <2>1. ExecType' BY <1>0, <1>3 DEF RefreshRoomCache, ExecType, Labels
  <2>2. CASE SharedCache /\ Write(Refreshed(status)) /\ CountRefresh("exec")
    <3>1. Refreshed(status) \in Status BY <1>0, MutationType
    <3>2. refreshed' \in [Actors -> Nat] BY <1>0, <2>2, CountType DEF Actors
    <3>3. FileType' BY <1>0, <1>3, <2>2, <3>1, <3>2, UpdateType DEF RefreshRoomCache
    <3>4. QED BY <1>3, <1>b, <2>1, <3>3 DEF RefreshRoomCache, TypeOK
  <2>3. CASE UNCHANGED <<fileVars, refreshed>>
    BY <1>3, <1>b, <1>u, <2>1, <2>3 DEF RefreshRoomCache, TypeOK
  <2>4. QED BY <1>3, <2>2, <2>3 DEF RefreshRoomCache
<1>4. CASE BeginAttempt
  <2>1. ExecType'
    BY <1>0, <1>4 DEF BeginAttempt, ExecType, Labels, NoOutcome, Outcome, Errs
  <2>2. FileType' BY <1>0, <1>4, <1>f, MutationType DEF BeginAttempt
  <2>3. BackgroundType' BY <1>0, <1>4 DEF BeginAttempt, BackgroundType
  <2>4. QED BY <2>1, <2>2, <2>3 DEF TypeOK
<1>5. CASE StopSupervisor
  <2>1. ExecType' BY <1>0, <1>5 DEF StopSupervisor, ExecType, Labels
  <2>2. BackgroundType' BY <1>0, <1>5 DEF StopSupervisor, BackgroundType
  <2>3. QED BY <1>5, <1>u, <2>1, <2>2 DEF StopSupervisor, TypeOK
<1>6. CASE JoinSupervisor
  <2>1. ExecType' BY <1>0, <1>6 DEF JoinSupervisor, ExecType, Labels
  <2>2. BackgroundType' BY <1>0, <1>6 DEF JoinSupervisor, BackgroundType
  <2>3. QED BY <1>6, <1>u, <2>1, <2>2 DEF JoinSupervisor, TypeOK
<1>7. CASE JoinWatchdog
  <2>1. ret' \in Outcome BY <1>0, <1>7 DEF JoinWatchdog, Outcome, Errs
  <2>2. ExecType' BY <1>0, <1>7, <2>1 DEF JoinWatchdog, ExecType, Labels
  <2>3. QED BY <1>7, <1>u, <1>b, <2>2 DEF JoinWatchdog, TypeOK
<1>8. CASE Retry
  <2>1. ExecType' BY <1>0, <1>8 DEF Retry, ExecType, Labels
  <2>2. FileType' BY <1>0, <1>8, <1>f, MutationType DEF Retry
  <2>3. QED BY <1>8, <1>b, <2>1, <2>2 DEF Retry, TypeOK
<1>9. CASE BackoffExpires
  <2>1. attempt' \in 0 .. MaxAttempts
    BY <1>0, <1>9 DEF BackoffExpires, AttemptCounter
  <2>2. ExecType' BY <1>0, <1>9, <2>1 DEF BackoffExpires, ExecType, Labels
  <2>3. QED BY <1>9, <1>u, <1>b, <2>2 DEF BackoffExpires, TypeOK
<1>10. CASE BackoffCancelled
  <2>1. ret' \in Outcome BY <1>0, <1>10 DEF BackoffCancelled, Outcome, Errs
  <2>2. ExecType' BY <1>0, <1>10, <2>1 DEF BackoffCancelled, ExecType, Labels
  <2>3. QED BY <1>10, <1>u, <1>b, <2>2 DEF BackoffCancelled, TypeOK
<1>11. CASE Conclude
  <2>1. ExecType' BY <1>0, <1>11 DEF Conclude, ExecType, Labels
  <2>2. [status EXCEPT !.state = FinalState(ret)] \in Status
    BY <1>0, MutationType
  <2>3. FileType' BY <1>11, <1>f, <2>2 DEF Conclude
  <2>4. QED BY <1>11, <1>b, <2>1, <2>3 DEF Conclude, TypeOK
<1>12. QED
  BY <1>1, <1>2, <1>3, <1>4, <1>5, <1>6, <1>7, <1>8, <1>9, <1>10, <1>11 DEF LoopNext

\* Harness.Execute in the goroutine of runOne.
LEMMA MarkPhaseType ==
  ASSUME TypeOK, NEW from, NEW to \in Labels, MarkPhase(from, to),
         UNCHANGED <<exit, ret>>, silent' \in 0 .. SilentCap
  PROVE  TypeOK'
<1>0. ExecType /\ FileType /\ BackgroundType
  BY DEF TypeOK
<1>1. Running(buf["exec"]) \in Status
  BY <1>0, CopyType, MutationType, StateFacts DEF Actors, MarkPhase, WriteStatus
<1>2. FileType'
  BY <1>0, <1>1, WriteType, StateFacts DEF Actors, MarkPhase
<1>3. ExecType'
  BY <1>0 DEF MarkPhase, Goto, ExecType
<1>4. BackgroundType'
  BY <1>0 DEF MarkPhase, bgVars, BackgroundType
<1>5. QED BY <1>2, <1>3, <1>4 DEF TypeOK

LEMMA ReturnType ==
  ASSUME TypeOK, NEW label \in Labels, NEW o \in Outcome, Return(label, o)
  PROVE  TypeOK'
<1>1. ExecType' BY DEF TypeOK, Return, Goto, ExecType
<1>2. FileType' BY DEF TypeOK, Return, FileType, fileVars
<1>3. BackgroundType' BY DEF TypeOK, Return, BackgroundType, bgVars
<1>4. QED BY <1>1, <1>2, <1>3 DEF TypeOK

\* Steps of Execute that do not touch the file go through Return with an outcome.
LEMMA ExecuteReturns ==
  ASSUME LaunchRefused \/ LaunchSimulated \/ ReadEvidence \/ Judge
  PROVE  \E label \in {"test", "report", "returned"}, o \in Outcome : Return(label, o)
<1>1. NoOutcome \in Outcome BY DEF NoOutcome, Outcome, Errs
<1>2. \A x \in BOOLEAN, e \in Errs : [passed |-> x, err |-> e] \in Outcome
  BY DEF Outcome
<1>3. CASE LaunchRefused BY <1>2, <1>3 DEF LaunchRefused
<1>4. CASE LaunchSimulated BY <1>1, <1>4 DEF LaunchSimulated
<1>5. CASE ReadEvidence BY <1>1, <1>2, <1>5 DEF ReadEvidence, Errs
<1>6. CASE Judge
  <2> DEFINE label == IF Real THEN "report" ELSE "returned"
  <2>1. label \in {"test", "report", "returned"} OBVIOUS
  <2>2. "none" \in Errs /\ "fatal" \in Errs BY DEF Errs
  <2>3. \E o \in Outcome : Return(label, o) BY <1>2, <1>6, <2>2 DEF Judge
  <2>4. QED BY <2>1, <2>3
<1>7. QED BY <1>3, <1>4, <1>5, <1>6

LEMMA ExecuteType == TypeOK /\ ExecuteNext => TypeOK'
<1> SUFFICES ASSUME TypeOK, ExecuteNext PROVE TypeOK'
  OBVIOUS
<1>0. ExecType /\ FileType /\ BackgroundType /\ silent \in 0 .. SilentCap /\ 0 \in 0 .. SilentCap
  BY NodeRunAssumption DEF TypeOK, BackgroundType, SilentCap
<1>1. CASE ExecRead
  <2>1. FileType' BY <1>0, <1>1, ReadType DEF ExecRead, Actors
  <2>2. ExecType' BY <1>0, <1>1 DEF ExecRead, ExecType, execVars
  <2>3. BackgroundType' BY <1>0, <1>1 DEF ExecRead, BackgroundType, bgVars
  <2>4. QED BY <2>1, <2>2, <2>3 DEF TypeOK
<1>2. CASE MarkLaunch BY <1>0, <1>2, MarkPhaseType DEF MarkLaunch, Labels
<1>3. CASE MarkStart BY <1>0, <1>3, MarkPhaseType DEF MarkStart, Labels
<1>4. CASE MarkVerify BY <1>0, <1>4, MarkPhaseType DEF MarkVerify, Labels
<1>5. CASE MarkTest BY <1>0, <1>5, MarkPhaseType DEF MarkTest, Labels
<1>6. CASE LaunchRefused \/ LaunchSimulated \/ ReadEvidence \/ Judge
  BY <1>6, ExecuteReturns, ReturnType DEF Labels
<1>7. CASE Report
  <2>1. [buf["exec"] EXCEPT !.state = FinalState(ret)] \in Status
    BY <1>0, <1>7, CopyType, MutationType, StateFacts DEF Actors, Report, WriteStatus
  <2>2. FileType' BY <1>0, <1>7, <2>1, WriteType, StateFacts DEF Actors, Report
  <2>3. ExecType' BY <1>0, <1>7 DEF Report, Goto, ExecType, Labels
  <2>4. BackgroundType' BY <1>0, <1>7 DEF Report, BackgroundType, bgVars
  <2>5. QED BY <2>2, <2>3, <2>4 DEF TypeOK
<1>8. QED BY <1>1, <1>2, <1>3, <1>4, <1>5, <1>6, <1>7 DEF ExecuteNext

\* The harness process.
LEMMA ChildType == TypeOK /\ ChildNext => TypeOK'
<1> SUFFICES ASSUME TypeOK, ChildNext PROVE TypeOK'
  OBVIOUS
<1>0. /\ ExecType /\ FileType /\ BackgroundType /\ 0 \in 0 .. SilentCap
      /\ refreshed \in [Actors -> Nat] /\ attempt \in Nat
  BY NodeRunAssumption, StateFacts DEF TypeOK, SilentCap
<1>c. "child" \in Actors BY DEF Actors
<1>1. CASE ChildExits \/ ChildKilled \/ ChildDeadline
  <2>1. PICK how \in {"ok", "error", "killed", "deadline"} : ChildGone(how)
    BY <1>1 DEF ChildExits, ChildKilled, ChildDeadline
  <2>2. ExecType' BY <1>0, <2>1 DEF ChildGone, Goto, ExecType, Labels
  <2>3. FileType' BY <1>0, <2>1 DEF ChildGone, FileType, fileVars
  <2>4. BackgroundType' BY <1>0, <2>1 DEF ChildGone, BackgroundType, bgVars
  <2>5. QED BY <2>2, <2>3, <2>4 DEF TypeOK
<1>2. CASE ChildWorks
  <2>1. ExecType' BY <1>0, <1>2 DEF ChildWorks, ExecType, execVars
  <2>2. FileType' BY <1>0, <1>2 DEF ChildWorks, FileType, fileVars
  <2>3. BackgroundType' BY <1>0, <1>2 DEF ChildWorks, BackgroundType, bgVars
  <2>4. QED BY <2>1, <2>2, <2>3 DEF TypeOK
<1>3. CASE ChildRead
  <2>1. ExecType' BY <1>0, <1>3 DEF ChildRead, ExecType, execVars
  <2>2. FileType' BY <1>0, <1>c, <1>3, ReadType DEF ChildRead
  <2>3. BackgroundType' BY <1>0, <1>3 DEF ChildRead, BackgroundType, bgVars
  <2>4. QED BY <2>1, <2>2, <2>3 DEF TypeOK
<1>4. CASE ChildPatches
  <2>1. PICK s \in {Running(buf["child"]), buf["child"],
                    [buf["child"] EXCEPT !.state = "succeeded"]} : WriteStatus("child", s)
    BY <1>4 DEF ChildPatches
  <2>2. buf["child"] \in Status BY <1>0, <1>c, <2>1, CopyType DEF WriteStatus
  <2>3. s \in Status BY <1>0, <2>1, <2>2, MutationType DEF States
  <2>4. FileType' BY <1>0, <1>c, <1>4, <2>1, <2>3, WriteType DEF ChildPatches
  <2>5. ExecType' BY <1>0, <1>4 DEF ChildPatches, ExecType, execVars
  <2>6. BackgroundType' BY <1>0, <1>4 DEF ChildPatches, BackgroundType, bgVars
  <2>7. QED BY <2>4, <2>5, <2>6 DEF TypeOK
<1>5. CASE ChildRefreshes
  <2>1. buf["child"] \in Status BY <1>0, <1>c, <1>5, CopyType DEF ChildRefreshes, WriteStatus
  <2>2. [Running(buf["child"]) EXCEPT !.refresh = @ + 1] \in Status
    BY <1>0, <2>1, MutationType
  <2>3. FileType'
    BY <1>0, <1>c, <1>5, <2>2, WriteType, CountType DEF ChildRefreshes
  <2>4. ExecType' BY <1>0, <1>5 DEF ChildRefreshes, ExecType, execVars
  <2>5. BackgroundType' BY <1>0, <1>5 DEF ChildRefreshes, BackgroundType, bgVars
  <2>6. QED BY <2>3, <2>4, <2>5 DEF TypeOK
<1>6. QED BY <1>1, <1>2, <1>3, <1>4, <1>5 DEF ChildNext

\* The two background goroutines.
LEMMA BackgroundStepType == TypeOK /\ (WdNext \/ SupNext) => TypeOK'
<1> SUFFICES ASSUME TypeOK, WdNext \/ SupNext PROVE TypeOK'
  OBVIOUS
<1>0. /\ ExecType /\ FileType /\ BackgroundType
      /\ refreshed \in [Actors -> Nat] /\ attempt \in Nat
  BY StateFacts DEF TypeOK
<1>a. "wd" \in Actors /\ "sup" \in Actors BY DEF Actors
<1>e. ExecType'
  BY <1>0 DEF WdNext, WdStop, WdPoll, WdRead, WdMark, WdCancel,
              SupNext, SupStop, SupSkip, SupRead, SupRefresh, ExecType, execVars
<1>1. CASE WdStop \/ WdPoll \/ WdCancel \/ SupStop \/ SupSkip
  <2>1. FileType'
    BY <1>0, <1>1 DEF WdStop, WdPoll, WdCancel, SupStop, SupSkip, FileType, fileVars
  <2>2. BackgroundType'
    BY <1>0, <1>1 DEF WdStop, WdPoll, WdCancel, SupStop, SupSkip, BackgroundType
  <2>3. QED BY <1>e, <2>1, <2>2 DEF TypeOK
<1>2. CASE WdRead
  <2>1. FileType' BY <1>0, <1>a, <1>2, ReadType DEF WdRead
  <2>2. BackgroundType' BY <1>0, <1>2 DEF WdRead, BackgroundType
  <2>3. QED BY <1>e, <2>1, <2>2 DEF TypeOK
<1>3. CASE WdMark
  <2>1. Failed(buf["wd"]) \in Status
    BY <1>0, <1>a, <1>3, CopyType, MutationType DEF WdMark, WriteStatus
  <2>2. FileType' BY <1>0, <1>a, <1>3, <2>1, WriteType DEF WdMark
  <2>3. BackgroundType' BY <1>0, <1>3 DEF WdMark, BackgroundType
  <2>4. QED BY <1>e, <2>2, <2>3 DEF TypeOK
<1>4. CASE SupRead
  <2>1. FileType' BY <1>0, <1>a, <1>4, ReadType DEF SupRead
  <2>2. BackgroundType' BY <1>0, <1>4 DEF SupRead, BackgroundType
  <2>3. QED BY <1>e, <2>1, <2>2 DEF TypeOK
<1>5. CASE SupRefresh
  <2>1. Refreshed(buf["sup"]) \in Status
    BY <1>0, <1>a, <1>5, CopyType, MutationType DEF SupRefresh, WriteStatus
  <2>2. FileType' BY <1>0, <1>a, <1>5, <2>1, WriteType, CountType DEF SupRefresh
  <2>3. BackgroundType' BY <1>0, <1>5 DEF SupRefresh, BackgroundType
  <2>4. QED BY <1>e, <2>2, <2>3 DEF TypeOK
<1>6. QED BY <1>1, <1>2, <1>3, <1>4, <1>5 DEF WdNext, SupNext

\* Time, the caller, and stuttering.
LEMMA EnvironmentType ==
  TypeOK /\ (Tick \/ CancelParent \/ Finished \/ UNCHANGED vars) => TypeOK'
<1> SUFFICES ASSUME TypeOK, Tick \/ CancelParent \/ Finished \/ UNCHANGED vars
             PROVE  TypeOK'
  OBVIOUS
<1>0. ExecType /\ FileType /\ BackgroundType
  BY DEF TypeOK
<1>1. CASE Tick
  <2>1. age' \in 0 .. Timeout
    BY <1>0, <1>1, NodeRunAssumption DEF Tick, Least, FileType
  <2>2. silent' \in 0 .. SilentCap
    <3>1. Timeout + 2 \in Nat /\ silent \in 0 .. Timeout + 2
      BY <1>0, NodeRunAssumption DEF BackgroundType, SilentCap
    <3>2. silent' \in {silent, Least(silent + 1, Timeout + 2)}
      BY <1>1 DEF Tick, SilentCap
    <3>3. Least(silent + 1, Timeout + 2) \in 0 .. Timeout + 2
      BY <3>1 DEF Least
    <3>4. QED BY <3>1, <3>2, <3>3 DEF SilentCap
  <2>3. due' \in [{"wd", "sup"} -> BOOLEAN]
    BY <1>1 DEF Tick, WdLive, SupLive
  <2>4. ExecType' BY <1>0, <1>1 DEF Tick, ExecType, execVars
  <2>5. FileType' BY <1>0, <1>1, <2>1 DEF Tick, FileType
  <2>6. BackgroundType' BY <1>0, <1>1, <2>2, <2>3 DEF Tick, BackgroundType
  <2>7. QED BY <2>4, <2>5, <2>6 DEF TypeOK
<1>2. CASE CancelParent \/ Finished \/ UNCHANGED vars
  <2>1. ExecType'
    BY <1>0, <1>2 DEF CancelParent, Finished, vars, ExecType, execVars
  <2>2. FileType'
    BY <1>0, <1>2 DEF CancelParent, Finished, vars, FileType, fileVars
  <2>3. BackgroundType'
    BY <1>0, <1>2 DEF CancelParent, Finished, vars, BackgroundType, bgVars
  <2>4. QED BY <2>1, <2>2, <2>3 DEF TypeOK
<1>3. QED BY <1>1, <1>2

-----------------------------------------------------------------------------
\* The rest of the inductive invariant.

\* A status read from the file is not the absent copy.
LEMMA FileIsNotAbsent == ASSUME TypeOK PROVE status # NoStatus
BY DEF TypeOK, FileType, Status, States, NoStatus

LEMMA InitInductive == Init => Inductive
<1> SUFFICES ASSUME Init PROVE Inductive
  OBVIOUS
<1>1. TypeOK BY InitType
<1>2. AttemptCounter BY DEF Init, AttemptCounter
<1>3. CopyDiscipline /\ CopiesKeepRefreshes
  BY DEF Init, CopyDiscipline, CopiesKeepRefreshes, Actors
<1>4. JoinDiscipline BY DEF Init, JoinDiscipline, WdLive, SupLive
<1>5. AttemptAgreement BY DEF Init, AttemptAgreement, InAttempt
<1>6. VerdictDiscipline BY DEF Init, VerdictDiscipline
<1>7. FinalStatusAgrees BY DEF Init, FinalStatusAgrees
<1>8. NoSuccessOnFiredAttempt BY DEF Init, NoSuccessOnFiredAttempt
<1>9. RefreshCountBounds
  BY DEF Init, RefreshCountBounds, BackgroundRefreshes, Actors
<1>10. WatchdogPace BY DEF Init, WatchdogPace
<1>11. QED
  BY <1>1, <1>2, <1>3, <1>4, <1>5, <1>6, <1>7, <1>8, <1>9, <1>10 DEF Inductive

\* Outside an attempt runOne is alone with the file.
LEMMA Isolation == TypeOK /\ CopyDiscipline /\ JoinDiscipline => BackgroundOnlyInAttempt
BY DEF TypeOK, ExecType, CopyDiscipline, JoinDiscipline, BackgroundOnlyInAttempt, InAttempt,
       Labels, Marking, WdLive, SupLive, Actors

\* The loop steps, outside the life of the background goroutines.
LEMMA LoopCounter ==
  TypeOK /\ AttemptCounter /\ LoopNext => AttemptCounter'
<1> SUFFICES ASSUME TypeOK, AttemptCounter, LoopNext PROVE AttemptCounter'
  OBVIOUS
<1>1. attempt \in Nat /\ MaxAttempts \in Nat BY StateFacts
<1>2. QED
  BY <1>1 DEF AttemptCounter, LoopNext, KitFails, KitReady, RefreshRoomCache, BeginAttempt,
     StopSupervisor, JoinSupervisor, JoinWatchdog, Retry, BackoffExpires, BackoffCancelled,
     Conclude, Goto, MayRetry

LEMMA LoopCopies ==
  TypeOK /\ CopyDiscipline /\ JoinDiscipline /\ LoopNext => CopyDiscipline'
<1> SUFFICES ASSUME TypeOK, CopyDiscipline, JoinDiscipline, LoopNext PROVE CopyDiscipline'
  OBVIOUS
<1>1. CASE BeginAttempt
  BY <1>1 DEF CopyDiscipline, JoinDiscipline, BeginAttempt, Goto, InAttempt, WdLive, SupLive,
              Labels, Marking
<1>2. CASE ~BeginAttempt
  BY <1>2 DEF CopyDiscipline, LoopNext, KitFails, KitReady, RefreshRoomCache,
     StopSupervisor, JoinSupervisor, JoinWatchdog, Retry, BackoffExpires, BackoffCancelled,
     Conclude, Goto, Marking, bgVars
<1>3. QED BY <1>1, <1>2

LEMMA LoopJoins ==
  TypeOK /\ JoinDiscipline /\ LoopNext => JoinDiscipline'
<1> SUFFICES ASSUME TypeOK, JoinDiscipline, LoopNext PROVE JoinDiscipline'
  OBVIOUS
<1>1. CASE BeginAttempt
  BY <1>1 DEF JoinDiscipline, BeginAttempt, Goto, InAttempt, Labels
<1>2. CASE StopSupervisor \/ JoinSupervisor \/ JoinWatchdog
  BY <1>2 DEF JoinDiscipline, StopSupervisor, JoinSupervisor, JoinWatchdog, Goto, bgVars,
              InAttempt, Labels, WdLive, SupLive
<1>3. CASE KitFails \/ KitReady \/ RefreshRoomCache \/ Retry \/ BackoffExpires
           \/ BackoffCancelled \/ Conclude
  BY <1>3 DEF JoinDiscipline, KitFails, KitReady, RefreshRoomCache, Retry, BackoffExpires,
              BackoffCancelled, Conclude, Goto, bgVars, InAttempt, Labels, WdLive, SupLive
<1>4. QED BY <1>1, <1>2, <1>3 DEF LoopNext

LEMMA LoopAgreement ==
  TypeOK /\ BackgroundOnlyInAttempt /\ AttemptAgreement /\ LoopNext => AttemptAgreement'
<1> SUFFICES ASSUME TypeOK, BackgroundOnlyInAttempt, AttemptAgreement, LoopNext
             PROVE  AttemptAgreement'
  OBVIOUS
<1>0. status \in Status BY StateFacts
<1>1. CASE BeginAttempt
  <2>1. status'.attempt = attempt'
    BY <1>0, <1>1 DEF BeginAttempt, Write, Attempted, Running, Status
  <2>2. \A a \in Actors : buf'[a] # NoStatus => buf'[a].attempt = attempt'
    BY <1>1 DEF BeginAttempt, AttemptAgreement
  <2>3. QED BY <1>1, <2>1, <2>2 DEF BeginAttempt, AttemptAgreement, Goto
<1>2. CASE Retry
  <2>1. status'.attempt = attempt'
    BY <1>0, <1>2 DEF Retry, Write, Attempted, Running, Status
  <2>2. QED BY <1>2, <2>1 DEF Retry, AttemptAgreement, Goto
<1>3. CASE StopSupervisor \/ JoinSupervisor \/ JoinWatchdog \/ BackoffCancelled
  BY <1>3 DEF StopSupervisor, JoinSupervisor, JoinWatchdog, BackoffCancelled, Goto, fileVars,
              AttemptAgreement, InAttempt, Labels
<1>4. CASE KitFails \/ Conclude
  BY <1>4 DEF KitFails, Conclude, AttemptAgreement, InAttempt, Labels, Goto
<1>5. CASE KitReady \/ RefreshRoomCache \/ BackoffExpires
  <2>1. \A a \in Actors : buf'[a] = NoStatus
    BY <1>5 DEF KitReady, RefreshRoomCache, BackoffExpires, BackgroundOnlyInAttempt, InAttempt,
                Labels
  <2>2. QED
    BY <1>5, <2>1 DEF KitReady, RefreshRoomCache, BackoffExpires, AttemptAgreement, InAttempt,
                      Labels, Goto
<1>6. QED BY <1>1, <1>2, <1>3, <1>4, <1>5 DEF LoopNext

LEMMA LoopVerdict ==
  TypeOK /\ VerdictDiscipline /\ LoopNext => VerdictDiscipline'
<1> SUFFICES ASSUME TypeOK, VerdictDiscipline, LoopNext PROVE VerdictDiscipline'
  OBVIOUS
<1>0. ret \in Outcome BY StateFacts
<1>1. CASE JoinWatchdog
  BY <1>0, <1>1 DEF JoinWatchdog, VerdictDiscipline, Goto, bgVars, Outcome
<1>2. CASE BackoffCancelled
  BY <1>0, <1>2 DEF BackoffCancelled, VerdictDiscipline, Goto, bgVars, Outcome
<1>3. CASE ~JoinWatchdog /\ ~BackoffCancelled
  BY <1>3 DEF VerdictDiscipline, LoopNext, KitFails, KitReady, RefreshRoomCache, BeginAttempt,
     StopSupervisor, JoinSupervisor, Retry, BackoffExpires, Conclude, Goto, bgVars
<1>4. QED BY <1>1, <1>2, <1>3

LEMMA LoopResult ==
  ASSUME TypeOK, AttemptCounter, AttemptAgreement, VerdictDiscipline,
         FinalStatusAgrees, NoSuccessOnFiredAttempt, LoopNext
  PROVE  FinalStatusAgrees' /\ NoSuccessOnFiredAttempt'
<1>0. status \in Status /\ FinalState(ret) \in {"succeeded", "failed"}
  BY StateFacts
<1>1. CASE KitFails
  BY <1>0, <1>1 DEF KitFails, Goto, Write, Failed, Status, FinalStatusAgrees,
                    NoSuccessOnFiredAttempt, AttemptCounter
<1>2. CASE Conclude
  <2>1. status'.state = verdict' /\ status'.attempt = status.attempt
    BY <1>0, <1>2 DEF Conclude, Write, Status
  <2>2. FinalStatusAgrees'
    BY <1>0, <1>2, <2>1 DEF Conclude, FinalStatusAgrees, AttemptAgreement
  <2>3. NoSuccessOnFiredAttempt'
    BY <1>2 DEF Conclude, NoSuccessOnFiredAttempt, VerdictDiscipline, bgVars, FinalState, Passed
  <2>4. QED BY <2>2, <2>3
<1>3. CASE ~KitFails /\ ~Conclude
  <2>1. pc' # "done" /\ verdict' = "pending"
    BY <1>3 DEF LoopNext, KitReady, RefreshRoomCache, BeginAttempt, StopSupervisor,
       JoinSupervisor, JoinWatchdog, Retry, BackoffExpires, BackoffCancelled, Goto,
       VerdictDiscipline
  <2>2. QED BY <2>1 DEF FinalStatusAgrees, NoSuccessOnFiredAttempt
<1>4. QED BY <1>1, <1>2, <1>3

\* A loop step that writes the file adds at most the refresh it counts.
LEMMA LoopRefreshes ==
  ASSUME TypeOK, BackgroundOnlyInAttempt, CopiesKeepRefreshes, RefreshCountBounds, LoopNext
  PROVE  CopiesKeepRefreshes' /\ RefreshCountBounds'
<1>0. /\ status \in Status /\ refreshed \in [Actors -> Nat]
      /\ status.refresh \in Nat /\ refreshed["exec"] \in Nat
      /\ refreshed["sup"] \in Nat /\ refreshed["child"] \in Nat
  BY StateFacts DEF Status, Actors
<1>1. CASE RefreshRoomCache /\ Write(Refreshed(status)) /\ CountRefresh("exec")
  <2>1. status'.refresh = status.refresh + 1
    BY <1>0, <1>1 DEF Write, Refreshed, Attempted, Running, Status
  <2>2. /\ refreshed'["exec"] = refreshed["exec"] + 1
        /\ refreshed'["sup"] = refreshed["sup"]
        /\ refreshed'["child"] = refreshed["child"]
    BY <1>0, <1>1 DEF CountRefresh, Actors
  <2>3. \A a \in Actors : buf'[a] = NoStatus
    BY <1>1 DEF RefreshRoomCache, BackgroundOnlyInAttempt, InAttempt, Labels
  <2>4. QED
    BY <1>0, <2>1, <2>2, <2>3 DEF RefreshCountBounds, BackgroundRefreshes, CopiesKeepRefreshes
<1>2. CASE UNCHANGED <<buf, refreshed>> /\ status'.refresh = status.refresh
  BY <1>2 DEF CopiesKeepRefreshes, RefreshCountBounds, RefreshesOf, BackgroundRefreshes
<1>3. ASSUME ~(RefreshRoomCache /\ Write(Refreshed(status)) /\ CountRefresh("exec"))
      PROVE  UNCHANGED <<buf, refreshed>> /\ status'.refresh = status.refresh
  <2>1. Failed(status).refresh = status.refresh /\ Attempted(status).refresh = status.refresh
        /\ [status EXCEPT !.state = FinalState(ret)].refresh = status.refresh
    BY <1>0 DEF Failed, Attempted, Running, Status
  <2>2. QED
    BY <1>3, <2>1 DEF LoopNext, KitFails, KitReady, RefreshRoomCache, BeginAttempt,
       StopSupervisor, JoinSupervisor, JoinWatchdog, Retry, BackoffExpires, BackoffCancelled,
       Conclude, Write, fileVars
<1>4. QED BY <1>1, <1>2, <1>3

\* The steps of an attempt: Execute, the process, and the two goroutines.
AttemptNext == ExecuteNext \/ ChildNext \/ WdNext \/ SupNext

\* They happen inside the attempt only, and leave the loop's own variables alone.
LEMMA AttemptStep ==
  ASSUME TypeOK, CopyDiscipline, JoinDiscipline, AttemptNext
  PROVE  /\ InAttempt /\ InAttempt'
         /\ UNCHANGED <<attempt, tried, verdict>>
<1>1. CASE ExecuteNext
  <2>1. CASE ExecRead
    BY <2>1 DEF ExecRead, execVars, InAttempt, Marking, Labels
  <2>2. CASE MarkLaunch \/ MarkStart \/ MarkVerify \/ MarkTest
    BY <2>2 DEF MarkLaunch, MarkStart, MarkVerify, MarkTest, MarkPhase, Goto, InAttempt, Labels
  <2>3. CASE LaunchRefused \/ LaunchSimulated \/ ReadEvidence \/ Judge
    <3>1. pc \in {"launch", "evidence", "judge"}
      BY <2>3 DEF LaunchRefused, LaunchSimulated, ReadEvidence, Judge
    <3>2. QED BY <2>3, <3>1, ExecuteReturns DEF Return, Goto, InAttempt, Labels
  <2>4. CASE Report
    BY <2>4 DEF Report, Goto, InAttempt, Labels
  <2>5. QED BY <1>1, <2>1, <2>2, <2>3, <2>4 DEF ExecuteNext
<1>2. CASE ChildNext
  <2>1. CASE ChildExits \/ ChildKilled \/ ChildDeadline
    BY <2>1 DEF ChildExits, ChildKilled, ChildDeadline, ChildGone, Goto, InAttempt, Labels
  <2>2. CASE ChildWorks \/ ChildRead
    BY <2>2 DEF ChildWorks, ChildRead, execVars, InAttempt, Labels
  <2>3. CASE ChildPatches \/ ChildRefreshes
    BY <2>3 DEF ChildPatches, ChildRefreshes, WriteStatus, CopyDiscipline, execVars, InAttempt,
                Labels
  <2>4. QED BY <1>2, <2>1, <2>2, <2>3 DEF ChildNext
<1>3. CASE WdNext \/ SupNext
  <2>1. WdLive \/ SupLive
    BY <1>3 DEF WdNext, WdStop, WdPoll, WdRead, WdMark, WdCancel, WdLive,
                SupNext, SupStop, SupSkip, SupRead, SupRefresh, SupLive
  <2>2. UNCHANGED execVars
    BY <1>3 DEF WdNext, WdStop, WdPoll, WdRead, WdMark, WdCancel,
                SupNext, SupStop, SupSkip, SupRead, SupRefresh
  <2>3. QED BY <2>1, <2>2 DEF JoinDiscipline, InAttempt, execVars
<1>4. QED BY <1>1, <1>2, <1>3 DEF AttemptNext

\* The two things such a step can do to the file: leave it, copies being taken or
\* dropped; or write back one actor's copy, mutated.
Kept ==
  /\ UNCHANGED <<status, refreshed>>
  /\ \A a \in Actors : buf'[a] \in {buf[a], NoStatus, status}

WrittenBack(a) ==
  /\ buf[a] # NoStatus
  /\ buf' = [buf EXCEPT ![a] = NoStatus]
  /\ status'.attempt = buf[a].attempt \/ status'.attempt = attempt
  /\ \/ status'.refresh = buf[a].refresh /\ UNCHANGED refreshed
     \/ /\ status'.refresh = buf[a].refresh + 1
        /\ \E b \in {"sup", "child"} : CountRefresh(b)

LEMMA AttemptWrites ==
  ASSUME TypeOK, AttemptNext
  PROVE  Kept \/ \E a \in Actors : WrittenBack(a)
<1>0. /\ buf \in [Actors -> Status \cup {NoStatus}]
      /\ \A a \in Actors : buf[a] # NoStatus => buf[a] \in Status
  BY DEF TypeOK, FileType
<1>a. "exec" \in Actors /\ "child" \in Actors /\ "wd" \in Actors /\ "sup" \in Actors
  BY DEF Actors
<1>m. \A s \in Status :
        /\ Running(s).attempt = s.attempt /\ Running(s).refresh = s.refresh
        /\ Failed(s).attempt = s.attempt /\ Failed(s).refresh = s.refresh
        /\ Refreshed(s).attempt = attempt /\ Refreshed(s).refresh = s.refresh + 1
        /\ [Running(s) EXCEPT !.refresh = @ + 1].attempt = s.attempt
        /\ [Running(s) EXCEPT !.refresh = @ + 1].refresh = s.refresh + 1
  BY DEF Status, Running, Failed, Attempted, Refreshed
<1>1. CASE ExecRead \/ ChildRead \/ WdRead \/ SupRead
  BY <1>0, <1>1 DEF ExecRead, ChildRead, WdRead, SupRead, ReadStatus, Kept, fileVars
<1>2. CASE LaunchRefused \/ LaunchSimulated \/ ReadEvidence \/ Judge
  BY <1>2, ExecuteReturns DEF Return, Kept, fileVars
<1>3. CASE MarkLaunch \/ MarkStart \/ MarkVerify \/ MarkTest
  <2>1. /\ buf["exec"] # NoStatus /\ status' = Running(buf["exec"])
        /\ buf' = [buf EXCEPT !["exec"] = NoStatus] /\ UNCHANGED refreshed
    BY <1>3 DEF MarkLaunch, MarkStart, MarkVerify, MarkTest, MarkPhase, WriteStatus, Write
  <2>2. QED BY <1>0, <1>a, <1>m, <2>1 DEF WrittenBack
<1>4. CASE Report
  <2>1. /\ buf["exec"] # NoStatus /\ status' = [buf["exec"] EXCEPT !.state = FinalState(ret)]
        /\ buf' = [buf EXCEPT !["exec"] = NoStatus] /\ UNCHANGED refreshed
    BY <1>4 DEF Report, WriteStatus, Write
  <2>2. status'.attempt = buf["exec"].attempt /\ status'.refresh = buf["exec"].refresh
    BY <1>0, <1>a, <2>1 DEF Status
  <2>3. QED BY <1>a, <2>1, <2>2 DEF WrittenBack
<1>5. CASE ChildExits \/ ChildKilled \/ ChildDeadline
  BY <1>0, <1>5 DEF ChildExits, ChildKilled, ChildDeadline, ChildGone, Kept, fileVars
<1>6. CASE ChildWorks \/ WdStop \/ WdPoll \/ WdCancel \/ SupStop \/ SupSkip
  BY <1>6 DEF ChildWorks, WdStop, WdPoll, WdCancel, SupStop, SupSkip, Kept, fileVars
<1>7. CASE ChildPatches
  <2>1. /\ buf["child"] # NoStatus
        /\ status' \in {Running(buf["child"]), buf["child"],
                        [buf["child"] EXCEPT !.state = "succeeded"]}
        /\ buf' = [buf EXCEPT !["child"] = NoStatus] /\ UNCHANGED refreshed
    BY <1>7 DEF ChildPatches, WriteStatus, Write
  <2>2. status'.attempt = buf["child"].attempt /\ status'.refresh = buf["child"].refresh
    BY <1>0, <1>a, <2>1 DEF Status, Running
  <2>3. QED BY <1>a, <2>1, <2>2 DEF WrittenBack
<1>8. CASE ChildRefreshes
  <2>1. /\ buf["child"] # NoStatus
        /\ status' = [Running(buf["child"]) EXCEPT !.refresh = @ + 1]
        /\ buf' = [buf EXCEPT !["child"] = NoStatus] /\ CountRefresh("child")
    BY <1>8 DEF ChildRefreshes, WriteStatus, Write
  <2>2. QED BY <1>0, <1>a, <1>m, <2>1 DEF WrittenBack
<1>9. CASE WdMark
  <2>1. /\ buf["wd"] # NoStatus /\ status' = Failed(buf["wd"])
        /\ buf' = [buf EXCEPT !["wd"] = NoStatus] /\ UNCHANGED refreshed
    BY <1>9 DEF WdMark, WriteStatus, Write
  <2>2. QED BY <1>0, <1>a, <1>m, <2>1 DEF WrittenBack
<1>10. CASE SupRefresh
  <2>1. /\ buf["sup"] # NoStatus /\ status' = Refreshed(buf["sup"])
        /\ buf' = [buf EXCEPT !["sup"] = NoStatus] /\ CountRefresh("sup")
    BY <1>10 DEF SupRefresh, WriteStatus, Write
  <2>2. QED BY <1>0, <1>a, <1>m, <2>1 DEF WrittenBack
<1>11. QED
  BY <1>1, <1>2, <1>3, <1>4, <1>5, <1>6, <1>7, <1>8, <1>9, <1>10
  DEF AttemptNext, ExecuteNext, ChildNext, WdNext, SupNext

LEMMA AttemptKeepsAgreement ==
  ASSUME TypeOK, CopyDiscipline, JoinDiscipline, AttemptAgreement, AttemptNext
  PROVE  AttemptAgreement'
<1>1. /\ InAttempt /\ InAttempt' /\ attempt' = attempt /\ tried' = tried
      /\ status.attempt = attempt
      /\ pc' \notin {"settle", "backoff"}
  BY AttemptStep DEF AttemptAgreement, InAttempt
<1>0. buf \in [Actors -> Status \cup {NoStatus}]
  BY DEF TypeOK, FileType
<1>2. CASE Kept
  BY <1>1, <1>2 DEF Kept, AttemptAgreement
<1>3. CASE \E a \in Actors : WrittenBack(a)
  <2>1. PICK a \in Actors : WrittenBack(a) BY <1>3
  <2>2. status'.attempt = attempt BY <2>1 DEF WrittenBack, AttemptAgreement
  <2>3. \A b \in Actors : buf'[b] # NoStatus => buf'[b].attempt = attempt
    BY <1>0, <2>1 DEF WrittenBack, AttemptAgreement
  <2>4. QED BY <1>1, <2>2, <2>3 DEF AttemptAgreement
<1>4. QED BY <1>2, <1>3, AttemptWrites

LEMMA AttemptKeepsRefreshes ==
  ASSUME TypeOK, CopiesKeepRefreshes, RefreshCountBounds, AttemptNext
  PROVE  CopiesKeepRefreshes' /\ RefreshCountBounds'
<1>0. /\ buf \in [Actors -> Status \cup {NoStatus}]
      /\ \A a \in Actors : buf[a] # NoStatus => buf[a].refresh \in Nat
      /\ refreshed \in [Actors -> Nat]
      /\ refreshed["exec"] \in Nat /\ refreshed["sup"] \in Nat
      /\ refreshed["child"] \in Nat
  BY DEF TypeOK, FileType, Actors, Status
<1>1. CASE Kept
  BY <1>1 DEF Kept, CopiesKeepRefreshes, RefreshCountBounds, RefreshesOf, BackgroundRefreshes
<1>2. CASE \E a \in Actors : WrittenBack(a)
  <2>1. PICK a \in Actors : WrittenBack(a) BY <1>2
  <2>2. RefreshesOf(buf[a]) BY <2>1 DEF WrittenBack, CopiesKeepRefreshes
  <2>3. \A b \in Actors : buf'[b] # NoStatus => buf'[b] = buf[b] /\ buf[b] # NoStatus
    BY <1>0, <2>1 DEF WrittenBack
  <2>4. CASE status'.refresh = buf[a].refresh /\ UNCHANGED refreshed
    BY <2>2, <2>3, <2>4 DEF CopiesKeepRefreshes, RefreshCountBounds, RefreshesOf,
                            BackgroundRefreshes
  <2>5. CASE /\ status'.refresh = buf[a].refresh + 1
             /\ \E b \in {"sup", "child"} : CountRefresh(b)
    <3>1. /\ refreshed'["exec"] = refreshed["exec"]
          /\ BackgroundRefreshes' = BackgroundRefreshes + 1
          /\ BackgroundRefreshes \in Nat
      BY <1>0, <2>5 DEF CountRefresh, BackgroundRefreshes, Actors
    <3>2. buf[a].refresh \in Nat BY <1>0, <2>1 DEF WrittenBack
    <3>3. RefreshCountBounds'
      BY <1>0, <2>2, <2>5, <3>1, <3>2 DEF RefreshCountBounds, RefreshesOf
    <3>4. CopiesKeepRefreshes'
      BY <1>0, <2>3, <3>1 DEF CopiesKeepRefreshes, RefreshesOf
    <3>5. QED BY <3>3, <3>4
  <2>6. QED BY <2>1, <2>4, <2>5 DEF WrittenBack
<1>3. QED BY <1>1, <1>2, AttemptWrites

LEMMA AttemptKeepsCopies ==
  ASSUME TypeOK, CopyDiscipline, JoinDiscipline, AttemptNext
  PROVE  CopyDiscipline'
<1>0. buf \in [Actors -> Status \cup {NoStatus}] /\ status # NoStatus
  BY FileIsNotAbsent DEF TypeOK, FileType
<1>a. "exec" \in Actors /\ "child" \in Actors /\ "wd" \in Actors /\ "sup" \in Actors
  BY DEF Actors
<1>1. CASE ExecRead
  BY <1>0, <1>a, <1>1 DEF ExecRead, ReadStatus, CopyDiscipline, execVars, bgVars
<1>2. CASE LaunchRefused \/ LaunchSimulated \/ ReadEvidence \/ Judge
  <2>1. buf["exec"] = NoStatus /\ pc # "child"
    BY <1>2 DEF LaunchRefused, LaunchSimulated, ReadEvidence, Judge, CopyDiscipline, Marking
  <2>2. pc' # "child" /\ UNCHANGED <<buf, bgVars>>
    BY <1>2, ExecuteReturns DEF Return, Goto
  <2>3. QED BY <2>1, <2>2 DEF CopyDiscipline, bgVars
<1>3. CASE MarkLaunch \/ MarkStart \/ MarkVerify \/ MarkTest \/ Report
  <2>1. buf' = [buf EXCEPT !["exec"] = NoStatus] /\ UNCHANGED bgVars /\ pc # "child"
    BY <1>3 DEF MarkLaunch, MarkStart, MarkVerify, MarkTest, MarkPhase, Report, WriteStatus
  <2>2. QED BY <1>0, <1>a, <2>1 DEF CopyDiscipline, bgVars
<1>4. CASE ChildExits \/ ChildKilled \/ ChildDeadline
  BY <1>0, <1>a, <1>4 DEF ChildExits, ChildKilled, ChildDeadline, ChildGone, CopyDiscipline,
     bgVars, Marking, Goto
<1>5. CASE ChildWorks \/ ChildRead \/ ChildPatches \/ ChildRefreshes
  BY <1>0, <1>a, <1>5 DEF ChildWorks, ChildRead, ChildPatches, ChildRefreshes, ReadStatus,
     WriteStatus, CopyDiscipline, execVars, bgVars
<1>6. CASE WdStop \/ WdPoll \/ WdCancel \/ SupStop \/ SupSkip
  BY <1>6 DEF WdStop, WdPoll, WdCancel, SupStop, SupSkip, CopyDiscipline, execVars
<1>7. CASE WdRead \/ WdMark \/ SupRead \/ SupRefresh
  BY <1>0, <1>a, <1>7 DEF WdRead, WdMark, SupRead, SupRefresh, ReadStatus, WriteStatus,
     CopyDiscipline, execVars
<1>8. QED
  BY <1>1, <1>2, <1>3, <1>4, <1>5, <1>6, <1>7
  DEF AttemptNext, ExecuteNext, ChildNext, WdNext, SupNext

LEMMA AttemptKeepsJoins ==
  ASSUME TypeOK, CopyDiscipline, JoinDiscipline, AttemptNext
  PROVE  JoinDiscipline'
<1>1. InAttempt' BY AttemptStep
<1>2. pc' = "joinWd" => pc = "joinWd"
  BY ExecuteReturns DEF AttemptNext, ExecuteNext, ChildNext, WdNext, SupNext, ExecRead,
     MarkLaunch, MarkStart, MarkVerify, MarkTest, MarkPhase, Report, Return, Goto,
     ChildExits, ChildKilled, ChildDeadline, ChildGone, ChildWorks, ChildRead, ChildPatches,
     ChildRefreshes, WdStop, WdPoll, WdRead, WdMark, WdCancel, SupStop, SupSkip, SupRead,
     SupRefresh, execVars
<1>3. pc = "joinWd" => sup' = "off"
  BY ExecuteReturns DEF JoinDiscipline, AttemptNext, ExecuteNext, ChildNext, WdNext, SupNext,
     ExecRead, MarkLaunch, MarkStart, MarkVerify, MarkTest, MarkPhase, Report, Return,
     ChildExits, ChildKilled, ChildDeadline, ChildGone, ChildWorks, ChildRead, ChildPatches,
     ChildRefreshes, WdStop, WdPoll, WdRead, WdMark, WdCancel, SupStop, SupSkip, SupRead,
     SupRefresh, bgVars
<1>4. QED BY <1>1, <1>2, <1>3 DEF JoinDiscipline

LEMMA AttemptKeepsVerdict ==
  ASSUME TypeOK, CopyDiscipline, JoinDiscipline, VerdictDiscipline, FinalStatusAgrees,
         NoSuccessOnFiredAttempt, AttemptNext
  PROVE  VerdictDiscipline' /\ FinalStatusAgrees' /\ NoSuccessOnFiredAttempt'
<1>1. InAttempt /\ InAttempt' /\ verdict' = verdict
  BY AttemptStep
<1>2. pc # "done" /\ pc' # "done" /\ pc' \notin {"settle", "backoff"}
  BY <1>1 DEF InAttempt
<1>3. QED
  BY <1>1, <1>2 DEF VerdictDiscipline, FinalStatusAgrees, NoSuccessOnFiredAttempt

LEMMA AttemptKeepsCounter ==
  ASSUME TypeOK, CopyDiscipline, JoinDiscipline, AttemptCounter, AttemptNext
  PROVE  AttemptCounter'
<1>1. InAttempt /\ InAttempt' /\ attempt' = attempt
  BY AttemptStep
<1>2. QED BY <1>1 DEF AttemptCounter, InAttempt

-----------------------------------------------------------------------------
\* The pace of the watchdog.

LEMMA PaceFacts ==
  ASSUME TypeOK
  PROVE  Timeout \in Nat /\ age \in Nat /\ silent \in Nat
BY NodeRunAssumption DEF TypeOK, FileType, BackgroundType, SilentCap

LEMMA LoopPace == ASSUME TypeOK, WatchdogPace, LoopNext PROVE WatchdogPace'
<1>1. CASE BeginAttempt
  BY <1>1, PaceFacts DEF BeginAttempt, Goto, Write, WatchdogPace, Supervised
<1>2. CASE StopSupervisor
  BY <1>2, PaceFacts DEF StopSupervisor, Goto, fileVars, WatchdogPace, Supervised
<1>3. CASE JoinSupervisor \/ JoinWatchdog \/ BackoffExpires \/ BackoffCancelled
  <2>1. pc' # "child" /\ UNCHANGED <<mode, age, wd, sup, due>>
    BY <1>3 DEF JoinSupervisor, JoinWatchdog, BackoffExpires, BackoffCancelled, Goto, fileVars,
                bgVars
  <2>2. QED BY <2>1 DEF WatchdogPace, Supervised
<1>4. CASE KitFails \/ KitReady \/ RefreshRoomCache \/ Retry \/ Conclude
  <2>1. pc' # "child" /\ age' \in {0, age} /\ UNCHANGED <<mode, wd, sup, due>>
    BY <1>4 DEF KitFails, KitReady, RefreshRoomCache, Retry, Conclude, Goto, Write, fileVars,
                bgVars
  <2>2. QED BY <2>1, PaceFacts DEF WatchdogPace, Supervised
<1>5. QED BY <1>1, <1>2, <1>3, <1>4 DEF LoopNext

LEMMA AttemptPace ==
  ASSUME TypeOK, CopyDiscipline, WatchdogPace, AttemptNext
  PROVE  WatchdogPace'
<1>1. CASE ExecRead \/ ChildRead \/ ChildWorks
  <2>1. /\ UNCHANGED <<mode, pc, age, wd, sup, due>> /\ silent' \in {0, silent}
    BY <1>1 DEF ExecRead, ChildRead, ChildWorks, execVars, fileVars, bgVars
  <2>2. QED BY <2>1, PaceFacts DEF WatchdogPace, Supervised
<1>2. CASE LaunchRefused \/ LaunchSimulated \/ ReadEvidence \/ Judge
  <2>1. pc' # "child" /\ UNCHANGED <<mode, age, wd, sup, due>>
    BY <1>2, ExecuteReturns DEF Return, Goto, fileVars, bgVars
  <2>2. QED BY <2>1 DEF WatchdogPace, Supervised
<1>3. CASE MarkLaunch \/ MarkStart \/ MarkVerify \/ MarkTest \/ Report
  <2>1. /\ age' = 0 /\ UNCHANGED <<mode, wd, sup, due>>
        /\ pc' # "child" \/ silent' = 0
    BY <1>3 DEF MarkLaunch, MarkStart, MarkVerify, MarkTest, MarkPhase, Report, Goto,
                WriteStatus, Write, bgVars
  <2>2. QED BY <2>1, PaceFacts DEF WatchdogPace, Supervised
<1>4. CASE ChildExits \/ ChildKilled \/ ChildDeadline
  <2>1. pc' # "child" /\ UNCHANGED <<mode, age, wd, sup, due>>
    BY <1>4 DEF ChildExits, ChildKilled, ChildDeadline, ChildGone, Goto, fileVars, bgVars
  <2>2. QED BY <2>1 DEF WatchdogPace, Supervised
<1>5. CASE ChildPatches \/ ChildRefreshes
  <2>1. silent' = 0 /\ age' = 0 /\ UNCHANGED <<mode, pc, wd, sup, due>>
    BY <1>5 DEF ChildPatches, ChildRefreshes, WriteStatus, Write, execVars, bgVars
  <2>2. QED BY <2>1, PaceFacts DEF WatchdogPace, Supervised
<1>6. CASE WdPoll
  <2>1. /\ wd = "poll" /\ UNCHANGED <<mode, pc, age, silent, sup>>
        /\ wd' = "poll" => age < Timeout
    BY <1>6 DEF WdPoll, execVars, fileVars
  <2>2. QED BY <2>1 DEF WatchdogPace, Supervised
<1>7. CASE WdStop \/ WdRead \/ WdMark \/ WdCancel
  <2>1. wd' # "poll" /\ UNCHANGED <<mode, sup>>
    BY <1>7 DEF WdStop, WdRead, WdMark, WdCancel, execVars
  <2>2. QED BY <2>1 DEF WatchdogPace, Supervised
<1>8. CASE SupStop \/ SupSkip \/ SupRead
  <2>1. /\ UNCHANGED <<mode, pc, age, silent, wd>> /\ sup # "off"
        /\ due'["wd"] = due["wd"]
    BY <1>8 DEF SupStop, SupSkip, SupRead, execVars, fileVars, TypeOK, BackgroundType
  <2>2. QED BY <2>1 DEF WatchdogPace, Supervised
<1>9. CASE SupRefresh
  <2>1. /\ UNCHANGED <<mode, wd, due>> /\ sup # "off" /\ age' = 0
    BY <1>9 DEF SupRefresh, WriteStatus, Write, execVars
  <2>2. QED BY <2>1 DEF WatchdogPace, Supervised
<1>10. QED
  BY <1>1, <1>2, <1>3, <1>4, <1>5, <1>6, <1>7, <1>8, <1>9
  DEF AttemptNext, ExecuteNext, ChildNext, WdNext, SupNext

LEMMA EnvironmentPace ==
  ASSUME TypeOK, WatchdogPace, Tick \/ CancelParent \/ Finished \/ UNCHANGED vars
  PROVE  WatchdogPace'
<1>1. CASE Tick
  <2>1. /\ UNCHANGED <<mode, pc, wd, sup>>
        /\ age' = Least(age + 1, Timeout)
        /\ wd = "poll" => due'["wd"]
        /\ silent' \in {silent, Least(silent + 1, SilentCap)}
        /\ Prompt => ~due["wd"]
    BY <1>1 DEF Tick, execVars, WdLive
  <2>2. Least(silent + 1, SilentCap) <= silent + 1
    BY PaceFacts DEF Least, SilentCap
  <2>3. age < Timeout => age' = age + 1
    BY <2>1, PaceFacts DEF Least
  <2>4. silent' \in Nat /\ silent' <= silent + 1
    BY <2>1, <2>2, PaceFacts DEF Least, SilentCap
  <2>5. QED
    BY <2>1, <2>3, <2>4, PaceFacts DEF WatchdogPace, Supervised
<1>2. CASE CancelParent \/ Finished \/ UNCHANGED vars
  BY <1>2 DEF CancelParent, Finished, vars, execVars, fileVars, bgVars, WatchdogPace, Supervised
<1>3. QED BY <1>1, <1>2

\* Time, the caller and stuttering touch nothing else the invariant speaks of but the type.
LEMMA EnvironmentKeeps ==
  ASSUME Inductive, Tick \/ CancelParent \/ Finished \/ UNCHANGED vars
  PROVE  Inductive'
<1>1. TypeOK' BY EnvironmentType DEF Inductive
<1>2. UNCHANGED <<execVars, status, buf, wd, sup, refreshed>>
  BY DEF Tick, CancelParent, Finished, vars, fileVars, bgVars
<1>3. AttemptCounter' /\ CopyDiscipline' /\ JoinDiscipline'
  BY <1>2 DEF Inductive, execVars, AttemptCounter, CopyDiscipline, JoinDiscipline, InAttempt,
     WdLive, SupLive
<1>4. AttemptAgreement' /\ VerdictDiscipline' /\ FinalStatusAgrees' /\ NoSuccessOnFiredAttempt'
  BY <1>2 DEF Inductive, execVars, AttemptAgreement, VerdictDiscipline, InAttempt,
     FinalStatusAgrees, NoSuccessOnFiredAttempt
<1>5. CopiesKeepRefreshes' /\ RefreshCountBounds'
  BY <1>2 DEF Inductive, CopiesKeepRefreshes, RefreshCountBounds, RefreshesOf,
     BackgroundRefreshes
<1>6. WatchdogPace' BY EnvironmentPace DEF Inductive
<1>7. QED BY <1>1, <1>3, <1>4, <1>5, <1>6 DEF Inductive

LEMMA LoopKeeps == ASSUME Inductive, LoopNext PROVE Inductive'
<1>1. BackgroundOnlyInAttempt BY Isolation DEF Inductive
<1>2. TypeOK' BY LoopType DEF Inductive
<1>3. AttemptCounter' BY LoopCounter DEF Inductive
<1>4. CopyDiscipline' BY LoopCopies DEF Inductive
<1>5. JoinDiscipline' BY LoopJoins DEF Inductive
<1>6. AttemptAgreement' BY <1>1, LoopAgreement DEF Inductive
<1>7. VerdictDiscipline' BY LoopVerdict DEF Inductive
<1>8. FinalStatusAgrees' /\ NoSuccessOnFiredAttempt' BY LoopResult DEF Inductive
<1>9. CopiesKeepRefreshes' /\ RefreshCountBounds' BY <1>1, LoopRefreshes DEF Inductive
<1>10. WatchdogPace' BY LoopPace DEF Inductive
<1>11. QED
  BY <1>2, <1>3, <1>4, <1>5, <1>6, <1>7, <1>8, <1>9, <1>10 DEF Inductive

LEMMA AttemptKeeps == ASSUME Inductive, AttemptNext PROVE Inductive'
<1>1. TypeOK' BY ExecuteType, ChildType, BackgroundStepType DEF Inductive, AttemptNext
<1>2. AttemptCounter' BY AttemptKeepsCounter DEF Inductive
<1>3. CopyDiscipline' BY AttemptKeepsCopies DEF Inductive
<1>4. JoinDiscipline' BY AttemptKeepsJoins DEF Inductive
<1>5. AttemptAgreement' BY AttemptKeepsAgreement DEF Inductive
<1>6. VerdictDiscipline' /\ FinalStatusAgrees' /\ NoSuccessOnFiredAttempt'
  BY AttemptKeepsVerdict DEF Inductive
<1>7. CopiesKeepRefreshes' /\ RefreshCountBounds' BY AttemptKeepsRefreshes DEF Inductive
<1>8. WatchdogPace' BY AttemptPace DEF Inductive
<1>9. QED BY <1>1, <1>2, <1>3, <1>4, <1>5, <1>6, <1>7, <1>8 DEF Inductive

-----------------------------------------------------------------------------
\* The theorems.

\* The strengthened invariant holds in every reachable state of a room's run.
THEOREM Invariance == Behaviour => []Inductive
<1>1. Init => Inductive BY InitInductive
<1>2. Inductive /\ [Next]_vars => Inductive'
  BY LoopKeeps, AttemptKeeps, EnvironmentKeeps DEF Next, AttemptNext
<1>3. QED BY <1>1, <1>2, PTL DEF Behaviour

\* Every variable of the run keeps its type; the retry loop stays within maxAttempts.
THEOREM TypeCorrect == Behaviour => []TypeOK
<1>1. Inductive => TypeOK BY DEF Inductive
<1>2. QED BY <1>1, Invariance, PTL

\* runOne is alone with the room's status outside the span of an attempt.
THEOREM AloneOutsideAttempts == Behaviour => []BackgroundOnlyInAttempt
<1>1. Inductive => BackgroundOnlyInAttempt BY Isolation DEF Inductive
<1>2. QED BY <1>1, Invariance, PTL

\* The status left in the room agrees with the result runOne returned.
THEOREM FinalAgreement == Behaviour => []FinalStatusAgrees
<1>1. Inductive => FinalStatusAgrees BY DEF Inductive
<1>2. QED BY <1>1, Invariance, PTL

\* No branch succeeds by an attempt its watchdog fired on.
THEOREM FiredAttemptsFail == Behaviour => []NoSuccessOnFiredAttempt
<1>1. Inductive => NoSuccessOnFiredAttempt BY DEF Inductive
<1>2. QED BY <1>1, Invariance, PTL

\* The unlocked updates lose no refresh of runOne and invent none.
THEOREM RefreshesBounded == Behaviour => []RefreshCountBounds
<1>1. Inductive => RefreshCountBounds BY DEF Inductive
<1>2. QED BY <1>1, Invariance, PTL

\* Whatever the timeout: when due goroutines run before the clock moves on and no supervisor renews
\* the status, a process is silent no longer than the timeout while its watchdog is armed
\* (executor.go:347).
THEOREM WatchdogTimely == Behaviour => []ArmedWatchdogIsTimely
<1>1. Inductive => ArmedWatchdogIsTimely
  <2> SUFFICES ASSUME TypeOK, WatchdogPace PROVE ArmedWatchdogIsTimely
    BY DEF Inductive
  <2>1. age <= Timeout /\ age \in Nat /\ silent \in Nat /\ Timeout \in Nat
    BY PaceFacts DEF TypeOK, FileType
  <2>2. QED BY <2>1 DEF WatchdogPace, ArmedWatchdogIsTimely
<1>2. QED BY <1>1, Invariance, PTL

\* Every step of the goroutines is a step of the position's contract or invisible to
\* it: attempts only count up to the bound, and the verdict comes once.
THEOREM KeepsContract == Behaviour => Contract!Behaviour
<1>1. Init => Contract!Init
  BY DEF Init, Contract!Init
<1>2. Inductive /\ [Next]_vars => [Contract!Next]_Contract!vars
  <2> SUFFICES ASSUME Inductive, [Next]_vars PROVE [Contract!Next]_Contract!vars
    OBVIOUS
  <2> USE DEF Contract!Next, Contract!Try, Contract!Conclude, Contract!vars
  <2>0. /\ attempt \in Nat /\ MaxAttempts \in Nat \ {0}
        /\ FinalState(ret) \in {"succeeded", "failed"}
    BY StateFacts DEF Inductive
  <2>1. CASE KitFails
    BY <2>1 DEF KitFails, Inductive, AttemptCounter, VerdictDiscipline
  <2>2. CASE KitReady
    BY <2>0, <2>2 DEF KitReady, Inductive, AttemptCounter, VerdictDiscipline
  <2>3. CASE BackoffExpires
    BY <2>0, <2>3 DEF BackoffExpires, Inductive, AttemptCounter, VerdictDiscipline
  <2>4. CASE Conclude
    BY <2>0, <2>4 DEF Conclude, Inductive, AttemptCounter, VerdictDiscipline
  <2>5. CASE RefreshRoomCache \/ BeginAttempt \/ StopSupervisor \/ JoinSupervisor
             \/ JoinWatchdog \/ Retry \/ BackoffCancelled
    BY <2>5 DEF RefreshRoomCache, BeginAttempt, StopSupervisor, JoinSupervisor, JoinWatchdog,
       Retry, BackoffCancelled
  <2>6. CASE AttemptNext
    BY <2>6, AttemptStep DEF Inductive
  <2>7. CASE Tick \/ CancelParent \/ Finished \/ UNCHANGED vars
    BY <2>7 DEF Tick, CancelParent, Finished, vars, execVars
  <2>8. QED
    BY <2>1, <2>2, <2>3, <2>4, <2>5, <2>6, <2>7 DEF Next, LoopNext, AttemptNext
<1>3. QED BY <1>1, <1>2, Invariance, PTL DEF Behaviour, Contract!Behaviour
=============================================================================
