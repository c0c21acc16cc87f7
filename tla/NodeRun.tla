------------------------------- MODULE NodeRun -------------------------------
(***************************************************************************)
(* One position of a swarm: Executor.runOne and everything that runs beside*)
(* it (internal/swarm/executor.go, room_status.go, harness.go).            *)
(*                                                                         *)
(* Four actors share the room's .qsm_status/status.json:                   *)
(*   exec   the goroutine of runOne, inside Harness.Execute or around it   *)
(*   child  the harness process (langchain_runner.py patches the file too) *)
(*   wd     the no-progress watchdog goroutine of the current attempt      *)
(*   sup    the cache supervisor goroutine of the current attempt          *)
(* UpdateRoomStatus reads the file, mutates the copy and renames a new file*)
(* over it, with no lock: an update is two steps, ReadStatus into buf[a]   *)
(* and a write of the mutated copy, and another actor may write in between.*)
(* Where the other actors cannot be alive (BackgroundOnlyInAttempt) exec's *)
(* update is one step.                                                     *)
(***************************************************************************)
EXTENDS Naturals

CONSTANTS
  Modes,          \* harness modes explored: simulated, opencode, langchain
  MaxRetries,     \* Executor.MaxRetries
  SharedCache,    \* Executor.SharedCache (with a lake)
  Timeout,        \* no-progress timeout in watchdog polls; 0 turns it off
  MaxRefreshes,   \* bound: refreshes made by the supervisor and the child
  Prompt,         \* TRUE: due goroutines run before the clock moves on
  Cancellable     \* TRUE: the caller's context may be cancelled

AllModes == {"simulated", "opencode", "langchain"}

ASSUME NodeRunAssumption ==
  /\ Modes \subseteq AllModes
  /\ MaxRetries \in Nat
  /\ Timeout \in Nat
  /\ MaxRefreshes \in Nat
  /\ SharedCache \in BOOLEAN
  /\ Prompt \in BOOLEAN
  /\ Cancellable \in BOOLEAN

MaxAttempts == 1 + MaxRetries

Actors == {"exec", "child", "wd", "sup"}

States == {"queued", "running", "succeeded", "failed"}

\* The fields of RoomStatus that some step reads back.
Status == [state : States, attempt : Nat, refresh : Nat]

NoStatus == [state |-> "none", attempt |-> 0, refresh |-> 0]

\* Outcome of Harness.Execute: do all three gates hold, and which error.
Errs == {"none", "retryable", "fatal"}
Outcome == [passed : BOOLEAN, err : Errs]
NoOutcome == [passed |-> FALSE, err |-> "none"]

VARIABLES
  mode,        \* Executor.HarnessMode, fixed for the run
  pc,          \* where the goroutine of runOne is
  attempt,     \* attempt of the retry loop, 0 before it
  exit,        \* how cmd.Run of this attempt came back
  ret,         \* (result, err) of this attempt
  verdict,     \* the BranchResult returned: pending, succeeded, failed
  tried,       \* BranchResult.Attempts
  status,      \* the room's status.json
  age,         \* polls since status.updated_at, capped at Timeout
  silent,      \* polls since the child last did anything, capped
  buf,         \* each actor's copy inside UpdateRoomStatus
  wd,          \* watchdog goroutine
  sup,         \* cache supervisor goroutine
  due,         \* a tick waits in the goroutine's ticker channel
  stop,        \* the goroutine's context was cancelled by its stop function
  cancelled,   \* the watchdog cancelled attemptCtx
  parent,      \* the caller's context is cancelled
  refreshed    \* CACHE.md refreshes made so far, by actor

execVars == <<mode, pc, attempt, exit, ret, verdict, tried>>
bgVars == <<wd, sup, due, stop>>
fileVars == <<status, age>>
vars == <<execVars, fileVars, silent, buf, bgVars, cancelled, parent, refreshed>>

Real == mode # "simulated"
Supervised == SharedCache /\ mode = "opencode"
CtxDone == cancelled \/ parent

WdLive == wd \in {"poll", "stale", "marking", "cancelling"}
SupLive == sup \in {"idle", "marking"}
SilentCap == Timeout + 2

Passed(o) == o.passed /\ o.err = "none"
Retryable(o) == o.err = "retryable"
FinalState(o) == IF Passed(o) THEN "succeeded" ELSE "failed"

Init ==
  /\ mode \in Modes
  /\ pc = "kit"
  /\ attempt = 0
  /\ exit = "none"
  /\ ret = NoOutcome
  /\ verdict = "pending"
  /\ tried = 0
  /\ status = [state |-> "queued", attempt |-> 0, refresh |-> 0]
  /\ age = 0
  /\ silent = 0
  /\ buf = [a \in Actors |-> NoStatus]
  /\ wd = "off"
  /\ sup = "off"
  /\ due = [g \in {"wd", "sup"} |-> FALSE]
  /\ stop = [g \in {"wd", "sup"} |-> FALSE]
  /\ cancelled = FALSE
  /\ parent = FALSE
  /\ refreshed = [a \in Actors |-> 0]

-----------------------------------------------------------------------------
\* The status file.

Running(s) == [s EXCEPT !.state = "running"]
Attempted(s) == [Running(s) EXCEPT !.attempt = attempt]
Refreshed(s) == [Attempted(s) EXCEPT !.refresh = @ + 1]
Failed(s) == [s EXCEPT !.state = "failed"]

Write(s) == status' = s /\ age' = 0

ReadStatus(a) ==
  /\ buf[a] = NoStatus
  /\ buf' = [buf EXCEPT ![a] = status]

\* The second half of UpdateRoomStatus: the file becomes the mutated copy.
WriteStatus(a, s) ==
  /\ buf[a] # NoStatus
  /\ Write(s)
  /\ buf' = [buf EXCEPT ![a] = NoStatus]

CountRefresh(a) == refreshed' = [refreshed EXCEPT ![a] = @ + 1]

BackgroundRefreshes == refreshed["sup"] + refreshed["child"]

-----------------------------------------------------------------------------
\* runOne before and between attempts: no other goroutine of this room runs.

Goto(label) == pc' = label

KitFails ==
  /\ pc = "kit"
  /\ Goto("done")
  /\ Write(Failed(status))
  /\ verdict' = "failed"
  /\ UNCHANGED <<mode, attempt, exit, ret, tried, silent, buf, bgVars,
                 cancelled, parent, refreshed>>

KitReady ==
  /\ pc = "kit"
  /\ Goto("refresh")
  /\ attempt' = 1
  /\ Write(status)
  /\ UNCHANGED <<mode, exit, ret, verdict, tried, silent, buf, bgVars,
                 cancelled, parent, refreshed>>

\* writeRoomCache fails when the lake cannot be listed; then nothing is marked.
RefreshRoomCache ==
  /\ pc = "refresh"
  /\ Goto("begin")
  /\ \/ /\ SharedCache
        /\ Write(Refreshed(status))
        /\ CountRefresh("exec")
     \/ UNCHANGED <<fileVars, refreshed>>
  /\ UNCHANGED <<mode, attempt, exit, ret, verdict, tried, silent, buf, bgVars,
                 cancelled, parent>>

\* Mutant: the attempt number is not written at the start of an attempt.
BeginAttemptUnnumbered ==
  /\ pc = "begin"
  /\ Goto("launch")
  /\ Write([Running(status) EXCEPT !.attempt = 0])
  /\ ret' = NoOutcome
  /\ exit' = "none"
  /\ wd' = IF Timeout > 0 THEN "poll" ELSE "off"
  /\ sup' = IF Supervised THEN "idle" ELSE "off"
  /\ due' = [g \in {"wd", "sup"} |-> FALSE]
  /\ stop' = [g \in {"wd", "sup"} |-> FALSE]
  /\ cancelled' = FALSE
  /\ UNCHANGED <<mode, attempt, verdict, tried, silent, buf, parent, refreshed>>

BeginAttempt ==
  /\ pc = "begin"
  /\ Goto("launch")
  /\ Write(Attempted(status))
  /\ ret' = NoOutcome
  /\ exit' = "none"
  /\ wd' = IF Timeout > 0 THEN "poll" ELSE "off"
  /\ sup' = IF Supervised THEN "idle" ELSE "off"
  /\ due' = [g \in {"wd", "sup"} |-> FALSE]
  /\ stop' = [g \in {"wd", "sup"} |-> FALSE]
  /\ cancelled' = FALSE
  /\ UNCHANGED <<mode, attempt, verdict, tried, silent, buf, parent, refreshed>>

-----------------------------------------------------------------------------
\* Harness.Execute, in the goroutine of runOne.

\* Labels at which exec is about to update the status file.
Marking == {"launch", "start", "reap", "test", "report"}

ExecRead ==
  /\ pc \in Marking
  /\ pc = "launch" => Real
  /\ ReadStatus("exec")
  /\ UNCHANGED <<execVars, fileVars, silent, bgVars, cancelled, parent, refreshed>>

\* MarkRoomPhase: state running and a new phase.
MarkPhase(from, to) ==
  /\ pc = from
  /\ Goto(to)
  /\ WriteStatus("exec", Running(buf["exec"]))
  /\ UNCHANGED <<mode, attempt, verdict, tried, bgVars, cancelled, parent, refreshed>>

Return(label, o) ==
  /\ Goto(label)
  /\ ret' = o
  /\ UNCHANGED <<mode, attempt, exit, verdict, tried, fileVars, silent, buf,
                 bgVars, cancelled, parent, refreshed>>

\* ValidateForRealHarness, a copied file or the product fixture fails: Execute
\* returns an empty BranchResult and touches no status.
LaunchRefused ==
  /\ pc = "launch"
  /\ buf["exec"] = NoStatus
  /\ \E e \in Errs \ {"none"} : Return("returned", [passed |-> FALSE, err |-> e])

\* The simulated harness has no process: it writes its product and verifies it,
\* or EnsureArtifacts fails before the tests start.
LaunchSimulated ==
  /\ pc = "launch"
  /\ buf["exec"] = NoStatus
  /\ ~Real
  /\ \E label \in {"test", "returned"} : Return(label, NoOutcome)

MarkLaunch ==
  /\ Real
  /\ MarkPhase("launch", "start")
  /\ UNCHANGED <<exit, ret, silent>>

MarkStart ==
  /\ MarkPhase("start", "child")
  /\ silent' = 0
  /\ UNCHANGED <<exit, ret>>

\* cmd.Run returns: the process exits by itself, CommandContext kills it because
\* the attempt's context is done, or the harness timeout expires.
ChildGone(how) ==
  /\ pc = "child"
  /\ Goto("reap")
  /\ exit' = how
  /\ buf' = [buf EXCEPT !["child"] = NoStatus]
  /\ UNCHANGED <<mode, attempt, ret, verdict, tried, fileVars, silent, bgVars,
                 cancelled, parent, refreshed>>

ChildExits ==
  /\ buf["child"] = NoStatus
  /\ \E how \in {"ok", "error"} : ChildGone(how)

ChildKilled == CtxDone /\ ChildGone("killed")

ChildDeadline == ~CtxDone /\ ChildGone("deadline")

MarkVerify ==
  /\ MarkPhase("reap", "evidence")
  /\ UNCHANGED <<exit, ret, silent>>

\* What Execute does after the verify phase is marked.  OpenCode gives up at once
\* on a process that failed other than by the harness timeout; a clean exit may
\* still be refused for its evidence (the flags are left set); EnsureArtifacts
\* may fail before the tests start.
ReadEvidence ==
  /\ pc = "evidence"
  /\ \/ /\ mode = "opencode" /\ exit \in {"error", "killed"}
        /\ \E e \in Errs \ {"none"} : Return("report", [passed |-> FALSE, err |-> e])
     \/ /\ exit = "ok"
        /\ Return("returned", [passed |-> TRUE, err |-> "fatal"])
     \/ /\ mode = "langchain" \/ exit \in {"ok", "deadline"}
        /\ \/ Return("test", NoOutcome)
           \/ \E e \in Errs \ {"none"} : Return("report", [passed |-> FALSE, err |-> e])

MarkTest ==
  /\ MarkPhase("test", "judge")
  /\ UNCHANGED <<exit, ret, silent>>

\* The end of verifyProductAndTests and of Execute.  The simulated harness puts a
\* failed verification in BranchResult.Error and returns a nil error; a real one
\* returns it.  Writing evidence.json may fail after a pass, which OpenCode ignores
\* for a product it accepts at the harness timeout.
Judge ==
  /\ pc = "judge"
  /\ LET label == IF Real THEN "report" ELSE "returned" IN
     \/ Return(label, [passed |-> TRUE, err |-> "none"])
     \/ /\ ~(mode = "opencode" /\ exit = "deadline")
        /\ Return(label, [passed |-> TRUE, err |-> "fatal"])
     \/ /\ Real
        /\ \E e \in Errs \ {"none"} : Return(label, [passed |-> FALSE, err |-> e])
     \/ /\ ~Real
        /\ \E e \in {"none", "fatal"} : Return(label, [passed |-> FALSE, err |-> e])

\* MarkRoomResult called by the real harnesses before they return.
Report ==
  /\ pc = "report"
  /\ Goto("returned")
  /\ WriteStatus("exec", [buf["exec"] EXCEPT !.state = FinalState(ret)])
  /\ UNCHANGED <<mode, attempt, exit, ret, verdict, tried, silent, bgVars,
                 cancelled, parent, refreshed>>

-----------------------------------------------------------------------------
\* runOne after Execute: stop the two goroutines, in this order, and decide.

StopSupervisor ==
  /\ pc = "returned"
  /\ Goto("joinSup")
  /\ stop' = [stop EXCEPT !["sup"] = TRUE]
  /\ UNCHANGED <<mode, attempt, exit, ret, verdict, tried, fileVars, silent, buf,
                 wd, sup, due, cancelled, parent, refreshed>>

\* Mutant: the stop function of the supervisor cancels it and does not wait.
JoinSupervisorNoWait ==
  /\ pc = "joinSup"
  /\ Goto("joinWd")
  /\ stop' = [stop EXCEPT !["wd"] = TRUE]
  /\ UNCHANGED <<mode, attempt, exit, ret, verdict, tried, fileVars, silent, buf,
                 wd, sup, due, cancelled, parent, refreshed>>

JoinSupervisor ==
  /\ pc = "joinSup"
  /\ sup = "off"
  /\ Goto("joinWd")
  /\ stop' = [stop EXCEPT !["wd"] = TRUE]
  /\ UNCHANGED <<mode, attempt, exit, ret, verdict, tried, fileVars, silent, buf,
                 wd, sup, due, cancelled, parent, refreshed>>

\* Mutant: what Execute returned stands, fired or not.
JoinWatchdogTrusts ==
  /\ pc = "joinWd"
  /\ ~WdLive
  /\ Goto("settle")
  /\ tried' = attempt
  /\ UNCHANGED <<mode, attempt, exit, ret, verdict, fileVars, silent, buf, bgVars,
                 cancelled, parent, refreshed>>

\* A fired watchdog overrides whatever Execute returned, success included.
JoinWatchdog ==
  /\ pc = "joinWd"
  /\ ~WdLive
  /\ Goto("settle")
  /\ ret' = IF wd = "fired" THEN [ret EXCEPT !.err = "retryable"] ELSE ret
  /\ tried' = attempt
  /\ UNCHANGED <<mode, attempt, exit, verdict, fileVars, silent, buf, bgVars,
                 cancelled, parent, refreshed>>

MayRetry == Retryable(ret) /\ attempt < MaxAttempts

Retry ==
  /\ pc = "settle"
  /\ MayRetry
  /\ Goto("backoff")
  /\ Write(Attempted(status))
  /\ UNCHANGED <<mode, attempt, exit, ret, verdict, tried, silent, buf, bgVars,
                 cancelled, parent, refreshed>>

BackoffExpires ==
  /\ pc = "backoff"
  /\ Goto("refresh")
  /\ attempt' = attempt + 1
  /\ UNCHANGED <<mode, exit, ret, verdict, tried, fileVars, silent, buf, bgVars,
                 cancelled, parent, refreshed>>

\* err becomes ctx.Err() and the loop ends.
BackoffCancelled ==
  /\ pc = "backoff"
  /\ parent
  /\ Goto("settle")
  /\ ret' = [ret EXCEPT !.err = "fatal"]
  /\ UNCHANGED <<mode, attempt, exit, verdict, tried, fileVars, silent, buf,
                 bgVars, cancelled, parent, refreshed>>

\* MarkRoomResult and the return of runOne; an error clears the gates.
Conclude ==
  /\ pc = "settle"
  /\ ~MayRetry
  /\ Goto("done")
  /\ verdict' = FinalState(ret)
  /\ Write([status EXCEPT !.state = FinalState(ret)])
  /\ UNCHANGED <<mode, attempt, exit, ret, tried, silent, buf, bgVars,
                 cancelled, parent, refreshed>>

Finished == pc = "done" /\ UNCHANGED vars

-----------------------------------------------------------------------------
\* The harness process.  Only langchain_runner.py writes the status file.

ChildWorks ==
  /\ pc = "child"
  /\ silent' = 0
  /\ UNCHANGED <<execVars, fileVars, buf, bgVars, cancelled, parent, refreshed>>

ChildRead ==
  /\ pc = "child"
  /\ mode = "langchain"
  /\ ReadStatus("child")
  /\ silent' = 0
  /\ UNCHANGED <<execVars, fileVars, bgVars, cancelled, parent, refreshed>>

\* write_status_patch: a running phase, a phase that keeps the state
\* (step_budget_reached), or the early verdict "succeeded".
ChildPatches ==
  /\ \E s \in {Running(buf["child"]), buf["child"],
               [buf["child"] EXCEPT !.state = "succeeded"]} :
        WriteStatus("child", s)
  /\ silent' = 0
  /\ UNCHANGED <<execVars, bgVars, cancelled, parent, refreshed>>

\* increment_status_cache_refresh: leaves the attempt alone.
ChildRefreshes ==
  /\ BackgroundRefreshes < MaxRefreshes
  /\ WriteStatus("child", [Running(buf["child"]) EXCEPT !.refresh = @ + 1])
  /\ CountRefresh("child")
  /\ silent' = 0
  /\ UNCHANGED <<execVars, bgVars, cancelled, parent>>

-----------------------------------------------------------------------------
\* The watchdog goroutine.  Its context derives from attemptCtx.  When its tick and
\* its cancellation are both ready, Go's select may take either.

\* Mutant: the watchdog does not hear its stop function.
WdStopDeaf ==
  /\ wd = "poll"
  /\ parent
  /\ wd' = "quiet"
  /\ UNCHANGED <<execVars, fileVars, silent, buf, sup, due, stop, cancelled,
                 parent, refreshed>>

WdStop ==
  /\ wd = "poll"
  /\ stop["wd"] \/ parent
  /\ wd' = "quiet"
  /\ UNCHANGED <<execVars, fileVars, silent, buf, sup, due, stop, cancelled,
                 parent, refreshed>>

\* Mutant: strictly more than the timeout.
WdPollLate ==
  /\ wd = "poll"
  /\ due["wd"]
  /\ due' = [due EXCEPT !["wd"] = FALSE]
  /\ wd' = IF status.state # "running" THEN "quiet"
           ELSE IF age <= Timeout THEN "poll" ELSE "stale"
  /\ UNCHANGED <<execVars, fileVars, silent, buf, sup, stop, cancelled, parent,
                 refreshed>>

\* A status that left "running" disarms the watchdog for the rest of the attempt.
WdPoll ==
  /\ wd = "poll"
  /\ due["wd"]
  /\ due' = [due EXCEPT !["wd"] = FALSE]
  /\ wd' = IF status.state # "running" THEN "quiet"
           ELSE IF age < Timeout THEN "poll" ELSE "stale"
  /\ UNCHANGED <<execVars, fileVars, silent, buf, sup, stop, cancelled, parent,
                 refreshed>>

WdRead ==
  /\ wd = "stale"
  /\ ReadStatus("wd")
  /\ wd' = "marking"
  /\ UNCHANGED <<execVars, fileVars, silent, sup, due, stop, cancelled, parent,
                 refreshed>>

WdMark ==
  /\ wd = "marking"
  /\ WriteStatus("wd", Failed(buf["wd"]))
  /\ wd' = "cancelling"
  /\ UNCHANGED <<execVars, silent, sup, due, stop, cancelled, parent, refreshed>>

WdCancel ==
  /\ wd = "cancelling"
  /\ cancelled' = TRUE
  /\ wd' = "fired"
  /\ UNCHANGED <<execVars, fileVars, silent, buf, sup, due, stop, parent, refreshed>>

-----------------------------------------------------------------------------
\* The cache supervisor goroutine.  Its context derives from the caller's.

SupStop ==
  /\ sup = "idle"
  /\ stop["sup"] \/ parent
  /\ sup' = "off"
  /\ UNCHANGED <<execVars, fileVars, silent, buf, wd, due, stop, cancelled,
                 parent, refreshed>>

\* The cache could not be rendered (or the bound is reached): the tick is spent.
SupSkip ==
  /\ sup = "idle"
  /\ due["sup"]
  /\ due' = [due EXCEPT !["sup"] = FALSE]
  /\ UNCHANGED <<execVars, fileVars, silent, buf, wd, sup, stop, cancelled,
                 parent, refreshed>>

SupRead ==
  /\ sup = "idle"
  /\ due["sup"]
  /\ BackgroundRefreshes < MaxRefreshes
  /\ due' = [due EXCEPT !["sup"] = FALSE]
  /\ ReadStatus("sup")
  /\ sup' = "marking"
  /\ UNCHANGED <<execVars, fileVars, silent, wd, stop, cancelled, parent, refreshed>>

SupRefresh ==
  /\ sup = "marking"
  /\ WriteStatus("sup", Refreshed(buf["sup"]))
  /\ CountRefresh("sup")
  /\ sup' = "idle"
  /\ UNCHANGED <<execVars, silent, wd, due, stop, cancelled, parent>>

-----------------------------------------------------------------------------
\* The environment.

Least(m, n) == IF m <= n THEN m ELSE n

\* One poll interval passes.  Ticker channels hold one tick.
Tick ==
  /\ pc # "done"
  /\ Prompt => /\ ~due["wd"] /\ wd \in {"off", "poll", "quiet", "fired"}
               /\ ~due["sup"] /\ sup \in {"off", "idle"}
               /\ ~(pc = "child" /\ CtxDone)
  /\ age' = Least(age + 1, Timeout)
  /\ silent' = IF pc = "child" THEN Least(silent + 1, SilentCap) ELSE silent
  /\ due' = [g \in {"wd", "sup"} |-> IF g = "wd" THEN WdLive ELSE SupLive]
  /\ UNCHANGED <<execVars, status, buf, wd, sup, stop, cancelled, parent, refreshed>>

CancelParent ==
  /\ Cancellable
  /\ pc # "done"
  /\ ~parent
  /\ parent' = TRUE
  /\ UNCHANGED <<execVars, fileVars, silent, buf, bgVars, cancelled, refreshed>>

-----------------------------------------------------------------------------
ExecuteNext ==
  \/ ExecRead \/ LaunchRefused \/ LaunchSimulated \/ MarkLaunch \/ MarkStart
  \/ MarkVerify \/ ReadEvidence \/ MarkTest \/ Judge \/ Report

LoopNext ==
  \/ KitFails \/ KitReady \/ RefreshRoomCache \/ BeginAttempt
  \/ StopSupervisor \/ JoinSupervisor \/ JoinWatchdog
  \/ Retry \/ BackoffExpires \/ BackoffCancelled \/ Conclude

ChildNext ==
  \/ ChildExits \/ ChildKilled \/ ChildDeadline
  \/ ChildWorks \/ ChildRead \/ ChildPatches \/ ChildRefreshes

WdNext == WdStop \/ WdPoll \/ WdRead \/ WdMark \/ WdCancel
SupNext == SupStop \/ SupSkip \/ SupRead \/ SupRefresh

Next ==
  \/ LoopNext \/ ExecuteNext \/ ChildNext \/ WdNext \/ SupNext
  \/ Tick \/ CancelParent \/ Finished

\* Goroutines are scheduled; select takes a ready cancellation sooner or later;
\* a process whose context is done is killed, and one that is not runs into the
\* harness timeout.  Nothing else is asked of the process.
Fairness ==
  /\ WF_vars(LoopNext) /\ WF_vars(ExecuteNext)
  /\ WF_vars(ChildKilled \/ ChildDeadline)
  /\ WF_vars(WdStop) /\ WF_vars(WdRead \/ WdMark \/ WdCancel)
  /\ WF_vars(SupStop) /\ WF_vars(SupRefresh)

Behaviour == Init /\ [][Next]_vars
Spec == Behaviour /\ Fairness

-----------------------------------------------------------------------------
\* Properties.

Labels == {"kit", "refresh", "begin", "launch", "start", "child", "reap",
           "evidence", "test", "judge", "report", "returned", "joinSup",
           "joinWd", "settle", "backoff", "done"}

ExecType ==
  /\ mode \in Modes
  /\ pc \in Labels
  /\ attempt \in 0 .. MaxAttempts
  /\ exit \in {"none", "ok", "error", "killed", "deadline"}
  /\ ret \in Outcome
  /\ verdict \in {"pending", "succeeded", "failed"}
  /\ tried \in 0 .. MaxAttempts

FileType ==
  /\ status \in Status
  /\ age \in 0 .. Timeout
  /\ buf \in [Actors -> Status \cup {NoStatus}]
  /\ refreshed \in [Actors -> Nat]

BackgroundType ==
  /\ wd \in {"off", "poll", "stale", "marking", "cancelling", "quiet", "fired"}
  /\ sup \in {"off", "idle", "marking"}
  /\ due \in [{"wd", "sup"} -> BOOLEAN]
  /\ stop \in [{"wd", "sup"} -> BOOLEAN]
  /\ cancelled \in BOOLEAN
  /\ parent \in BOOLEAN
  /\ silent \in 0 .. SilentCap

\* Every variable keeps its shape; in particular the retry loop of runOne never
\* passes maxAttempts.
TypeOK == ExecType /\ FileType /\ BackgroundType

\* Between BeginAttempt and the joins the background goroutines may live; at every
\* other point of runOne neither is alive and no half-done update is pending.
InAttempt == pc \in Labels \ {"kit", "refresh", "begin", "settle", "backoff", "done"}

\* runOne joins the supervisor and the watchdog before it decides, so none of them
\* can write the room's status after a retry is announced or the result is written.
BackgroundOnlyInAttempt ==
  ~InAttempt => ~WdLive /\ ~SupLive /\ \A a \in Actors : buf[a] = NoStatus

\* When runOne has returned, status.json says what the returned BranchResult says:
\* the same terminal state, and the attempt number the result carries.
FinalStatusAgrees ==
  pc = "done" => /\ status.state = verdict
                 /\ status.attempt = tried
                 /\ verdict \in {"succeeded", "failed"}

\* An attempt the watchdog fired on is never the one a branch succeeds by, even when
\* Execute returned a verified product before the cancellation reached it.
NoSuccessOnFiredAttempt == verdict = "succeeded" => wd # "fired"

\* The unlocked updates may lose refreshes of the supervisor and the child, but never
\* one made by runOne itself, and never invent one: cache_refresh_count is at least
\* the number of attempts whose cache was rendered, at most all refreshes made.
RefreshCountBounds ==
  /\ refreshed["exec"] <= status.refresh
  /\ status.refresh <= refreshed["exec"] + BackgroundRefreshes

\* Under prompt scheduling, and with no supervisor to renew the status for it, a process is
\* silent no longer than the timeout while its watchdog is armed (executor.go:347).
ArmedWatchdogIsTimely ==
  Prompt /\ ~Supervised /\ wd = "poll" /\ pc = "child" => silent <= Timeout

\* What the deployment plan says of the watchdog: a process that does nothing for longer
\* than the timeout has been reported and cancelled.
NoSilentOverrun ==
  Prompt /\ Timeout > 0 /\ pc = "child" /\ ~CtxDone => silent <= Timeout + 1

\* Every firing is answered: the attempt is retried or the branch fails.
FiringIsAnswered ==
  \A n \in 1 .. MaxAttempts :
    (InAttempt /\ wd = "fired" /\ attempt = n) ~> (attempt > n \/ verdict = "failed")

-----------------------------------------------------------------------------
\* The inductive strengthening of the invariants above (checked here, proved about in
\* NodeRun_proof).

\* The loop counter: one attempt at least is behind any decision, and a retry that was
\* announced has an attempt left.
AttemptCounter ==
  /\ pc = "kit" => attempt = 0 /\ tried = 0 /\ status.attempt = 0
  /\ pc \notin {"kit", "done"} => attempt >= 1
  /\ pc = "backoff" => attempt < MaxAttempts

\* Who may be in the middle of an update of the file, and when.
CopyDiscipline ==
  /\ buf["exec"] # NoStatus => pc \in Marking
  /\ buf["child"] # NoStatus => pc = "child"
  /\ buf["wd"] # NoStatus <=> wd = "marking"
  /\ buf["sup"] # NoStatus <=> sup = "marking"

\* When the goroutines of an attempt may be alive.
JoinDiscipline ==
  /\ ~InAttempt => ~WdLive /\ ~SupLive
  /\ pc = "joinWd" => sup = "off"

\* The file and every copy of it carry the number of the attempt that runs.
AttemptAgreement ==
  /\ InAttempt \/ pc \in {"settle", "backoff"} => status.attempt = attempt
  /\ \A a \in Actors : buf[a] # NoStatus => buf[a].attempt = attempt
  /\ pc \in {"settle", "backoff"} => tried = attempt

\* The verdict appears with the return of runOne, and a firing is remembered till then.
VerdictDiscipline ==
  /\ pc # "done" => verdict = "pending"
  /\ pc \in {"settle", "backoff"} /\ wd = "fired" => ret.err # "none"

RefreshesOf(s) ==
  /\ refreshed["exec"] <= s.refresh
  /\ s.refresh <= refreshed["exec"] + BackgroundRefreshes

\* A copy misses no refresh of runOne either, so writing it back loses none.
CopiesKeepRefreshes ==
  \A a \in Actors : buf[a] # NoStatus => RefreshesOf(buf[a])

\* An armed watchdog that has spent its tick saw a status younger than the timeout, and only
\* the supervisor renews the status of a process that is silent.
WatchdogPace ==
  /\ wd = "poll" => Timeout > 0
  /\ wd = "poll" /\ ~due["wd"] => age < Timeout
  /\ ~Supervised => sup = "off"
  /\ Prompt /\ ~Supervised /\ wd = "poll" /\ pc = "child" => silent <= age

Inductive ==
  /\ TypeOK
  /\ AttemptCounter /\ CopyDiscipline /\ JoinDiscipline /\ WatchdogPace
  /\ AttemptAgreement /\ VerdictDiscipline /\ CopiesKeepRefreshes
  /\ FinalStatusAgrees /\ NoSuccessOnFiredAttempt /\ RefreshCountBounds

\* runOne keeps the contract of a position: bounded attempts, one verdict, never
\* withdrawn, and it does arrive.
Contract == INSTANCE NodeContract WITH tries <- attempt

ContractHolds == Contract!Spec
=============================================================================
