--------------------------- MODULE AutorunCycles ---------------------------
(***************************************************************************)
(* qsm autorun: one `qsm run` process per cycle on the same root, killed   *)
(* when the cycle timeout expires (cmd/qsm/main.go, chop.go, collapse.go,  *)
(* delivery.go).                                                           *)
(*                                                                         *)
(* The kill reaches the `qsm run` process only: its harness processes live *)
(* on and know their room by its absolute path, which the next cycle clears*)
(* and uses again.  A run leaves three things behind that are not written  *)
(* together: run_report.json, verdict.json and the delivery directory of   *)
(* its objective.  What a position does inside is NodeRun, how they run    *)
(* side by side is SwarmRun; here a position has one harness process.      *)
(***************************************************************************)
EXTENDS Naturals, Sequences

CONSTANTS
  Rooms,         \* .rooms/pos-01, ...
  MaxCycles,     \* -max-cycles, and the bound of the loop that runs forever (0)
  MaxEdits,      \* bound: writes to product directories
  MayTimeout     \* whether a cycle may reach -cycle-timeout

ASSUME AutorunAssumption ==
  /\ Rooms # {}
  /\ MaxCycles \in Nat \ {0}
  /\ MaxEdits \in Nat
  /\ MayTimeout \in BOOLEAN

Cycles == 1 .. MaxCycles
Versions == 0 .. MaxEdits      \* of a product: the write it dates from; 0 is no product

VARIABLES
  loop,       \* the autorun process
  cycle,      \* its cycle
  exit,       \* how the run of this cycle ended
  killed,     \* the cycles whose run was killed
  run,        \* where the qsm run process is
  node,       \* node[r]: the position of room r in this run
  checked,    \* checked[r]: the version the position's tests passed on
  procs,      \* the live harness processes, as <<cycle, room>>
  edits,      \* writes to product directories so far
  product,    \* product[r]: what is in room r's product directory
  status,     \* status[r]: the state in room r's status.json
  report,     \* run_report.json
  verdict,    \* verdict.json
  delivery    \* delivery[c]: the files copied to deliveries/<objective of c>

autorunVars == <<loop, cycle, killed>>
nodeVars == <<node, checked>>
roomVars == <<edits, product, status>>
stateFiles == <<report, verdict>>
vars == <<autorunVars, exit, run, nodeVars, procs, roomVars, stateFiles, delivery>>

Init ==
  /\ loop = "idle" /\ cycle = 0 /\ exit = "none" /\ killed = {}
  /\ run = "none"
  /\ node = [r \in Rooms |-> "idle"]
  /\ checked = [r \in Rooms |-> 0]
  /\ procs = {}
  /\ edits = 0
  /\ product = [r \in Rooms |-> 0]
  /\ status = [r \in Rooms |-> "none"]
  /\ report = [cycle |-> 0, results |-> {}, succeeded |-> {}]
  /\ verdict = [cycle |-> 0, winner |-> CHOOSE r \in Rooms : TRUE, approved |-> FALSE]
  /\ delivery = [c \in Cycles |-> <<>>]

-----------------------------------------------------------------------------
\* The autorun loop.

\* The log file of the cycle is opened and the run is started, or one of the two fails.
StartCycle ==
  /\ loop = "idle"
  /\ loop' = "running"
  /\ cycle' = cycle + 1
  /\ \/ run' = "prepare" /\ exit' = "none"
     \/ run' = "exited" /\ exit' = "error"
  /\ UNCHANGED <<killed, nodeVars, procs, roomVars, stateFiles, delivery>>

\* autorun.json cannot be written before or after a cycle: must() ends the loop.
AutorunFails ==
  /\ loop = "idle"
  /\ loop' = "ended"
  /\ UNCHANGED <<cycle, killed, exit, run, nodeVars, procs, roomVars, stateFiles, delivery>>

\* exec.CommandContext sends SIGKILL to the process it started, and to no other.
Kill ==
  /\ MayTimeout
  /\ run \notin {"none", "exited"}
  /\ run' = "exited"
  /\ exit' = "timeout"
  /\ killed' = killed \cup {cycle}
  /\ UNCHANGED <<loop, cycle, nodeVars, procs, roomVars, stateFiles, delivery>>

AfterCycle == IF cycle < MaxCycles THEN "idle" ELSE "ended"

\* Mutant: autorun reads the output of the run through a pipe, which the harness
\* processes keep open.
ReapWaits ==
  /\ run = "exited"
  /\ procs = {}
  /\ run' = "none"
  /\ loop' = AfterCycle
  /\ exit' \in IF MayTimeout THEN {exit, "timeout"} ELSE {exit}
  /\ UNCHANGED <<cycle, killed, nodeVars, procs, roomVars, stateFiles, delivery>>

\* cmd.Run returns.  A deadline that has passed by then is reported as a timeout even
\* of a run that had finished.  The output goes to a file: nothing is waited for.
Reap ==
  /\ run = "exited"
  /\ run' = "none"
  /\ loop' = AfterCycle
  /\ exit' \in IF MayTimeout THEN {exit, "timeout"} ELSE {exit}
  /\ UNCHANGED <<cycle, killed, nodeVars, procs, roomVars, stateFiles, delivery>>

-----------------------------------------------------------------------------
\* The main goroutine of qsm run.

Decided == {r \in Rooms : node[r] \in {"passed", "failed"}}
Succeeded == {r \in Rooms : node[r] = "passed"}

\* Executor.Run returns when every position has its result; no agent, no results.
ExecutorReturns == Decided = Rooms \/ \A r \in Rooms : node[r] = "idle"

\* must() or log.Fatalf at any point but inside Executor.Run.
Fatal ==
  /\ run \notin {"none", "exited"}
  /\ run = "nodes" => ExecutorReturns
  /\ run' = "exited"
  /\ exit' = "error"
  /\ UNCHANGED <<autorunVars, nodeVars, procs, roomVars, stateFiles, delivery>>

ClearRooms(cleared) ==
  /\ product' = [r \in Rooms |-> IF r \in cleared THEN 0 ELSE product[r]]
  /\ status' = [r \in Rooms |-> IF r \in cleared THEN "none" ELSE status[r]]

\* The plan is approved and every room is removed and made anew.
Chop ==
  /\ run = "prepare"
  /\ run' = "nodes"
  /\ ClearRooms(Rooms)
  /\ node' = [r \in Rooms |-> "idle"]
  /\ checked' = [r \in Rooms |-> 0]
  /\ UNCHANGED <<autorunVars, exit, procs, edits, stateFiles, delivery>>

\* A room cannot be removed, or cannot be made anew.
ChopFails ==
  /\ run = "prepare"
  /\ run' = "exited"
  /\ exit' = "error"
  /\ \E cleared \in SUBSET Rooms : ClearRooms(cleared)
  /\ UNCHANGED <<autorunVars, nodeVars, procs, edits, stateFiles, delivery>>

WriteReport(results) ==
  /\ run' = "collapse"
  /\ report' = [cycle |-> cycle, results |-> results, succeeded |-> Succeeded]
  /\ UNCHANGED <<autorunVars, exit, nodeVars, procs, roomVars, verdict, delivery>>

\* Mutant: the report is written when half of the positions are done.
ReportEarly == run = "nodes" /\ Decided # {} /\ WriteReport(Rooms)

Report ==
  /\ run = "nodes"
  /\ ExecutorReturns
  /\ WriteReport(Decided)

\* Mutant: a branch that was started is good enough.
CollapseTrusts ==
  /\ run = "collapse"
  /\ report.results # {}
  /\ run' = "gate"
  /\ \E winner \in report.results :
       verdict' = [cycle |-> cycle, winner |-> winner, approved |-> TRUE]
  /\ UNCHANGED <<autorunVars, exit, nodeVars, procs, roomVars, report, delivery>>

\* Audit reads the manifest of each product again; the best approved branch wins, or
\* the best of all, unapproved.  No results is an error (Fatal).
Collapse ==
  /\ run = "collapse"
  /\ report.results # {}
  /\ run' = "gate"
  /\ \E approved \in SUBSET Succeeded :
     \E winner \in IF approved = {} THEN report.results ELSE approved :
       verdict' = [cycle |-> cycle, winner |-> winner, approved |-> approved # {}]
  /\ UNCHANGED <<autorunVars, exit, nodeVars, procs, roomVars, report, delivery>>

\* Mutant: verdict.json is not written again.
GateForgets ==
  /\ run = "gate"
  /\ run' \in {"deliver", "compile"}
  /\ run' = "deliver" => verdict.approved
  /\ UNCHANGED <<autorunVars, exit, nodeVars, procs, roomVars, stateFiles, delivery>>

\* Mutant: the gate is recorded and not obeyed.
GateIgnored ==
  /\ run = "gate"
  /\ run' = IF verdict.approved THEN "deliver" ELSE "compile"
  /\ \E pass \in BOOLEAN : verdict' = [verdict EXCEPT !.approved = pass /\ @]
  /\ UNCHANGED <<autorunVars, exit, nodeVars, procs, roomVars, report, delivery>>

\* forceLocalCollapseGate on the force score; its failure is written over the verdict.
Gate ==
  /\ run = "gate"
  /\ \E pass \in BOOLEAN : verdict' = [verdict EXCEPT !.approved = pass /\ @]
  /\ run' = IF verdict'.approved THEN "deliver" ELSE "compile"
  /\ UNCHANGED <<autorunVars, exit, nodeVars, procs, roomVars, report, delivery>>

\* CopyProduct copies file by file; a product has two files here.
CopyFile ==
  /\ run = "deliver"
  /\ delivery' = [delivery EXCEPT ![cycle] = Append(@, product[verdict.winner])]
  /\ run' = IF Len(delivery'[cycle]) = 2 THEN "compile" ELSE "deliver"
  /\ UNCHANGED <<autorunVars, exit, nodeVars, procs, roomVars, stateFiles>>

Finish ==
  /\ run = "compile"
  /\ run' = "exited"
  /\ exit' = "ok"
  /\ UNCHANGED <<autorunVars, nodeVars, procs, roomVars, stateFiles, delivery>>

-----------------------------------------------------------------------------
\* The positions.

\* The kit cannot be written, or the harness refuses to launch.
NodeRefused(r) ==
  /\ run = "nodes" /\ node[r] = "idle"
  /\ node' = [node EXCEPT ![r] = "failed"]
  /\ status' = [status EXCEPT ![r] = "failed"]
  /\ UNCHANGED <<autorunVars, exit, run, checked, procs, edits, product, stateFiles, delivery>>

\* The first attempt, or a retry of one that was collected.
Launch(r) ==
  /\ run = "nodes" /\ node[r] \in {"idle", "verify"}
  /\ node' = [node EXCEPT ![r] = "running"]
  /\ procs' = procs \cup {<<cycle, r>>}
  /\ status' = [status EXCEPT ![r] = "running"]
  /\ UNCHANGED <<autorunVars, exit, run, checked, edits, product, stateFiles, delivery>>

\* cmd.Run of the harness returns.
Collect(r) ==
  /\ run = "nodes" /\ node[r] = "running"
  /\ node' = [node EXCEPT ![r] = "verify"]
  /\ procs' = procs \ {<<cycle, r>>}
  /\ UNCHANGED <<autorunVars, exit, run, checked, roomVars, stateFiles, delivery>>

\* Mutant: the tests run on what the agent declared, before it is collected.
JudgeEarly(r) ==
  /\ run = "nodes" /\ node[r] \in {"running", "verify"}
  /\ \/ /\ product[r] # 0
        /\ node' = [node EXCEPT ![r] = "passed"]
        /\ checked' = [checked EXCEPT ![r] = product[r]]
        /\ status' = [status EXCEPT ![r] = "succeeded"]
     \/ /\ node' = [node EXCEPT ![r] = "failed"]
        /\ status' = [status EXCEPT ![r] = "failed"]
        /\ UNCHANGED checked
  /\ UNCHANGED <<autorunVars, exit, run, procs, edits, product, stateFiles, delivery>>

Judge(r) ==
  /\ run = "nodes" /\ node[r] = "verify"
  /\ \/ /\ product[r] # 0
        /\ node' = [node EXCEPT ![r] = "passed"]
        /\ checked' = [checked EXCEPT ![r] = product[r]]
        /\ status' = [status EXCEPT ![r] = "succeeded"]
     \/ /\ node' = [node EXCEPT ![r] = "failed"]
        /\ status' = [status EXCEPT ![r] = "failed"]
        /\ UNCHANGED checked
  /\ UNCHANGED <<autorunVars, exit, run, procs, edits, product, stateFiles, delivery>>

-----------------------------------------------------------------------------
\* The harness processes, of this cycle or an earlier one.

Parented(p) == run = "nodes" /\ p[1] = cycle
Orphans == {p \in procs : ~Parented(p)}

WritesProduct(p) ==
  /\ p \in procs
  /\ edits < MaxEdits
  /\ edits' = edits + 1
  /\ product' = [product EXCEPT ![p[2]] = edits + 1]
  /\ UNCHANGED <<autorunVars, exit, run, nodeVars, procs, status, stateFiles, delivery>>

\* write_status_patch of langchain_runner.py.
PatchesStatus(p) ==
  /\ p \in procs
  /\ \E s \in {"running", "succeeded"} : status' = [status EXCEPT ![p[2]] = s]
  /\ UNCHANGED <<autorunVars, exit, run, nodeVars, procs, edits, product, stateFiles, delivery>>

OrphanDies(p) ==
  /\ p \in Orphans
  /\ procs' = procs \ {p}
  /\ UNCHANGED <<autorunVars, exit, run, nodeVars, roomVars, stateFiles, delivery>>

-----------------------------------------------------------------------------
AutorunNext == StartCycle \/ AutorunFails \/ Kill \/ Reap
RunNext == Fatal \/ Chop \/ ChopFails \/ Report \/ Collapse \/ Gate \/ CopyFile \/ Finish
NodeNext(r) == NodeRefused(r) \/ Launch(r) \/ Collect(r) \/ Judge(r)
ProcNext(p) == WritesProduct(p) \/ PatchesStatus(p) \/ OrphanDies(p)

Ended == loop = "ended" /\ procs = {} /\ UNCHANGED vars

Next ==
  \/ AutorunNext \/ RunNext
  \/ \E r \in Rooms : NodeNext(r)
  \/ \E p \in procs : ProcNext(p)
  \/ Ended

Spec == Init /\ [][Next]_vars

\* The timer of a cycle fires and a dead child is reaped; nothing is asked of the run,
\* of its positions or of the harness processes.
FairSpec == Spec /\ WF_vars(Kill) /\ WF_vars(Reap)

-----------------------------------------------------------------------------
TypeOK ==
  /\ loop \in {"idle", "running", "ended"}
  /\ cycle \in 0 .. MaxCycles
  /\ exit \in {"none", "ok", "error", "timeout"}
  /\ killed \subseteq Cycles
  /\ run \in {"none", "prepare", "nodes", "collapse", "gate", "deliver", "compile", "exited"}
  /\ node \in [Rooms -> {"idle", "running", "verify", "passed", "failed"}]
  /\ checked \in [Rooms -> Versions]
  /\ procs \subseteq Cycles \X Rooms
  /\ edits \in Versions
  /\ product \in [Rooms -> Versions]
  /\ status \in [Rooms -> {"none", "running", "succeeded", "failed"}]
  /\ report \in [cycle : 0 .. MaxCycles, results : SUBSET Rooms, succeeded : SUBSET Rooms]
  /\ verdict \in [cycle : 0 .. MaxCycles, winner : Rooms, approved : BOOLEAN]
  /\ delivery \in [Cycles -> Seq(Versions)]

\* At any instant, kills and failures included, verdict.json is never newer than
\* run_report.json, and when it is of the same run an approval is backed by it: the winner
\* is one of the branches the report counts as succeeded.
VerdictBacked ==
  /\ verdict.cycle <= report.cycle
  /\ verdict.cycle = report.cycle /\ verdict.approved => verdict.winner \in report.succeeded

\* A run that ends with exit code 0 leaves its own report and verdict, and a complete
\* delivery exactly if the verdict, after the force gate, approves.
FinishedRunsAgree ==
  exit = "ok" =>
    /\ report.cycle = cycle /\ verdict.cycle = cycle
    /\ verdict.approved <=> Len(delivery[cycle]) = 2

\* Nothing is added to a delivery but by the run of that cycle, under its own approving
\* verdict.json, from the product of a winner that its report counts as succeeded.
DeliveriesUnderVerdict ==
  [][\A c \in Cycles : delivery'[c] # delivery[c] =>
       /\ c = cycle /\ verdict.cycle = c /\ verdict.approved
       /\ verdict.winner \in report.succeeded /\ report.cycle = c]_vars

\* A harness process without a parent comes from a cycle that was killed: no other way
\* for a run to end leaves one behind.
OrphansExplained == \A p \in Orphans : p[1] \in killed

JudgedOnly ==
  cycle # 0 => \A i \in DOMAIN delivery[cycle] : delivery[cycle][i] = checked[verdict.winner]

\* As long as no cycle was killed, every file that is delivered is of the very version
\* that passed the tests, although judging and copying are far apart.
DeliveredAsJudged == killed = {} => JudgedOnly

\* As long as no cycle was killed, the status files say what the report says when a run
\* has finished.
StatusAgrees ==
  killed = {} /\ exit = "ok" =>
    \A r \in Rooms : status[r] = IF r \in report.succeeded THEN "succeeded" ELSE "failed"

\* Every cycle ends, whatever its run and its harness processes do.
CyclesEnd == loop = "running" ~> loop # "running"

-----------------------------------------------------------------------------
\* The inductive strengthening (proved about in AutorunCycles_proof).

Working == {"prepare", "nodes", "collapse", "gate", "deliver", "compile"}

LoopSteps ==
  /\ run # "none" <=> loop = "running"
  /\ loop = "running" => cycle >= 1
  /\ loop = "idle" => cycle < MaxCycles
  /\ run \in Working => exit = "none"
  /\ killed \subseteq 1 .. cycle

\* A live process is a child of the running executor, which waits for it, or its cycle
\* was killed.
Parents ==
  \A p \in procs : p[1] \in killed \/ (Parented(p) /\ node[p[2]] = "running")

\* How far the files of this run are.
FilesFollowRun ==
  /\ report.cycle <= cycle
  /\ run \in {"prepare", "nodes"} => report.cycle < cycle
  /\ run \in {"prepare", "nodes", "collapse"} => verdict.cycle < cycle
  /\ run \in {"collapse", "gate", "deliver", "compile"} =>
       report.cycle = cycle /\ report.succeeded = Succeeded
  /\ run = "collapse" /\ report.results # {} => Decided = Rooms
  /\ run \in {"gate", "deliver", "compile"} => verdict.cycle = cycle /\ Decided = Rooms

DeliveryFollowsRun ==
  /\ \A c \in Cycles : c > cycle => delivery[c] = <<>>
  /\ run \in {"prepare", "nodes", "collapse", "gate"} => delivery[cycle] = <<>>
  /\ run = "deliver" => verdict.approved /\ Len(delivery[cycle]) < 2
  /\ run = "compile" => (verdict.approved <=> Len(delivery[cycle]) = 2)

\* While no cycle was killed nobody touches a room that is decided.
RoomsKept ==
  killed = {} /\ run \in Working \ {"prepare"} =>
    \A r \in Rooms :
      /\ node[r] = "passed" => product[r] = checked[r] /\ status[r] = "succeeded"
      /\ node[r] = "failed" => status[r] = "failed"

Inductive ==
  /\ TypeOK
  /\ LoopSteps /\ Parents /\ FilesFollowRun /\ DeliveryFollowsRun /\ RoomsKept
  /\ VerdictBacked /\ FinishedRunsAgree /\ OrphansExplained
  /\ DeliveredAsJudged /\ StatusAgrees

-----------------------------------------------------------------------------
\* What the deployment plan says of every delivery: verification, tests and collapse agree
\* on what is delivered.
NoFakeSuccess == JudgedOnly
=============================================================================
