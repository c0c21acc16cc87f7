------------------------------- MODULE MCRoot -------------------------------
(***************************************************************************)
(* What several qsm processes do to the files of one root: the checkpoints *)
(* and regrow rooms, the two health files, the pid file of the router, and *)
(* the reports.  The four components share no file, so that interleaving   *)
(* them shows nothing that each alone does not: a behaviour chooses one of *)
(* them and leaves the others out.                                         *)
(***************************************************************************)
EXTENDS Integers, Sequences, FiniteSets, TLC

CONSTANTS
  Files, Script, Regrows, MaxRooms, MaxEdits,                  \* RoomSnapshots
  Runs, Defaults, Pools, Named, Fallback, ChildModel,          \* RouteHealth
  Positions, Fresh, MaxClock,
  Starters, Stoppers, Pids,                                    \* RouterProcess
  Quality, Judged, MaxRuns, MaxJudged, MaxReports              \* RootReports

VARIABLES
  scenario,
  room, archive, manifest, claimed, maker, grow, rooms, twins,
  clock, routes, build, run, raced,
  proc, pidFile, cmd, why,
  of, running, qa, report, claim, reports

Snapshots == INSTANCE RoomSnapshots
Health    == INSTANCE RouteHealth
Router    == INSTANCE RouterProcess
Desk      == INSTANCE RootReports WITH run <- running

ASSUME RootAssumption ==
  /\ Snapshots!SnapshotsAssumption /\ Health!RouteHealthAssumption
  /\ Router!RouterAssumption /\ Desk!ReportsAssumption

\* plan, build twice, test; the routes of a run, those it finds at the router, what its children
\* call them; the reports of the quality of a product.
MCScript   == <<"plan", "build", "build", "test">>
MCDefaults == <<"a", "b">>
MCPools    == {<<"a", "b">>, <<"p/b">>}
MCNames    == [a |-> "a", b |-> "b", f |-> "f"] @@ ("p/b" :> "b")
MCQuality  == <<"coverage">>

\* Two runs differ in nothing but their names.
Symmetry == Permutations(Runs)

snapshotsVars == <<room, archive, manifest, claimed, maker, grow, rooms, twins>>
healthVars    == <<clock, routes, build, run, raced>>
routerVars    == <<proc, pidFile, cmd, why>>
deskVars      == <<of, running, qa, report, claim, reports>>

vars == <<scenario, snapshotsVars, healthVars, routerVars, deskVars>>

-----------------------------------------------------------------------------
\* A component that is left out stays at one value.
NoSnapshots ==
  /\ room = 0 /\ archive = 0 /\ manifest = 0 /\ claimed = 0 /\ maker = 0 /\ grow = 0 /\ rooms = 0
  /\ twins = 0
NoHealth == clock = 0 /\ routes = 0 /\ build = 0 /\ run = 0 /\ raced = 0
NoRouter == proc = 0 /\ pidFile = 0 /\ cmd = 0 /\ why = 0
NoDesk   == of = 0 /\ running = 0 /\ qa = 0 /\ report = 0 /\ claim = 0 /\ reports = 0

Init ==
  \/ scenario = "snapshots" /\ Snapshots!Init /\ NoHealth /\ NoRouter /\ NoDesk
  \/ scenario = "health" /\ NoSnapshots /\ Health!Init /\ NoRouter /\ NoDesk
  \/ scenario = "router" /\ NoSnapshots /\ NoHealth /\ Router!Init /\ NoDesk
  \/ scenario = "desk" /\ NoSnapshots /\ NoHealth /\ NoRouter /\ Desk!Init

SnapshotsStep ==
  /\ scenario = "snapshots" /\ Snapshots!Next
  /\ UNCHANGED <<scenario, healthVars, routerVars, deskVars>>

HealthStep ==
  /\ scenario = "health" /\ Health!Next
  /\ UNCHANGED <<scenario, snapshotsVars, routerVars, deskVars>>

RouterStep ==
  /\ scenario = "router" /\ Router!Next
  /\ UNCHANGED <<scenario, snapshotsVars, healthVars, deskVars>>

DeskStep ==
  /\ scenario = "desk" /\ Desk!Next
  /\ UNCHANGED <<scenario, snapshotsVars, healthVars, routerVars>>

Next == SnapshotsStep \/ HealthStep \/ RouterStep \/ DeskStep

Spec == Init /\ [][Next]_vars

-----------------------------------------------------------------------------
\* The manifest and the branch's metadata name the archive that is there, of every phase, except
\* while an archive is being put in place or when the executor died over it (checkpoint.go:134).
SnapshotsAgree == scenario = "snapshots" => Snapshots!SnapshotsAgree

\* A room reported as prepared holds all of its archive and was left behind by no other regrowth;
\* two regrowths have one room only if both looked for it before either made it (main.go:2160).
SeedsWhole == scenario = "snapshots" => Snapshots!SeedsWhole

\* Without two updates at a time, build_health.json counts every position of the runs that came
\* to their end, and each once (build_health.go:63).
HistoryExact == scenario = "health" => Health!HistoryExact

\* A run behind the gate gives its agents only routes that answered its own probe, and builds on
\* none that did not build in two attempts it knows of, except the route it was told to use and
\* the names to which a child shortens a route (main.go:203, 215, 5738; build_health.go:128;
\* langchain_runner.py:862).
GatedRunsAvoidBlocked == scenario = "health" => Health!GatedRunsAvoidBlocked

\* The planning gate refuses a run that has just found a healthy route only if the probe grew old
\* or another process wrote the probes in between (planning.go:318, main.go:211, 1041).
RefusalsExplained == scenario = "health" => Health!RefusalsExplained

\* Between commands every router that runs is the one on file, unless a second one was started
\* while the first did not answer or was not on file yet, a deploy died before it wrote the
\* number, or a stop removed the number of a newer router (main.go:1460, 5138, 1506).
RoutersOnFile == scenario = "router" => Router!RoutersOnFile

\* A stop signals a process that is no router only after a router ended by itself, two stops at a
\* time, or a stop that died before it removed the file (main.go:1502, 5189).
StrangersExplained == scenario = "router" => Router!StrangersExplained

\* A root is called ready for production on the evidence of one run, the one on file, if that run
\* was complete when a refreshing qa began and nothing else wrote since (main.go:4406-4797).
ReadyOnOneRun == scenario = "desk" => Desk!ReadyOnOneRun
=============================================================================
