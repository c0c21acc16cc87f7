--------------------------- MODULE RouterProcess ---------------------------
(***************************************************************************)
(* The managed 9Router: qsm deploy, the start before a cycle of qsm        *)
(* autorun (and scripts/ensure_9router.sh, which calls deploy), qsm stop,  *)
(* and the pid file they share.  A started router takes its time before it *)
(* answers; only one can have the port; the system gives the number of a   *)
(* dead process to another one.                                            *)
(***************************************************************************)
EXTENDS Integers, FiniteSets

CONSTANTS
  Starters,   \* processes that make sure of a router: deploy and autorun
  Stoppers,   \* qsm stop
  Pids        \* bound: the numbers the system gives out

None == 0
Torn == -1

\* What is assumed of the constants.
RouterAssumption == Pids \subseteq Nat \ {0} /\ IsFiniteSet(Pids)

VARIABLES
  proc,      \* what lives under each number: "none", "router" (starting), "serving",
             \* "stopping" (signalled, it still answers), "other"
  pidFile,   \* 9router.pid: None, Torn or a number
  cmd,       \* the commands
  why        \* history: what has gone wrong so far

vars == <<proc, pidFile, cmd, why>>

Init ==
  /\ proc = [p \in Pids |-> "none"]
  /\ pidFile = None
  /\ cmd = [c \in Starters \cup Stoppers |-> [pc |-> "start", pid |-> None, hit |-> "nothing"]]
  /\ why = {}

RouterLive == \E p \in Pids : proc[p] \in {"serving", "stopping"}
Routers    == {p \in Pids : proc[p] \in {"router", "serving"}}

\* The number on file, if anything lives under it.
ReadPID == IF pidFile \in Pids /\ proc[pidFile] # "none" THEN pidFile ELSE None

Notes(cond, what) == why' = IF cond THEN why \cup {what} ELSE why

Goes(c, pc)  == cmd' = [cmd EXCEPT ![c].pc = pc]

-----------------------------------------------------------------------------
\* deploy and autorun: nothing to start if a router answers.
Check(c) ==
  /\ cmd[c].pc = "start"
  /\ IF RouterLive THEN cmd' = [cmd EXCEPT ![c].pc = "over", ![c].pid = ReadPID]
     ELSE Goes(c, "spawn")
  /\ UNCHANGED <<proc, pidFile, why>>

\* cmd.Start, in a process group of its own.  A router that is still starting is not seen.
Spawn(c) ==
  /\ cmd[c].pc = "spawn"
  /\ \E p \in Pids :
       /\ proc[p] = "none"
       /\ proc' = [proc EXCEPT ![p] = "router"]
       /\ cmd' = [cmd EXCEPT ![c].pc = "truncate", ![c].pid = p]
  /\ Notes(Routers # {} \/ \E d \in Starters : cmd[d].pc \in {"truncate", "write"}, "second start")
  /\ UNCHANGED pidFile

\* Mutant: a file that is there is kept.
TruncateNew(c) ==
  /\ cmd[c].pc = "truncate"
  /\ pidFile' = IF pidFile = None THEN Torn ELSE pidFile
  /\ Goes(c, IF pidFile = None THEN "write" ELSE "wait")
  /\ UNCHANGED <<proc, why>>

\* os.WriteFile of the pid file.
Truncate(c) ==
  /\ cmd[c].pc = "truncate"
  /\ pidFile' = Torn
  /\ Goes(c, "write")
  /\ UNCHANGED <<proc, why>>

WritePID(c) ==
  /\ cmd[c].pc = "write"
  /\ pidFile' = cmd[c].pid
  /\ Goes(c, "wait")
  /\ UNCHANGED <<proc, why>>

\* waitRouter ends with a router that answers or at its deadline.
WaitRouter(c) ==
  /\ cmd[c].pc = "wait"
  /\ Goes(c, "over")
  /\ UNCHANGED <<proc, pidFile, why>>

DieStarting(c) ==
  /\ cmd[c].pc \in {"truncate", "write"}
  /\ Goes(c, "dead")
  /\ Notes(TRUE, "starter died")
  /\ UNCHANGED <<proc, pidFile>>

-----------------------------------------------------------------------------
\* stop: nothing to do without a live process on file.
Look(c) ==
  /\ cmd[c].pc = "start"
  /\ cmd' = [cmd EXCEPT ![c].pc = IF ReadPID = None THEN "over" ELSE "signal", ![c].pid = ReadPID]
  /\ Notes(\E d \in Stoppers : cmd[d].pc \in {"signal", "remove"}, "two stops")
  /\ UNCHANGED <<proc, pidFile>>

\* Mutant: the file says what was stopped, and is left there.
RemoveNothing(c) ==
  /\ cmd[c].pc = "remove"
  /\ Goes(c, "over")
  /\ UNCHANGED <<proc, pidFile, why>>

\* The signal goes to the group of the number, or else to the process: whoever has it by now.
Signal(c) ==
  LET p == cmd[c].pid IN
  /\ cmd[c].pc = "signal"
  /\ cmd' = [cmd EXCEPT ![c].pc = "remove", ![c].hit = proc[p]]
  /\ proc' = [proc EXCEPT ![p] = IF @ \in {"serving", "stopping"} THEN "stopping" ELSE "none"]
  /\ UNCHANGED <<pidFile, why>>

\* The file is removed, whatever is in it by now.
Remove(c) ==
  /\ cmd[c].pc = "remove"
  /\ Goes(c, "over")
  /\ Notes(pidFile \in Routers, "removed another's")
  /\ pidFile' = None
  /\ UNCHANGED proc

DieStopping(c) ==
  /\ cmd[c].pc = "remove"
  /\ Goes(c, "dead")
  /\ Notes(TRUE, "stopper died")
  /\ UNCHANGED <<proc, pidFile>>

-----------------------------------------------------------------------------
\* The router binds the port, if it is free; otherwise it ends.
Bind(p) ==
  /\ proc[p] = "router"
  /\ proc' = [proc EXCEPT ![p] = IF RouterLive THEN "none" ELSE "serving"]
  /\ Notes(RouterLive, "no port")
  /\ UNCHANGED <<pidFile, cmd>>

\* A process ends: a router that was told to, one that was not, or another program.
End(p) ==
  /\ proc[p] # "none"
  /\ proc' = [proc EXCEPT ![p] = "none"]
  /\ Notes(p \in Routers, "crashed")
  /\ UNCHANGED <<pidFile, cmd>>

\* Another program is given the number.
Reuse(p) ==
  /\ proc[p] = "none"
  /\ proc' = [proc EXCEPT ![p] = "other"]
  /\ UNCHANGED <<pidFile, cmd, why>>

Next ==
  \/ \E c \in Starters : \/ Check(c) \/ Spawn(c) \/ Truncate(c) \/ WritePID(c) \/ WaitRouter(c)
                         \/ DieStarting(c)
  \/ \E c \in Stoppers : Look(c) \/ Signal(c) \/ Remove(c) \/ DieStopping(c)
  \/ \E p \in Pids : Bind(p) \/ End(p) \/ Reuse(p)

Spec == Init /\ [][Next]_vars

-----------------------------------------------------------------------------
\* Between commands every router that runs is the one on file, which qsm stop will find, unless a
\* second one was started while the first did not answer or was not on file yet, a deploy died
\* before it wrote the number, or a stop removed the number of a newer router (main.go:1460, 5138,
\* 1506).
RoutersOnFile ==
  (\A c \in DOMAIN cmd : cmd[c].pc \in {"start", "spawn", "wait", "over", "dead"}) =>
     \/ Routers \subseteq {pidFile}
     \/ why \cap {"second start", "starter died", "removed another's"} # {}

\* A stop signals a process that is no router only after a router ended by itself, two stops at a
\* time, or a stop that died before it removed the file (main.go:1502, 5189).
StrangersExplained ==
  (\E c \in Stoppers : cmd[c].hit = "other") =>
     why \cap {"crashed", "no port", "two stops", "stopper died"} # {}
=============================================================================
