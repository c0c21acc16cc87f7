------------------------- MODULE AutorunCycles_proof -------------------------
(***************************************************************************)
(* Proofs about AutorunCycles for every set of rooms and every number of   *)
(* cycles.                                                                 *)
(***************************************************************************)
EXTENDS AutorunCycles, TLAPS

USE AutorunAssumption

LEMMA Start == Init => Inductive
BY DEF Init, Inductive, TypeOK, LoopSteps, Parents, FilesFollowRun, DeliveryFollowsRun, RoomsKept,
   VerdictBacked, FinishedRunsAgree, OrphansExplained, DeliveredAsJudged, StatusAgrees, Working,
   JudgedOnly, Orphans, Versions, Cycles

-----------------------------------------------------------------------------
\* The files keep their shape.

LEMMA VerdictShape ==
  ASSUME TypeOK, NEW w \in Rooms, NEW b \in BOOLEAN, NEW c \in 0 .. MaxCycles
  PROVE  /\ [cycle |-> c, winner |-> w, approved |-> b]
              \in [cycle : 0 .. MaxCycles, winner : Rooms, approved : BOOLEAN]
         /\ [verdict EXCEPT !.approved = b]
              \in [cycle : 0 .. MaxCycles, winner : Rooms, approved : BOOLEAN]
BY DEF TypeOK

\* A file is copied while the winner of an approving verdict is there, and a cycle runs.
LEMMA CopyShape ==
  ASSUME Inductive, CopyFile
  PROVE  /\ cycle \in Cycles
         /\ delivery[cycle] \in Seq(Versions)
         /\ product[verdict.winner] \in Versions
         /\ delivery'[cycle] = Append(delivery[cycle], product[verdict.winner])
         /\ \A c \in Cycles \ {cycle} : delivery'[c] = delivery[c]
         /\ delivery' \in [Cycles -> Seq(Versions)]
<1>1. cycle \in Cycles
  BY DEF Inductive, TypeOK, LoopSteps, CopyFile, Cycles
<1>2. verdict.winner \in Rooms BY DEF Inductive, TypeOK
<1>3. /\ delivery \in [Cycles -> Seq(Versions)]
      /\ product[verdict.winner] \in Versions
  BY <1>2 DEF Inductive, TypeOK
<1>4. delivery' = [delivery EXCEPT ![cycle] = Append(@, product[verdict.winner])]
  BY DEF CopyFile
<1>5. Append(delivery[cycle], product[verdict.winner]) \in Seq(Versions)
  BY <1>1, <1>3
<1>6. QED BY <1>1, <1>3, <1>4, <1>5

LEMMA TypeKept == Inductive /\ [Next]_vars => TypeOK'
<1> SUFFICES ASSUME Inductive, [Next]_vars PROVE TypeOK'
  OBVIOUS
<1> USE DEF Inductive, autorunVars, nodeVars, roomVars, stateFiles
<1>1. CASE StartCycle \/ AutorunFails \/ Kill \/ Reap
  <2>1. CASE StartCycle BY <2>1 DEF StartCycle, TypeOK, LoopSteps, Cycles
  <2>2. CASE AutorunFails BY <2>2 DEF AutorunFails, TypeOK
  <2>3. CASE Kill
    <3>1. killed' \subseteq Cycles BY <2>3 DEF Kill, TypeOK, LoopSteps, Cycles
    <3>2. QED BY <2>3, <3>1 DEF Kill, TypeOK
  <2>4. CASE Reap BY <2>4 DEF Reap, AfterCycle, TypeOK
  <2>5. QED BY <1>1, <2>1, <2>2, <2>3, <2>4
<1>2. CASE Fatal \/ Chop \/ ChopFails \/ Finish
  <2>1. [r \in Rooms |-> 0] \in [Rooms -> Versions] BY DEF Versions
  <2>2. [r \in Rooms |-> "none"] \in [Rooms -> {"none", "running", "succeeded", "failed"}]
    OBVIOUS
  <2>3. [r \in Rooms |-> "idle"] \in [Rooms -> {"idle", "running", "verify", "passed", "failed"}]
    OBVIOUS
  <2>4. QED BY <1>2, <2>1, <2>2, <2>3 DEF Fatal, Chop, ChopFails, ClearRooms, Finish, TypeOK
<1>3. CASE Report
  <2>1. PICK S \in SUBSET Rooms : WriteReport(S) BY <1>3 DEF Report, Decided
  <2>2. Succeeded \in SUBSET Rooms BY DEF Succeeded
  <2>3. report' \in [cycle : 0 .. MaxCycles, results : SUBSET Rooms, succeeded : SUBSET Rooms]
    BY <2>1, <2>2 DEF WriteReport, TypeOK
  <2>4. QED BY <2>1, <2>3 DEF WriteReport, TypeOK
<1>4. CASE Collapse
  <2>1. PICK w \in Rooms, b \in BOOLEAN :
          verdict' = [cycle |-> cycle, winner |-> w, approved |-> b]
    <3>1. Succeeded \in SUBSET Rooms /\ report.results \in SUBSET Rooms
      BY DEF TypeOK, Succeeded
    <3>2. QED BY <1>4, <3>1 DEF Collapse
  <2>2. verdict' \in [cycle : 0 .. MaxCycles, winner : Rooms, approved : BOOLEAN]
    BY <2>1, VerdictShape DEF TypeOK
  <2>3. QED BY <1>4, <2>2 DEF Collapse, TypeOK
<1>5. CASE Gate
  <2>1. PICK b \in BOOLEAN : verdict' = [verdict EXCEPT !.approved = b]
    BY <1>5 DEF Gate, TypeOK
  <2>2. verdict' \in [cycle : 0 .. MaxCycles, winner : Rooms, approved : BOOLEAN]
    BY <2>1, VerdictShape DEF TypeOK
  <2>3. QED BY <1>5, <2>2 DEF Gate, TypeOK
<1>6. CASE CopyFile
  <2>1. delivery' \in [Cycles -> Seq(Versions)] BY <1>6, CopyShape
  <2>2. QED BY <1>6, <2>1 DEF CopyFile, TypeOK
<1>7. ASSUME NEW r \in Rooms, NodeRefused(r) \/ Launch(r) \/ Collect(r) PROVE TypeOK'
  <2>1. CASE NodeRefused(r) BY <2>1 DEF NodeRefused, TypeOK
  <2>2. CASE Launch(r)
    <3>1. <<cycle, r>> \in Cycles \X Rooms BY <2>2 DEF Launch, TypeOK, LoopSteps, Cycles
    <3>2. QED BY <2>2, <3>1 DEF Launch, TypeOK
  <2>3. CASE Collect(r) BY <2>3 DEF Collect, TypeOK
  <2>4. QED BY <1>7, <2>1, <2>2, <2>3
<1>8. ASSUME NEW r \in Rooms, Judge(r) PROVE TypeOK'
  <2>1. checked' \in [Rooms -> Versions] BY <1>8 DEF Judge, TypeOK
  <2>2. /\ node' \in [Rooms -> {"idle", "running", "verify", "passed", "failed"}]
        /\ status' \in [Rooms -> {"none", "running", "succeeded", "failed"}]
    BY <1>8 DEF Judge, TypeOK
  <2>3. QED BY <1>8, <2>1, <2>2 DEF Judge, TypeOK
<1>9. ASSUME NEW p \in procs, WritesProduct(p) PROVE TypeOK'
  <2>1. edits' \in Versions BY <1>9 DEF WritesProduct, TypeOK, Versions
  <2>2. product' \in [Rooms -> Versions] BY <1>9, <2>1 DEF WritesProduct, TypeOK
  <2>3. QED BY <1>9, <2>1, <2>2 DEF WritesProduct, TypeOK
<1>10. ASSUME NEW p \in procs, PatchesStatus(p) PROVE TypeOK'
  <2>1. status' \in [Rooms -> {"none", "running", "succeeded", "failed"}]
    BY <1>10 DEF PatchesStatus, TypeOK
  <2>2. QED BY <1>10, <2>1 DEF PatchesStatus, TypeOK
<1>11. ASSUME NEW p \in procs, OrphanDies(p) PROVE TypeOK'
  BY <1>11 DEF OrphanDies, TypeOK
<1>12. CASE UNCHANGED vars
  BY <1>12 DEF vars, TypeOK
<1>13. QED
  BY <1>1, <1>2, <1>3, <1>4, <1>5, <1>6, <1>7, <1>8, <1>9, <1>10, <1>11, <1>12
     DEF Next, AutorunNext, RunNext, NodeNext, ProcNext, Ended

-----------------------------------------------------------------------------
\* Each step, and under it what it may disturb.

LEMMA Preserved == Inductive /\ [Next]_vars => Inductive'
<1> SUFFICES ASSUME Inductive, [Next]_vars PROVE Inductive'
  OBVIOUS
<1> USE DEF Inductive, autorunVars, nodeVars, roomVars, stateFiles
<1>1. CASE StartCycle
  <2>1. TypeOK' BY TypeKept
  <2>2. LoopSteps' BY <1>1 DEF StartCycle, LoopSteps, TypeOK, Working
  <2>3. Parents' BY <1>1 DEF StartCycle, Parents, Parented, LoopSteps
  <2>4. FilesFollowRun' BY <1>1 DEF StartCycle, FilesFollowRun, TypeOK, VerdictBacked
  <2>5. DeliveryFollowsRun' BY <1>1 DEF StartCycle, DeliveryFollowsRun, TypeOK, LoopSteps, Cycles
  <2>6. RoomsKept' BY <1>1 DEF StartCycle, RoomsKept, Working
  <2>7. FinishedRunsAgree' BY <1>1 DEF StartCycle, FinishedRunsAgree
  <2>8. DeliveredAsJudged'
    BY <1>1 DEF StartCycle, DeliveredAsJudged, JudgedOnly, TypeOK, LoopSteps,
       DeliveryFollowsRun, Cycles
  <2>9. StatusAgrees' BY <1>1 DEF StartCycle, StatusAgrees
  <2>10. VerdictBacked' BY <1>1 DEF StartCycle, VerdictBacked
  <2>11. OrphansExplained' BY <2>3 DEF Parents, OrphansExplained, Orphans
  <2>12. QED BY <2>1, <2>2, <2>3, <2>4, <2>5, <2>6, <2>7, <2>8, <2>9, <2>10, <2>11
<1>2. CASE AutorunFails
  <2>1. TypeOK' BY TypeKept
  <2>2. LoopSteps' BY <1>2 DEF AutorunFails, LoopSteps
  <2>3. /\ Parents' /\ FilesFollowRun' /\ DeliveryFollowsRun' /\ RoomsKept'
        /\ VerdictBacked' /\ FinishedRunsAgree' /\ DeliveredAsJudged' /\ StatusAgrees'
    BY <1>2 DEF AutorunFails, Parents, Parented, FilesFollowRun, Decided, Succeeded,
       DeliveryFollowsRun, RoomsKept, Working, VerdictBacked, FinishedRunsAgree,
       DeliveredAsJudged, JudgedOnly, StatusAgrees
  <2>4. OrphansExplained' BY <2>3 DEF Parents, OrphansExplained, Orphans
  <2>5. QED BY <2>1, <2>2, <2>3, <2>4
<1>3. CASE Kill
  <2>1. TypeOK' BY TypeKept
  <2>2. LoopSteps' BY <1>3 DEF Kill, LoopSteps, Working, TypeOK
  <2>3. Parents' BY <1>3 DEF Kill, Parents, Parented
  <2>4. FilesFollowRun' BY <1>3 DEF Kill, FilesFollowRun
  <2>5. DeliveryFollowsRun' BY <1>3 DEF Kill, DeliveryFollowsRun
  <2>6. RoomsKept' BY <1>3 DEF Kill, RoomsKept
  <2>7. FinishedRunsAgree' BY <1>3 DEF Kill, FinishedRunsAgree
  <2>8. DeliveredAsJudged' BY <1>3 DEF Kill, DeliveredAsJudged
  <2>9. StatusAgrees' BY <1>3 DEF Kill, StatusAgrees
  <2>10. VerdictBacked' BY <1>3 DEF Kill, VerdictBacked
  <2>11. OrphansExplained' BY <2>3 DEF Parents, OrphansExplained, Orphans
  <2>12. QED BY <2>1, <2>2, <2>3, <2>4, <2>5, <2>6, <2>7, <2>8, <2>9, <2>10, <2>11
<1>4. CASE Reap
  <2>1. TypeOK' BY TypeKept
  <2>2. LoopSteps' BY <1>4 DEF Reap, LoopSteps, Working, AfterCycle
  <2>3. Parents' BY <1>4 DEF Reap, Parents, Parented, AfterCycle
  <2>4. FilesFollowRun' BY <1>4 DEF Reap, FilesFollowRun, AfterCycle
  <2>5. DeliveryFollowsRun' BY <1>4 DEF Reap, DeliveryFollowsRun, AfterCycle
  <2>6. RoomsKept' BY <1>4 DEF Reap, RoomsKept, Working, AfterCycle
  <2>7. FinishedRunsAgree' BY <1>4 DEF Reap, FinishedRunsAgree, AfterCycle
  <2>8. StatusAgrees' BY <1>4 DEF Reap, StatusAgrees, AfterCycle
  <2>9. VerdictBacked' /\ DeliveredAsJudged'
    BY <1>4 DEF Reap, VerdictBacked, DeliveredAsJudged, JudgedOnly, AfterCycle
  <2>10. OrphansExplained' BY <2>3 DEF Parents, OrphansExplained, Orphans
  <2>11. QED BY <2>1, <2>2, <2>3, <2>4, <2>5, <2>6, <2>7, <2>8, <2>9, <2>10
<1>5. CASE Fatal
  <2>1. TypeOK' BY TypeKept
  <2>2. LoopSteps' BY <1>5 DEF Fatal, LoopSteps, Working
  <2>3. Parents'
    <3>1. run = "nodes" => \A q \in procs : node[q[2]] # "running"
      <4>1. run = "nodes" => \A r \in Rooms : node[r] # "running"
        BY <1>5 DEF Fatal, ExecutorReturns, Decided
      <4>2. \A q \in procs : q[2] \in Rooms
        BY DEF TypeOK
      <4> QED
        BY <4>1, <4>2
    <3>2. QED BY <1>5, <3>1 DEF Fatal, Parents, Parented
  <2>4. FilesFollowRun' BY <1>5 DEF Fatal, FilesFollowRun
  <2>5. DeliveryFollowsRun' BY <1>5 DEF Fatal, DeliveryFollowsRun
  <2>6. RoomsKept' BY <1>5 DEF Fatal, RoomsKept, Working
  <2>7. FinishedRunsAgree' BY <1>5 DEF Fatal, FinishedRunsAgree
  <2>8. StatusAgrees' BY <1>5 DEF Fatal, StatusAgrees
  <2>9. VerdictBacked' /\ DeliveredAsJudged'
    BY <1>5 DEF Fatal, VerdictBacked, DeliveredAsJudged, JudgedOnly
  <2>10. OrphansExplained' BY <2>3 DEF Parents, OrphansExplained, Orphans
  <2>11. QED BY <2>1, <2>2, <2>3, <2>4, <2>5, <2>6, <2>7, <2>8, <2>9, <2>10
<1>6. CASE Chop
  <2>1. TypeOK' BY TypeKept
  <2>2. LoopSteps' BY <1>6 DEF Chop, LoopSteps, Working, ClearRooms
  <2>3. Parents' BY <1>6 DEF Chop, Parents, Parented, ClearRooms
  <2>4. FilesFollowRun' BY <1>6 DEF Chop, FilesFollowRun, ClearRooms
  <2>5. DeliveryFollowsRun' BY <1>6 DEF Chop, DeliveryFollowsRun, ClearRooms
  <2>6. RoomsKept' BY <1>6 DEF Chop, RoomsKept, ClearRooms
  <2>7. DeliveredAsJudged'
    BY <1>6 DEF Chop, DeliveredAsJudged, JudgedOnly, ClearRooms, DeliveryFollowsRun
  <2>8. StatusAgrees' BY <1>6 DEF Chop, StatusAgrees, ClearRooms, LoopSteps, Working
  <2>9. VerdictBacked' /\ FinishedRunsAgree'
    BY <1>6 DEF Chop, VerdictBacked, FinishedRunsAgree, ClearRooms
  <2>10. OrphansExplained' BY <2>3 DEF Parents, OrphansExplained, Orphans
  <2>11. QED BY <2>1, <2>2, <2>3, <2>4, <2>5, <2>6, <2>7, <2>8, <2>9, <2>10
<1>7. CASE ChopFails
  <2>1. TypeOK' BY TypeKept
  <2>2. LoopSteps' BY <1>7 DEF ChopFails, LoopSteps, Working, ClearRooms
  <2>3. Parents' BY <1>7 DEF ChopFails, Parents, Parented, ClearRooms
  <2>4. FilesFollowRun' BY <1>7 DEF ChopFails, FilesFollowRun, ClearRooms
  <2>5. DeliveryFollowsRun' BY <1>7 DEF ChopFails, DeliveryFollowsRun, ClearRooms
  <2>6. RoomsKept' BY <1>7 DEF ChopFails, RoomsKept, Working, ClearRooms
  <2>7. FinishedRunsAgree' BY <1>7 DEF ChopFails, FinishedRunsAgree, ClearRooms
  <2>8. StatusAgrees' BY <1>7 DEF ChopFails, StatusAgrees, ClearRooms
  <2>9. VerdictBacked' /\ DeliveredAsJudged'
    BY <1>7 DEF ChopFails, VerdictBacked, DeliveredAsJudged, JudgedOnly, ClearRooms
  <2>10. OrphansExplained' BY <2>3 DEF Parents, OrphansExplained, Orphans
  <2>11. QED BY <2>1, <2>2, <2>3, <2>4, <2>5, <2>6, <2>7, <2>8, <2>9, <2>10
<1>8. CASE Report
  <2>1. TypeOK' BY TypeKept
  <2>2. LoopSteps' BY <1>8 DEF Report, LoopSteps, Working, WriteReport
  <2>3. Parents'
    <3>1. \A q \in procs : node[q[2]] # "running"
      BY <1>8 DEF Report, ExecutorReturns, Decided, TypeOK
    <3>2. QED BY <1>8, <3>1 DEF Report, WriteReport, Parents, Parented
  <2>4. FilesFollowRun'
    <3>1. Decided # {} => Decided = Rooms BY <1>8 DEF Report, ExecutorReturns, Decided
    <3>2. Decided' = Decided /\ Succeeded' = Succeeded
      BY <1>8 DEF Report, WriteReport, Decided, Succeeded
    <3>3. QED BY <1>8, <3>1, <3>2 DEF Report, FilesFollowRun, WriteReport, TypeOK
  <2>5. DeliveryFollowsRun' BY <1>8 DEF Report, DeliveryFollowsRun, WriteReport
  <2>6. RoomsKept' BY <1>8 DEF Report, RoomsKept, Working, WriteReport
  <2>7. VerdictBacked' BY <1>8 DEF Report, VerdictBacked, WriteReport, TypeOK, FilesFollowRun
  <2>8. FinishedRunsAgree' BY <1>8 DEF Report, FinishedRunsAgree, WriteReport
  <2>9. StatusAgrees' BY <1>8 DEF Report, StatusAgrees, WriteReport, LoopSteps, Working
  <2>10. DeliveredAsJudged' BY <1>8 DEF Report, DeliveredAsJudged, JudgedOnly, WriteReport
  <2>11. OrphansExplained' BY <2>3 DEF Parents, OrphansExplained, Orphans
  <2>12. QED BY <2>1, <2>2, <2>3, <2>4, <2>5, <2>6, <2>7, <2>8, <2>9, <2>10, <2>11
<1>9. CASE Collapse
  <2>1. TypeOK' BY TypeKept
  <2>2. LoopSteps' BY <1>9 DEF Collapse, LoopSteps, Working
  <2>3. Parents' BY <1>9 DEF Collapse, Parents, Parented
  <2>4. FilesFollowRun' BY <1>9 DEF Collapse, FilesFollowRun, Decided, Succeeded
  <2>5. DeliveryFollowsRun' BY <1>9 DEF Collapse, DeliveryFollowsRun
  <2>6. RoomsKept' BY <1>9 DEF Collapse, RoomsKept, Working
  <2>7. VerdictBacked'
    <3>1. report.cycle = cycle /\ report.succeeded = Succeeded
      BY <1>9 DEF Collapse, FilesFollowRun
    <3>2. /\ verdict'.cycle = cycle
          /\ verdict'.approved => verdict'.winner \in Succeeded
      <4>1. PICK approved \in SUBSET Succeeded :
              \E winner \in IF approved = {} THEN report.results ELSE approved :
                verdict' = [cycle |-> cycle, winner |-> winner, approved |-> approved # {}]
        BY <1>9 DEF Collapse
      <4>2. PICK winner \in IF approved = {} THEN report.results ELSE approved :
              verdict' = [cycle |-> cycle, winner |-> winner, approved |-> approved # {}]
        BY <4>1
      <4>3. /\ verdict'.cycle = cycle /\ verdict'.winner = winner
            /\ verdict'.approved = (approved # {})
        BY <4>2, Zenon
      <4>4. approved # {} => winner \in Succeeded BY <4>1
      <4>5. verdict'.approved => approved # {} BY <4>3, Zenon
      <4>6. QED BY <4>3, <4>4, <4>5
    <3>3. QED BY <1>9, <3>1, <3>2 DEF Collapse, VerdictBacked, TypeOK
  <2>8. FinishedRunsAgree' BY <1>9 DEF Collapse, FinishedRunsAgree, LoopSteps, Working
  <2>9. DeliveredAsJudged' BY <1>9 DEF Collapse, DeliveredAsJudged, JudgedOnly, DeliveryFollowsRun
  <2>10. StatusAgrees' BY <1>9 DEF Collapse, StatusAgrees
  <2>11. OrphansExplained' BY <2>3 DEF Parents, OrphansExplained, Orphans
  <2>12. QED BY <2>1, <2>2, <2>3, <2>4, <2>5, <2>6, <2>7, <2>8, <2>9, <2>10, <2>11
<1>10. CASE Gate
  <2>1. TypeOK' BY TypeKept
  <2>2. LoopSteps' BY <1>10 DEF Gate, LoopSteps, Working
  <2>3. Parents' BY <1>10 DEF Gate, Parents, Parented
  <2>4. FilesFollowRun' BY <1>10 DEF Gate, FilesFollowRun, Decided, Succeeded
  <2>5. DeliveryFollowsRun' BY <1>10 DEF Gate, DeliveryFollowsRun, LoopSteps
  <2>6. RoomsKept' BY <1>10 DEF Gate, RoomsKept, Working
  <2>7. VerdictBacked' BY <1>10 DEF Gate, VerdictBacked, TypeOK
  <2>8. FinishedRunsAgree' BY <1>10 DEF Gate, FinishedRunsAgree, LoopSteps, Working
  <2>9. DeliveredAsJudged' BY <1>10 DEF Gate, DeliveredAsJudged, JudgedOnly
  <2>10. StatusAgrees' BY <1>10 DEF Gate, StatusAgrees
  <2>11. OrphansExplained' BY <2>3 DEF Parents, OrphansExplained, Orphans
  <2>12. QED BY <2>1, <2>2, <2>3, <2>4, <2>5, <2>6, <2>7, <2>8, <2>9, <2>10, <2>11
<1>11. CASE CopyFile
  <2>1. TypeOK' BY TypeKept
  <2>2. LoopSteps' BY <1>11 DEF CopyFile, LoopSteps, Working
  <2>3. Parents' BY <1>11 DEF CopyFile, Parents, Parented
  <2>4. FilesFollowRun' BY <1>11 DEF CopyFile, FilesFollowRun, Decided, Succeeded
  <2>5. DeliveryFollowsRun'
    <3>1. Len(delivery'[cycle]) = Len(delivery[cycle]) + 1 /\ Len(delivery[cycle]) \in Nat
      BY <1>11, CopyShape
    <3>2. verdict.approved /\ Len(delivery[cycle]) < 2
      BY <1>11 DEF CopyFile, DeliveryFollowsRun
    <3>3. \A c \in Cycles : c > cycle => delivery'[c] = <<>>
      BY <1>11, CopyShape DEF CopyFile, DeliveryFollowsRun, Cycles
    <3>4. QED BY <1>11, <3>1, <3>2, <3>3 DEF CopyFile, DeliveryFollowsRun
  <2>6. RoomsKept' BY <1>11 DEF CopyFile, RoomsKept, Working
  <2>7. FinishedRunsAgree' BY <1>11 DEF CopyFile, FinishedRunsAgree, LoopSteps, DeliveryFollowsRun
  <2>8. DeliveredAsJudged'
    BY <1>11 DEF CopyFile, DeliveredAsJudged, JudgedOnly, FilesFollowRun,
       DeliveryFollowsRun, RoomsKept, Succeeded, Working, VerdictBacked
  <2>9. VerdictBacked' /\ StatusAgrees' BY <1>11 DEF CopyFile, VerdictBacked, StatusAgrees
  <2>10. OrphansExplained' BY <2>3 DEF Parents, OrphansExplained, Orphans
  <2>11. QED BY <2>1, <2>2, <2>3, <2>4, <2>5, <2>6, <2>7, <2>8, <2>9, <2>10
<1>12. CASE Finish
  <2>1. TypeOK' BY TypeKept
  <2>2. LoopSteps' BY <1>12 DEF Finish, LoopSteps, Working
  <2>3. Parents' BY <1>12 DEF Finish, Parents, Parented
  <2>4. FilesFollowRun' BY <1>12 DEF Finish, FilesFollowRun
  <2>5. DeliveryFollowsRun' BY <1>12 DEF Finish, DeliveryFollowsRun
  <2>6. RoomsKept' BY <1>12 DEF Finish, RoomsKept, Working
  <2>7. FinishedRunsAgree'
    BY <1>12 DEF Finish, FinishedRunsAgree, FilesFollowRun, DeliveryFollowsRun
  <2>8. StatusAgrees'
    BY <1>12 DEF Finish, StatusAgrees, Working, RoomsKept, FilesFollowRun, Decided,
       Succeeded
  <2>9. VerdictBacked' /\ DeliveredAsJudged'
    BY <1>12 DEF Finish, VerdictBacked, DeliveredAsJudged, JudgedOnly
  <2>10. OrphansExplained' BY <2>3 DEF Parents, OrphansExplained, Orphans
  <2>11. QED BY <2>1, <2>2, <2>3, <2>4, <2>5, <2>6, <2>7, <2>8, <2>9, <2>10
<1>13. ASSUME NEW r \in Rooms, NodeRefused(r) PROVE Inductive'
  <2>1. TypeOK' BY TypeKept
  <2>2. Parents' BY <1>13 DEF NodeRefused, Parents, Parented
  <2>3. FilesFollowRun' BY <1>13 DEF NodeRefused, FilesFollowRun
  <2>4. RoomsKept' BY <1>13 DEF NodeRefused, RoomsKept, TypeOK
  <2>5. StatusAgrees' BY <1>13 DEF NodeRefused, StatusAgrees, LoopSteps, Working
  <2>6. /\ LoopSteps' /\ DeliveryFollowsRun' /\ VerdictBacked' /\ FinishedRunsAgree'
        /\ DeliveredAsJudged'
    BY <1>13 DEF NodeRefused, LoopSteps, Working, DeliveryFollowsRun, VerdictBacked,
       FinishedRunsAgree, DeliveredAsJudged, JudgedOnly
  <2>7. OrphansExplained' BY <2>2 DEF Parents, OrphansExplained, Orphans
  <2>8. QED BY <2>1, <2>2, <2>3, <2>4, <2>5, <2>6, <2>7
<1>14. ASSUME NEW r \in Rooms, Launch(r) PROVE Inductive'
  <2>1. TypeOK' BY TypeKept
  <2>2. Parents' BY <1>14 DEF Launch, Parents, Parented, TypeOK
  <2>3. FilesFollowRun' BY <1>14 DEF Launch, FilesFollowRun
  <2>4. RoomsKept' BY <1>14 DEF Launch, RoomsKept
  <2>5. StatusAgrees' BY <1>14 DEF Launch, StatusAgrees, LoopSteps, Working
  <2>6. /\ LoopSteps' /\ DeliveryFollowsRun' /\ VerdictBacked' /\ FinishedRunsAgree'
        /\ DeliveredAsJudged'
    BY <1>14 DEF Launch, LoopSteps, Working, DeliveryFollowsRun, VerdictBacked,
       FinishedRunsAgree, DeliveredAsJudged, JudgedOnly
  <2>7. OrphansExplained' BY <2>2 DEF Parents, OrphansExplained, Orphans
  <2>8. QED BY <2>1, <2>2, <2>3, <2>4, <2>5, <2>6, <2>7
<1>15. ASSUME NEW r \in Rooms, Collect(r) PROVE Inductive'
  <2>1. TypeOK' BY TypeKept
  <2>2. Parents' BY <1>15 DEF Collect, Parents, Parented, TypeOK
  <2>3. FilesFollowRun' BY <1>15 DEF Collect, FilesFollowRun
  <2>4. RoomsKept' BY <1>15 DEF Collect, RoomsKept
  <2>5. /\ LoopSteps' /\ DeliveryFollowsRun' /\ VerdictBacked' /\ FinishedRunsAgree'
        /\ DeliveredAsJudged' /\ StatusAgrees'
    BY <1>15 DEF Collect, LoopSteps, Working, DeliveryFollowsRun, VerdictBacked,
       FinishedRunsAgree, DeliveredAsJudged, JudgedOnly, StatusAgrees
  <2>6. OrphansExplained' BY <2>2 DEF Parents, OrphansExplained, Orphans
  <2>7. QED BY <2>1, <2>2, <2>3, <2>4, <2>5, <2>6
<1>16. ASSUME NEW r \in Rooms, Judge(r) PROVE Inductive'
  <2>1. TypeOK' BY TypeKept
  <2>2. Parents' BY <1>16 DEF Judge, Parents, Parented, TypeOK
  <2>3. FilesFollowRun' BY <1>16 DEF Judge, FilesFollowRun
  <2>4. RoomsKept' BY <1>16 DEF Judge, RoomsKept, Working, TypeOK
  <2>5. DeliveredAsJudged' BY <1>16 DEF Judge, DeliveredAsJudged, JudgedOnly, DeliveryFollowsRun
  <2>6. StatusAgrees' BY <1>16 DEF Judge, StatusAgrees, LoopSteps, Working
  <2>7. LoopSteps' /\ DeliveryFollowsRun' /\ VerdictBacked' /\ FinishedRunsAgree'
    BY <1>16 DEF Judge, LoopSteps, Working, DeliveryFollowsRun, VerdictBacked,
       FinishedRunsAgree
  <2>8. OrphansExplained' BY <2>2 DEF Parents, OrphansExplained, Orphans
  <2>9. QED BY <2>1, <2>2, <2>3, <2>4, <2>5, <2>6, <2>7, <2>8
<1>17. ASSUME NEW p \in procs, WritesProduct(p) PROVE Inductive'
  <2>1. TypeOK' BY TypeKept
  <2>2. RoomsKept' BY <1>17 DEF WritesProduct, RoomsKept, Parents
  <2>3. /\ LoopSteps' /\ Parents' /\ FilesFollowRun' /\ DeliveryFollowsRun'
        /\ VerdictBacked' /\ FinishedRunsAgree' /\ DeliveredAsJudged' /\ StatusAgrees'
    BY <1>17 DEF WritesProduct, LoopSteps, Working, Parents, Parented, FilesFollowRun,
       Decided, Succeeded, DeliveryFollowsRun, VerdictBacked, FinishedRunsAgree,
       DeliveredAsJudged, JudgedOnly, StatusAgrees
  <2>4. OrphansExplained' BY <2>3 DEF Parents, OrphansExplained, Orphans
  <2>5. QED BY <2>1, <2>2, <2>3, <2>4
<1>18. ASSUME NEW p \in procs, PatchesStatus(p) PROVE Inductive'
  <2>1. TypeOK' BY TypeKept
  <2>2. RoomsKept' BY <1>18 DEF PatchesStatus, RoomsKept, Parents
  <2>3. StatusAgrees'
    BY <1>18 DEF PatchesStatus, StatusAgrees, LoopSteps, Working, Parents, Parented
  <2>4. /\ LoopSteps' /\ Parents' /\ FilesFollowRun' /\ DeliveryFollowsRun'
        /\ VerdictBacked' /\ FinishedRunsAgree' /\ DeliveredAsJudged'
    BY <1>18 DEF PatchesStatus, LoopSteps, Working, Parents, Parented, FilesFollowRun,
       Decided, Succeeded, DeliveryFollowsRun, VerdictBacked, FinishedRunsAgree,
       DeliveredAsJudged, JudgedOnly
  <2>5. OrphansExplained' BY <2>4 DEF Parents, OrphansExplained, Orphans
  <2>6. QED BY <2>1, <2>2, <2>3, <2>4, <2>5
<1>19. ASSUME NEW p \in procs, OrphanDies(p) PROVE Inductive'
  <2>1. TypeOK' BY TypeKept
  <2>2. Parents' BY <1>19 DEF OrphanDies, Parents, Parented, Orphans
  <2>3. /\ LoopSteps' /\ FilesFollowRun' /\ DeliveryFollowsRun' /\ RoomsKept'
        /\ VerdictBacked' /\ FinishedRunsAgree' /\ DeliveredAsJudged' /\ StatusAgrees'
    BY <1>19 DEF OrphanDies, LoopSteps, Working, FilesFollowRun, Decided, Succeeded,
       DeliveryFollowsRun, RoomsKept, VerdictBacked, FinishedRunsAgree, DeliveredAsJudged,
       JudgedOnly, StatusAgrees, Orphans
  <2>4. OrphansExplained' BY <2>2 DEF Parents, OrphansExplained, Orphans
  <2>5. QED BY <2>1, <2>2, <2>3, <2>4
<1>20. CASE UNCHANGED vars
  <2>1. TypeOK' BY TypeKept
  <2>2. LoopSteps' /\ Parents' BY <1>20 DEF vars, LoopSteps, Working, Parents, Parented
  <2>3. FilesFollowRun' /\ DeliveryFollowsRun'
    BY <1>20 DEF vars, FilesFollowRun, Decided, Succeeded, DeliveryFollowsRun
  <2>4. RoomsKept' /\ VerdictBacked' BY <1>20 DEF vars, RoomsKept, Working, VerdictBacked
  <2>5. FinishedRunsAgree' BY <1>20 DEF vars, FinishedRunsAgree
  <2>6. OrphansExplained' BY <2>2 DEF Parents, OrphansExplained, Orphans
  <2>7. DeliveredAsJudged' BY <1>20 DEF vars, DeliveredAsJudged, JudgedOnly
  <2>8. StatusAgrees' BY <1>20 DEF vars, StatusAgrees
  <2>9. QED BY <2>1, <2>2, <2>3, <2>4, <2>5, <2>6, <2>7, <2>8
<1>21. QED
  BY <1>1, <1>2, <1>3, <1>4, <1>5, <1>6, <1>7, <1>8, <1>9, <1>10, <1>11,
     <1>12, <1>13, <1>14, <1>15, <1>16, <1>17, <1>18, <1>19, <1>20
     DEF Next, AutorunNext, RunNext, NodeNext, ProcNext, Ended

\* The invariant that ties the files, the rooms and the processes to the run.
THEOREM Invariance == Spec => []Inductive
BY Start, Preserved, PTL DEF Spec

\* Every variable keeps its shape; the loop stops after MaxCycles cycles.
THEOREM TypeCorrect == Spec => []TypeOK
<1>1. Inductive => TypeOK BY DEF Inductive
<1>2. QED BY <1>1, Invariance, PTL

\* An approving verdict.json is backed by run_report.json at every instant, kills included.
THEOREM ApprovalsBacked == Spec => []VerdictBacked
<1>1. Inductive => VerdictBacked BY DEF Inductive
<1>2. QED BY <1>1, Invariance, PTL

\* A run that ends with exit code 0 leaves a report, a verdict and a delivery that agree.
THEOREM FinishedAgree == Spec => []FinishedRunsAgree
<1>1. Inductive => FinishedRunsAgree BY DEF Inductive
<1>2. QED BY <1>1, Invariance, PTL

\* Only a killed cycle leaves harness processes behind.
THEOREM OrphansFromKills == Spec => []OrphansExplained
<1>1. Inductive => OrphansExplained BY DEF Inductive
<1>2. QED BY <1>1, Invariance, PTL

\* Before the first kill only the judged version of a product is delivered.
THEOREM JudgedDelivered == Spec => []DeliveredAsJudged
<1>1. Inductive => DeliveredAsJudged BY DEF Inductive
<1>2. QED BY <1>1, Invariance, PTL

\* Before the first kill the status files of a finished run say what its report says.
THEOREM StatusFilesAgree == Spec => []StatusAgrees
<1>1. Inductive => StatusAgrees BY DEF Inductive
<1>2. QED BY <1>1, Invariance, PTL

\* A delivery grows only by its own run, under its own approving verdict.
THEOREM DeliveriesEarned == Spec => DeliveriesUnderVerdict
<1>1. ASSUME Inductive, [Next]_vars, NEW c \in Cycles, delivery'[c] # delivery[c]
      PROVE  /\ c = cycle /\ verdict.cycle = c /\ verdict.approved
             /\ verdict.winner \in report.succeeded /\ report.cycle = c
  <2>1. CopyFile
    BY <1>1 DEF Next, AutorunNext, StartCycle, AutorunFails, Kill, Reap, RunNext, Fatal, Chop,
       ChopFails, Report, WriteReport, Collapse, Gate, Finish, NodeNext, NodeRefused, Launch,
       Collect, Judge, ProcNext, WritesProduct, PatchesStatus, OrphanDies, Ended, vars
  <2>2. c = cycle BY <1>1, <2>1, CopyShape
  <2>3. verdict.cycle = cycle /\ verdict.approved /\ report.cycle = cycle
    BY <1>1, <2>1 DEF CopyFile, Inductive, FilesFollowRun, DeliveryFollowsRun
  <2>4. verdict.winner \in report.succeeded
    BY <1>1, <2>3 DEF Inductive, VerdictBacked
  <2>5. QED BY <2>2, <2>3, <2>4
<1>2. Inductive /\ [Next]_vars =>
        [\A c \in Cycles : delivery'[c] # delivery[c] =>
           /\ c = cycle /\ verdict.cycle = c /\ verdict.approved
           /\ verdict.winner \in report.succeeded /\ report.cycle = c]_vars
  BY <1>1
<1>3. QED BY <1>2, Invariance, PTL DEF Spec, DeliveriesUnderVerdict
=============================================================================
