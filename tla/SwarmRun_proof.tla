---------------------------- MODULE SwarmRun_proof ----------------------------
(***************************************************************************)
(* Proofs about SwarmRun for every number of positions and every           *)
(* concurrency limit.                                                      *)
(***************************************************************************)
EXTENDS SwarmRun, FiniteSetTheorems, TLAPS

USE SwarmRunAssumption

-----------------------------------------------------------------------------
\* Finite sets of positions.

LEMMA PositionsFinite ==
  /\ IsFiniteSet(Positions)
  /\ Cardinality(Positions) = N
<1>1. N \in Int /\ 1 \in Int OBVIOUS
<1>2. QED BY <1>1, FS_Interval DEF Positions

LEMMA SubsetFinite ==
  ASSUME NEW S \in SUBSET Positions
  PROVE  /\ IsFiniteSet(S)
         /\ Cardinality(S) \in 0 .. N
<1>1. IsFiniteSet(S) /\ Cardinality(S) <= N
  BY PositionsFinite, FS_Subset
<1>2. Cardinality(S) \in Nat BY <1>1, FS_CardinalityType
<1>3. QED BY <1>1, <1>2

\* Entering and leaving a set of positions moves its size by one.
LEMMA Enters ==
  ASSUME NEW S \in SUBSET Positions, NEW p \in Positions, p \notin S
  PROVE  Cardinality(S \cup {p}) = Cardinality(S) + 1
BY SubsetFinite, FS_AddElement

LEMMA Leaves ==
  ASSUME NEW S \in SUBSET Positions, NEW p \in S
  PROVE  Cardinality(S \ {p}) = Cardinality(S) - 1
BY SubsetFinite, FS_RemoveElement

\* Counting a result, and completing the report, keep it a report.
LEMMA CountedReport ==
  ASSUME NEW r \in Report, NEW x \in Nat, NEW y \in Nat
  PROVE  /\ [r EXCEPT !.started = x, !.succeeded = y] \in Report
         /\ [r EXCEPT !.started = x, !.failed = y] \in Report
BY DEF Report

LEMMA CompletedReport ==
  ASSUME NEW r \in Report, NEW x \in BOOLEAN, NEW y \in BOOLEAN
  PROVE  [r EXCEPT !.accounted = x, !.eligible = y] \in Report
BY DEF Report

LEMMA ConcurrencyType == EffectiveConcurrency \in 0 .. N
BY DEF EffectiveConcurrency

\* The sets of the invariant are sets of positions.
LEMMA SetFacts ==
  ASSUME TypeOK
  PROVE  /\ Holding \in SUBSET Positions /\ Alive \in SUBSET Positions
         /\ Sent \in SUBSET Positions
         /\ \A v : DrainedAs(v) \in SUBSET Positions
         /\ Cardinality(Holding) \in 0 .. N /\ Cardinality(Alive) \in 0 .. N
<1>1. /\ Holding \in SUBSET Positions /\ Alive \in SUBSET Positions
      /\ Sent \in SUBSET Positions
      /\ \A v : DrainedAs(v) \in SUBSET Positions
  BY DEF TypeOK, Holding, Alive, Sent, DrainedAs
<1>2. QED BY <1>1, SubsetFinite

-----------------------------------------------------------------------------
LEMMA InitInductive == Init => Inductive
<1> SUFFICES ASSUME Init PROVE Inductive
  OBVIOUS
<1>1. TypeOK
  BY ConcurrencyType DEF Init, TypeOK, NodeStates, NoReport, Report
<1>2. LoopProgress
  BY DEF Init, LoopProgress, Positions
<1>3. Holding = {} /\ Alive = {} /\ Sent = {} /\ \A v : DrainedAs(v) = {}
  BY DEF Init, Holding, Alive, Sent, DrainedAs
<1>4. Tokens BY <1>3, FS_EmptySet DEF Init, Tokens
<1>5. Results BY <1>3 DEF Init, Results
<1>6. Counts
  <2>1. /\ report.started = 0 /\ report.succeeded = 0 /\ report.failed = 0
        /\ ~report.accounted /\ ~report.eligible
    BY DEF Init, NoReport
  <2>2. Cardinality(drained) = 0 /\ \A v : Cardinality(DrainedAs(v)) = 0
    BY <1>3, FS_EmptySet DEF Init
  <2>3. QED BY <2>1, <2>2 DEF Init, Counts
<1>7. QED BY <1>1, <1>2, <1>4, <1>5, <1>6 DEF Inductive

\* Steps of Run that move only its label.
LEMMA LabelSteps ==
  ASSUME Inductive, NothingToRun \/ Begin \/ Wait
  PROVE  Inductive'
<1> USE DEF Inductive
<1>1. TypeOK' BY DEF TypeOK, NothingToRun, Begin, Wait
<1>2. UNCHANGED <<staffed, next, node, verdict, slots, wg, channel, drained, report>>
  BY DEF NothingToRun, Begin, Wait
<1>3. LoopProgress'
  BY <1>2 DEF TypeOK, LoopProgress, NothingToRun, Begin, Wait
<1>4. Tokens'
  BY <1>2 DEF Tokens, Holding, Alive, NothingToRun, Begin, Wait
<1>5. Results'
  <2>1. pc = "start" => channel = {} /\ drained = {}
    BY DEF Results, LoopProgress, TypeOK, Sent, Positions
  <2>2. QED BY <1>2, <2>1 DEF Results, Sent, NothingToRun, Begin, Wait
<1>6. Counts'
  <2>1. report' = report /\ drained' = drained /\ \A v : DrainedAs(v)' = DrainedAs(v)
    BY <1>2 DEF DrainedAs
  <2>2. pc # "returned" /\ (pc' = "returned" => ~staffed \/ N = 0)
    BY DEF NothingToRun, Begin, Wait
  <2>3. staffed' = staffed BY <1>2
  <2>4. /\ report'.started = Cardinality(drained')
        /\ report'.succeeded = Cardinality(DrainedAs("succeeded")')
        /\ report'.failed = Cardinality(DrainedAs("failed")')
        /\ report'.started = report'.succeeded + report'.failed
    BY <2>1 DEF Counts
  <2>5. ~report'.accounted /\ ~report'.eligible
    BY <2>1, <2>2 DEF Counts
  <2>6. ~(pc' = "returned" /\ staffed' /\ N > 0)
    BY <2>2, <2>3
  <2>7. QED BY <2>4, <2>5, <2>6 DEF Counts
<1>7. QED BY <1>1, <1>3, <1>4, <1>5, <1>6

LEMMA AcquireStep == ASSUME Inductive, Acquire PROVE Inductive'
<1> USE DEF Inductive
<1>1. TypeOK' BY ConcurrencyType DEF TypeOK, Acquire
<1>2. LoopProgress' BY DEF TypeOK, LoopProgress, Acquire
<1>3. Tokens'
  BY SetFacts DEF Tokens, Holding, Alive, Acquire
<1>4. Results' /\ Counts'
  BY DEF Results, Counts, Sent, DrainedAs, Acquire
<1>5. QED BY <1>1, <1>2, <1>3, <1>4

LEMMA SpawnStep == ASSUME Inductive, Spawn PROVE Inductive'
<1> USE DEF Inductive
<1>0. next \in Positions /\ node[next] = "idle" /\ next \in Nat
  BY DEF TypeOK, LoopProgress, Spawn, Positions
<1>1. next \notin Holding /\ next \notin Alive
  BY <1>0 DEF Holding, Alive
<1>2. Holding' = Holding \cup {next} /\ Alive' = Alive \cup {next}
  BY <1>0 DEF TypeOK, Spawn, Holding, Alive
<1>3. /\ Cardinality(Holding') = Cardinality(Holding) + 1
      /\ Cardinality(Alive') = Cardinality(Alive) + 1
  BY <1>0, <1>1, <1>2, SetFacts, Enters
<1>4. Tokens'
  BY <1>3, SetFacts DEF Tokens, Spawn
<1>5. TypeOK'
  <2>1. wg' \in 0 .. N
    BY <1>3, <1>4, SubsetFinite DEF Tokens, Alive
  <2>2. node' \in [Positions -> NodeStates] /\ next' \in 1 .. N + 1
    BY <1>0 DEF TypeOK, Spawn, NodeStates, Positions
  <2>3. QED BY <2>1, <2>2 DEF TypeOK, Spawn
<1>6. LoopProgress'
  <2>1. \A p \in Positions : node'[p] = "idle" <=> p >= next'
    BY <1>0 DEF TypeOK, LoopProgress, Spawn, Positions
  <2>2. QED BY <2>1 DEF LoopProgress, Spawn
<1>7. Results'
  <2>1. Sent' = Sent BY <1>0 DEF TypeOK, Sent, Spawn
  <2>2. \A p \in Positions : verdict[p] = "pending" <=> node'[p] \in {"idle", "running"}
    BY <1>0 DEF TypeOK, Results, Spawn
  <2>3. QED BY <2>1, <2>2 DEF Results, Spawn
<1>8. Counts' BY DEF Counts, DrainedAs, Spawn
<1>9. QED BY <1>4, <1>5, <1>6, <1>7, <1>8

LEMMA DrainStep == ASSUME Inductive, Drain PROVE Inductive'
<1> USE DEF Inductive
<1>1. PICK p \in channel :
        /\ channel' = channel \ {p}
        /\ drained' = drained \cup {p}
        /\ report' = IF verdict[p] = "succeeded"
                     THEN [report EXCEPT !.started = @ + 1, !.succeeded = @ + 1]
                     ELSE [report EXCEPT !.started = @ + 1, !.failed = @ + 1]
  BY DEF Drain
<1>2. UNCHANGED <<staffed, pc, next, node, verdict, slots, wg>> /\ pc = "drain"
  BY DEF Drain
<1>3. p \in Positions /\ p \notin drained /\ verdict[p] \in {"succeeded", "failed"}
  BY DEF TypeOK, Results, Sent
<1>4. /\ report.started \in Nat /\ report.succeeded \in Nat /\ report.failed \in Nat
      /\ report \in Report
  BY DEF TypeOK, Report
<1>5. /\ report'.started = report.started + 1
      /\ report'.succeeded = report.succeeded + (IF verdict[p] = "succeeded" THEN 1 ELSE 0)
      /\ report'.failed = report.failed + (IF verdict[p] = "failed" THEN 1 ELSE 0)
      /\ report'.accounted = report.accounted /\ report'.eligible = report.eligible
      /\ report' \in Report
  <2>1. CASE verdict[p] = "succeeded"
    <3> DEFINE x == report.started + 1
               y == report.succeeded + 1
    <3>0. x \in Nat /\ y \in Nat BY <1>4
    <3>1. report' = [report EXCEPT !.started = x, !.succeeded = y]
      BY <1>1, <2>1
    <3> HIDE DEF x, y
    <3>2. report' \in Report BY <1>4, <3>0, <3>1, CountedReport
    <3> USE DEF x, y
    <3>3. QED BY <1>4, <2>1, <3>1, <3>2 DEF Report
  <2>2. CASE verdict[p] = "failed"
    <3> DEFINE x == report.started + 1
               y == report.failed + 1
    <3>0. x \in Nat /\ y \in Nat BY <1>4
    <3>1. report' = [report EXCEPT !.started = x, !.failed = y]
      BY <1>1, <2>2
    <3> HIDE DEF x, y
    <3>2. report' \in Report BY <1>4, <3>0, <3>1, CountedReport
    <3> USE DEF x, y
    <3>3. QED BY <1>4, <2>2, <3>1, <3>2 DEF Report
  <2>3. QED BY <1>3, <2>1, <2>2
<1>6. TypeOK' BY <1>1, <1>2, <1>5 DEF TypeOK
<1>7. LoopProgress' /\ Tokens'
  BY <1>2 DEF LoopProgress, Tokens, Holding, Alive
<1>8. Results'
  BY <1>1, <1>2, <1>3 DEF Results, Sent
<1>9. Counts'
  <2>1. \A v : DrainedAs(v)' = IF verdict[p] = v THEN DrainedAs(v) \cup {p} ELSE DrainedAs(v)
    BY <1>1, <1>2 DEF DrainedAs
  <2>2. \A v : p \notin DrainedAs(v) /\ DrainedAs(v) \in SUBSET Positions
    BY <1>3, SetFacts DEF DrainedAs
  <2>3. Cardinality(drained') = Cardinality(drained) + 1
    BY <1>1, <1>3, Enters DEF TypeOK
  <2>4. \A v : Cardinality(DrainedAs(v)') =
                 Cardinality(DrainedAs(v)) + (IF verdict[p] = v THEN 1 ELSE 0)
    <3> TAKE v
    <3>1. Cardinality(DrainedAs(v)) \in Nat BY <2>2, SubsetFinite
    <3>2. CASE verdict[p] = v BY <1>3, <2>1, <2>2, <3>2, Enters
    <3>3. CASE verdict[p] # v BY <2>1, <3>1, <3>3
    <3>4. QED BY <3>2, <3>3
  <2>5. report'.started = report'.succeeded + report'.failed
    <3>1. report.started = report.succeeded + report.failed BY DEF Counts
    <3>2. CASE verdict[p] = "succeeded" BY <1>4, <1>5, <3>1, <3>2
    <3>3. CASE verdict[p] = "failed" BY <1>4, <1>5, <3>1, <3>3
    <3>4. QED BY <1>3, <3>2, <3>3
  <2>6. report'.started = Cardinality(drained')
    BY <1>5, <2>3 DEF Counts
  <2>7. /\ report'.succeeded = Cardinality(DrainedAs("succeeded")')
        /\ report'.failed = Cardinality(DrainedAs("failed")')
    BY <1>5, <2>4 DEF Counts
  <2>8. pc' # "returned" /\ ~report'.accounted /\ ~report'.eligible
    BY <1>2, <1>5 DEF Counts
  <2>9. QED BY <2>5, <2>6, <2>7, <2>8 DEF Counts
<1>10. QED BY <1>6, <1>7, <1>8, <1>9

LEMMA ReturnStep == ASSUME Inductive, Return PROVE Inductive'
<1> USE DEF Inductive
<1>1. /\ report'.started = report.started /\ report'.succeeded = report.succeeded
      /\ report'.failed = report.failed
      /\ report'.accounted = (report.started = N)
      /\ report'.eligible = (report.succeeded > 0)
      /\ report' \in Report
  <2>0. report \in Report
    BY DEF TypeOK
  <2>1. (report.started = N) \in BOOLEAN /\ (report.succeeded > 0) \in BOOLEAN
    OBVIOUS
  <2>2. report' = [report EXCEPT !.accounted = (report.started = N),
                                 !.eligible = (report.succeeded > 0)]
    BY DEF Return
  <2>3. report' \in Report BY <2>0, <2>1, <2>2, CompletedReport
  <2>4. QED BY <2>0, <2>2, <2>3 DEF Report
<1>2. TypeOK' BY <1>1 DEF TypeOK, Return
<1>3. LoopProgress' BY DEF LoopProgress, Return
<1>4. Tokens' BY DEF Tokens, Holding, Alive, Return
<1>5. Results' BY DEF Results, Sent, Return
<1>6. Counts' BY <1>1 DEF Counts, DrainedAs, Return
<1>7. QED BY <1>2, <1>3, <1>4, <1>5, <1>6

\* While a goroutine is alive, Run has not got past wg.Wait.
LEMMA NobodyLeft ==
  ASSUME Inductive, NEW p \in Alive
  PROVE  pc \notin {"drain", "returned"}
<1> USE DEF Inductive
<1>1. staffed
  BY DEF TypeOK, LoopProgress, Alive, Positions
<1>2. Cardinality(Alive) # 0
  BY SetFacts, SubsetFinite, FS_EmptySet
<1>3. QED BY <1>1, <1>2 DEF LoopProgress, Tokens

\* The steps of a position's goroutine.
LEMMA RunOneStep == ASSUME Inductive, NEW p \in Positions, RunOne(p) PROVE Inductive'
<1> USE DEF Inductive
<1>1. Holding' = Holding /\ Alive' = Alive /\ Sent' = Sent /\ p \notin Sent
  BY DEF TypeOK, RunOne, Holding, Alive, Sent
<1>2. TypeOK' BY DEF TypeOK, RunOne, NodeStates
<1>3. LoopProgress' BY DEF TypeOK, LoopProgress, RunOne
<1>4. Tokens' BY <1>1 DEF Tokens, RunOne
<1>5. Results'
  <2>1. \A q \in Positions : verdict'[q] = "pending" <=> node'[q] \in {"idle", "running"}
    BY DEF TypeOK, Results, RunOne
  <2>2. QED BY <1>1, <2>1 DEF Results, RunOne
<1>6. Counts'
  <2>1. p \notin drained BY <1>1 DEF Results
  <2>2. \A v : DrainedAs(v)' = DrainedAs(v) BY <2>1 DEF TypeOK, RunOne, DrainedAs
  <2>3. QED BY <2>2 DEF Counts, RunOne
<1>7. QED BY <1>2, <1>3, <1>4, <1>5, <1>6

LEMMA SendStep == ASSUME Inductive, NEW p \in Positions, Send(p) PROVE Inductive'
<1> USE DEF Inductive
<1>1. Holding' = Holding /\ Alive' = Alive /\ Sent' = Sent \cup {p} /\ p \notin Sent
  BY DEF TypeOK, Send, Holding, Alive, Sent
<1>2. TypeOK' BY DEF TypeOK, Send, NodeStates
<1>3. LoopProgress' BY DEF TypeOK, LoopProgress, Send
<1>4. Tokens' BY <1>1 DEF Tokens, Send
<1>5. Results'
  <2>1. \A q \in Positions : verdict'[q] = "pending" <=> node'[q] \in {"idle", "running"}
    BY DEF TypeOK, Results, Send
  <2>2. pc \notin {"drain", "returned"}
    BY NobodyLeft DEF Send, Alive
  <2>3. QED BY <1>1, <2>1, <2>2 DEF Results, Send
<1>6. Counts' BY DEF Counts, Send, DrainedAs
<1>7. QED BY <1>2, <1>3, <1>4, <1>5, <1>6

LEMMA ReleaseStep == ASSUME Inductive, NEW p \in Positions, Release(p) PROVE Inductive'
<1> USE DEF Inductive
<1>1. p \in Holding /\ Holding' = Holding \ {p} /\ Alive' = Alive /\ Sent' = Sent
  BY DEF TypeOK, Release, Holding, Alive, Sent
<1>2. TypeOK' BY ConcurrencyType DEF TypeOK, Release, NodeStates
<1>3. LoopProgress' BY DEF TypeOK, LoopProgress, Release
<1>4. Tokens'
  <2>1. Cardinality(Holding') = Cardinality(Holding) - 1 BY <1>1, SetFacts, Leaves
  <2>2. QED BY <1>1, <2>1, SetFacts DEF Tokens, Release
<1>5. Results'
  <2>1. \A q \in Positions : verdict'[q] = "pending" <=> node'[q] \in {"idle", "running"}
    BY DEF TypeOK, Results, Release
  <2>2. QED BY <1>1, <2>1 DEF Results, Release
<1>6. Counts' BY DEF Counts, Release, DrainedAs
<1>7. QED BY <1>2, <1>3, <1>4, <1>5, <1>6

LEMMA LeaveStep == ASSUME Inductive, NEW p \in Positions, Leave(p) PROVE Inductive'
<1> USE DEF Inductive
<1>1. p \in Alive /\ Alive' = Alive \ {p} /\ Holding' = Holding /\ Sent' = Sent
  BY DEF TypeOK, Leave, Holding, Alive, Sent
<1>2. Cardinality(Alive') = Cardinality(Alive) - 1 BY <1>1, SetFacts, Leaves
<1>3. Tokens' BY <1>1, <1>2, SetFacts DEF Tokens, Leave
<1>4. TypeOK'
  <2>1. wg' \in 0 .. N BY <1>1, <1>2, <1>3, SetFacts, SubsetFinite DEF Tokens
  <2>2. QED BY <2>1 DEF TypeOK, Leave, NodeStates
<1>5. LoopProgress'
  <2>1. pc \notin {"drain", "returned"} BY <1>1, NobodyLeft
  <2>2. QED BY <2>1 DEF TypeOK, LoopProgress, Leave
<1>6. Results'
  <2>1. \A q \in Positions : verdict'[q] = "pending" <=> node'[q] \in {"idle", "running"}
    BY DEF TypeOK, Results, Leave
  <2>2. QED BY <1>1, <2>1 DEF Results, Leave
<1>7. Counts' BY DEF Counts, Leave, DrainedAs
<1>8. QED BY <1>3, <1>4, <1>5, <1>6, <1>7

LEMMA StutterStep == ASSUME Inductive, Returned \/ UNCHANGED vars PROVE Inductive'
<1>1. UNCHANGED vars BY DEF Returned
<1>2. TypeOK' BY <1>1 DEF Inductive, TypeOK, vars
<1>3. LoopProgress' /\ Tokens'
  BY <1>1 DEF Inductive, LoopProgress, Tokens, Holding, Alive, vars
<1>4. Results' /\ Counts'
  BY <1>1 DEF Inductive, Results, Counts, Sent, DrainedAs, vars
<1>5. QED BY <1>2, <1>3, <1>4 DEF Inductive

-----------------------------------------------------------------------------
\* The theorems.

\* The strengthened invariant holds in every reachable state of Executor.Run.
THEOREM Invariance == Behaviour => []Inductive
<1>1. Init => Inductive BY InitInductive
<1>2. Inductive /\ [Next]_vars => Inductive'
  BY LabelSteps, AcquireStep, SpawnStep, DrainStep, ReturnStep, RunOneStep, SendStep,
     ReleaseStep, LeaveStep, StutterStep
  DEF Next, MainNext, NodeNext
<1>3. QED BY <1>1, <1>2, PTL DEF Behaviour

\* Every variable keeps its type; the semaphore is never over capacity.
THEOREM TypeCorrect == Behaviour => []TypeOK
<1>1. Inductive => TypeOK BY DEF Inductive
<1>2. QED BY <1>1, Invariance, PTL

\* At most EffectiveConcurrency harnesses run at once, for every swarm and every limit.
THEOREM ConcurrencyBound == Behaviour => []ConcurrencyRespected
<1>1. Inductive => ConcurrencyRespected
  <2> SUFFICES ASSUME Inductive PROVE ConcurrencyRespected
    OBVIOUS
  <2> DEFINE Busy == {p \in Positions : node[p] \in {"running", "sending"}}
  <2>1. TypeOK /\ Tokens BY DEF Inductive
  <2>2. Busy \in SUBSET Holding BY DEF Holding
  <2>3. IsFiniteSet(Holding) BY <2>1, SetFacts, SubsetFinite
  <2>4. Cardinality(Busy) <= Cardinality(Holding) BY <2>2, <2>3, FS_Subset
  <2>5. Cardinality(Busy) \in 0 .. N BY SubsetFinite
  <2>6. Cardinality(Holding) <= slots /\ slots <= EffectiveConcurrency /\ slots \in Nat
    BY <2>1, SetFacts, ConcurrencyType DEF Tokens, TypeOK
  <2>7. QED
    BY <2>1, <2>4, <2>5, <2>6, SetFacts, ConcurrencyType DEF ConcurrencyRespected
<1>2. QED BY <1>1, Invariance, PTL

\* The report is built from all results, each taken once.
THEOREM AllResultsReported == Behaviour => []NoResultLost
<1>1. Inductive => NoResultLost
  <2> SUFFICES ASSUME Inductive, pc \in {"drain", "returned"}, staffed
               PROVE  /\ \A p \in Positions : node[p] = "gone"
                      /\ channel \cup drained = Positions
                      /\ channel \cap drained = {}
    BY DEF NoResultLost
  <2>1. \A p \in Positions : node[p] # "idle"
    BY DEF Inductive, LoopProgress, Positions
  <2>2. \A p \in Positions : p \notin Alive
    BY NobodyLeft
  <2>3. \A p \in Positions : node[p] = "gone"
    BY <2>1, <2>2 DEF Inductive, TypeOK, Alive, NodeStates
  <2>4. Sent = Positions BY <2>3 DEF Sent
  <2>5. QED BY <2>3, <2>4 DEF Inductive, Results
<1>2. QED BY <1>1, Invariance, PTL

\* A swarm whose channel is drained has counted every position.
LEMMA DrainedAll ==
  ASSUME Inductive, pc \in {"drain", "returned"}, N > 0, staffed, channel = {}
  PROVE  /\ drained = Positions
         /\ \A p \in Positions : verdict[p] # "pending"
<1>1. \A p \in Positions : node[p] # "idle"
  BY DEF Inductive, LoopProgress, Positions
<1>2. \A p \in Positions : p \notin Alive
  BY NobodyLeft
<1>3. Sent = Positions
  BY <1>1, <1>2 DEF Inductive, TypeOK, Sent, Alive, NodeStates
<1>4. drained = Positions BY <1>3 DEF Inductive, Results
<1>5. \A p \in Positions : node[p] = "gone"
  BY <1>1, <1>2 DEF Inductive, TypeOK, Alive, NodeStates
<1>6. QED BY <1>4, <1>5 DEF Inductive, Results

\* What a returned report says, for the theorems below.
LEMMA ReturnedReport ==
  ASSUME Inductive, pc = "returned", N > 0, staffed
  PROVE  /\ drained = Positions
         /\ report.started = N /\ report.accounted
         /\ report.succeeded + report.failed = N
         /\ report.eligible <=> report.succeeded > 0
         /\ \A v : DrainedAs(v) = {p \in Positions : verdict[p] = v}
<1>4. drained = Positions BY DrainedAll DEF Inductive, Results
<1>5. report.started = N BY <1>4, PositionsFinite DEF Inductive, Counts
<1>6. report.accounted /\ (report.eligible <=> report.succeeded > 0)
  BY <1>5 DEF Inductive, Counts
<1>7. report.succeeded + report.failed = N
  BY <1>5 DEF Inductive, Counts
<1>8. QED BY <1>4, <1>5, <1>6, <1>7 DEF DrainedAs

\* The report of a swarm with work accounts for every position and splits them rightly.
THEOREM ReportExact == Behaviour => []ReportIsExact
<1>1. Inductive => ReportIsExact
  <2> SUFFICES ASSUME Inductive, pc = "returned", N > 0, staffed
               PROVE  /\ report.accounted
                      /\ report.succeeded = Cardinality({p \in Positions : verdict[p] = "succeeded"})
                      /\ report.succeeded + report.failed = N
                      /\ report.eligible <=> \E p \in Positions : verdict[p] = "succeeded"
    BY DEF ReportIsExact
  <2> DEFINE Won == {p \in Positions : verdict[p] = "succeeded"}
  <2>1. report.succeeded = Cardinality(Won)
    BY ReturnedReport DEF Inductive, Counts
  <2>2. Cardinality(Won) \in Nat /\ (Cardinality(Won) = 0 <=> Won = {})
    BY SubsetFinite, FS_EmptySet
  <2>3. report.eligible <=> Won # {}
    BY <2>1, <2>2, ReturnedReport
  <2>4. QED BY <2>1, <2>3, ReturnedReport
<1>2. QED BY <1>1, Invariance, PTL

\* Every step of Run and of its goroutines is a step of the swarm's contract or
\* invisible to it: verdicts come once each, and the one report is their exact count.
THEOREM KeepsContract == Behaviour => Contract!Behaviour
<1>1. Init => Contract!Init
  BY DEF Init, Contract!Init, Published
<1>2. Inductive /\ Inductive' /\ [Next]_vars => [Contract!Next]_Contract!vars
  <2> SUFFICES ASSUME Inductive, Inductive', [Next]_vars
               PROVE  [Contract!Next]_Contract!vars
    OBVIOUS
  <2> USE DEF Contract!Next, Contract!vars
  <2>1. CASE NothingToRun
    <3>1. Published = {} /\ Published' = {report} /\ verdict' = verdict
      BY <2>1 DEF NothingToRun, Published
    <3>2. \A p \in Positions : verdict[p] = "pending"
      BY <2>1 DEF NothingToRun, Inductive, LoopProgress, Results, Positions
    <3>3. drained = {} /\ ~report.accounted /\ ~report.eligible
      BY <2>1 DEF NothingToRun, Inductive, Results, Counts
    <3>4. report.started = 0 /\ report.succeeded = 0 /\ report.failed = 0
      BY <3>3, FS_EmptySet DEF Inductive, Counts, DrainedAs
    <3>5. report = [started |-> 0, succeeded |-> 0, failed |-> 0,
                    accounted |-> FALSE, eligible |-> FALSE]
      BY <3>3, <3>4 DEF Inductive, TypeOK, Report
    <3>6. Contract!Decline
      BY <3>1, <3>2, <3>5 DEF Contract!Decline, Contract!With
    <3>7. QED BY <3>6
  <2>2. CASE Return
    <3>1. Published = {} /\ Published' = {report'} /\ verdict' = verdict
      BY <2>2 DEF Return, Published
    <3>2. N > 0 /\ staffed BY <2>2 DEF Return, Inductive, LoopProgress
    <3>3. Contract!With("pending") = {}
      BY <2>2, <3>2, DrainedAll DEF Return, Contract!With
    <3>4. /\ pc' = "returned" /\ staffed' = staffed /\ drained' = drained
          /\ \A v : DrainedAs(v)' = DrainedAs(v)
      BY <2>2 DEF Return, DrainedAs
    <3>5. /\ drained = Positions
          /\ \A v : DrainedAs(v) = Contract!With(v)
      <4>1. drained = Positions BY <2>2, <3>2, DrainedAll DEF Return
      <4>2. QED BY <4>1 DEF DrainedAs, Contract!With
    <3>6. /\ report'.started = Cardinality(Positions)
          /\ report'.succeeded = Cardinality(Contract!With("succeeded"))
          /\ report'.failed = Cardinality(Contract!With("failed"))
      BY <3>4, <3>5 DEF Inductive, Counts
    <3>7. /\ report'.accounted = (report'.started = N)
          /\ report'.eligible = (report'.succeeded > 0)
      BY <3>2, <3>4 DEF Inductive, Counts
    <3>8. /\ report'.accounted = TRUE
          /\ report'.eligible = (Contract!With("succeeded") # {})
      <4>1. /\ Cardinality(Contract!With("succeeded")) \in Nat
            /\ Cardinality(Contract!With("succeeded")) = 0 <=> Contract!With("succeeded") = {}
        BY SubsetFinite, FS_EmptySet DEF Contract!With
      <4>2. report'.started = N BY <3>6, PositionsFinite
      <4>3. (report'.succeeded > 0) = (Contract!With("succeeded") # {})
        BY <3>6, <4>1
      <4>4. report'.accounted = TRUE BY <3>7, <4>2, Zenon
      <4>5. report'.eligible = (Contract!With("succeeded") # {}) BY <3>7, <4>3, Zenon
      <4>6. QED BY <4>4, <4>5
    <3>9. report' = [started |-> Cardinality(Positions),
                     succeeded |-> Cardinality(Contract!With("succeeded")),
                     failed |-> Cardinality(Contract!With("failed")),
                     accounted |-> TRUE,
                     eligible |-> Contract!With("succeeded") # {}]
      BY <3>6, <3>7, <3>8 DEF Inductive, TypeOK, Report
    <3>10. \A S : Contract!Cardinality(S) = Cardinality(S)
      BY DEF Contract!Cardinality, Cardinality
    <3>11. Contract!Publish BY <3>1, <3>3, <3>9, <3>10 DEF Contract!Publish
    <3>12. QED BY <3>11
  <2>3. CASE \E p \in Positions : RunOne(p)
    <3>1. PICK p \in Positions : RunOne(p) BY <2>3
    <3>2. pc # "returned" BY <3>1, NobodyLeft DEF RunOne, Alive
    <3>3. Published = {} /\ Published' = {} BY <3>1, <3>2 DEF RunOne, Published
    <3>4. verdict[p] = "pending" BY <3>1 DEF RunOne, Inductive, Results
    <3>5. Contract!Decide(p) BY <3>1, <3>3, <3>4 DEF RunOne, Contract!Decide
    <3>6. QED BY <3>5
  <2>4. CASE Begin \/ Acquire \/ Spawn \/ Wait \/ Drain \/ Returned \/ UNCHANGED vars
             \/ \E p \in Positions : Send(p) \/ Release(p) \/ Leave(p)
    <3>1. verdict' = verdict
      BY <2>4 DEF Begin, Acquire, Spawn, Wait, Drain, Returned, Send, Release, Leave, vars
    <3>2. Published' = Published
      BY <2>4, NobodyLeft DEF Begin, Acquire, Spawn, Wait, Drain, Returned, Send, Release,
         Leave, vars, Published, Alive
    <3>3. QED BY <3>1, <3>2
  <2>5. QED
    BY <2>1, <2>2, <2>3, <2>4 DEF Next, MainNext, NodeNext
<1>3. QED BY <1>1, <1>2, Invariance, PTL DEF Behaviour, Contract!Behaviour
=============================================================================
