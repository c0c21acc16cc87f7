------------------------------ MODULE SwarmRun ------------------------------
(***************************************************************************)
(* Executor.Run (internal/swarm/executor.go): one goroutine per position,  *)
(* at most Concurrency of them inside runOne (the sem channel), their      *)
(* results sent over a channel as large as the swarm, a WaitGroup, and the *)
(* report built from the drained channel.  What runOne does inside is      *)
(* NodeRun; here a position simply gets its verdict (NodeContract).        *)
(***************************************************************************)
EXTENDS Integers, FiniteSets

CONSTANTS
  N,               \* len(positions)
  Concurrency      \* Executor.Concurrency; zero or less means no limit

ASSUME SwarmRunAssumption ==
  /\ N \in Nat
  /\ Concurrency \in Int

Positions == 1 .. N

EffectiveConcurrency ==
  IF N = 0 THEN 0
  ELSE IF Concurrency <= 0 \/ Concurrency > N THEN N ELSE Concurrency

VARIABLES
  staffed,   \* a harness and at least one agent are configured
  pc,        \* the goroutine of Run
  next,      \* loop index: the next position to start
  node,      \* per position: where its goroutine is
  verdict,   \* per position: what runOne returned
  slots,     \* tokens in the sem channel
  wg,        \* counter of the WaitGroup
  channel,   \* positions whose result is in the results channel
  drained,   \* positions whose result the report already counts
  report     \* the RunReport

vars == <<staffed, pc, next, node, verdict, slots, wg, channel, drained, report>>

NodeStates == {"idle", "running", "sending", "releasing", "leaving", "gone"}

Report == [started : Nat, succeeded : Nat, failed : Nat,
           accounted : BOOLEAN, eligible : BOOLEAN]

NoReport == [started |-> 0, succeeded |-> 0, failed |-> 0, accounted |-> FALSE,
             eligible |-> FALSE]

Init ==
  /\ staffed \in BOOLEAN
  /\ pc = "start"
  /\ next = 1
  /\ node = [p \in Positions |-> "idle"]
  /\ verdict = [p \in Positions |-> "pending"]
  /\ slots = 0
  /\ wg = 0
  /\ channel = {}
  /\ drained = {}
  /\ report = NoReport

-----------------------------------------------------------------------------
\* The goroutine of Run.

\* No positions, or nobody to run them: the report keeps its zero counts.
NothingToRun ==
  /\ pc = "start"
  /\ N = 0 \/ ~staffed
  /\ pc' = "returned"
  /\ UNCHANGED <<staffed, next, node, verdict, slots, wg, channel, drained, report>>

Begin ==
  /\ pc = "start"
  /\ N > 0 /\ staffed
  /\ pc' = "acquire"
  /\ UNCHANGED <<staffed, next, node, verdict, slots, wg, channel, drained, report>>

\* sem <- struct{}{} blocks while the channel is full.
Acquire ==
  /\ pc = "acquire"
  /\ next <= N
  /\ slots < EffectiveConcurrency
  /\ slots' = slots + 1
  /\ pc' = "spawn"
  /\ UNCHANGED <<staffed, next, node, verdict, wg, channel, drained, report>>

\* Mutant: no wg.Add before the go statement.
SpawnUncounted ==
  /\ pc = "spawn"
  /\ node' = [node EXCEPT ![next] = "running"]
  /\ next' = next + 1
  /\ pc' = "acquire"
  /\ UNCHANGED <<staffed, verdict, slots, wg, channel, drained, report>>

\* wg.Add(1) and the go statement.
Spawn ==
  /\ pc = "spawn"
  /\ wg' = wg + 1
  /\ node' = [node EXCEPT ![next] = "running"]
  /\ next' = next + 1
  /\ pc' = "acquire"
  /\ UNCHANGED <<staffed, verdict, slots, channel, drained, report>>

\* wg.Wait returns at zero; then the channel is closed and drained.
Wait ==
  /\ pc = "acquire"
  /\ next > N
  /\ wg = 0
  /\ pc' = "drain"
  /\ UNCHANGED <<staffed, next, node, verdict, slots, wg, channel, drained, report>>

\* Mutant: only successes count as started.
DrainSuccesses ==
  /\ pc = "drain"
  /\ \E p \in channel :
       /\ channel' = channel \ {p}
       /\ drained' = drained \cup {p}
       /\ report' = IF verdict[p] = "succeeded"
                    THEN [report EXCEPT !.started = @ + 1, !.succeeded = @ + 1]
                    ELSE [report EXCEPT !.failed = @ + 1]
  /\ UNCHANGED <<staffed, pc, next, node, verdict, slots, wg>>

Drain ==
  /\ pc = "drain"
  /\ \E p \in channel :
       /\ channel' = channel \ {p}
       /\ drained' = drained \cup {p}
       /\ report' = IF verdict[p] = "succeeded"
                    THEN [report EXCEPT !.started = @ + 1, !.succeeded = @ + 1]
                    ELSE [report EXCEPT !.started = @ + 1, !.failed = @ + 1]
  /\ UNCHANGED <<staffed, pc, next, node, verdict, slots, wg>>

\* The channel is empty: sort (no order is kept here) and complete the report.
Return ==
  /\ pc = "drain"
  /\ channel = {}
  /\ pc' = "returned"
  /\ report' = [report EXCEPT !.accounted = (report.started = N),
                              !.eligible = (report.succeeded > 0)]
  /\ UNCHANGED <<staffed, next, node, verdict, slots, wg, channel, drained>>

Returned == pc = "returned" /\ UNCHANGED vars

-----------------------------------------------------------------------------
\* The goroutine of a position.

\* runOne returns.
RunOne(p) ==
  /\ node[p] = "running"
  /\ node' = [node EXCEPT ![p] = "sending"]
  /\ \E v \in {"succeeded", "failed"} : verdict' = [verdict EXCEPT ![p] = v]
  /\ UNCHANGED <<staffed, pc, next, slots, wg, channel, drained, report>>

\* Mutant: a results channel of one place, which nobody reads before wg.Wait.
SendOnePlace(p) ==
  /\ node[p] = "sending"
  /\ Cardinality(channel) < 1
  /\ channel' = channel \cup {p}
  /\ node' = [node EXCEPT ![p] = "releasing"]
  /\ UNCHANGED <<staffed, pc, next, verdict, slots, wg, drained, report>>

\* results <- r blocks while the channel holds len(positions) results.
Send(p) ==
  /\ node[p] = "sending"
  /\ Cardinality(channel) < N
  /\ channel' = channel \cup {p}
  /\ node' = [node EXCEPT ![p] = "releasing"]
  /\ UNCHANGED <<staffed, pc, next, verdict, slots, wg, drained, report>>

\* The deferred <-sem runs before the deferred wg.Done.
Release(p) ==
  /\ node[p] = "releasing"
  /\ slots > 0
  /\ slots' = slots - 1
  /\ node' = [node EXCEPT ![p] = "leaving"]
  /\ UNCHANGED <<staffed, pc, next, verdict, wg, channel, drained, report>>

Leave(p) ==
  /\ node[p] = "leaving"
  /\ wg' = wg - 1
  /\ node' = [node EXCEPT ![p] = "gone"]
  /\ UNCHANGED <<staffed, pc, next, verdict, slots, channel, drained, report>>

-----------------------------------------------------------------------------
MainNext ==
  \/ NothingToRun \/ Begin \/ Acquire \/ Spawn \/ Wait \/ Drain \/ Return

NodeNext(p) == RunOne(p) \/ Send(p) \/ Release(p) \/ Leave(p)

Next == MainNext \/ Returned \/ \E p \in Positions : NodeNext(p)

Behaviour == Init /\ [][Next]_vars

\* Goroutines are scheduled, and runOne returns (NodeContract).
Spec == Behaviour /\ WF_vars(MainNext) /\ \A p \in Positions : WF_vars(NodeNext(p))

-----------------------------------------------------------------------------
\* Properties.

TypeOK ==
  /\ staffed \in BOOLEAN
  /\ pc \in {"start", "acquire", "spawn", "drain", "returned"}
  /\ next \in 1 .. N + 1
  /\ node \in [Positions -> NodeStates]
  /\ verdict \in [Positions -> {"pending", "succeeded", "failed"}]
  /\ slots \in 0 .. EffectiveConcurrency
  /\ wg \in 0 .. N
  /\ channel \subseteq Positions
  /\ drained \subseteq Positions
  /\ report \in Report

\* The sem channel bounds the harnesses running at once, the goroutines that are about
\* to send included, by the effective concurrency the report announces.
ConcurrencyRespected ==
  Cardinality({p \in Positions : node[p] \in {"running", "sending"}}) <= EffectiveConcurrency

\* Run builds its report only after every goroutine it started has sent its result:
\* no result is lost to an early close, none is counted twice.
NoResultLost ==
  pc \in {"drain", "returned"} /\ staffed =>
    /\ \A p \in Positions : node[p] = "gone"
    /\ channel \cup drained = Positions
    /\ channel \cap drained = {}

\* A completed report accounts for every requested node, splits the nodes into succeeded
\* and failed, and makes the run eligible for collapse iff some branch succeeded.
ReportIsExact ==
  pc = "returned" /\ N > 0 /\ staffed =>
    /\ report.accounted
    /\ report.succeeded = Cardinality({p \in Positions : verdict[p] = "succeeded"})
    /\ report.succeeded + report.failed = N
    /\ report.eligible <=> \E p \in Positions : verdict[p] = "succeeded"

-----------------------------------------------------------------------------
\* The inductive strengthening (proved about in SwarmRun_proof).

Holding == {p \in Positions : node[p] \in {"running", "sending", "releasing"}}
Alive == {p \in Positions : node[p] \in {"running", "sending", "releasing", "leaving"}}
Sent == {p \in Positions : node[p] \in {"releasing", "leaving", "gone"}}
DrainedAs(v) == {p \in drained : verdict[p] = v}

\* The loop: positions below next were started, the others not; Run gets past wg.Wait
\* only when all are started and gone.
LoopProgress ==
  /\ \A p \in Positions : node[p] = "idle" <=> p >= next
  /\ pc = "start" => next = 1
  /\ pc = "spawn" => next <= N
  /\ pc \notin {"start", "returned"} => staffed /\ N > 0
  /\ ~staffed => next = 1
  /\ pc \in {"drain", "returned"} /\ staffed => next = N + 1 /\ wg = 0

\* The sem channel holds a token per goroutine that has not released, and the one Run
\* took for the goroutine it is about to start; the WaitGroup counts the live ones.
Tokens ==
  /\ slots = Cardinality(Holding) + (IF pc = "spawn" THEN 1 ELSE 0)
  /\ wg = Cardinality(Alive)

\* Each position's one result is in the channel or in the report once it was sent.
Results ==
  /\ \A p \in Positions : verdict[p] = "pending" <=> node[p] \in {"idle", "running"}
  /\ channel \cup drained = Sent
  /\ channel \cap drained = {}
  /\ pc \notin {"drain", "returned"} => drained = {}
  /\ pc = "returned" => channel = {}

\* The counts of the report follow the drained results.
Counts ==
  /\ report.started = Cardinality(drained)
  /\ report.succeeded = Cardinality(DrainedAs("succeeded"))
  /\ report.failed = Cardinality(DrainedAs("failed"))
  /\ report.started = report.succeeded + report.failed
  /\ pc = "returned" /\ staffed /\ N > 0 =>
       /\ report.accounted = (report.started = N)
       /\ report.eligible = (report.succeeded > 0)
  /\ pc # "returned" => ~report.accounted /\ ~report.eligible

Inductive == TypeOK /\ LoopProgress /\ Tokens /\ Results /\ Counts

\* Executor.Run implements the contract of the swarm, its liveness included: no order
\* of acquiring, sending and releasing blocks the run.
Published == IF pc = "returned" THEN {report} ELSE {}
Contract == INSTANCE SwarmContract WITH published <- Published
ContractHolds == Contract!Spec
=============================================================================
