---------------------------- MODULE SwarmContract ----------------------------
(***************************************************************************)
(* What Executor.Run promises to its caller: every requested position gets *)
(* one verdict, in any order, and the one report it returns counts exactly *)
(* those verdicts.  SwarmRun (the semaphore, the goroutines and the results*)
(* channel of internal/swarm/executor.go) is shown to implement it.        *)
(***************************************************************************)
EXTENDS Naturals, FiniteSets

CONSTANT Positions      \* the requested positions

VARIABLES verdict,      \* per position: pending, succeeded, failed
          published     \* the reports returned: none or one

vars == <<verdict, published>>

With(v) == {p \in Positions : verdict[p] = v}

Init ==
  /\ verdict = [p \in Positions |-> "pending"]
  /\ published = {}

\* Without positions or agents the caller gets a report of zeros.
Decline ==
  /\ published = {}
  /\ With("pending") = Positions
  /\ published' = {[started |-> 0, succeeded |-> 0, failed |-> 0,
                    accounted |-> FALSE, eligible |-> FALSE]}
  /\ UNCHANGED verdict

Decide(p) ==
  /\ published = {}
  /\ verdict[p] = "pending"
  /\ \E v \in {"succeeded", "failed"} : verdict' = [verdict EXCEPT ![p] = v]
  /\ UNCHANGED published

Publish ==
  /\ published = {}
  /\ With("pending") = {}
  /\ published' = {[started |-> Cardinality(Positions),
                    succeeded |-> Cardinality(With("succeeded")),
                    failed |-> Cardinality(With("failed")),
                    accounted |-> TRUE,
                    eligible |-> With("succeeded") # {}]}
  /\ UNCHANGED verdict

Next == Decline \/ Publish \/ \E p \in Positions : Decide(p)

Behaviour == Init /\ [][Next]_vars

\* Every position gets its verdict and the report is returned, unless declined.
Spec == Behaviour /\ WF_vars(Publish) /\ \A p \in Positions : WF_vars(Decide(p))
=============================================================================
