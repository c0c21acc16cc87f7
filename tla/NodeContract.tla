---------------------------- MODULE NodeContract ----------------------------
(***************************************************************************)
(* What the executor promises about one position of a swarm, whatever the  *)
(* harness does: the position is tried a bounded number of times and then  *)
(* gets exactly one verdict, which is never taken back.  NodeRun (the      *)
(* goroutines of internal/swarm/executor.go) is shown to implement it.     *)
(***************************************************************************)
EXTENDS Naturals

CONSTANT MaxAttempts    \* 1 + Executor.MaxRetries, at least 1

VARIABLES tries,        \* harness attempts begun
          verdict       \* the BranchResult, once runOne has returned

vars == <<tries, verdict>>

Init == tries = 0 /\ verdict = "pending"

Try ==
  /\ verdict = "pending"
  /\ tries < MaxAttempts
  /\ tries' = tries + 1
  /\ UNCHANGED verdict

\* A position may fail before its first attempt (its kit could not be
\* written), but it succeeds only through an attempt.
Conclude ==
  /\ verdict = "pending"
  /\ verdict' \in IF tries = 0 THEN {"failed"} ELSE {"succeeded", "failed"}
  /\ UNCHANGED tries

Next == Try \/ Conclude

Behaviour == Init /\ [][Next]_vars

\* The verdict eventually arrives.
Spec == Behaviour /\ WF_vars(Conclude)
=============================================================================
