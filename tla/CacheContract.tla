--------------------------- MODULE CacheContract ---------------------------
(***************************************************************************)
(* What the nodes of a run may count on from the shared cache: a put is    *)
(* atomic and for ever, an item is retired only for a reason, and what a   *)
(* node is shown is the ranking of the directory at one instant, although  *)
(* the files are read one by one while others come and go.                 *)
(***************************************************************************)
EXTENDS Integers

CONSTANTS
  Items, Readers, Limit,
  Visible(_),        \* the filter of a room
  Ranked(_, _),      \* Ranked(S, n): the n best of S, one of each key
  Beats(_, _),       \* Beats(i, j): i and j say the same, and i says it better
  Prunable(_, _)     \* Prunable(i, t): i is weak, or stale at time t

VARIABLES
  clock,      \* the time
  put,        \* the items ever put
  retired,    \* the items moved out of the cache
  snap,       \* snap[r]: the directory a refresh of r has fixed on
  view        \* view[r]: the items room r is shown

vars == <<clock, put, retired, snap, view>>

Begin ==
  /\ clock = 0
  /\ put = {}
  /\ retired = {}
  /\ snap = [r \in Readers |-> {}]
  /\ view = [r \in Readers |-> {}]

Tick == clock' = clock + 1 /\ UNCHANGED <<put, retired, snap, view>>

Put(i) ==
  /\ i \notin put /\ i.created <= clock
  /\ put' = put \cup {i}
  /\ UNCHANGED <<clock, retired, snap, view>>

Reason(i) == Prunable(i, clock) \/ \E j \in put : Beats(j, i)

Retire(i) ==
  /\ i \in put \ retired
  /\ Reason(i)
  /\ retired' = retired \cup {i}
  /\ UNCHANGED <<clock, put, snap, view>>

Fix(r) ==
  /\ snap[r] = {}
  /\ snap' = [snap EXCEPT ![r] = put \ retired]
  /\ UNCHANGED <<clock, put, retired, view>>

Show(r) ==
  /\ view' = [view EXCEPT ![r] = Ranked({i \in snap[r] : Visible(i)}, Limit)]
  /\ snap' = [snap EXCEPT ![r] = {}]
  /\ UNCHANGED <<clock, put, retired>>

\* A refresh that meets a file it cannot read shows nothing new.
GiveUp(r) ==
  /\ snap' = [snap EXCEPT ![r] = {}]
  /\ UNCHANGED <<clock, put, retired, view>>

Next ==
  \/ Tick
  \/ \E i \in Items : Put(i) \/ Retire(i)
  \/ \E r \in Readers : Fix(r) \/ Show(r) \/ GiveUp(r)

Behaviour == Begin /\ [][Next]_vars
=============================================================================
