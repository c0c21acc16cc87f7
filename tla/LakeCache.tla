----------------------------- MODULE LakeCache -----------------------------
(***************************************************************************)
(* The shared cache of the data lake (internal/lake/cache.go and           *)
(* maintenance.go): a directory with one JSON file per item.  Nodes of a   *)
(* swarm, and other qsm processes, put items; the refresh of a room lists  *)
(* the directory file by file and rewrites the room's CACHE.md;            *)
(* `qsm lake-maintain -apply` lists it too and renames files into the      *)
(* quarantine.  Nothing is locked: the file system is all they share.      *)
(***************************************************************************)
EXTENDS CacheRanking

CONSTANTS
  Items,          \* the items that may ever be put; each is one file name
  Writers,        \* goroutines or processes that put items
  Readers,        \* rooms whose CACHE.md is refreshed
  Maintainers,    \* runs of qsm lake-maintain -apply
  Objective,      \* the objective of the rooms
  Limit,          \* how many items a room is shown
  MaxClock,       \* bound on the clock
  WritersMayDie,  \* whether a write may stop half way (crash, full disk)
  None

Listers == Readers \cup Maintainers

ASSUME PolicyAssumption ==
  MinConfidence \in Nat /\ StaleAfter \in Nat /\ RouteHealthStaleAfter \in Nat

ASSUME ItemsAssumption ==
  /\ IsFiniteSet(Items)
  /\ \A i \in Items : i.created \in Nat /\ i.id \in Nat /\ CacheRank(i) \in Int
  /\ \A i, j \in Items : i # j => i.created # j.created \/ i.id # j.id
  /\ None \notin Items

ASSUME BoundsAssumption ==
  Limit \in Nat \ {0} /\ MaxClock \in Nat /\ WritersMayDie \in BOOLEAN

ASSUME ListersAssumption == Readers \cap Maintainers = {}

VARIABLES
  clock,      \* the time
  file,       \* file[i]: absent, partial (created, not written), complete, quarantined
  writing,    \* writing[w]: the item whose file w has created and not written yet
  phase,      \* phase[p]: where a lister is
  todo,       \* todo[p]: the files of its os.ReadDir not read yet
  got,        \* got[p]: the items it has read
  now,        \* now[m]: the time of a maintenance run
  plan,       \* plan[m]: the candidates not moved yet
  moved,      \* moved[m]: the actions in its report
  view        \* view[r]: the items in room r's CACHE.md

writers == <<file, writing>>
listing == <<phase, todo, got>>
upkeep == <<now, plan, moved>>
vars == <<clock, file, writing, phase, todo, got, now, plan, moved, view>>

Present == {i \in Items : file[i] \in {"partial", "complete"}}
Landed == {i \in Items : file[i] \in {"complete", "quarantined"}}
Quarantined == {i \in Items : file[i] = "quarantined"}

TypeOK ==
  /\ clock \in Nat
  /\ file \in [Items -> {"absent", "partial", "complete", "quarantined"}]
  /\ writing \in [Writers -> Items \cup {None}]
  /\ phase \in [Listers -> {"idle", "ready", "listing", "moving", "done", "failed"}]
  /\ todo \in [Listers -> SUBSET Items]
  /\ got \in [Listers -> SUBSET Items]
  /\ now \in [Maintainers -> Nat]
  /\ plan \in [Maintainers -> SUBSET Items]
  /\ moved \in [Maintainers -> SUBSET Items]
  /\ view \in [Readers -> SUBSET Items]

Init ==
  /\ clock = 0
  /\ file = [i \in Items |-> "absent"]
  /\ writing = [w \in Writers |-> None]
  /\ phase = [p \in Listers |-> IF p \in Readers THEN "ready" ELSE "idle"]
  /\ todo = [p \in Listers |-> {}]
  /\ got = [p \in Listers |-> {}]
  /\ now = [m \in Maintainers |-> 0]
  /\ plan = [m \in Maintainers |-> {}]
  /\ moved = [m \in Maintainers |-> {}]
  /\ view = [r \in Readers |-> {}]

Tick ==
  /\ clock < MaxClock
  /\ clock' = clock + 1
  /\ UNCHANGED <<writers, listing, upkeep, view>>

-----------------------------------------------------------------------------
(* PutCache: the item is stamped, then os.WriteFile opens the file in      *)
(* place and writes it.                                                    *)

PutCreate(w, i) ==
  /\ writing[w] = None
  /\ file[i] = "absent"
  /\ i.created <= clock
  /\ file' = [file EXCEPT ![i] = "partial"]
  /\ writing' = [writing EXCEPT ![w] = i]
  /\ UNCHANGED <<clock, listing, upkeep, view>>

PutFill(w) ==
  /\ writing[w] # None
  /\ file' = [file EXCEPT ![writing[w]] = "complete"]
  /\ writing' = [writing EXCEPT ![w] = None]
  /\ UNCHANGED <<clock, listing, upkeep, view>>

\* The process dies or the disk is full: the callers drop the error, and the file stays.
PutTear(w) ==
  /\ WritersMayDie
  /\ writing[w] # None
  /\ writing' = [writing EXCEPT ![w] = None]
  /\ UNCHANGED <<clock, file, listing, upkeep, view>>

-----------------------------------------------------------------------------
(* ListCache and listCacheFiles: os.ReadDir, then each file in the order   *)
(* of its name, which begins with the time.                                *)

NextFile(p, i) == i \in todo[p] /\ \A j \in todo[p] \ {i} : ListedBefore(i, j)

ListBegin(p) ==
  /\ phase[p] = "ready"
  /\ phase' = [phase EXCEPT ![p] = "listing"]
  /\ todo' = [todo EXCEPT ![p] = Present]
  /\ got' = [got EXCEPT ![p] = {}]
  /\ UNCHANGED <<clock, writers, upkeep, view>>

\* Mutant: a file that cannot be read is read as if it were whole.
ListReadAny(p) ==
  /\ phase[p] = "listing"
  /\ \E i \in todo[p] :
       /\ NextFile(p, i)
       /\ got' = [got EXCEPT ![p] = @ \cup {i}]
       /\ todo' = [todo EXCEPT ![p] = @ \ {i}]
  /\ UNCHANGED <<clock, writers, phase, upkeep, view>>

ListRead(p) ==
  /\ phase[p] = "listing"
  /\ \E i \in todo[p] :
       /\ NextFile(p, i)
       /\ file[i] = "complete"
       /\ got' = [got EXCEPT ![p] = @ \cup {i}]
       /\ todo' = [todo EXCEPT ![p] = @ \ {i}]
  /\ UNCHANGED <<clock, writers, phase, upkeep, view>>

\* Mutant: a file that has gone is passed over.
ListFailSkip(p) ==
  /\ phase[p] = "listing"
  /\ \E i \in todo[p] :
       /\ NextFile(p, i)
       /\ file[i] # "complete"
       /\ todo' = [todo EXCEPT ![p] = @ \ {i}]
  /\ UNCHANGED <<clock, writers, phase, got, upkeep, view>>

\* Mutant: the refresh of a room stops for good at the first listing that fails.
ListFailStuck(p) ==
  /\ phase[p] = "listing"
  /\ \E i \in todo[p] : NextFile(p, i) /\ file[i] # "complete"
  /\ phase' = [phase EXCEPT ![p] = "failed"]
  /\ todo' = [todo EXCEPT ![p] = {}]
  /\ got' = [got EXCEPT ![p] = {}]
  /\ UNCHANGED <<clock, writers, upkeep, view>>

\* A torn file does not parse, a file moved since os.ReadDir does not open: one of them
\* fails the whole listing.  A room tries again at its next refresh and keeps its
\* CACHE.md; a maintenance run exits.
ListFail(p) ==
  /\ phase[p] = "listing"
  /\ \E i \in todo[p] : NextFile(p, i) /\ file[i] # "complete"
  /\ phase' = [phase EXCEPT ![p] = IF p \in Readers THEN "ready" ELSE "failed"]
  /\ todo' = [todo EXCEPT ![p] = {}]
  /\ got' = [got EXCEPT ![p] = {}]
  /\ UNCHANGED <<clock, writers, upkeep, view>>

-----------------------------------------------------------------------------
(* WriteCacheMarkdown, called for a room by writeRoomCache.                *)

Visible(i) == i.objective = Objective /\ i.verified

\* Mutant: the filter is applied to the ranking instead of the listing.
RenderLate(r) ==
  /\ phase[r] = "listing" /\ todo[r] = {}
  /\ view' = [view EXCEPT ![r] = {i \in Ranked(got[r], Limit) : Visible(i)}]
  /\ phase' = [phase EXCEPT ![r] = "ready"]
  /\ got' = [got EXCEPT ![r] = {}]
  /\ UNCHANGED <<clock, writers, todo, upkeep>>

\* Mutant: the duplicates of an item are not removed.
RenderAll(r) ==
  /\ phase[r] = "listing" /\ todo[r] = {}
  /\ view' = [view EXCEPT ![r] = {i \in got[r] : Visible(i)}]
  /\ phase' = [phase EXCEPT ![r] = "ready"]
  /\ got' = [got EXCEPT ![r] = {}]
  /\ UNCHANGED <<clock, writers, todo, upkeep>>

Render(r) ==
  /\ phase[r] = "listing" /\ todo[r] = {}
  /\ view' = [view EXCEPT ![r] = Ranked({i \in got[r] : Visible(i)}, Limit)]
  /\ phase' = [phase EXCEPT ![r] = "ready"]
  /\ got' = [got EXCEPT ![r] = {}]
  /\ UNCHANGED <<clock, writers, todo, upkeep>>

-----------------------------------------------------------------------------
(* MaintainCache with Apply.                                               *)

MaintainStart(m) ==
  /\ phase[m] = "idle"
  /\ now' = [now EXCEPT ![m] = clock]
  /\ phase' = [phase EXCEPT ![m] = "ready"]
  /\ UNCHANGED <<clock, writers, todo, got, plan, moved, view>>

PlanMoves(m) ==
  /\ phase[m] = "listing" /\ todo[m] = {}
  /\ plan' = [plan EXCEPT ![m] = Candidates(got[m], now[m])]
  /\ phase' = [phase EXCEPT ![m] = "moving"]
  /\ got' = [got EXCEPT ![m] = {}]
  /\ UNCHANGED <<clock, writers, todo, now, moved, view>>

\* The reasons in the order of their names, which is the order of the moves.
ReasonRank(i, t) ==
  IF LowConfidence(i) THEN 2
  ELSE IF i.kind = "route_health" /\ t - i.created > RouteHealthStaleAfter THEN 4
  ELSE IF Stale(i, t) THEN 3
  ELSE 1

NextMove(m, i) ==
  /\ i \in plan[m]
  /\ \A j \in plan[m] :
       \/ ReasonRank(i, now[m]) < ReasonRank(j, now[m])
       \/ ReasonRank(i, now[m]) = ReasonRank(j, now[m]) /\ i.created <= j.created

\* Mutant: the report names a candidate whether or not this run moved it.
MoveClaimed(m) ==
  /\ phase[m] = "moving"
  /\ \E i \in plan[m] :
       /\ NextMove(m, i)
       /\ file' = [file EXCEPT ![i] = "quarantined"]
       /\ plan' = [plan EXCEPT ![m] = @ \ {i}]
       /\ moved' = [moved EXCEPT ![m] = @ \cup {i}]
  /\ UNCHANGED <<clock, writing, listing, now, view>>

Move(m) ==
  /\ phase[m] = "moving"
  /\ \E i \in plan[m] :
       /\ NextMove(m, i)
       /\ file[i] = "complete"
       /\ file' = [file EXCEPT ![i] = "quarantined"]
       /\ plan' = [plan EXCEPT ![m] = @ \ {i}]
       /\ moved' = [moved EXCEPT ![m] = @ \cup {i}]
  /\ UNCHANGED <<clock, writing, listing, now, view>>

\* os.Rename finds the file gone: the run stops with the rest of its plan undone.
MoveFail(m) ==
  /\ phase[m] = "moving"
  /\ \E i \in plan[m] : NextMove(m, i) /\ file[i] # "complete"
  /\ phase' = [phase EXCEPT ![m] = "failed"]
  /\ UNCHANGED <<clock, writers, todo, got, upkeep, view>>

MaintainEnd(m) ==
  /\ phase[m] = "moving" /\ plan[m] = {}
  /\ phase' = [phase EXCEPT ![m] = "done"]
  /\ UNCHANGED <<clock, writers, todo, got, upkeep, view>>

-----------------------------------------------------------------------------
WriterStep(w) == (\E i \in Items : PutCreate(w, i)) \/ PutFill(w) \/ PutTear(w)
ReaderStep(r) == ListBegin(r) \/ ListRead(r) \/ ListFail(r) \/ Render(r)
MaintainerStep(m) ==
  \/ MaintainStart(m) \/ ListBegin(m) \/ ListRead(m) \/ ListFail(m)
  \/ PlanMoves(m) \/ Move(m) \/ MoveFail(m) \/ MaintainEnd(m)

Next ==
  \/ Tick
  \/ \E w \in Writers : WriterStep(w)
  \/ \E r \in Readers : ReaderStep(r)
  \/ \E m \in Maintainers : MaintainerStep(m)

Spec == Init /\ [][Next]_vars

\* A room that is refreshed again and again; a created file is written unless the writer
\* stops; a maintenance run goes on once it is started.
Fairness ==
  /\ \A w \in Writers : WF_vars(PutFill(w))
  /\ \A r \in Readers : WF_vars(ReaderStep(r))
  /\ \A m \in Maintainers : WF_vars(~(phase[m] = "idle") /\ MaintainerStep(m))

FairSpec == Spec /\ Fairness

-----------------------------------------------------------------------------
\* An item leaves the cache only if it is weak, has gone stale, or an item that was put
\* beats it: whatever the interleaving of maintenance runs and writers, the best fresh item
\* of each key stays (quarantineCandidates, quarantineCacheFile).
Justified(i) == Prunable(i, clock) \/ \E j \in Landed : Beats(j, i)
RetirementsJustified == \A i \in Quarantined : Justified(i)

\* The reports of all maintenance runs, failed ones included, name each moved file exactly
\* once (report.Actions in MaintainCache).
MovesReportedOnce ==
  /\ Quarantined = UNION {moved[m] : m \in Maintainers}
  /\ \A m, n \in Maintainers : m # n => moved[m] \cap moved[n] = {}

\* A room is shown verified items of its objective that were wholly written, at most Limit
\* of them, no two of one key, whatever files come, go or are torn while it lists.
ViewsClean ==
  \A r \in Readers :
    /\ \A i \in view[r] : Visible(i) /\ i \in Landed
    /\ \A i, j \in view[r] : ~Beats(i, j)
    /\ Cardinality(view[r]) <= Limit

WritesApart ==
  \A w \in Writers : writing[w] # None =>
    /\ file[writing[w]] = "partial"
    /\ \A v \in Writers : writing[v] = writing[w] => v = w

ListingsSound ==
  \A p \in Listers :
    /\ todo[p] \cap {i \in Items : file[i] = "absent"} = {}
    /\ got[p] \subseteq Landed
    /\ phase[p] # "listing" => todo[p] = {} /\ got[p] = {}

PlansJustified ==
  \A m \in Maintainers :
    /\ now[m] <= clock
    /\ \A i \in plan[m] : i \in Landed /\ Justified(i)

\* The inductive invariant: a file being written belongs to one writer, what a lister has
\* read was whole, and every move that is planned or made has a reason.
Inductive ==
  /\ TypeOK
  /\ WritesApart
  /\ ListingsSound
  /\ PlansJustified
  /\ RetirementsJustified
  /\ MovesReportedOnce
  /\ ViewsClean

Covered(shown, i) ==
  \/ i \in shown
  \/ \E j \in shown : Beats(j, i)
  \/ Cardinality({j \in shown : RankedBefore(j, i)}) >= Limit

\* An item leaves a room's CACHE.md only if maintenance has moved it, an item shown beats
\* it, or Limit better ones are shown: no refresh loses an item for having listed the
\* directory while it was being changed (WriteCacheMarkdown).
DeparturesExplained ==
  [][\A r \in Readers : \A i \in view[r] :
       Covered(view'[r], i) \/ file[i] = "quarantined"]_vars

\* As long as no write stops half way, every item that is put reaches every room that
\* keeps refreshing, unless a better one does or maintenance moves it first.
ItemsArrive ==
  \A r \in Readers : \A i \in {j \in Items : Visible(j)} :
    (file[i] = "complete") ~> (Covered(view[r], i) \/ file[i] = "quarantined")

Contract ==
  INSTANCE CacheContract
    WITH put <- {i \in Items : file[i] # "absent"},
         retired <- Quarantined,
         snap <- [r \in Readers |-> todo[r] \cup got[r]]

\* The cache keeps its contract: every listing that succeeds is a snapshot of the directory
\* (listed, read file by file while others write and move) and every move has a reason.
ContractHolds == Contract!Behaviour
=============================================================================
