--------------------------- MODULE RoomSnapshots ---------------------------
(***************************************************************************)
(* The checkpoints of one room and the rooms regrown from them             *)
(* (internal/checkpoint, qsm regrow).  The executor archives the room      *)
(* after each phase while the cache supervisor and the watchdog of the     *)
(* attempt still write into it; another process restores an archive into   *)
(* the first regrow room that does not exist; the next run removes room    *)
(* and archives.  A file is its version; the hash of an archive is the     *)
(* archive.                                                                *)
(***************************************************************************)
EXTENDS Integers, Sequences, FiniteSets

CONSTANTS
  Files,       \* the number of files of the room, walked in order
  Script,      \* the phases the executor archives, in order, a retried one twice
  Regrows,     \* the regrowths of failures of this room
  MaxRooms,    \* the last regrow room nextRegrowRoom tries
  MaxEdits     \* bound on the writes of the others into the room

\* What is assumed of the constants.
SnapshotsAssumption ==
  /\ Files \in Nat \ {0} /\ MaxRooms \in Nat /\ MaxEdits \in Nat
  /\ Script # <<>> /\ Script \in Seq({Script[i] : i \in DOMAIN Script})

Phases == {Script[i] : i \in DOMAIN Script}
None   == <<>>            \* no archive, no entry of the manifest

VARIABLES
  room,       \* the version of each file
  archive,    \* phase.tar.gz of each phase
  manifest,   \* checkpoints/manifest.json: the archive each phase's entry names; torn if cut short
  claimed,    \* the archive the branch's metadata names for each phase
  maker,      \* the executor
  grow,       \* the regrowths
  rooms,      \* the regrow rooms
  twins       \* history: pairs of regrowths that looked for a room at the same time

vars == <<room, archive, manifest, claimed, maker, grow, rooms, twins>>

Nothing == [p \in Phases |-> None]
NewRoom == [i \in 1 .. Files |-> 0]
NoManifest == [torn |-> FALSE, of |-> Nothing]

Init ==
  /\ room = NewRoom /\ archive = Nothing /\ manifest = NoManifest /\ claimed = Nothing
  /\ maker = [pc |-> "idle", step |-> 1, tmp |-> <<>>, head |-> 0]
  /\ grow \in [Regrows -> [pc : {"start"}, phase : {Script[Len(Script)], "none"},
                           room : {0}, source : {None}, at : {1}]]
  /\ rooms = [n \in 1 .. MaxRooms |-> [there |-> FALSE, files |-> <<>>, seeds |-> {}]]
  /\ twins = {}

Phase == Script[maker.step]

-----------------------------------------------------------------------------
\* The room changes under the walk.
Edit ==
  /\ \E i \in 1 .. Files :
       room[i] < MaxEdits /\ room' = [room EXCEPT ![i] = @ + 1]
  /\ maker.pc \notin {"over", "dead"}
  /\ UNCHANGED <<archive, manifest, claimed, maker, grow, rooms, twins>>

\* A retried phase comes with a new result, which names no checkpoint yet.
Begin ==
  /\ maker.pc = "idle" /\ maker.step <= Len(Script)
  /\ maker' = [maker EXCEPT !.pc = "head", !.tmp = <<>>]
  /\ claimed' = [claimed EXCEPT ![Phase] = None]
  /\ UNCHANGED <<room, archive, manifest, grow, rooms, twins>>

\* The header of a file has its size, ...
Header ==
  /\ maker.pc = "head"
  /\ maker' = [maker EXCEPT !.pc = "copy", !.head = room[Len(maker.tmp) + 1]]
  /\ UNCHANGED <<room, archive, manifest, claimed, grow, rooms, twins>>

Last == [maker EXCEPT !.pc = IF maker.step = Len(Script) THEN "over" ELSE "idle",
                      !.step = IF maker.step = Len(Script) THEN @ ELSE @ + 1]

\* ... which its content must still have when it is copied.  A later version may have it or not.
Copy ==
  /\ maker.pc = "copy"
  /\ maker' = [maker EXCEPT !.pc = IF Len(maker.tmp) + 1 = Files THEN "rename" ELSE "head",
                            !.tmp = Append(@, room[Len(maker.tmp) + 1])]
  /\ UNCHANGED <<room, archive, manifest, claimed, grow, rooms, twins>>

\* The executor goes on without a checkpoint; one of an earlier attempt stays.
GiveUp ==
  /\ maker.pc = "copy" /\ room[Len(maker.tmp) + 1] # maker.head
  /\ maker' = Last
  /\ UNCHANGED <<room, archive, manifest, claimed, grow, rooms, twins>>

Rename ==
  /\ maker.pc = "rename"
  /\ archive' = [archive EXCEPT ![Phase] = maker.tmp]
  /\ maker' = [maker EXCEPT !.pc = "append"]
  /\ UNCHANGED <<room, manifest, claimed, grow, rooms, twins>>

\* appendManifest reads the manifest and writes it anew in place ...
AppendManifest ==
  /\ maker.pc = "append"
  /\ manifest' = [manifest EXCEPT !.torn = TRUE]
  /\ maker' = [maker EXCEPT !.pc = "appending"]
  /\ UNCHANGED <<room, archive, claimed, grow, rooms, twins>>

\* Mutant: an entry that is there already is kept.
ManifestKeepsOld ==
  /\ maker.pc = "appending"
  /\ manifest' = [torn |-> FALSE,
                  of   |-> [manifest.of EXCEPT ![Phase] = IF @ = None THEN maker.tmp ELSE @]]
  /\ claimed' = [claimed EXCEPT ![Phase] = maker.tmp]
  /\ maker' = Last
  /\ UNCHANGED <<room, archive, grow, rooms, twins>>

\* ... with the entry of the phase replaced.
ManifestWritten ==
  /\ maker.pc = "appending"
  /\ manifest' = [torn |-> FALSE, of |-> [manifest.of EXCEPT ![Phase] = maker.tmp]]
  /\ claimed' = [claimed EXCEPT ![Phase] = maker.tmp]
  /\ maker' = Last
  /\ UNCHANGED <<room, archive, grow, rooms, twins>>

Die ==
  /\ maker.pc \notin {"over", "dead"}
  /\ maker' = [maker EXCEPT !.pc = "dead"]
  /\ UNCHANGED <<room, archive, manifest, claimed, grow, rooms, twins>>

\* Chop of the next run: the room is made anew, without checkpoints.
Chop ==
  /\ maker.pc \in {"over", "dead"}
  /\ room' = NewRoom /\ archive' = Nothing /\ manifest' = NoManifest /\ claimed' = Nothing
  /\ UNCHANGED <<maker, grow, rooms, twins>>

-----------------------------------------------------------------------------
Set(g, pc) == [grow EXCEPT ![g].pc = pc]

\* nextRegrowRoom: the first that does not exist.
Free == {n \in 1 .. MaxRooms : ~rooms[n].there}

\* Mutant: a room counts as free until a seed is in it.
PickRoomUnseeded(g) ==
  /\ grow[g].pc = "start"
  /\ LET unseeded == {n \in 1 .. MaxRooms : rooms[n].seeds = {}}
         n == CHOOSE k \in unseeded : \A j \in unseeded : k <= j
     IN /\ unseeded # {}
        /\ grow' = [grow EXCEPT ![g].pc = "make", ![g].room = n]
        /\ twins' = twins \cup {{g, h} : h \in {x \in Regrows :
                                     grow[x].pc = "make" /\ grow[x].room = n}}
  /\ UNCHANGED <<room, archive, manifest, claimed, maker, rooms>>

PickRoom(g) ==
  /\ grow[g].pc = "start"
  /\ IF Free = {} THEN grow' = Set(g, "skipped") /\ UNCHANGED twins
     ELSE LET n == CHOOSE k \in Free : \A j \in Free : k <= j IN
          /\ grow' = [grow EXCEPT ![g].pc = "make", ![g].room = n]
          /\ twins' = twins \cup {{g, h} : h \in {x \in Regrows :
                                     grow[x].pc = "make" /\ grow[x].room = n}}
  /\ UNCHANGED <<room, archive, manifest, claimed, maker, rooms>>

\* Restore makes the room before it opens the archive.
MakeRoom(g) ==
  /\ grow[g].pc = "make"
  /\ rooms' = [rooms EXCEPT ![grow[g].room].there = TRUE]
  /\ grow' = Set(g, IF grow[g].phase = "none" THEN "seed" ELSE "open")
  /\ UNCHANGED <<room, archive, manifest, claimed, maker, twins>>

\* An open archive stays what it was, also when it is replaced or removed.
Open(g) ==
  /\ grow[g].pc = "open"
  /\ grow' = IF archive[grow[g].phase] = None THEN Set(g, "skipped")
             ELSE [grow EXCEPT ![g].pc = "extract", ![g].source = archive[grow[g].phase]]
  /\ UNCHANGED <<room, archive, manifest, claimed, maker, rooms, twins>>

Extract(g) ==
  LET at == grow[g].at
      files == rooms[grow[g].room].files
  IN
  /\ grow[g].pc = "extract"
  /\ rooms' = [rooms EXCEPT ![grow[g].room].files =
                 IF at <= Len(files) THEN [files EXCEPT ![at] = grow[g].source[at]]
                 ELSE Append(files, grow[g].source[at])]
  /\ grow' = [grow EXCEPT ![g].pc = IF at = Files THEN "seed" ELSE "extract", ![g].at = at + 1]
  /\ UNCHANGED <<room, archive, manifest, claimed, maker, twins>>

\* A write fails, or the process dies: the room stays as it is.
Abandon(g) ==
  /\ grow[g].pc \in {"make", "open", "extract", "seed"}
  /\ grow' = [grow EXCEPT ![g].pc = "skipped", ![g].room = IF grow[g].pc = "make" THEN 0 ELSE @]
  /\ UNCHANGED <<room, archive, manifest, claimed, maker, rooms, twins>>

Seed(g) ==
  /\ grow[g].pc = "seed"
  /\ rooms' = [rooms EXCEPT ![grow[g].room].seeds = @ \cup {g}]
  /\ grow' = Set(g, "prepared")
  /\ UNCHANGED <<room, archive, manifest, claimed, maker, twins>>

Next ==
  \/ Edit \/ Begin \/ Header \/ Copy \/ GiveUp \/ Rename \/ AppendManifest \/ ManifestWritten
  \/ Die \/ Chop
  \/ \E g \in Regrows : \/ PickRoom(g) \/ MakeRoom(g) \/ Open(g) \/ Extract(g) \/ Abandon(g)
                        \/ Seed(g)

Spec == Init /\ [][Next]_vars

-----------------------------------------------------------------------------
Snapshot == [1 .. Files -> 0 .. MaxEdits]

\* The manifest and the branch's metadata name the archive that is there, of every phase, except
\* while an archive is being put in place or when the executor died over it.  A checkpoint that
\* failed leaves the one of an earlier attempt, which the manifest still names and the branch no
\* longer claims (checkpoint.go:134, 138; executor.go:152).
SnapshotsAgree ==
  LET halfway == maker.pc \in {"append", "appending", "dead"} IN
  /\ ~halfway => manifest = [torn |-> FALSE, of |-> archive]
  /\ \A p \in Phases :
       /\ manifest.of[p] # archive[p] => halfway /\ p = Phase
       /\ claimed[p] \in {None, archive[p]}

\* A room reported as prepared holds all of its archive, as it was when it was opened, and was
\* left behind by no other regrowth; two regrowths have one room only if both looked for it
\* before either made it (main.go:2160-2193, 2202).
SeedsWhole ==
  \A g \in Regrows : grow[g].pc = "prepared" =>
    LET others == {h \in Regrows \ {g} : grow[h].room = grow[g].room} IN
    /\ \A h \in others : {g, h} \in twins
    /\ grow[g].source \in Snapshot \cup {None}
    /\ others = {} => rooms[grow[g].room] = [there |-> TRUE, files |-> grow[g].source, seeds |-> {g}]
=============================================================================
