----------------------------- MODULE MCRoot_proof -----------------------------
(***************************************************************************)
(* Proofs about the files of one root, for any number of processes, files, *)
(* phases and numbers.                                                     *)
(***************************************************************************)
EXTENDS MCRoot, FiniteOrders, FiniteSetTheorems, SequenceTheorems, TLAPS

-----------------------------------------------------------------------------
(***************************************************************************)
(* Checkpoints.                                                            *)
(***************************************************************************)
Steps == 1 .. Len(Script)

\* The types of what the executor works on.
SnapshotTypes ==
  /\ room \in [1 .. Files -> Nat]
  /\ archive \in [Snapshots!Phases -> Seq(Nat)]
  /\ claimed \in [Snapshots!Phases -> Seq(Nat)]
  /\ manifest \in [torn : BOOLEAN, of : [Snapshots!Phases -> Seq(Nat)]]
  /\ maker \in [pc : {"idle", "head", "copy", "rename", "append", "appending", "over", "dead"},
                step : Steps, tmp : Seq(Nat), head : Nat]
  /\ maker.pc \in {"head", "copy"} => Len(maker.tmp) < Files

\* While a checkpoint is made the branch claims none for its phase, ...
ClaimWaits ==
  maker.pc \in {"head", "copy", "rename", "append", "appending"} =>
    claimed[Snapshots!Phase] = Snapshots!None

\* ... and what is about to be entered is the archive that was put in place.
EntryIsArchive ==
  maker.pc \in {"append", "appending"} => maker.tmp = archive[Snapshots!Phase]

SnapshotsInv == SnapshotTypes /\ ClaimWaits /\ EntryIsArchive /\ Snapshots!SnapshotsAgree

LEMMA SnapshotConstants ==
  /\ Files \in Nat \ {0} /\ Len(Script) \in Nat \ {0} /\ Steps = DOMAIN Script
  /\ \A i \in Steps : Script[i] \in Snapshots!Phases
<1>1. Files \in Nat \ {0} /\ Script # <<>> /\ Script \in Seq(Snapshots!Phases)
  BY RootAssumption DEF Snapshots!SnapshotsAssumption, Snapshots!Phases
<1>2. QED
  BY <1>1 DEF Steps, Snapshots!Phases

LEMMA PhaseType == ASSUME SnapshotTypes PROVE Snapshots!Phase \in Snapshots!Phases
BY SnapshotConstants DEF SnapshotTypes, Snapshots!Phase

LEMMA SnapshotsInit == Snapshots!Init => SnapshotsInv
BY SnapshotConstants
   DEF Snapshots!Init, SnapshotsInv, SnapshotTypes, ClaimWaits, EntryIsArchive,
       Snapshots!SnapshotsAgree, Snapshots!NewRoom, Snapshots!Nothing, Snapshots!NoManifest,
       Snapshots!None

\* Last frees the executor, and leaves it at a phase of the script.
LEMMA LastType ==
  ASSUME SnapshotTypes
  PROVE  /\ Snapshots!Last.pc \in {"idle", "over"} /\ Snapshots!Last.step \in Steps
         /\ Snapshots!Last \in [pc : {"idle", "head", "copy", "rename", "append", "appending",
                                     "over", "dead"},
                                step : Steps, tmp : Seq(Nat), head : Nat]
<1>1. (IF maker.step = Len(Script) THEN maker.step ELSE maker.step + 1) \in Steps
  BY SnapshotConstants DEF SnapshotTypes, Steps
<1>2. QED
  BY <1>1 DEF SnapshotTypes, Snapshots!Last

\* The walk and the others in the room touch no archive and no entry.
LEMMA WalkSteps ==
  ASSUME SnapshotsInv,
         Snapshots!Edit \/ Snapshots!Begin \/ Snapshots!Header \/ Snapshots!Copy \/ Snapshots!GiveUp
         \/ Snapshots!Die
  PROVE  SnapshotsInv'
<1> USE SnapshotConstants, PhaseType DEF SnapshotsInv
<1>1. CASE Snapshots!Edit
  BY <1>1 DEF Snapshots!Edit, SnapshotTypes, ClaimWaits, EntryIsArchive, Snapshots!SnapshotsAgree,
              Snapshots!Phase
<1>2. CASE Snapshots!Begin
  <2>1. SnapshotTypes'
    <3>1. <<>> \in Seq(Nat) /\ Len(<<>>) = 0 /\ 0 < Files
      OBVIOUS
    <3>2. claimed' \in [Snapshots!Phases -> Seq(Nat)]
      BY <1>2, <3>1 DEF Snapshots!Begin, SnapshotTypes, Snapshots!None
    <3>3. maker' = [maker EXCEPT !.pc = "head", !.tmp = <<>>]
      BY <1>2 DEF Snapshots!Begin
    <3>4. QED
      BY <1>2, <3>1, <3>2, <3>3 DEF Snapshots!Begin, SnapshotTypes
  <2>2. ClaimWaits' /\ EntryIsArchive' /\ Snapshots!SnapshotsAgree'
    BY <1>2 DEF Snapshots!Begin, SnapshotTypes, ClaimWaits, EntryIsArchive,
                Snapshots!SnapshotsAgree, Snapshots!Phase, Snapshots!None
  <2>3. QED
    BY <2>1, <2>2
<1>3. CASE Snapshots!Header
  <2>1. SnapshotTypes'
    <3>1. room[Len(maker.tmp) + 1] \in Nat
      BY <1>3 DEF Snapshots!Header, SnapshotTypes
    <3>2. QED
      BY <1>3, <3>1 DEF Snapshots!Header, SnapshotTypes
  <2>2. ClaimWaits' /\ EntryIsArchive' /\ Snapshots!SnapshotsAgree'
    BY <1>3 DEF Snapshots!Header, SnapshotTypes, ClaimWaits, EntryIsArchive,
                Snapshots!SnapshotsAgree, Snapshots!Phase
  <2>3. QED
    BY <2>1, <2>2
<1>4. CASE Snapshots!Copy
  <2>1. SnapshotTypes'
    <3>1. maker.tmp \in Seq(Nat) /\ Len(maker.tmp) \in Nat /\ Len(maker.tmp) < Files
      BY <1>4 DEF Snapshots!Copy, SnapshotTypes
    <3>2. room[Len(maker.tmp) + 1] \in Nat
      <4>1. Len(maker.tmp) + 1 \in 1 .. Files
        BY <3>1
      <4>2. QED
        BY <4>1 DEF SnapshotTypes
    <3> DEFINE longer == Append(maker.tmp, room[Len(maker.tmp) + 1])
    <3>3. longer \in Seq(Nat) /\ Len(longer) = Len(maker.tmp) + 1
      BY <3>1, <3>2
    <3>4. maker' = [maker EXCEPT !.pc = IF Len(maker.tmp) + 1 = Files THEN "rename" ELSE "head",
                                 !.tmp = longer]
      BY <1>4 DEF Snapshots!Copy
    <3> HIDE DEF longer
    <3>5. /\ maker' \in [pc : {"head", "rename"}, step : Steps, tmp : Seq(Nat), head : Nat]
          /\ maker'.tmp = longer /\ (maker'.pc = "head" => Len(maker.tmp) + 1 # Files)
      BY <3>3, <3>4 DEF SnapshotTypes
    <3>6. maker'.pc = "head" => Len(maker'.tmp) < Files
      <4>1. Len(longer) = Len(maker.tmp) + 1 /\ Len(longer) <= Files
        BY <3>1, <3>3
      <4>2. maker'.pc = "head" => Len(longer) # Files
        BY <3>5, <4>1
      <4>3. maker'.pc = "head" => Len(longer) < Files
        BY <3>1, <4>1, <4>2
      <4>4. QED
        BY <3>5, <4>3
    <3>7. UNCHANGED <<room, archive, claimed, manifest>>
      BY <1>4 DEF Snapshots!Copy
    <3>8. QED
      BY <3>5, <3>6, <3>7 DEF SnapshotTypes
  <2>2. ClaimWaits' /\ EntryIsArchive' /\ Snapshots!SnapshotsAgree'
    BY <1>4 DEF Snapshots!Copy, SnapshotTypes, ClaimWaits, EntryIsArchive,
                Snapshots!SnapshotsAgree, Snapshots!Phase
  <2>3. QED
    BY <2>1, <2>2
<1>5. CASE Snapshots!GiveUp
  BY <1>5, LastType DEF Snapshots!GiveUp, SnapshotTypes, ClaimWaits, EntryIsArchive,
              Snapshots!SnapshotsAgree, Snapshots!Phase
<1>6. CASE Snapshots!Die
  BY <1>6 DEF Snapshots!Die, SnapshotTypes, ClaimWaits, EntryIsArchive,
              Snapshots!SnapshotsAgree, Snapshots!Phase
<1>7. QED
  BY <1>1, <1>2, <1>3, <1>4, <1>5, <1>6

\* Putting an archive in place, entering it in the manifest, and removing it all.
LEMMA PublishSteps ==
  ASSUME SnapshotsInv,
         Snapshots!Rename \/ Snapshots!AppendManifest \/ Snapshots!ManifestWritten \/ Snapshots!Chop
  PROVE  SnapshotsInv'
<1> USE SnapshotConstants, PhaseType DEF SnapshotsInv
<1>1. CASE Snapshots!Rename
  BY <1>1 DEF Snapshots!Rename, SnapshotTypes, ClaimWaits, EntryIsArchive,
              Snapshots!SnapshotsAgree, Snapshots!Phase
<1>2. CASE Snapshots!AppendManifest
  BY <1>2 DEF Snapshots!AppendManifest, SnapshotTypes, ClaimWaits, EntryIsArchive,
              Snapshots!SnapshotsAgree, Snapshots!Phase
<1>3. CASE Snapshots!ManifestWritten
  <2>1. manifest'.of = archive /\ archive' = archive /\ manifest'.torn = FALSE
    BY <1>3 DEF Snapshots!ManifestWritten, SnapshotTypes, EntryIsArchive, Snapshots!SnapshotsAgree
  <2>2. SnapshotTypes'
    BY <1>3, LastType DEF Snapshots!ManifestWritten, SnapshotTypes
  <2>3. \A p \in Snapshots!Phases : claimed'[p] \in {Snapshots!None, archive'[p]}
    BY <1>3, <2>1 DEF Snapshots!ManifestWritten, SnapshotTypes, EntryIsArchive,
                      Snapshots!SnapshotsAgree
  <2>4. maker'.pc \in {"idle", "over"}
    BY <1>3, LastType DEF Snapshots!ManifestWritten
  <2>5. manifest' = [torn |-> FALSE, of |-> archive']
    BY <2>1, <1>3 DEF Snapshots!ManifestWritten
  <2>6. QED
    BY <2>1, <2>2, <2>3, <2>4, <2>5 DEF ClaimWaits, EntryIsArchive, Snapshots!SnapshotsAgree
<1>4. CASE Snapshots!Chop
  <2>1. <<>> \in Seq(Nat)
    OBVIOUS
  <2>2. /\ maker' = maker /\ maker.pc \in {"over", "dead"}
        /\ room' \in [1 .. Files -> Nat]
        /\ archive' = [p \in Snapshots!Phases |-> <<>>] /\ claimed' = archive'
        /\ manifest' = [torn |-> FALSE, of |-> archive']
    BY <1>4 DEF Snapshots!Chop, Snapshots!NewRoom, Snapshots!Nothing, Snapshots!NoManifest,
                Snapshots!None
  <2>3. SnapshotTypes'
    BY <2>1, <2>2 DEF SnapshotTypes
  <2>4. QED
    BY <2>2, <2>3 DEF ClaimWaits, EntryIsArchive, Snapshots!SnapshotsAgree
<1>5. QED
  BY <1>1, <1>2, <1>3, <1>4

\* A regrowth reads archives and writes rooms.
LEMMA GrowSteps ==
  ASSUME NEW g \in Regrows,
         Snapshots!PickRoom(g) \/ Snapshots!MakeRoom(g) \/ Snapshots!Open(g) \/ Snapshots!Extract(g)
         \/ Snapshots!Abandon(g) \/ Snapshots!Seed(g)
  PROVE  UNCHANGED <<room, archive, manifest, claimed, maker>>
BY DEF Snapshots!PickRoom, Snapshots!MakeRoom, Snapshots!Open, Snapshots!Extract,
       Snapshots!Abandon, Snapshots!Seed

LEMMA SnapshotsUnchanged ==
  ASSUME SnapshotsInv, UNCHANGED <<room, archive, manifest, claimed, maker>>
  PROVE  SnapshotsInv'
BY DEF SnapshotsInv, SnapshotTypes, ClaimWaits, EntryIsArchive, Snapshots!SnapshotsAgree,
       Snapshots!Phase

LEMMA SnapshotsNext ==
  ASSUME SnapshotsInv, Snapshots!Next
  PROVE  SnapshotsInv'
BY WalkSteps, PublishSteps, GrowSteps, SnapshotsUnchanged DEF Snapshots!Next

-----------------------------------------------------------------------------
(***************************************************************************)
(* The rooms that are regrown.                                             *)
(***************************************************************************)
Versions == 0 .. MaxEdits
Archived == {s \in Seq(Versions) : Len(s) \in {0, Files}}

\* An archive has a version of every file.
ArchivesWhole ==
  /\ room \in [1 .. Files -> Versions]
  /\ archive \in [Snapshots!Phases -> Archived]
  /\ maker.tmp \in Seq(Versions)
  /\ maker.pc = "rename" => Len(maker.tmp) = Files

GrowRecord ==
  [pc : {"start", "make", "open", "extract", "seed", "prepared", "skipped"},
   phase : Snapshots!Phases \cup {"none"}, room : 0 .. MaxRooms, source : Archived, at : Nat]

GrowTypes ==
  /\ grow \in [Regrows -> GrowRecord]
  /\ rooms \in [1 .. MaxRooms -> [there : BOOLEAN, files : Seq(Versions), seeds : SUBSET Regrows]]

\* How far a regrowth is.
GrowPlaces ==
  \A g \in Regrows :
    /\ grow[g].pc \in {"make", "open", "extract", "seed", "prepared"} => grow[g].room # 0
    /\ grow[g].pc \in {"start", "make", "open"} =>
         grow[g].source = <<>> /\ grow[g].at = 1
    /\ grow[g].pc = "start" => grow[g].room = 0
    /\ grow[g].pc = "open" => grow[g].phase # "none"
    /\ grow[g].pc = "extract" => grow[g].at \in 1 .. Files /\ Len(grow[g].source) = Files

\* A regrowth that has made its room uses it for good.
Uses(g, n) == grow[g].room = n /\ grow[g].pc # "make"

RoomsThere == \A g \in Regrows : grow[g].room # 0 /\ Uses(g, grow[g].room) =>
                                   rooms[grow[g].room].there

\* Two regrowths have one room only if both looked for it before either made it.
TwinsNoted ==
  \A g, h \in Regrows : g # h /\ grow[g].room = grow[h].room /\ grow[g].room # 0 => {g, h} \in twins

\* In a room that no one uses yet there is nothing, ...
UnusedEmpty ==
  \A n \in 1 .. MaxRooms : (\A g \in Regrows : ~Uses(g, n)) =>
    rooms[n].files = <<>> /\ rooms[n].seeds = {}

\* ... and in a room that one regrowth uses there is what that one has extracted so far.
Extracted(g, n) ==
  /\ grow[g].pc = "open" => rooms[n].files = <<>> /\ rooms[n].seeds = {}
  /\ grow[g].pc = "extract" =>
       /\ rooms[n].seeds = {} /\ Len(rooms[n].files) = grow[g].at - 1
       /\ \A i \in 1 .. grow[g].at - 1 : rooms[n].files[i] = grow[g].source[i]
  /\ grow[g].pc = "seed" => rooms[n].files = grow[g].source /\ rooms[n].seeds = {}
  /\ grow[g].pc = "prepared" => rooms[n].files = grow[g].source /\ rooms[n].seeds = {g}

SoleUser(g, n) == Uses(g, n) /\ \A h \in Regrows \ {g} : ~Uses(h, n)

SoleUserExtracts ==
  \A g \in Regrows, n \in 1 .. MaxRooms : SoleUser(g, n) => Extracted(g, n)

GrowInv ==
  ArchivesWhole /\ GrowTypes /\ GrowPlaces /\ RoomsThere /\ TwinsNoted /\ UnusedEmpty
  /\ SoleUserExtracts

LEMMA GrowConstants ==
  /\ Files \in Nat \ {0} /\ MaxRooms \in Nat /\ MaxEdits \in Nat
  /\ <<>> \in Archived /\ Script[Len(Script)] \in Snapshots!Phases
<1>1. Files \in Nat \ {0} /\ MaxRooms \in Nat /\ MaxEdits \in Nat
  BY RootAssumption DEF Snapshots!SnapshotsAssumption
<1>2. <<>> \in Archived
  BY DEF Archived
<1>3. Len(Script) \in Steps
  BY SnapshotConstants DEF Steps
<1>4. QED
  BY <1>1, <1>2, <1>3, SnapshotConstants

LEMMA GrowInit == Snapshots!Init => GrowInv
<1> SUFFICES ASSUME Snapshots!Init PROVE GrowInv
  OBVIOUS
<1>1. ArchivesWhole
  <2>1. 0 \in Versions /\ <<>> \in Seq(Versions)
    BY GrowConstants DEF Versions
  <2>2. QED
    BY <2>1, GrowConstants
       DEF Snapshots!Init, ArchivesWhole, Snapshots!NewRoom, Snapshots!Nothing, Snapshots!None
<1>2. \A g \in Regrows :
        grow[g] \in [pc : {"start"}, phase : {Script[Len(Script)], "none"},
                     room : {0}, source : {<<>>}, at : {1}]
  BY DEF Snapshots!Init, Snapshots!None
<1>3. \A n \in 1 .. MaxRooms : rooms[n] = [there |-> FALSE, files |-> <<>>, seeds |-> {}]
  BY DEF Snapshots!Init
<1>4. GrowTypes
  <2>1. grow \in [Regrows -> [pc : {"start"}, phase : {Script[Len(Script)], "none"},
                              room : {0}, source : {<<>>}, at : {1}]]
    BY DEF Snapshots!Init, Snapshots!None
  <2>2. 0 \in 0 .. MaxRooms /\ 1 \in Nat /\ <<>> \in Seq(Versions)
    BY GrowConstants
  <2>3. [pc : {"start"}, phase : {Script[Len(Script)], "none"}, room : {0}, source : {<<>>},
         at : {1}] \subseteq GrowRecord
    BY <2>2, GrowConstants DEF GrowRecord
  <2>4. grow \in [Regrows -> GrowRecord]
    BY <2>1, <2>3
  <2>5. QED
    BY <2>2, <2>4 DEF Snapshots!Init, GrowTypes
<1>5. GrowPlaces /\ RoomsThere /\ TwinsNoted /\ UnusedEmpty
  BY <1>2, <1>3 DEF GrowPlaces, RoomsThere, TwinsNoted, UnusedEmpty
<1>6. SoleUserExtracts
  BY <1>2 DEF SoleUserExtracts, SoleUser, Uses
<1>7. QED
  BY <1>1, <1>4, <1>5, <1>6 DEF GrowInv

\* The steps in the room of the branch.
LEMMA ArchiveSteps ==
  ASSUME SnapshotsInv, ArchivesWhole,
         \/ Snapshots!Edit \/ Snapshots!Begin \/ Snapshots!Header \/ Snapshots!Copy
         \/ Snapshots!GiveUp \/ Snapshots!Rename \/ Snapshots!AppendManifest
         \/ Snapshots!ManifestWritten \/ Snapshots!Die \/ Snapshots!Chop
  PROVE  ArchivesWhole' /\ UNCHANGED <<grow, rooms, twins>>
<1> USE GrowConstants
<1>1. SnapshotTypes
  BY DEF SnapshotsInv
<1>2. Snapshots!Last.pc # "rename" /\ Snapshots!Last.tmp = maker.tmp
  BY <1>1, LastType DEF Snapshots!Last, SnapshotTypes
<1>3. CASE Snapshots!Edit
  <2>1. PICK i \in 1 .. Files : room[i] < MaxEdits /\ room' = [room EXCEPT ![i] = @ + 1]
    BY <1>3 DEF Snapshots!Edit
  <2>2. room' \in [1 .. Files -> Versions]
    BY <2>1 DEF ArchivesWhole, Versions
  <2>3. QED
    BY <1>3, <2>2 DEF Snapshots!Edit, ArchivesWhole
<1>4. CASE Snapshots!Begin
  <2>1. <<>> \in Seq(Versions) /\ maker'.tmp = <<>> /\ maker'.pc = "head"
    BY <1>1, <1>4 DEF Snapshots!Begin, SnapshotTypes
  <2>2. QED
    BY <1>4, <2>1 DEF Snapshots!Begin, ArchivesWhole
<1>5. CASE Snapshots!Header
  BY <1>1, <1>5 DEF Snapshots!Header, ArchivesWhole, SnapshotTypes
<1>6. CASE Snapshots!Copy
  <2> DEFINE x  == room[Len(maker.tmp) + 1]
             pc == IF Len(maker.tmp) + 1 = Files THEN "rename" ELSE "head"
  <2>1. Len(maker.tmp) \in Nat /\ Len(maker.tmp) + 1 \in 1 .. Files
    BY <1>1, <1>6 DEF Snapshots!Copy, SnapshotTypes
  <2>2. x \in Versions
    BY <2>1 DEF ArchivesWhole
  <2>3. maker' = [maker EXCEPT !.pc = pc, !.tmp = Append(maker.tmp, x)]
    BY <1>6 DEF Snapshots!Copy
  <2> HIDE DEF x, pc
  <2>4. maker'.pc = pc /\ maker'.tmp = Append(maker.tmp, x)
    BY <1>1, <2>3 DEF SnapshotTypes
  <2>5. Append(maker.tmp, x) \in Seq(Versions) /\ Len(Append(maker.tmp, x)) = Len(maker.tmp) + 1
    BY <2>2 DEF ArchivesWhole
  <2>6. pc = "rename" => Len(maker.tmp) + 1 = Files
    BY DEF pc
  <2>7. QED
    BY <1>6, <2>4, <2>5, <2>6 DEF Snapshots!Copy, ArchivesWhole
<1>7. CASE Snapshots!GiveUp
  BY <1>2, <1>7 DEF Snapshots!GiveUp, ArchivesWhole
<1>8. CASE Snapshots!Rename
  <2>1. maker.tmp \in Archived
    BY <1>8 DEF Snapshots!Rename, ArchivesWhole, Archived
  <2>2. archive' \in [Snapshots!Phases -> Archived]
    BY <1>8, <2>1 DEF Snapshots!Rename, ArchivesWhole
  <2>3. maker'.tmp = maker.tmp /\ maker'.pc = "append"
    BY <1>1, <1>8 DEF Snapshots!Rename, SnapshotTypes
  <2>4. QED
    BY <1>8, <2>2, <2>3 DEF Snapshots!Rename, ArchivesWhole
<1>9. CASE Snapshots!AppendManifest
  BY <1>1, <1>9 DEF Snapshots!AppendManifest, ArchivesWhole, SnapshotTypes
<1>10. CASE Snapshots!ManifestWritten
  BY <1>2, <1>10 DEF Snapshots!ManifestWritten, ArchivesWhole
<1>11. CASE Snapshots!Die
  BY <1>1, <1>11 DEF Snapshots!Die, ArchivesWhole, SnapshotTypes
<1>12. CASE Snapshots!Chop
  <2>1. 0 \in Versions
    BY DEF Versions
  <2>2. QED
    BY <1>12, <2>1 DEF Snapshots!Chop, ArchivesWhole, Snapshots!NewRoom, Snapshots!Nothing,
                       Snapshots!None
<1>13. QED
  BY <1>3, <1>4, <1>5, <1>6, <1>7, <1>8, <1>9, <1>10, <1>11, <1>12

LEMMA GrowUnchanged ==
  ASSUME GrowInv, ArchivesWhole', UNCHANGED <<grow, rooms, twins>>
  PROVE  GrowInv'
<1>1. GrowTypes' /\ GrowPlaces' /\ RoomsThere' /\ TwinsNoted'
  BY DEF GrowInv, GrowTypes, GrowPlaces, RoomsThere, TwinsNoted, Uses
<1>2. UnusedEmpty'
  BY DEF GrowInv, UnusedEmpty, Uses
<1>3. \A g \in Regrows, n \in 1 .. MaxRooms : SoleUser(g, n)' => SoleUser(g, n)
  BY DEF SoleUser, Uses
<1>4. \A g \in Regrows, n \in 1 .. MaxRooms : Extracted(g, n) => Extracted(g, n)'
  BY DEF Extracted
<1>5. SoleUserExtracts'
  BY <1>3, <1>4 DEF GrowInv, SoleUserExtracts
<1>6. QED
  BY <1>1, <1>2, <1>5 DEF GrowInv

\* One regrowth goes on.
LEMMA GrowingStep ==
  ASSUME GrowInv, NEW g \in Regrows, NEW new \in GrowRecord, grow' = [grow EXCEPT ![g] = new]
  PROVE  /\ grow' \in [Regrows -> GrowRecord] /\ grow'[g] = new
         /\ \A h \in Regrows \ {g} : grow'[h] = grow[h]
BY DEF GrowInv, GrowTypes, GrowRecord

\* The facts about a regrowth that a step of it needs.
LEMMA GrowFacts ==
  ASSUME GrowInv, NEW g \in Regrows
  PROVE  /\ grow[g] \in GrowRecord
         /\ grow[g].room # 0 => /\ grow[g].room \in 1 .. MaxRooms
                                /\ rooms[grow[g].room] \in [there : BOOLEAN, files : Seq(Versions),
                                                            seeds : SUBSET Regrows]
BY GrowConstants DEF GrowInv, GrowTypes, GrowRecord

\* A regrowth takes the first room that is not there.
LEMMA PickStep ==
  ASSUME GrowInv, NEW g \in Regrows, Snapshots!PickRoom(g)
  PROVE  GrowInv'
<1>0. grow[g] \in GrowRecord
  BY GrowFacts
<1>1. /\ grow[g].pc = "start" /\ grow[g].room = 0 /\ grow[g].source = <<>> /\ grow[g].at = 1
      /\ UNCHANGED <<room, archive, maker, rooms>>
  BY DEF Snapshots!PickRoom, GrowInv, GrowPlaces
<1>2. ArchivesWhole'
  BY <1>1 DEF GrowInv, ArchivesWhole
<1>3. CASE Snapshots!Free = {}
  <2> DEFINE new == [grow[g] EXCEPT !.pc = "skipped"]
  <2>1. grow' = [grow EXCEPT ![g] = new] /\ twins' = twins
    BY <1>3 DEF Snapshots!PickRoom, Snapshots!Set, GrowInv, GrowTypes
  <2>2. /\ new \in GrowRecord /\ new.pc = "skipped" /\ new.room = 0
    BY <1>0, <1>1 DEF GrowRecord
  <2> HIDE DEF new
  <2>3. /\ grow' \in [Regrows -> GrowRecord] /\ grow'[g] = new
        /\ \A h \in Regrows \ {g} : grow'[h] = grow[h]
    BY <2>1, <2>2, GrowingStep
  <2>4. GrowTypes'
    BY <1>1, <2>3 DEF GrowInv, GrowTypes, GrowRecord
  <2>5. GrowPlaces'
    BY <2>2, <2>3 DEF GrowInv, GrowPlaces
  <2>6. \A h \in Regrows, n \in 1 .. MaxRooms : Uses(h, n)' <=> Uses(h, n)
    BY <1>1, <2>2, <2>3 DEF Uses
  <2>7. RoomsThere' /\ TwinsNoted'
    BY <1>1, <2>1, <2>2, <2>3 DEF GrowInv, RoomsThere, TwinsNoted, Uses
  <2>8. UnusedEmpty'
    BY <1>1, <2>6 DEF GrowInv, UnusedEmpty
  <2>9. SoleUserExtracts'
    <3> SUFFICES ASSUME NEW h \in Regrows, NEW k \in 1 .. MaxRooms, SoleUser(h, k)'
                 PROVE  Extracted(h, k)'
      BY DEF SoleUserExtracts
    <3>1. Uses(h, k)' /\ SoleUser(h, k)
      BY <2>6 DEF SoleUser
    <3>2. h # g
      BY <2>2, <2>3, <3>1 DEF Uses
    <3>3. Extracted(h, k) /\ grow'[h] = grow[h] /\ rooms'[k] = rooms[k]
      BY <1>1, <2>3, <3>1, <3>2 DEF GrowInv, SoleUserExtracts
    <3>4. QED
      BY <3>3 DEF Extracted
  <2>10. QED
    BY <1>2, <2>4, <2>5, <2>7, <2>8, <2>9 DEF GrowInv
<1>4. CASE Snapshots!Free # {}
  <2> DEFINE n   == CHOOSE k \in Snapshots!Free : \A j \in Snapshots!Free : k <= j
             new == [grow[g] EXCEPT !.pc = "make", !.room = n]
  <2>1. n \in 1 .. MaxRooms /\ ~rooms[n].there
    <3>1. Snapshots!Free \in SUBSET Nat
      BY GrowConstants DEF Snapshots!Free
    <3>2. \E k \in Snapshots!Free : \A j \in Snapshots!Free : k <= j
      BY <1>4, <3>1, SmallestOfSet
    <3>3. n \in Snapshots!Free
      BY <3>2
    <3>4. QED
      BY <3>3 DEF Snapshots!Free
  <2>2. /\ grow' = [grow EXCEPT ![g].pc = "make", ![g].room = n]
        /\ twins' = twins \cup {{g, h} : h \in {x \in Regrows :
                                     grow[x].pc = "make" /\ grow[x].room = n}}
    BY <1>4 DEF Snapshots!PickRoom
  <2> HIDE DEF n
  <2>3. grow' = [grow EXCEPT ![g] = new]
    BY <2>2 DEF GrowInv, GrowTypes
  <2>31. n \in 0 .. MaxRooms
    BY <2>1, GrowConstants
  <2>32. /\ new \in GrowRecord /\ new.pc = "make" /\ new.room = n /\ new.source = <<>>
         /\ new.at = 1
    BY <1>0, <1>1, <2>31 DEF GrowRecord
  <2> HIDE DEF new
  <2>4. /\ grow' \in [Regrows -> GrowRecord] /\ grow'[g] = new
        /\ \A h \in Regrows \ {g} : grow'[h] = grow[h]
    BY <2>3, <2>32, GrowingStep
  <2>5. GrowTypes'
    BY <1>1, <2>4 DEF GrowInv, GrowTypes, GrowRecord
  <2>6. GrowPlaces'
    BY <2>1, <2>32, <2>4 DEF GrowInv, GrowPlaces
  <2>7. \A h \in Regrows, k \in 1 .. MaxRooms : Uses(h, k)' <=> Uses(h, k)
    BY <1>1, <2>32, <2>4 DEF Uses
  <2>8. RoomsThere'
    BY <1>1, <2>32, <2>4 DEF GrowInv, RoomsThere, Uses
  <2>9. TwinsNoted'
    <3>1. \A h \in Regrows \ {g} : grow[h].room = n => {g, h} \in twins'
      BY <2>1, <2>2 DEF GrowInv, RoomsThere, Uses
    <3>2. \A h \in Regrows \ {g} : {h, g} = {g, h}
      OBVIOUS
    <3>3. twins \subseteq twins'
      BY <2>2
    <3>4. \A h, k \in Regrows \ {g} : h # k /\ grow'[h].room = grow'[k].room /\ grow'[h].room # 0
                                      => {h, k} \in twins'
      BY <2>4, <3>3 DEF GrowInv, TwinsNoted
    <3>5. QED
      BY <2>32, <2>4, <3>1, <3>2, <3>4 DEF TwinsNoted
  <2>10. UnusedEmpty'
    BY <1>1, <2>7 DEF GrowInv, UnusedEmpty
  <2>11. SoleUserExtracts'
    <3> SUFFICES ASSUME NEW h \in Regrows, NEW k \in 1 .. MaxRooms, SoleUser(h, k)'
                 PROVE  Extracted(h, k)'
      BY DEF SoleUserExtracts
    <3>1. Uses(h, k)' /\ SoleUser(h, k)
      BY <2>7 DEF SoleUser
    <3>2. h # g
      BY <2>32, <2>4, <3>1 DEF Uses
    <3>3. Extracted(h, k) /\ grow'[h] = grow[h] /\ rooms'[k] = rooms[k]
      BY <1>1, <2>4, <3>1, <3>2 DEF GrowInv, SoleUserExtracts
    <3>4. QED
      BY <3>3 DEF Extracted
  <2>12. QED
    BY <1>2, <2>5, <2>6, <2>8, <2>9, <2>10, <2>11 DEF GrowInv
<1>5. QED
  BY <1>3, <1>4

\* A step of a regrowth in its room, which it has made or makes now: what is in the other rooms,
\* and in this one if another uses it too, does not matter.
LEMMA RoomStep ==
  ASSUME GrowInv, NEW g \in Regrows, NEW n \in 1 .. MaxRooms, NEW new \in GrowRecord, NEW made,
         grow[g].room = n, new.room = n, new.pc # "make",
         grow' = [grow EXCEPT ![g] = new], rooms' = [rooms EXCEPT ![n] = made],
         made \in [there : {TRUE}, files : Seq(Versions), seeds : SUBSET Regrows],
         UNCHANGED <<room, archive, maker, twins>>,
         new.pc # "start",
         new.pc = "open" => new.source = <<>> /\ new.at = 1 /\ new.phase # "none",
         new.pc = "extract" => new.at \in 1 .. Files /\ Len(new.source) = Files,
         (\A h \in Regrows \ {g} : ~Uses(h, n)) => Extracted(g, n)'
  PROVE  GrowInv'
<1>1. /\ grow' \in [Regrows -> GrowRecord] /\ grow'[g] = new
      /\ \A h \in Regrows \ {g} : grow'[h] = grow[h]
  BY GrowingStep
<1>2. grow'[g].room = n
  BY <1>1
<1>3. /\ rooms' \in [1 .. MaxRooms -> [there : BOOLEAN, files : Seq(Versions),
                                       seeds : SUBSET Regrows]]
      /\ rooms'[n] = made /\ made.there
      /\ \A k \in (1 .. MaxRooms) \ {n} : rooms'[k] = rooms[k]
  BY DEF GrowInv, GrowTypes
<1>4. ArchivesWhole'
  BY DEF GrowInv, ArchivesWhole
<1>5. GrowTypes'
  BY <1>1, <1>3 DEF GrowTypes, GrowRecord
<1>6. GrowPlaces'
  BY <1>1 DEF GrowInv, GrowPlaces
<1>7. /\ Uses(g, n)'
      /\ \A k : k # n => ~Uses(g, k)' /\ ~Uses(g, k)
      /\ \A h \in Regrows \ {g}, k \in 1 .. MaxRooms : Uses(h, k)' <=> Uses(h, k)
  BY <1>1, <1>2 DEF Uses
<1>8. RoomsThere'
  <2> SUFFICES ASSUME NEW h \in Regrows, grow'[h].room # 0, Uses(h, grow[h].room)'
               PROVE  rooms'[grow'[h].room].there
    BY DEF RoomsThere
  <2>1. CASE grow'[h].room = n
    BY <1>3, <2>1
  <2>2. CASE grow'[h].room # n
    <3>1. h # g /\ grow'[h] = grow[h]
      BY <1>1, <1>2, <2>2
    <3>2. grow[h].room \in (1 .. MaxRooms) \ {n}
      BY <2>2, <3>1, GrowFacts
    <3>3. Uses(h, grow[h].room)
      BY <3>1 DEF Uses
    <3>4. QED
      BY <1>3, <3>1, <3>2, <3>3 DEF GrowInv, RoomsThere
  <2>3. QED
    BY <2>1, <2>2
<1>9. TwinsNoted'
  <2>1. \A h \in Regrows : grow'[h].room = grow[h].room
    BY <1>1, <1>2
  <2>2. QED
    BY <2>1 DEF GrowInv, TwinsNoted
<1>10. UnusedEmpty'
  <2> SUFFICES ASSUME NEW k \in 1 .. MaxRooms, \A h \in Regrows : ~Uses(h, k)'
               PROVE  rooms'[k].files = <<>> /\ rooms'[k].seeds = {}
    BY DEF UnusedEmpty
  <2>1. k # n
    BY <1>7
  <2>2. \A h \in Regrows : ~Uses(h, k)
    BY <1>7, <2>1
  <2>3. QED
    BY <1>3, <2>1, <2>2 DEF GrowInv, UnusedEmpty
<1>11. SoleUserExtracts'
  <2> SUFFICES ASSUME NEW h \in Regrows, NEW k \in 1 .. MaxRooms, SoleUser(h, k)'
               PROVE  Extracted(h, k)'
    BY DEF SoleUserExtracts
  <2>1. Uses(h, k)' /\ \A x \in Regrows \ {h} : ~Uses(x, k)'
    BY DEF SoleUser
  <2>2. CASE k = n
    <3>1. h = g
      BY <1>7, <2>1, <2>2
    <3>2. \A x \in Regrows \ {g} : ~Uses(x, n)
      BY <1>2, <1>7, <2>1, <2>2, <3>1
    <3>3. QED
      BY <2>2, <3>1, <3>2
  <2>3. CASE k # n
    <3>1. h # g /\ Uses(h, k) /\ \A x \in Regrows \ {h} : ~Uses(x, k)
      BY <1>7, <2>1, <2>3
    <3>2. Extracted(h, k) /\ grow'[h] = grow[h] /\ rooms'[k] = rooms[k]
      BY <1>1, <1>3, <2>3, <3>1 DEF GrowInv, SoleUserExtracts, SoleUser
    <3>3. QED
      BY <3>2 DEF Extracted
  <2>4. QED
    BY <2>2, <2>3
<1>12. QED
  BY <1>4, <1>5, <1>6, <1>8, <1>9, <1>10, <1>11 DEF GrowInv

\* Alone in its room a regrowth finds what it has put there.
LEMMA AloneExtracted ==
  ASSUME GrowInv, NEW g \in Regrows, NEW n \in 1 .. MaxRooms, grow[g].room = n,
         grow[g].pc # "make", \A h \in Regrows \ {g} : ~Uses(h, n)
  PROVE  Extracted(g, n)
BY DEF GrowInv, SoleUserExtracts, SoleUser, Uses

\* The room of a regrowth that is at work.
LEMMA AtWork ==
  ASSUME GrowInv, NEW g \in Regrows, grow[g].pc \in {"make", "open", "extract", "seed"}
  PROVE  \E n \in 1 .. MaxRooms :
           /\ grow[g].room = n /\ grow[g] \in GrowRecord
           /\ rooms[n] \in [there : BOOLEAN, files : Seq(Versions), seeds : SUBSET Regrows]
           /\ grow[g].pc # "make" => rooms[n].there
BY GrowFacts DEF GrowInv, GrowPlaces, RoomsThere, Uses

LEMMA MakeStep ==
  ASSUME GrowInv, NEW g \in Regrows, Snapshots!MakeRoom(g)
  PROVE  GrowInv'
<1>0. grow[g].pc = "make"
  BY DEF Snapshots!MakeRoom
<1>3. PICK n \in 1 .. MaxRooms :
        /\ grow[g].room = n /\ grow[g] \in GrowRecord
        /\ rooms[n] \in [there : BOOLEAN, files : Seq(Versions), seeds : SUBSET Regrows]
  BY <1>0, AtWork
<1> DEFINE pc   == IF grow[g].phase = "none" THEN "seed" ELSE "open"
           new  == [grow[g] EXCEPT !.pc = pc]
           made == [rooms[n] EXCEPT !.there = TRUE]
<1>1. /\ grow[g].pc = "make" /\ UNCHANGED <<room, archive, maker, twins>>
      /\ rooms' = [rooms EXCEPT ![n].there = TRUE] /\ grow' = [grow EXCEPT ![g].pc = pc]
  BY <1>3 DEF Snapshots!MakeRoom, Snapshots!Set
<1>2. grow' = [grow EXCEPT ![g] = new] /\ rooms' = [rooms EXCEPT ![n] = made]
  BY <1>1 DEF GrowInv, GrowTypes
<1>4. grow[g].source = <<>> /\ grow[g].at = 1
  BY <1>1 DEF GrowInv, GrowPlaces
<1>5. /\ new \in GrowRecord /\ new.room = n /\ new.pc = pc /\ new.source = <<>> /\ new.at = 1
      /\ new.phase = grow[g].phase
  BY <1>3, <1>4 DEF GrowRecord
<1>6. /\ made \in [there : {TRUE}, files : Seq(Versions), seeds : SUBSET Regrows]
      /\ made.files = rooms[n].files /\ made.seeds = rooms[n].seeds
  BY <1>3
<1>7. pc \in {"open", "seed"} /\ (pc = "open" => grow[g].phase # "none")
  OBVIOUS
<1>8. grow'[g] = new /\ rooms'[n] = made
  BY <1>2, <1>5, GrowingStep DEF GrowInv, GrowTypes
<1> HIDE DEF new, made, pc
<1>9. (\A h \in Regrows \ {g} : ~Uses(h, n)) => Extracted(g, n)'
  <2> SUFFICES ASSUME \A h \in Regrows \ {g} : ~Uses(h, n) PROVE Extracted(g, n)'
    OBVIOUS
  <2>1. \A h \in Regrows : ~Uses(h, n)
    BY <1>1 DEF Uses
  <2>2. rooms[n].files = <<>> /\ rooms[n].seeds = {}
    BY <2>1 DEF GrowInv, UnusedEmpty
  <2>3. rooms'[n].files = <<>> /\ rooms'[n].seeds = {}
    BY <1>6, <1>8, <2>2
  <2>4. grow'[g].pc \in {"open", "seed"} /\ grow'[g].source = <<>>
    BY <1>5, <1>7, <1>8
  <2>5. QED
    BY <2>3, <2>4 DEF Extracted
<1>10. /\ new.pc # "make" /\ new.pc # "start" /\ new.pc # "extract"
       /\ new.pc = "open" => new.source = <<>> /\ new.at = 1 /\ new.phase # "none"
       /\ new \in GrowRecord /\ new.room = n
  BY <1>5, <1>7
<1>11. grow[g].room = n /\ UNCHANGED <<room, archive, maker, twins>>
  BY <1>1, <1>3
<1>12. made \in [there : {TRUE}, files : Seq(Versions), seeds : SUBSET Regrows]
  BY <1>6
<1>13. QED
  BY <1>2, <1>9, <1>10, <1>11, <1>12, RoomStep

LEMMA OpenStep ==
  ASSUME GrowInv, NEW g \in Regrows, Snapshots!Open(g)
  PROVE  GrowInv'
<1> DEFINE got == archive[grow[g].phase]
<1>1. grow[g].pc = "open" /\ UNCHANGED <<room, archive, maker, rooms, twins>>
  BY DEF Snapshots!Open
<1>2. grow[g].source = <<>> /\ grow[g].at = 1 /\ grow[g].phase # "none"
  BY <1>1 DEF GrowInv, GrowPlaces
<1>3. PICK n \in 1 .. MaxRooms :
        /\ grow[g].room = n /\ grow[g] \in GrowRecord
        /\ rooms[n] \in [there : BOOLEAN, files : Seq(Versions), seeds : SUBSET Regrows]
        /\ rooms[n].there
  BY <1>1, AtWork
<1>5. /\ rooms' = [rooms EXCEPT ![n] = rooms[n]] /\ rooms'[n] = rooms[n]
      /\ rooms[n] \in [there : {TRUE}, files : Seq(Versions), seeds : SUBSET Regrows]
  BY <1>1, <1>3 DEF GrowInv, GrowTypes
<1>6. CASE got = <<>>
  <2> DEFINE new == [grow[g] EXCEPT !.pc = "skipped"]
  <2>1. grow' = [grow EXCEPT ![g] = new]
    BY <1>6 DEF Snapshots!Open, Snapshots!Set, Snapshots!None, GrowInv, GrowTypes
  <2>2. new \in GrowRecord /\ new.room = n /\ new.pc = "skipped"
    BY <1>3 DEF GrowRecord
  <2>3. grow'[g] = new
    BY <2>1, <2>2, GrowingStep
  <2> HIDE DEF new
  <2>4. Extracted(g, n)'
    BY <2>2, <2>3 DEF Extracted
  <2>5. QED
    BY <1>1, <1>2, <1>3, <1>5, <2>1, <2>2, <2>4, RoomStep
<1>7. CASE got # <<>>
  <2> DEFINE new == [grow[g] EXCEPT !.pc = "extract", !.source = got]
  <2>1. grow' = [grow EXCEPT ![g] = new]
    <3>1. grow' = [grow EXCEPT ![g].pc = "extract", ![g].source = got]
      BY <1>7 DEF Snapshots!Open, Snapshots!None
    <3>2. QED
      BY <3>1 DEF GrowInv, GrowTypes
  <2>2. got \in Archived /\ Len(got) = Files
    <3>1. got \in Archived
      BY <1>2, <1>3 DEF GrowRecord, GrowInv, ArchivesWhole
    <3>2. got \in Seq(Versions) /\ Len(got) \in {0, Files}
      BY <3>1 DEF Archived
    <3>3. Len(got) # 0
      BY <1>7, <3>2
    <3>4. QED
      BY <3>1, <3>2, <3>3
  <2> HIDE DEF got
  <2>3. /\ new \in GrowRecord /\ new.room = n /\ new.pc = "extract" /\ new.source = got
        /\ new.at = 1
    BY <1>2, <1>3, <2>2 DEF GrowRecord
  <2>4. grow'[g] = new
    BY <2>1, <2>3, GrowingStep
  <2> HIDE DEF new
  <2>5. (\A h \in Regrows \ {g} : ~Uses(h, n)) => Extracted(g, n)'
    <3> SUFFICES ASSUME \A h \in Regrows \ {g} : ~Uses(h, n) PROVE Extracted(g, n)'
      OBVIOUS
    <3>1. rooms[n].files = <<>> /\ rooms[n].seeds = {}
      BY <1>1, <1>3, AloneExtracted DEF Extracted
    <3>2. QED
      BY <1>5, <2>3, <2>4, <3>1 DEF Extracted
  <2>6. 1 \in 1 .. Files
    BY GrowConstants
  <2>7. QED
    BY <1>1, <1>2, <1>3, <1>5, <2>1, <2>2, <2>3, <2>5, <2>6, RoomStep
<1>8. QED
  BY <1>6, <1>7

LEMMA ExtractStep ==
  ASSUME GrowInv, NEW g \in Regrows, Snapshots!Extract(g)
  PROVE  GrowInv'
<1>1. grow[g].pc = "extract" /\ UNCHANGED <<room, archive, maker, twins>>
  BY DEF Snapshots!Extract
<1>2. PICK n \in 1 .. MaxRooms :
        /\ grow[g].room = n /\ grow[g] \in GrowRecord
        /\ rooms[n] \in [there : BOOLEAN, files : Seq(Versions), seeds : SUBSET Regrows]
        /\ rooms[n].there
  BY <1>1, AtWork
<1> DEFINE at    == grow[g].at
           files == rooms[n].files
           pc    == IF at = Files THEN "seed" ELSE "extract"
           x     == grow[g].source[at]
           put   == IF at <= Len(files) THEN [files EXCEPT ![at] = x] ELSE Append(files, x)
           new   == [grow[g] EXCEPT !.pc = pc, !.at = at + 1]
           made  == [rooms[n] EXCEPT !.files = put]
<1>3. /\ rooms' = [rooms EXCEPT ![n].files = put]
      /\ grow' = [grow EXCEPT ![g].pc = pc, ![g].at = at + 1]
  BY <1>2 DEF Snapshots!Extract
<1>4. at \in 1 .. Files /\ grow[g].source \in Seq(Versions) /\ Len(grow[g].source) = Files
  BY <1>1, <1>2 DEF GrowInv, GrowPlaces, GrowRecord, Archived
<1>5. x \in Versions /\ files \in Seq(Versions)
  BY <1>2, <1>4
<1>6. pc \in {"seed", "extract"} /\ (pc = "seed" <=> at = Files)
  OBVIOUS
<1> HIDE DEF x, pc, at, files
<1>7. put \in Seq(Versions)
  <2>1. CASE at <= Len(files)
    <3>1. Len(files) \in Nat /\ files \in [1 .. Len(files) -> Versions]
      BY <1>5
    <3>2. [files EXCEPT ![at] = x] \in [1 .. Len(files) -> Versions]
      BY <1>5, <3>1
    <3>3. [files EXCEPT ![at] = x] \in Seq(Versions)
      BY <3>1, <3>2
    <3>4. QED
      BY <2>1, <3>3
  <2>2. CASE ~(at <= Len(files))
    <3>1. Append(files, x) \in Seq(Versions)
      BY <1>5
    <3>2. QED
      BY <2>2, <3>1
  <2>3. QED
    BY <2>1, <2>2
<1>8. Len(files) = at - 1 =>
        /\ Len(put) = at /\ put[at] = x
        /\ \A i \in 1 .. at - 1 : put[i] = files[i]
  <2> SUFFICES ASSUME Len(files) = at - 1
               PROVE  /\ Len(put) = at /\ put[at] = x
                      /\ \A i \in 1 .. at - 1 : put[i] = files[i]
    OBVIOUS
  <2>1. at \in Int /\ ~(at <= Len(files))
    BY <1>4
  <2>2. put = Append(files, x)
    BY <2>1
  <2> HIDE DEF put
  <2>3. QED
    BY <1>5, <2>1, <2>2
<1> HIDE DEF put
<1>9. grow' = [grow EXCEPT ![g] = new] /\ rooms' = [rooms EXCEPT ![n] = made]
  BY <1>3 DEF GrowInv, GrowTypes
<1>10. /\ new \in GrowRecord /\ new.room = n /\ new.pc = pc /\ new.source = grow[g].source
       /\ new.at = at + 1
  <2>1. at + 1 \in Nat
    BY <1>4
  <2>2. QED
    BY <1>2, <1>6, <2>1 DEF GrowRecord
<1>11. /\ made \in [there : {TRUE}, files : Seq(Versions), seeds : SUBSET Regrows]
       /\ made.files = put /\ made.seeds = rooms[n].seeds
  BY <1>2, <1>7
<1> HIDE DEF new, made
<1>12. grow'[g] = new /\ rooms'[n] = made
  BY <1>9, <1>10, GrowingStep DEF GrowInv, GrowTypes
<1>13. pc = "extract" => new.at \in 1 .. Files
  BY <1>4, <1>6, <1>10, GrowConstants
<1>14. (\A h \in Regrows \ {g} : ~Uses(h, n)) => Extracted(g, n)'
  <2> SUFFICES ASSUME \A h \in Regrows \ {g} : ~Uses(h, n) PROVE Extracted(g, n)'
    OBVIOUS
  <2>1. Extracted(g, n)
    BY <1>1, <1>2, AloneExtracted
  <2>2. /\ rooms[n].seeds = {} /\ Len(files) = at - 1
        /\ \A i \in 1 .. at - 1 : files[i] = grow[g].source[i]
    BY <1>1, <2>1 DEF Extracted, at, files
  <2>3. Len(put) = at /\ \A i \in 1 .. at : put[i] = grow[g].source[i]
    <3>1. put[at] = grow[g].source[at]
      BY <1>8, <2>2 DEF x
    <3>2. \A i \in 1 .. at : i # at => i \in 1 .. at - 1
      BY <1>4
    <3>3. QED
      BY <1>8, <2>2, <3>1, <3>2
  <2>4. /\ rooms'[n].seeds = {} /\ rooms'[n].files = put /\ grow'[g].source = grow[g].source
        /\ grow'[g].at = at + 1 /\ grow'[g].pc = pc
    BY <1>10, <1>11, <1>12, <2>2
  <2>5. pc = "seed" => put = grow[g].source
    <3> SUFFICES ASSUME pc = "seed" PROVE put = grow[g].source
      OBVIOUS
    <3>1. Len(put) = Len(grow[g].source) /\ \A i \in 1 .. Len(put) : put[i] = grow[g].source[i]
      BY <1>4, <1>6, <2>3
    <3>2. QED
      BY <1>4, <1>7, <3>1
  <2>6. at + 1 - 1 = at
    BY <1>4
  <2>7. QED
    BY <1>6, <2>3, <2>4, <2>5, <2>6 DEF Extracted
<1>15. QED
  BY <1>1, <1>2, <1>4, <1>6, <1>9, <1>10, <1>11, <1>13, <1>14, RoomStep

LEMMA SeedStep ==
  ASSUME GrowInv, NEW g \in Regrows, Snapshots!Seed(g)
  PROVE  GrowInv'
<1>1. grow[g].pc = "seed" /\ UNCHANGED <<room, archive, maker, twins>>
  BY DEF Snapshots!Seed
<1>2. PICK n \in 1 .. MaxRooms :
        /\ grow[g].room = n /\ grow[g] \in GrowRecord
        /\ rooms[n] \in [there : BOOLEAN, files : Seq(Versions), seeds : SUBSET Regrows]
        /\ rooms[n].there
  BY <1>1, AtWork
<1> DEFINE new  == [grow[g] EXCEPT !.pc = "prepared"]
           made == [rooms[n] EXCEPT !.seeds = rooms[n].seeds \cup {g}]
<1>3. /\ rooms' = [rooms EXCEPT ![n].seeds = @ \cup {g}]
      /\ grow' = [grow EXCEPT ![g].pc = "prepared"]
  BY <1>2 DEF Snapshots!Seed, Snapshots!Set
<1>4. grow' = [grow EXCEPT ![g] = new] /\ rooms' = [rooms EXCEPT ![n] = made]
  BY <1>3 DEF GrowInv, GrowTypes
<1>5. new \in GrowRecord /\ new.room = n /\ new.pc = "prepared" /\ new.source = grow[g].source
  BY <1>2 DEF GrowRecord
<1>6. /\ made \in [there : {TRUE}, files : Seq(Versions), seeds : SUBSET Regrows]
      /\ made.files = rooms[n].files /\ made.seeds = rooms[n].seeds \cup {g}
  BY <1>2
<1> HIDE DEF new, made
<1>7. grow'[g] = new /\ rooms'[n] = made
  BY <1>4, <1>5, GrowingStep DEF GrowInv, GrowTypes
<1>8. (\A h \in Regrows \ {g} : ~Uses(h, n)) => Extracted(g, n)'
  <2> SUFFICES ASSUME \A h \in Regrows \ {g} : ~Uses(h, n) PROVE Extracted(g, n)'
    OBVIOUS
  <2>1. rooms[n].files = grow[g].source /\ rooms[n].seeds = {}
    BY <1>1, <1>2, AloneExtracted DEF Extracted
  <2>2. /\ rooms'[n].files = grow'[g].source /\ rooms'[n].seeds = {g}
        /\ grow'[g].pc = "prepared"
    BY <1>5, <1>6, <1>7, <2>1
  <2>3. QED
    BY <2>2 DEF Extracted
<1>9. QED
  BY <1>1, <1>2, <1>4, <1>5, <1>6, <1>8, RoomStep

\* A regrowth that gives its room up before it was made leaves no trace; later it stays.
LEMMA AbandonStep ==
  ASSUME GrowInv, NEW g \in Regrows, Snapshots!Abandon(g)
  PROVE  GrowInv'
<1>1. /\ grow[g].pc \in {"make", "open", "extract", "seed"}
      /\ UNCHANGED <<room, archive, maker, rooms, twins>>
  BY DEF Snapshots!Abandon
<1>2. PICK n \in 1 .. MaxRooms :
        /\ grow[g].room = n /\ grow[g] \in GrowRecord
        /\ rooms[n] \in [there : BOOLEAN, files : Seq(Versions), seeds : SUBSET Regrows]
        /\ grow[g].pc # "make" => rooms[n].there
  BY <1>1, AtWork
<1> DEFINE r   == IF grow[g].pc = "make" THEN 0 ELSE n
           new == [grow[g] EXCEPT !.pc = "skipped", !.room = r]
<1>3. grow' = [grow EXCEPT ![g] = new]
  <2>1. grow' = [grow EXCEPT ![g].pc = "skipped", ![g].room = IF grow[g].pc = "make" THEN 0 ELSE @]
    BY DEF Snapshots!Abandon
  <2>2. QED
    BY <1>2, <2>1 DEF GrowInv, GrowTypes
<1>4. r \in 0 .. MaxRooms
  BY GrowConstants
<1>5. r \in {0, n} /\ (r = 0 <=> grow[g].pc = "make")
  OBVIOUS
<1> HIDE DEF r
<1>6. new \in GrowRecord /\ new.room = r /\ new.pc = "skipped"
  BY <1>2, <1>4 DEF GrowRecord
<1> HIDE DEF new
<1>7. /\ grow' \in [Regrows -> GrowRecord] /\ grow'[g] = new
      /\ \A h \in Regrows \ {g} : grow'[h] = grow[h]
  BY <1>3, <1>6, GrowingStep
<1>8. CASE grow[g].pc = "make"
  <2>1. ArchivesWhole' /\ GrowTypes'
    BY <1>1, <1>7 DEF GrowInv, ArchivesWhole, GrowTypes, GrowRecord
  <2>2. GrowPlaces'
    BY <1>6, <1>7 DEF GrowInv, GrowPlaces
  <2>3. \A h \in Regrows, k \in 1 .. MaxRooms : Uses(h, k)' <=> Uses(h, k)
    BY <1>5, <1>6, <1>7, <1>8 DEF Uses
  <2>4. RoomsThere' /\ TwinsNoted'
    BY <1>1, <1>5, <1>6, <1>7, <1>8 DEF GrowInv, RoomsThere, TwinsNoted, Uses
  <2>5. UnusedEmpty'
    BY <1>1, <2>3 DEF GrowInv, UnusedEmpty
  <2>6. SoleUserExtracts'
    <3> SUFFICES ASSUME NEW h \in Regrows, NEW k \in 1 .. MaxRooms, SoleUser(h, k)'
                 PROVE  Extracted(h, k)'
      BY DEF SoleUserExtracts
    <3>1. Uses(h, k) /\ SoleUser(h, k)
      BY <2>3 DEF SoleUser
    <3>2. h # g
      BY <1>8, <3>1 DEF Uses
    <3>3. Extracted(h, k) /\ grow'[h] = grow[h] /\ rooms'[k] = rooms[k]
      BY <1>1, <1>7, <3>1, <3>2 DEF GrowInv, SoleUserExtracts
    <3>4. QED
      BY <3>3 DEF Extracted
  <2>7. QED
    BY <2>1, <2>2, <2>4, <2>5, <2>6 DEF GrowInv
<1>9. CASE grow[g].pc # "make"
  <2> DEFINE made == rooms[n]
  <2>1. new.room = n
    BY <1>5, <1>6, <1>9
  <2>2. /\ rooms' = [rooms EXCEPT ![n] = made]
        /\ made \in [there : {TRUE}, files : Seq(Versions), seeds : SUBSET Regrows]
    BY <1>1, <1>2, <1>9 DEF GrowInv, GrowTypes
  <2> HIDE DEF made
  <2>3. Extracted(g, n)'
    BY <1>6, <1>7 DEF Extracted
  <2>4. /\ new \in GrowRecord /\ new.room = n /\ grow[g].room = n
        /\ new.pc \notin {"make", "start", "open", "extract"}
    BY <1>2, <1>6, <2>1
  <2>5. UNCHANGED <<room, archive, maker, twins>>
    BY <1>1
  <2>6. QED
    BY <1>3, <2>2, <2>3, <2>4, <2>5, RoomStep
<1>10. QED
  BY <1>8, <1>9

LEMMA GrowNext ==
  ASSUME SnapshotsInv, GrowInv, Snapshots!Next
  PROVE  GrowInv'
<1>1. ASSUME \/ Snapshots!Edit \/ Snapshots!Begin \/ Snapshots!Header \/ Snapshots!Copy
             \/ Snapshots!GiveUp \/ Snapshots!Rename \/ Snapshots!AppendManifest
             \/ Snapshots!ManifestWritten \/ Snapshots!Die \/ Snapshots!Chop
      PROVE  GrowInv'
  BY <1>1, ArchiveSteps, GrowUnchanged DEF GrowInv
<1>2. ASSUME NEW g \in Regrows,
             \/ Snapshots!PickRoom(g) \/ Snapshots!MakeRoom(g) \/ Snapshots!Open(g)
             \/ Snapshots!Extract(g) \/ Snapshots!Abandon(g) \/ Snapshots!Seed(g)
      PROVE  GrowInv'
  BY <1>2, PickStep, MakeStep, OpenStep, ExtractStep, AbandonStep, SeedStep
<1>3. QED
  BY <1>1, <1>2 DEF Snapshots!Next

LEMMA SeedsFollow == GrowInv => Snapshots!SeedsWhole
<1> SUFFICES ASSUME GrowInv, NEW g \in Regrows, grow[g].pc = "prepared"
             PROVE  LET others == {h \in Regrows \ {g} : grow[h].room = grow[g].room} IN
                    /\ \A h \in others : {g, h} \in twins
                    /\ grow[g].source \in Snapshots!Snapshot \cup {Snapshots!None}
                    /\ others = {} => rooms[grow[g].room] =
                                        [there |-> TRUE, files |-> grow[g].source, seeds |-> {g}]
  BY DEF Snapshots!SeedsWhole
<1>1. grow[g].room # 0
  BY DEF GrowInv, GrowPlaces
<1>2. PICK n \in 1 .. MaxRooms : n = grow[g].room
  BY <1>1, GrowFacts
<1>3. /\ rooms[n] \in [there : BOOLEAN, files : Seq(Versions), seeds : SUBSET Regrows]
      /\ rooms[n].there
  BY <1>1, <1>2, GrowFacts DEF GrowInv, RoomsThere, Uses
<1>4. \A h \in Regrows \ {g} : grow[h].room = n => {g, h} \in twins
  BY <1>1, <1>2 DEF GrowInv, TwinsNoted
<1>5. grow[g].source \in Snapshots!Snapshot \cup {Snapshots!None}
  <2>1. grow[g].source \in Seq(Versions) /\ Len(grow[g].source) \in {0, Files}
    BY GrowFacts DEF GrowRecord, Archived
  <2>2. CASE Len(grow[g].source) = 0
    BY <2>1, <2>2 DEF Snapshots!None
  <2>3. CASE Len(grow[g].source) = Files
    <3>1. grow[g].source \in [1 .. Len(grow[g].source) -> Versions]
      BY <2>1
    <3>2. QED
      BY <2>3, <3>1 DEF Snapshots!Snapshot, Versions
  <2>4. QED
    BY <2>1, <2>2, <2>3
<1>6. (\A h \in Regrows \ {g} : grow[h].room # n) =>
        rooms[n].files = grow[g].source /\ rooms[n].seeds = {g}
  BY <1>2, AloneExtracted DEF Extracted, Uses
<1>7. (\A h \in Regrows \ {g} : grow[h].room # n) =>
        rooms[n] = [there |-> TRUE, files |-> grow[g].source, seeds |-> {g}]
  BY <1>3, <1>6
<1>8. QED
  BY <1>2, <1>4, <1>5, <1>7

-----------------------------------------------------------------------------
(***************************************************************************)
(* The history of the builds.                                              *)
(***************************************************************************)
Updating(r) == run[r].pc \in {"truncate", "write"}

\* What the runs that came to their end observed.
Observed == UNION {run[r].built : r \in {s \in Runs : run[s].pc = "done"}}

\* A process is a record of these fields.
RunFields ==
  {"kind", "named", "pc", "agents", "known", "loaded", "answered", "at", "built", "cut"}
IsRun(x)  == x = [f \in RunFields |-> x[f]]

\* Until it has executed a run has built nothing.
HealthTypes ==
  /\ run = [r \in Runs |-> run[r]]
  /\ build = [whole |-> build.whole, seen |-> build.seen]
  /\ build.whole \in BOOLEAN /\ raced \in BOOLEAN
  /\ \A r \in Runs : /\ IsRun(run[r])
                     /\ run[r].pc \in {"start", "publish", "plan", "execute"} =>
                          run[r].built = {}

\* Without a race one run at a time updates the file, from all that was observed before it.
UpdatesApart ==
  ~raced =>
    /\ \A r, s \in Runs : Updating(r) /\ Updating(s) => r = s
    /\ \A r \in Runs : Updating(r) => run[r].loaded = Observed
    /\ build.whole => build.seen = Observed

HealthInv == HealthTypes /\ UpdatesApart

LEMMA HealthInit == Health!Init => HealthInv
<1> SUFFICES ASSUME Health!Init PROVE HealthInv
  OBVIOUS
<1>1. run = [r \in Runs |-> run[r]]
  BY DEF Health!Init
<1>2. \A r \in Runs : IsRun(run[r]) /\ run[r].pc = "start" /\ run[r].built = {}
  <2> SUFFICES ASSUME NEW r \in Runs PROVE IsRun(run[r]) /\ run[r].pc = "start" /\ run[r].built = {}
    OBVIOUS
  <2>1. run[r] \in [kind : Health!Kinds, named : Named \cup {Health!NoName}, pc : {"start"},
                    agents : {<<>>}, known : {{}}, loaded : {{}}, answered : {{}}, at : {0},
                    built : {{}}, cut : {FALSE}]
    BY DEF Health!Init
  <2>2. IsRun(run[r])
    BY <2>1 DEF IsRun, RunFields
  <2>3. QED
    BY <2>1, <2>2
<1>3. HealthTypes
  BY <1>1, <1>2 DEF Health!Init, HealthTypes
<1>4. UpdatesApart
  BY <1>2 DEF Health!Init, UpdatesApart, Updating, Observed
<1>5. QED
  BY <1>3, <1>4 DEF HealthInv

\* One process goes on.
LEMMA Becoming ==
  ASSUME HealthTypes, NEW r \in Runs, NEW new, run' = [run EXCEPT ![r] = new]
  PROVE  /\ run' = [s \in Runs |-> run'[s]] /\ run'[r] = new
         /\ \A s \in Runs \ {r} : run'[s] = run[s]
BY DEF HealthTypes

\* The same, where others are told of it.
LEMMA Cutting ==
  ASSUME HealthTypes, NEW r \in Runs, NEW new, Health!Cuts(r, new)
  PROVE  /\ run' = [s \in Runs |-> run'[s]] /\ run'[r] = new
         /\ \A s \in Runs \ {r} : /\ IsRun(run'[s]) /\ run'[s].pc = run[s].pc
                                  /\ run'[s].built = run[s].built /\ run'[s].loaded = run[s].loaded
<1>1. \A s \in Runs \ {r} : run'[s] = [run[s] EXCEPT !.cut = @ \/ run[s].pc = "plan"]
  BY DEF Health!Cuts
<1>2. \A s \in Runs \ {r} : /\ IsRun(run'[s]) /\ run'[s].pc = run[s].pc
                            /\ run'[s].built = run[s].built /\ run'[s].loaded = run[s].loaded
  BY <1>1 DEF HealthTypes, IsRun, RunFields
<1>3. QED
  BY <1>2 DEF Health!Cuts

\* A process that goes on without touching the history leaves the invariant alone.
LEMMA AsideStep ==
  ASSUME HealthInv, NEW r \in Runs, NEW new, IsRun(new),
         Health!Becomes(r, new) \/ Health!Cuts(r, new),
         run[r].pc # "done", new.pc \notin {"truncate", "write"},
         new.pc \in {"start", "publish", "plan", "execute", "done"} => new.built = {},
         build' = build, raced' \in BOOLEAN, raced => raced'
  PROVE  HealthInv'
<1>1. /\ run' = [s \in Runs |-> run'[s]] /\ run'[r] = new
      /\ \A s \in Runs \ {r} : /\ IsRun(run'[s]) /\ run'[s].pc = run[s].pc
                               /\ run'[s].built = run[s].built /\ run'[s].loaded = run[s].loaded
  <2>1. HealthTypes
    BY DEF HealthInv
  <2>2. CASE Health!Becomes(r, new)
    BY <2>1, <2>2, Becoming DEF Health!Becomes, HealthTypes
  <2>3. CASE Health!Cuts(r, new)
    BY <2>1, <2>3, Cutting
  <2>4. QED
    BY <2>2, <2>3
<1>2. HealthTypes'
  BY <1>1 DEF HealthInv, HealthTypes
<1>3. Observed' = Observed
  BY <1>1 DEF Observed
<1>4. \A s \in Runs : Updating(s)' => Updating(s) /\ run'[s].loaded = run[s].loaded
  BY <1>1 DEF Updating
<1>5. UpdatesApart'
  BY <1>3, <1>4 DEF HealthInv, UpdatesApart
<1>6. QED
  BY <1>2, <1>5 DEF HealthInv

LEMMA RunFacts ==
  ASSUME HealthInv, NEW r \in Runs
  PROVE  /\ IsRun(run[r]) /\ raced \in BOOLEAN
         /\ run[r].pc \in {"start", "publish", "plan", "execute"} => run[r].built = {}
BY DEF HealthInv, HealthTypes

\* Probing, looking and publishing.
LEMMA ProbeSteps ==
  ASSUME HealthInv, NEW r \in Runs, Health!Probe(r) \/ Health!Look(r) \/ Health!Publish(r)
  PROVE  HealthInv'
<1>1. CASE Health!Probe(r)
  <2>1. PICK k, n, w, a :
          Health!Cuts(r, [run[r] EXCEPT !.pc = "publish", !.known = k, !.named = n,
                                        !.answered = w, !.agents = a])
    BY <1>1 DEF Health!Probe
  <2> DEFINE new == [run[r] EXCEPT !.pc = "publish", !.known = k, !.named = n,
                                   !.answered = w, !.agents = a]
  <2>2. IsRun(new) /\ new.pc = "publish" /\ new.built = run[r].built
    BY RunFacts DEF IsRun, RunFields
  <2>3. run[r].pc = "start" /\ build' = build /\ raced' = raced
    BY <1>1 DEF Health!Probe
  <2>4. Health!Cuts(r, new)
    BY <2>1
  <2> HIDE DEF new
  <2>5. QED
    BY <2>2, <2>3, <2>4, RunFacts, AsideStep
<1>2. CASE Health!Look(r)
  <2>1. PICK w : Health!Cuts(r, [run[r] EXCEPT !.pc = "publish", !.answered = w])
    BY <1>2 DEF Health!Look
  <2> DEFINE new == [run[r] EXCEPT !.pc = "publish", !.answered = w]
  <2>2. IsRun(new) /\ new.pc = "publish" /\ new.built = run[r].built
    BY RunFacts DEF IsRun, RunFields
  <2>3. run[r].pc = "start" /\ build' = build /\ raced' = raced
    BY <1>2 DEF Health!Look
  <2>4. Health!Cuts(r, new)
    BY <2>1
  <2> HIDE DEF new
  <2>5. QED
    BY <2>2, <2>3, <2>4, RunFacts, AsideStep
<1>3. CASE Health!Publish(r)
  <2> DEFINE p   == CASE ~Health!Gated(r)                             -> "done"
                      [] Health!Gated(r) /\ run[r].agents = <<>>      -> "no route"
                      [] Health!Gated(r) /\ run[r].agents # <<>>      -> "plan"
             new == [run[r] EXCEPT !.at = clock, !.pc = p]
  <2>1. p \in {"done", "no route", "plan"}
    BY DEF Health!Gated
  <2>2. Health!Cuts(r, new)
    BY <1>3 DEF Health!Publish
  <2> HIDE DEF p
  <2>3. IsRun(new) /\ new.pc = p /\ new.built = run[r].built
    BY RunFacts DEF IsRun, RunFields
  <2>4. run[r].pc = "publish" /\ build' = build /\ raced' = raced
    BY <1>3 DEF Health!Publish
  <2> HIDE DEF new
  <2>5. QED
    BY <2>1, <2>2, <2>3, <2>4, RunFacts, AsideStep
<1>4. QED
  BY <1>1, <1>2, <1>3

\* Planning, executing and dying.
LEMMA RunSteps ==
  ASSUME HealthInv, NEW r \in Runs,
         Health!Skip(r) \/ Health!Plan(r) \/ Health!Execute(r) \/ Health!Die(r)
  PROVE  HealthInv'
<1>1. CASE Health!Skip(r)
  <2> DEFINE new == [run[r] EXCEPT !.pc = "plan", !.agents = Defaults]
  <2>1. IsRun(new) /\ new.pc = "plan" /\ new.built = run[r].built
    BY RunFacts DEF IsRun, RunFields
  <2>2. Health!Becomes(r, new) /\ run[r].pc = "start" /\ build' = build /\ raced' = raced
    BY <1>1 DEF Health!Skip
  <2> HIDE DEF new
  <2>3. QED
    BY <2>1, <2>2, RunFacts, AsideStep
<1>2. CASE Health!Plan(r)
  <2> DEFINE p   == IF run[r].kind = "simulated" \/ Health!FreshHealthyRouteState
                    THEN "execute" ELSE "blocked"
             new == [run[r] EXCEPT !.pc = p]
  <2>1. p \in {"execute", "blocked"}
    OBVIOUS
  <2>2. Health!Becomes(r, new) /\ run[r].pc = "plan" /\ build' = build /\ raced' = raced
    BY <1>2 DEF Health!Plan
  <2> HIDE DEF p
  <2>3. IsRun(new) /\ new.pc = p /\ new.built = run[r].built
    BY RunFacts DEF IsRun, RunFields
  <2> HIDE DEF new
  <2>4. QED
    BY <2>1, <2>2, <2>3, RunFacts, AsideStep
<1>3. CASE Health!Execute(r)
  <2>1. PICK b : Health!Becomes(r, [run[r] EXCEPT !.pc = "load", !.built = b])
    BY <1>3 DEF Health!Execute
  <2> DEFINE new == [run[r] EXCEPT !.pc = "load", !.built = b]
  <2>2. IsRun(new) /\ new.pc = "load"
    BY RunFacts DEF IsRun, RunFields
  <2>3. Health!Becomes(r, new) /\ run[r].pc = "execute" /\ build' = build /\ raced' = raced
    BY <1>3, <2>1 DEF Health!Execute
  <2> HIDE DEF new
  <2>4. QED
    BY <2>2, <2>3, RunFacts, AsideStep
<1>4. CASE Health!Die(r)
  <2> DEFINE new == [run[r] EXCEPT !.pc = "dead"]
  <2>1. IsRun(new) /\ new.pc = "dead"
    BY RunFacts DEF IsRun, RunFields
  <2>2. Health!Becomes(r, new) /\ run[r].pc # "done" /\ build' = build /\ raced' = raced
    BY <1>4 DEF Health!Die
  <2> HIDE DEF new
  <2>3. QED
    BY <2>1, <2>2, RunFacts, AsideStep
<1>5. QED
  BY <1>1, <1>2, <1>3, <1>4

\* The file is read when no other update is under way, or the race is noted.
LEMMA LoadStep ==
  ASSUME HealthInv, NEW r \in Runs, Health!Load(r)
  PROVE  HealthInv'
<1> DEFINE new == [run[r] EXCEPT !.pc = "truncate", !.loaded = Health!LoadBuildHealth]
<1>1. IsRun(new) /\ new.pc = "truncate" /\ new.loaded = Health!LoadBuildHealth
  BY RunFacts DEF IsRun, RunFields
<1>2. /\ run' = [run EXCEPT ![r] = new] /\ run[r].pc = "load" /\ build' = build
      /\ raced' = (raced \/ Health!Races)
  BY DEF Health!Load, Health!Becomes
<1> HIDE DEF new
<1>3. /\ run' = [s \in Runs |-> run'[s]] /\ run'[r] = new
      /\ \A s \in Runs \ {r} : run'[s] = run[s]
  BY <1>2, Becoming DEF HealthInv
<1>4. HealthTypes'
  BY <1>1, <1>2, <1>3 DEF HealthInv, HealthTypes, Health!Races
<1>5. Observed' = Observed
  BY <1>1, <1>2, <1>3 DEF Observed
<1>6. ~raced' => ~raced /\ build.whole /\ \A s \in Runs : ~Updating(s)
  BY <1>2 DEF HealthInv, HealthTypes, Health!Races, Updating
<1>7. UpdatesApart'
  <2> SUFFICES ASSUME ~raced' PROVE UpdatesApart'
    BY DEF UpdatesApart
  <2>1. \A s \in Runs : Updating(s)' => s = r
    BY <1>3, <1>6 DEF Updating
  <2>2. run'[r].loaded = Observed'
    BY <1>1, <1>3, <1>5, <1>6 DEF HealthInv, UpdatesApart, Health!LoadBuildHealth
  <2>3. build'.whole => build'.seen = Observed'
    BY <1>2, <1>5, <1>6 DEF HealthInv, UpdatesApart
  <2>4. QED
    BY <2>1, <2>2, <2>3 DEF UpdatesApart
<1>8. QED
  BY <1>4, <1>7 DEF HealthInv

LEMMA TruncateStep ==
  ASSUME HealthInv, NEW r \in Runs, Health!Truncate(r)
  PROVE  HealthInv'
<1> DEFINE new == [run[r] EXCEPT !.pc = "write"]
<1>1. /\ IsRun(new) /\ new.pc = "write" /\ new.loaded = run[r].loaded
      /\ new.built = run[r].built
  BY RunFacts DEF IsRun, RunFields
<1>2. /\ run' = [run EXCEPT ![r] = new] /\ run[r].pc = "truncate"
      /\ build' = [build EXCEPT !.whole = FALSE] /\ raced' = raced
  BY DEF Health!Truncate, Health!Becomes
<1> HIDE DEF new
<1>3. /\ run' = [s \in Runs |-> run'[s]] /\ run'[r] = new
      /\ \A s \in Runs \ {r} : run'[s] = run[s]
  BY <1>2, Becoming DEF HealthInv
<1>4. HealthTypes'
  BY <1>1, <1>2, <1>3 DEF HealthInv, HealthTypes
<1>5. Observed' = Observed
  BY <1>1, <1>2, <1>3 DEF Observed
<1>6. \A s \in Runs : /\ Updating(s)' <=> Updating(s)
                      /\ run'[s].loaded = run[s].loaded
  BY <1>1, <1>2, <1>3 DEF Updating
<1>7. ~build'.whole
  BY <1>2 DEF HealthInv, HealthTypes
<1>8. UpdatesApart'
  BY <1>2, <1>5, <1>6, <1>7 DEF HealthInv, UpdatesApart
<1>9. QED
  BY <1>4, <1>8 DEF HealthInv

\* The write adds what this run observed to all that was observed before.
LEMMA WriteStep ==
  ASSUME HealthInv, NEW r \in Runs, Health!Write(r)
  PROVE  HealthInv'
<1> DEFINE new == [run[r] EXCEPT !.pc = "done"]
<1>1. IsRun(new) /\ new.pc = "done" /\ new.built = run[r].built
  BY RunFacts DEF IsRun, RunFields
<1>2. /\ run' = [run EXCEPT ![r] = new] /\ run[r].pc = "write"
      /\ build' = [whole |-> TRUE, seen |-> run[r].loaded \cup run[r].built] /\ raced' = raced
  BY DEF Health!Write, Health!Becomes
<1> HIDE DEF new
<1>3. /\ run' = [s \in Runs |-> run'[s]] /\ run'[r] = new
      /\ \A s \in Runs \ {r} : run'[s] = run[s]
  BY <1>2, Becoming DEF HealthInv
<1>4. HealthTypes'
  BY <1>1, <1>2, <1>3 DEF HealthInv, HealthTypes
<1>5. Observed' = Observed \cup run[r].built
  BY <1>1, <1>2, <1>3 DEF Observed
<1>6. UpdatesApart'
  <2> SUFFICES ASSUME ~raced' PROVE UpdatesApart'
    BY DEF UpdatesApart
  <2>1. run[r].loaded = Observed /\ \A s \in Runs : Updating(s) => s = r
    BY <1>2 DEF HealthInv, UpdatesApart, Updating
  <2>2. \A s \in Runs : ~Updating(s)'
    BY <1>1, <1>3, <2>1 DEF Updating
  <2>3. build'.seen = Observed'
    BY <1>2, <1>5, <2>1
  <2>4. QED
    BY <2>2, <2>3 DEF UpdatesApart
<1>7. QED
  BY <1>4, <1>6 DEF HealthInv

LEMMA HealthUnchanged ==
  ASSUME HealthInv, UNCHANGED <<build, run, raced>>
  PROVE  HealthInv'
BY DEF HealthInv, HealthTypes, UpdatesApart, Updating, Observed

LEMMA HealthNext ==
  ASSUME HealthInv, Health!Next
  PROVE  HealthInv'
<1>1. CASE Health!Tick
  BY <1>1, HealthUnchanged DEF Health!Tick
<1>2. ASSUME NEW r \in Runs,
             \/ Health!Probe(r) \/ Health!Look(r) \/ Health!Publish(r) \/ Health!Skip(r)
             \/ Health!Plan(r) \/ Health!Execute(r) \/ Health!Load(r) \/ Health!Truncate(r)
             \/ Health!Write(r) \/ Health!Die(r)
      PROVE  HealthInv'
  BY <1>2, ProbeSteps, RunSteps, LoadStep, TruncateStep, WriteStep
<1>3. QED
  BY <1>1, <1>2 DEF Health!Next

-----------------------------------------------------------------------------
(***************************************************************************)
(* The routes of the runs.                                                 *)
(***************************************************************************)
\* The runs that look at the health of the routes.
Behind(x) == x.kind \in {"gated", "fallback"}

RunTypes(x) ==
  /\ IsFiniteSet(x.known) /\ IsFiniteSet(x.loaded) /\ IsFiniteSet(x.built)
  /\ x.agents \in Seq(Health!ToSet(x.agents)) /\ x.at \in Int /\ x.cut \in BOOLEAN

\* Behind the gate a run uses routes that answered it and that are not blocked, or the one it was
\* told to use; its positions are counted under these routes or the names its children use.
OpenRoutes(x) ==
  Behind(x) =>
    /\ Health!ToSet(x.agents) \subseteq x.answered
    /\ x.named # Health!NoName => Health!ToSet(x.agents) \subseteq {x.named}
    /\ \A m \in Health!ToSet(x.agents) : Health!Blocks(m, Health!Health(x.known)) => m = x.named
    /\ \A o \in x.built : \E m \in Health!ToSet(x.agents) :
         o.model \in {m, IF x.named # Health!NoName THEN x.named ELSE ChildModel[m]}

\* It goes on only if it has a route.
HasRoute(x) == Behind(x) /\ x.pc \in {"plan", "execute"} => x.agents # <<>>

\* While no one else wrote the probes they are those of the run that is about to plan, ...
ProbesOnFile(x) ==
  Behind(x) /\ x.pc = "plan" /\ ~x.cut => routes.whole /\ routes.ok /\ routes.at = x.at

\* ... and it was refused for their age.
RefusedForAge(x) == Behind(x) /\ x.pc = "blocked" => x.cut \/ clock - x.at > Fresh

RouteTypes ==
  clock \in Int /\ routes.at \in Int /\ IsFiniteSet(build.seen)

\* What a run holds for itself.
OwnRoutes(x) == RunTypes(x) /\ OpenRoutes(x) /\ HasRoute(x)

RouteInv ==
  /\ RouteTypes
  /\ \A r \in Runs : OwnRoutes(run[r]) /\ ProbesOnFile(run[r]) /\ RefusedForAge(run[r])

\* The cardinality of the module of the routes is that of this one.
LEMMA SameCardinality == \A S : Health!Cardinality(S) = Cardinality(S)
BY DEF Health!Cardinality, Cardinality, Health!IsFiniteSet, IsFiniteSet

\* What is kept of a sequence are its elements at the places given.
LEMMA KeptElements ==
  ASSUME NEW s, NEW I \in SUBSET Int, IsFiniteSet(I), NEW T, \A i \in I : s[i] \in T
  PROVE  Health!Kept(s, I) \in Seq(T)
<1> DEFINE at(n) == CHOOSE i \in I : 1 + Health!Cardinality({j \in I : j < i}) = n
           R     == {p \in I \X I : p[1] < p[2]}
<1>1. Cardinality(I) \in Nat
  BY FS_CardinalityType
<1>2. ASSUME NEW n \in 1 .. Cardinality(I) PROVE at(n) \in I
  <2>0. \A x, y \in I : <<x, y>> \in R <=> x < y
    OBVIOUS
  <2> HIDE DEF R
  <2>1. StrictOrder(I, R)
    BY <2>0 DEF StrictOrder
  <2>2. \A i \in I : Before(i, I, R) = {j \in I : j < i}
    BY <2>0 DEF Before
  <2>3. RanksTaken(I, R)
    BY <2>1, EveryRankTaken
  <2>4. \E i \in I : 1 + Cardinality(Before(i, I, R)) = n
    BY <1>2, <2>3 DEF RanksTaken
  <2>5. \E i \in I : 1 + Health!Cardinality({j \in I : j < i}) = n
    BY <2>2, <2>4, SameCardinality
  <2>6. QED
    BY <2>5
<1>3. Health!Kept(s, I) = [n \in 1 .. Cardinality(I) |-> s[at(n)]]
  BY SameCardinality DEF Health!Kept
<1> HIDE DEF at
<1>4. \A n \in 1 .. Cardinality(I) : s[at(n)] \in T
  BY <1>2
<1>5. QED
  BY <1>1, <1>3, <1>4

\* Triples of numbers are ordered by the first, descending, then the others.
Precedes(p, q) ==
  \/ p[1] > q[1]
  \/ p[1] = q[1] /\ p[2] < q[2]
  \/ p[1] = q[1] /\ p[2] = q[2] /\ p[3] < q[3]

LEMMA TriplesOrdered ==
  ASSUME NEW p \in Int \X Int \X Int, NEW q \in Int \X Int \X Int, NEW r \in Int \X Int \X Int
  PROVE  /\ ~Precedes(p, p)
         /\ Precedes(p, q) /\ Precedes(q, r) => Precedes(p, r)
         /\ p # q => Precedes(p, q) \/ Precedes(q, p)
<1>1. ASSUME NEW a1 \in Int, NEW a2 \in Int, NEW a3 \in Int,
             NEW b1 \in Int, NEW b2 \in Int, NEW b3 \in Int,
             NEW c1 \in Int, NEW c2 \in Int, NEW c3 \in Int,
             a1 > b1 \/ (a1 = b1 /\ a2 < b2) \/ (a1 = b1 /\ a2 = b2 /\ a3 < b3),
             b1 > c1 \/ (b1 = c1 /\ b2 < c2) \/ (b1 = c1 /\ b2 = c2 /\ b3 < c3)
      PROVE  a1 > c1 \/ (a1 = c1 /\ a2 < c2) \/ (a1 = c1 /\ a2 = c2 /\ a3 < c3)
  BY <1>1
<1>2. Precedes(p, q) /\ Precedes(q, r) => Precedes(p, r)
  <2>1. /\ p[1] \in Int /\ p[2] \in Int /\ p[3] \in Int
        /\ q[1] \in Int /\ q[2] \in Int /\ q[3] \in Int
        /\ r[1] \in Int /\ r[2] \in Int /\ r[3] \in Int
    OBVIOUS
  <2> SUFFICES ASSUME Precedes(p, q), Precedes(q, r) PROVE Precedes(p, r)
    OBVIOUS
  <2>2. /\ p[1] > q[1] \/ (p[1] = q[1] /\ p[2] < q[2])
          \/ (p[1] = q[1] /\ p[2] = q[2] /\ p[3] < q[3])
        /\ q[1] > r[1] \/ (q[1] = r[1] /\ q[2] < r[2])
          \/ (q[1] = r[1] /\ q[2] = r[2] /\ q[3] < r[3])
    BY DEF Precedes
  <2>3. p[1] > r[1] \/ (p[1] = r[1] /\ p[2] < r[2])
          \/ (p[1] = r[1] /\ p[2] = r[2] /\ p[3] < r[3])
    BY <1>1, <2>1, <2>2
  <2>4. QED
    BY <2>3 DEF Precedes
<1>3. ~Precedes(p, p)
  BY DEF Precedes
<1>4. p # q => Precedes(p, q) \/ Precedes(q, p)
  BY DEF Precedes
<1>5. QED
  BY <1>2, <1>3, <1>4

\* Sorting the routes shows the routes that were sorted.
LEMMA SortedElements ==
  ASSUME NEW T, NEW s \in Seq(T), NEW history,
         \A i \in 1 .. Len(s) : /\ s[i].latency \in Int
                                /\ Health!RouteSelectionScore(s[i], history) \in Int
  PROVE  Health!SortHealthyRoutes(s, history) \in Seq(T)
<1> DEFINE I        == DOMAIN s
           score    == [i \in I |-> Health!RouteSelectionScore(s[i], history)]
           latency  == [i \in I |-> s[i].latency]
           key      == [i \in I |-> <<score[i], latency[i], i>>]
           first(j, i) == \/ Health!RanksBefore(s[j], s[i], history)
                          \/ j < i /\ ~Health!RanksBefore(s[i], s[j], history)
           place(i) == 1 + Health!Cardinality({j \in I : first(j, i)})
           at(n)    == CHOOSE i \in I : place(i) = n
           R        == {p \in I \X I : first(p[1], p[2])}
<1>1. I = 1 .. Len(s) /\ Len(s) \in Nat
  OBVIOUS
<1>2. IsFiniteSet(I) /\ Cardinality(I) = Len(s)
  <2>1. I = 1 .. Len(s) /\ Len(s) \in Nat
    BY <1>1
  <2> HIDE DEF I
  <2>2. IsFiniteSet(1 .. Len(s)) /\ Cardinality(1 .. Len(s)) = Len(s)
    BY <2>1, FS_Interval
  <2>3. QED
    BY <2>1, <2>2
<1>3. score \in [I -> Int] /\ latency \in [I -> Int]
  BY <1>1
<1>4. \A i, j \in I : first(j, i) <=> Precedes(key[j], key[i])
  <2> SUFFICES ASSUME NEW i \in I, NEW j \in I
               PROVE  first(j, i) <=> Precedes(key[j], key[i])
    OBVIOUS
  <2>1. \A x, y \in I : Health!RanksBefore(s[x], s[y], history) <=>
          score[x] > score[y] \/ (score[x] = score[y] /\ latency[x] < latency[y])
    BY DEF Health!RanksBefore
  <2>2. /\ score[i] \in Int /\ score[j] \in Int /\ latency[i] \in Int /\ latency[j] \in Int
        /\ i \in Int /\ j \in Int
    BY <1>1, <1>3
  <2>3. /\ key[i][1] = score[i] /\ key[i][2] = latency[i] /\ key[i][3] = i
        /\ key[j][1] = score[j] /\ key[j][2] = latency[j] /\ key[j][3] = j
    OBVIOUS
  <2> HIDE DEF score, latency, I, key
  <2>4. QED
    BY <2>1, <2>2, <2>3 DEF Precedes
<1>5. \A x, y \in I : <<x, y>> \in R <=> first(x, y)
  OBVIOUS
<1>6. StrictOrder(I, R)
  <2>1. \A x \in I : key[x] \in Int \X Int \X Int /\ key[x][3] = x
    BY <1>1, <1>3
  <2> HIDE DEF first, R, I, key
  <2>2. \A x \in I : <<x, x>> \notin R
    BY <1>4, <1>5, <2>1, TriplesOrdered
  <2>3. \A x, y, z \in I : <<x, y>> \in R /\ <<y, z>> \in R => <<x, z>> \in R
    BY <1>4, <1>5, <2>1, TriplesOrdered
  <2>4. \A x, y \in I : x # y => <<x, y>> \in R \/ <<y, x>> \in R
    BY <1>4, <1>5, <2>1, TriplesOrdered
  <2>5. QED
    BY <2>2, <2>3, <2>4 DEF StrictOrder
<1> HIDE DEF first, score, latency, key, R
<1>7. \A i \in I : Before(i, I, R) = {j \in I : first(j, i)}
  BY <1>5 DEF Before
<1>8. ASSUME NEW n \in I PROVE at(n) \in I
  <2>1. n \in 1 .. Cardinality(I)
    BY <1>1, <1>2
  <2> HIDE DEF I
  <2>2. RanksTaken(I, R)
    BY <1>2, <1>6, EveryRankTaken
  <2>3. \E i \in I : 1 + Cardinality(Before(i, I, R)) = n
    BY <2>1, <2>2 DEF RanksTaken
  <2>4. \E i \in I : place(i) = n
    BY <1>7, <2>3, SameCardinality
  <2>5. QED
    BY <2>4
<1>9. Health!SortHealthyRoutes(s, history) = [n \in I |-> s[at(n)]]
  BY DEF Health!SortHealthyRoutes, first
<1> HIDE DEF at
<1>10. \A n \in I : s[at(n)] \in T
  BY <1>8
<1>11. QED
  BY <1>1, <1>9, <1>10

\* The history of a finite set of observations counts them.
LEMMA HistoryCounts ==
  ASSUME NEW seen, IsFiniteSet(seen), NEW m \in DOMAIN Health!Health(seen)
  PROVE  /\ Health!Health(seen)[m].attempts \in Nat /\ Health!Health(seen)[m].succeeded \in Nat
<1> DEFINE A == {o \in seen : o.model = m}
           B == {o \in seen : o.model = m /\ o.ok}
<1>1. Health!Health(seen)[m].attempts = Cardinality(A)
  BY SameCardinality DEF Health!Health
<1>2. Health!Health(seen)[m].succeeded = Cardinality(B)
  BY SameCardinality DEF Health!Health
<1>3. A \subseteq seen /\ B \subseteq seen
  OBVIOUS
<1> HIDE DEF A, B
<1>4. IsFiniteSet(A) /\ IsFiniteSet(B)
  BY <1>3, FS_Subset
<1>5. QED
  BY <1>1, <1>2, <1>4, FS_CardinalityType

\* A score is a number.
LEMMA ScoreType ==
  ASSUME NEW seen, IsFiniteSet(seen), NEW result, result.latency \in Int
  PROVE  Health!RouteSelectionScore(result, Health!Health(seen)) \in Int
<1> DEFINE known == Health!Health(seen)
           h     == known[result.model]
           history == result.model \in DOMAIN known /\ h.attempts > 0
           gained == (48 * h.succeeded) \div h.attempts
<1>1. history => h.attempts \in Nat /\ h.attempts # 0 /\ h.succeeded \in Nat
  BY HistoryCounts
<1>2. history => gained \in Int
  <2> HIDE DEF known
  <2>1. QED
    BY <1>1
<1> HIDE DEF gained, history, known
<1>3. (IF history THEN gained + (IF h.attempts >= 2 THEN 6 ELSE 0) - (IF h.lastBad THEN 12 ELSE 0)
       ELSE 0) \in Int
  BY <1>2
<1>4. QED
  BY <1>3 DEF Health!RouteSelectionScore, gained, history, known

LEMMA FinitePlaces ==
  ASSUME NEW n \in Nat, NEW I, I \subseteq 1 .. n
  PROVE  I \in SUBSET Int /\ IsFiniteSet(I)
<1>1. IsFiniteSet(1 .. n)
  BY FS_Interval
<1>2. IsFiniteSet(I)
  BY <1>1, FS_Subset
<1>3. I \in SUBSET Int
  OBVIOUS
<1>4. QED
  BY <1>2, <1>3

\* The results of a probe.
Probes(x) == /\ x \in Seq(Health!ToSet(x)) /\ \A i \in 1 .. Len(x) : x[i].latency \in Int

\* The agents are routes that answered: the one asked for by name, or else routes that are not
\* blocked.
LEMMA AgentsChosen ==
  ASSUME NEW seen, IsFiniteSet(seen), NEW results, Probes(results), NEW override,
         NEW agents, agents = Health!HealthyAgents(Defaults, results, Health!Health(seen), override)
  PROVE  agents \in Seq({results[i].model : i \in {j \in DOMAIN results :
           /\ results[j].ok
           /\ override # Health!NoName => results[j].model = override
           /\ override = Health!NoName =>
                ~Health!Blocks(results[j].model, Health!Health(seen))}})
<1> DEFINE known  == Health!Health(seen)
           open   == {i \in DOMAIN results :
                        results[i].ok /\ ~Health!Blocks(results[i].model, known)}
           Open   == {results[i] : i \in open}
           Names  == {results[i].model : i \in open}
           first  == Health!Kept(results, open)
           routes_ == Health!SortHealthyRoutes(first, known)
           names  == [i \in DOMAIN routes_ |-> routes_[i].model]
           named  == {i \in DOMAIN Defaults : Defaults[i] \in Health!ToSet(names)}
           kept   == Health!Kept(Defaults, named)
           others == {i \in DOMAIN names : /\ names[i] \notin Health!ToSet(kept)
                                           /\ \A j \in DOMAIN names : j < i => names[j] # names[i]}
<1>1. Defaults \in Seq(Health!ToSet(Defaults)) /\ results \in Seq(Health!ToSet(results))
  BY RootAssumption DEF Health!RouteHealthAssumption, Probes
<1>2. CASE override # Health!NoName
  <2> DEFINE Named_ == {results[i].model : i \in {j \in DOMAIN results :
                          /\ results[j].ok
                          /\ override # Health!NoName => results[j].model = override
                          /\ override = Health!NoName => ~Health!Blocks(results[j].model, known)}}
  <2>1. agents # <<>> => /\ agents = [i \in DOMAIN Defaults |-> override]
                         /\ \E i \in DOMAIN results : results[i].ok /\ results[i].model = override
    BY <1>2 DEF Health!HealthyAgents, Health!ToSet
  <2>2. DOMAIN Defaults = 1 .. Len(Defaults) /\ Len(Defaults) \in Nat
    BY <1>1
  <2>3. agents # <<>> => override \in Named_
    BY <1>2, <2>1
  <2> HIDE DEF Named_
  <2>4. agents # <<>> => agents \in Seq(Named_)
    BY <2>1, <2>2, <2>3
  <2>5. <<>> \in Seq(Named_)
    OBVIOUS
  <2>6. agents \in Seq(Named_)
    BY <2>4, <2>5
  <2>7. QED
    BY <2>6 DEF Named_
<1>3. CASE override = Health!NoName
  <2>1. agents = kept \o Health!Kept(names, others)
    BY <1>3 DEF Health!HealthyAgents
  <2>2. open \in SUBSET Int /\ IsFiniteSet(open)
    <3>1. open \subseteq 1 .. Len(results) /\ Len(results) \in Nat
      BY <1>1
    <3> HIDE DEF open
    <3>2. QED
      BY <3>1, FinitePlaces
  <2>3. first \in Seq(Open)
    <3>1. \A i \in open : results[i] \in Open
      OBVIOUS
    <3> HIDE DEF open, Open
    <3>2. QED
      BY <2>2, <3>1, KeptElements
  <2>4. \A o \in Open : o.latency \in Int /\ Health!RouteSelectionScore(o, known) \in Int
    BY <1>1, ScoreType DEF Probes
  <2>5. \A o \in Open : o.model \in Names
    OBVIOUS
  <2> HIDE DEF first, Open, Names, known
  <2>6. routes_ \in Seq(Open)
    BY <2>3, <2>4, SortedElements
  <2> HIDE DEF routes_
  <2>7. names \in Seq(Names)
    BY <2>5, <2>6
  <2>8. \A i \in named : Defaults[i] \in Names
    BY <2>7 DEF Health!ToSet
  <2>9. \A i \in others : names[i] \in Names
    BY <2>7
  <2>10. named \in SUBSET Int /\ IsFiniteSet(named)
    <3>1. named \subseteq 1 .. Len(Defaults) /\ Len(Defaults) \in Nat
      BY <1>1
    <3> HIDE DEF named
    <3>2. QED
      BY <3>1, FinitePlaces
  <2>11. others \in SUBSET Int /\ IsFiniteSet(others)
    <3>1. others \subseteq 1 .. Len(names) /\ Len(names) \in Nat
      BY <2>7
    <3> HIDE DEF others, names
    <3>2. QED
      BY <3>1, FinitePlaces
  <2>12. kept \in Seq(Names)
    <3> HIDE DEF named
    <3>1. QED
      BY <2>8, <2>10, KeptElements
  <2>13. Health!Kept(names, others) \in Seq(Names)
    <3> HIDE DEF others, names
    <3>1. QED
      BY <2>9, <2>11, KeptElements
  <2>14. agents \in Seq(Names)
    <3> HIDE DEF kept, names, others
    <3>1. QED
      BY <2>1, <2>12, <2>13
  <2>15. QED
    BY <1>3, <2>14 DEF Names, known
<1>4. QED
  BY <1>2, <1>3

LEMMA RouteInit == Health!Init => RouteInv
<1> SUFFICES ASSUME Health!Init PROVE RouteInv
  OBVIOUS
<1>1. RouteTypes
  BY FS_EmptySet DEF Health!Init, RouteTypes
<1>2. ASSUME NEW r \in Runs
      PROVE  OwnRoutes(run[r]) /\ ProbesOnFile(run[r]) /\ RefusedForAge(run[r])
  <2>1. run[r] \in [kind : Health!Kinds, named : Named \cup {Health!NoName}, pc : {"start"},
                    agents : {<<>>}, known : {{}}, loaded : {{}}, answered : {{}}, at : {0},
                    built : {{}}, cut : {FALSE}]
    BY DEF Health!Init
  <2>2. /\ run[r].pc = "start" /\ run[r].agents = <<>> /\ run[r].known = {}
        /\ run[r].loaded = {} /\ run[r].at = 0 /\ run[r].built = {} /\ run[r].cut = FALSE
    BY <2>1
  <2>3. RunTypes(run[r])
    <3>1. \A T : <<>> \in Seq(T)
      OBVIOUS
    <3>2. run[r].agents \in Seq(Health!ToSet(run[r].agents))
      <4> DEFINE T == Health!ToSet(run[r].agents)
      <4> HIDE DEF T
      <4>1. run[r].agents \in Seq(T)
        BY <2>2, <3>1
      <4>2. QED
        BY <4>1 DEF T
    <3>3. run[r].cut \in BOOLEAN /\ run[r].at \in Int
      <4>1. run[r].at \in Int
        BY <2>2
      <4>2. run[r].cut \in BOOLEAN
        BY <2>2
      <4>3. QED
        BY <4>1, <4>2
    <3>4. IsFiniteSet(run[r].known) /\ IsFiniteSet(run[r].loaded) /\ IsFiniteSet(run[r].built)
      BY <2>2, FS_EmptySet
    <3>5. QED
      BY <3>2, <3>3, <3>4 DEF RunTypes
  <2>4. OpenRoutes(run[r])
    <3>1. Health!ToSet(<<>>) = {}
      BY DEF Health!ToSet
    <3>2. QED
      BY <2>2, <3>1 DEF OpenRoutes
  <2>5. QED
    BY <2>2, <2>3, <2>4 DEF OwnRoutes, HasRoute, ProbesOnFile, RefusedForAge
<1>3. QED
  BY <1>1, <1>2 DEF RouteInv

\* One run goes on and leaves the probes alone.
LEMMA RouteBecoming ==
  ASSUME HealthInv, RouteInv, NEW r \in Runs, NEW new, Health!Becomes(r, new),
         OwnRoutes(new), ProbesOnFile(new), RefusedForAge(new),
         UNCHANGED <<clock, routes>>, IsFiniteSet(build'.seen)
  PROVE  RouteInv'
<1>1. run'[r] = new /\ \A s \in Runs \ {r} : run'[s] = run[s]
  BY Becoming DEF HealthInv, Health!Becomes
<1>2. RouteTypes'
  BY DEF RouteInv, RouteTypes
<1>3. ASSUME NEW s \in Runs
      PROVE  OwnRoutes(run'[s]) /\ ProbesOnFile(run[s])' /\ RefusedForAge(run[s])'
  <2>1. CASE s = r
    <3>1. OwnRoutes(run'[s])
      BY <1>1, <2>1
    <3>2. ProbesOnFile(run[s])' /\ RefusedForAge(run[s])'
      BY <1>1, <2>1 DEF ProbesOnFile, RefusedForAge
    <3>3. QED
      BY <3>1, <3>2
  <2>2. CASE s # r
    <3>1. OwnRoutes(run[s]) /\ ProbesOnFile(run[s]) /\ RefusedForAge(run[s])
      BY DEF RouteInv
    <3>2. OwnRoutes(run'[s])
      BY <1>1, <2>2, <3>1
    <3>3. ProbesOnFile(run[s])' /\ RefusedForAge(run[s])'
      BY <1>1, <2>2, <3>1 DEF ProbesOnFile, RefusedForAge
    <3>4. QED
      BY <3>2, <3>3
  <2>3. QED
    BY <2>1, <2>2
<1>4. QED
  BY <1>2, <1>3 DEF RouteInv, OwnRoutes, RunTypes, OpenRoutes, HasRoute

\* One run goes on and rewrites the probes.
LEMMA RouteCutting ==
  ASSUME HealthInv, RouteInv, NEW r \in Runs, NEW new, Health!Cuts(r, new),
         OwnRoutes(new), RefusedForAge(new),
         new.pc # "plan" \/ (routes'.whole /\ routes'.ok /\ routes'.at = new.at),
         UNCHANGED <<clock, build>>, routes'.at \in Int
  PROVE  RouteInv'
<1>1. /\ run'[r] = new
      /\ \A s \in Runs \ {r} : run'[s] = [run[s] EXCEPT !.cut = @ \/ run[s].pc = "plan"]
  BY DEF Health!Cuts
<1>2. RouteTypes'
  BY DEF RouteInv, RouteTypes
<1>3. ASSUME NEW s \in Runs
      PROVE  OwnRoutes(run'[s]) /\ ProbesOnFile(run[s])' /\ RefusedForAge(run[s])'
  <2>1. CASE s = r
    <3>1. OwnRoutes(run'[s])
      BY <1>1, <2>1
    <3>2. ProbesOnFile(run[s])' /\ RefusedForAge(run[s])'
      BY <1>1, <2>1 DEF ProbesOnFile, RefusedForAge
    <3>3. QED
      BY <3>1, <3>2
  <2>2. CASE s # r
    <3> DEFINE x == run[s]
               y == run'[s]
    <3>1. OwnRoutes(x) /\ RefusedForAge(x) /\ IsRun(x)
      BY DEF RouteInv, HealthInv, HealthTypes
    <3>2. y = [x EXCEPT !.cut = @ \/ x.pc = "plan"]
      BY <1>1, <2>2
    <3>3. /\ y.kind = x.kind /\ y.pc = x.pc /\ y.agents = x.agents /\ y.known = x.known
          /\ y.loaded = x.loaded /\ y.at = x.at /\ y.built = x.built
          /\ y.named = x.named /\ y.answered = x.answered /\ y.cut = (x.cut \/ x.pc = "plan")
      BY <3>1, <3>2 DEF IsRun, RunFields
    <3>4. OwnRoutes(y)
      BY <3>1, <3>3 DEF OwnRoutes, RunTypes, OpenRoutes, HasRoute, Behind
    <3>5. ProbesOnFile(run[s])'
      BY <3>1, <3>3 DEF ProbesOnFile
    <3>6. RefusedForAge(run[s])'
      BY <3>1, <3>3 DEF RefusedForAge, Behind
    <3>7. QED
      BY <3>4, <3>5, <3>6
  <2>3. QED
    BY <2>1, <2>2
<1>4. QED
  BY <1>2, <1>3 DEF RouteInv, OwnRoutes, RunTypes, OpenRoutes, HasRoute

\* A run that keeps its routes and what it built.
LEMMA RoutesKept ==
  ASSUME NEW x, NEW y, RunTypes(x), OpenRoutes(x),
         y.kind = x.kind, y.named = x.named, y.agents = x.agents, y.known = x.known,
         y.answered = x.answered, y.built = x.built,
         IsFiniteSet(y.loaded), y.at \in Int, y.cut \in BOOLEAN
  PROVE  RunTypes(y) /\ OpenRoutes(y)
<1>1. RunTypes(y)
  BY DEF RunTypes
<1>2. OpenRoutes(y)
  BY DEF OpenRoutes, Behind
<1>3. QED
  BY <1>1, <1>2

LEMMA RouteFacts ==
  ASSUME HealthInv, RouteInv, NEW r \in Runs
  PROVE  /\ IsRun(run[r]) /\ RunTypes(run[r]) /\ OpenRoutes(run[r]) /\ HasRoute(run[r])
         /\ ProbesOnFile(run[r]) /\ RefusedForAge(run[r])
         /\ run[r].pc \in {"start", "publish", "plan", "execute"} => run[r].built = {}
         /\ clock \in Int /\ routes.at \in Int
         /\ IsFiniteSet(build.seen) /\ IsFiniteSet(Health!LoadBuildHealth)
BY FS_EmptySet DEF HealthInv, HealthTypes, RouteInv, OwnRoutes, RouteTypes, Health!LoadBuildHealth

\* A list that a run may probe.
LEMMA ProbedList ==
  ASSUME NEW r \in Runs, NEW list \in Health!Probed(r)
  PROVE  list \in Seq(Health!ToSet(list))
<1>1. CASE list \in Pools
  BY <1>1, RootAssumption DEF Health!RouteHealthAssumption
<1>2. CASE list = <<run[r].named>>
  BY <1>2 DEF Health!ToSet
<1>3. QED
  BY <1>1, <1>2 DEF Health!Probed

\* A probe finds open routes, or the one asked for by name.
LEMMA RouteProbe ==
  ASSUME HealthInv, RouteInv, NEW r \in Runs, Health!Probe(r)
  PROVE  RouteInv'
<1>0. PICK list \in Health!Probed(r) :
        \E answered \in SUBSET Health!ToSet(list), direct \in BOOLEAN :
          LET probed == [i \in DOMAIN list |->
                           [model |-> list[i], ok |-> list[i] \in answered, latency |-> 0]]
              turns  == answered = {} /\ run[r].kind = "fallback"
              all    == IF turns
                        THEN Append(probed, [model |-> Fallback, ok |-> direct, latency |-> 0])
                        ELSE probed
              named  == IF direct THEN Fallback ELSE run[r].named
          IN /\ direct => turns
             /\ Health!Cuts(r, [run[r] EXCEPT
                  !.pc = "publish", !.known = Health!LoadBuildHealth, !.named = named,
                  !.answered = IF direct THEN {Fallback} ELSE answered,
                  !.agents = Health!HealthyAgents(Defaults, all,
                                                  Health!Health(Health!LoadBuildHealth), named)])
  BY DEF Health!Probe
<1>1. PICK answered \in SUBSET Health!ToSet(list), direct \in BOOLEAN :
        LET probed == [i \in DOMAIN list |->
                         [model |-> list[i], ok |-> list[i] \in answered, latency |-> 0]]
            turns  == answered = {} /\ run[r].kind = "fallback"
            all    == IF turns
                      THEN Append(probed, [model |-> Fallback, ok |-> direct, latency |-> 0])
                      ELSE probed
            named  == IF direct THEN Fallback ELSE run[r].named
        IN /\ direct => turns
           /\ Health!Cuts(r, [run[r] EXCEPT
                !.pc = "publish", !.known = Health!LoadBuildHealth, !.named = named,
                !.answered = IF direct THEN {Fallback} ELSE answered,
                !.agents = Health!HealthyAgents(Defaults, all,
                                                Health!Health(Health!LoadBuildHealth), named)])
  BY <1>0
<1> DEFINE known  == Health!LoadBuildHealth
           probed == [i \in DOMAIN list |->
                        [model |-> list[i], ok |-> list[i] \in answered, latency |-> 0]]
           turns  == answered = {} /\ run[r].kind = "fallback"
           extra  == [model |-> Fallback, ok |-> direct, latency |-> 0]
           all    == IF turns THEN Append(probed, extra) ELSE probed
           named  == IF direct THEN Fallback ELSE run[r].named
           found  == IF direct THEN {Fallback} ELSE answered
           agents == Health!HealthyAgents(Defaults, all, Health!Health(known), named)
           new    == [run[r] EXCEPT !.pc = "publish", !.known = known, !.named = named,
                                    !.answered = found, !.agents = agents]
           Chosen == {all[i].model : i \in {j \in DOMAIN all :
                        /\ all[j].ok
                        /\ named # Health!NoName => all[j].model = named
                        /\ named = Health!NoName =>
                             ~Health!Blocks(all[j].model, Health!Health(known))}}
<1>2. list \in Seq(Health!ToSet(list)) /\ DOMAIN list = 1 .. Len(list)
  BY ProbedList
<1>3. /\ all \in Seq(Health!ToSet(all))
      /\ \A i \in DOMAIN all : all[i].latency \in Int /\ (all[i].ok => all[i].model \in found)
  <2>1. CASE turns
    <3>1. DOMAIN all = 1 .. Len(list) + 1 /\ all = [i \in DOMAIN all |-> all[i]]
      BY <1>2, <2>1
    <3>2. \A i \in DOMAIN all : all[i] = IF i \in DOMAIN list THEN probed[i] ELSE extra
      BY <1>2, <2>1
    <3> HIDE DEF all
    <3>3. all \in Seq(Health!ToSet(all))
      BY <1>2, <3>1 DEF Health!ToSet
    <3>4. ASSUME NEW i \in DOMAIN all
          PROVE  all[i].latency \in Int /\ (all[i].ok => all[i].model \in found)
      <4>1. CASE i \in DOMAIN list
        <5>1. all[i] = [model |-> list[i], ok |-> list[i] \in answered, latency |-> 0]
          BY <3>2, <4>1
        <5>2. all[i].latency = 0 /\ all[i].ok = (list[i] \in answered)
          BY <5>1
        <5>3. answered = {}
          BY <2>1
        <5>4. ~all[i].ok
          BY <5>2, <5>3
        <5>5. QED
          BY <5>2, <5>4
      <4>2. CASE i \notin DOMAIN list
        <5>1. all[i] = extra
          BY <3>2, <4>2
        <5>2. QED
          BY <5>1
      <4>3. QED
        BY <4>1, <4>2
    <3>5. QED
      BY <3>3, <3>4
  <2>2. CASE ~turns
    <3>1. DOMAIN all = 1 .. Len(list) /\ all = [i \in DOMAIN all |-> all[i]]
      BY <1>2, <2>2
    <3>2. ~direct /\ \A i \in DOMAIN all : all[i] = probed[i]
      BY <1>1, <2>2
    <3> HIDE DEF all
    <3>3. all \in Seq(Health!ToSet(all))
      BY <1>2, <3>1 DEF Health!ToSet
    <3>4. ASSUME NEW i \in DOMAIN all
          PROVE  all[i].latency \in Int /\ (all[i].ok => all[i].model \in found)
      <4>1. i \in DOMAIN list
        BY <1>2, <3>1
      <4>2. all[i] = [model |-> list[i], ok |-> list[i] \in answered, latency |-> 0]
        BY <3>2, <4>1
      <4>3. QED
        BY <3>2, <4>2
    <3>5. QED
      BY <3>3, <3>4
  <2>3. QED
    BY <2>1, <2>2
<1>4. agents \in Seq(Chosen)
  <2>1. IsFiniteSet(known)
    BY RouteFacts
  <2>2. Probes(all)
    BY <1>3 DEF Probes
  <2> HIDE DEF all, known, named
  <2>3. QED
    BY <2>1, <2>2, AgentsChosen
<1>5. ASSUME NEW m \in Chosen
      PROVE  /\ m \in found
             /\ named # Health!NoName => m = named
             /\ Health!Blocks(m, Health!Health(known)) => m = named
  <2>1. PICK i \in DOMAIN all :
          /\ m = all[i].model /\ all[i].ok
          /\ named # Health!NoName => all[i].model = named
          /\ named = Health!NoName => ~Health!Blocks(all[i].model, Health!Health(known))
    OBVIOUS
  <2> HIDE DEF all, known, found, named, Chosen
  <2>2. all[i].model \in found
    BY <1>3, <2>1
  <2>3. QED
    BY <2>1, <2>2
<1> HIDE DEF Chosen, found, named, known, agents
<1>6. /\ agents \in Seq(Health!ToSet(agents))
      /\ \A m \in Health!ToSet(agents) : m \in Chosen
  <2>1. agents \in Seq(Chosen)
    BY <1>4
  <2>2. \A i \in DOMAIN agents : agents[i] \in Chosen
    BY <2>1
  <2>3. QED
    BY <2>1, <2>2 DEF Health!ToSet
<1>7. /\ run[r].pc = "start" /\ UNCHANGED <<clock, build>>
      /\ routes' = [routes EXCEPT !.whole = FALSE]
  BY DEF Health!Probe
<1>8. Health!Cuts(r, new)
  BY <1>1 DEF agents, known, named, found
<1>9. /\ new.pc = "publish" /\ new.known = known /\ new.agents = agents
      /\ new.named = named /\ new.answered = found
      /\ new.kind = run[r].kind /\ new.loaded = run[r].loaded /\ new.at = run[r].at
      /\ new.built = run[r].built /\ new.cut = run[r].cut
  BY RouteFacts DEF IsRun, RunFields
<1> HIDE DEF new
<1>10. RunTypes(new)
  BY <1>6, <1>9, RouteFacts DEF RunTypes, known
<1>11. OpenRoutes(new)
  <2>1. run[r].built = {}
    BY <1>7, RouteFacts
  <2>2. \A m \in Health!ToSet(agents) :
          /\ m \in found
          /\ named # Health!NoName => m = named
          /\ Health!Blocks(m, Health!Health(known)) => m = named
    BY <1>5, <1>6
  <2>3. QED
    BY <1>9, <2>1, <2>2 DEF OpenRoutes
<1>12. HasRoute(new) /\ RefusedForAge(new)
  BY <1>9 DEF HasRoute, RefusedForAge
<1>13. routes'.at \in Int
  BY <1>7, RouteFacts
<1>14. QED
  BY <1>7, <1>8, <1>9, <1>10, <1>11, <1>12, <1>13, RouteCutting DEF OwnRoutes

\* A check is not behind the gate.
LEMMA RouteLook ==
  ASSUME HealthInv, RouteInv, NEW r \in Runs, Health!Look(r)
  PROVE  RouteInv'
<1>1. PICK w : Health!Cuts(r, [run[r] EXCEPT !.pc = "publish", !.answered = w])
  BY DEF Health!Look
<1> DEFINE new == [run[r] EXCEPT !.pc = "publish", !.answered = w]
<1>2. /\ run[r].kind = "check" /\ UNCHANGED <<clock, build>>
      /\ routes' = [routes EXCEPT !.whole = FALSE]
  BY DEF Health!Look
<1>3. /\ new.pc = "publish" /\ new.known = run[r].known /\ new.agents = run[r].agents
      /\ new.kind = run[r].kind /\ new.loaded = run[r].loaded /\ new.at = run[r].at
      /\ new.built = run[r].built /\ new.cut = run[r].cut
  BY RouteFacts DEF IsRun, RunFields
<1>4. Health!Cuts(r, new)
  BY <1>1
<1> HIDE DEF new
<1>5. RunTypes(new) /\ ~Behind(new)
  BY <1>2, <1>3, RouteFacts DEF RunTypes, Behind
<1>6. OwnRoutes(new) /\ RefusedForAge(new)
  BY <1>5 DEF OwnRoutes, OpenRoutes, HasRoute, RefusedForAge
<1>7. routes'.at \in Int
  BY <1>2, RouteFacts
<1>8. QED
  BY <1>2, <1>3, <1>4, <1>6, <1>7, RouteCutting

\* What is published is that a route answered, and when, if there is one to go on with.
LEMMA RoutePublish ==
  ASSUME HealthInv, RouteInv, NEW r \in Runs, Health!Publish(r)
  PROVE  RouteInv'
<1> DEFINE p   == CASE ~Health!Gated(r)                             -> "done"
                    [] Health!Gated(r) /\ run[r].agents = <<>>      -> "no route"
                    [] Health!Gated(r) /\ run[r].agents # <<>>      -> "plan"
           new == [run[r] EXCEPT !.at = clock, !.pc = p]
<1>1. /\ p \in {"done", "no route", "plan"}
      /\ p = "plan" => Behind(run[r]) /\ run[r].agents # <<>>
      /\ Behind(run[r]) => p = "no route" \/ (p = "plan" /\ run[r].agents # <<>>)
  BY DEF Health!Gated, Behind
<1>2. /\ run[r].pc = "publish" /\ UNCHANGED <<clock, build>>
      /\ routes' = [whole |-> TRUE, at |-> clock, ok |-> run[r].answered # {}]
      /\ Health!Cuts(r, new)
  BY DEF Health!Publish
<1> HIDE DEF p
<1>3. /\ new.pc = p /\ new.known = run[r].known /\ new.agents = run[r].agents
      /\ new.kind = run[r].kind /\ new.loaded = run[r].loaded /\ new.at = clock
      /\ new.built = run[r].built /\ new.cut = run[r].cut
      /\ new.named = run[r].named /\ new.answered = run[r].answered
  BY RouteFacts DEF IsRun, RunFields
<1> HIDE DEF new
<1>4. RunTypes(new) /\ OpenRoutes(new)
  <2>1. IsFiniteSet(new.loaded) /\ new.at \in Int /\ new.cut \in BOOLEAN
    BY <1>3, RouteFacts DEF RunTypes
  <2>2. QED
    BY <1>3, <2>1, RouteFacts, RoutesKept
<1>5. HasRoute(new) /\ RefusedForAge(new)
  BY <1>1, <1>3 DEF HasRoute, RefusedForAge, Behind
<1>6. new.pc = "plan" => run[r].answered # {}
  <2>1. SUFFICES ASSUME new.pc = "plan" PROVE run[r].answered # {}
    OBVIOUS
  <2>2. Behind(run[r]) /\ run[r].agents # <<>>
    BY <1>1, <1>3, <2>1
  <2> DEFINE s == run[r].agents
  <2>3. s \in Seq(Health!ToSet(s)) /\ s # <<>>
    BY <2>2, RouteFacts DEF RunTypes
  <2>4. Health!ToSet(s) \subseteq run[r].answered
    BY <2>2, RouteFacts DEF OpenRoutes
  <2> HIDE DEF s
  <2>5. s[1] \in Health!ToSet(s)
    BY <2>3, EmptySeq
  <2>6. QED
    BY <2>4, <2>5
<1>7. /\ routes'.at \in Int
      /\ new.pc # "plan" \/ (routes'.whole /\ routes'.ok /\ routes'.at = new.at)
  BY <1>2, <1>3, <1>6, RouteFacts
<1>8. QED
  BY <1>2, <1>4, <1>5, <1>7, RouteCutting DEF OwnRoutes

\* Without the gate, at the gate, and at a death.
LEMMA RouteAside ==
  ASSUME HealthInv, RouteInv, NEW r \in Runs,
         Health!Skip(r) \/ Health!Plan(r) \/ Health!Die(r)
  PROVE  RouteInv'
<1>1. CASE Health!Skip(r)
  <2> DEFINE new == [run[r] EXCEPT !.pc = "plan", !.agents = Defaults]
  <2>1. /\ Health!Becomes(r, new) /\ UNCHANGED <<clock, routes, build>>
        /\ run[r].kind \in {"simulated", "plain"}
    BY <1>1 DEF Health!Skip
  <2>2. /\ new.pc = "plan" /\ new.known = run[r].known /\ new.agents = Defaults
        /\ new.kind = run[r].kind /\ new.loaded = run[r].loaded /\ new.at = run[r].at
        /\ new.built = run[r].built /\ new.cut = run[r].cut
        /\ new.named = run[r].named /\ new.answered = run[r].answered
    BY RouteFacts DEF IsRun, RunFields
  <2> HIDE DEF new
  <2>3. Defaults \in Seq(Health!ToSet(Defaults))
    BY RootAssumption DEF Health!RouteHealthAssumption
  <2>4. RunTypes(new)
    BY <2>2, <2>3, RouteFacts DEF RunTypes
  <2>5. ~Behind(new)
    BY <2>1, <2>2 DEF Behind
  <2>6. OwnRoutes(new) /\ ProbesOnFile(new) /\ RefusedForAge(new)
    BY <2>4, <2>5 DEF OwnRoutes, OpenRoutes, HasRoute, ProbesOnFile, RefusedForAge
  <2>7. IsFiniteSet(build'.seen)
    BY <2>1, RouteFacts
  <2>8. QED
    BY <2>1, <2>6, <2>7, RouteBecoming
<1>2. CASE Health!Plan(r)
  <2> DEFINE p   == IF run[r].kind = "simulated" \/ Health!FreshHealthyRouteState
                    THEN "execute" ELSE "blocked"
             new == [run[r] EXCEPT !.pc = p]
  <2>1. /\ Health!Becomes(r, new) /\ UNCHANGED <<clock, routes, build>> /\ run[r].pc = "plan"
        /\ p \in {"execute", "blocked"}
        /\ p = "blocked" => ~Health!FreshHealthyRouteState
    BY <1>2 DEF Health!Plan
  <2> HIDE DEF p
  <2>2. /\ new.pc = p /\ new.known = run[r].known /\ new.agents = run[r].agents
        /\ new.kind = run[r].kind /\ new.loaded = run[r].loaded /\ new.at = run[r].at
        /\ new.built = run[r].built /\ new.cut = run[r].cut
        /\ new.named = run[r].named /\ new.answered = run[r].answered
    BY RouteFacts DEF IsRun, RunFields
  <2> HIDE DEF new
  <2>3. RunTypes(new) /\ OpenRoutes(new)
    <3>1. IsFiniteSet(new.loaded) /\ new.at \in Int /\ new.cut \in BOOLEAN
      BY <2>2, RouteFacts DEF RunTypes
    <3>2. QED
      BY <2>2, <3>1, RouteFacts, RoutesKept
  <2>4. HasRoute(new)
    BY <2>1, <2>2, RouteFacts DEF HasRoute, Behind
  <2>5. ProbesOnFile(new)
    BY <2>1, <2>2 DEF ProbesOnFile
  <2>6. RefusedForAge(new)
    <3> SUFFICES ASSUME Behind(new), new.pc = "blocked", ~new.cut PROVE clock - new.at > Fresh
      BY RouteFacts DEF RefusedForAge, RunTypes
    <3>1. routes.whole /\ routes.ok /\ routes.at = new.at
      BY <2>1, <2>2, RouteFacts DEF ProbesOnFile, Behind
    <3>2. ~(clock - routes.at <= Fresh)
      BY <2>1, <2>2, <3>1 DEF Health!FreshHealthyRouteState
    <3>3. Fresh \in Int
      BY RootAssumption DEF Health!RouteHealthAssumption
    <3>4. QED
      BY <3>1, <3>2, <3>3, RouteFacts
  <2>7. IsFiniteSet(build'.seen)
    BY <2>1, RouteFacts
  <2>8. QED
    BY <2>1, <2>3, <2>4, <2>5, <2>6, <2>7, RouteBecoming DEF OwnRoutes
<1>3. CASE Health!Die(r)
  <2> DEFINE new == [run[r] EXCEPT !.pc = "dead"]
  <2>1. Health!Becomes(r, new) /\ UNCHANGED <<clock, routes, build>>
    BY <1>3 DEF Health!Die
  <2>2. /\ new.pc = "dead" /\ new.known = run[r].known /\ new.agents = run[r].agents
        /\ new.kind = run[r].kind /\ new.loaded = run[r].loaded /\ new.at = run[r].at
        /\ new.built = run[r].built /\ new.cut = run[r].cut
        /\ new.named = run[r].named /\ new.answered = run[r].answered
    BY RouteFacts DEF IsRun, RunFields
  <2> HIDE DEF new
  <2>3. RunTypes(new) /\ OpenRoutes(new)
    <3>1. IsFiniteSet(new.loaded) /\ new.at \in Int /\ new.cut \in BOOLEAN
      BY <2>2, RouteFacts DEF RunTypes
    <3>2. QED
      BY <2>2, <3>1, RouteFacts, RoutesKept
  <2>4. HasRoute(new) /\ ProbesOnFile(new) /\ RefusedForAge(new)
    BY <2>2 DEF HasRoute, ProbesOnFile, RefusedForAge
  <2>5. IsFiniteSet(build'.seen)
    BY <2>1, RouteFacts
  <2>6. QED
    BY <2>1, <2>3, <2>4, <2>5, RouteBecoming DEF OwnRoutes
<1>4. QED
  BY <1>1, <1>2, <1>3

\* The positions are built by agents.
LEMMA RouteExecute ==
  ASSUME HealthInv, RouteInv, NEW r \in Runs, Health!Execute(r)
  PROVE  RouteInv'
<1> DEFINE route(i) == run[r].agents[((i - 1) % Len(run[r].agents)) + 1]
<1>1. PICK good \in SUBSET (1 .. Positions), told \in SUBSET (1 .. Positions) :
        Health!Becomes(r, [run[r] EXCEPT !.pc = "load", !.built =
          {[run |-> r, position |-> i, ok |-> i \in good,
            model |-> IF i \in told THEN Health!EffectiveModel(r, route(i)) ELSE route(i)] :
           i \in 1 .. Positions}])
  BY DEF Health!Execute
<1> DEFINE observed(i) ==
             [run |-> r, position |-> i, ok |-> i \in good,
              model |-> IF i \in told THEN Health!EffectiveModel(r, route(i)) ELSE route(i)]
           built == {observed(i) : i \in 1 .. Positions}
           new   == [run[r] EXCEPT !.pc = "load", !.built = built]
<1>2. Health!Becomes(r, new)
  BY <1>1
<1>3. UNCHANGED <<clock, routes, build>> /\ run[r].pc = "execute"
  BY DEF Health!Execute
<1>4. IsFiniteSet(built)
  <2> DEFINE f == [i \in 1 .. Positions |-> observed(i)]
  <2>1. f \in Surjection(1 .. Positions, built)
    BY DEF Surjection
  <2>2. Positions \in Nat
    BY RootAssumption DEF Health!RouteHealthAssumption
  <2> HIDE DEF f, built
  <2>3. IsFiniteSet(1 .. Positions)
    BY <2>2, FS_Interval
  <2>4. QED
    BY <2>1, <2>3, FS_Surjection
<1>5. run[r].agents # <<>> => \A o \in built : \E m \in Health!ToSet(run[r].agents) :
        o.model \in {m, Health!EffectiveModel(r, m)}
  <2> DEFINE s == run[r].agents
  <2>1. s # <<>> => \A i \in 1 .. Positions : route(i) \in Health!ToSet(s)
    <3> SUFFICES ASSUME s # <<>>, NEW i \in 1 .. Positions
                 PROVE  s[((i - 1) % Len(s)) + 1] \in Health!ToSet(s)
      OBVIOUS
    <3>1. s \in Seq(Health!ToSet(s))
      BY RouteFacts DEF RunTypes
    <3> HIDE DEF s
    <3>2. Len(s) \in Nat \ {0} /\ DOMAIN s = 1 .. Len(s)
      BY <3>1, EmptySeq
    <3>3. i - 1 \in Int
      BY RootAssumption DEF Health!RouteHealthAssumption
    <3>4. ((i - 1) % Len(s)) + 1 \in 1 .. Len(s)
      BY <3>2, <3>3
    <3>5. QED
      BY <3>2, <3>4 DEF Health!ToSet
  <2> HIDE DEF route
  <2>2. \A i \in 1 .. Positions :
          observed(i).model \in {route(i), Health!EffectiveModel(r, route(i))}
    OBVIOUS
  <2>3. QED
    BY <2>1, <2>2
<1> HIDE DEF built
<1>6. /\ new.pc = "load" /\ new.known = run[r].known /\ new.agents = run[r].agents
      /\ new.kind = run[r].kind /\ new.loaded = run[r].loaded /\ new.at = run[r].at
      /\ new.built = built /\ new.cut = run[r].cut
      /\ new.named = run[r].named /\ new.answered = run[r].answered
  BY RouteFacts DEF IsRun, RunFields
<1> HIDE DEF new
<1>7. RunTypes(new)
  BY <1>4, <1>6, RouteFacts DEF RunTypes
<1>8. OpenRoutes(new)
  BY <1>3, <1>5, <1>6, RouteFacts DEF OpenRoutes, HasRoute, Behind, Health!EffectiveModel
<1>9. HasRoute(new) /\ ProbesOnFile(new) /\ RefusedForAge(new)
  BY <1>6 DEF HasRoute, ProbesOnFile, RefusedForAge
<1>10. IsFiniteSet(build'.seen)
  BY <1>3, RouteFacts
<1>11. QED
  BY <1>2, <1>3, <1>7, <1>8, <1>9, <1>10, RouteBecoming DEF OwnRoutes

\* The update of the history.
LEMMA RouteUpdate ==
  ASSUME HealthInv, RouteInv, NEW r \in Runs,
         Health!Load(r) \/ Health!Truncate(r) \/ Health!Write(r)
  PROVE  RouteInv'
<1>1. PICK p \in {"truncate", "write", "done"}, l \in {run[r].loaded, Health!LoadBuildHealth} :
        Health!Becomes(r, [run[r] EXCEPT !.pc = p, !.loaded = l])
  <2>1. /\ IsRun(run[r])
        /\ \A p : [run[r] EXCEPT !.pc = p] = [run[r] EXCEPT !.pc = p, !.loaded = run[r].loaded]
    BY RouteFacts DEF IsRun, RunFields
  <2>2. CASE Health!Load(r)
    BY <2>2 DEF Health!Load
  <2>3. CASE Health!Truncate(r)
    BY <2>1, <2>3 DEF Health!Truncate
  <2>4. CASE Health!Write(r)
    BY <2>1, <2>4 DEF Health!Write
  <2>5. QED
    BY <2>2, <2>3, <2>4
<1> DEFINE new == [run[r] EXCEPT !.pc = p, !.loaded = l]
<1>2. /\ new.pc = p /\ new.known = run[r].known /\ new.agents = run[r].agents
      /\ new.kind = run[r].kind /\ new.loaded = l /\ new.at = run[r].at
      /\ new.built = run[r].built /\ new.cut = run[r].cut
      /\ new.named = run[r].named /\ new.answered = run[r].answered
  BY RouteFacts DEF IsRun, RunFields
<1>3. Health!Becomes(r, new)
  BY <1>1
<1> HIDE DEF new
<1>4. RunTypes(new) /\ OpenRoutes(new)
  <2>1. IsFiniteSet(new.loaded) /\ new.at \in Int /\ new.cut \in BOOLEAN
    BY <1>2, RouteFacts DEF RunTypes
  <2>2. QED
    BY <1>2, <2>1, RouteFacts, RoutesKept
<1>5. HasRoute(new) /\ ProbesOnFile(new) /\ RefusedForAge(new)
  BY <1>2 DEF HasRoute, ProbesOnFile, RefusedForAge
<1>6. UNCHANGED <<clock, routes>>
  BY DEF Health!Load, Health!Truncate, Health!Write
<1>7. build'.seen \in {build.seen, run[r].loaded \cup run[r].built}
  BY DEF Health!Load, Health!Truncate, Health!Write, HealthInv, HealthTypes
<1>8. IsFiniteSet(build'.seen)
  <2>1. IsFiniteSet(build.seen) /\ IsFiniteSet(run[r].loaded) /\ IsFiniteSet(run[r].built)
    BY RouteFacts DEF RunTypes
  <2>2. IsFiniteSet(run[r].loaded \cup run[r].built)
    BY <2>1, FS_Union
  <2>3. QED
    BY <1>7, <2>1, <2>2
<1>9. QED
  BY <1>3, <1>4, <1>5, <1>6, <1>8, RouteBecoming DEF OwnRoutes

LEMMA RouteTick ==
  ASSUME RouteInv, Health!Tick
  PROVE  RouteInv'
<1>1. clock' = clock + 1 /\ UNCHANGED <<routes, build, run>>
  BY DEF Health!Tick
<1>2. clock \in Int /\ Fresh \in Int
  BY RootAssumption DEF Health!RouteHealthAssumption, RouteInv, RouteTypes
<1>3. RouteTypes'
  BY <1>1, <1>2 DEF RouteInv, RouteTypes
<1>4. ASSUME NEW r \in Runs
      PROVE  OwnRoutes(run[r]) /\ ProbesOnFile(run[r])' /\ RefusedForAge(run[r])'
  <2>1. OwnRoutes(run[r]) /\ ProbesOnFile(run[r]) /\ RefusedForAge(run[r])
    BY DEF RouteInv
  <2>2. run[r].at \in Int
    BY <2>1 DEF OwnRoutes, RunTypes
  <2>3. clock - run[r].at > Fresh => clock' - run[r].at > Fresh
    BY <1>1, <1>2, <2>2
  <2>4. QED
    BY <1>1, <2>1, <2>3 DEF ProbesOnFile, RefusedForAge
<1>5. QED
  BY <1>1, <1>3, <1>4 DEF RouteInv, OwnRoutes, RunTypes, OpenRoutes, HasRoute

LEMMA RouteNext ==
  ASSUME HealthInv, RouteInv, Health!Next
  PROVE  RouteInv'
<1>1. CASE Health!Tick
  BY <1>1, RouteTick
<1>2. ASSUME NEW r \in Runs,
             \/ Health!Probe(r) \/ Health!Look(r) \/ Health!Publish(r) \/ Health!Skip(r)
             \/ Health!Plan(r) \/ Health!Execute(r) \/ Health!Load(r) \/ Health!Truncate(r)
             \/ Health!Write(r) \/ Health!Die(r)
      PROVE  RouteInv'
  BY <1>2, RouteProbe, RouteLook, RoutePublish, RouteAside, RouteExecute, RouteUpdate
<1>3. QED
  BY <1>1, <1>2 DEF Health!Next

LEMMA RouteUnchanged ==
  ASSUME RouteInv, UNCHANGED <<clock, routes, build, run>>
  PROVE  RouteInv'
BY DEF RouteInv, RouteTypes, OwnRoutes, RunTypes, OpenRoutes, HasRoute, ProbesOnFile,
       RefusedForAge

LEMMA RoutesAvoidBlocked == RouteInv => Health!GatedRunsAvoidBlocked
<1> SUFFICES ASSUME RouteInv, NEW r \in Runs, Health!Gated(r)
             PROVE  /\ Health!ToSet(run[r].agents) \subseteq run[r].answered
                    /\ run[r].named # Health!NoName =>
                         Health!ToSet(run[r].agents) \subseteq {run[r].named}
                    /\ \A o \in run[r].built :
                         Health!Blocks(o.model, Health!Health(run[r].known)) =>
                           o.model \in {run[r].named} \cup Health!ShortNames(r)
  BY DEF Health!GatedRunsAvoidBlocked
<1>1. OpenRoutes(run[r]) /\ Behind(run[r])
  BY DEF RouteInv, OwnRoutes, Behind, Health!Gated
<1>2. ASSUME NEW o \in run[r].built, Health!Blocks(o.model, Health!Health(run[r].known)),
             o.model # run[r].named
      PROVE  o.model \in Health!ShortNames(r)
  <2>1. PICK m \in Health!ToSet(run[r].agents) :
          o.model \in {m, IF run[r].named # Health!NoName THEN run[r].named ELSE ChildModel[m]}
    BY <1>1 DEF OpenRoutes
  <2>2. o.model # m
    BY <1>1, <1>2 DEF OpenRoutes
  <2>3. o.model = ChildModel[m] /\ ChildModel[m] # m
    BY <1>2, <2>1, <2>2
  <2>4. QED
    BY <2>1, <2>3 DEF Health!ShortNames
<1>3. QED
  BY <1>1, <1>2 DEF OpenRoutes

LEMMA RoutesExplained == RouteInv => Health!RefusalsExplained
BY DEF RouteInv, RefusedForAge, Behind, Health!RefusalsExplained, Health!Gated

-----------------------------------------------------------------------------
(***************************************************************************)
(* The router.                                                             *)
(***************************************************************************)
States  == {"none", "router", "serving", "stopping", "other"}
Running == {"router", "serving"}

\* What excuses a router that is not on file, and a stop that hits a stranger.
LostRouter == why \cap {"second start", "starter died", "removed another's"} # {}
LostNumber == why \cap {"crashed", "no port", "two stops", "stopper died"} # {}

\* A starter has a router of its own that is not on file yet; a stop has read the file, or has
\* signalled and not removed it.
Entering(d) == cmd[d].pc \in {"truncate", "write"}
Stopping(c) == cmd[c].pc \in {"signal", "remove"}
Removing    == \E c \in Stoppers : cmd[c].pc = "remove"

CommandFields ==
  [pc  : {"start", "spawn", "truncate", "write", "wait", "signal", "remove", "over", "dead"},
   pid : Pids \cup {0}, hit : States \cup {"nothing"}]

RouterTypes ==
  /\ proc \in [Pids -> States]
  /\ pidFile \in Pids \cup {0, -1}
  /\ cmd \in [Starters \cup Stoppers ->
                [pc : {"start", "spawn", "truncate", "write", "wait", "signal", "remove", "over",
                       "dead"},
                 pid : Pids \cup {0}, hit : States \cup {"nothing"}]]
  /\ \A d \in Starters : Entering(d) => cmd[d].pid \in Pids
  /\ \A c \in Stoppers : cmd[c].pc = "signal" => cmd[c].pid \in Pids

\* There is one router at most, and its number is on file or with the starter that enters it.
OneRouter ==
  ~LostRouter =>
    /\ \A d \in Starters : Entering(d) => Router!Routers \subseteq {cmd[d].pid}
    /\ \A d, e \in Starters : Entering(d) /\ Entering(e) => d = e
    /\ (\A d \in Starters : ~Entering(d)) => Router!Routers \subseteq {pidFile}

\* One process at a time stops something, and it signals a router.
OneStop ==
  /\ \A c, e \in Stoppers : Stopping(c) /\ Stopping(e) => c = e
  /\ \A c \in Stoppers : cmd[c].pc = "signal" => proc[cmd[c].pid] \in Running
  /\ \A c \in Stoppers : cmd[c].hit # "other"

\* The numbers that starters enter are routers', each its own, and none is one that is being
\* stopped.
EntriesLive ==
  /\ \A d \in Starters : Entering(d) =>
       /\ proc[cmd[d].pid] \in Running
       /\ \A c \in Stoppers : cmd[c].pc = "signal" => cmd[c].pid # cmd[d].pid
       /\ pidFile = cmd[d].pid => Removing
  /\ \A d, e \in Starters : Entering(d) /\ Entering(e) /\ d # e => cmd[d].pid # cmd[e].pid

\* The number on file is a router's until its stop is about to remove it.
FileLive == pidFile \in Pids /\ ~Removing => proc[pidFile] \in Running

NumbersHold == ~LostNumber => OneStop /\ EntriesLive /\ FileLive

RouterInv == RouterTypes /\ OneRouter /\ NumbersHold

LEMMA PidFacts == Pids \subseteq Nat \ {0} /\ 0 \notin Pids /\ -1 \notin Pids
BY RootAssumption DEF Router!RouterAssumption

LEMMA RouterInit == Router!Init => RouterInv
BY PidFacts
   DEF Router!Init, RouterInv, RouterTypes, OneRouter, NumbersHold, OneStop, EntriesLive, FileLive,
       Entering, Stopping, Removing, States, Running, Router!Routers, Router!None, LostRouter,
       LostNumber

\* The command that takes a step; the others stay where they are.
Commands == Starters \cup Stoppers

\* A command that is at neither end of a change to the file does not matter.
LEMMA AsideCommand ==
  ASSUME RouterInv, RouterTypes', NEW c \in Commands,
         \A x \in Commands \ {c} : cmd'[x] = cmd[x],
         cmd'[c].hit = cmd[c].hit,
         ~Entering(c), ~Stopping(c), ~Entering(c)', ~Stopping(c)',
         UNCHANGED <<proc, pidFile, why>>
  PROVE  RouterInv'
<1>1. \A x \in Commands : /\ Entering(x)' <=> Entering(x)
                          /\ Stopping(x)' <=> Stopping(x)
                          /\ cmd'[x].hit = cmd[x].hit
                          /\ Entering(x) \/ Stopping(x) => cmd'[x] = cmd[x]
  BY DEF Entering, Stopping
<1>2. \A x \in Commands : /\ cmd'[x].pc = "signal" <=> cmd[x].pc = "signal"
                          /\ cmd'[x].pc = "remove" <=> cmd[x].pc = "remove"
                          /\ cmd[x].pc = "signal" => cmd'[x] = cmd[x]
  BY <1>1 DEF Stopping
<1>3. /\ LostRouter' <=> LostRouter
      /\ LostNumber' <=> LostNumber
      /\ Router!Routers' = Router!Routers
      /\ Removing' <=> Removing
  BY <1>2 DEF LostRouter, LostNumber, Router!Routers, Removing, Commands
<1>4. OneRouter'
  BY <1>1, <1>3 DEF RouterInv, OneRouter, Commands
<1>5. OneStop /\ ~LostNumber => OneStop'
  BY <1>1, <1>2 DEF OneStop, Stopping, Commands
<1>6. EntriesLive => EntriesLive'
  BY <1>1, <1>2, <1>3 DEF EntriesLive, Commands
<1>7. FileLive => FileLive'
  BY <1>3 DEF FileLive
<1>8. QED
  BY <1>3, <1>4, <1>5, <1>6, <1>7 DEF RouterInv, NumbersHold

LEMMA CheckSteps ==
  ASSUME RouterInv, NEW c \in Starters, Router!Check(c) \/ Router!WaitRouter(c)
  PROVE  RouterInv'
<1> USE PidFacts
<1>1. RouterTypes
  BY DEF RouterInv
<1>2. Router!ReadPID \in Pids \cup {0}
  BY DEF Router!ReadPID, Router!None
<1>3. PICK pc \in {"spawn", "over"}, pid \in Pids \cup {0} :
        cmd' = [cmd EXCEPT ![c].pc = pc, ![c].pid = pid]
  <2>1. CASE Router!Check(c) /\ Router!RouterLive
    BY <2>1, <1>2 DEF Router!Check
  <2>2. cmd[c].pid \in Pids \cup {0}
    BY <1>1 DEF RouterTypes
  <2>3. CASE Router!Check(c) /\ ~Router!RouterLive
    <3>1. cmd' = [cmd EXCEPT ![c].pc = "spawn"]
      BY <2>3 DEF Router!Check, Router!Goes
    <3>2. cmd' = [cmd EXCEPT ![c].pc = "spawn", ![c].pid = cmd[c].pid]
      BY <3>1, <1>1 DEF RouterTypes
    <3>3. QED
      BY <3>2, <2>2
  <2>4. CASE Router!WaitRouter(c)
    <3>1. cmd' = [cmd EXCEPT ![c].pc = "over"]
      BY <2>4 DEF Router!WaitRouter, Router!Goes
    <3>2. cmd' = [cmd EXCEPT ![c].pc = "over", ![c].pid = cmd[c].pid]
      BY <3>1, <1>1 DEF RouterTypes
    <3>3. QED
      BY <3>2, <2>2
  <2>5. QED
    BY <2>1, <2>3, <2>4
<1>4. /\ \A x \in Commands \ {c} : cmd'[x] = cmd[x]
      /\ cmd'[c].hit = cmd[c].hit /\ cmd'[c].pc \in {"spawn", "over"}
  BY <1>1, <1>3 DEF RouterTypes, Commands
<1>5. cmd[c].pc \in {"start", "wait"} /\ UNCHANGED <<proc, pidFile, why>>
  BY DEF Router!Check, Router!WaitRouter
<1>6. RouterTypes'
  <2>1. cmd' \in [Commands -> [pc : {"start", "spawn", "truncate", "write", "wait", "signal",
                                    "remove", "over", "dead"},
                               pid : Pids \cup {0}, hit : States \cup {"nothing"}]]
    <3>1. pc \in {"start", "spawn", "truncate", "write", "wait", "signal", "remove", "over", "dead"}
      OBVIOUS
    <3>2. cmd' = [cmd EXCEPT ![c] = [cmd[c] EXCEPT !.pc = pc, !.pid = pid]]
      BY <1>1, <1>3 DEF RouterTypes, Commands
    <3>3. [cmd[c] EXCEPT !.pc = pc, !.pid = pid] \in
             [pc : {"start", "spawn", "truncate", "write", "wait", "signal", "remove", "over",
                    "dead"},
              pid : Pids \cup {0}, hit : States \cup {"nothing"}]
      BY <1>1, <3>1 DEF RouterTypes, Commands
    <3>4. QED
      BY <1>1, <3>2, <3>3 DEF RouterTypes, Commands
  <2>2. QED
    BY <1>1, <1>4, <1>5, <2>1 DEF RouterTypes, Entering, Commands
<1>7. QED
  BY <1>4, <1>5, <1>6, AsideCommand DEF Entering, Stopping, Commands

\* What holds of stops stays while no stop goes on and no router ends.
LEMMA OneStopKept ==
  /\ OneStop
  /\ \A x \in Stoppers : /\ Stopping(x)' => Stopping(x)
                         /\ cmd'[x].hit = cmd[x].hit
                         /\ cmd'[x].pc = "signal" => cmd'[x] = cmd[x] /\ cmd[x].pid \in Pids
  /\ \A q \in Pids : proc[q] \in Running => proc'[q] \in Running
  => OneStop'
<1> SUFFICES ASSUME OneStop,
                    \A x \in Stoppers :
                      /\ Stopping(x)' => Stopping(x)
                      /\ cmd'[x].hit = cmd[x].hit
                      /\ cmd'[x].pc = "signal" => cmd'[x] = cmd[x] /\ cmd[x].pid \in Pids,
                    \A q \in Pids : proc[q] \in Running => proc'[q] \in Running
             PROVE  OneStop'
  OBVIOUS
<1>1. \A c, e \in Stoppers : Stopping(c)' /\ Stopping(e)' => c = e
  BY DEF OneStop
<1>2. ASSUME NEW c \in Stoppers, cmd'[c].pc = "signal" PROVE proc'[cmd'[c].pid] \in Running
  <2>1. cmd'[c] = cmd[c] /\ cmd[c].pid \in Pids
    BY <1>2
  <2>2. proc[cmd[c].pid] \in Running
    BY <1>2, <2>1 DEF OneStop
  <2>3. proc'[cmd[c].pid] \in Running
    BY <2>1, <2>2
  <2>4. QED
    BY <2>1, <2>3
<1>3. \A c \in Stoppers : cmd'[c].hit # "other"
  BY DEF OneStop
<1>4. QED
  BY <1>1, <1>2, <1>3 DEF OneStop

LEMMA SpawnStep ==
  ASSUME RouterInv, NEW c \in Starters, Router!Spawn(c)
  PROVE  RouterInv'
<1> USE PidFacts
<1>1. RouterTypes
  BY DEF RouterInv
<1>2. PICK p \in Pids : /\ proc[p] = "none" /\ proc' = [proc EXCEPT ![p] = "router"]
                        /\ cmd' = [cmd EXCEPT ![c].pc = "truncate", ![c].pid = p]
  BY DEF Router!Spawn
<1>3. /\ \A x \in Commands \ {c} : cmd'[x] = cmd[x]
      /\ cmd'[c].hit = cmd[c].hit /\ cmd'[c].pc = "truncate" /\ cmd'[c].pid = p
      /\ proc'[p] = "router" /\ \A q \in Pids \ {p} : proc'[q] = proc[q]
  BY <1>1, <1>2 DEF RouterTypes, Commands
<1>4. /\ cmd[c].pc = "spawn" /\ pidFile' = pidFile
      /\ LostRouter => LostRouter'
      /\ LostNumber' <=> LostNumber
      /\ ~LostRouter' => Router!Routers = {} /\ \A d \in Starters : ~Entering(d)
  BY DEF Router!Spawn, Router!Notes, LostRouter, LostNumber, Entering
<1>5. RouterTypes'
  <2>1. proc' \in [Pids -> States]
    BY <1>1, <1>2 DEF RouterTypes, States
  <2>2. cmd' = [cmd EXCEPT ![c] = [cmd[c] EXCEPT !.pc = "truncate", !.pid = p]]
    BY <1>1, <1>2 DEF RouterTypes, Commands
  <2>3. cmd' \in [Commands -> CommandFields]
    <3>1. cmd \in [Commands -> CommandFields]
      BY <1>1 DEF RouterTypes, Commands, CommandFields
    <3>2. [cmd[c] EXCEPT !.pc = "truncate", !.pid = p] \in CommandFields
      BY <3>1 DEF Commands, CommandFields
    <3>3. QED
      BY <2>2, <3>1, <3>2
  <2>4. \A d \in Starters : Entering(d)' => cmd'[d].pid \in Pids
    BY <1>1, <1>3 DEF RouterTypes, Entering, Commands
  <2>5. \A d \in Stoppers : cmd'[d].pc = "signal" => cmd'[d].pid \in Pids
    BY <1>1, <1>3 DEF RouterTypes, Commands
  <2>6. QED
    BY <1>1, <1>4, <2>1, <2>3, <2>4, <2>5 DEF RouterTypes, Commands, CommandFields
<1>6. OneRouter'
  <2> SUFFICES ASSUME ~LostRouter' PROVE OneRouter'
    BY DEF OneRouter
  <2>1. Router!Routers = {} /\ \A d \in Starters : ~Entering(d)
    BY <1>4
  <2>2. \A d \in Starters : Entering(d)' => d = c
    BY <1>3, <2>1 DEF Entering, Commands
  <2>3. Router!Routers' \subseteq {p} /\ cmd'[c].pid = p /\ Entering(c)'
    BY <1>3, <2>1 DEF Router!Routers, Entering
  <2>4. QED
    BY <2>2, <2>3 DEF OneRouter
<1>7. Removing' <=> Removing
  BY <1>3, <1>4 DEF Removing, Commands
<1>8. ASSUME ~LostNumber' PROVE OneStop' /\ EntriesLive' /\ FileLive'
  <2>1. OneStop /\ EntriesLive /\ FileLive
    BY <1>4, <1>8 DEF RouterInv, NumbersHold
  <2>2. \A q \in Pids : proc[q] \in Running => q # p /\ proc'[q] \in Running
    BY <1>2, <1>3 DEF Running
  <2>3. OneStop'
    <3>1. \A x \in Stoppers : /\ Stopping(x)' => Stopping(x)
                              /\ cmd'[x].hit = cmd[x].hit
                              /\ cmd'[x].pc = "signal" => cmd'[x] = cmd[x] /\ cmd[x].pid \in Pids
      BY <1>1, <1>3 DEF Stopping, Commands, RouterTypes
    <3>2. \A q \in Pids : proc[q] \in Running => proc'[q] \in Running
      BY <2>2
    <3>3. QED
      BY <2>1, <3>1, <3>2, OneStopKept
  <2>4. FileLive'
    BY <1>4, <1>7, <2>1, <2>2 DEF FileLive
  <2>5. pidFile = p => Removing
    BY <1>2, <2>1, <2>2 DEF FileLive
  <2>6. \A e \in Stoppers : cmd'[e].pc = "signal" => cmd'[e].pid # p
    BY <1>1, <1>3, <2>1, <2>2 DEF OneStop, Commands, RouterTypes
  <2>7. \A d \in Starters \ {c} :
          Entering(d)' => Entering(d) /\ cmd'[d] = cmd[d] /\ cmd[d].pid \in Pids
    BY <1>1, <1>3 DEF Entering, Commands, RouterTypes
  <2>8. \A x \in Stoppers : cmd'[x].pc = "signal" => cmd'[x] = cmd[x] /\ cmd[x].pc = "signal"
    BY <1>3 DEF Commands
  <2>9. \A d \in Starters : Entering(d)' =>
          /\ proc'[cmd'[d].pid] \in Running
          /\ \A x \in Stoppers : cmd'[x].pc = "signal" => cmd'[x].pid # cmd'[d].pid
          /\ pidFile' = cmd'[d].pid => Removing'
    <3> SUFFICES ASSUME NEW d \in Starters, Entering(d)'
                 PROVE  /\ proc'[cmd'[d].pid] \in Running
                        /\ \A x \in Stoppers : cmd'[x].pc = "signal" => cmd'[x].pid # cmd'[d].pid
                        /\ pidFile' = cmd'[d].pid => Removing'
      OBVIOUS
    <3>1. CASE d = c
      BY <3>1, <1>3, <1>4, <1>7, <2>5, <2>6 DEF Running
    <3>2. CASE d # c
      <4>1. Entering(d) /\ cmd'[d] = cmd[d] /\ cmd[d].pid \in Pids
        BY <3>2, <2>7
      <4>2. /\ proc[cmd[d].pid] \in Running
            /\ \A x \in Stoppers : cmd[x].pc = "signal" => cmd[x].pid # cmd[d].pid
            /\ pidFile = cmd[d].pid => Removing
        BY <4>1, <2>1 DEF EntriesLive
      <4>3. proc'[cmd[d].pid] \in Running
        BY <4>1, <4>2, <2>2
      <4>4. \A x \in Stoppers : cmd'[x].pc = "signal" => cmd'[x].pid # cmd[d].pid
        BY <4>2, <2>8
      <4>5. QED
        BY <4>1, <4>2, <4>3, <4>4, <1>4, <1>7
    <3>3. QED
      BY <3>1, <3>2
  <2>10. \A d, e \in Starters : Entering(d)' /\ Entering(e)' /\ d # e => cmd'[d].pid # cmd'[e].pid
    BY <1>3, <2>1, <2>2, <2>7 DEF EntriesLive
  <2>11. EntriesLive'
    BY <2>9, <2>10 DEF EntriesLive
  <2>12. QED
    BY <2>3, <2>4, <2>11
<1>9. QED
  BY <1>5, <1>6, <1>8 DEF RouterInv, NumbersHold

\* A starter goes on, or dies, over the file.
LEMMA EntryStep ==
  ASSUME RouterInv, RouterTypes', NEW c \in Starters, Entering(c), ~Stopping(c)',
         \A x \in Commands \ {c} : cmd'[x] = cmd[x],
         cmd'[c].hit = cmd[c].hit, cmd'[c].pid = cmd[c].pid,
         proc' = proc, LostNumber' <=> LostNumber,
         \/ pidFile' = pidFile
         \/ pidFile' = -1
         \/ pidFile' = cmd[c].pid /\ ~Entering(c)'
  PROVE  NumbersHold'
<1> USE PidFacts
<1>1. RouterTypes
  BY DEF RouterInv
<1>2. \A x \in Stoppers : /\ Stopping(x)' => Stopping(x)
                          /\ cmd'[x].hit = cmd[x].hit
                          /\ cmd'[x].pc = "signal" =>
                               cmd'[x] = cmd[x] /\ cmd[x].pc = "signal" /\ cmd[x].pid \in Pids
  BY <1>1 DEF Stopping, Commands, RouterTypes
<1>3. ~Stopping(c)
  BY DEF Stopping, Entering
<1>4. Removing' <=> Removing
  BY <1>3 DEF Removing, Stopping, Commands
<1>5. \A d \in Starters :
        Entering(d)' => Entering(d) /\ cmd'[d].pid = cmd[d].pid /\ cmd[d].pid \in Pids
  BY <1>1 DEF Entering, Commands, RouterTypes
<1> SUFFICES ASSUME ~LostNumber' PROVE OneStop' /\ EntriesLive' /\ FileLive'
  BY DEF NumbersHold
<1>6. OneStop /\ EntriesLive /\ FileLive
  BY DEF RouterInv, NumbersHold
<1>7. OneStop'
  BY <1>2, <1>6, OneStopKept
<1>8. ASSUME NEW d \in Starters, Entering(d)'
      PROVE  /\ proc'[cmd'[d].pid] \in Running
             /\ \A x \in Stoppers : cmd'[x].pc = "signal" => cmd'[x].pid # cmd'[d].pid
             /\ pidFile' = cmd'[d].pid => Removing'
  <2>1. Entering(d) /\ cmd'[d].pid = cmd[d].pid /\ cmd[d].pid \in Pids
    BY <1>5, <1>8
  <2>2. /\ proc[cmd[d].pid] \in Running
        /\ \A x \in Stoppers : cmd[x].pc = "signal" => cmd[x].pid # cmd[d].pid
        /\ pidFile = cmd[d].pid => Removing
    BY <1>6, <2>1 DEF EntriesLive
  <2>3. \A x \in Stoppers : cmd'[x].pc = "signal" => cmd'[x].pid # cmd[d].pid
    BY <1>2, <2>2
  <2>4. pidFile' = cmd[d].pid => Removing
    <3>1. pidFile' = cmd[c].pid /\ ~Entering(c)' => cmd[c].pid # cmd[d].pid
      BY <1>6, <1>8, <2>1 DEF EntriesLive
    <3>2. QED
      BY <2>1, <2>2, <3>1
  <2>5. QED
    BY <1>4, <2>1, <2>2, <2>3, <2>4
<1>9. \A d, e \in Starters : Entering(d)' /\ Entering(e)' /\ d # e => cmd'[d].pid # cmd'[e].pid
  BY <1>5, <1>6 DEF EntriesLive
<1>10. EntriesLive'
  BY <1>8, <1>9 DEF EntriesLive
<1>11. FileLive'
  <2>1. proc[cmd[c].pid] \in Running
    BY <1>6 DEF EntriesLive
  <2>2. QED
    BY <1>4, <1>6, <2>1 DEF FileLive
<1>12. QED
  BY <1>7, <1>10, <1>11

LEMMA EntrySteps ==
  ASSUME RouterInv, NEW c \in Starters,
         Router!Truncate(c) \/ Router!WritePID(c) \/ Router!DieStarting(c)
  PROVE  RouterInv'
<1> USE PidFacts
<1>1. RouterTypes
  BY DEF RouterInv
<1>2. PICK pc \in {"write", "wait", "dead"} :
        /\ cmd' = [cmd EXCEPT ![c].pc = pc]
        /\ proc' = proc /\ Entering(c)
        /\ \/ pc = "write" /\ pidFile' = -1 /\ why' = why
           \/ pc = "wait" /\ pidFile' = cmd[c].pid /\ why' = why
           \/ pc = "dead" /\ pidFile' = pidFile /\ why' = why \cup {"starter died"}
  <2>1. CASE Router!Truncate(c)
    BY <2>1 DEF Router!Truncate, Router!Goes, Router!Torn, Entering
  <2>2. CASE Router!WritePID(c)
    BY <2>2 DEF Router!WritePID, Router!Goes, Entering
  <2>3. CASE Router!DieStarting(c)
    BY <2>3 DEF Router!DieStarting, Router!Goes, Router!Notes, Entering
  <2>4. QED
    BY <2>1, <2>2, <2>3
<1>3. /\ \A x \in Commands \ {c} : cmd'[x] = cmd[x]
      /\ cmd'[c].hit = cmd[c].hit /\ cmd'[c].pid = cmd[c].pid /\ cmd'[c].pc = pc
  BY <1>1, <1>2 DEF RouterTypes, Commands
<1>4. /\ LostRouter' <=> LostRouter \/ pc = "dead"
      /\ LostNumber' <=> LostNumber
      /\ ~Stopping(c)' /\ (Entering(c)' <=> pc = "write")
  BY <1>2, <1>3 DEF LostRouter, LostNumber, Stopping, Entering
<1>5. RouterTypes'
  <2>1. cmd[c].pid \in Pids
    BY <1>1, <1>2 DEF RouterTypes
  <2>2. cmd' = [cmd EXCEPT ![c] = [cmd[c] EXCEPT !.pc = pc]]
    BY <1>1, <1>2 DEF RouterTypes, Commands
  <2>3. cmd' \in [Commands ->
                   [pc : {"start", "spawn", "truncate", "write", "wait", "signal", "remove", "over",
                          "dead"},
                    pid : Pids \cup {0}, hit : States \cup {"nothing"}]]
    BY <1>1, <2>2 DEF RouterTypes, Commands
  <2>4. pidFile' \in Pids \cup {0, -1}
    BY <1>1, <1>2, <2>1 DEF RouterTypes
  <2>5. \A d \in Starters : Entering(d)' => cmd'[d].pid \in Pids
    BY <1>1, <1>3, <2>1 DEF RouterTypes, Entering, Commands
  <2>6. \A d \in Stoppers : cmd'[d].pc = "signal" => cmd'[d].pid \in Pids
    BY <1>1, <1>3 DEF RouterTypes, Commands
  <2>7. QED
    BY <1>1, <1>2, <2>3, <2>4, <2>5, <2>6 DEF RouterTypes, Commands
<1>6. OneRouter'
  <2> SUFFICES ASSUME ~LostRouter' PROVE OneRouter'
    BY DEF OneRouter
  <2>1. /\ \A d \in Starters : Entering(d) => Router!Routers \subseteq {cmd[d].pid}
        /\ \A d, e \in Starters : Entering(d) /\ Entering(e) => d = e
    BY <1>4 DEF RouterInv, OneRouter
  <2>2. Router!Routers' = Router!Routers /\ Router!Routers \subseteq {cmd[c].pid}
    BY <1>2, <2>1 DEF Router!Routers
  <2>3. \A d \in Starters : Entering(d)' => d = c /\ pc = "write"
    BY <1>2, <1>3, <1>4, <2>1 DEF Entering, Commands
  <2>4. pc # "write" => pidFile' = cmd[c].pid
    BY <1>2, <1>4
  <2>5. pc = "write" => Entering(c)'
    BY <1>4
  <2>6. QED
    BY <1>3, <2>2, <2>3, <2>4, <2>5 DEF OneRouter
<1>7. \/ pidFile' = pidFile
      \/ pidFile' = -1
      \/ pidFile' = cmd[c].pid /\ ~Entering(c)'
  BY <1>2, <1>4
<1>8. NumbersHold'
  BY <1>2, <1>3, <1>4, <1>5, <1>7, EntryStep
<1>9. QED
  BY <1>5, <1>6, <1>8 DEF RouterInv

\* A stop takes a step: the routers on file are as before, or fewer.
LEMMA OneRouterKept ==
  ASSUME RouterInv, NEW c \in Commands, ~Entering(c), ~Entering(c)',
         \A x \in Commands \ {c} : cmd'[x] = cmd[x],
         pidFile' = pidFile, LostRouter => LostRouter',
         Router!Routers' \subseteq Router!Routers
  PROVE  OneRouter'
<1>1. \A d \in Starters : /\ Entering(d)' <=> Entering(d)
                          /\ Entering(d) => cmd'[d] = cmd[d]
  BY DEF Entering, Commands
<1>2. QED
  BY <1>1 DEF RouterInv, OneRouter

\* A stop reads the number of a router, unless another stop goes on.
LEMMA LookStep ==
  ASSUME RouterInv, NEW c \in Stoppers, Router!Look(c)
  PROVE  RouterInv'
<1> USE PidFacts
<1>1. RouterTypes
  BY DEF RouterInv
<1>2. PICK pc \in {"over", "signal"}, pid \in Pids \cup {0} :
        /\ cmd' = [cmd EXCEPT ![c].pc = pc, ![c].pid = pid]
        /\ pc = "signal" => pid = pidFile /\ pid \in Pids
  BY DEF Router!Look, Router!ReadPID, Router!None
<1>3. /\ \A x \in Commands \ {c} : cmd'[x] = cmd[x]
      /\ cmd'[c].hit = cmd[c].hit /\ cmd'[c].pc = pc /\ cmd'[c].pid = pid
  BY <1>1, <1>2 DEF RouterTypes, Commands
<1>4. /\ cmd[c].pc = "start" /\ pidFile' = pidFile /\ proc' = proc
      /\ LostRouter' <=> LostRouter
      /\ LostNumber => LostNumber'
      /\ ~LostNumber' => \A d \in Stoppers : ~Stopping(d)
  BY DEF Router!Look, Router!Notes, LostRouter, LostNumber, Stopping
<1>5. RouterTypes'
  <2>1. cmd' = [cmd EXCEPT ![c] = [cmd[c] EXCEPT !.pc = pc, !.pid = pid]]
    BY <1>1, <1>2 DEF RouterTypes, Commands
  <2>2. QED
    BY <1>1, <1>2, <1>3, <1>4, <2>1 DEF RouterTypes, Entering, Commands
<1>6. OneRouter'
  <2>1. ~Entering(c) /\ ~Entering(c)' /\ Router!Routers' = Router!Routers
    BY <1>3, <1>4 DEF Entering, Router!Routers
  <2>2. QED
    BY <1>3, <1>4, <2>1, OneRouterKept DEF Commands
<1>7. ASSUME ~LostNumber' PROVE OneStop' /\ EntriesLive' /\ FileLive'
  <2>1. OneStop /\ EntriesLive /\ FileLive /\ ~Removing
    BY <1>4, <1>7 DEF RouterInv, NumbersHold, Removing, Stopping
  <2>2. \A d \in Stoppers : Stopping(d)' => d = c /\ pc = "signal"
    BY <1>3, <1>4, <1>7 DEF Stopping, Commands
  <2>3. \A d \in Stoppers : cmd'[d].pc = "signal" => d = c /\ pc = "signal"
    BY <2>2 DEF Stopping
  <2>4. pc = "signal" => proc[pid] \in Running
    BY <1>2, <2>1 DEF FileLive
  <2>5. \A d \in Stoppers : cmd'[d].hit = cmd[d].hit
    BY <1>3 DEF Commands
  <2>6. OneStop'
    <3>1. \A d, e \in Stoppers : Stopping(d)' /\ Stopping(e)' => d = e
      BY <2>2
    <3>2. \A d \in Stoppers : cmd'[d].pc = "signal" => proc'[cmd'[d].pid] \in Running
      BY <1>3, <1>4, <2>3, <2>4
    <3>3. \A d \in Stoppers : cmd'[d].hit # "other"
      BY <2>1, <2>5 DEF OneStop
    <3>4. QED
      BY <3>1, <3>2, <3>3 DEF OneStop
  <2>7. \A d \in Starters : /\ Entering(d)' <=> Entering(d)
                            /\ Entering(d) => cmd'[d] = cmd[d]
    BY <1>3, <1>4 DEF Entering, Commands
  <2>8. \A d \in Starters : Entering(d) => proc[cmd[d].pid] \in Running /\ pidFile # cmd[d].pid
    BY <2>1 DEF EntriesLive
  <2>9. \A d \in Starters : Entering(d) =>
          \A x \in Stoppers : cmd'[x].pc = "signal" => cmd'[x].pid # cmd[d].pid
    BY <1>2, <1>3, <2>3, <2>8
  <2>10. \A d, e \in Starters : Entering(d) /\ Entering(e) /\ d # e => cmd[d].pid # cmd[e].pid
    BY <2>1 DEF EntriesLive
  <2>11. EntriesLive'
    BY <1>4, <2>7, <2>8, <2>9, <2>10 DEF EntriesLive
  <2>12. FileLive'
    BY <1>4, <2>1, <2>2 DEF FileLive
  <2>13. QED
    BY <2>6, <2>11, <2>12
<1>8. QED
  BY <1>5, <1>6, <1>7 DEF RouterInv, NumbersHold

\* A stop ends a router, and by then nobody enters that one.
LEMMA SignalStep ==
  ASSUME RouterInv, NEW c \in Stoppers, Router!Signal(c)
  PROVE  RouterInv'
<1> USE PidFacts
<1> DEFINE p == cmd[c].pid
<1>1. RouterTypes /\ cmd[c].pc = "signal" /\ p \in Pids
  BY DEF RouterInv, RouterTypes, Router!Signal
<1>2. /\ cmd' = [cmd EXCEPT ![c].pc = "remove", ![c].hit = proc[p]]
      /\ pidFile' = pidFile /\ why' = why
      /\ \E new \in {"stopping", "none"} : proc' = [proc EXCEPT ![p] = new]
  BY DEF Router!Signal
<1>3. /\ \A x \in Commands \ {c} : cmd'[x] = cmd[x]
      /\ cmd'[c].hit = proc[p] /\ cmd'[c].pc = "remove" /\ cmd'[c].pid = cmd[c].pid
      /\ proc'[p] \notin Running /\ \A q \in Pids \ {p} : proc'[q] = proc[q]
      /\ proc' \in [Pids -> States]
  BY <1>1, <1>2 DEF RouterTypes, Commands, States, Running
<1>4. /\ LostRouter' <=> LostRouter
      /\ LostNumber' <=> LostNumber
      /\ Removing'
  BY <1>2, <1>3 DEF LostRouter, LostNumber, Removing
<1>5. RouterTypes'
  <2>1. cmd' = [cmd EXCEPT ![c] = [cmd[c] EXCEPT !.pc = "remove", !.hit = proc[p]]]
    BY <1>1, <1>2 DEF RouterTypes, Commands
  <2>2. proc[p] \in States
    BY <1>1 DEF RouterTypes
  <2>3. cmd' \in [Commands -> CommandFields]
    <3>1. cmd \in [Commands -> CommandFields]
      BY <1>1 DEF RouterTypes, Commands, CommandFields
    <3>2. [cmd[c] EXCEPT !.pc = "remove", !.hit = proc[p]] \in CommandFields
      BY <2>2, <3>1 DEF Commands, CommandFields
    <3>3. QED
      BY <2>1, <3>1, <3>2
  <2>4. \A d \in Starters : Entering(d)' => cmd'[d].pid \in Pids
    BY <1>1, <1>3 DEF RouterTypes, Entering, Commands
  <2>5. \A d \in Stoppers : cmd'[d].pc = "signal" => cmd'[d].pid \in Pids
    BY <1>1, <1>3 DEF RouterTypes, Commands
  <2>6. QED
    BY <1>1, <1>2, <1>3, <2>3, <2>4, <2>5 DEF RouterTypes, Commands, CommandFields
<1>6. OneRouter'
  <2>1. ~Entering(c) /\ ~Entering(c)' /\ Router!Routers' \subseteq Router!Routers
    BY <1>1, <1>3 DEF Entering, Router!Routers, Running
  <2>2. QED
    BY <1>2, <1>3, <1>4, <2>1, OneRouterKept DEF Commands
<1>7. ASSUME ~LostNumber' PROVE OneStop' /\ EntriesLive' /\ FileLive'
  <2>1. OneStop /\ EntriesLive /\ FileLive
    BY <1>4, <1>7 DEF RouterInv, NumbersHold
  <2>2. \A d \in Stoppers : Stopping(d) => d = c
    BY <1>1, <2>1 DEF OneStop, Stopping
  <2>3. \A d \in Stoppers : Stopping(d)' => d = c
    BY <1>3, <2>2 DEF Stopping, Commands
  <2>4. \A d \in Stoppers : cmd'[d].pc # "signal"
    BY <1>3, <2>3 DEF Stopping
  <2>5. \A d \in Stoppers : cmd'[d].hit # "other"
    <3>1. proc[p] # "other"
      BY <1>1, <2>1 DEF OneStop, Running
    <3>2. QED
      BY <1>3, <2>1, <3>1 DEF OneStop, Commands
  <2>6. OneStop'
    BY <2>3, <2>4, <2>5 DEF OneStop
  <2>7. \A d \in Starters : Entering(d)' =>
          Entering(d) /\ cmd'[d] = cmd[d] /\ cmd[d].pid \in Pids
    BY <1>1, <1>3 DEF Entering, Commands, RouterTypes
  <2>8. \A d \in Starters : Entering(d)' => proc'[cmd'[d].pid] \in Running
    <3>1. \A d \in Starters : Entering(d) => proc[cmd[d].pid] \in Running /\ cmd[d].pid # p
      BY <1>1, <2>1 DEF EntriesLive
    <3>2. QED
      BY <1>3, <2>7, <3>1
  <2>9. \A d, e \in Starters : Entering(d)' /\ Entering(e)' /\ d # e => cmd'[d].pid # cmd'[e].pid
    BY <2>1, <2>7 DEF EntriesLive
  <2>10. EntriesLive'
    BY <1>4, <2>4, <2>8, <2>9 DEF EntriesLive
  <2>11. FileLive'
    BY <1>4 DEF FileLive
  <2>12. QED
    BY <2>6, <2>10, <2>11
<1>8. QED
  BY <1>5, <1>6, <1>7 DEF RouterInv, NumbersHold

\* A stop removes the file, or dies before it does.
LEMMA RemoveSteps ==
  ASSUME RouterInv, NEW c \in Stoppers, Router!Remove(c) \/ Router!DieStopping(c)
  PROVE  RouterInv'
<1> USE PidFacts
<1>1. RouterTypes
  BY DEF RouterInv
<1>2. PICK pc \in {"over", "dead"} :
        /\ cmd[c].pc = "remove" /\ cmd' = [cmd EXCEPT ![c].pc = pc]
        /\ proc' = proc
        /\ LostRouter => LostRouter'
        /\ \/ /\ pc = "over" /\ pidFile' = 0
              /\ LostNumber' <=> LostNumber
              /\ ~LostRouter' => pidFile \notin Router!Routers
           \/ pc = "dead" /\ pidFile' = pidFile /\ LostNumber'
  <2>1. CASE Router!Remove(c)
    BY <2>1 DEF Router!Remove, Router!Goes, Router!Notes, Router!None, LostRouter, LostNumber
  <2>2. CASE Router!DieStopping(c)
    BY <2>2 DEF Router!DieStopping, Router!Goes, Router!Notes, LostRouter, LostNumber
  <2>3. QED
    BY <2>1, <2>2
<1>3. /\ \A x \in Commands \ {c} : cmd'[x] = cmd[x]
      /\ cmd'[c].hit = cmd[c].hit /\ cmd'[c].pid = cmd[c].pid /\ cmd'[c].pc = pc
  BY <1>1, <1>2 DEF RouterTypes, Commands
<1>4. /\ ~Entering(c) /\ ~Entering(c)' /\ ~Stopping(c)'
      /\ Router!Routers' = Router!Routers
  BY <1>2, <1>3 DEF Entering, Stopping, Router!Routers
<1>5. RouterTypes'
  <2>1. cmd' = [cmd EXCEPT ![c] = [cmd[c] EXCEPT !.pc = pc]]
    BY <1>1, <1>2 DEF RouterTypes, Commands
  <2>2. cmd' \in [Commands ->
                   [pc : {"start", "spawn", "truncate", "write", "wait", "signal", "remove", "over",
                          "dead"},
                    pid : Pids \cup {0}, hit : States \cup {"nothing"}]]
    BY <1>1, <2>1 DEF RouterTypes, Commands
  <2>3. pidFile' \in Pids \cup {0, -1}
    BY <1>1, <1>2 DEF RouterTypes
  <2>4. QED
    BY <1>1, <1>2, <1>3, <2>2, <2>3 DEF RouterTypes, Entering, Commands
<1>6. OneRouter'
  <2>1. CASE pc = "dead"
    BY <1>2, <1>3, <1>4, <2>1, OneRouterKept DEF Commands
  <2>2. CASE pc = "over"
    <3> SUFFICES ASSUME ~LostRouter' PROVE OneRouter'
      BY DEF OneRouter
    <3>1. \A d \in Starters : /\ Entering(d)' <=> Entering(d)
                              /\ Entering(d) => cmd'[d] = cmd[d]
      BY <1>3, <1>4 DEF Entering, Commands
    <3>2. ~LostRouter /\ pidFile \notin Router!Routers
      BY <1>2, <2>2
    <3>3. (\A d \in Starters : ~Entering(d)) => Router!Routers = {}
      BY <3>2 DEF RouterInv, OneRouter
    <3>4. QED
      BY <1>4, <3>1, <3>2, <3>3 DEF RouterInv, OneRouter
  <2>3. QED
    BY <2>1, <2>2
<1>7. ASSUME ~LostNumber' PROVE OneStop' /\ EntriesLive' /\ FileLive'
  <2>1. OneStop /\ EntriesLive /\ pidFile' = 0
    BY <1>2, <1>7 DEF RouterInv, NumbersHold
  <2>2. \A x \in Stoppers : /\ Stopping(x)' => Stopping(x)
                            /\ cmd'[x].hit = cmd[x].hit
                            /\ cmd'[x].pc = "signal" =>
                                 cmd'[x] = cmd[x] /\ cmd[x].pid \in Pids
    BY <1>1, <1>3, <1>4 DEF Stopping, Commands, RouterTypes
  <2>3. OneStop'
    BY <1>2, <2>1, <2>2, OneStopKept
  <2>4. \A d \in Starters : Entering(d)' =>
          Entering(d) /\ cmd'[d] = cmd[d] /\ cmd[d].pid \in Pids
    BY <1>1, <1>3, <1>4 DEF Entering, Commands, RouterTypes
  <2>5. EntriesLive'
    BY <1>2, <2>1, <2>2, <2>4 DEF EntriesLive
  <2>6. FileLive'
    BY <2>1 DEF FileLive
  <2>7. QED
    BY <2>3, <2>5, <2>6
<1>8. QED
  BY <1>5, <1>6, <1>7 DEF RouterInv, NumbersHold

\* Something happens to the processes alone.
LEMMA ProcessStep ==
  ASSUME RouterInv, proc' \in [Pids -> States], UNCHANGED <<pidFile, cmd>>,
         \A q \in Pids : proc'[q] \in Running => proc[q] \in Running,
         LostRouter => LostRouter', LostNumber => LostNumber',
         ~LostNumber' => \A q \in Pids : proc[q] \in Running => proc'[q] \in Running
  PROVE  RouterInv'
<1>1. RouterTypes
  BY DEF RouterInv
<1>2. RouterTypes'
  BY <1>1 DEF RouterTypes, Entering
<1>3. Router!Routers' \subseteq Router!Routers
  BY DEF Router!Routers, Running
<1>4. OneRouter'
  BY <1>3 DEF RouterInv, OneRouter, Entering
<1>5. NumbersHold'
  BY <1>1 DEF RouterInv, RouterTypes, NumbersHold, OneStop, EntriesLive, FileLive, Stopping,
              Removing, Entering
<1>6. QED
  BY <1>2, <1>4, <1>5 DEF RouterInv

LEMMA ProcessSteps ==
  ASSUME RouterInv, NEW p \in Pids, Router!Bind(p) \/ Router!End(p) \/ Router!Reuse(p)
  PROVE  RouterInv'
<1>1. proc \in [Pids -> States]
  BY DEF RouterInv, RouterTypes
<1>2. CASE Router!Bind(p)
  <2>1. /\ proc[p] = "router" /\ UNCHANGED <<pidFile, cmd>>
        /\ proc' = [proc EXCEPT ![p] = IF Router!RouterLive THEN "none" ELSE "serving"]
        /\ LostRouter => LostRouter'
        /\ LostNumber => LostNumber'
        /\ ~LostNumber' => ~Router!RouterLive
    BY <1>2 DEF Router!Bind, Router!Notes, LostRouter, LostNumber
  <2>2. QED
    BY <1>1, <2>1, ProcessStep DEF States, Running
<1>3. CASE Router!End(p)
  <2>1. /\ proc' = [proc EXCEPT ![p] = "none"] /\ UNCHANGED <<pidFile, cmd>>
        /\ LostRouter => LostRouter'
        /\ LostNumber => LostNumber'
        /\ ~LostNumber' => proc[p] \notin Running
    BY <1>3 DEF Router!End, Router!Notes, Router!Routers, Running, LostRouter, LostNumber
  <2>2. QED
    BY <1>1, <2>1, ProcessStep DEF States, Running
<1>4. CASE Router!Reuse(p)
  <2>1. /\ proc[p] = "none" /\ proc' = [proc EXCEPT ![p] = "other"]
        /\ UNCHANGED <<pidFile, cmd>>
        /\ LostRouter => LostRouter'
        /\ LostNumber => LostNumber'
    BY <1>4 DEF Router!Reuse, LostRouter, LostNumber
  <2>2. QED
    BY <1>1, <2>1, ProcessStep DEF States, Running
<1>5. QED
  BY <1>2, <1>3, <1>4

LEMMA RouterNext ==
  ASSUME RouterInv, Router!Next
  PROVE  RouterInv'
<1>1. ASSUME NEW c \in Starters,
             \/ Router!Check(c) \/ Router!Spawn(c) \/ Router!Truncate(c) \/ Router!WritePID(c)
             \/ Router!WaitRouter(c) \/ Router!DieStarting(c)
      PROVE  RouterInv'
  BY <1>1, CheckSteps, SpawnStep, EntrySteps
<1>2. ASSUME NEW c \in Stoppers,
             Router!Look(c) \/ Router!Signal(c) \/ Router!Remove(c) \/ Router!DieStopping(c)
      PROVE  RouterInv'
  BY <1>2, LookStep, SignalStep, RemoveSteps
<1>3. ASSUME NEW p \in Pids, Router!Bind(p) \/ Router!End(p) \/ Router!Reuse(p)
      PROVE  RouterInv'
  BY <1>3, ProcessSteps
<1>4. QED
  BY <1>1, <1>2, <1>3 DEF Router!Next

LEMMA RouterUnchanged ==
  ASSUME RouterInv, UNCHANGED routerVars
  PROVE  RouterInv'
<1>1. UNCHANGED <<proc, pidFile, cmd, why>>
  BY DEF routerVars
<1>2. RouterTypes'
  BY <1>1 DEF RouterInv, RouterTypes, Entering
<1>3. OneRouter'
  BY <1>1 DEF RouterInv, OneRouter, Entering, LostRouter, Router!Routers
<1>4. NumbersHold'
  BY <1>1 DEF RouterInv, NumbersHold, OneStop, EntriesLive, FileLive, Entering, Stopping, Removing,
              LostNumber
<1>5. QED
  BY <1>2, <1>3, <1>4 DEF RouterInv

-----------------------------------------------------------------------------
(***************************************************************************)
(* The reports of a root.                                                  *)
(***************************************************************************)
\* What qa can renew: neither the run report nor the costs nor the verdict.
Renewable == Desk!FileNames \ {"run", "cost", "verdict"}

DeskTypes ==
  /\ of \in [Desk!FileNames -> Nat]
  /\ running \in [nr : Nat, todo : Seq(Desk!ToSet(Desk!RunFiles))]
  /\ qa \in [pc : {"idle", "renew", "gap"}, calls : Nat, profile : Desk!Profiles,
             refresh : BOOLEAN, run : Nat, verdict : Nat, hard : BOOLEAN, todo : Seq(Renewable),
             calm : BOOLEAN]
  /\ report \in [there : BOOLEAN, profile : Desk!Profiles, passed : BOOLEAN, basis : SUBSET Nat,
                 calm : BOOLEAN]

\* Whoever has written its run report, its costs and its verdict has written them last.
RunFilesWritten ==
  \A f \in {"run", "cost", "verdict"} : f \notin Desk!ToSet(running.todo) => of[f] = running.nr

\* A qa that nothing disturbed works on the last run, which has written everything, ...
CalmOnLastRun ==
  qa.calm => /\ running.todo = <<>> /\ running.nr > 0
             /\ qa.run = running.nr /\ qa.verdict = running.nr

\* ... and what it has renewed is of that run.
RenewedOfRun ==
  qa.calm /\ qa.refresh /\ qa.pc = "renew" =>
    \A f \in Desk!ToSet(Desk!Renewals(qa.profile, qa.hard)) \ Desk!ToSet(qa.todo) :
      of[f] = running.nr

\* A report that nothing disturbed has nothing of an earlier run, also when qa is at work again.
CalmReport ==
  report.calm => /\ qa.calm
                 /\ report.passed => report.basis = {running.nr} /\ of["force"] = running.nr

DeskInv ==
  DeskTypes /\ RunFilesWritten /\ CalmOnLastRun /\ RenewedOfRun /\ CalmReport /\ Desk!ReadyOnOneRun

LEMMA DeskConstants ==
  /\ Judged \subseteq Desk!Profiles
  /\ Quality \in Seq(Desk!ToSet(Quality))
  /\ Desk!ToSet(Quality) \cap Desk!ToSet(Desk!RunFiles) = {}
BY RootAssumption DEF Desk!ReportsAssumption

\* A sequence holds its first element and what follows.
LEMMA HeadAndTail ==
  ASSUME NEW S, NEW s \in Seq(S), s # <<>>
  PROVE  /\ Head(s) \in S /\ Tail(s) \in Seq(S)
         /\ Desk!ToSet(s) = {Head(s)} \cup Desk!ToSet(Tail(s))
<1>1. Len(s) \in Nat \ {0} /\ DOMAIN s = 1 .. Len(s) /\ Head(s) = s[1]
  OBVIOUS
<1>2. /\ Tail(s) \in Seq(S) /\ Len(Tail(s)) = Len(s) - 1 /\ DOMAIN Tail(s) = 1 .. Len(s) - 1
      /\ \A i \in 1 .. Len(s) - 1 : Tail(s)[i] = s[i + 1]
  BY <1>1
<1>3. \A x \in Desk!ToSet(s) : x = Head(s) \/ x \in Desk!ToSet(Tail(s))
  <2> SUFFICES ASSUME NEW i \in 1 .. Len(s), i # 1 PROVE s[i] \in Desk!ToSet(Tail(s))
    BY <1>1 DEF Desk!ToSet
  <2>1. i - 1 \in 1 .. Len(s) - 1 /\ Tail(s)[i - 1] = s[i]
    BY <1>1, <1>2
  <2>2. QED
    BY <1>2, <2>1 DEF Desk!ToSet
<1>4. \A x \in Desk!ToSet(Tail(s)) : x \in Desk!ToSet(s)
  <2> SUFFICES ASSUME NEW i \in 1 .. Len(s) - 1 PROVE Tail(s)[i] \in Desk!ToSet(s)
    BY <1>2 DEF Desk!ToSet
  <2>1. i + 1 \in 1 .. Len(s) /\ Tail(s)[i] = s[i + 1]
    BY <1>1, <1>2
  <2>2. QED
    BY <1>1, <2>1 DEF Desk!ToSet
<1>5. s[1] \in S /\ s[1] \in Desk!ToSet(s)
  BY <1>1 DEF Desk!ToSet
<1>6. QED
  BY <1>1, <1>2, <1>3, <1>4, <1>5

LEMMA RunFileNames ==
  /\ Desk!RunFiles \in Seq(Desk!ToSet(Desk!RunFiles))
  /\ Desk!ToSet(Desk!RunFiles) =
       {"run", "lake", "cost", "trace", "cost-budget", "verdict", "force"}
<1>1. Desk!ToSet(Desk!RunFiles) =
        {"run", "lake", "cost", "trace", "cost-budget", "verdict", "force"}
  <2>1. DOMAIN Desk!RunFiles = 1 .. 7
    BY DEF Desk!RunFiles
  <2>2. QED
    BY <2>1 DEF Desk!RunFiles, Desk!ToSet
<1>2. QED
  BY <1>1 DEF Desk!RunFiles

\* Everything that is written is a file of the root, and qa renews what it can.
LEMMA DeskFiles ==
  /\ Desk!ToSet(Desk!RunFiles) \subseteq Desk!FileNames
  /\ {"run", "cost", "verdict", "trace", "lake", "failure", "cost-budget", "force"}
       \subseteq Desk!FileNames
  /\ {"trace", "lake", "failure", "cost-budget", "force"} \cup Desk!ToSet(Quality)
       \subseteq Renewable
BY RunFileNames, DeskConstants DEF Desk!FileNames, Renewable

LEMMA Concatenation ==
  ASSUME NEW S, NEW s \in Seq(S), NEW t \in Seq(S)
  PROVE  /\ s \o t \in Seq(S)
         /\ Desk!ToSet(s) \cup Desk!ToSet(t) \subseteq Desk!ToSet(s \o t)
<1>1. /\ Len(s) \in Nat /\ Len(t) \in Nat /\ DOMAIN s = 1 .. Len(s) /\ DOMAIN t = 1 .. Len(t)
      /\ s \o t \in Seq(S) /\ DOMAIN (s \o t) = 1 .. Len(s) + Len(t)
      /\ \A i \in 1 .. Len(s) : (s \o t)[i] = s[i]
  OBVIOUS
<1>2. \A i \in 1 .. Len(t) : (s \o t)[Len(s) + i] = t[i]
  OBVIOUS
<1>3. \A i \in 1 .. Len(s) : s[i] \in Desk!ToSet(s \o t)
  BY <1>1 DEF Desk!ToSet
<1>4. \A i \in 1 .. Len(t) : t[i] \in Desk!ToSet(s \o t)
  <2> SUFFICES ASSUME NEW i \in 1 .. Len(t) PROVE t[i] \in Desk!ToSet(s \o t)
    OBVIOUS
  <2>1. Len(s) + i \in 1 .. Len(s) + Len(t) /\ (s \o t)[Len(s) + i] = t[i]
    BY <1>1, <1>2
  <2>2. QED
    BY <1>1, <2>1 DEF Desk!ToSet
<1>5. QED
  BY <1>1, <1>3, <1>4 DEF Desk!ToSet

\* What qa renews.
LEMMA RenewalsAre ==
  ASSUME NEW profile, NEW hard \in BOOLEAN
  PROVE  LET renewed == Desk!Renewals(profile, hard) IN
         /\ renewed \in Seq(Renewable)
         /\ {"trace", "lake", "failure", "cost-budget", "force"} \subseteq Desk!ToSet(renewed)
         /\ Desk!Production(profile) /\ hard => Desk!ToSet(Quality) \subseteq Desk!ToSet(renewed)
<1> DEFINE first == <<"trace", "lake", "failure", "cost-budget">>
           more  == IF Desk!Production(profile) /\ hard THEN Quality ELSE <<>>
           last  == <<"force">>
<1>1. Desk!Renewals(profile, hard) = (first \o more) \o last
  BY DEF Desk!Renewals
<1>2. first \in Seq(Renewable) /\ last \in Seq(Renewable)
  BY DeskFiles
<1>3. more \in Seq(Renewable)
  <2>1. Quality \in Seq(Renewable) /\ <<>> \in Seq(Renewable)
    BY DeskConstants, DeskFiles
  <2>2. QED
    BY <2>1
<1>4. {"trace", "lake", "failure", "cost-budget"} \subseteq Desk!ToSet(first)
  <2>1. DOMAIN first = 1 .. 4
    OBVIOUS
  <2>2. QED
    BY <2>1 DEF Desk!ToSet
<1>5. "force" \in Desk!ToSet(last)
  BY DEF Desk!ToSet
<1>6. Desk!Production(profile) /\ hard => more = Quality
  OBVIOUS
<1> HIDE DEF first, more, last
<1>7. /\ first \o more \in Seq(Renewable)
      /\ Desk!ToSet(first) \cup Desk!ToSet(more) \subseteq Desk!ToSet(first \o more)
  BY <1>2, <1>3, Concatenation
<1>8. /\ (first \o more) \o last \in Seq(Renewable)
      /\ Desk!ToSet(first \o more) \cup Desk!ToSet(last)
           \subseteq Desk!ToSet((first \o more) \o last)
  BY <1>2, <1>7, Concatenation
<1>9. QED
  BY <1>1, <1>4, <1>5, <1>6, <1>7, <1>8

LEMMA DeskInit == Desk!Init => DeskInv
<1> SUFFICES ASSUME Desk!Init PROVE DeskInv
  OBVIOUS
<1>1. DeskTypes
  <2>1. <<>> \in Seq(Desk!ToSet(Desk!RunFiles)) /\ <<>> \in Seq(Renewable)
        /\ "alpha" \in Desk!Profiles
    BY DEF Desk!Profiles
  <2>2. QED
    BY <2>1 DEF Desk!Init, DeskTypes
<1>2. RunFilesWritten
  BY DeskFiles DEF Desk!Init, RunFilesWritten
<1>3. CalmOnLastRun /\ RenewedOfRun /\ CalmReport /\ Desk!ReadyOnOneRun
  BY DEF Desk!Init, CalmOnLastRun, RenewedOfRun, CalmReport, Desk!ReadyOnOneRun
<1>4. QED
  BY <1>1, <1>2, <1>3 DEF DeskInv

\* Whatever disturbs the desk leaves only the files a run writes last to be looked at.
LEMMA DisturbingStep ==
  ASSUME DeskInv, Desk!Disturbed, UNCHANGED claim, RunFilesWritten',
         of' \in [Desk!FileNames -> Nat],
         running' \in [nr : Nat, todo : Seq(Desk!ToSet(Desk!RunFiles))]
  PROVE  DeskInv'
<1>1. qa' = [qa EXCEPT !.calm = FALSE] /\ report' = [report EXCEPT !.calm = FALSE]
  BY DEF Desk!Disturbed
<1>2. DeskTypes'
  BY <1>1 DEF DeskInv, DeskTypes
<1>3. ~qa'.calm /\ ~report'.calm
  BY <1>1 DEF DeskInv, DeskTypes
<1>4. Desk!ReadyOnOneRun'
  BY DEF DeskInv, Desk!ReadyOnOneRun
<1>5. QED
  BY <1>2, <1>3, <1>4 DEF DeskInv, CalmOnLastRun, RenewedOfRun, CalmReport

LEMMA RunFileSteps ==
  ASSUME DeskInv, Desk!RunStart \/ Desk!RunWrite
  PROVE  DeskInv'
<1>1. CASE Desk!RunStart
  <2>1. running' = [nr |-> running.nr + 1, todo |-> Desk!RunFiles] /\ of' = of
    BY <1>1 DEF Desk!RunStart
  <2>2. running' \in [nr : Nat, todo : Seq(Desk!ToSet(Desk!RunFiles))]
    BY <2>1, RunFileNames DEF DeskInv, DeskTypes
  <2>3. RunFilesWritten'
    BY <2>1, RunFileNames DEF RunFilesWritten
  <2>4. QED
    BY <1>1, <2>1, <2>2, <2>3, DisturbingStep DEF Desk!RunStart, DeskInv, DeskTypes
<1>2. CASE Desk!RunWrite
  <2>1. /\ running.todo # <<>> /\ of' = [of EXCEPT ![Head(running.todo)] = running.nr]
        /\ running' = [running EXCEPT !.todo = Tail(running.todo)]
    BY <1>2 DEF Desk!RunWrite
  <2>2. running.nr \in Nat /\ running.todo \in Seq(Desk!ToSet(Desk!RunFiles))
    BY DEF DeskInv, DeskTypes
  <2>3. /\ Head(running.todo) \in Desk!FileNames
        /\ Tail(running.todo) \in Seq(Desk!ToSet(Desk!RunFiles))
        /\ Desk!ToSet(running.todo) = {Head(running.todo)} \cup Desk!ToSet(Tail(running.todo))
    BY <2>1, <2>2, HeadAndTail, DeskFiles
  <2>4. running'.nr = running.nr /\ running'.todo = Tail(running.todo)
    BY <2>1 DEF DeskInv, DeskTypes
  <2>5. running' \in [nr : Nat, todo : Seq(Desk!ToSet(Desk!RunFiles))]
    BY <2>1, <2>3 DEF DeskInv, DeskTypes
  <2>6. of' \in [Desk!FileNames -> Nat]
    BY <2>1, <2>2, <2>3 DEF DeskInv, DeskTypes
  <2>7. RunFilesWritten'
    <3> SUFFICES ASSUME NEW f \in {"run", "cost", "verdict"},
                        f \notin Desk!ToSet(Tail(running.todo))
                 PROVE  of'[f] = running.nr
      BY <2>4 DEF RunFilesWritten
    <3>1. CASE f = Head(running.todo)
      BY <2>1, <2>3, <3>1 DEF DeskInv, DeskTypes
    <3>2. CASE f # Head(running.todo)
      <4>1. f \notin Desk!ToSet(running.todo)
        BY <2>3, <3>2
      <4>2. of'[f] = of[f]
        BY <2>1, <3>2, DeskFiles DEF DeskInv, DeskTypes
      <4>3. QED
        BY <4>1, <4>2 DEF DeskInv, RunFilesWritten
    <3>3. QED
      BY <3>1, <3>2
  <2>8. QED
    BY <1>2, <2>5, <2>6, <2>7, DisturbingStep DEF Desk!RunWrite
<1>3. QED
  BY <1>1, <1>2

LEMMA ReportStep ==
  ASSUME DeskInv, NEW f \in {"trace", "failure", "cost-budget"} \cup Desk!ToSet(Quality),
         Desk!ReportCommand(f)
  PROVE  DeskInv'
<1>1. f \in Renewable /\ {"run", "cost", "verdict"} \subseteq Desk!FileNames
  BY DeskFiles
<1>2. /\ of' = [of EXCEPT ![f] = of["run"]] /\ running' = running /\ claim' = claim
      /\ Desk!Disturbed
  BY DEF Desk!ReportCommand
<1>3. of' \in [Desk!FileNames -> Nat] /\ \A g \in {"run", "cost", "verdict"} : of'[g] = of[g]
  BY <1>1, <1>2 DEF DeskInv, DeskTypes, Renewable
<1>4. RunFilesWritten'
  BY <1>2, <1>3 DEF DeskInv, RunFilesWritten
<1>5. QED
  BY <1>2, <1>3, <1>4, DisturbingStep DEF DeskInv, DeskTypes

LEMMA BeginStep ==
  ASSUME DeskInv, NEW profile \in Judged, NEW refresh \in BOOLEAN, NEW hard \in BOOLEAN,
         Desk!QABegin(profile, refresh, hard)
  PROVE  DeskInv'
<1> DEFINE todo == IF refresh /\ of["run"] > 0 THEN Desk!Renewals(profile, hard) ELSE <<>>
           calm == running.nr > 0 /\ running.todo = <<>>
<1>1. /\ qa' = [pc |-> "renew", calls |-> qa.calls + 1, profile |-> profile, refresh |-> refresh,
                run |-> of["run"], verdict |-> of["verdict"], hard |-> hard, todo |-> todo,
                calm |-> calm]
      /\ UNCHANGED <<of, running, report, claim>>
  BY DEF Desk!QABegin
<1>2. todo \in Seq(Renewable)
  <2>1. Desk!Renewals(profile, hard) \in Seq(Renewable) /\ <<>> \in Seq(Renewable)
    BY RenewalsAre
  <2>2. QED
    BY <2>1
<1>3. calm /\ refresh => todo = Desk!Renewals(profile, hard)
  <2>1. calm => of["run"] = running.nr
    BY DEF DeskInv, RunFilesWritten, Desk!ToSet
  <2>2. QED
    BY <2>1
<1>4. calm \in BOOLEAN
  OBVIOUS
<1> HIDE DEF todo
<1>5. /\ qa'.calm = calm /\ qa'.refresh = refresh /\ qa'.profile = profile /\ qa'.hard = hard
      /\ qa'.todo = todo /\ qa'.run = of["run"] /\ qa'.verdict = of["verdict"]
  BY <1>1
<1>6. DeskTypes'
  <2>1. of["run"] \in Nat /\ of["verdict"] \in Nat /\ profile \in Desk!Profiles
    BY DeskFiles, DeskConstants DEF DeskInv, DeskTypes
  <2>2. QED
    BY <1>1, <1>2, <1>4, <2>1 DEF DeskInv, DeskTypes
<1>7. RunFilesWritten'
  BY <1>1 DEF DeskInv, RunFilesWritten
<1>8. CalmOnLastRun'
  <2>1. running.todo = <<>> => of["run"] = running.nr /\ of["verdict"] = running.nr
    BY DEF DeskInv, RunFilesWritten, Desk!ToSet
  <2>2. QED
    BY <1>1, <1>5, <2>1 DEF CalmOnLastRun
<1>9. RenewedOfRun'
  BY <1>3, <1>5 DEF RenewedOfRun
<1>10. CalmReport'
  BY <1>1, <1>5 DEF DeskInv, CalmReport, CalmOnLastRun
<1>11. Desk!ReadyOnOneRun'
  BY <1>1 DEF DeskInv, Desk!ReadyOnOneRun
<1>12. QED
  BY <1>6, <1>7, <1>8, <1>9, <1>10, <1>11 DEF DeskInv

LEMMA RenewStep ==
  ASSUME DeskInv, Desk!QARenew
  PROVE  DeskInv'
<1> DEFINE f  == Head(qa.todo)
           nr == IF f \in {"lake", "failure", "force"} THEN qa.run ELSE of["run"]
<1>1. /\ qa.pc = "renew" /\ qa.todo # <<>> /\ of' = [of EXCEPT ![f] = nr]
      /\ qa' = [qa EXCEPT !.todo = Tail(qa.todo)] /\ UNCHANGED <<running, report, claim>>
  BY DEF Desk!QARenew
<1>2. /\ f \in Renewable /\ Tail(qa.todo) \in Seq(Renewable)
      /\ Desk!ToSet(qa.todo) = {f} \cup Desk!ToSet(Tail(qa.todo))
  BY <1>1, HeadAndTail DEF DeskInv, DeskTypes
<1>3. nr \in Nat
  BY DeskFiles DEF DeskInv, DeskTypes
<1>4. qa.calm => nr = running.nr
  BY DEF DeskInv, CalmOnLastRun, RunFilesWritten, Desk!ToSet
<1> HIDE DEF f, nr
<1>5. /\ qa'.calm = qa.calm /\ qa'.run = qa.run /\ qa'.verdict = qa.verdict /\ qa'.pc = qa.pc
      /\ qa'.refresh = qa.refresh /\ qa'.profile = qa.profile /\ qa'.hard = qa.hard
      /\ qa'.todo = Tail(qa.todo)
  BY <1>1 DEF DeskInv, DeskTypes
<1>6. DeskTypes'
  BY <1>1, <1>2, <1>3 DEF DeskInv, DeskTypes
<1>7. \A g \in Desk!FileNames : of'[g] = IF g = f THEN nr ELSE of[g]
  BY <1>1 DEF DeskInv, DeskTypes
<1>8. RunFilesWritten'
  BY <1>1, <1>2, <1>7, DeskFiles DEF DeskInv, RunFilesWritten, Renewable
<1>9. CalmOnLastRun'
  BY <1>1, <1>5 DEF DeskInv, CalmOnLastRun
<1>10. RenewedOfRun'
  <2> SUFFICES ASSUME qa.calm, qa.refresh,
                      NEW g \in Desk!ToSet(Desk!Renewals(qa.profile, qa.hard)),
                      g \notin Desk!ToSet(Tail(qa.todo))
               PROVE  of'[g] = running.nr
    BY <1>1, <1>5 DEF RenewedOfRun
  <2>1. g \in Desk!FileNames
    <3>1. Desk!Renewals(qa.profile, qa.hard) \in Seq(Renewable)
      BY RenewalsAre DEF DeskInv, DeskTypes
    <3>2. QED
      BY <3>1 DEF Desk!ToSet, Renewable
  <2>2. g # f => of[g] = running.nr
    BY <1>1, <1>2 DEF DeskInv, RenewedOfRun
  <2>3. QED
    BY <1>4, <1>7, <2>1, <2>2
<1>11. CalmReport'
  BY <1>1, <1>4, <1>5, <1>7, DeskFiles DEF DeskInv, CalmReport
<1>12. Desk!ReadyOnOneRun'
  BY <1>1 DEF DeskInv, Desk!ReadyOnOneRun
<1>13. QED
  BY <1>6, <1>8, <1>9, <1>10, <1>11, <1>12 DEF DeskInv

\* What a calm qa that renewed the reports judges, and passes, is of the last run.
LEMMA BasisOfLastRun ==
  ASSUME DeskInv, qa.pc = "renew", qa.todo = <<>>, qa.calm, qa.refresh,
         Desk!Production(qa.profile) => qa.hard
  PROVE  Desk!Basis = {running.nr} /\ of["force"] = running.nr
<1>1. /\ qa.run = running.nr /\ qa.verdict = running.nr /\ running.todo = <<>>
      /\ qa.hard \in BOOLEAN
  BY DEF DeskInv, DeskTypes, CalmOnLastRun
<1>2. of["cost"] = running.nr
  BY <1>1 DEF DeskInv, RunFilesWritten, Desk!ToSet
<1>3. \A f \in Desk!ToSet(Desk!Renewals(qa.profile, qa.hard)) : of[f] = running.nr
  BY DEF DeskInv, RenewedOfRun, Desk!ToSet
<1>4. \A f \in {"trace", "lake", "failure", "cost-budget", "force"} : of[f] = running.nr
  BY <1>1, <1>3, RenewalsAre
<1>5. Desk!Production(qa.profile) => \A f \in Desk!ToSet(Quality) : of[f] = running.nr
  BY <1>1, <1>3, RenewalsAre
<1>6. \A f \in Desk!GateFiles(qa.profile) : of[f] = running.nr
  BY <1>2, <1>4, <1>5 DEF Desk!GateFiles
<1>7. QED
  BY <1>1, <1>4, <1>6 DEF Desk!Basis

LEMMA JudgeStep ==
  ASSUME DeskInv, NEW passed \in BOOLEAN, Desk!QAJudge(passed)
  PROVE  DeskInv'
<1> DEFINE pc == IF Desk!Production(qa.profile) THEN "gap" ELSE "idle"
<1>1. /\ qa.pc = "renew" /\ qa.todo = <<>> /\ UNCHANGED <<of, running, claim>>
      /\ passed => (Desk!Production(qa.profile) => qa.hard)
      /\ report' = [there |-> TRUE, profile |-> qa.profile, passed |-> passed,
                    basis |-> Desk!Basis, calm |-> qa.calm /\ qa.refresh]
      /\ qa' = [qa EXCEPT !.pc = pc]
  BY DEF Desk!QAJudge
<1>2. pc \in {"idle", "gap"}
  OBVIOUS
<1> HIDE DEF pc
<1>3. Desk!Basis \subseteq Nat
  <2>1. Desk!GateFiles(qa.profile) \subseteq Desk!FileNames
    BY DeskFiles DEF Desk!GateFiles, Renewable
  <2>2. QED
    BY <2>1 DEF Desk!Basis, DeskInv, DeskTypes
<1>4. DeskTypes'
  BY <1>1, <1>2, <1>3 DEF DeskInv, DeskTypes
<1>5. /\ qa'.calm = qa.calm /\ qa'.run = qa.run /\ qa'.verdict = qa.verdict
      /\ qa'.pc \in {"idle", "gap"}
  BY <1>1, <1>2 DEF DeskInv, DeskTypes
<1>6. RunFilesWritten' /\ CalmOnLastRun' /\ RenewedOfRun' /\ Desk!ReadyOnOneRun'
  BY <1>1, <1>5 DEF DeskInv, RunFilesWritten, CalmOnLastRun, RenewedOfRun, Desk!ReadyOnOneRun
<1>7. CalmReport'
  BY <1>1, <1>5, BasisOfLastRun DEF CalmReport
<1>8. QED
  BY <1>4, <1>6, <1>7 DEF DeskInv

\* What is claimed rests on the report and the force score.
LEMMA ClaimSteps ==
  ASSUME DeskInv, Desk!QAGap \/ Desk!GapCommand
  PROVE  DeskInv'
<1>1. /\ Desk!Claims /\ UNCHANGED <<of, running, report>>
      /\ qa' = [qa EXCEPT !.pc = "idle"] \/ qa' = qa
  BY DEF Desk!QAGap, Desk!GapCommand
<1>2. DeskTypes'
  BY <1>1 DEF DeskInv, DeskTypes
<1>3. /\ qa'.calm = qa.calm /\ qa'.run = qa.run /\ qa'.verdict = qa.verdict
      /\ qa'.pc = "renew" => qa' = qa
  BY <1>1 DEF DeskInv, DeskTypes
<1>4. RunFilesWritten' /\ CalmOnLastRun' /\ RenewedOfRun' /\ CalmReport'
  BY <1>1, <1>3 DEF DeskInv, RunFilesWritten, CalmOnLastRun, RenewedOfRun, CalmReport
<1>5. Desk!ReadyOnOneRun'
  <2>1. report.calm => of["run"] = running.nr
    BY DEF DeskInv, CalmReport, CalmOnLastRun, RunFilesWritten, Desk!ToSet
  <2>2. /\ claim'.ready => report.passed
        /\ claim'.basis = report.basis \cup {of["force"]} /\ claim'.run = of["run"]
        /\ claim'.calm = report.calm
    BY <1>1 DEF Desk!Claims
  <2>3. QED
    BY <2>1, <2>2 DEF DeskInv, CalmReport, Desk!ReadyOnOneRun
<1>6. QED
  BY <1>2, <1>4, <1>5 DEF DeskInv

LEMMA DeskNext ==
  ASSUME DeskInv, Desk!Next
  PROVE  DeskInv'
BY RunFileSteps, ReportStep, BeginStep, RenewStep, JudgeStep, ClaimSteps DEF Desk!Next

LEMMA DeskUnchanged ==
  ASSUME DeskInv, UNCHANGED <<of, running, qa, report, claim>>
  PROVE  DeskInv'
<1>1. DeskTypes' /\ RunFilesWritten' /\ CalmOnLastRun' /\ RenewedOfRun'
  BY DEF DeskInv, DeskTypes, RunFilesWritten, CalmOnLastRun, RenewedOfRun
<1>2. CalmReport' /\ Desk!ReadyOnOneRun'
  BY DEF DeskInv, CalmReport, Desk!ReadyOnOneRun
<1>3. QED
  BY <1>1, <1>2 DEF DeskInv

-----------------------------------------------------------------------------
(***************************************************************************)
(* The root.                                                               *)
(***************************************************************************)
RootInv ==
  /\ scenario = "snapshots" => SnapshotsInv /\ GrowInv
  /\ scenario = "health" => HealthInv /\ RouteInv
  /\ scenario = "router" => RouterInv
  /\ scenario = "desk" => DeskInv

LEMMA RootInit == Init => RootInv
BY SnapshotsInit, GrowInit, HealthInit, RouteInit, RouterInit, DeskInit DEF Init, RootInv

LEMMA RootNext == RootInv /\ [Next]_vars => RootInv'
<1> SUFFICES ASSUME RootInv, [Next]_vars PROVE RootInv'
  OBVIOUS
<1>1. CASE SnapshotsStep
  BY <1>1, SnapshotsNext, GrowNext DEF SnapshotsStep, RootInv
<1>2. CASE HealthStep
  BY <1>2, HealthNext, RouteNext DEF HealthStep, RootInv
<1>3. CASE RouterStep
  BY <1>3, RouterNext DEF RouterStep, RootInv
<1>4. CASE DeskStep
  BY <1>4, DeskNext DEF DeskStep, RootInv
<1>5. CASE UNCHANGED vars
  <2>1. UNCHANGED <<scenario, snapshotsVars, healthVars, routerVars, deskVars>>
    BY <1>5 DEF vars
  <2>2. scenario = "snapshots" => (SnapshotsInv /\ GrowInv)'
    <3>1. GrowInv => ArchivesWhole'
      BY <2>1 DEF snapshotsVars, GrowInv, ArchivesWhole
    <3>2. QED
      BY <2>1, <3>1, SnapshotsUnchanged, GrowUnchanged DEF RootInv, snapshotsVars
  <2>3. scenario = "desk" => DeskInv'
    BY <2>1, DeskUnchanged DEF RootInv, deskVars
  <2>4. QED
    BY <2>1, <2>2, <2>3, HealthUnchanged, RouteUnchanged, RouterUnchanged DEF RootInv, healthVars
<1>6. QED
  BY <1>1, <1>2, <1>3, <1>4, <1>5 DEF Next

LEMMA RootInvariant == Spec => []RootInv
BY RootInit, RootNext, PTL DEF Spec

\* For any script and any number of regrowths: the manifest and the branch's metadata name the
\* archive that is there, except while one is put in place or after a death there
\* (checkpoint.go:134).
THEOREM SnapshotsAlwaysAgree == Spec => []SnapshotsAgree
<1>1. RootInv => SnapshotsAgree
  BY DEF RootInv, SnapshotsInv, SnapshotsAgree
<1>2. QED
  BY <1>1, RootInvariant, PTL

\* For any files, number of regrowths and rooms: a room reported as prepared holds all of its
\* archive and was left behind by no other regrowth, and two regrowths have one room only if both
\* looked for it before either made it (main.go:2160).
THEOREM SeedsAlwaysWhole == Spec => []SeedsWhole
<1>1. RootInv => SeedsWhole
  BY SeedsFollow DEF RootInv, SeedsWhole
<1>2. QED
  BY <1>1, RootInvariant, PTL

\* For any number of runs and any default routes: without two updates at a time build_health.json
\* counts every position of the runs that came to their end, and each once (build_health.go:63).
THEOREM HistoryAlwaysExact == Spec => []HistoryExact
<1>1. RootInv => HistoryExact
  BY DEF RootInv, HealthInv, UpdatesApart, HistoryExact, Health!HistoryExact, Observed
<1>2. QED
  BY <1>1, RootInvariant, PTL

\* For any number of runs, any default routes, lists to probe and names: a run behind the gate gives
\* its agents only routes that answered its own probe, and only the one it was told to use if there
\* is one; it builds on none that did not build in two attempts it knows of, except that one, and
\* except under a name to which its children shorten a route (main.go:203, 215, 5738;
\* build_health.go:128; langchain_runner.py:862).
THEOREM GatedRunsAlwaysAvoidBlocked == Spec => []GatedRunsAvoidBlocked
<1>1. RootInv => GatedRunsAvoidBlocked
  BY RoutesAvoidBlocked DEF RootInv, GatedRunsAvoidBlocked
<1>2. QED
  BY <1>1, RootInvariant, PTL

\* For any number of runs, default routes and age of a probe: the planning gate refuses a run that
\* has just found a healthy route only if the probe grew old or another process wrote the probes
\* in between (planning.go:318, main.go:211, 1041).
THEOREM RefusalsAlwaysExplained == Spec => []RefusalsExplained
<1>1. RootInv => RefusalsExplained
  BY RoutesExplained DEF RootInv, RefusalsExplained
<1>2. QED
  BY <1>1, RootInvariant, PTL

\* For any number of deploys, stops and process numbers: between commands every router that runs
\* is the one on file, unless one of three things happened (main.go:1460, 1506, 5138).
THEOREM RoutersAlwaysOnFile == Spec => []RoutersOnFile
<1>1. RootInv => RoutersOnFile
  <2> SUFFICES ASSUME RouterInv, Starters \subseteq DOMAIN cmd PROVE Router!RoutersOnFile
    BY DEF RootInv, RoutersOnFile, RouterInv, RouterTypes
  <2>1. (\A c \in DOMAIN cmd : cmd[c].pc \in {"start", "spawn", "wait", "over", "dead"}) =>
          \A d \in Starters : ~Entering(d)
    BY DEF Entering
  <2>2. QED
    BY <2>1 DEF RouterInv, OneRouter, LostRouter, Router!RoutersOnFile
<1>2. QED
  BY <1>1, RootInvariant, PTL

\* For any number of deploys, stops and process numbers: a stop signals a process that is no
\* router only after a router ended by itself, two stops at a time or a stop that died
\* (main.go:1502, 5189).
THEOREM StrangersAlwaysExplained == Spec => []StrangersExplained
<1>1. RootInv => StrangersExplained
  BY DEF RootInv, RouterInv, NumbersHold, OneStop, LostNumber, StrangersExplained,
         Router!StrangersExplained
<1>2. QED
  BY <1>1, RootInvariant, PTL

\* For any quality reports and any number of runs, commands and judgements: a root is called ready
\* for production on the evidence of one run, the one on file, if that run was complete when a
\* refreshing qa began and nothing else wrote since (main.go:4406-4797).
THEOREM AlwaysReadyOnOneRun == Spec => []ReadyOnOneRun
<1>1. RootInv => ReadyOnOneRun
  BY DEF RootInv, DeskInv, ReadyOnOneRun
<1>2. QED
  BY <1>1, RootInvariant, PTL
=============================================================================
