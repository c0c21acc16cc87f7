--------------------------- MODULE LakeCache_proof ---------------------------
(***************************************************************************)
(* Proofs about LakeCache for every finite set of items and every set of   *)
(* writers, rooms and maintenance runs.                                    *)
(***************************************************************************)
EXTENDS LakeCache, CacheRanking_proof

LEMMA ItemsDirectory == Directory(Items)
BY ItemsAssumption DEF Directory

LEMMA ListerFacts ==
  /\ \A r \in Readers : r \in Listers /\ r \notin Maintainers
  /\ \A m \in Maintainers : m \in Listers /\ m \notin Readers
BY ListersAssumption DEF Listers

-----------------------------------------------------------------------------
\* A reason to retire an item stays one: time goes on and files land.
LEMMA JustifiedPersists ==
  ASSUME clock \in Nat, clock' \in Nat, clock <= clock', Landed \subseteq Landed',
         NEW i \in Items, Justified(i)
  PROVE  Justified(i)'
<1>1. CASE Prunable(i, clock)
  <2>1. i.created \in Nat BY ItemsAssumption
  <2>2. Prunable(i, clock')
    BY <1>1, <2>1, PolicyAssumption DEF Prunable, LowConfidence, Stale
  <2>3. QED BY <2>2 DEF Justified
<1>2. CASE \E j \in Landed : Beats(j, i)
  BY <1>2 DEF Justified
<1>3. QED BY <1>1, <1>2 DEF Justified

\* What a step leaves as it was, or only lets grow: plans, moves and views stand.
LEMMA JudgementsStand ==
  ASSUME Inductive, clock' \in Nat, clock <= clock', Landed \subseteq Landed',
         UNCHANGED <<upkeep, view>>, Quarantined' = Quarantined
  PROVE  PlansJustified' /\ RetirementsJustified' /\ MovesReportedOnce' /\ ViewsClean'
<1>1. clock \in Nat /\ TypeOK BY DEF Inductive, TypeOK
<1>2. \A i \in Items : Justified(i) => Justified(i)'
  BY <1>1, JustifiedPersists
<1>3. now' = now /\ plan' = plan /\ moved' = moved /\ view' = view
  BY DEF upkeep
<1>4. PlansJustified'
  <2> SUFFICES ASSUME NEW m \in Maintainers
               PROVE  /\ now[m] <= clock'
                      /\ \A i \in plan[m] : i \in Landed' /\ Justified(i)'
    BY <1>3 DEF PlansJustified
  <2>1. now[m] <= clock /\ now[m] \in Nat /\ plan[m] \subseteq Items
    BY <1>1 DEF Inductive, PlansJustified, TypeOK
  <2>2. now[m] <= clock' BY <2>1, <1>1
  <2>3. \A i \in plan[m] : i \in Landed /\ Justified(i)
    BY DEF Inductive, PlansJustified
  <2>4. QED BY <1>2, <2>1, <2>2, <2>3
<1>5. RetirementsJustified'
  <2>1. \A i \in Quarantined : i \in Items /\ Justified(i)
    BY DEF Inductive, RetirementsJustified, Quarantined
  <2>2. QED BY <1>2, <2>1 DEF RetirementsJustified
<1>6. MovesReportedOnce'
  BY <1>3 DEF Inductive, MovesReportedOnce
<1>7. ViewsClean'
  BY <1>3 DEF Inductive, ViewsClean
<1>8. QED BY <1>4, <1>5, <1>6, <1>7

\* Steps that touch neither the directory nor the clock.
LEMMA DirectoryStands ==
  ASSUME UNCHANGED <<clock, file>>
  PROVE  /\ Landed' = Landed /\ Quarantined' = Quarantined /\ Present' = Present
         /\ clock' = clock /\ \A i : Justified(i)' <=> Justified(i)
<1>1. Landed' = Landed /\ Quarantined' = Quarantined /\ Present' = Present /\ clock' = clock
  BY DEF Landed, Quarantined, Present
<1>2. \A i : Justified(i)' <=> Justified(i)
  BY <1>1 DEF Justified
<1>3. QED BY <1>1, <1>2

-----------------------------------------------------------------------------
LEMMA InitHolds == Init => Inductive
<1> SUFFICES ASSUME Init PROVE Inductive
  OBVIOUS
<1>1. TypeOK BY DEF Init, TypeOK
<1>2. Landed = {} /\ Quarantined = {} BY DEF Init, Landed, Quarantined
<1>3. WritesApart BY DEF Init, WritesApart
<1>4. ListingsSound BY DEF Init, ListingsSound
<1>5. PlansJustified BY DEF Init, PlansJustified
<1>6. RetirementsJustified BY <1>2 DEF RetirementsJustified
<1>7. MovesReportedOnce BY <1>2 DEF Init, MovesReportedOnce
<1>8. ViewsClean
  <2>1. \A r \in Readers : view[r] = {} BY DEF Init
  <2>2. Cardinality({}) = 0 BY FS_EmptySet
  <2>3. QED BY <2>1, <2>2, BoundsAssumption DEF ViewsClean
<1>9. QED BY <1>1, <1>3, <1>4, <1>5, <1>6, <1>7, <1>8 DEF Inductive

\* Time passes.
LEMMA TickStep ==
  ASSUME Inductive, Tick PROVE Inductive'
<1>1. clock \in Nat /\ clock' = clock + 1 /\ UNCHANGED <<writers, listing, upkeep, view>>
  BY DEF Inductive, TypeOK, Tick
<1>2. Landed' = Landed /\ Quarantined' = Quarantined
  BY <1>1 DEF writers, Landed, Quarantined
<1>3. TypeOK'
  BY <1>1 DEF Inductive, TypeOK, writers, listing, upkeep
<1>4. WritesApart' /\ ListingsSound'
  BY <1>1, <1>2 DEF Inductive, WritesApart, ListingsSound, writers, listing
<1>5. PlansJustified' /\ RetirementsJustified' /\ MovesReportedOnce' /\ ViewsClean'
  BY <1>1, <1>2, JudgementsStand
<1>6. QED BY <1>3, <1>4, <1>5 DEF Inductive

\* A file is created, written or left torn.
LEMMA WriterHolds ==
  ASSUME Inductive, NEW w \in Writers, WriterStep(w) PROVE Inductive'
<1>0. TypeOK /\ WritesApart /\ ListingsSound /\ None \notin Items
  BY ItemsAssumption DEF Inductive
<1>1. CASE \E i \in Items : PutCreate(w, i)
  <2>1. PICK i \in Items : PutCreate(w, i) BY <1>1
  <2>2. TypeOK' BY <1>0, <2>1 DEF TypeOK, PutCreate, listing, upkeep
  <2>3. Landed' = Landed /\ Quarantined' = Quarantined
    BY <1>0, <2>1 DEF PutCreate, Landed, Quarantined, TypeOK
  <2>4. WritesApart'
    <3>1. \A v \in Writers : writing[v] # i
      BY <1>0, <2>1 DEF PutCreate, WritesApart
    <3>2. \A v \in Writers : writing'[v] = IF v = w THEN i ELSE writing[v]
      BY <1>0, <2>1 DEF PutCreate, TypeOK
    <3>3. \A j \in Items : file'[j] = IF j = i THEN "partial" ELSE file[j]
      BY <1>0, <2>1 DEF PutCreate, TypeOK
    <3>4. \A v \in Writers : writing[v] \in Items \cup {None}
      BY <1>0 DEF TypeOK
    <3>5. writing[w] = None BY <2>1 DEF PutCreate
    <3> SUFFICES ASSUME NEW v \in Writers, writing'[v] # None
                 PROVE  /\ file'[writing'[v]] = "partial"
                        /\ \A u \in Writers : writing'[u] = writing'[v] => u = v
      BY DEF WritesApart
    <3>6. CASE v = w BY <3>1, <3>2, <3>3, <3>6
    <3>7. CASE v # w
      <4>1. writing'[v] = writing[v] /\ writing[v] \in Items BY <3>2, <3>4, <3>7
      <4>2. file[writing[v]] = "partial" BY <1>0, <4>1 DEF WritesApart
      <4>3. file'[writing'[v]] = "partial" BY <3>3, <4>1, <4>2
      <4>4. \A u \in Writers : writing'[u] = writing'[v] => u = v
        BY <1>0, <3>1, <3>2, <4>1 DEF WritesApart
      <4>5. QED BY <4>3, <4>4
    <3>8. QED BY <3>6, <3>7
  <2>5. ListingsSound'
    <3>1. UNCHANGED listing BY <2>1 DEF PutCreate
    <3>2. {j \in Items : file'[j] = "absent"} \subseteq {j \in Items : file[j] = "absent"}
      BY <1>0, <2>1 DEF PutCreate, TypeOK
    <3>3. QED BY <1>0, <2>3, <3>1, <3>2 DEF ListingsSound, listing
  <2>6. PlansJustified' /\ RetirementsJustified' /\ MovesReportedOnce' /\ ViewsClean'
    BY <1>0, <2>1, <2>3, JudgementsStand DEF PutCreate, TypeOK
  <2>7. QED BY <2>2, <2>4, <2>5, <2>6 DEF Inductive
<1>2. CASE PutFill(w)
  <2>1. writing[w] \in Items /\ file[writing[w]] = "partial"
    BY <1>0, <1>2 DEF PutFill, TypeOK, WritesApart
  <2>2. TypeOK' BY <1>0, <1>2, <2>1 DEF TypeOK, PutFill, listing, upkeep
  <2>3. Landed \subseteq Landed' /\ Quarantined' = Quarantined
    BY <1>0, <1>2, <2>1 DEF PutFill, Landed, Quarantined, TypeOK
  <2>4. WritesApart'
    <3>1. \A v \in Writers : writing'[v] = IF v = w THEN None ELSE writing[v]
      BY <1>0, <1>2 DEF PutFill, TypeOK
    <3>2. \A j \in Items : file'[j] = IF j = writing[w] THEN "complete" ELSE file[j]
      BY <1>0, <1>2 DEF PutFill, TypeOK
    <3>3. writing[w] # None BY <1>2 DEF PutFill
    <3> SUFFICES ASSUME NEW v \in Writers, writing'[v] # None
                 PROVE  /\ file'[writing'[v]] = "partial"
                        /\ \A u \in Writers : writing'[u] = writing'[v] => u = v
      BY DEF WritesApart
    <3>4. v # w /\ writing'[v] = writing[v] BY <3>1
    <3>5. writing[v] # writing[w] BY <1>0, <3>3, <3>4 DEF WritesApart
    <3>6. writing[v] \in Items BY <1>0, <3>4 DEF TypeOK
    <3>7. file[writing[v]] = "partial" BY <1>0, <3>4 DEF WritesApart
    <3>8. file'[writing'[v]] = "partial" BY <3>2, <3>4, <3>5, <3>6, <3>7
    <3>9. \A u \in Writers : writing'[u] = writing'[v] => u = v
      BY <1>0, <3>1, <3>4 DEF WritesApart
    <3>10. QED BY <3>8, <3>9
  <2>5. ListingsSound'
    <3>1. UNCHANGED listing BY <1>2 DEF PutFill
    <3>2. {j \in Items : file'[j] = "absent"} \subseteq {j \in Items : file[j] = "absent"}
      BY <1>0, <1>2, <2>1 DEF PutFill, TypeOK
    <3>3. QED BY <1>0, <2>3, <3>1, <3>2 DEF ListingsSound, listing
  <2>6. PlansJustified' /\ RetirementsJustified' /\ MovesReportedOnce' /\ ViewsClean'
    BY <1>0, <1>2, <2>3, JudgementsStand DEF PutFill, TypeOK
  <2>7. QED BY <2>2, <2>4, <2>5, <2>6 DEF Inductive
<1>3. CASE PutTear(w)
  <2>1. TypeOK' BY <1>0, <1>3 DEF TypeOK, PutTear, listing, upkeep
  <2>2. WritesApart'
    <3>1. \A v \in Writers : writing'[v] = IF v = w THEN None ELSE writing[v]
      BY <1>0, <1>3 DEF PutTear, TypeOK
    <3>2. QED BY <1>0, <1>3, <3>1 DEF PutTear, WritesApart
  <2>3. Landed' = Landed /\ Quarantined' = Quarantined /\ clock' = clock
    BY <1>3, DirectoryStands DEF PutTear
  <2>4. ListingsSound'
    BY <1>0, <1>3, <2>3 DEF PutTear, ListingsSound, listing
  <2>5. PlansJustified' /\ RetirementsJustified' /\ MovesReportedOnce' /\ ViewsClean'
    BY <1>0, <1>3, <2>3, JudgementsStand DEF PutTear, TypeOK
  <2>6. QED BY <2>1, <2>2, <2>4, <2>5 DEF Inductive
<1>4. QED BY <1>1, <1>2, <1>3 DEF WriterStep

-----------------------------------------------------------------------------
\* Steps of a lister that only read leave all but the listings as they are.
LEMMA ReadOnly ==
  ASSUME Inductive, UNCHANGED <<clock, writers, upkeep, view>>,
         phase' \in [Listers -> {"idle", "ready", "listing", "moving", "done", "failed"}],
         todo' \in [Listers -> SUBSET Items], got' \in [Listers -> SUBSET Items],
         ListingsSound'
  PROVE  Inductive'
<1>1. UNCHANGED <<clock, file>> BY DEF writers
<1>2. TypeOK' BY DEF Inductive, TypeOK, writers, upkeep
<1>3. WritesApart' BY DEF Inductive, WritesApart, writers
<1>4. PlansJustified' /\ RetirementsJustified' /\ MovesReportedOnce' /\ ViewsClean'
  BY <1>1, DirectoryStands, JudgementsStand DEF Inductive, TypeOK
<1>5. QED BY <1>2, <1>3, <1>4 DEF Inductive

\* os.ReadDir.
LEMMA ListBeginHolds ==
  ASSUME Inductive, NEW p \in Listers, ListBegin(p) PROVE Inductive'
<1>1. TypeOK /\ ListingsSound BY DEF Inductive
<1>2. /\ UNCHANGED <<clock, file>> /\ Landed' = Landed
      /\ \A q \in Listers : /\ phase'[q] = IF q = p THEN "listing" ELSE phase[q]
                            /\ todo'[q] = IF q = p THEN Present ELSE todo[q]
                            /\ got'[q] = IF q = p THEN {} ELSE got[q]
  BY <1>1, DirectoryStands DEF ListBegin, writers, TypeOK
<1>3. Present \cap {i \in Items : file[i] = "absent"} = {} BY DEF Present
<1>4. ListingsSound' BY <1>1, <1>2, <1>3 DEF ListingsSound
<1>5. /\ phase' \in [Listers -> {"idle", "ready", "listing", "moving", "done", "failed"}]
      /\ todo' \in [Listers -> SUBSET Items] /\ got' \in [Listers -> SUBSET Items]
  BY <1>1 DEF ListBegin, TypeOK, Present
<1>6. QED BY <1>4, <1>5, ReadOnly DEF ListBegin

\* One file is read.
LEMMA ListReadHolds ==
  ASSUME Inductive, NEW p \in Listers, ListRead(p) PROVE Inductive'
<1>1. TypeOK /\ ListingsSound BY DEF Inductive
<1>2. PICK i \in todo[p] :
        /\ file[i] = "complete"
        /\ got' = [got EXCEPT ![p] = @ \cup {i}]
        /\ todo' = [todo EXCEPT ![p] = @ \ {i}]
  BY DEF ListRead
<1>3. i \in Items /\ i \in Landed BY <1>1, <1>2 DEF TypeOK, Landed
<1>4. /\ UNCHANGED <<clock, file, phase>> /\ Landed' = Landed /\ phase[p] = "listing"
      /\ \A q \in Listers : /\ todo'[q] = IF q = p THEN todo[q] \ {i} ELSE todo[q]
                            /\ got'[q] = IF q = p THEN got[q] \cup {i} ELSE got[q]
  BY <1>1, <1>2, DirectoryStands DEF ListRead, writers, TypeOK
<1>5. ListingsSound'
  <2> SUFFICES ASSUME NEW q \in Listers
               PROVE  /\ todo'[q] \cap {j \in Items : file'[j] = "absent"} = {}
                      /\ got'[q] \subseteq Landed'
                      /\ phase'[q] # "listing" => todo'[q] = {} /\ got'[q] = {}
    BY DEF ListingsSound
  <2>1. /\ todo'[q] \subseteq todo[q] /\ got'[q] \subseteq got[q] \cup {i}
        /\ q # p => todo'[q] = todo[q] /\ got'[q] = got[q]
        /\ file' = file /\ phase' = phase /\ Landed' = Landed /\ phase[p] = "listing"
    BY <1>4
  <2>2. /\ todo[q] \cap {j \in Items : file[j] = "absent"} = {} /\ got[q] \subseteq Landed
        /\ phase[q] # "listing" => todo[q] = {} /\ got[q] = {}
    BY <1>1 DEF ListingsSound
  <2> QED
    BY <1>3, <2>1, <2>2
<1>6. /\ phase' \in [Listers -> {"idle", "ready", "listing", "moving", "done", "failed"}]
      /\ todo' \in [Listers -> SUBSET Items] /\ got' \in [Listers -> SUBSET Items]
  BY <1>1, <1>2, <1>3, <1>4 DEF TypeOK
<1>7. QED BY <1>5, <1>6, ReadOnly DEF ListRead

\* A file that cannot be read ends the listing.
LEMMA ListFailHolds ==
  ASSUME Inductive, NEW p \in Listers, ListFail(p) PROVE Inductive'
<1>1. TypeOK /\ ListingsSound BY DEF Inductive
<1>2. /\ UNCHANGED <<clock, file>> /\ Landed' = Landed
      /\ \A q \in Listers : /\ q # p => phase'[q] = phase[q]
                            /\ todo'[q] = IF q = p THEN {} ELSE todo[q]
                            /\ got'[q] = IF q = p THEN {} ELSE got[q]
  BY <1>1, DirectoryStands DEF ListFail, writers, TypeOK
<1>3. ListingsSound' BY <1>1, <1>2 DEF ListingsSound
<1>4. /\ phase' \in [Listers -> {"idle", "ready", "listing", "moving", "done", "failed"}]
      /\ todo' \in [Listers -> SUBSET Items] /\ got' \in [Listers -> SUBSET Items]
  BY <1>1 DEF ListFail, TypeOK
<1>5. QED BY <1>3, <1>4, ReadOnly DEF ListFail

\* A run of maintenance begins, fails or ends.
LEMMA PhaseOnly ==
  ASSUME Inductive, NEW m \in Maintainers,
         NEW x \in {"ready", "done", "failed"}, phase[m] # "listing",
         phase' = [phase EXCEPT ![m] = x],
         UNCHANGED <<clock, writers, todo, got, plan, moved, view>>,
         now' \in [Maintainers -> Nat], \A n \in Maintainers : now'[n] <= clock
  PROVE  Inductive'
<1>1. TypeOK /\ ListingsSound /\ m \in Listers BY ListerFacts DEF Inductive
<1>2. UNCHANGED <<clock, file>> /\ Landed' = Landed /\ Quarantined' = Quarantined
      /\ \A i : Justified(i)' <=> Justified(i)
  BY DirectoryStands DEF writers
<1>3. TypeOK' BY <1>1 DEF TypeOK, writers
<1>4. WritesApart' BY DEF Inductive, WritesApart, writers
<1>5. \A q \in Listers : phase'[q] = IF q = m THEN x ELSE phase[q]
  BY <1>1 DEF TypeOK
<1>6. ListingsSound' BY <1>1, <1>2, <1>5 DEF ListingsSound
<1>7. PlansJustified' BY <1>2 DEF Inductive, PlansJustified
<1>8. RetirementsJustified' BY <1>2 DEF Inductive, RetirementsJustified
<1>9. MovesReportedOnce' BY <1>2 DEF Inductive, MovesReportedOnce
<1>10. ViewsClean' BY <1>2 DEF Inductive, ViewsClean
<1>11. QED BY <1>3, <1>4, <1>6, <1>7, <1>8, <1>9, <1>10 DEF Inductive

\* The moves of a run are chosen: each candidate has a reason.
LEMMA PlanMovesHolds ==
  ASSUME Inductive, NEW m \in Maintainers, PlanMoves(m) PROVE Inductive'
<1>1. TypeOK /\ ListingsSound /\ PlansJustified /\ m \in Listers
  BY ListerFacts DEF Inductive
<1>2. UNCHANGED <<clock, file>> /\ Landed' = Landed /\ Quarantined' = Quarantined
      /\ \A i : Justified(i)' <=> Justified(i)
  BY DirectoryStands DEF PlanMoves, writers
<1>3. /\ got[m] \subseteq Landed /\ got[m] \subseteq Items
      /\ now[m] \in Nat /\ clock \in Nat /\ now[m] <= clock
  BY <1>1 DEF ListingsSound, TypeOK, PlansJustified
<1>4. \A i \in Candidates(got[m], now[m]) : i \in Items /\ i \in Landed /\ Justified(i)
  <2> SUFFICES ASSUME NEW i \in Candidates(got[m], now[m]) PROVE Justified(i)
    BY <1>3 DEF Candidates
  <2>1. i \in got[m] /\ i \in Items /\ i.created \in Nat
    BY <1>3, ItemsAssumption DEF Candidates
  <2>2. CASE Prunable(i, now[m])
    <3>1. Prunable(i, clock)
      BY <1>3, <2>1, <2>2, PolicyAssumption DEF Prunable, LowConfidence, Stale
    <3>2. QED BY <3>1 DEF Justified
  <2>3. CASE \E j \in got[m] : Beats(j, i)
    BY <1>3, <2>3 DEF Justified
  <2>4. QED BY <2>2, <2>3 DEF Candidates
<1>5. \A n \in Maintainers :
        plan'[n] = IF n = m THEN Candidates(got[m], now[m]) ELSE plan[n]
  BY <1>1 DEF PlanMoves, TypeOK
<1>6. TypeOK'
  <2>1. Candidates(got[m], now[m]) \in SUBSET Items BY <1>4
  <2>2. QED BY <1>1, <2>1 DEF PlanMoves, TypeOK, writers
<1>7. WritesApart' BY DEF Inductive, WritesApart, PlanMoves, writers
<1>8. ListingsSound'
  <2>1. \A q \in Listers : /\ q # m => phase'[q] = phase[q]
                           /\ todo'[q] = todo[q]
                           /\ got'[q] = IF q = m THEN {} ELSE got[q]
    BY <1>1 DEF PlanMoves, TypeOK
  <2>2. todo[m] = {} BY DEF PlanMoves
  <2>3. QED BY <1>1, <1>2, <2>1, <2>2 DEF ListingsSound
<1>9. PlansJustified'
  BY <1>1, <1>2, <1>4, <1>5 DEF PlansJustified, PlanMoves
<1>10. RetirementsJustified' BY <1>2 DEF Inductive, RetirementsJustified
<1>11. MovesReportedOnce' BY <1>2 DEF Inductive, MovesReportedOnce, PlanMoves
<1>12. ViewsClean' BY <1>2 DEF Inductive, ViewsClean, PlanMoves
<1>13. QED BY <1>6, <1>7, <1>8, <1>9, <1>10, <1>11, <1>12 DEF Inductive

\* A planned file is moved: it has its reason, and no other run has moved it.
LEMMA MoveHolds ==
  ASSUME Inductive, NEW m \in Maintainers, Move(m) PROVE Inductive'
<1>1. /\ TypeOK /\ WritesApart /\ ListingsSound /\ PlansJustified
      /\ RetirementsJustified /\ MovesReportedOnce /\ ViewsClean
  BY DEF Inductive
<1>2. PICK i \in plan[m] :
        /\ file[i] = "complete"
        /\ file' = [file EXCEPT ![i] = "quarantined"]
        /\ plan' = [plan EXCEPT ![m] = @ \ {i}]
        /\ moved' = [moved EXCEPT ![m] = @ \cup {i}]
  BY DEF Move
<1>3. i \in Items /\ i \notin Quarantined /\ Justified(i)
  BY <1>1, <1>2 DEF TypeOK, Quarantined, PlansJustified
<1>4. \A j \in Items : file'[j] = IF j = i THEN "quarantined" ELSE file[j]
  BY <1>1, <1>2 DEF TypeOK
<1>5. Landed' = Landed /\ Quarantined' = Quarantined \cup {i}
  BY <1>2, <1>3, <1>4 DEF Landed, Quarantined
<1>6. UNCHANGED <<clock, writing, listing, now, view>> BY DEF Move
<1>7. \A j : Justified(j)' <=> Justified(j) BY <1>5, <1>6 DEF Justified
<1>8. \A n \in Maintainers : /\ plan'[n] = IF n = m THEN plan[n] \ {i} ELSE plan[n]
                             /\ moved'[n] = IF n = m THEN moved[n] \cup {i} ELSE moved[n]
  BY <1>1, <1>2 DEF TypeOK
<1>9. TypeOK'
  BY <1>1, <1>2, <1>3, <1>6 DEF TypeOK, listing
<1>10. WritesApart'
  <2>1. \A w \in Writers : writing[w] # None => writing[w] \in Items /\ writing[w] # i
    BY <1>1, <1>2 DEF WritesApart, TypeOK
  <2>2. QED BY <1>1, <1>4, <1>6, <2>1 DEF WritesApart
<1>11. ListingsSound'
  <2>1. {j \in Items : file'[j] = "absent"} \subseteq {j \in Items : file[j] = "absent"}
    BY <1>4
  <2>2. QED BY <1>1, <1>5, <1>6, <2>1 DEF ListingsSound, listing
<1>12. PlansJustified'
  BY <1>1, <1>5, <1>6, <1>7, <1>8 DEF PlansJustified
<1>13. RetirementsJustified'
  BY <1>1, <1>3, <1>5, <1>7 DEF RetirementsJustified
<1>14. MovesReportedOnce'
  <2>1. \A n \in Maintainers : i \notin moved[n]
    BY <1>1, <1>3 DEF MovesReportedOnce
  <2>2. UNION {moved'[n] : n \in Maintainers} = (UNION {moved[n] : n \in Maintainers}) \cup {i}
    <3>1. \A x : (\E n \in Maintainers : x \in moved'[n])
                 <=> (\E n \in Maintainers : x \in moved[n]) \/ x = i
      BY <1>8
    <3>2. QED BY <3>1
  <2>3. \A n, o \in Maintainers : n # o => moved'[n] \cap moved'[o] = {}
    <3> SUFFICES ASSUME NEW n \in Maintainers, NEW o \in Maintainers, n # o,
                        NEW x, x \in moved'[n], x \in moved'[o]
                 PROVE  FALSE
      OBVIOUS
    <3>1. /\ x \in moved[n] \/ (n = m /\ x = i)
          /\ x \in moved[o] \/ (o = m /\ x = i)
      BY <1>8
    <3>2. ~(x \in moved[n] /\ x \in moved[o])
      BY <1>1 DEF MovesReportedOnce
    <3> QED
      BY <2>1, <3>1, <3>2
  <2>4. QED BY <1>1, <1>5, <2>2, <2>3 DEF MovesReportedOnce
<1>15. ViewsClean' BY <1>1, <1>5, <1>6 DEF ViewsClean
<1>16. QED BY <1>9, <1>10, <1>11, <1>12, <1>13, <1>14, <1>15 DEF Inductive

\* CACHE.md is rewritten from a listing of whole items.
LEMMA RenderHolds ==
  ASSUME Inductive, NEW r \in Readers, Render(r) PROVE Inductive'
<1>1. TypeOK /\ ListingsSound /\ ViewsClean /\ r \in Listers
  BY ListerFacts DEF Inductive
<1>2. UNCHANGED <<clock, file>> /\ Landed' = Landed /\ Quarantined' = Quarantined
      /\ \A i : Justified(i)' <=> Justified(i)
  BY DirectoryStands DEF Render, writers
<1> DEFINE S == {i \in got[r] : Visible(i)}
           R == Ranked(S, Limit)
<1>3. S \in SUBSET Items /\ S \subseteq Landed /\ \A i \in S : Visible(i)
  BY <1>1 DEF ListingsSound, TypeOK
<1>4. Directory(S) BY <1>3, ItemsDirectory, DirectorySubset
<1> HIDE DEF S
<1>5. R \subseteq S /\ \A i, j \in R : ~Beats(i, j)
  BY DEF Ranked, Kept
<1>6. Cardinality(R) <= Limit
  BY <1>4, RankedIsBounded, BoundsAssumption
<1>7. view' = [view EXCEPT ![r] = R]
  BY DEF Render, S
<1> HIDE DEF R
<1>8. R \in SUBSET Items BY <1>3, <1>5
<1>9. \A q \in Readers : view'[q] = IF q = r THEN R ELSE view[q]
  BY <1>1, <1>7 DEF TypeOK
<1>10. TypeOK' BY <1>1, <1>7, <1>8 DEF Render, TypeOK, writers, upkeep
<1>11. WritesApart' BY DEF Inductive, WritesApart, Render, writers
<1>12. ListingsSound'
  <2>1. \A q \in Listers : /\ q # r => phase'[q] = phase[q]
                           /\ todo'[q] = todo[q]
                           /\ got'[q] = IF q = r THEN {} ELSE got[q]
    BY <1>1 DEF Render, TypeOK
  <2>2. todo[r] = {} BY DEF Render
  <2>3. QED BY <1>1, <1>2, <2>1, <2>2 DEF ListingsSound
<1>13. PlansJustified' BY <1>2 DEF Inductive, PlansJustified, Render, upkeep
<1>14. RetirementsJustified' BY <1>2 DEF Inductive, RetirementsJustified
<1>15. MovesReportedOnce' BY <1>2 DEF Inductive, MovesReportedOnce, Render, upkeep
<1>16. ViewsClean'
  BY <1>1, <1>2, <1>3, <1>5, <1>6, <1>9 DEF ViewsClean
<1>17. QED BY <1>10, <1>11, <1>12, <1>13, <1>14, <1>15, <1>16 DEF Inductive

\* A lister's steps and a maintenance run's own.
LEMMA ReaderHolds ==
  ASSUME Inductive, NEW r \in Readers, ReaderStep(r) PROVE Inductive'
BY ListerFacts, ListBeginHolds, ListReadHolds, ListFailHolds, RenderHolds DEF ReaderStep

LEMMA MaintainerHolds ==
  ASSUME Inductive, NEW m \in Maintainers, MaintainerStep(m) PROVE Inductive'
<1>1. TypeOK /\ PlansJustified /\ \A n \in Maintainers : now[n] <= clock
  BY DEF Inductive, PlansJustified
<1>2. CASE MaintainStart(m)
  <2>1. clock \in Nat /\ clock <= clock BY <1>1 DEF TypeOK
  <2>2. now' \in [Maintainers -> Nat] /\ \A n \in Maintainers : now'[n] <= clock
    BY <1>1, <1>2, <2>1 DEF MaintainStart, TypeOK
  <2>3. QED BY <1>2, <2>2, PhaseOnly DEF MaintainStart
<1>3. CASE MoveFail(m) \/ MaintainEnd(m)
  <2>1. now' \in [Maintainers -> Nat] /\ \A n \in Maintainers : now'[n] <= clock
    BY <1>1, <1>3 DEF MoveFail, MaintainEnd, upkeep, TypeOK
  <2>2. QED BY <1>3, <2>1, PhaseOnly DEF MoveFail, MaintainEnd, upkeep
<1>4. CASE ListBegin(m) \/ ListRead(m) \/ ListFail(m)
  BY <1>4, ListerFacts, ListBeginHolds, ListReadHolds, ListFailHolds
<1>5. QED BY <1>2, <1>3, <1>4, PlanMovesHolds, MoveHolds DEF MaintainerStep

LEMMA StutterHolds ==
  ASSUME Inductive, UNCHANGED vars PROVE Inductive'
<1>1. ListingsSound'
  BY DirectoryStands DEF Inductive, ListingsSound, vars
<1>2. QED BY <1>1, ReadOnly DEF Inductive, TypeOK, vars, writers, upkeep

-----------------------------------------------------------------------------
\* Inductive is an invariant of the cache (PutCache, ListCache, MaintainCache).
THEOREM Invariance == Spec => []Inductive
<1>1. Inductive /\ [Next]_vars => Inductive'
  BY TickStep, WriterHolds, ReaderHolds, MaintainerHolds, StutterHolds DEF Next
<1>2. QED BY InitHolds, <1>1, PTL DEF Spec

\* The types of the cache's state.
THEOREM TypeCorrect == Spec => []TypeOK
<1>1. Inductive => TypeOK BY DEF Inductive
<1>2. QED BY Invariance, <1>1, PTL

\* No run of maintenance, however it is interleaved, moves the best fresh item of a key
\* (quarantineCandidates, quarantineCacheFile).
THEOREM NoUnjustifiedMove == Spec => []RetirementsJustified
<1>1. Inductive => RetirementsJustified BY DEF Inductive
<1>2. QED BY Invariance, <1>1, PTL

\* The reports of all maintenance runs together name each moved file once.
THEOREM MovesAccounted == Spec => []MovesReportedOnce
<1>1. Inductive => MovesReportedOnce BY DEF Inductive
<1>2. QED BY Invariance, <1>1, PTL

\* A room is shown at most Limit whole, verified items of its objective, one of a key
\* (RankedCache, WriteCacheMarkdown).
THEOREM RoomsSeeCleanViews == Spec => []ViewsClean
<1>1. Inductive => ViewsClean BY DEF Inductive
<1>2. QED BY Invariance, <1>1, PTL

-----------------------------------------------------------------------------
\* While a room lists, what its CACHE.md shows and is still in the cache is in the listing.
ListingsCover ==
  \A r \in Readers : phase[r] = "listing" =>
    \A i \in view[r] : file[i] = "complete" => i \in todo[r] \cup got[r]

\* Steps that leave the listings and the views alone complete no file that is shown.
LEMMA CoverStands ==
  ASSUME Inductive, ListingsCover, UNCHANGED <<todo, got, view>>,
         \A r \in Readers : phase'[r] = "listing" => phase[r] = "listing",
         \A i \in Landed : file'[i] = "complete" => file[i] = "complete"
  PROVE  ListingsCover'
BY DEF Inductive, ViewsClean, ListingsCover

LEMMA CoverStep ==
  ASSUME Inductive, ListingsCover, [Next]_vars PROVE ListingsCover'
<1>0. TypeOK /\ ListingsSound /\ ViewsClean /\ WritesApart BY DEF Inductive
<1>1. CASE Tick \/ UNCHANGED vars
  BY <1>1, CoverStands DEF Tick, vars, writers, listing
<1>2. ASSUME NEW w \in Writers, WriterStep(w) PROVE ListingsCover'
  <2>1. \A i \in Landed : file'[i] = "complete" => file[i] = "complete"
    <3>1. CASE \E i \in Items : PutCreate(w, i)
      BY <1>0, <3>1 DEF PutCreate, TypeOK, Landed
    <3>2. CASE PutFill(w)
      <4>1. file[writing[w]] = "partial" /\ writing[w] \in Items
        BY <1>0, <3>2 DEF PutFill, WritesApart, TypeOK
      <4>2. QED BY <1>0, <3>2, <4>1 DEF PutFill, TypeOK, Landed
    <3>3. CASE PutTear(w) BY <3>3 DEF PutTear
    <3>4. QED BY <1>2, <3>1, <3>2, <3>3 DEF WriterStep
  <2>2. UNCHANGED <<listing, view>>
    BY <1>2 DEF WriterStep, PutCreate, PutFill, PutTear
  <2>3. QED BY <2>1, <2>2, CoverStands DEF listing
<1>3. ASSUME NEW p \in Listers, ListBegin(p) PROVE ListingsCover'
  <2>1. \A i \in Items : file[i] = "complete" => i \in Present BY DEF Present
  <2>2. \A r \in Readers : view[r] \subseteq Items BY <1>0 DEF TypeOK
  <2>3. /\ UNCHANGED <<file, view>>
        /\ \A q \in Listers : /\ q # p => phase'[q] = phase[q]
                              /\ todo'[q] = IF q = p THEN Present ELSE todo[q]
                              /\ q # p => got'[q] = got[q]
    BY <1>0, <1>3 DEF ListBegin, TypeOK, writers
  <2>4. QED BY <2>1, <2>2, <2>3, ListerFacts DEF ListingsCover
<1>4. ASSUME NEW p \in Listers, ListRead(p) PROVE ListingsCover'
  <2>1. PICK i \in todo[p] : /\ got' = [got EXCEPT ![p] = @ \cup {i}]
                             /\ todo' = [todo EXCEPT ![p] = @ \ {i}]
    BY <1>4 DEF ListRead
  <2>2. \A q \in Listers : todo'[q] \cup got'[q] = todo[q] \cup got[q]
    BY <1>0, <2>1 DEF TypeOK
  <2>3. UNCHANGED <<phase, view, file>> BY <1>4 DEF ListRead, writers
  <2>4. QED BY <2>2, <2>3, ListerFacts DEF ListingsCover
<1>5. ASSUME NEW p \in Listers, ListFail(p) PROVE ListingsCover'
  <2>1. \A q \in Listers : /\ phase'[q] = "listing" => q # p /\ phase[q] = "listing"
                           /\ q # p => todo'[q] = todo[q] /\ got'[q] = got[q]
    BY <1>0, <1>5 DEF ListFail, TypeOK
  <2>2. UNCHANGED <<view, file>> BY <1>5 DEF ListFail, writers
  <2>3. QED BY <2>1, <2>2, ListerFacts DEF ListingsCover
<1>6. ASSUME NEW r \in Readers, Render(r) PROVE ListingsCover'
  <2>1. \A q \in Readers : /\ phase'[q] = "listing" => q # r /\ phase[q] = "listing"
                           /\ q # r => todo'[q] = todo[q] /\ got'[q] = got[q]
                           /\ q # r => view'[q] = view[q]
    BY <1>0, <1>6, ListerFacts DEF Render, TypeOK
  <2>2. UNCHANGED file BY <1>6 DEF Render, writers
  <2>3. QED BY <2>1, <2>2 DEF ListingsCover
<1>7. ASSUME NEW m \in Maintainers,
             MaintainStart(m) \/ PlanMoves(m) \/ Move(m) \/ MoveFail(m) \/ MaintainEnd(m)
      PROVE  ListingsCover'
  <2>1. /\ \A r \in Readers : phase'[r] = phase[r] /\ got'[r] = got[r]
        /\ UNCHANGED <<todo, view>>
    BY <1>0, <1>7, ListerFacts
    DEF MaintainStart, PlanMoves, Move, MoveFail, MaintainEnd, listing, TypeOK
  <2>2. \A i \in Landed : file'[i] = "complete" => file[i] = "complete"
    <3>1. CASE Move(m) BY <1>0, <3>1 DEF Move, TypeOK, Landed
    <3>2. CASE ~Move(m)
      BY <1>7, <3>2 DEF MaintainStart, PlanMoves, MoveFail, MaintainEnd, writers
    <3>3. QED BY <3>1, <3>2
  <2>3. QED BY <1>0, <2>1, <2>2 DEF ViewsClean, ListingsCover
<1>8. QED
  BY <1>1, <1>2, <1>3, <1>4, <1>5, <1>6, <1>7, ListerFacts
  DEF Next, ReaderStep, MaintainerStep

\* A refresh drops an item only for a better one, for Limit better ones, or because
\* maintenance has moved it (RankedCache, WriteCacheMarkdown).
THEOREM DeparturesHaveCause == Spec => DeparturesExplained
<1> DEFINE Explained == \A r \in Readers : \A i \in view[r] :
                          Covered(view'[r], i) \/ file[i] = "quarantined"
<1>1. Init => ListingsCover BY DEF Init, ListingsCover
<1>2. ASSUME Inductive, ListingsCover, [Next]_vars PROVE Explained \/ UNCHANGED vars
  <2>0. TypeOK /\ ViewsClean BY <1>2 DEF Inductive
  <2>1. ASSUME view' = view PROVE Explained
    BY <2>1 DEF Covered
  <2>2. ASSUME NEW r \in Readers, Render(r) PROVE Explained
    <3> SUFFICES ASSUME NEW q \in Readers, NEW i \in view[q], file[i] # "quarantined"
                 PROVE  Covered(view'[q], i)
      OBVIOUS
    <3>1. CASE q # r
      BY <2>0, <2>2, <3>1 DEF Render, TypeOK, Covered
    <3>2. CASE q = r
      <4> DEFINE S == {j \in got[r] : Visible(j)}
      <4>1. view'[q] = Ranked(S, Limit)
        BY <2>0, <2>2, <3>2 DEF Render, TypeOK
      <4>2. i \in Landed /\ Visible(i) BY <2>0 DEF ViewsClean
      <4>3. file[i] = "complete" BY <4>2 DEF Landed
      <4>4. phase[r] = "listing" /\ todo[r] = {} BY <2>2 DEF Render
      <4>5. i \in S BY <1>2, <3>2, <4>2, <4>3, <4>4 DEF ListingsCover
      <4>6. S \in SUBSET Items BY <2>0, ListerFacts DEF TypeOK
      <4>7. Directory(S) BY <4>6, ItemsDirectory, DirectorySubset
      <4> HIDE DEF S
      <4>8. QED BY <4>1, <4>5, <4>7, BoundsAssumption, LeftOutForBetter DEF Covered
    <3>3. QED BY <3>1, <3>2
  <2>3. view' = view \/ \E r \in Readers : Render(r)
    BY <1>2 DEF Next, vars, Tick, WriterStep, PutCreate, PutFill, PutTear, ReaderStep,
       ListBegin, ListRead, ListFail, MaintainerStep, MaintainStart, PlanMoves, Move,
       MoveFail, MaintainEnd
  <2>4. QED BY <2>1, <2>2, <2>3
<1>3. Inductive /\ ListingsCover /\ [Next]_vars => ListingsCover'
  BY CoverStep
<1>4. Inductive /\ ListingsCover /\ [Next]_vars => [Explained]_vars
  BY <1>2
<1>5. QED BY <1>1, <1>3, <1>4, Invariance, PTL DEF Spec, DeparturesExplained

-----------------------------------------------------------------------------
Put == {i \in Items : file[i] # "absent"}
Snap == [r \in Readers |-> todo[r] \cup got[r]]

\* The directory is what was put and not retired.
LEMMA DirectoryIsPut ==
  ASSUME TypeOK
  PROVE  Present = Put \ Quarantined /\ Landed \subseteq Put /\ Quarantined \subseteq Put
BY DEF TypeOK, Present, Landed, Quarantined, Put

\* When the listing of one room changes, its snapshot does and no other.
LEMMA SnapStep ==
  ASSUME NEW r \in Readers, NEW X, todo'[r] \cup got'[r] = X,
         \A q \in Readers \ {r} : todo'[q] \cup got'[q] = todo[q] \cup got[q]
  PROVE  Snap' = [Snap EXCEPT ![r] = X]
<1>1. \A q \in Readers : todo'[q] \cup got'[q] = IF q = r THEN X ELSE Snap[q]
  BY DEF Snap
<1>2. Snap' = [q \in Readers |-> IF q = r THEN X ELSE Snap[q]]
  BY <1>1 DEF Snap
<1>3. [Snap EXCEPT ![r] = X] = [q \in Readers |-> IF q = r THEN X ELSE Snap[q]]
  BY DEF Snap
<1>4. QED BY <1>2, <1>3

\* Every step of the cache is a step of its contract or leaves it as it was.
LEMMA ContractStep ==
  ASSUME Inductive, Inductive', [Next]_vars PROVE [Contract!Next]_(Contract!vars)
<1>0. TypeOK /\ TypeOK' /\ ListingsSound /\ WritesApart
  BY DEF Inductive
<1>1. SUFFICES Contract!Next
               \/ UNCHANGED <<clock, Put, Quarantined, Snap, view>>
  BY DEF Contract!vars, Put, Snap
<1>2. CASE Tick
  <2>1. clock' = clock + 1 /\ UNCHANGED <<Put, Quarantined, Snap, view>>
    BY <1>2 DEF Tick, writers, listing, Put, Quarantined, Snap
  <2>2. QED BY <2>1 DEF Contract!Next, Contract!Tick, Put, Snap
<1>3. CASE UNCHANGED vars
  BY <1>3 DEF vars, Put, Quarantined, Snap
<1>4. ASSUME NEW w \in Writers, NEW i \in Items, PutCreate(w, i) PROVE Contract!Next
  <2>1. /\ i \notin Put /\ i.created <= clock /\ Put' = Put \cup {i}
        /\ UNCHANGED <<clock, Quarantined, Snap, view>>
    BY <1>0, <1>4 DEF PutCreate, TypeOK, Put, Quarantined, Snap, listing
  <2>2. QED BY <2>1 DEF Contract!Next, Contract!Put, Put, Snap
<1>5. ASSUME NEW w \in Writers, PutFill(w) \/ PutTear(w)
      PROVE  UNCHANGED <<clock, Put, Quarantined, Snap, view>>
  <2>1. CASE PutTear(w)
    BY <2>1 DEF PutTear, Put, Quarantined, Snap, listing
  <2>2. CASE PutFill(w)
    <3>1. writing[w] \in Items /\ file[writing[w]] = "partial"
      BY <1>0, <2>2 DEF PutFill, WritesApart, TypeOK
    <3>2. \A j \in Items : file'[j] = IF j = writing[w] THEN "complete" ELSE file[j]
      BY <1>0, <2>2 DEF PutFill, TypeOK
    <3>3. Put' = Put /\ Quarantined' = Quarantined
      BY <3>1, <3>2 DEF Put, Quarantined
    <3>4. QED BY <2>2, <3>3 DEF PutFill, listing, Snap
  <2>3. QED BY <1>5, <2>1, <2>2
<1>6. ASSUME NEW m \in Maintainers, Move(m) PROVE Contract!Next
  <2>1. PICK i \in plan[m] :
          file[i] = "complete" /\ file' = [file EXCEPT ![i] = "quarantined"]
    BY <1>6 DEF Move
  <2>2. i \in Items /\ Justified(i)
    BY <1>0, <2>1 DEF TypeOK, Inductive, PlansJustified
  <2>3. \A j \in Items : file'[j] = IF j = i THEN "quarantined" ELSE file[j]
    BY <1>0, <2>1 DEF TypeOK
  <2>4. /\ i \in Put \ Quarantined /\ Put' = Put
        /\ Quarantined' = Quarantined \cup {i}
    BY <2>1, <2>2, <2>3 DEF Put, Quarantined
  <2>5. Prunable(i, clock) \/ \E j \in Put : Beats(j, i)
    BY <1>0, <2>2, DirectoryIsPut DEF Justified
  <2>6. UNCHANGED <<clock, Snap, view>> BY <1>6 DEF Move, listing, Snap
  <2>7. QED
    BY <2>2, <2>4, <2>5, <2>6
    DEF Contract!Next, Contract!Retire, Contract!Reason, Put, Snap
<1>7. ASSUME NEW m \in Maintainers, MaintainerStep(m), ~Move(m)
      PROVE  UNCHANGED <<clock, Put, Quarantined, Snap, view>>
  <2>1. UNCHANGED <<clock, file, view>>
    BY <1>7 DEF MaintainerStep, MaintainStart, ListBegin, ListRead, ListFail, PlanMoves,
       MoveFail, MaintainEnd, writers
  <2>2. \A r \in Readers : todo'[r] = todo[r] /\ got'[r] = got[r]
    BY <1>0, <1>7, ListerFacts DEF MaintainerStep, MaintainStart, ListBegin, ListRead,
       ListFail, PlanMoves, MoveFail, MaintainEnd, TypeOK
  <2>3. QED BY <2>1, <2>2 DEF Put, Quarantined, Snap
<1>8. ASSUME NEW r \in Readers, ListBegin(r) PROVE Contract!Next
  <2>1. UNCHANGED <<clock, Put, Quarantined, view>>
    BY <1>8 DEF ListBegin, writers, Put, Quarantined
  <2>2. Snap[r] = {}
    BY <1>0, <1>8, ListerFacts DEF ListBegin, ListingsSound, Snap
  <2>3. Snap' = [Snap EXCEPT ![r] = Put \ Quarantined]
    <3>1. todo'[r] \cup got'[r] = Put \ Quarantined
      BY <1>0, <1>8, ListerFacts, DirectoryIsPut DEF ListBegin, TypeOK
    <3>2. \A q \in Readers \ {r} : todo'[q] \cup got'[q] = todo[q] \cup got[q]
      BY <1>0, <1>8, ListerFacts DEF ListBegin, TypeOK
    <3>3. QED BY <3>1, <3>2, SnapStep
  <2>4. QED BY <2>1, <2>2, <2>3 DEF Contract!Next, Contract!Fix, Put, Snap
<1>9. ASSUME NEW r \in Readers, ListRead(r)
      PROVE  UNCHANGED <<clock, Put, Quarantined, Snap, view>>
  <2>1. PICK i \in todo[r] : /\ got' = [got EXCEPT ![r] = @ \cup {i}]
                             /\ todo' = [todo EXCEPT ![r] = @ \ {i}]
    BY <1>9 DEF ListRead
  <2>2. \A q \in Readers : todo'[q] \cup got'[q] = todo[q] \cup got[q]
    BY <1>0, <2>1, ListerFacts DEF TypeOK
  <2>3. QED BY <1>9, <2>2 DEF ListRead, writers, Put, Quarantined, Snap
<1>10. ASSUME NEW r \in Readers, ListFail(r) PROVE Contract!Next
  <2>1. UNCHANGED <<clock, Put, Quarantined, view>>
    BY <1>10 DEF ListFail, writers, Put, Quarantined
  <2>2. Snap' = [Snap EXCEPT ![r] = {}]
    <3>1. todo'[r] \cup got'[r] = {}
      BY <1>0, <1>10, ListerFacts DEF ListFail, TypeOK
    <3>2. \A q \in Readers \ {r} : todo'[q] \cup got'[q] = todo[q] \cup got[q]
      BY <1>0, <1>10, ListerFacts DEF ListFail, TypeOK
    <3>3. QED BY <3>1, <3>2, SnapStep
  <2>3. QED BY <2>1, <2>2 DEF Contract!Next, Contract!GiveUp, Put, Snap
<1>11. ASSUME NEW r \in Readers, Render(r) PROVE Contract!Next
  <2>1. UNCHANGED <<clock, Put, Quarantined>>
    BY <1>11 DEF Render, writers, Put, Quarantined
  <2>2. Snap' = [Snap EXCEPT ![r] = {}] /\ Snap[r] = got[r]
    <3>1. todo'[r] \cup got'[r] = {}
      BY <1>0, <1>11, ListerFacts DEF Render, TypeOK
    <3>2. \A q \in Readers \ {r} : todo'[q] \cup got'[q] = todo[q] \cup got[q]
      BY <1>0, <1>11, ListerFacts DEF Render, TypeOK
    <3>3. Snap[r] = got[r] BY <1>11 DEF Render, Snap
    <3>4. QED BY <3>1, <3>2, <3>3, SnapStep
  <2>3. view' = [view EXCEPT ![r] = Ranked({i \in Snap[r] : Visible(i)}, Limit)]
    BY <1>11, <2>2 DEF Render
  <2>4. QED BY <2>1, <2>2, <2>3 DEF Contract!Next, Contract!Show, Put, Snap
<1>12. QED
  BY <1>2, <1>3, <1>4, <1>5, <1>6, <1>7, <1>8, <1>9, <1>10, <1>11
  DEF Next, WriterStep, ReaderStep

\* The cache keeps its contract: what a room is shown is the ranking of the directory at
\* one instant, although ListCache reads it file by file, and MaintainCache moves nothing
\* without a reason.
THEOREM KeepsContract == Spec => ContractHolds
<1>1. Init => Contract!Begin
  BY DEF Init, Contract!Begin, Quarantined, Listers
<1>2. Inductive /\ Inductive' /\ [Next]_vars => [Contract!Next]_(Contract!vars)
  BY ContractStep
<1>3. QED BY <1>1, <1>2, Invariance, PTL DEF Spec, Contract!Behaviour, ContractHolds
=============================================================================
