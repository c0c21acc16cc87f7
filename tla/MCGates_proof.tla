--------------------------- MODULE MCGates_proof ---------------------------
(***************************************************************************)
(* What the pure parts of qsm answer, for every question that is put to    *)
(* them: the lemmas about their operators hold for all inputs, and the     *)
(* theorems take from them that no step of the specification is ever       *)
(* answered wrongly.                                                       *)
(***************************************************************************)
EXTENDS MCGates, FiniteOrders, FiniteSetTheorems, SequenceTheorems, TLAPS

-----------------------------------------------------------------------------
(***************************************************************************)
(* The question on the table was put by the action of its topic.           *)
(***************************************************************************)
LEMMA TopicOfTheAction ==
  ASSUME Next
  PROVE  \/ AskTester      /\ input'.topic = "tester"
         \/ AskCollapse    /\ input'.topic = "collapse"
         \/ AskQA          /\ input'.topic = "qa"
         \/ AskForce       /\ input'.topic = "force"
         \/ AskTrace       /\ input'.topic = "trace"
         \/ AskQuality     /\ input'.topic = "quality"
         \/ AskSandbox     /\ input'.topic = "sandbox"
         \/ AskPlan        /\ input'.topic = "plan"
         \/ AskLimits      /\ input'.topic = "limits"
         \/ AskTask        /\ input'.topic = "task"
         \/ AskPromotion   /\ input'.topic = "promotion"
         \/ AskFailure     /\ input'.topic = "failure"
         \/ AskKnowledge   /\ input'.topic = "knowledge"
         \/ AskImprovement /\ input'.topic = "improvement"
         \/ UNCHANGED input
<1>1. AskTester => input'.topic = "tester"
  BY DEF AskTester
<1>2. AskCollapse => input'.topic = "collapse"
  BY DEF AskCollapse
<1>3. AskQA => input'.topic = "qa"
  BY DEF AskQA
<1>4. AskForce => input'.topic = "force"
  BY DEF AskForce
<1>5. AskTrace => input'.topic = "trace"
  BY DEF AskTrace
<1>6. AskQuality => input'.topic = "quality"
  BY DEF AskQuality
<1>7. AskSandbox => input'.topic = "sandbox"
  BY DEF AskSandbox
<1>8. AskPlan => input'.topic = "plan"
  BY DEF AskPlan
<1>9. AskLimits => input'.topic = "limits"
  BY DEF AskLimits
<1>10. AskTask => input'.topic = "task"
  BY DEF AskTask
<1>11. AskPromotion => input'.topic = "promotion"
  BY DEF AskPromotion
<1>12. AskFailure => input'.topic = "failure"
  BY DEF AskFailure
<1>13. AskKnowledge => input'.topic = "knowledge"
  BY DEF AskKnowledge
<1>14. AskImprovement => input'.topic = "improvement"
  BY DEF AskImprovement
<1>15. AskCache => UNCHANGED input
  BY DEF AskCache
<1> QED
  BY <1>1, <1>2, <1>3, <1>4, <1>5, <1>6, <1>7, <1>8, <1>9, <1>10, <1>11, <1>12, <1>13, <1>14, <1>15
     DEF Next

-----------------------------------------------------------------------------
(***************************************************************************)
(* qsm qa                                                                  *)
(***************************************************************************)
\* Every profile has one of the ranks 1 to 4 (qaProfileRank), and the force it asks for grows
\* with the rank.
LEMMA ProfileRanks ==
  ASSUME NEW p \in QA!Profiles
  PROVE  /\ QA!QAProfileRank(p) \in 1 .. 4
         /\ QA!QAForceMinimum(p) \in {200, 280, 340, 380}
         /\ \A q \in QA!Profiles : QA!QAProfileRank(q) <= QA!QAProfileRank(p)
                                     => QA!QAForceMinimum(q) <= QA!QAForceMinimum(p)
BY DEF QA!Profiles, QA!QAProfileRank, QA!QAForceMinimum

\* A gate stands in the way of the profile exactly if it is required and what it asks does not hold.
LEMMA GateBlocks ==
  ASSUME NEW id, NEW ok \in BOOLEAN, NEW required \in BOOLEAN
  PROVE  QA!Gate(id, ok, required).required /\ QA!Gate(id, ok, required).status = "FAIL"
           <=> required /\ ~ok
BY DEF QA!Gate

\* The desks qa can find: what each file says, whatever it is.
BranchResults ==
  [ok : BOOLEAN, tested : BOOLEAN, passed : BOOLEAN, failed : BOOLEAN, weak : BOOLEAN,
   severe : BOOLEAN]

TaskKinds == QA!OmniKinds \cup {"other"}
Suites    == {"omni-contract", "local-smoke", "other"}

Desks ==
  [run      : [there : BOOLEAN, accounted : BOOLEAN, stale : BOOLEAN, succeeded : BOOLEAN,
               results : SUBSET BranchResults],
   approved : BOOLEAN,
   cost     : BOOLEAN,
   force    : [there : BOOLEAN, average : Int, top : BOOLEAN],
   bench    : [there : BOOLEAN, official : BOOLEAN, suite : Suites,
               tasks : SUBSET [kind : TaskKinds, passed : BOOLEAN]],
   sandbox  : [there : BOOLEAN, hard : BOOLEAN, omni : BOOLEAN],
   lake     : [there : BOOLEAN, cited : BOOLEAN],
   self     : {"missing", "failed", "passed"},
   files    : [QA!ReportFiles -> {"missing", "torn", "failed", "passed"}],
   env      : [ci : BOOLEAN, waiver : BOOLEAN]]

\* What a profile demands of a desk, without its gates.
Demands(desk, profile) ==
  /\ desk.run.there /\ desk.run.accounted /\ ~desk.run.stale /\ desk.run.succeeded
  /\ QA!QATestEvidence(desk.run.results) /\ QA!QASecurity(desk.run.results)
  /\ desk.force.there /\ desk.force.average >= QA!QAForceMinimum(profile)
  /\ QA!QAProfileRank(profile) >= 2 =>
       /\ desk.approved /\ desk.cost /\ desk.lake.there /\ desk.lake.cited
       /\ QA!BenchmarkPassed(desk.bench)
  /\ QA!QAProfileRank(profile) >= 3 =>
       /\ QA!OfficialLikeBenchmark(desk.bench) /\ desk.sandbox.there /\ desk.sandbox.hard
       /\ \A f \in QA!ReportFiles : desk.files[f] = "passed"
  /\ QA!QAProfileRank(profile) >= 4 =>
       /\ QA!OmniContract(desk.bench) /\ desk.self = "passed"
       /\ desk.sandbox.omni /\ desk.sandbox.hard /\ desk.force.average >= 380

Blocks(g) == g.required /\ g.status = "FAIL"

\* The gates of a profile all pass exactly if its demands are met: no gate is left out of the
\* sum, and a warning takes nothing away (main.go:4406-4667).
LEMMA PassMeetsDemands ==
  ASSUME NEW desk \in Desks, NEW p \in QA!Profiles
  PROVE  QA!GatesPassed(QA!Gates(desk, p)) <=> Demands(desk, p)
<1> DEFINE R == QA!QAProfileRank(p)
           G(id, ok, required) == QA!Gate(id, ok, required)
<1>1. /\ desk.run.there \in BOOLEAN /\ desk.run.accounted \in BOOLEAN
      /\ desk.run.stale \in BOOLEAN /\ desk.run.succeeded \in BOOLEAN
      /\ desk.run.results \subseteq BranchResults
      /\ desk.approved \in BOOLEAN /\ desk.cost \in BOOLEAN
      /\ desk.force.there \in BOOLEAN /\ desk.force.average \in Int
      /\ desk.sandbox.there \in BOOLEAN /\ desk.sandbox.hard \in BOOLEAN
      /\ desk.sandbox.omni \in BOOLEAN
      /\ desk.lake.there \in BOOLEAN /\ desk.lake.cited \in BOOLEAN
      /\ desk.bench.there \in BOOLEAN /\ desk.bench.official \in BOOLEAN
      /\ desk.bench.tasks \subseteq [kind : TaskKinds, passed : BOOLEAN]
  BY DEF Desks
<1>2. R \in 1 .. 4 /\ QA!QAForceMinimum(p) \in {200, 280, 340, 380}
  BY ProfileRanks
<1>3. \A id : \A ok, required \in BOOLEAN : Blocks(G(id, ok, required)) <=> required /\ ~ok
  BY GateBlocks DEF Blocks
<1>4. \A gates : QA!GatesPassed(gates) <=> \A g \in gates : ~Blocks(g)
  BY DEF QA!GatesPassed, Blocks
<1>5. CASE ~desk.run.there
  <2>1. QA!Gates(desk, p) = {G("run-report", FALSE, TRUE)}
    BY <1>5 DEF QA!Gates
  <2>2. Blocks(G("run-report", FALSE, TRUE))
    BY DEF QA!Gate, Blocks
  <2> HIDE DEF G
  <2> QED
    BY <1>4, <1>5, <2>1, <2>2 DEF Demands
<1>6. CASE desk.run.there
  <2> DEFINE Files == {G(f, desk.files[f] = "passed", R >= 3) : f \in QA!ReportFiles}
             Omni  == {G("omni-contract", QA!OmniContract(desk.bench), TRUE),
                       G("self-improvement", desk.self = "passed", TRUE),
                       G("omni-sandbox", desk.sandbox.omni /\ desk.sandbox.hard, TRUE),
                       G("force-omni-threshold", desk.force.there /\ desk.force.average >= 380,
                         TRUE)}
             Main  == {G("run-report", TRUE, TRUE),
                       G("nodes-accounted", desk.run.accounted, TRUE),
                       G("no-stale-rooms", ~desk.run.stale, TRUE),
                       G("node-success", desk.run.succeeded, TRUE),
                       G("qsm-test-report", QA!QATestEvidence(desk.run.results), TRUE),
                       G("security-basic", QA!QASecurity(desk.run.results), TRUE),
                       G("force-score",
                         desk.force.there /\ desk.force.average >= QA!QAForceMinimum(p), TRUE),
                       G("collapse-approved", desk.approved, R >= 2),
                       G("cost-accounting", desk.cost, R >= 2),
                       G("benchmark", QA!BenchmarkPassed(desk.bench), R >= 2),
                       G("official-shaped-benchmark",
                         R >= 3 /\ QA!OfficialLikeBenchmark(desk.bench), R >= 3),
                       G("hard-sandbox", desk.sandbox.there /\ desk.sandbox.hard, R >= 3),
                       G("lake-citations", desk.lake.there /\ desk.lake.cited, R >= 2)}
             Clear(gates) == \A g \in gates : ~Blocks(g)
  <2>1. QA!Gates(desk, p) = Main \cup Files \cup (IF R >= 4 THEN Omni ELSE {})
    <3>1. QA!Gates(desk, p) = QA!RunGates(desk, p)
      BY <1>6 DEF QA!Gates
    <3>2. QA!OmniGates(desk) = Omni
      BY DEF QA!OmniGates
    <3> QED
      BY <3>1, <3>2 DEF QA!RunGates
  <2>2. /\ QA!QATestEvidence(desk.run.results) \in BOOLEAN
        /\ QA!QASecurity(desk.run.results) \in BOOLEAN
        /\ QA!BenchmarkPassed(desk.bench) \in BOOLEAN
        /\ QA!OfficialLikeBenchmark(desk.bench) \in BOOLEAN
        /\ QA!OmniContract(desk.bench) \in BOOLEAN
    BY <1>1 DEF QA!QATestEvidence, QA!QASecurity, QA!BenchmarkPassed, QA!OfficialLikeBenchmark,
                QA!OmniContract
  <2> HIDE DEF R
  <2>3. Clear(Main) <=>
          /\ desk.run.accounted /\ ~desk.run.stale /\ desk.run.succeeded
          /\ QA!QATestEvidence(desk.run.results) /\ QA!QASecurity(desk.run.results)
          /\ desk.force.there /\ desk.force.average >= QA!QAForceMinimum(p)
          /\ R >= 2 => /\ desk.approved /\ desk.cost /\ desk.lake.there /\ desk.lake.cited
                       /\ QA!BenchmarkPassed(desk.bench)
          /\ R >= 3 => /\ QA!OfficialLikeBenchmark(desk.bench)
                       /\ desk.sandbox.there /\ desk.sandbox.hard
    BY <1>1, <1>2, <2>2 DEF QA!Gate, Blocks
  <2>6. Clear(Files) <=> (R >= 3 => \A f \in QA!ReportFiles : desk.files[f] = "passed")
    <3>1. \A f : Blocks(G(f, desk.files[f] = "passed", R >= 3)) <=>
            R >= 3 /\ desk.files[f] # "passed"
      BY <1>2 DEF QA!Gate, Blocks
    <3> HIDE DEF G
    <3> QED
      BY <3>1
  <2>7. Clear(Omni) <=>
          /\ QA!OmniContract(desk.bench) /\ desk.self = "passed"
          /\ desk.sandbox.omni /\ desk.sandbox.hard
          /\ desk.force.there /\ desk.force.average >= 380
    BY <1>1, <2>2 DEF QA!Gate, Blocks
  <2> HIDE DEF Main, Files, Omni
  <2>8. QA!GatesPassed(QA!Gates(desk, p)) <=>
          /\ Clear(Main) /\ Clear(Files)
          /\ R >= 4 => Clear(Omni)
    BY <1>4, <2>1
  <2> HIDE DEF Clear
  <2> QED
    BY <1>6, <2>3, <2>6, <2>7, <2>8 DEF Demands, R
<1> QED
  BY <1>1, <1>5, <1>6

\* Renewing the release report leaves a desk, and changes that one report (refreshCIReleaseForQA).
LEMMA RefreshedDesk ==
  ASSUME NEW desk \in Desks, NEW p \in QA!Profiles
  PROVE  /\ QA!Refreshed(desk, p) \in Desks
         /\ \A f \in QA!ReportFiles \ {"ci-release"} :
              QA!Refreshed(desk, p).files[f] = desk.files[f]
         /\ desk.run.there /\ QA!QAProfileRank(p) >= 3 =>
              QA!Refreshed(desk, p).files["ci-release"]
                = IF QA!CIReleaseFromQA(p, desk.env) THEN "passed" ELSE "failed"
         /\ ~(desk.run.there /\ QA!QAProfileRank(p) >= 3) => QA!Refreshed(desk, p) = desk
         /\ \A field \in {"run", "approved", "cost", "force", "bench", "sandbox", "lake", "self",
                          "env"} : QA!Refreshed(desk, p)[field] = desk[field]
<1> DEFINE verdict == IF QA!CIReleaseFromQA(p, desk.env) THEN "passed" ELSE "failed"
<1>1. CASE ~(desk.run.there /\ QA!QAProfileRank(p) >= 3)
  BY <1>1 DEF QA!Refreshed
<1>2. CASE desk.run.there /\ QA!QAProfileRank(p) >= 3
  <2>1. QA!Refreshed(desk, p) = [desk EXCEPT !.files["ci-release"] = verdict]
    BY <1>2 DEF QA!Refreshed
  <2>2. verdict \in {"missing", "torn", "failed", "passed"} /\ "ci-release" \in QA!ReportFiles
    BY DEF QA!ReportFiles
  <2>3. desk.files \in [QA!ReportFiles -> {"missing", "torn", "failed", "passed"}]
    BY DEF Desks
  <2> HIDE DEF verdict
  <2>4. [desk.files EXCEPT !["ci-release"] = verdict] \in
          [QA!ReportFiles -> {"missing", "torn", "failed", "passed"}]
    BY <2>2, <2>3
  <2>5. QA!Refreshed(desk, p) \in Desks
    BY <2>1, <2>4 DEF Desks
  <2> QED
    BY <1>2, <2>1, <2>2, <2>3, <2>5 DEF Desks, verdict
<1> QED
  BY <1>1, <1>2

\* The desk that runQA judges.
Judged(desk, p, refresh) == IF refresh THEN QA!Refreshed(desk, p) ELSE desk

\* A higher profile asks for all that a lower one asks for, on every desk qa can find: what passes
\* production or omni-alpha passes alpha, beta and local-production on the same files, the renewed
\* release report included (main.go:4406-4667).
THEOREM HigherProfilesAskMore ==
  ASSUME NEW desk \in Desks, NEW p \in QA!Profiles, NEW q \in QA!Profiles, NEW refresh \in BOOLEAN,
         QA!QAProfileRank(q) <= QA!QAProfileRank(p),
         q = "production" /\ refresh => desk.env = [ci |-> TRUE, waiver |-> FALSE],
         QA!QAPasses(desk, p, refresh)
  PROVE  QA!QAPasses(desk, q, refresh)
<1> DEFINE dp == Judged(desk, p, refresh)
           dq == Judged(desk, q, refresh)
<1>1. dp \in Desks /\ dq \in Desks
  BY RefreshedDesk DEF Judged
<1>2. Demands(dp, p)
  BY <1>1, PassMeetsDemands DEF QA!QAPasses, Judged
<1>3. /\ dp.run = desk.run /\ dp.approved = desk.approved /\ dp.cost = desk.cost
      /\ dp.force = desk.force /\ dp.bench = desk.bench /\ dp.sandbox = desk.sandbox
      /\ dp.lake = desk.lake /\ dp.self = desk.self
      /\ dq.run = desk.run /\ dq.approved = desk.approved /\ dq.cost = desk.cost
      /\ dq.force = desk.force /\ dq.bench = desk.bench /\ dq.sandbox = desk.sandbox
      /\ dq.lake = desk.lake /\ dq.self = desk.self
  BY RefreshedDesk DEF Judged
<1>4. /\ QA!QAProfileRank(p) \in 1 .. 4 /\ QA!QAProfileRank(q) \in 1 .. 4
      /\ QA!QAForceMinimum(p) \in {200, 280, 340, 380}
      /\ QA!QAForceMinimum(q) \in {200, 280, 340, 380}
      /\ QA!QAForceMinimum(q) <= QA!QAForceMinimum(p)
      /\ desk.force.average \in Int
  BY ProfileRanks DEF Desks
<1>5. ASSUME QA!QAProfileRank(q) >= 3
      PROVE  \A f \in QA!ReportFiles : dq.files[f] = "passed"
  <2>1. \A f \in QA!ReportFiles : dp.files[f] = "passed"
    BY <1>2, <1>4, <1>5 DEF Demands
  <2>2. CASE ~refresh
    BY <2>1, <2>2 DEF Judged
  <2>3. CASE refresh
    <3>1. QA!QAProfileRank(p) >= 3 /\ desk.run.there
      BY <1>2, <1>3, <1>4, <1>5 DEF Demands
    <3>2. "ci-release" \in QA!ReportFiles
      BY DEF QA!ReportFiles
    <3>3. QA!CIReleaseFromQA(p, desk.env)
      BY <2>1, <2>3, <3>1, <3>2, RefreshedDesk DEF Judged
    <3>4. desk.env.ci \in BOOLEAN /\ desk.env.waiver \in BOOLEAN
      BY DEF Desks
    <3>5. QA!CIReleaseFromQA(q, desk.env)
      BY <1>4, <1>5, <2>3, <3>3, <3>4 DEF QA!CIReleaseFromQA, QA!Profiles, QA!QAProfileRank
    <3>6. dq.files["ci-release"] = "passed"
      BY <1>5, <2>3, <3>1, <3>5, RefreshedDesk DEF Judged
    <3>7. \A f \in QA!ReportFiles \ {"ci-release"} : dq.files[f] = "passed"
      BY <2>1, <2>3, RefreshedDesk DEF Judged
    <3> QED
      BY <3>6, <3>7
  <2> QED
    BY <2>2, <2>3
<1> HIDE DEF dp, dq
<1>6. Demands(dq, q)
  BY <1>2, <1>3, <1>4, <1>5 DEF Demands
<1> QED
  BY <1>1, <1>6, PassMeetsDemands DEF QA!QAPasses, Judged, dq

\* Everything the run puts on a desk is something qa can find.
LEMMA DesksOfTheRun ==
  ASSUME NEW troubles, NEW average \in Int, NEW winner \in BranchResults,
         NEW others \in SUBSET BranchResults
  PROVE  Desk(troubles, average, winner, others) \in Desks
<1>1. \A k \in QA!OmniKinds :
        [kind |-> k, passed |-> k # "cli-tool" \/ "task failed" \notin troubles]
          \in [kind : TaskKinds, passed : BOOLEAN]
  BY DEF TaskKinds
<1>2. {[kind |-> k, passed |-> k # "cli-tool" \/ "task failed" \notin troubles] :
       k \in QA!OmniKinds}
        \subseteq [kind : TaskKinds, passed : BOOLEAN]
  BY <1>1
<1>3. [f \in QA!ReportFiles |-> IF f \notin troubles THEN "passed" ELSE "torn"]
        \in [QA!ReportFiles -> {"missing", "torn", "failed", "passed"}]
  OBVIOUS
<1>4. (IF "local-smoke" \notin troubles THEN "omni-contract" ELSE "local-smoke") \in Suites
  BY DEF Suites
<1>5. winner.ok \in BOOLEAN /\ {winner} \cup others \in SUBSET BranchResults
  BY DEF BranchResults
<1> QED
  BY <1>2, <1>3, <1>4, <1>5 DEF Desk, Desks

LEMMA DeskOfWinner ==
  ASSUME NEW troubles, NEW average, NEW winner, NEW others
  PROVE  /\ Desk(troubles, average, winner, others).run.results = {winner} \cup others
         /\ Desk(troubles, average, winner, others).approved => winner.ok
BY DEF Desk

\* From beta on no desk passes whose verdict is an approval of a branch that is not tested well,
\* nor one without an approval: a report that failed, is weak or names something severe is never
\* made up for by another branch or another file (main.go:4406-4667).
THEOREM PassStandsBehindWinner ==
  ASSUME NEW desk \in Desks, NEW winner \in desk.run.results, desk.approved => winner.ok,
         NEW p \in QA!Profiles, NEW refresh \in BOOLEAN,
         QA!QAProfileRank(p) >= 2, QA!QAPasses(desk, p, refresh)
  PROVE  /\ desk.approved
         /\ winner.ok /\ winner.tested /\ winner.passed
         /\ ~(winner.failed \/ winner.weak \/ winner.severe)
<1> DEFINE judged == Judged(desk, p, refresh)
<1>1. judged \in Desks /\ judged.run = desk.run /\ judged.approved = desk.approved
  BY RefreshedDesk DEF Judged
<1>2. Demands(judged, p)
  BY <1>1, PassMeetsDemands DEF QA!QAPasses, Judged
<1>3. /\ desk.approved
      /\ QA!QATestEvidence(desk.run.results) /\ QA!QASecurity(desk.run.results)
  BY <1>1, <1>2 DEF Demands
<1>4. winner \in BranchResults
  BY DEF Desks
<1> QED
  BY <1>3, <1>4
  DEF QA!QATestEvidence, QA!QASecurity, QA!MissingReports, QA!TestReports, BranchResults

QAAsked ==
  input.topic = "qa" =>
    \E troubles : \E average \in Int, winner \in BranchResults, others \in SUBSET BranchResults :
      input = [topic |-> "qa", winner |-> winner,
               desk |-> Desk(troubles, average, winner, others)]

\* What qsm qa passes stands behind the winner and passes every lower profile, in every state.
THEOREM QAAlwaysHolds == Spec => []QAPassHolds
<1>1. Init => QAAsked
  BY DEF Init, QAAsked
<1>2. QAAsked /\ [Next]_<<input, listed>> => QAAsked'
  <2> SUFFICES ASSUME QAAsked, Next, input'.topic = "qa", input' # input PROVE QAAsked'
    BY DEF QAAsked
  <2>1. AskQA
    BY TopicOfTheAction
  <2>2. Winners \subseteq BranchResults /\ Others \subseteq BranchResults
    <3>1. \A ok, tested, passed, failed, weak, severe \in BOOLEAN :
            Result(ok, tested, passed, failed, weak, severe) \in BranchResults
      BY DEF Result, BranchResults
    <3>2. Fine \in BranchResults
      BY <3>1 DEF Fine
    <3>3. /\ [Fine EXCEPT !.passed = FALSE] \in BranchResults
          /\ [Fine EXCEPT !.failed = TRUE] \in BranchResults
          /\ [Fine EXCEPT !.weak = TRUE] \in BranchResults
          /\ [Fine EXCEPT !.severe = TRUE] \in BranchResults
          /\ [Fine EXCEPT !.ok = FALSE] \in BranchResults
      BY <3>2 DEF BranchResults
    <3> QED
      BY <3>1, <3>2, <3>3 DEF Winners, Others
  <2> QED
    BY <2>1, <2>2 DEF AskQA, QAAsked
<1>3. QAAsked => QAPassHolds
  <2> SUFFICES ASSUME QAAsked, input.topic = "qa" PROVE WinnerStands /\ ProfilesNest
    BY DEF QAPassHolds
  <2>1. PICK troubles : \E average \in Int, winner \in BranchResults,
                           others \in SUBSET BranchResults :
          input = [topic |-> "qa", winner |-> winner,
                   desk |-> Desk(troubles, average, winner, others)]
    BY DEF QAAsked
  <2>2. /\ input.desk \in Desks
        /\ input.winner \in input.desk.run.results
        /\ input.desk.approved => input.winner.ok
    <3>1. PICK average \in Int, winner \in BranchResults, others \in SUBSET BranchResults :
            input = [topic |-> "qa", winner |-> winner,
                     desk |-> Desk(troubles, average, winner, others)]
      BY <2>1
    <3>2. input.winner = winner /\ input.desk = Desk(troubles, average, winner, others)
      BY <3>1
    <3>3. input.desk \in Desks
      BY <3>2, DesksOfTheRun
    <3>4. /\ Desk(troubles, average, winner, others).run.results = {winner} \cup others
          /\ Desk(troubles, average, winner, others).approved => winner.ok
      BY DeskOfWinner
    <3> QED
      BY <3>2, <3>3, <3>4
  <2>3. WinnerStands
    BY <2>2, PassStandsBehindWinner DEF WinnerStands
  <2>4. ProfilesNest
    BY <2>2, HigherProfilesAskMore DEF ProfilesNest
  <2> QED
    BY <2>3, <2>4
<1> QED
  BY <1>1, <1>2, <1>3, PTL DEF Spec

-----------------------------------------------------------------------------
(***************************************************************************)
(* Force: what the scores promise for every set of evidence.  They are     *)
(* scores, more evidence never lowers one, the caps included, and what is  *)
(* left of the gate of the local collapse once the verdict is an approval. *)
(***************************************************************************)
\* What each score is and that it grows with the evidence; the points are compared one by one.
LEMMA ScalabilityGrows ==
  ASSUME NEW e, NEW f, e \subseteq f
  PROVE  /\ Scores!ScalabilityScore(e) \in 0 .. 40
         /\ Scores!ScalabilityScore(e) <= Scores!ScalabilityScore(f)
BY SMTT(30) DEF Scores!ScalabilityScore, Scores!Cap, Scores!Pts, Scores!All, Scores!HostedCI

LEMMA ReliabilityGrows ==
  ASSUME NEW e, NEW f, e \subseteq f
  PROVE  /\ Scores!ReliabilityScore(e) \in 0 .. 40
         /\ Scores!ReliabilityScore(e) <= Scores!ReliabilityScore(f)
BY SMTT(30) DEF Scores!ReliabilityScore, Scores!Cap, Scores!Pts, Scores!All, Scores!RunCounted

LEMMA SelfHealingGrows ==
  ASSUME NEW e, NEW f, e \subseteq f
  PROVE  /\ Scores!SelfHealingScore(e) \in 0 .. 40
         /\ Scores!SelfHealingScore(e) <= Scores!SelfHealingScore(f)
BY SMTT(30) DEF Scores!SelfHealingScore, Scores!Cap, Scores!Pts, Scores!All

LEMMA ObservabilityGrows ==
  ASSUME NEW e, NEW f, e \subseteq f
  PROVE  /\ Scores!ObservabilityScore(e) \in 0 .. 40
         /\ Scores!ObservabilityScore(e) <= Scores!ObservabilityScore(f)
BY SMTT(30) DEF Scores!ObservabilityScore, Scores!Cap, Scores!Pts, Scores!All, Scores!HostedCI

LEMMA SecurityGrows ==
  ASSUME NEW e, NEW f, e \subseteq f
  PROVE  /\ Scores!SecurityScore(e) \in 0 .. 40
         /\ Scores!SecurityScore(e) <= Scores!SecurityScore(f)
BY SMTT(30) DEF Scores!SecurityScore, Scores!Cap, Scores!Pts, Scores!All, Scores!HostedCI

LEMMA CostGrows ==
  ASSUME NEW e, NEW f, e \subseteq f
  PROVE  /\ Scores!CostScore(e) \in 0 .. 40
         /\ Scores!CostScore(e) <= Scores!CostScore(f)
BY SMTT(30) DEF Scores!CostScore, Scores!Cap, Scores!Pts, Scores!All, Scores!HostedCI

LEMMA MaintainabilityGrows ==
  ASSUME NEW e, NEW f, e \subseteq f
  PROVE  /\ Scores!MaintainabilityScore(e) \in 0 .. 40
         /\ Scores!MaintainabilityScore(e) <= Scores!MaintainabilityScore(f)
BY SMTT(30) DEF Scores!MaintainabilityScore, Scores!Cap, Scores!Pts, Scores!All, Scores!HostedCI

LEMMA UsabilityGrows ==
  ASSUME NEW e, NEW f, e \subseteq f
  PROVE  /\ Scores!UsabilityScore(e) \in 0 .. 40
         /\ Scores!UsabilityScore(e) <= Scores!UsabilityScore(f)
BY SMTT(30) DEF Scores!UsabilityScore, Scores!Cap, Scores!Pts, Scores!All, Scores!HostedCI

LEMMA OperationsGrows ==
  ASSUME NEW e, NEW f, e \subseteq f
  PROVE  /\ Scores!OperationsScore(e) \in 0 .. 40
         /\ Scores!OperationsScore(e) <= Scores!OperationsScore(f)
BY SMTT(30)
DEF Scores!OperationsScore, Scores!Cap, Scores!Pts, Scores!All, Scores!HostedCI,
    Scores!RunCounted

LEMMA BusinessGrows ==
  ASSUME NEW e, NEW f, e \subseteq f
  PROVE  /\ Scores!BusinessScore(e) \in 0 .. 40
         /\ Scores!BusinessScore(e) <= Scores!BusinessScore(f)
BY SMTT(30) DEF Scores!BusinessScore, Scores!Cap, Scores!Pts, Scores!All, Scores!HostedCI

-----------------------------------------------------------------------------
\* Every category has a score of at most ten, which is forty quarters (scoring.go:626).
THEOREM ScoresBounded ==
  ASSUME NEW e, NEW i \in Scores!Categories
  PROVE  Scores!CategoryScore(e, i) \in 0 .. 40
BY ScalabilityGrows, ReliabilityGrows, SelfHealingGrows, ObservabilityGrows, SecurityGrows,
   CostGrows, MaintainabilityGrows, UsabilityGrows, OperationsGrows, BusinessGrows
   DEF Scores!Categories, Scores!CategoryScore

\* A fact more in evidence lowers no score, although caps depend on the evidence themselves
\* (scoring.go:209-582).
THEOREM MoreEvidenceNeverLowers ==
  ASSUME NEW e, NEW f, e \subseteq f, NEW i \in Scores!Categories
  PROVE  Scores!CategoryScore(e, i) <= Scores!CategoryScore(f, i)
BY ScalabilityGrows, ReliabilityGrows, SelfHealingGrows, ObservabilityGrows, SecurityGrows,
   CostGrows, MaintainabilityGrows, UsabilityGrows, OperationsGrows, BusinessGrows
   DEF Scores!Categories, Scores!CategoryScore

\* A report that attests less, or is not there, lets no score rise: what each source attests is
\* only added up (main.go:421-601).
THEOREM MissingReportsNeverRaise ==
  ASSUME NEW desk, NEW more, NEW i \in Scores!Categories,
         \A s \in Scores!Sources : desk[s] \subseteq more[s]
  PROVE  Scores!CategoryScore(Scores!ForceEvidence(desk), i)
           <= Scores!CategoryScore(Scores!ForceEvidence(more), i)
<1>1. Scores!ForceEvidence(desk) \subseteq Scores!ForceEvidence(more)
  BY DEF Scores!ForceEvidence
<1>2. QED
  BY <1>1, MoreEvidenceNeverLowers

-----------------------------------------------------------------------------
\* A status is a gap exactly below three points.
LEMMA GapIsBelowThree ==
  ASSUME NEW n \in 0 .. 40
  PROVE  Scores!StatusFromScore(n) \notin {"FAIL", "GAP"} <=> n >= 12
BY DEF Scores!StatusFromScore

\* The gate in terms of the scores: the least score of security is three, so that only a severe
\* finding can close the gate there.
LEMMA GateByScores ==
  ASSUME NEW e
  PROVE  Scores!ForceLocalCollapseGate(e) <=>
           Scores!ReliabilityScore(e) >= 12 /\ Scores!ObservabilityScore(e) >= 12 /\
           "NoSevere" \in e
<1>1. Scores!ReliabilityScore(e) \in 0 .. 40 /\ Scores!ObservabilityScore(e) \in 0 .. 40
  BY ReliabilityGrows, ObservabilityGrows
<1>2. Scores!SecurityScore(e) \in 12 .. 40
  BY SMTT(30) DEF Scores!SecurityScore, Scores!Cap, Scores!Pts, Scores!All, Scores!HostedCI
<1>3. Scores!CategoryStatus(e, 5) \notin {"FAIL", "GAP"} <=> "NoSevere" \in e
  BY <1>2, GapIsBelowThree DEF Scores!CategoryStatus, Scores!SecurityStatus
<1>4. Scores!CategoryStatus(e, 2) \notin {"FAIL", "GAP"} <=> Scores!ReliabilityScore(e) >= 12
  BY <1>1, GapIsBelowThree DEF Scores!CategoryStatus, Scores!CategoryScore
<1>5. Scores!CategoryStatus(e, 4) \notin {"FAIL", "GAP"} <=> Scores!ObservabilityScore(e) >= 12
  BY <1>1, GapIsBelowThree DEF Scores!CategoryStatus, Scores!CategoryScore
<1>6. QED
  BY <1>3, <1>4, <1>5 DEF Scores!ForceLocalCollapseGate

\* More evidence never closes the gate of the local collapse, nor takes the top tier away
\* (main.go:400, scoring.go:158).
THEOREM MoreEvidenceKeepsVerdicts ==
  ASSUME NEW e, NEW f, e \subseteq f
  PROVE  /\ Scores!ForceLocalCollapseGate(e) => Scores!ForceLocalCollapseGate(f)
         /\ Scores!TopTier(e) => Scores!TopTier(f)
<1>1. Scores!ForceLocalCollapseGate(e) => Scores!ForceLocalCollapseGate(f)
  <2>1. /\ Scores!ReliabilityScore(e) <= Scores!ReliabilityScore(f)
        /\ Scores!ObservabilityScore(e) <= Scores!ObservabilityScore(f)
        /\ {Scores!ReliabilityScore(e), Scores!ReliabilityScore(f),
             Scores!ObservabilityScore(e), Scores!ObservabilityScore(f)} \subseteq 0 .. 40
    BY ReliabilityGrows, ObservabilityGrows, f \subseteq f
  <2>2. QED
    BY <2>1, GateByScores
<1>2. Scores!Total(e) >= 360 => Scores!Total(f) >= 360
  <2> DEFINE a(i) == Scores!CategoryScore(e, i)
             b(i) == Scores!CategoryScore(f, i)
  <2>1. /\ Scores!Total(e) = a(1) + a(2) + a(3) + a(4) + a(5) + a(6) + a(7) + a(8) + a(9) + a(10)
        /\ Scores!Total(f) = b(1) + b(2) + b(3) + b(4) + b(5) + b(6) + b(7) + b(8) + b(9) + b(10)
    BY DEF Scores!Total, Scores!CategoryScore
  <2>2. \A i \in 1 .. 10 : a(i) \in Int /\ b(i) \in Int /\ a(i) <= b(i)
    BY ScoresBounded, MoreEvidenceNeverLowers DEF Scores!Categories
  <2> HIDE DEF a, b
  <2>3. \A i \in {1, 2, 3, 4, 5, 6, 7, 8, 9, 10} : a(i) \in Int /\ b(i) \in Int /\ a(i) <= b(i)
    BY <2>2
  <2> QED
    BY <2>1, <2>3
<1>3. \A i \in Scores!Categories : Scores!CategoryScore(e, i) >= 28 =>
        Scores!CategoryScore(f, i) >= 28
  BY ScoresBounded, MoreEvidenceNeverLowers
<1>4. QED
  BY <1>1, <1>2, <1>3 DEF Scores!TopTier

\* When the verdict is an approval and every node is accounted for, the gate is closed by severe
\* findings alone: the files that only observe the run do not decide (main.go:400-419).
THEOREM GateAfterApproval ==
  ASSUME NEW e, {"RunPresent", "AllNodesAccounted", "CollapseApproved"} \subseteq e
  PROVE  Scores!ForceLocalCollapseGate(e) <=> "NoSevere" \in e
<1>1. Scores!ReliabilityScore(e) >= 12
  BY SMTT(30) DEF Scores!ReliabilityScore, Scores!Cap, Scores!Pts, Scores!All, Scores!RunCounted
<1>2. Scores!ObservabilityScore(e) >= 12
  BY SMTT(30) DEF Scores!ObservabilityScore, Scores!Cap, Scores!Pts, Scores!All, Scores!HostedCI
<1>3. QED
  BY <1>1, <1>2, GateByScores

\* Less evidence, no higher score; and a category of security that is failed stays failed.
LEMMA LessEvidence ==
  ASSUME NEW d, NEW e, d \subseteq e, NEW i \in Scores!Categories
  PROVE  /\ Scores!CategoryScore(d, i) <= Scores!CategoryScore(e, i)
         /\ i = 5 /\ Scores!CategoryStatus(e, i) \in {"FAIL", "GAP"} =>
              Scores!CategoryStatus(d, i) \in {"FAIL", "GAP"}
<1>2. /\ Scores!CategoryScore(d, i) <= Scores!CategoryScore(e, i)
      /\ Scores!CategoryScore(d, i) \in 0 .. 40 /\ Scores!CategoryScore(e, i) \in 0 .. 40
  BY MoreEvidenceNeverLowers, ScoresBounded
<1>3. ASSUME i = 5, Scores!CategoryStatus(e, 5) \in {"FAIL", "GAP"}
      PROVE  Scores!CategoryStatus(d, 5) \in {"FAIL", "GAP"}
  <2>1. /\ Scores!SecurityScore(d) = Scores!CategoryScore(d, i)
        /\ Scores!SecurityScore(e) = Scores!CategoryScore(e, i)
    BY <1>3 DEF Scores!CategoryScore
  <2>2. CASE "NoSevere" \in d
    <3>1. "NoSevere" \in e
      BY <2>2
    <3>2. Scores!StatusFromScore(Scores!SecurityScore(e)) \in {"FAIL", "GAP"}
      BY <1>3, <3>1 DEF Scores!CategoryStatus, Scores!SecurityStatus
    <3>3. Scores!SecurityScore(d) < 12
      BY <1>2, <2>1, <3>2 DEF Scores!StatusFromScore
    <3> QED
      BY <1>2, <2>1, <2>2, <3>3
         DEF Scores!CategoryStatus, Scores!SecurityStatus, Scores!StatusFromScore
  <2>3. CASE "NoSevere" \notin d
    BY <2>3 DEF Scores!CategoryStatus, Scores!SecurityStatus
  <2> QED
    BY <2>2, <2>3
<1> QED
  BY <1>2, <1>3

\* Every fact that a category looks at is attested by some report (main.go:421-601).
LEMMA RegardsAreFacts ==
  ASSUME NEW i \in Scores!Categories
  PROVE  Regards(i) \subseteq Scores!Facts
<1> DEFINE A == Scores!Attests
<1>1. \A f : (\E s \in DOMAIN A : f \in A[s]) => f \in Scores!Facts
  BY DEF Scores!Facts, Scores!Sources
<1>2. {"cost", "sandbox", "compliance", "benchmark", "trace", "coverage", "mutation", "flake",
       "budget", "ci", "stress", "recovery", "contributor", "ops", "self", "lake", "routes", "root",
       "plan", "verdict", "run"} \subseteq DOMAIN A
  BY DEF Scores!Attests
<1>3. /\ A["cost"] = {"CostReport", "Tokens"}
      /\ A["sandbox"] = {"SandboxReport", "HardSandbox"}
      /\ A["compliance"] = {"CompliancePassed", "SBOM"}
      /\ A["benchmark"] = {"BenchmarkPresent", "BenchmarkTasks", "BenchmarkAllPassed",
                           "OfficialBenchmark"}
      /\ A["trace"] = {"TraceReport", "TracePassed"}
      /\ A["coverage"] = {"CoveragePassed"}
      /\ A["flake"] = {"FlakePassed"}
      /\ A["budget"] = {"CostBudgetPassed"}
      /\ A["ci"] = {"CIPresent", "CIPassed", "CICI"}
      /\ A["stress"] = {"StressPassed", "StressNodes7", "StressParallel4", "LargeRepoPassed",
                        "LargeRepo1000"}
      /\ A["recovery"] = {"RecoveryPassed", "Recovered90"}
      /\ A["contributor"] = {"ContributorPassed"}
      /\ A["ops"] = {"OpsPassed", "ApprovalGate", "ArtifactRetention", "Runbook"}
      /\ A["self"] = {"SelfImprovePassed", "SelfImproveCycles3", "NoRepeatedFailure"}
      /\ A["lake"] = {"LakeReport", "LakeEnterprise", "DecisionCited"}
      /\ A["routes"] = {"RouteFresh", "HealthyRoutes", "TotalRoutes"}
      /\ A["root"] = {"AutorunState", "AuditOK", "CIWorkflow", "LaunchdPlist"}
      /\ A["plan"] = {"PlanApproved"}
      /\ A["verdict"] = {"CollapseApproved"}
      /\ A["run"] = {"RunPresent", "Nodes7", "Concurrency2", "AllNodesAccounted", "Retries",
                     "CacheItems", "TestCommands", "NoFailedTests", "NoSevere", "Simulated"}
  BY DEF Scores!Attests
<1> HIDE DEF A
<1>4. A["cost"] \cup A["sandbox"] \cup A["compliance"] \cup A["benchmark"] \cup A["trace"]
      \cup A["coverage"] \cup A["flake"] \cup A["budget"] \cup A["ci"] \cup A["stress"]
      \cup A["recovery"] \cup A["contributor"] \cup A["ops"] \cup A["self"] \cup A["lake"]
      \cup A["routes"] \cup A["root"] \cup A["plan"] \cup A["verdict"] \cup A["run"]
        \subseteq Scores!Facts
  BY <1>1, <1>2
<1> QED
  BY <1>3, <1>4 DEF Regards, Scores!Categories

ForceAsked ==
  input.topic = "force" =>
    \E i \in Scores!Categories : \E e \in SUBSET Scores!Facts :
      input = [topic |-> "force", category |-> i, evidence |-> e]

\* A report that goes missing or a fact that no longer holds raises no score and opens no gate, in
\* every state: the caps, which depend on the evidence themselves, do not undo it
\* (scoring.go:113-430).
THEOREM LessEvidenceNeverRaises == Spec => []EvidenceNeverLowers
<1>1. Init => ForceAsked
  BY DEF Init, ForceAsked
<1>2. ForceAsked /\ [Next]_<<input, listed>> => ForceAsked'
  <2> SUFFICES ASSUME ForceAsked, Next, input'.topic = "force", input' # input PROVE ForceAsked'
    BY DEF ForceAsked
  <2>1. AskForce
    BY TopicOfTheAction
  <2> QED
    BY <2>1, RegardsAreFacts DEF AskForce, ForceAsked
<1>3. ForceAsked => EvidenceNeverLowers
  <2> SUFFICES ASSUME ForceAsked, input.topic = "force" PROVE EvidenceNeverLowers
    BY DEF EvidenceNeverLowers
  <2>1. PICK i \in Scores!Categories : \E e \in SUBSET Scores!Facts :
          input = [topic |-> "force", category |-> i, evidence |-> e]
    BY DEF ForceAsked
  <2>2. PICK e \in SUBSET Scores!Facts :
          input = [topic |-> "force", category |-> i, evidence |-> e]
    BY <2>1
  <2>3. input.evidence = e /\ input.category = i
    BY <2>2
  <2> DEFINE desk == [s \in Scores!Sources |-> e \cap Scores!Attests[s]]
             less == {Scores!ForceEvidence([desk EXCEPT ![s] = {}]) :
                        s \in {x \in Scores!Sources : desk[x] # {}}} \cup {e \ {f} : f \in e}
  <2>4. Scores!ForceEvidence(desk) = e
    BY DEF Scores!ForceEvidence, Scores!Facts
  <2>5. ASSUME NEW d \in less PROVE d \subseteq e
    <3>1. CASE d \in {e \ {f} : f \in e}
      BY <3>1
    <3>2. CASE d \notin {e \ {f} : f \in e}
      <4>1. PICK s \in Scores!Sources : d = Scores!ForceEvidence([desk EXCEPT ![s] = {}])
        BY <2>5, <3>2
      <4>2. \A x \in Scores!Sources : [desk EXCEPT ![s] = {}][x] \subseteq e
        OBVIOUS
      <4> QED
        BY <4>1, <4>2 DEF Scores!ForceEvidence
    <3> QED
      BY <3>1, <3>2
  <2> HIDE DEF desk, less
  <2>6. \A d \in less :
          /\ Scores!CategoryScore(d, i) <= Scores!CategoryScore(e, i)
          /\ i = 5 /\ Scores!CategoryStatus(e, i) \in {"FAIL", "GAP"} =>
               Scores!CategoryStatus(d, i) \in {"FAIL", "GAP"}
    BY <2>5, LessEvidence
  <2> QED
    BY <2>3, <2>4, <2>6 DEF EvidenceNeverLowers, desk, less
<1> QED
  BY <1>1, <1>2, <1>3, PTL DEF Spec

-----------------------------------------------------------------------------
(***************************************************************************)
(* Lessons                                                                 *)
(***************************************************************************)
\* Whatever the policy and the limits, a promoted recipe was said by two verified and confident
\* items at least, and no candidate that may be promoted and is stronger is passed over: the first
\* cut, before the filter, hides only candidates that are no stronger (promotion.go:33-154).
THEOREM StrongestArePromoted ==
  ASSUME NEW items, NEW policy, NEW signal, NEW look,
         NEW promoted \in Knowledge!Promotions(items, policy, signal, look)
  PROVE  /\ \A p \in promoted :
              Knowledge!Cardinality({i \in Knowledge!Recipes(items) : i.content = p.content}) >= 2
         /\ \A p \in promoted,
               c \in Knowledge!Promotable(Knowledge!Candidates(items), policy, signal) \ promoted :
              ~Knowledge!Stronger(c, p)
<1> DEFINE all == Knowledge!Candidates(items)
<1>1. \A S, n : \A T \in Knowledge!Cuts(S, n) :
        T \subseteq S /\ \A c \in S \ T : \A d \in T : ~Knowledge!Stronger(c, d)
  BY DEF Knowledge!Cuts, Knowledge!kSubset
<1>2. PICK seen \in Knowledge!Cuts(all, look) :
        promoted \in Knowledge!Cuts(Knowledge!Promotable(seen, policy, signal),
                                    Knowledge!Policy(policy).most)
  BY DEF Knowledge!Promotions
<1>3. \A S : \A c : c \in Knowledge!Promotable(S, policy, signal) <=>
        c \in S /\ c \in Knowledge!Promotable({c}, policy, signal)
  BY DEF Knowledge!Promotable
<1>4. \A p \in promoted : p \in seen /\ p \in all
  BY <1>1, <1>2, <1>3
<1>5. \A p \in all :
        Knowledge!Cardinality({i \in Knowledge!Recipes(items) : i.content = p.content}) >= 2
  <2> TAKE p \in all
  <2>1. p.count >= 2 /\ \E i \in Knowledge!Recipes(items) :
          p = Knowledge!Candidate(items, i.content)
    BY DEF Knowledge!Candidates
  <2>2. PICK j \in Knowledge!Recipes(items) : p = Knowledge!Candidate(items, j.content)
    BY <2>1
  <2>3. /\ p.content = j.content
        /\ p.count
             = Knowledge!Cardinality({i \in Knowledge!Recipes(items) : i.content = j.content})
    BY <2>2 DEF Knowledge!Candidate
  <2> QED
    BY <2>1, <2>3
<1> HIDE DEF all
<1>6. ASSUME NEW p \in promoted, NEW c \in Knowledge!Promotable(all, policy, signal) \ promoted
      PROVE  ~Knowledge!Stronger(c, p)
  <2>1. CASE c \in seen
    <3> DEFINE may == Knowledge!Promotable(seen, policy, signal)
    <3>1. c \in may \ promoted
      BY <1>3, <2>1
    <3> HIDE DEF may
    <3>2. \A d \in promoted : ~Knowledge!Stronger(c, d)
      BY <1>1, <1>2, <3>1 DEF may
    <3> QED
      BY <3>2
  <2>2. CASE c \notin seen
    BY <1>1, <1>2, <1>3, <1>4, <2>2
  <2> QED
    BY <2>1, <2>2
<1> QED
  BY <1>4, <1>5, <1>6 DEF all

\* A branch that failed by its gates or by its error alone is what the report counts.
LEMMA LoneFailureCounts ==
  ASSUME NEW r
  PROVE  Failure!Analyze({r}, 1, {}).passed <=> ~Failure!Succeeded(r)
<1> DEFINE bad == {x \in {r} : ~Failure!Succeeded(x)}
<1>1. Failure!Analyze({r}, 1, {}).passed <=> Failure!Cardinality(bad) >= 1
  BY DEF Failure!Analyze
<1>2. Failure!Cardinality({r}) = 1 /\ Failure!Cardinality({}) = 0
  BY FS_Singleton, FS_EmptySet DEF Failure!Cardinality, Cardinality
<1>3. bad = IF Failure!Succeeded(r) THEN {} ELSE {r}
  OBVIOUS
<1> QED
  BY <1>1, <1>2, <1>3

\* A regrowth of a failed branch starts from a checkpoint exactly if the room has one of a phase
\* before the tests, and then from one that is there (failure.go:101-186).
THEOREM RegrowthFindsCheckpoint ==
  ASSUME NEW r, r.room \subseteq {"plan", "scaffold", "build", "test"},
         NEW f \in Failure!Analyze({r}, 1, {}).failures
  PROVE  f.checkpoint \in IF r.room \subseteq {"test"} THEN {""} ELSE r.room \ {"test"}
<1> DEFINE found == {i \in 1 .. 4 : Failure!Phases(r)[i] \in r.room}
           first == CHOOSE i \in found : \A j \in found : i <= j
<1>1. Failure!CheckpointPhase(r) \in {"plan", "scaffold", "build"}
  BY DEF Failure!CheckpointPhase, Failure!Class, Failure!Cause
<1>2. /\ \A i \in 1 .. 4 : Failure!Phases(r)[i] \in {"plan", "scaffold", "build"}
      /\ Failure!Phases(r)[2] = "build" /\ Failure!Phases(r)[3] = "scaffold"
      /\ Failure!Phases(r)[4] = "plan"
  BY <1>1 DEF Failure!Phases
<1>3. found = {} <=> r.room \subseteq {"test"}
  BY <1>2
<1>4. ASSUME found # {} PROVE first \in found
  <2>1. \E i \in found : \A j \in found : i <= j
    BY <1>4
  <2> QED
    BY <2>1
<1>5. Failure!BestCheckpoint(r) = IF found = {} THEN "" ELSE Failure!Phases(r)[first]
  BY DEF Failure!BestCheckpoint
<1>6. f.checkpoint = Failure!BestCheckpoint(r)
  BY DEF Failure!Analyze, Failure!Record
<1> HIDE DEF first
<1> QED
  BY <1>2, <1>3, <1>4, <1>5, <1>6

\* The cardinalities that the modules count with are those of FiniteSets.
LEMMA SameCardinality ==
  \A S :
    /\ Knowledge!Cardinality(S) = Cardinality(S)
    /\ Bench!Cardinality(S) = Cardinality(S)
    /\ Reports!Cardinality(S) = Cardinality(S)
    /\ Branches!Cardinality(S) = Cardinality(S)
    /\ Cache!Cardinality(S) = Cardinality(S)
BY DEF Knowledge!Cardinality, Bench!Cardinality, Reports!Cardinality, Branches!Cardinality,
       Knowledge!IsFiniteSet, Bench!IsFiniteSet, Reports!IsFiniteSet, Branches!IsFiniteSet,
       Cache!Cardinality, Cache!IsFiniteSet, Cardinality, IsFiniteSet

\* Of up to three nodes, seventy per cent are all: none of them may be without a citation or a
\* fresh view (interaction.go:66-190).
THEOREM FewNodesMustAllCite ==
  ASSUME NEW S, NEW nodes \in Seq(S), Len(nodes) <= 3, NEW items,
         Knowledge!EnterpriseReady(nodes, items)
  PROVE  \A i \in DOMAIN nodes :
           nodes[i].refreshed /\ nodes[i].written /\ (nodes[i].cites # {} \/ nodes[i].wiki)
<1> DEFINE n   == Len(nodes)
           yes == {i \in 1 .. n : Knowledge!DecisionCited(nodes[i])}
<1>1. n \in Nat /\ DOMAIN nodes = 1 .. n
  OBVIOUS
<1>2. /\ \A i \in 1 .. n : nodes[i].refreshed /\ nodes[i].written
      /\ 100 * Cardinality(yes) >= 70 * n
  BY <1>1, SameCardinality DEF Knowledge!EnterpriseReady, Knowledge!Covered
<1>3. IsFiniteSet(1 .. n) /\ Cardinality(1 .. n) = n
  BY <1>1, UpTo
<1>4. /\ Cardinality(yes) \in Nat /\ Cardinality(yes) <= n
      /\ Cardinality(yes) = n => yes = 1 .. n
  BY <1>3, FS_Subset, FS_CardinalityType
<1> HIDE DEF yes
<1>5. Cardinality(yes) = n
  BY <1>1, <1>2, <1>4
<1>6. \A i \in 1 .. n : Knowledge!DecisionCited(nodes[i])
  BY <1>4, <1>5 DEF yes
<1> QED
  BY <1>1, <1>2, <1>6 DEF Knowledge!DecisionCited, Knowledge!CacheCited

\* However many cycles there are, self-improvement that passes never saw a task fail in two of
\* them, ends with a gain or with nothing left to gain, and left a lesson of each cycle in the
\* cache (main.go:4143-4274).
THEOREM ImprovementNeverRelapses ==
  ASSUME NEW tasks, NEW S, NEW c \in Seq(S), \A i \in DOMAIN c : c[i].passed \subseteq tasks,
         Bench!SelfImprovePassed(c, tasks)
  PROVE  /\ \A i, j \in DOMAIN c : i # j => c[i].passed \cup c[j].passed = tasks
         /\ \/ c[Len(c)].force - c[1].force >= 5 \/ c[Len(c)].force >= 95
            \/ \A i \in DOMAIN c : c[i].passed = tasks
         /\ \A i \in DOMAIN c : c[i].cached
<1>1. ASSUME NEW i \in DOMAIN c, NEW j \in DOMAIN c, i # j, NEW t \in tasks,
             t \notin c[i].passed, t \notin c[j].passed
      PROVE  FALSE
  <2> DEFINE failed == {k \in DOMAIN c : t \notin c[k].passed}
  <2>1. Bench!Failures(c, t) = Cardinality(failed)
    BY SameCardinality DEF Bench!Failures
  <2>2. ~(Cardinality(failed) > 1)
    BY <2>1 DEF Bench!SelfImprovePassed, Bench!Repeated
  <2>3. IsFiniteSet(DOMAIN c)
    <3>1. DOMAIN c = 1 .. Len(c) /\ Len(c) \in Nat
      OBVIOUS
    <3>2. IsFiniteSet(1 .. Len(c))
      BY <3>1, UpTo
    <3> QED
      BY <3>1, <3>2
  <2>4. IsFiniteSet(failed)
    BY <2>3, FS_Subset
  <2>5. {i} \subseteq failed /\ {i} # failed
    BY <1>1
  <2>6. Cardinality({i}) = 1 /\ IsFiniteSet({i})
    BY FS_Singleton
  <2> HIDE DEF failed
  <2>7. Cardinality(failed) \in Nat /\ 1 <= Cardinality(failed) /\ Cardinality(failed) # 1
    BY <2>4, <2>5, <2>6, FS_Subset, FS_CardinalityType
  <2> QED
    BY <2>2, <2>7
<1>2. \A i, j \in DOMAIN c : i # j => c[i].passed \cup c[j].passed = tasks
  BY <1>1
<1>3. \A i \in DOMAIN c : c[i].cached
  BY DEF Bench!SelfImprovePassed
<1>4. \/ c[Len(c)].force - c[1].force >= 5 \/ c[Len(c)].force >= 95
      \/ \A i \in DOMAIN c : c[i].passed = tasks
  BY DEF Bench!SelfImprovePassed, Bench!Saturated
<1> QED
  BY <1>2, <1>3, <1>4

LessonAsked ==
  /\ input.topic = "promotion" => \A i \in input.items : i.recipe
  /\ input.topic = "failure" =>
       input.result.error \in BOOLEAN /\ input.result.room \subseteq {"plan", "build", "test"}
  /\ input.topic = "knowledge" => input.nodes \in Seq(Nodes) /\ Len(input.nodes) <= 3
  /\ input.topic = "improvement" => input.cycles \in Seq(Cycles) /\ Len(input.cycles) = 3

LEMMA LessonsAsked == Spec => []LessonAsked
<1>1. Init => LessonAsked
  BY DEF Init, LessonAsked
<1>2. LessonAsked /\ [Next]_<<input, listed>> => LessonAsked'
  <2> SUFFICES ASSUME LessonAsked, Next, input' # input PROVE LessonAsked'
    BY DEF LessonAsked
  <2>1. CASE AskPromotion
    <3>1. \A i \in RecipeBook : i.recipe
      BY DEF RecipeBook, Recipe
    <3> QED
      BY <2>1, <3>1 DEF AskPromotion, LessonAsked
  <2>2. CASE AskFailure
    BY <2>2 DEF AskFailure, LessonAsked
  <2>3. CASE AskKnowledge
    <3>1. PICK nodes \in SeqsUpTo(Nodes, 2), last \in Nodes :
            input' = [topic |-> "knowledge", nodes |-> Append(nodes, last)]
      BY <2>3 DEF AskKnowledge
    <3>2. PICK k \in 0 .. 2 : nodes \in [1 .. k -> Nodes]
      BY DEF SeqsUpTo
    <3>3. nodes \in Seq(Nodes) /\ Len(nodes) <= 2
      BY <3>2
    <3>4. Append(nodes, last) \in Seq(Nodes) /\ Len(Append(nodes, last)) <= 3
      BY <3>3
    <3> QED
      BY <3>1, <3>4 DEF LessonAsked
  <2>4. CASE AskImprovement
    <3>1. PICK first, second, third \in Cycles :
            input' = [topic |-> "improvement", cycles |-> <<first, second, third>>]
      BY <2>4 DEF AskImprovement
    <3>2. <<first, second, third>> \in Seq(Cycles) /\ Len(<<first, second, third>>) = 3
      OBVIOUS
    <3> QED
      BY <3>1, <3>2 DEF LessonAsked
  <2> QED
    BY <2>1, <2>2, <2>3, <2>4, TopicOfTheAction DEF LessonAsked
<1> QED
  BY <1>1, <1>2, PTL DEF Spec

\* What is learnt from a run is earned, in every state: promotions, checkpoints of a regrowth,
\* the enterprise readiness of the lake and the verdict of self-improvement.
THEOREM LessonsAlwaysEarned == Spec => []LessonsEarned
<1>1. LessonAsked => PromotionsStrongest
  <2> SUFFICES ASSUME LessonAsked, input.topic = "promotion" PROVE PromotionsStrongest
    BY DEF PromotionsStrongest
  <2>1. \A c : {i \in Knowledge!Recipes(input.items) : i.content = c}
                 = {i \in input.items : i.content = c /\ i.verified /\ i.confidence >= 75}
    BY DEF LessonAsked, Knowledge!Recipes
  <2>2. \A promoted \in Knowledge!Promotions(input.items, input.policy, input.signal, input.look) :
          /\ \A p \in promoted :
               Cardinality({i \in input.items :
                              i.content = p.content /\ i.verified /\ i.confidence >= 75}) >= 2
          /\ \A p \in promoted,
                c \in Knowledge!Promotable(Knowledge!Candidates(input.items), input.policy,
                                           input.signal) \ promoted :
               ~Knowledge!Stronger(c, p)
    BY <2>1, SameCardinality, StrongestArePromoted
  <2> QED
    BY <2>2 DEF PromotionsStrongest
<1>2. LessonAsked => RegrowthSeeded
  <2> SUFFICES ASSUME LessonAsked, input.topic = "failure" PROVE RegrowthSeeded
    BY DEF RegrowthSeeded
  <2>1. /\ input.result.error \in BOOLEAN
        /\ input.result.room \subseteq {"plan", "scaffold", "build", "test"}
    BY DEF LessonAsked
  <2> DEFINE r == input.result
  <2> HIDE DEF r
  <2>2. Failure!Analyze({r}, 1, {}).passed <=> ~Failure!Succeeded(r)
    BY LoneFailureCounts
  <2>3. \A f \in Failure!Analyze({r}, 1, {}).failures :
          f.checkpoint \in IF r.room \subseteq {"test"} THEN {""} ELSE r.room \ {"test"}
    BY <2>1, RegrowthFindsCheckpoint DEF r
  <2>4. \A f \in Failure!Analyze({r}, 1, {}).failures :
          /\ f.checkpoint # "" <=> r.room \ {"test"} # {}
          /\ f.checkpoint \in (r.room \ {"test"}) \cup {""}
    BY <2>1, <2>3 DEF r
  <2> QED
    BY <2>1, <2>2, <2>4 DEF RegrowthSeeded, Failure!Succeeded, r
<1>3. LessonAsked => FewNodesAllCite
  BY FewNodesMustAllCite DEF LessonAsked, FewNodesAllCite
<1>4. LessonAsked => NoRelapse
  <2> SUFFICES ASSUME LessonAsked, input.topic = "improvement",
                      Bench!SelfImprovePassed(input.cycles, {"t1", "t2"})
               PROVE  NoRelapse
    BY DEF NoRelapse
  <2> DEFINE c == input.cycles
  <2>1. c \in Seq(Cycles) /\ Len(c) = 3 /\ DOMAIN c = 1 .. 3 /\ \A i \in DOMAIN c : c[i] \in Cycles
    BY DEF LessonAsked
  <2>2. \A i \in DOMAIN c : c[i].passed \subseteq {"t1", "t2"} /\ c[i].force \in Int
    <3>1. \A cycle \in Cycles : cycle.passed \subseteq {"t1", "t2"} /\ cycle.force \in Int
      BY DEF Cycles
    <3> QED
      BY <2>1, <3>1
  <2>3. /\ \A i, j \in DOMAIN c : i # j => c[i].passed \cup c[j].passed = {"t1", "t2"}
        /\ \/ c[3].force - c[1].force >= 5 \/ c[3].force >= 95
           \/ \A i \in DOMAIN c : c[i].passed = {"t1", "t2"}
    <3>1. Bench!SelfImprovePassed(c, {"t1", "t2"})
      OBVIOUS
    <3> HIDE DEF c
    <3>2. \A i \in DOMAIN c : c[i].passed \subseteq {"t1", "t2"}
      BY <2>2
    <3>3. c \in Seq(Cycles) /\ Len(c) = 3
      BY <2>1
    <3>4. /\ \A i, j \in DOMAIN c : i # j => c[i].passed \cup c[j].passed = {"t1", "t2"}
          /\ \/ c[Len(c)].force - c[1].force >= 5 \/ c[Len(c)].force >= 95
             \/ \A i \in DOMAIN c : c[i].passed = {"t1", "t2"}
      BY <3>1, <3>2, <3>3, ImprovementNeverRelapses
    <3> QED
      BY <3>3, <3>4
  <2> HIDE DEF c
  <2> QED
    BY <2>1, <2>2, <2>3 DEF NoRelapse, c
<1>5. LessonAsked => LessonsEarned
  BY <1>1, <1>2, <1>3, <1>4 DEF LessonsEarned
<1> QED
  BY <1>5, LessonsAsked, PTL

-----------------------------------------------------------------------------
(***************************************************************************)
(* Reports                                                                 *)
(***************************************************************************)
\* The lines of the i-th command: its start, and its end or the blank in its place.
Opening(i) == 2 * i - 1
Closing(i) == 2 * i

LEMMA PlacesOfLines ==
  ASSUME NEW S, NEW starts \in Seq(S)
  PROVE  /\ DOMAIN LinesOf(starts) = 1 .. 2 * Len(starts)
         /\ \A i \in 1 .. Len(starts) :
              /\ Opening(i) \in DOMAIN LinesOf(starts) /\ Closing(i) \in DOMAIN LinesOf(starts)
              /\ LinesOf(starts)[Opening(i)] = Line("start", starts[i])
              /\ LinesOf(starts)[Closing(i)]
                   = Line(IF starts[i].ended THEN "end" ELSE "blank", starts[i])
         /\ \A k \in DOMAIN LinesOf(starts) :
              \E i \in 1 .. Len(starts) : k = Opening(i) \/ k = Closing(i)
<1> USE DEF Opening, Closing
<1>1. Len(starts) \in Nat
  OBVIOUS
<1>2. DOMAIN LinesOf(starts) = 1 .. 2 * Len(starts)
  BY DEF LinesOf
<1>3. ASSUME NEW i \in 1 .. Len(starts)
      PROVE  /\ 2 * i - 1 \in 1 .. 2 * Len(starts) /\ 2 * i \in 1 .. 2 * Len(starts)
             /\ ((2 * i - 1) + 1) \div 2 = i /\ (2 * i - 1) % 2 = 1
             /\ (2 * i + 1) \div 2 = i /\ (2 * i) % 2 = 0
  BY <1>1
<1>4. ASSUME NEW k \in 1 .. 2 * Len(starts)
      PROVE  \E i \in 1 .. Len(starts) : k = 2 * i - 1 \/ k = 2 * i
  <2>1. (k + 1) \div 2 \in 1 .. Len(starts)
    BY <1>1
  <2>2. k = 2 * ((k + 1) \div 2) - 1 \/ k = 2 * ((k + 1) \div 2)
    BY <1>1
  <2> QED
    BY <2>1, <2>2
<1>5. ASSUME NEW i \in 1 .. Len(starts)
      PROVE  /\ LinesOf(starts)[2 * i - 1] = Line("start", starts[i])
             /\ LinesOf(starts)[2 * i]
                  = Line(IF starts[i].ended THEN "end" ELSE "blank", starts[i])
  BY <1>3 DEF LinesOf
<1> QED
  BY <1>2, <1>3, <1>4, <1>5

\* A trace passes only if every command it shows came to an end inside its room: an end that never
\* came cannot be made up for by another command, although starts and ends are only counted by
\* name, over all attempts of the room (main.go:1964-2018).
THEOREM TraceCountsEveryCommand ==
  ASSUME NEW S, NEW starts \in Seq(S),
         Reports!TraceRoomPassed([there |-> TRUE, lines |-> LinesOf(starts)])
  PROVE  \A i \in DOMAIN starts : starts[i].ended /\ starts[i].inside
<1> DEFINE L == LinesOf(starts)
           n == Len(starts)
<1>1. n \in Nat /\ DOMAIN starts = 1 .. n
  OBVIOUS
<1>2. \A k \in DOMAIN L : /\ L[k].type = "start" => L[k].inside
                          /\ ~Reports!Unmatched(L, L[k].name)
  BY DEF Reports!TraceRoomPassed
<1>3. DOMAIN L = 1 .. 2 * n
  BY PlacesOfLines
<1>4. ASSUME NEW i \in 1 .. n
      PROVE  /\ Opening(i) \in DOMAIN L /\ Closing(i) \in DOMAIN L
             /\ L[Opening(i)].type = "start" /\ L[Opening(i)].name = starts[i].name
             /\ L[Opening(i)].inside = starts[i].inside
             /\ L[Closing(i)].type = IF starts[i].ended THEN "end" ELSE "blank"
             /\ L[Closing(i)].name = starts[i].name
  <2>1. /\ Opening(i) \in DOMAIN L /\ Closing(i) \in DOMAIN L
        /\ L[Opening(i)] = Line("start", starts[i])
        /\ L[Closing(i)] = Line(IF starts[i].ended THEN "end" ELSE "blank", starts[i])
    BY PlacesOfLines
  <2>2. \A s, type : /\ Line(type, s).type = type /\ Line(type, s).name = s.name
                     /\ Line(type, s).inside = s.inside
    BY DEF Line
  <2> HIDE DEF L
  <2> QED
    BY <2>1, <2>2
<1>5. \A k \in DOMAIN L : \E i \in 1 .. n : k = Opening(i) \/ k = Closing(i)
  BY PlacesOfLines
<1> HIDE DEF L, n
<1>6. \A i \in 1 .. n : starts[i].inside
  BY <1>2, <1>4
<1>7. ASSUME NEW i \in 1 .. n, ~starts[i].ended PROVE FALSE
  <2> DEFINE a == starts[i].name
             A == Reports!LinesOf(L, "start", a)
             E == Reports!LinesOf(L, "end", a)
             others == A \ {Opening(i)}
             back == [k \in E |-> k - 1]
  <2>1. ~(Cardinality(A) > Cardinality(E))
    <3>1. ~Reports!Unmatched(L, a)
      BY <1>2, <1>4
    <3> QED
      BY <3>1, SameCardinality DEF Reports!Unmatched
  <2>2. /\ \A k : k \in A <=> k \in DOMAIN L /\ L[k].type = "start" /\ L[k].name = a
        /\ \A k : k \in E <=> k \in DOMAIN L /\ L[k].type = "end" /\ L[k].name = a
    BY DEF Reports!LinesOf
  <2>3. IsFiniteSet(A) /\ IsFiniteSet(E)
    <3>1. 2 * n \in Nat
      BY <1>1
    <3>2. IsFiniteSet(DOMAIN L)
      BY <1>3, <3>1, UpTo
    <3>3. A \subseteq DOMAIN L /\ E \subseteq DOMAIN L
      BY <2>2
    <3> QED
      BY <3>2, <3>3, FS_Subset
  <2> HIDE DEF A, E
  <2>4. Opening(i) \in A
    BY <1>4, <2>2
  <2>5. ASSUME NEW k \in E PROVE k \in Int /\ k - 1 \in others
    <3>1. k \in DOMAIN L /\ L[k].type = "end" /\ L[k].name = a
      BY <2>2
    <3>2. PICK j \in 1 .. n : k = Opening(j) \/ k = Closing(j)
      BY <1>5, <3>1
    <3>3. k = Closing(j) /\ starts[j].ended /\ starts[j].name = a
      BY <1>4, <3>1, <3>2
    <3>4. Opening(j) \in A
      BY <1>4, <2>2, <3>3
    <3>5. Opening(j) # Opening(i)
      BY <1>7, <3>3 DEF Opening
    <3>6. k \in Int /\ k - 1 = Opening(j)
      BY <3>3 DEF Opening, Closing
    <3> QED
      BY <3>4, <3>5, <3>6
  <2>6. IsFiniteSet(others) /\ Cardinality(others) = Cardinality(A) - 1
    BY <2>3, <2>4, FS_RemoveElement
  <2>7. Cardinality(A) \in Nat /\ Cardinality(E) \in Nat
    BY <2>3, FS_CardinalityType
  <2>8. back \in [E -> others] /\ \A k \in E : back[k] = k - 1
    BY <2>5
  <2> HIDE DEF others, back
  <2>9. Cardinality(others) < Cardinality(E)
    BY <2>1, <2>6, <2>7
  <2>10. \E x, y \in E : x # y /\ back[x] = back[y]
    BY <2>3, <2>6, <2>8, <2>9, FS_PigeonHole
  <2> QED
    BY <2>5, <2>8, <2>10
<1> QED
  BY <1>1, <1>6, <1>7

-----------------------------------------------------------------------------
LEMMA FirstIsThere ==
  ASSUME NEW S \in SUBSET Nat, S # {}
  PROVE  Reports!FirstOf(S) \in S
BY SmallestOfSet DEF Reports!FirstOf

\* The flake and the mutation report together stand for a test that works: it fails on the mutated
\* copy, and passed each time it was run again on the product itself, whichever of the commands of
\* the branch was taken for the mutation (main.go:2405-2650).
THEOREM FlakeAndMutationProve ==
  ASSUME NEW bs, Reports!FlakePassed(bs), Reports!MutationPassed(bs),
         NEW b \in bs, b.report = "passed", b.product, DOMAIN b.commands \subseteq Nat
  PROVE  \E i \in DOMAIN b.commands :
           /\ Reports!Proving(b.commands[i]) /\ ~b.commands[i].copied
           /\ Reports!Deterministic(b.commands[i])
<1> DEFINE own == {i \in Reports!Repeated(b) : b.commands[i].origin = "manifest"}
           S   == IF own # {} THEN own ELSE Reports!Repeated(b)
           k   == Reports!FirstOf(S)
<1>1. Reports!Caught(b)
  BY DEF Reports!MutationPassed
<1>2. Reports!Repeated(b) # {} /\ ~Reports!FirstRequiredTestCommand(b).copied
  BY <1>1 DEF Reports!Caught
<1>3. Reports!Repeated(b) \subseteq DOMAIN b.commands
  BY DEF Reports!Repeated
<1>4. S # {} /\ S \subseteq Reports!Repeated(b) /\ S \in SUBSET Nat
  BY <1>2, <1>3
<1>5. Reports!FirstRequiredTestCommand(b) = b.commands[k]
  BY DEF Reports!FirstRequiredTestCommand
<1> HIDE DEF S
<1>6. k \in Reports!Repeated(b)
  BY <1>4, FirstIsThere
<1> HIDE DEF k
<1>7. Reports!Proving(b.commands[k])
  BY <1>6 DEF Reports!Repeated
<1>8. Reports!Deterministic(b.commands[k])
  BY <1>6 DEF Reports!FlakePassed
<1> QED
  BY <1>2, <1>3, <1>5, <1>6, <1>7, <1>8

\* The harness that a smoke calls ready is one the planning gate lets run, but for the tools on
\* the path: the two lists of files and modes agree (main.go:807, config.go:73, planning.go:148).
THEOREM ReadyMeetsTheGate ==
  ASSUME NEW mode, NEW host, NEW routes, Plans!SmokeReachesRun(mode, host, routes)
  PROVE  Plans!Blockers(mode, host, TRUE) \subseteq Plans!Tools
<1>1. mode \in {"opencode", "langchain"} /\ Plans!ReadinessPassed(mode, host)
  BY DEF Plans!SmokeReachesRun
<1>2. Plans!Validated(mode, host)
  BY <1>1 DEF Plans!ReadinessPassed, Plans!ReadinessModes, Plans!Ready
<1>3. Plans!HarnessMaterial(mode) \subseteq host.files
  BY <1>1, <1>2 DEF Plans!Validated, Plans!HarnessMaterial
<1>4. mode \in Plans!Modes
  BY <1>1 DEF Plans!Modes
<1> QED
  BY <1>3, <1>4 DEF Plans!Blockers

-----------------------------------------------------------------------------
\* What the questions about reports look like.
BranchAsked(ok, report, commands, copy, manifests, type) ==
  [ok |-> ok, product |-> TRUE, report |-> report, commands |-> commands, copy |-> copy,
   manifests |-> manifests, type |-> type, covered |-> TRUE]

TraceAsked(q) == q.topic = "trace" => q.starts \in Seq(Starts)

QualityAsked(q) ==
  q.topic = "quality" =>
    \E ok, report, commands, copy, manifests, type :
      /\ commands \in Seq(Commands) /\ type \in {"go", "static-web"}
      /\ manifests = <<>> \/ DOMAIN manifests # {}
      /\ q.branches = {BranchAsked(ok, report, commands, copy, manifests, type)}

SandboxAsked(q) ==
  q.topic = "sandbox" =>
    /\ q.probed \in BOOLEAN /\ q.backend \in {"auto", "docker", "room"}
    /\ q.machine.daemon \in BOOLEAN
    /\ q.seen \in SUBSET Reports!ProbeGoals

LimitsAsked(q) ==
  q.topic = "limits" =>
    /\ q.cost.tokens \in Int /\ q.cost.usd \in Int /\ q.duration \in Int
    /\ q.set.tokens \in Int /\ q.set.usd \in Int /\ q.set.duration \in Int
    /\ q.nodes \in Int /\ q.parallel \in Int

TaskAsked(q) == q.topic = "task" => q.root \in TaskRoots

ReportAsked ==
  /\ TraceAsked(input) /\ QualityAsked(input) /\ SandboxAsked(input)
  /\ LimitsAsked(input) /\ TaskAsked(input)

\* A question of another topic is none of these.
LEMMA AskedElsewhere ==
  ASSUME NEW q
  PROVE  /\ q.topic # "trace" => TraceAsked(q)
         /\ q.topic # "quality" => QualityAsked(q)
         /\ q.topic # "sandbox" => SandboxAsked(q)
         /\ q.topic # "limits" => LimitsAsked(q)
         /\ q.topic # "task" => TaskAsked(q)
BY DEF TraceAsked, QualityAsked, SandboxAsked, LimitsAsked, TaskAsked

LEMMA SequencesUpTo ==
  ASSUME NEW S, NEW n \in Nat, NEW s \in SeqsUpTo(S, n)
  PROVE  s \in Seq(S)
<1>1. PICK k \in 0 .. n : s \in [1 .. k -> S]
  BY DEF SeqsUpTo
<1> QED
  BY <1>1

LEMMA ReportsAsked == Spec => []ReportAsked
<1>1. Init => ReportAsked
  BY AskedElsewhere DEF Init, ReportAsked
<1>2. AskTrace => TraceAsked(input')
  <2> SUFFICES ASSUME AskTrace PROVE TraceAsked(input')
    OBVIOUS
  <2>1. PICK starts \in SeqsUpTo(Starts, 4) : input' = [topic |-> "trace", starts |-> starts]
    BY DEF AskTrace
  <2>2. starts \in Seq(Starts)
    BY SequencesUpTo
  <2> QED
    BY <2>1, <2>2 DEF TraceAsked
<1>3. AskQuality => QualityAsked(input')
  <2> SUFFICES ASSUME AskQuality PROVE QualityAsked(input')
    OBVIOUS
  <2> DEFINE unreadable == [NamesCoverage EXCEPT !.readable = FALSE]
             lists      == {<<>>, <<NamesCoverage>>, <<unreadable, NamesCoverage>>}
  <2>1. PICK commands \in SeqsUpTo(Commands, 2), ok \in BOOLEAN,
             report \in {"none", "failed", "passed"}, copy \in {"failed", "unchanged", "mutated"},
             manifests \in lists, type \in {"go", "static-web"} :
          input' = [topic |-> "quality",
                    branches |-> {BranchAsked(ok, report, commands, copy, manifests, type)}]
    BY DEF AskQuality, BranchAsked
  <2>2. commands \in Seq(Commands)
    BY SequencesUpTo
  <2> HIDE DEF unreadable
  <2>3. manifests = <<>> \/ DOMAIN manifests # {}
    OBVIOUS
  <2>4. input'.branches = {BranchAsked(ok, report, commands, copy, manifests, type)}
    BY <2>1
  <2> HIDE DEF lists
  <2>5. \E o, r, c, y, m, t :
          /\ c \in Seq(Commands) /\ t \in {"go", "static-web"}
          /\ m = <<>> \/ DOMAIN m # {}
          /\ input'.branches = {BranchAsked(o, r, c, y, m, t)}
    <3> WITNESS ok, report, commands, copy, manifests, type
    <3> QED
      BY <2>2, <2>3, <2>4
  <2> QED
    BY <2>5 DEF QualityAsked
<1>4. AskSandbox => SandboxAsked(input')
  BY DEF AskSandbox, SandboxAsked
<1>5. AskLimits => LimitsAsked(input')
  <2>1. \A cost \in Outlays : cost.tokens \in Int /\ cost.usd \in Int
    BY DEF Outlays
  <2>2. \A set \in [tokens : {-1, 0, 1, 300000}, usd : -1 .. 1, perSuccess : {0},
                  duration : {-1, 0, 999, 1000, 2000000000}] :
          set.tokens \in Int /\ set.usd \in Int /\ set.duration \in Int
    OBVIOUS
  <2> QED
    BY <2>1, <2>2 DEF AskLimits, LimitsAsked
<1>6. AskTask => TaskAsked(input')
  BY DEF AskTask, TaskAsked
<1>7. ReportAsked /\ [Next]_<<input, listed>> => ReportAsked'
  <2>1. CASE UNCHANGED input
    BY <2>1 DEF ReportAsked
  <2>2. CASE Next /\ ~UNCHANGED input
    <3>1. /\ TraceAsked(input') /\ QualityAsked(input') /\ SandboxAsked(input')
          /\ LimitsAsked(input') /\ TaskAsked(input')
      BY <1>2, <1>3, <1>4, <1>5, <1>6, <2>2, AskedElsewhere, TopicOfTheAction
    <3> QED
      BY <3>1 DEF ReportAsked
  <2> QED
    BY <2>1, <2>2
<1> QED
  BY <1>1, <1>7, PTL DEF Spec

\* What a command of a branch may be again and again: the two runs of it both came out well.
LEMMA RunsOfTwo ==
  ASSUME NEW c \in Commands, Reports!Proving(c), Reports!Deterministic(c)
  PROVE  c.kind = "test" /\ c.runs = <<TRUE, TRUE>>
<1>1. c.kind \in {"test", "lint"} /\ c.runs \in [1 .. 2 -> BOOLEAN]
  BY DEF Commands
<1>2. c.runs[1] /\ c.runs[2]
  BY <1>1 DEF Reports!Deterministic
<1>3. c.runs[1] = TRUE /\ c.runs[2] = TRUE
  BY <1>1, <1>2
<1>4. c.runs = <<c.runs[1], c.runs[2]>>
  BY <1>1
<1> QED
  BY <1>1, <1>3, <1>4, Zenon DEF Reports!Proving

\* No report of the run, of the machine or of a benchmark passes on less than it claims, in every
\* state: traces, quality, compliance, the smoke of a harness, limits and tasks.
THEOREM ReportsAlwaysEarned == Spec => []ReportsEarned
<1>1. ReportAsked => TraceEarned
  <2> SUFFICES ASSUME TraceAsked(input), input.topic = "trace",
                      Reports!TracePassed({[there |-> TRUE, lines |-> LinesOf(input.starts)]})
               PROVE  \A i \in DOMAIN input.starts :
                        input.starts[i].ended /\ input.starts[i].inside
    BY DEF ReportAsked, TraceEarned
  <2>1. Reports!TraceRoomPassed([there |-> TRUE, lines |-> LinesOf(input.starts)])
    BY DEF Reports!TracePassed
  <2>2. input.starts \in Seq(Starts)
    BY DEF TraceAsked
  <2> QED
    BY <2>1, <2>2, TraceCountsEveryCommand
<1>2. ReportAsked => QualityEarned
  <2> SUFFICES ASSUME QualityAsked(input), input.topic = "quality" PROVE QualityEarned
    BY DEF ReportAsked, QualityEarned
  <2>1. PICK ok, report, commands, copy, manifests, type :
          /\ commands \in Seq(Commands) /\ type \in {"go", "static-web"}
          /\ manifests = <<>> \/ DOMAIN manifests # {}
          /\ input.branches = {BranchAsked(ok, report, commands, copy, manifests, type)}
    BY DEF QualityAsked
  <2> DEFINE only == BranchAsked(ok, report, commands, copy, manifests, type)
             bs   == input.branches
  <2>2. /\ only.ok = ok /\ only.product /\ only.report = report /\ only.commands = commands
        /\ only.manifests = manifests /\ only.type = type
    BY DEF BranchAsked
  <2> HIDE DEF only
  <2>3. bs = {only}
    BY <2>1 DEF only
  <2> HIDE DEF bs
  <2>4. /\ DOMAIN commands \subseteq Nat
        /\ \A i \in DOMAIN commands : commands[i] \in Commands
        /\ commands = <<>> => DOMAIN commands = {}
    BY <2>1
  <2>5. ASSUME Reports!FlakePassed(bs), Reports!MutationPassed(bs), only.report = "passed"
        PROVE  \E i \in DOMAIN only.commands :
                 /\ only.commands[i].kind = "test" /\ ~only.commands[i].copied
                 /\ only.commands[i].runs = <<TRUE, TRUE>>
    <3>1. PICK i \in DOMAIN commands : /\ Reports!Proving(commands[i]) /\ ~commands[i].copied
                                       /\ Reports!Deterministic(commands[i])
      BY <2>2, <2>3, <2>4, <2>5, FlakeAndMutationProve
    <3>2. commands[i].kind = "test" /\ commands[i].runs = <<TRUE, TRUE>>
      BY <2>4, <3>1, RunsOfTwo
    <3> QED
      BY <2>2, <3>1, <3>2
  <2>6. Reports!MutationPassed(bs) => {b \in bs : b.report = "passed"} # {}
    BY DEF Reports!MutationPassed
  <2>7. ASSUME Reports!FlakePassed(bs)
        PROVE  \E b \in bs : b.report # "none" /\ b.commands # <<>>
    <3>1. PICK b \in bs : b.report # "none" /\ Reports!Repeated(b) # {}
      BY <2>7 DEF Reports!FlakePassed
    <3>2. b = only /\ DOMAIN commands # {}
      BY <2>2, <2>3, <3>1 DEF Reports!Repeated
    <3> QED
      BY <2>2, <2>4, <3>1, <3>2
  <2>8. ASSUME Reports!CoveragePassed(bs)
        PROVE  \E b \in bs : b.ok /\ (b.manifests # <<>> \/ b.type = "go")
    <3>1. PICK b \in bs : b.ok /\ Reports!CoverageItemPassed(b)
      BY <2>8 DEF Reports!CoveragePassed, Reports!Successful
    <3>2. /\ b.manifests = manifests /\ b.type = type
          /\ \/ Reports!ManifestCommandByKind(manifests, "coverage") # {}
             \/ type \in {"go", "python", "node"}
      BY <2>2, <2>3, <3>1 DEF Reports!CoverageItemPassed
    <3>3. Reports!ManifestCommandByKind(manifests, "coverage") # {} => manifests # <<>>
      BY DEF Reports!ManifestCommandByKind
    <3> QED
      BY <2>1, <3>1, <3>2, <3>3
  <2>9. Reports!FlakePassed(bs) /\ Reports!MutationPassed(bs) =>
          \A b \in {x \in bs : x.report = "passed"} : \E i \in DOMAIN b.commands :
            /\ b.commands[i].kind = "test" /\ ~b.commands[i].copied
            /\ b.commands[i].runs = <<TRUE, TRUE>>
    BY <2>3, <2>5
  <2> QED
    BY <2>6, <2>7, <2>8, <2>9 DEF QualityEarned, bs
<1>3. ReportAsked => ComplianceEarned
  <2> SUFFICES ASSUME SandboxAsked(input), input.topic = "sandbox" PROVE ComplianceEarned
    BY DEF ReportAsked, ComplianceEarned
  <2> QED
    BY DEF SandboxAsked, ComplianceEarned, Reports!CompliancePassed, Reports!InspectWithProbe,
           Reports!Inspect, Reports!Probe, Reports!ResolveBackend
<1>4. SmokeOnReadyHost
  BY ReadyMeetsTheGate DEF SmokeOnReadyHost
<1>5. ReportAsked => LimitsKept
  <2> SUFFICES ASSUME LimitsAsked(input), input.topic = "limits" PROVE LimitsKept
    BY DEF ReportAsked, LimitsKept
  <2>1. Reports!StressParallel(input.nodes, input.parallel)
          \in 1 .. Reports!StressNodes(input.nodes)
    BY DEF LimitsAsked, Reports!StressParallel, Reports!StressNodes
  <2>2. ASSUME Reports!CostBudgetPassed(input.cost, input.duration, input.set)
        PROVE  /\ input.set.tokens <= 0 => input.cost.tokens <= 250000
               /\ input.set.duration <= 0 => input.duration <= 1800000
               /\ input.set.duration >= 1000 => 1000 * input.duration <= input.set.duration
               /\ \A f \in {"tokens", "usd"} : input.set[f] > 0 => input.cost[f] <= input.set[f]
    <3> DEFINE d == input.duration
               t == input.set.duration
    <3>1. d \in Int /\ t \in Int
      BY DEF LimitsAsked
    <3>2. Reports!Limits(input.set).duration = IF t > 0 THEN t \div 1000 ELSE 1800000
      BY DEF Reports!Limits
    <3>3. (IF t > 0 THEN t \div 1000 ELSE 1800000) > 0 =>
            d <= (IF t > 0 THEN t \div 1000 ELSE 1800000)
      BY <2>2, <3>2 DEF Reports!CostBudgetPassed
    <3> HIDE DEF d, t
    <3>4. /\ t <= 0 => d <= 1800000
          /\ t >= 1000 => 1000 * d <= t
      BY <3>1, <3>3
    <3>5. /\ input.set.tokens <= 0 => input.cost.tokens <= 250000
          /\ \A f \in {"tokens", "usd"} : input.set[f] > 0 => input.cost[f] <= input.set[f]
      BY <2>2 DEF LimitsAsked, Reports!CostBudgetPassed, Reports!Limits
    <3> QED
      BY <3>4, <3>5 DEF d, t
  <2> QED
    BY <2>1, <2>2 DEF LimitsKept
<1>6. ReportAsked => TaskEarned
  <2> SUFFICES ASSUME TaskAsked(input), input.topic = "task", Bench!TaskPassed(input.root)
               PROVE  TaskEarned
    BY DEF ReportAsked, TaskEarned
  <2>1. /\ input.root.verdict.winner \in 0 .. 2
        /\ DOMAIN input.root.manifests = 1 .. 2
    BY DEF TaskAsked, TaskRoots
  <2> QED
    BY <2>1 DEF TaskEarned, Bench!TaskPassed, Bench!WinnerManifest
<1>7. ReportAsked => ReportsEarned
  BY <1>1, <1>2, <1>3, <1>4, <1>5, <1>6 DEF ReportsEarned
<1> QED
  BY <1>7, ReportsAsked, PTL

-----------------------------------------------------------------------------
(***************************************************************************)
(* Collapse                                                                *)
(***************************************************************************)
\* Branches as the run report lists them: each carries its place in the list as its position.
Listed(results, n) ==
  /\ DOMAIN results = 1 .. n
  /\ \A i \in 1 .. n : results[i].pos = i /\ results[i].score \in Int

\* What the audit approves of one branch.
Audited(b) ==
  /\ Branches!Evidence(b) /\ Branches!ProductApproved(b)
  /\ Branches!ManifestPassed(b.product.manifest)

Findings(results) == UNION {Branches!Audit(results[i]) : i \in DOMAIN results}

\* The audit of a position is about the branch that holds it.
LEMMA AuditOfPosition ==
  ASSUME NEW n \in Nat, NEW results, Listed(results, n), NEW i \in 1 .. n
  PROVE  Branches!AuditPassed(results[i], Findings(results)) <=> Audited(results[i])
<1> DEFINE Of(b) == {f \in Findings(results) : f.pos = b.pos}
           Auditors == {"code", "security", "product", "product-manifest"}
<1>1. \A b : \A f \in Branches!Audit(b) : f.pos = b.pos
  BY DEF Branches!Audit
<1>2. \A f \in Findings(results) : \E j \in 1 .. n : f \in Branches!Audit(results[j])
  BY DEF Findings, Listed
<1>3. Of(results[i]) = Branches!Audit(results[i])
  <2>1. \A f \in Branches!Audit(results[i]) : f \in Findings(results)
    BY DEF Findings, Listed
  <2>2. \A f \in Of(results[i]) : f \in Branches!Audit(results[i])
    BY <1>1, <1>2 DEF Listed
  <2> QED
    BY <1>1, <2>1, <2>2
<1>4. \A b : (\A f \in Branches!Audit(b) : f.approved) <=> Audited(b)
  <2> SUFFICES ASSUME NEW b PROVE (\A f \in Branches!Audit(b) : f.approved) <=> Audited(b)
    OBVIOUS
  <2> DEFINE ok(a) == CASE a \in {"code", "security"} -> Branches!Evidence(b)
                        [] a = "product"              -> Branches!ProductApproved(b)
                        [] a = "product-manifest"     ->
                             /\ Branches!ProductApproved(b)
                             /\ Branches!ManifestPassed(b.product.manifest)
  <2> DEFINE finding(a) == [pos |-> b.pos, auditor |-> a, approved |-> ok(a)]
  <2>1. Branches!Audit(b) = {finding(a) : a \in Auditors}
    BY DEF Branches!Audit
  <2>2. (\A a \in Auditors : ok(a)) <=> Audited(b)
    BY DEF Audited
  <2> HIDE DEF ok, Auditors
  <2>3. \A a : finding(a).approved = ok(a)
    OBVIOUS
  <2> HIDE DEF finding
  <2>4. (\A f \in Branches!Audit(b) : f.approved) <=> (\A a \in Auditors : ok(a))
    BY <2>1, <2>3
  <2> QED
    BY <2>2, <2>4
<1> HIDE DEF Of
<1>5. Branches!AuditPassed(results[i], Findings(results)) <=> \A f \in Of(results[i]) : f.approved
  BY DEF Branches!AuditPassed, Of
<1> QED
  BY <1>3, <1>4, <1>5

Entry(results, i) == Branches!Ranked(results[i], Findings(results))

LEMMA EntryOf ==
  ASSUME NEW n \in Nat, NEW results, Listed(results, n), NEW i \in 1 .. n
  PROVE  /\ Entry(results, i).branch = results[i]
         /\ Entry(results, i).audit \in BOOLEAN
         /\ Entry(results, i).audit <=> Audited(results[i])
         /\ Entry(results, i).score \in Int
         /\ Audited(results[i]) =>
              Entry(results, i).score = IF results[i].score >= 8 THEN 10 ELSE results[i].score + 2
<1>1. Branches!AuditPassed(results[i], Findings(results)) \in BOOLEAN
  BY DEF Branches!AuditPassed
<1>2. results[i].score \in Int
  BY DEF Listed
<1> QED
  BY <1>1, <1>2, AuditOfPosition DEF Entry, Branches!Ranked

\* Which of two branches stands before the other after the stable sort.
Precedes(results, i, j) ==
  \/ Branches!Before(Entry(results, i), Entry(results, j))
  \/ i < j /\ ~Branches!Before(Entry(results, j), Entry(results, i))

Precedence(results, D) == {p \in D \X D : Precedes(results, p[1], p[2])}

LEMMA PairsOfPrecedence ==
  ASSUME NEW results, NEW D
  PROVE  \A i, j \in D : <<i, j>> \in Precedence(results, D) <=> Precedes(results, i, j)
BY DEF Precedence

LEMMA PrecedenceIsStrict ==
  ASSUME NEW n \in Nat, NEW results, Listed(results, n)
  PROVE  StrictOrder(1 .. n, Precedence(results, 1 .. n))
<1> DEFINE a(i) == Entry(results, i).audit
           s(i) == Entry(results, i).score
<1>1. \A i \in 1 .. n : a(i) \in BOOLEAN /\ s(i) \in Int
  BY EntryOf
<1>2. \A i, j \in 1 .. n :
        <<i, j>> \in Precedence(results, 1 .. n) <=> Precedes(results, i, j)
  BY PairsOfPrecedence
<1>3. \A i, j \in 1 .. n :
        Precedes(results, i, j) <=>
          \/ (a(i) /\ ~a(j)) \/ (a(i) = a(j) /\ s(i) > s(j))
          \/ i < j /\ ~((a(j) /\ ~a(i)) \/ (a(i) = a(j) /\ s(j) > s(i)))
  BY DEF Precedes, Branches!Before
<1> HIDE DEF a, s
<1>4. \A i \in 1 .. n : ~Precedes(results, i, i)
  BY <1>1, <1>3
<1>5. \A i, j \in 1 .. n : i # j => Precedes(results, i, j) \/ Precedes(results, j, i)
  BY <1>1, <1>3
<1>6. ASSUME NEW i \in 1 .. n, NEW j \in 1 .. n, NEW k \in 1 .. n,
             Precedes(results, i, j), Precedes(results, j, k)
      PROVE  Precedes(results, i, k)
  BY <1>1, <1>3, <1>6
<1> QED
  BY <1>2, <1>4, <1>5, <1>6 DEF StrictOrder

\* The entry of each rank is that of one branch, and no branch is without a rank.
LEMMA RankingIsOrder ==
  ASSUME NEW n \in Nat, NEW results, Listed(results, n)
  PROVE  \E at \in [1 .. n -> 1 .. n] :
           /\ \A k \in 1 .. n : Branches!Ranking(results, Findings(results))[k]
                                  = Entry(results, at[k])
           /\ \A i \in 1 .. n : \E k \in 1 .. n : at[k] = i
           /\ n >= 1 => \A i \in 1 .. n : ~Precedes(results, i, at[1])
<1> DEFINE R        == Precedence(results, 1 .. n)
           rank(i)  == 1 + Cardinality(Before(i, 1 .. n, R))
           place(i) == 1 + Branches!Cardinality({j \in 1 .. n : Precedes(results, j, i)})
           at       == [k \in 1 .. n |-> CHOOSE i \in 1 .. n : place(i) = k]
<1>1. IsFiniteSet(1 .. n) /\ Cardinality(1 .. n) = n
  BY UpTo
<1>2. StrictOrder(1 .. n, R)
  BY PrecedenceIsStrict
<1>3. RanksOwned(1 .. n, R) /\ RanksTaken(1 .. n, R)
  BY <1>1, <1>2, RankOfEachItsOwn, EveryRankTaken
<1>4. \A i \in 1 .. n : Before(i, 1 .. n, R) = {j \in 1 .. n : Precedes(results, j, i)}
  BY PairsOfPrecedence DEF Before
<1>5. \A i \in 1 .. n : place(i) = rank(i)
  BY <1>4, SameCardinality
<1>6. DOMAIN results = 1 .. n
  BY DEF Listed
<1>7. Branches!Ranking(results, Findings(results))
        = [k \in 1 .. n |-> Entry(results, CHOOSE i \in 1 .. n : place(i) = k)]
  BY <1>6 DEF Branches!Ranking, Entry, Precedes
<1> HIDE DEF R, place, rank
<1>8. \A i \in 1 .. n : place(i) \in 1 .. n
  BY <1>1, <1>3, <1>5 DEF RanksOwned, rank
<1>9. \A i, j \in 1 .. n : place(i) = place(j) => i = j
  BY <1>1, <1>3, <1>5 DEF RanksOwned, rank
<1>10. \A k \in 1 .. n : \E i \in 1 .. n : place(i) = k
  BY <1>1, <1>3, <1>5 DEF RanksTaken, rank
<1>11. \A k \in 1 .. n : at[k] \in 1 .. n /\ place(at[k]) = k
  BY <1>10
<1>12. at \in [1 .. n -> 1 .. n]
  BY <1>11
<1>13. \A k \in 1 .. n : Branches!Ranking(results, Findings(results))[k] = Entry(results, at[k])
  BY <1>7
<1> HIDE DEF at
<1>14. \A i \in 1 .. n : \E k \in 1 .. n : at[k] = i
  BY <1>8, <1>9, <1>11
<1>15. ASSUME n >= 1, NEW i \in 1 .. n PROVE ~Precedes(results, i, at[1])
  <2>1. 1 \in 1 .. n /\ at[1] \in 1 .. n /\ rank(at[1]) = 1
    BY <1>5, <1>11, <1>15
  <2> DEFINE ahead == {j \in 1 .. n : Precedes(results, j, at[1])}
  <2>2. rank(at[1]) = 1 + Cardinality(ahead)
    BY <1>4, <2>1 DEF rank
  <2>3. IsFiniteSet(ahead)
    BY <1>1, FS_Subset
  <2> HIDE DEF ahead
  <2>4. Cardinality(ahead) \in Nat
    BY <2>3, FS_CardinalityType
  <2>5. Cardinality(ahead) = 0
    BY <2>1, <2>2, <2>4
  <2>6. ahead = {}
    BY <2>3, <2>5, FS_EmptySet
  <2> QED
    BY <2>6 DEF ahead
<1> QED
  BY <1>12, <1>13, <1>14, <1>15

\* The verdict is an approval exactly if the audit approves some branch, and its winner is then
\* one of those; one that scored higher is passed over only where both scores are carried to the
\* cap, and of equals the first position wins. The ranking loses no branch (collapse.go:26-143).
THEOREM BestBranchWins ==
  ASSUME NEW n \in Nat, n >= 1, NEW results, Listed(results, n)
  PROVE  LET v    == Branches!Collapse(results)
             w    == v.winner.branch
             good == {i \in 1 .. n : Audited(results[i])}
         IN
         /\ v.approved <=> good # {}
         /\ good # {} => /\ w.pos \in good
                         /\ \A i \in good : \/ results[i].score < w.score
                                            \/ results[i].score = w.score /\ w.pos <= i
                                            \/ w.score >= 8 /\ w.pos < i
         /\ DOMAIN v.ranked = 1 .. n
         /\ {v.ranked[k].branch.pos : k \in 1 .. n} = 1 .. n
<1> DEFINE v    == Branches!Collapse(results)
           w    == v.winner.branch
           good == {i \in 1 .. n : Audited(results[i])}
           ranking == Branches!Ranking(results, Findings(results))
           e(i) == Entry(results, i)
<1>1. PICK at \in [1 .. n -> 1 .. n] :
        /\ \A k \in 1 .. n : ranking[k] = e(at[k])
        /\ \A i \in 1 .. n : \E k \in 1 .. n : at[k] = i
        /\ \A i \in 1 .. n : ~Precedes(results, i, at[1])
  BY RankingIsOrder
<1>2. /\ v.winner = ranking[1] /\ v.ranked = ranking
      /\ v.approved <=> Branches!Evidence(ranking[1].branch) /\ ranking[1].audit
  BY DEF Branches!Collapse, Findings
<1>3. DOMAIN ranking = 1 .. n
  BY DEF Branches!Ranking, Listed
<1> HIDE DEF v, e, ranking
<1>4. \A i \in 1 .. n :
        /\ e(i).branch = results[i] /\ e(i).audit \in BOOLEAN
        /\ e(i).audit <=> Audited(results[i])
        /\ e(i).score \in Int /\ results[i].score \in Int /\ results[i].pos = i
        /\ Audited(results[i]) =>
             e(i).score = IF results[i].score >= 8 THEN 10 ELSE results[i].score + 2
  <2>1. \A i \in 1 .. n :
          /\ e(i).branch = results[i] /\ e(i).audit \in BOOLEAN
          /\ e(i).audit <=> Audited(results[i])
          /\ e(i).score \in Int
          /\ Audited(results[i]) =>
               e(i).score = IF results[i].score >= 8 THEN 10 ELSE results[i].score + 2
    BY EntryOf DEF e
  <2>2. \A i \in 1 .. n : results[i].score \in Int /\ results[i].pos = i
    BY DEF Listed
  <2> QED
    BY <2>1, <2>2
<1> DEFINE first == at[1]
<1>5. first \in 1 .. n /\ ranking[1] = e(first) /\ w = results[first]
  <2>1. 1 \in 1 .. n
    OBVIOUS
  <2>2. first \in 1 .. n /\ ranking[1] = e(first)
    BY <1>1, <2>1
  <2> HIDE DEF first
  <2> QED
    BY <1>2, <1>4, <2>2
<1> HIDE DEF first, w
<1>6. v.approved <=> Audited(results[first])
  BY <1>2, <1>4, <1>5 DEF Audited
<1>7. \A i \in 1 .. n :
        /\ ~Branches!Before(e(i), e(first))
        /\ i < first => Branches!Before(e(first), e(i))
  BY <1>1, <1>5 DEF Precedes, e, first
<1>8. ASSUME NEW i \in 1 .. n, Audited(results[i]) PROVE Audited(results[first])
  <2>1. ~(e(i).audit /\ ~e(first).audit)
    BY <1>7 DEF Branches!Before
  <2> QED
    BY <1>4, <1>5, <1>8, <2>1
<1>9. v.approved <=> good # {}
  BY <1>5, <1>6, <1>8
<1>10. ASSUME NEW i \in good
       PROVE  /\ w.pos \in good
              /\ \/ results[i].score < w.score
                 \/ results[i].score = w.score /\ w.pos <= i
                 \/ w.score >= 8 /\ w.pos < i
  <2>1. i \in 1 .. n /\ Audited(results[i]) /\ Audited(results[first])
    BY <1>8
  <2>2. w.pos = first /\ w.score = results[first].score /\ first \in good
    BY <1>4, <1>5, <2>1
  <2>3. e(i).audit = TRUE /\ e(first).audit = TRUE
    BY <1>4, <1>5, <2>1
  <2>4. ~(e(i).score > e(first).score) /\ (i < first => e(first).score > e(i).score)
    BY <1>7, <2>1, <2>3 DEF Branches!Before
  <2> HIDE DEF good
  <2>5. /\ results[i].score \in Int /\ results[first].score \in Int
        /\ e(i).score = IF results[i].score >= 8 THEN 10 ELSE results[i].score + 2
        /\ e(first).score = IF results[first].score >= 8 THEN 10 ELSE results[first].score + 2
    BY <1>4, <1>5, <2>1
  <2>6. \/ results[i].score < results[first].score
        \/ results[i].score = results[first].score /\ first <= i
        \/ results[first].score >= 8 /\ first < i
    <3> DEFINE si == results[i].score
               sf == results[first].score
    <3>1. si \in Int /\ sf \in Int /\ (i = first => si = sf)
      BY <2>5
    <3>2. /\ e(i).score = IF si >= 8 THEN 10 ELSE si + 2
          /\ e(first).score = IF sf >= 8 THEN 10 ELSE sf + 2
      BY <2>5
    <3>3. i \in Int /\ first \in Int
      BY <1>5, <2>1
    <3> HIDE DEF si, sf
    <3>4. si < sf \/ (si = sf /\ first <= i) \/ (sf >= 8 /\ first < i)
      BY <2>4, <3>1, <3>2, <3>3
    <3> QED
      BY <3>4 DEF si, sf
  <2> QED
    BY <2>2, <2>6
<1>11. {v.ranked[k].branch.pos : k \in 1 .. n} = 1 .. n
  <2>1. \A k \in 1 .. n : at[k] \in 1 .. n
    BY <1>1
  <2>2. \A k \in 1 .. n : v.ranked[k] = e(at[k])
    BY <1>1, <1>2
  <2>3. \A k \in 1 .. n : e(at[k]).branch.pos = at[k]
    BY <1>4, <2>1
  <2> DEFINE pos(k) == v.ranked[k].branch.pos
  <2>4. \A k \in 1 .. n : pos(k) = at[k]
    BY <2>2, <2>3
  <2> HIDE DEF pos
  <2>5. {pos(k) : k \in 1 .. n} = 1 .. n
    BY <1>1, <2>1, <2>4
  <2> QED
    BY <2>5 DEF pos
<1>12. DOMAIN v.ranked = 1 .. n
  BY <1>2, <1>3
<1> QED
  BY <1>9, <1>10, <1>11, <1>12 DEF v, w

\* The products in question, by what is on their page and in their manifests.
LEMMA ProductsInQuestion ==
  ASSUME NEW p \in Products
  PROVE  /\ p.dir = "full" \/ p.dir = "empty"
         /\ p.page = {} \/ p.page = {"bad script"}
         /\ \/ p.manifest = <<GoodManifest, NoManifest>>
            \/ p.manifest = <<NoManifest, GoodManifest>>
            \/ p.manifest = <<TornManifest, GoodManifest>>
            \/ p.manifest = <<Uncited, NoManifest>>
<1> DEFINE made(dir, page, manifest) == [dir |-> dir, page |-> page, manifest |-> manifest]
           gn == <<GoodManifest, NoManifest>>
           ng == <<NoManifest, GoodManifest>>
           tg == <<TornManifest, GoodManifest>>
           un == <<Uncited, NoManifest>>
           bad == {"bad script"}
<1> DEFINE Asked == /\ p.dir = "full" \/ p.dir = "empty"
                    /\ p.page = {} \/ p.page = bad
                    /\ p.manifest = gn \/ p.manifest = ng \/ p.manifest = tg \/ p.manifest = un
<1>1. p \in {made("full", {}, gn), made("full", {}, ng), made("full", {}, tg), made("full", {}, un),
             made("full", bad, gn), made("empty", {}, gn)}
  BY Zenon DEF Products, Product
<1> HIDE DEF gn, ng, tg, un, bad
<1>2. p = made("full", {}, gn) => Asked
  OBVIOUS
<1>3. p = made("full", {}, ng) => Asked
  OBVIOUS
<1>4. p = made("full", {}, tg) => Asked
  OBVIOUS
<1>5. p = made("full", {}, un) => Asked
  OBVIOUS
<1>6. p = made("full", bad, gn) => Asked
  OBVIOUS
<1>7. p = made("empty", {}, gn) => Asked
  OBVIOUS
<1> HIDE DEF made, Asked
<1>8. Asked
  BY <1>1, <1>2, <1>3, <1>4, <1>5, <1>6, <1>7, Zenon
<1> QED
  BY <1>8 DEF Asked, gn, ng, tg, un, bad

LEMMA ManifestsInQuestion ==
  /\ Branches!ManifestErrors(GoodManifest) = {}
  /\ Branches!ManifestErrors(TornManifest) # {} /\ Branches!ManifestErrors(Uncited) # {}
  /\ GoodManifest.state = "json" /\ NoManifest.state = "none"
  /\ TornManifest.state = "torn" /\ Uncited.state = "json"
  /\ GoodManifest # NoManifest /\ GoodManifest # TornManifest /\ GoodManifest # Uncited
<1>1. /\ GoodManifest.state = "json" /\ GoodManifest.version = TRUE
      /\ GoodManifest.kind = "cli-tool" /\ GoodManifest.artifacts = {"there"}
      /\ GoodManifest.tests = TRUE /\ GoodManifest.cites = {"cache_item"}
  BY DEF GoodManifest
<1>2. NoManifest.state = "none" /\ TornManifest.state = "torn"
  BY DEF NoManifest, TornManifest, GoodManifest
<1>3. Uncited.state = "json" /\ Uncited.cites = {"source"}
  BY DEF Uncited, GoodManifest
<1>4. Branches!ManifestErrors(GoodManifest) = {}
  BY <1>1 DEF Branches!ManifestErrors
<1>5. Branches!ManifestErrors(TornManifest) # {}
  BY <1>2 DEF Branches!ManifestErrors
<1>6. Branches!ManifestErrors(Uncited) # {}
  <2>1. "no memory" \in Branches!ManifestErrors(Uncited)
    BY <1>3 DEF Branches!ManifestErrors
  <2> QED
    BY <2>1
<1> QED
  BY <1>1, <1>2, <1>3, <1>4, <1>5, <1>6

\* A manifest passes when the first file that is there is a good one.
LEMMA ManifestOfProduct ==
  ASSUME NEW p \in Products
  PROVE  Branches!ManifestPassed(p.manifest) <=>
           p.manifest[1] = GoodManifest \/ p.manifest = <<NoManifest, GoodManifest>>
<1> DEFINE m == p.manifest
<1>1. \/ m = <<GoodManifest, NoManifest>> \/ m = <<NoManifest, GoodManifest>>
      \/ m = <<TornManifest, GoodManifest>> \/ m = <<Uncited, NoManifest>>
  BY ProductsInQuestion
<1>2. \A x, y, z : <<x, y>>[1] = x /\ <<x, y>>[2] = y
  OBVIOUS
<1> HIDE DEF m
<1>3. CASE m = <<GoodManifest, NoManifest>>
  BY <1>3, <1>2, ManifestsInQuestion DEF Branches!ManifestPassed, Branches!LoadManifest, m
<1>4. CASE m = <<NoManifest, GoodManifest>>
  BY <1>4, <1>2, ManifestsInQuestion DEF Branches!ManifestPassed, Branches!LoadManifest, m
<1>5. CASE m = <<TornManifest, GoodManifest>>
  BY <1>5, <1>2, ManifestsInQuestion DEF Branches!ManifestPassed, Branches!LoadManifest, m
<1>6. CASE m = <<Uncited, NoManifest>>
  BY <1>6, <1>2, ManifestsInQuestion DEF Branches!ManifestPassed, Branches!LoadManifest, m
<1> QED
  BY <1>1, <1>3, <1>4, <1>5, <1>6

ContenderAsked(c) ==
  /\ c.build = TRUE /\ c.lint = TRUE /\ c.test \in BOOLEAN /\ c.score \in Int
  /\ c.product \in Products /\ c.verified \in BOOLEAN

LEMMA ContendersAsked == \A c \in Contenders : ContenderAsked(c)
<1>1. Product("full", {}, GoodManifest, NoManifest) \in Products
  BY DEF Products
<1>2. \A score \in {5, 8, 10}, product \in Products :
        ContenderAsked(Candidate(TRUE, score, product, TRUE))
  BY DEF Candidate, ContenderAsked
<1>3. \A product \in Products : ContenderAsked(Candidate(TRUE, 9, product, FALSE))
  BY DEF Candidate, ContenderAsked
<1>4. \A score \in {5, 10} :
        ContenderAsked(Candidate(FALSE, score, Product("full", {}, GoodManifest, NoManifest), TRUE))
  BY <1>1 DEF Candidate, ContenderAsked
<1> DEFINE verified(score, product) == Candidate(TRUE, score, product, TRUE)
           unverified(product)      == Candidate(TRUE, 9, product, FALSE)
           untested(score)          ==
             Candidate(FALSE, score, Product("full", {}, GoodManifest, NoManifest), TRUE)
<1>5. Contenders = {verified(score, product) : score \in {5, 8, 10}, product \in Products}
                     \cup {unverified(product) : product \in Products}
                     \cup {untested(score) : score \in {5, 10}}
  BY DEF Contenders
<1>6. /\ \A score \in {5, 8, 10}, product \in Products : ContenderAsked(verified(score, product))
      /\ \A product \in Products : ContenderAsked(unverified(product))
      /\ \A score \in {5, 10} : ContenderAsked(untested(score))
  BY <1>2, <1>3, <1>4
<1> HIDE DEF verified, unverified, untested
<1> QED
  BY <1>5, <1>6

\* The branches made of such contenders, and what the audit says of them.
LEMMA BranchesInQuestion ==
  ASSUME NEW runners \in Seq(Contenders), NEW node \in BOOLEAN
  PROVE  /\ Listed(BranchesOf(runners, node), Len(runners))
         /\ \A i \in 1 .. Len(runners) :
              Audited(BranchesOf(runners, node)[i])
                <=> Acceptable(BranchesOf(runners, node)[i], node)
<1> DEFINE results == BranchesOf(runners, node)
           n == Len(runners)
           verdict(r) == IF ~r.verified THEN "none"
                         ELSE IF Branches!VerifyProduct(r.product, node) THEN "passed" ELSE "failed"
<1>1. n \in Nat /\ DOMAIN runners = 1 .. n /\ \A i \in 1 .. n : runners[i] \in Contenders
  OBVIOUS
<1>2. \A i \in 1 .. n : ContenderAsked(runners[i])
  BY <1>1, ContendersAsked
<1>3. DOMAIN results = 1 .. n
  BY <1>1 DEF BranchesOf
<1>4. \A i \in 1 .. n :
        /\ results[i].pos = i /\ results[i].build = runners[i].build
        /\ results[i].test = runners[i].test /\ results[i].lint = runners[i].lint
        /\ results[i].score = runners[i].score /\ results[i].product = runners[i].product
        /\ results[i].verification = verdict(runners[i])
  BY <1>1 DEF BranchesOf
<1> HIDE DEF results, n, verdict
<1>5. Listed(results, n)
  BY <1>2, <1>3, <1>4 DEF Listed, ContenderAsked
<1>6. ASSUME NEW i \in 1 .. n PROVE Audited(results[i]) <=> Acceptable(results[i], node)
  <2> DEFINE b == results[i]
             p == runners[i].product
  <2>1. /\ b.build = TRUE /\ b.lint = TRUE /\ b.test \in BOOLEAN /\ b.product = p
        /\ b.verification = verdict(runners[i]) /\ runners[i].verified \in BOOLEAN
        /\ p \in Products
    BY <1>2, <1>4 DEF ContenderAsked
  <2> HIDE DEF b, p
  <2>2. (p.dir = "full" \/ p.dir = "empty") /\ (p.page = {} \/ p.page = {"bad script"})
    BY <2>1, ProductsInQuestion
  <2>3. Branches!ManifestPassed(p.manifest) <=>
          p.manifest[1] = GoodManifest \/ p.manifest = <<NoManifest, GoodManifest>>
    BY <2>1, ManifestOfProduct
  <2>4. Branches!VerifyProduct(p, node) <=> p.dir = "full" /\ (node => p.page = {})
    BY <2>2 DEF Branches!VerifyProduct
  <2>5. Branches!ProductApproved(b) <=>
          b.test /\ p.dir = "full" /\ (b.verification # "none" /\ node => p.page = {})
    BY <2>1, <2>4
       DEF Branches!ProductApproved, Branches!Evidence, Branches!ProductExists, verdict, p
  <2>6. Branches!Evidence(b) <=> b.test
    BY <2>1 DEF Branches!Evidence
  <2>7. Audited(b) <=> Acceptable(b, node)
    BY <2>1, <2>3, <2>5, <2>6 DEF Audited, Acceptable
  <2> QED
    BY <2>7 DEF b
<1> QED
  BY <1>5, <1>6 DEF results, n

CollapseAsked ==
  input.topic = "collapse" =>
    /\ input.runners \in Seq(Contenders) /\ Len(input.runners) >= 1
    /\ input.node \in BOOLEAN

\* The verdict on the branches approves exactly when one of them is acceptable, and its winner is
\* the best of those, in every state.
THEOREM CollapseAlwaysPicksBest == Spec => []CollapsePicksBest
<1>1. Init => CollapseAsked
  BY DEF Init, CollapseAsked
<1>2. CollapseAsked /\ [Next]_<<input, listed>> => CollapseAsked'
  <2> SUFFICES ASSUME CollapseAsked, Next, input'.topic = "collapse", input' # input
               PROVE  CollapseAsked'
    BY DEF CollapseAsked
  <2>1. AskCollapse
    BY TopicOfTheAction
  <2>2. PICK runners \in SeqsUpTo(Contenders, 2), node \in BOOLEAN, last \in Contenders :
          input' = [topic |-> "collapse", runners |-> Append(runners, last), node |-> node]
    BY <2>1 DEF AskCollapse
  <2>3. runners \in Seq(Contenders)
    BY SequencesUpTo
  <2>4. Append(runners, last) \in Seq(Contenders) /\ Len(Append(runners, last)) >= 1
    BY <2>3
  <2> QED
    BY <2>2, <2>4 DEF CollapseAsked
<1>3. CollapseAsked => CollapsePicksBest
  <2> SUFFICES ASSUME CollapseAsked, input.topic = "collapse" PROVE CollapsePicksBest
    BY DEF CollapsePicksBest
  <2> DEFINE n       == Len(input.runners)
             results == BranchesOf(input.runners, input.node)
             v       == Branches!Collapse(results)
             w       == v.winner.branch
             good    == {i \in DOMAIN results : Acceptable(results[i], input.node)}
  <2>1. n \in Nat /\ n >= 1
    BY DEF CollapseAsked
  <2>2. /\ Listed(results, n)
        /\ \A i \in 1 .. n : Audited(results[i]) <=> Acceptable(results[i], input.node)
    BY BranchesInQuestion DEF CollapseAsked
  <2>3. DOMAIN results = 1 .. n
    BY <2>2 DEF Listed
  <2>4. good = {i \in 1 .. n : Audited(results[i])}
    BY <2>2, <2>3
  <2> HIDE DEF n, results
  <2>5. /\ v.approved <=> good # {}
        /\ good # {} => /\ w.pos \in good
                        /\ \A i \in good : \/ results[i].score < w.score
                                           \/ results[i].score = w.score /\ w.pos <= i
                                           \/ w.score >= 8 /\ w.pos < i
        /\ DOMAIN v.ranked = 1 .. n
        /\ {v.ranked[k].branch.pos : k \in 1 .. n} = 1 .. n
    BY <2>1, <2>2, <2>4, BestBranchWins
  <2> HIDE DEF v, w, good
  <2>6. {v.ranked[k].branch.pos : k \in DOMAIN v.ranked} = DOMAIN results
    BY <2>3, <2>5
  <2> QED
    BY <2>5, <2>6, Zenon DEF CollapsePicksBest, v, w, good, results
<1> QED
  BY <1>1, <1>2, <1>3, PTL DEF Spec

-----------------------------------------------------------------------------
(***************************************************************************)
(* Tester                                                                  *)
(***************************************************************************)
\* A manifest that is not there or cannot be read has no commands.
ManifestAsked(f) ==
  /\ f.state \in {"absent", "invalid", "read"}
  /\ f.state # "read" => f.commands = {}

\* A process that ended with status zero: what it needs was where it ran.
RanWell(c, m, outcome) ==
  /\ c.needs \in (IF m.backend = "room" THEN m.host ELSE m.box) \cup {"manifest"}
  /\ m.backend = "docker" => m.daemon
  /\ outcome \in {"ok", "listed"}

LEMMA OkRanWell ==
  ASSUME NEW c, NEW m, m.backend \in {"room", "docker"}, NEW outcome,
         Tester!RunCommand(c, m, outcome).ok
  PROVE  RanWell(c, m, outcome)
BY DEF RanWell, Tester!RunCommand, Tester!Runs

\* Files of tests call for the runner of their language wherever it is found.
LEMMA RunnersCalledFor ==
  ASSUME NEW files, NEW m
  PROVE  /\ "gotest" \in files /\ Tester!OnHost(m, "go") =>
              Tester!Cmd("go tests", "test", "go") \in Tester!AutoCommands(files, m)
         /\ "pytest" \in files /\ Tester!PythonFound(m) =>
              Tester!Cmd("pytest", "test", "python") \in Tester!AutoCommands(files, m)
         /\ "jstest" \in files /\ Tester!OnHost(m, "node") /\ "pkgtest" \notin files =>
              Tester!Cmd("node tests", "test", "node") \in Tester!AutoCommands(files, m)
         /\ "pkgtest" \in files /\ Tester!OnHost(m, "npm") =>
              Tester!Cmd("npm test", "test", "npm") \in Tester!AutoCommands(files, m)
<1>1. "gotest" \in files => Tester!GoProduct(files)
  BY DEF Tester!GoProduct, Tester!Has
<1> QED
  BY <1>1 DEF Tester!AutoCommands

\* A language without its tool is an error, and a script without one a warning.
LEMMA MissingToolsNoted ==
  ASSUME NEW files, NEW m
  PROVE  /\ Tester!AutoErrors(files, m) = {} /\ "gotest" \in files => Tester!OnHost(m, "go")
         /\ Tester!AutoErrors(files, m) = {} /\ "pytest" \in files => Tester!PythonFound(m)
         /\ "jstest" \in files /\ ~Tester!OnHost(m, "node") =>
              "node" \in Tester!AutoWarnings(files, m)
         /\ "pkgtest" \in files /\ ~Tester!OnHost(m, "npm") =>
              "npm" \in Tester!AutoWarnings(files, m)
<1>1. /\ "gotest" \in files => Tester!GoProduct(files)
      /\ "pytest" \in files => Tester!PyProduct(files)
      /\ "jstest" \in files => Tester!JSCalled(files)
      /\ "pkgtest" \in files => Tester!Has(files, {"pkgtest", "lock"})
  BY DEF Tester!GoProduct, Tester!PyProduct, Tester!JSCalled, Tester!Has
<1> QED
  BY <1>1 DEF Tester!AutoErrors, Tester!AutoWarnings, Tester!Tools

\* What a passed verdict stands on: a test, or a page seen by a browser, that was a process which
\* ended well; the runner of every kind of test file in the product, but for scripts whose tool the
\* host lacks; and every command of the manifest in effect.
StandsOn(proven, files, manifest, warnings) ==
  /\ Tester!ProductType(files) \in {"go", "python", "node"} => \E c \in proven : c.kind = "test"
  /\ Tester!ProductType(files) = "static-web" => \E c \in proven : c.kind = "browser"
  /\ \A t \in Tester!TestFiles(files) :
       \/ \E c \in proven : c.name \in Runner[t]
       \/ t = "jstest" /\ warnings \cap {"node", "npm"} # {}
  /\ manifest.state # "invalid"
  /\ \A own \in manifest.commands : \E c \in proven : c.origin = "manifest" /\ c.nr = own.nr

\* The tester passes a product only on processes that ended well, for all files, machines,
\* manifests, outcomes and hits: whatever was refused, missing or failed keeps the verdict from
\* passing (tester.go:143-239).
THEOREM PassStandsOnProcesses ==
  ASSUME NEW files, NEW m, m.backend \in {"room", "docker"}, NEW room, NEW product,
         ManifestAsked(room), ManifestAsked(product), NEW hits, NEW outcome,
         Tester!Verify(files, m, room, product, hits, outcome).passed
  PROVE  LET manifest == Tester!ReadManifest(room, product)
             commands == Tester!Commands(files, m, manifest)
         IN
         /\ StandsOn(commands, files, manifest,
                     Tester!Verify(files, m, room, product, hits, outcome).warnings)
         /\ \A c \in commands : RanWell(c, m, outcome[c])
<1> DEFINE v        == Tester!Verify(files, m, room, product, hits, outcome)
           manifest == Tester!ReadManifest(room, product)
           commands == Tester!Commands(files, m, manifest)
           results  == {Tester!RunCommand(c, m, outcome[c]) : c \in commands}
           type     == Tester!ProductType(files)
<1>1. /\ {r.cmd.name : r \in {x \in results : ~x.ok}} = {}
      /\ Tester!AutoErrors(files, m) = {} /\ Tester!ManifestErrors(manifest) = {}
      /\ Tester!QualityErrors(files, results) = {}
      /\ v.warnings = Tester!AutoWarnings(files, m)
  BY DEF Tester!Verify
<1>2. ManifestAsked(manifest)
  BY DEF Tester!ReadManifest
<1> HIDE DEF v, manifest, commands
<1>3. \A c \in commands : Tester!RunCommand(c, m, outcome[c]).ok
  BY <1>1
<1>4. \A c \in commands : RanWell(c, m, outcome[c])
  BY <1>3, OkRanWell
<1>5. \A kind : Tester!PassedKind(results, kind) => \E c \in commands : c.kind = kind
  <2>1. \A c, o : Tester!RunCommand(c, m, o).cmd = c
    BY DEF Tester!RunCommand
  <2> QED
    BY <2>1 DEF Tester!PassedKind
<1> HIDE DEF results
<1>6. type \in {"go", "python", "node"} => \E c \in commands : c.kind = "test"
  <2>1. type \in {"go", "python", "node"} => Tester!PassedKind(results, "test")
    BY <1>1 DEF Tester!QualityErrors
  <2> QED
    BY <1>5, <2>1
<1>7. type = "static-web" => \E c \in commands : c.kind = "browser"
  <2>1. type = "static-web" => Tester!PassedKind(results, "browser")
    BY <1>1 DEF Tester!QualityErrors
  <2> QED
    BY <1>5, <2>1
<1>8. ASSUME NEW t \in Tester!TestFiles(files)
      PROVE  \/ \E c \in commands : c.name \in Runner[t]
             \/ t = "jstest" /\ v.warnings \cap {"node", "npm"} # {}
  <2>1. t \in files /\ t \in {"gotest", "pytest", "jstest"}
    BY DEF Tester!TestFiles
  <2>2. Tester!AutoCommands(files, m) \subseteq commands
    BY DEF Tester!Commands, commands
  <2> DEFINE goTests   == Tester!Cmd("go tests", "test", "go")
             pyTests   == Tester!Cmd("pytest", "test", "python")
             nodeTests == Tester!Cmd("node tests", "test", "node")
             npmTest   == Tester!Cmd("npm test", "test", "npm")
  <2>3. /\ goTests.name = "go tests" /\ pyTests.name = "pytest"
        /\ nodeTests.name = "node tests" /\ npmTest.name = "npm test"
    BY DEF Tester!Cmd
  <2>4. /\ goTests.name \in Runner["gotest"] /\ pyTests.name \in Runner["pytest"]
        /\ nodeTests.name \in Runner["jstest"] /\ npmTest.name \in Runner["jstest"]
    BY <2>3 DEF Runner
  <2>5. CASE t = "gotest"
    <3>1. goTests \in commands
      BY <1>1, <2>1, <2>2, <2>5, RunnersCalledFor, MissingToolsNoted
    <3> HIDE DEF goTests
    <3> QED
      BY <2>4, <2>5, <3>1
  <2>6. CASE t = "pytest"
    <3>1. pyTests \in commands
      BY <1>1, <2>1, <2>2, <2>6, RunnersCalledFor, MissingToolsNoted
    <3> HIDE DEF pyTests
    <3> QED
      BY <2>4, <2>6, <3>1
  <2>7. CASE t = "jstest"
    <3>1. "jstest" \in files
      BY <2>1, <2>7
    <3>2. Tester!OnHost(m, "node") /\ "pkgtest" \notin files => nodeTests \in commands
      BY <2>2, <3>1, RunnersCalledFor
    <3>3. "pkgtest" \in files /\ Tester!OnHost(m, "npm") => npmTest \in commands
      BY <2>2, RunnersCalledFor
    <3>4. /\ ~Tester!OnHost(m, "node") => "node" \in v.warnings
          /\ "pkgtest" \in files /\ ~Tester!OnHost(m, "npm") => "npm" \in v.warnings
      BY <1>1, <3>1, MissingToolsNoted
    <3> HIDE DEF nodeTests, npmTest
    <3>5. \/ nodeTests \in commands \/ npmTest \in commands
          \/ "node" \in v.warnings \/ "npm" \in v.warnings
      BY <3>2, <3>3, <3>4
    <3> QED
      BY <2>4, <2>7, <3>5
  <2> QED
    BY <2>1, <2>5, <2>6, <2>7
<1>9. manifest.state # "invalid"
  BY <1>1 DEF Tester!ManifestErrors
<1>10. ASSUME NEW own \in manifest.commands
       PROVE  \E c \in commands : c.origin = "manifest" /\ c.nr = own.nr
  <2>1. manifest.state = "read"
    BY <1>2 DEF ManifestAsked
  <2>2. own.form = "fine"
    BY <1>1, <2>1 DEF Tester!ManifestErrors
  <2> DEFINE c == [name |-> "manifest", nr |-> own.nr, kind |-> own.kind, needs |-> "manifest",
                   origin |-> "manifest"]
  <2>3. c \in Tester!ManifestCommands(manifest)
    BY <2>1, <2>2 DEF Tester!ManifestCommands
  <2>4. c \in commands
    BY <2>3 DEF Tester!Commands, commands
  <2> QED
    BY <2>4
<1>11. StandsOn(commands, files, manifest, v.warnings)
  BY <1>6, <1>7, <1>8, <1>9, <1>10 DEF StandsOn
<1> QED
  BY <1>4, <1>11 DEF commands, manifest, v

TesterAsked ==
  input.topic = "tester" =>
    /\ input.m.backend \in {"room", "docker"}
    /\ ManifestAsked(input.own[1]) /\ ManifestAsked(input.own[2])

\* What the tester passes was proven by processes that ended well, in every state.
THEOREM TesterVerdictAlwaysSound == Spec => []TesterVerdictSound
<1>1. Init => TesterAsked
  BY DEF Init, TesterAsked
<1>2. TesterAsked /\ [Next]_<<input, listed>> => TesterAsked'
  <2> SUFFICES ASSUME TesterAsked, Next, input'.topic = "tester", input' # input
               PROVE  TesterAsked'
    BY DEF TesterAsked
  <2>1. AskTester
    BY TopicOfTheAction
  <2>2. PICK files \in FileSets, m \in Machines, own \in ManifestPairs, bad \in Misfortunes :
          input' = [topic |-> "tester", files |-> files, m |-> m, own |-> own, bad |-> bad]
    BY <2>1 DEF AskTester
  <2>3. m.backend \in {"room", "docker"}
    BY DEF Machines
  <2>4. ManifestAsked(own[1]) /\ ManifestAsked(own[2])
    <3> DEFINE invalid == [state |-> "invalid", commands |-> {}]
               linted  == [state |-> "read", commands |-> {Own(1, "lint", "fine")}]
               outside == [state |-> "read",
                           commands |-> {Own(1, "test", "fine"), Own(2, "test", "outside")}]
    <3>1. /\ ManifestAsked(Absent) /\ ManifestAsked(Sound) /\ ManifestAsked(invalid)
          /\ ManifestAsked(linted) /\ ManifestAsked(outside)
      BY DEF ManifestAsked, Absent, Sound
    <3>2. ManifestPairs = {<<Absent, Absent>>, <<Absent, Sound>>, <<invalid, Sound>>,
                           <<linted, Sound>>, <<Absent, outside>>}
      BY DEF ManifestPairs
    <3> HIDE DEF invalid, linted, outside
    <3> QED
      BY <3>1, <3>2
  <2> QED
    BY <2>2, <2>3, <2>4 DEF TesterAsked
<1>3. TesterAsked => TesterVerdictSound
  <2> SUFFICES ASSUME TesterAsked, input.topic = "tester" PROVE TesterVerdictSound
    BY DEF TesterVerdictSound
  <2> DEFINE files    == input.files
             m        == input.m
             manifest == Tester!ReadManifest(input.own[1], input.own[2])
             commands == Tester!Commands(files, m, manifest)
             outcome  == [c \in commands |-> Outcome(c)]
             v        == Tester!Verify(files, m, input.own[1], input.own[2], {}, outcome)
             proven   == {r.cmd : r \in {x \in v.results : Proven(x.cmd)}}
             ran      == {c \in commands : RanWell(c, m, outcome[c])}
             type     == Tester!ProductType(files)
  <2>1. v.results = {Tester!RunCommand(c, m, outcome[c]) : c \in commands}
    BY DEF Tester!Verify
  <2>2. \A c, o : Tester!RunCommand(c, m, o).cmd = c
    BY DEF Tester!RunCommand
  <2>3. \A c \in commands : RanWell(c, m, outcome[c]) <=> Proven(c)
    BY DEF RanWell, Proven
  <2> HIDE DEF v, commands, outcome
  <2>4. proven = ran
    BY <2>1, <2>2, <2>3
  <2>5. ASSUME v.passed PROVE StandsOn(proven, files, manifest, v.warnings)
    <3>1. /\ m.backend \in {"room", "docker"}
          /\ ManifestAsked(input.own[1]) /\ ManifestAsked(input.own[2])
      BY DEF TesterAsked
    <3>2. /\ StandsOn(commands, files, manifest, v.warnings)
          /\ \A c \in commands : RanWell(c, m, outcome[c])
      BY <2>5, <3>1, PassStandsOnProcesses DEF v, commands
    <3>3. proven = commands
      BY <2>4, <3>2
    <3> QED
      BY <3>2, <3>3
  <2> HIDE DEF proven, ran
  <2> QED
    BY <2>5, Zenon DEF TesterVerdictSound, StandsOn, v, outcome, commands, proven
<1> QED
  BY <1>1, <1>2, <1>3, PTL DEF Spec

-----------------------------------------------------------------------------
(***************************************************************************)
(* The shared cache.  A directory holds finitely many files, no two of one *)
(* name.  The loops of the code build the selections of CacheRanking.      *)
(***************************************************************************)
Directory(S) ==
  /\ IsFiniteSet(S)
  /\ \A i \in S : i.created \in Int /\ i.id \in Int /\ Cache!CacheRank(i) \in Int
  /\ \A i, j \in S : i # j => i.created # j.created \/ i.id # j.id

RankOrder(S) == {p \in S \X S : Cache!RankedBefore(p[1], p[2])}
ListOrder(S) == {p \in S \X S : Cache!ListedBefore(p[1], p[2])}

LEMMA PairsOfOrders ==
  ASSUME NEW S, NEW i \in S, NEW j \in S
  PROVE  /\ <<i, j>> \in RankOrder(S) <=> Cache!RankedBefore(i, j)
         /\ <<i, j>> \in ListOrder(S) <=> Cache!ListedBefore(i, j)
BY DEF RankOrder, ListOrder

LEMMA OrdersAreStrict ==
  ASSUME NEW S, Directory(S)
  PROVE  StrictOrder(S, RankOrder(S)) /\ StrictOrder(S, ListOrder(S))
<1>1. \A i \in S : i.created \in Int /\ i.id \in Int /\ Cache!CacheRank(i) \in Int
  BY DEF Directory
<1>2. /\ \A i \in S : ~Cache!RankedBefore(i, i) /\ ~Cache!ListedBefore(i, i)
      /\ \A i, j \in S : i # j =>
           /\ Cache!RankedBefore(i, j) \/ Cache!RankedBefore(j, i)
           /\ Cache!ListedBefore(i, j) \/ Cache!ListedBefore(j, i)
  BY <1>1 DEF Directory, Cache!RankedBefore, Cache!ListedBefore
<1>3. \A i, j, k \in S :
        Cache!RankedBefore(i, j) /\ Cache!RankedBefore(j, k) => Cache!RankedBefore(i, k)
  BY <1>1 DEF Cache!RankedBefore
<1>4. \A i, j, k \in S :
        Cache!ListedBefore(i, j) /\ Cache!ListedBefore(j, k) => Cache!ListedBefore(i, k)
  BY <1>1 DEF Cache!ListedBefore
<1> QED
  BY <1>2, <1>3, <1>4, PairsOfOrders DEF StrictOrder

LEMMA PartOfDirectory ==
  ASSUME NEW S, Directory(S), NEW T \in SUBSET S
  PROVE  Directory(T)
BY FS_Subset DEF Directory

\* Deduplication keeps the copy that ranks first.
LEMMA BeatsByRank ==
  ASSUME NEW S, Directory(S), NEW i \in S, NEW j \in S
  PROVE  Cache!Beats(i, j) <=>
           Cache!DedupeKey(i) = Cache!DedupeKey(j) /\ Cache!RankedBefore(i, j)
<1>1. /\ i.created \in Int /\ i.id \in Int /\ Cache!CacheRank(i) \in Int
      /\ j.created \in Int /\ j.id \in Int /\ Cache!CacheRank(j) \in Int
      /\ i # j => i.created # j.created \/ i.id # j.id
  BY DEF Directory
<1> QED
  BY <1>1 DEF Cache!Beats, Cache!Supersedes, Cache!ListedBefore, Cache!RankedBefore

\* Of each key one item is kept, ...
LEMMA OneOfKey ==
  ASSUME NEW S, Directory(S), NEW i \in Cache!Kept(S), NEW j \in Cache!Kept(S),
         Cache!DedupeKey(i) = Cache!DedupeKey(j)
  PROVE  i = j
<1>1. i \in S /\ j \in S /\ ~Cache!Beats(i, j) /\ ~Cache!Beats(j, i)
  BY DEF Cache!Kept
<1>2. i # j => Cache!RankedBefore(i, j) \/ Cache!RankedBefore(j, i)
  BY <1>1, OrdersAreStrict, PairsOfOrders DEF StrictOrder
<1> QED
  BY <1>1, <1>2, BeatsByRank

\* ... and it is the first of them.
LEMMA BestOfKey ==
  ASSUME NEW S, Directory(S), NEW i \in S
  PROVE  \E k \in Cache!Kept(S) : k = i \/ Cache!Beats(k, i)
<1> DEFINE C == {j \in S : Cache!DedupeKey(j) = Cache!DedupeKey(i)}
<1>1. C \in SUBSET S /\ Directory(C) /\ i \in C
  BY PartOfDirectory
<1>2. \A j \in C : j \in S /\ Cache!DedupeKey(j) = Cache!DedupeKey(i)
  OBVIOUS
<1>3. \A j \in S : Cache!DedupeKey(j) = Cache!DedupeKey(i) => j \in C
  OBVIOUS
<1> HIDE DEF C
<1>4. PICK k \in C : Before(k, C, RankOrder(C)) = {}
  BY <1>1, OrdersAreStrict, FirstElement DEF Directory
<1>5. \A j \in C : ~Cache!RankedBefore(j, k)
  BY <1>4, PairsOfOrders DEF Before
<1>6. k \in Cache!Kept(S)
  BY <1>2, <1>3, <1>5, BeatsByRank DEF Cache!Kept
<1>7. k = i \/ Cache!RankedBefore(k, i)
  BY <1>1, <1>5, OrdersAreStrict, PairsOfOrders DEF StrictOrder
<1> QED
  BY <1>2, <1>6, <1>7, BeatsByRank

\* One turn of the loop: what was kept of the files before this one becomes what is kept of them
\* and of it.
LEMMA NextTurn ==
  ASSUME NEW S, Directory(S), NEW T \in SUBSET S, NEW i \in S, i \notin T,
         \A j \in T : Cache!ListedBefore(j, i)
  PROVE  Cache!DedupeStep(Cache!Kept(T), i) = Cache!Kept(T \cup {i})
<1> DEFINE kept   == Cache!Kept(T)
           rivals == {k \in kept : Cache!DedupeKey(k) = Cache!DedupeKey(i)}
<1>1. Directory(T) /\ T \cup {i} \in SUBSET S /\ kept \subseteq T
  BY PartOfDirectory DEF Cache!Kept
<1>2. \A x \in T \cup {i} : x \in Cache!Kept(T \cup {i}) <=>
        /\ ~Cache!Beats(i, x)
        /\ \A j \in T : ~Cache!Beats(j, x)
  BY DEF Cache!Kept
<1>3. \A x \in T : x \in kept <=> \A j \in T : ~Cache!Beats(j, x)
  BY DEF Cache!Kept
<1>4. ~Cache!Beats(i, i)
  BY DEF Cache!Beats
<1>5. \A x \in T : Cache!Beats(i, x) <=>
        Cache!DedupeKey(i) = Cache!DedupeKey(x) /\ Cache!Supersedes(i, x)
  <2> SUFFICES ASSUME NEW x \in T
               PROVE  Cache!Beats(i, x) <=>
                        Cache!DedupeKey(i) = Cache!DedupeKey(x) /\ Cache!Supersedes(i, x)
    OBVIOUS
  <2>1. /\ Cache!ListedBefore(x, i) /\ i # x
        /\ i.created \in Int /\ x.created \in Int /\ i.id \in Int /\ x.id \in Int
    BY DEF Directory
  <2>2. ~Cache!ListedBefore(i, x)
    BY <2>1 DEF Cache!ListedBefore
  <2> QED
    BY <2>1, <2>2 DEF Cache!Beats
<1>6. \A x \in T : Cache!Beats(x, i) <=>
        Cache!DedupeKey(i) = Cache!DedupeKey(x) /\ ~Cache!Supersedes(i, x)
  <2> SUFFICES ASSUME NEW x \in T
               PROVE  Cache!Beats(x, i) <=>
                        Cache!DedupeKey(i) = Cache!DedupeKey(x) /\ ~Cache!Supersedes(i, x)
    OBVIOUS
  <2>1. /\ Cache!ListedBefore(x, i) /\ i # x
        /\ i.created \in Int /\ x.created \in Int
        /\ Cache!CacheRank(i) \in Int /\ Cache!CacheRank(x) \in Int
    BY DEF Directory
  <2>2. Cache!Supersedes(x, i) => ~Cache!Supersedes(i, x)
    BY <2>1 DEF Cache!Supersedes
  <2> QED
    BY <2>1, <2>2 DEF Cache!Beats
<1>7. Cache!DedupeStep(kept, i) =
        IF rivals = {} \/ \E k \in rivals : Cache!Supersedes(i, k)
        THEN (kept \ rivals) \cup {i} ELSE kept
  BY DEF Cache!DedupeStep
<1>8. \A x, y \in rivals : x = y
  BY <1>1, OneOfKey
<1>9. \A x \in T : Cache!DedupeKey(x) = Cache!DedupeKey(i) =>
        \E k \in rivals : k = x \/ Cache!RankedBefore(k, x)
  <2> SUFFICES ASSUME NEW x \in T, Cache!DedupeKey(x) = Cache!DedupeKey(i)
               PROVE  \E k \in rivals : k = x \/ Cache!RankedBefore(k, x)
    OBVIOUS
  <2>1. PICK k \in kept : k = x \/ Cache!Beats(k, x)
    BY <1>1, BestOfKey
  <2> QED
    BY <1>1, <2>1, BeatsByRank
<1> HIDE DEF kept
<1>10. CASE rivals = {} \/ \E k \in rivals : Cache!Supersedes(i, k)
  <2>1. \A x \in T : Cache!DedupeKey(x) = Cache!DedupeKey(i) => Cache!RankedBefore(i, x)
    <3> SUFFICES ASSUME NEW x \in T, Cache!DedupeKey(x) = Cache!DedupeKey(i)
                 PROVE  Cache!RankedBefore(i, x)
      OBVIOUS
    <3>1. PICK k \in rivals : k = x \/ Cache!RankedBefore(k, x)
      BY <1>9
    <3>2. Cache!Supersedes(i, k) /\ k \in T /\ Cache!DedupeKey(k) = Cache!DedupeKey(i)
      BY <1>1, <1>8, <1>10, <3>1
    <3>3. Cache!RankedBefore(i, k)
      BY <1>5, <3>2, BeatsByRank
    <3> QED
      BY <3>1, <3>2, <3>3, OrdersAreStrict, PairsOfOrders DEF StrictOrder
  <2>2. \A x \in T : Cache!Beats(i, x) <=> Cache!DedupeKey(x) = Cache!DedupeKey(i)
    BY <2>1, BeatsByRank
  <2>3. \A x \in T : ~Cache!Beats(x, i)
    BY <1>5, <1>6, <2>2
  <2>4. \A x \in T : x \in Cache!Kept(T \cup {i}) <=> x \in kept \ rivals
    BY <1>1, <1>2, <1>3, <2>2
  <2>5. i \in Cache!Kept(T \cup {i})
    BY <1>2, <1>4, <2>3
  <2>6. Cache!Kept(T \cup {i}) \subseteq T \cup {i}
    BY DEF Cache!Kept
  <2>7. Cache!Kept(T \cup {i}) = (kept \ rivals) \cup {i}
    BY <1>1, <2>4, <2>5, <2>6
  <2> QED
    BY <1>7, <1>10, <2>7 DEF kept
<1>11. CASE ~(rivals = {} \/ \E k \in rivals : Cache!Supersedes(i, k))
  <2>1. PICK k \in rivals : ~Cache!Supersedes(i, k)
    BY <1>11
  <2>2. k \in T /\ Cache!Beats(k, i)
    BY <1>1, <1>6, <2>1
  <2>3. \A x \in kept : ~Cache!Beats(i, x)
    BY <1>1, <1>5, <1>11
  <2>4. \A x \in T : x \in Cache!Kept(T \cup {i}) <=> x \in kept
    BY <1>1, <1>2, <1>3, <2>3
  <2>5. i \notin Cache!Kept(T \cup {i})
    BY <1>2, <2>2
  <2>6. Cache!Kept(T \cup {i}) \subseteq T \cup {i}
    BY DEF Cache!Kept
  <2>7. Cache!Kept(T \cup {i}) = kept
    BY <1>1, <2>4, <2>5, <2>6
  <2> QED
    BY <1>7, <1>11, <2>7 DEF kept
<1> QED
  BY <1>10, <1>11

LEMMA LargestOfPlaces ==
  ASSUME NEW n \in Nat, NEW s \in SUBSET (1 .. n), s # {}
  PROVE  Cache!Max(s) \in s /\ \A m \in s : m <= Cache!Max(s)
<1> DEFINE R == {p \in s \X s : p[1] > p[2]}
<1>1. IsFiniteSet(s) /\ \A m \in s : m \in Int
  <2>1. IsFiniteSet(s)
    BY UpTo, FS_Subset
  <2>2. \A m \in s : m \in 1 .. n
    OBVIOUS
  <2> QED
    BY <2>1, <2>2
<1>2. \A x, y \in s : <<x, y>> \in R <=> x > y
  OBVIOUS
<1> HIDE DEF R
<1>3. StrictOrder(s, R)
  BY <1>1, <1>2 DEF StrictOrder
<1>4. PICK k \in s : Before(k, s, R) = {}
  BY <1>1, <1>3, FirstElement
<1>5. \A y \in s : k >= y
  <2>1. \A y \in s : <<y, k>> \notin R
    BY <1>4 DEF Before
  <2>2. \A y \in s : ~(y > k)
    BY <1>2, <2>1
  <2> QED
    BY <1>1, <2>2
<1>6. \A y \in s : Cache!Max(s) \in s /\ Cache!Max(s) >= y
  BY <1>5 DEF Cache!Max
<1> QED
  BY <1>1, <1>6

\* The fold over a listing keeps what deduplication keeps of the files: the selections of all parts
\* of it satisfy the recursion of the fold, and no other function does.
LEMMA LoopKeeps ==
  ASSUME NEW S, Directory(S), NEW n \in Nat, NEW items, DOMAIN items = 1 .. n,
         \A m \in 1 .. n : items[m] \in S,
         \A l, m \in 1 .. n : l < m => Cache!ListedBefore(items[l], items[m])
  PROVE  Cache!DedupeCacheItems(items) = Cache!Kept({items[m] : m \in 1 .. n})
<1> DEFINE Parts == SUBSET (1 .. n)
           turn(f, s) == IF s = {} THEN {}
                         ELSE Cache!DedupeStep(f[s \ {Cache!Max(s)}], items[Cache!Max(s)])
           F == CHOOSE f : f = [s \in Parts |-> turn(f, s)]
           G == [s \in Parts |-> Cache!Kept({items[m] : m \in s})]
<1>1. Cache!DedupeCacheItems(items) = F[1 .. n]
  BY DEF Cache!DedupeCacheItems, Cache!FoldLeft, Cache!MapThenFoldSet
<1>2. ASSUME NEW s \in Parts, s # {}
      PROVE  /\ Cache!Max(s) \in s /\ s \ {Cache!Max(s)} \in Parts
             /\ \A m \in s \ {Cache!Max(s)} : m < Cache!Max(s)
  <2>1. Cache!Max(s) \in s /\ \A m \in s : m <= Cache!Max(s)
    BY <1>2, LargestOfPlaces
  <2>2. \A m \in s : m \in Nat
    OBVIOUS
  <2>3. s \ {Cache!Max(s)} \in Parts
    OBVIOUS
  <2>4. ASSUME NEW m \in s \ {Cache!Max(s)} PROVE m < Cache!Max(s)
    <3>1. m \in s /\ m # Cache!Max(s) /\ m <= Cache!Max(s) /\ Cache!Max(s) \in s
      BY <2>1
    <3>2. m \in Nat /\ Cache!Max(s) \in Nat
      BY <2>2, <3>1
    <3> HIDE DEF Parts
    <3> QED
      BY <3>1, <3>2
  <2> QED
    BY <2>1, <2>3, <2>4
<1>3. ASSUME NEW s \in Parts PROVE G[s] = turn(G, s)
  <2>1. CASE s = {}
    BY <2>1 DEF Cache!Kept
  <2>2. CASE s # {}
    <3> DEFINE k == Cache!Max(s)
               T == {items[m] : m \in s \ {k}}
    <3>1. /\ k \in s /\ s \ {k} \in Parts
          /\ \A m \in s \ {k} : m < k
      BY <1>2, <2>2
    <3>2. k \in 1 .. n /\ \A m \in s : m \in 1 .. n
      BY <3>1
    <3> HIDE DEF k
    <3>3. T \in SUBSET S /\ items[k] \in S
      BY <3>2
    <3>4. \A j \in T : Cache!ListedBefore(j, items[k])
      BY <3>1, <3>2
    <3>5. items[k] \notin T
      BY <3>3, <3>4 DEF Directory, Cache!ListedBefore
    <3>6. {items[m] : m \in s} = T \cup {items[k]}
      BY <3>1
    <3>7. G[s] = Cache!Kept(T \cup {items[k]}) /\ G[s \ {k}] = Cache!Kept(T)
      BY <3>1, <3>6
    <3> HIDE DEF T, G
    <3>8. Cache!DedupeStep(Cache!Kept(T), items[k]) = Cache!Kept(T \cup {items[k]})
      BY <3>3, <3>4, <3>5, NextTurn
    <3> QED
      BY <2>2, <3>7, <3>8 DEF k
  <2> QED
    BY <2>1, <2>2
<1>4. G = [s \in Parts |-> turn(G, s)]
  BY <1>3
<1> HIDE DEF G
<1>5. F = [s \in Parts |-> turn(F, s)]
  BY <1>4
<1> HIDE DEF F
<1> DEFINE Bad == {k \in 0 .. n : \E s \in SUBSET (1 .. k) : F[s] # G[s]}
<1>6. Bad = {}
  <2> SUFFICES ASSUME Bad # {} PROVE FALSE
    OBVIOUS
  <2>1. Bad \in SUBSET Nat
    OBVIOUS
  <2>2. PICK k \in Bad : \A j \in Bad : k <= j
    BY <2>1, SmallestOfSet
  <2>3. PICK s \in SUBSET (1 .. k) : F[s] # G[s]
    BY <2>2
  <2>4. k \in 0 .. n /\ s \in Parts
    BY <2>2, <2>3
  <2>5. s # {}
    BY <1>4, <1>5, <2>3, <2>4
  <2>6. /\ Cache!Max(s) \in s /\ s \ {Cache!Max(s)} \in Parts
        /\ \A m \in s \ {Cache!Max(s)} : m < Cache!Max(s)
    BY <1>2, <2>4, <2>5
  <2>7. k - 1 \in 0 .. n /\ s \ {Cache!Max(s)} \in SUBSET (1 .. k - 1)
    <3> DEFINE last == Cache!Max(s)
    <3>1. last \in 1 .. k /\ \A m \in s : m \in 1 .. k
      BY <2>6
    <3>2. \A m \in s \ {last} : m < last
      BY <2>6
    <3> HIDE DEF last
    <3>3. k - 1 \in 0 .. n
      BY <2>4, <3>1
    <3>4. \A m \in s \ {last} : m \in 1 .. k - 1
      BY <2>4, <3>1, <3>2
    <3> QED
      BY <3>3, <3>4 DEF last
  <2>8. k - 1 \notin Bad
    <3>1. k \in Int /\ \A j \in Bad : k <= j
      BY <2>2, <2>4
    <3> HIDE DEF Bad
    <3>2. ~ (k <= k - 1)
      BY <3>1
    <3> QED
      BY <3>1, <3>2
  <2>9. F[s \ {Cache!Max(s)}] = G[s \ {Cache!Max(s)}]
    BY <2>7, <2>8
  <2>10. F[s] = turn(F, s) /\ G[s] = turn(G, s)
    BY <1>4, <1>5, <2>4
  <2> QED
    BY <2>3, <2>9, <2>10
<1>7. F[1 .. n] = G[1 .. n]
  BY <1>6
<1> QED
  BY <1>1, <1>7 DEF G

\* The files of S as they are listed, and as RankedCache sorts them.
Files(S) == Cache!InOrder(S, Cache!ListedBefore)
Best(S)  == Cache!InOrder(S, Cache!RankedBefore)

LEMMA SortedFiles ==
  ASSUME NEW S, Directory(S)
  PROVE  LET n == Cardinality(S) IN
         /\ n \in Nat
         /\ DOMAIN Files(S) = 1 .. n
         /\ \A m \in 1 .. n : Files(S)[m] \in S
         /\ \A i \in S : \E m \in 1 .. n : Files(S)[m] = i
         /\ \A l, m \in 1 .. n : l < m => Cache!ListedBefore(Files(S)[l], Files(S)[m])
<1> DEFINE n        == Cardinality(S)
           below(x) == Cardinality(Before(x, S, ListOrder(S)))
           f        == Files(S)
<1>1. IsFiniteSet(S) /\ StrictOrder(S, ListOrder(S))
  BY OrdersAreStrict DEF Directory
<1>2. Files(S) = [m \in 1 .. Cache!Cardinality(S) |->
                    CHOOSE i \in S :
                      Cache!Cardinality({j \in S : Cache!ListedBefore(j, i)}) = m - 1]
  BY DEF Files, Cache!InOrder
<1>3. \A i \in S : below(i) = Cache!Cardinality({j \in S : Cache!ListedBefore(j, i)})
  <2>1. \A i \in S : Before(i, S, ListOrder(S)) = {j \in S : Cache!ListedBefore(j, i)}
    BY PairsOfOrders DEF Before
  <2> QED
    BY <2>1, SameCardinality
<1>4. Cache!Cardinality(S) = n
  BY SameCardinality
<1>5. ASSUME NEW m \in 1 .. n, \E i \in S : below(i) = m - 1
      PROVE  f[m] \in S /\ below(f[m]) = m - 1
  <2> DEFINE place(i) == Cache!Cardinality({j \in S : Cache!ListedBefore(j, i)})
  <2>1. f[m] = CHOOSE i \in S : place(i) = m - 1
    BY <1>2, <1>4
  <2>2. \A i \in S : below(i) = place(i)
    BY <1>3
  <2> HIDE DEF place, f, below
  <2> QED
    BY <1>5, <2>1, <2>2
<1>6. /\ n \in Nat
      /\ \A m \in 1 .. n : f[m] \in S /\ below(f[m]) = m - 1
      /\ \A i \in S : below(i) \in 0 .. n - 1 /\ f[1 + below(i)] = i
  <2> HIDE DEF f
  <2> QED
    BY <1>1, <1>5, ElementsByRank
<1>7. DOMAIN f = 1 .. n
  BY <1>2, <1>4
<1> HIDE DEF n, f
<1>8. ASSUME NEW l \in 1 .. n, NEW m \in 1 .. n, l < m
      PROVE  Cache!ListedBefore(f[l], f[m])
  <2>1. f[l] \in S /\ f[m] \in S /\ below(f[l]) = l - 1 /\ below(f[m]) = m - 1
    BY <1>6
  <2>2. f[l] # f[m] /\ ~(below(f[m]) <= below(f[l]))
    BY <1>8, <2>1
  <2>3. \/ Cache!ListedBefore(f[l], f[m])
        \/ Cache!ListedBefore(f[m], f[l])
    BY <1>1, <2>1, <2>2, PairsOfOrders DEF StrictOrder
  <2>4. ASSUME Cache!ListedBefore(f[m], f[l]) PROVE FALSE
    <3>1. Before(f[m], S, ListOrder(S)) \subseteq Before(f[l], S, ListOrder(S))
      BY <1>1, <2>1, <2>4, PairsOfOrders DEF StrictOrder, Before
    <3>2. IsFiniteSet(Before(f[l], S, ListOrder(S)))
      BY <1>1, FS_Subset DEF Before
    <3> QED
      BY <2>2, <3>1, <3>2, FS_Subset
  <2> QED
    BY <2>3, <2>4
<1>9. ASSUME NEW i \in S PROVE \E m \in 1 .. n : f[m] = i
  <2>1. 1 + below(i) \in 1 .. n /\ f[1 + below(i)] = i
    <3> HIDE DEF below
    <3> QED
      BY <1>6
  <2> QED
    BY <2>1
<1> QED
  BY <1>6, <1>7, <1>8, <1>9 DEF n, f

LEMMA SortedBest ==
  ASSUME NEW S, Directory(S)
  PROVE  LET n == Cardinality(S) IN
         /\ n \in Nat /\ Best(S) \in [1 .. n -> S]
         /\ \A m \in 1 .. n : Cardinality(Before(Best(S)[m], S, RankOrder(S))) = m - 1
         /\ \A i \in S : LET b == Cardinality(Before(i, S, RankOrder(S))) IN
                         b \in 0 .. n - 1 /\ Best(S)[1 + b] = i
<1> DEFINE n        == Cardinality(S)
           below(x) == Cardinality(Before(x, S, RankOrder(S)))
           f        == Best(S)
<1>1. IsFiniteSet(S) /\ StrictOrder(S, RankOrder(S))
  BY OrdersAreStrict DEF Directory
<1>2. Best(S) = [m \in 1 .. Cache!Cardinality(S) |->
                   CHOOSE i \in S :
                     Cache!Cardinality({j \in S : Cache!RankedBefore(j, i)}) = m - 1]
  BY DEF Best, Cache!InOrder
<1>3. \A i \in S : below(i) = Cache!Cardinality({j \in S : Cache!RankedBefore(j, i)})
  <2>1. \A i \in S : Before(i, S, RankOrder(S)) = {j \in S : Cache!RankedBefore(j, i)}
    BY PairsOfOrders DEF Before
  <2> QED
    BY <2>1, SameCardinality
<1>4. Cache!Cardinality(S) = n
  BY SameCardinality
<1>5. ASSUME NEW m \in 1 .. n, \E i \in S : below(i) = m - 1
      PROVE  f[m] \in S /\ below(f[m]) = m - 1
  <2> DEFINE place(i) == Cache!Cardinality({j \in S : Cache!RankedBefore(j, i)})
  <2>1. f[m] = CHOOSE i \in S : place(i) = m - 1
    BY <1>2, <1>4
  <2>2. \A i \in S : below(i) = place(i)
    BY <1>3
  <2> HIDE DEF place, f, below
  <2> QED
    BY <1>5, <2>1, <2>2
<1>6. /\ n \in Nat
      /\ \A m \in 1 .. n : f[m] \in S /\ below(f[m]) = m - 1
      /\ \A i \in S : below(i) \in 0 .. n - 1 /\ f[1 + below(i)] = i
  <2> HIDE DEF f
  <2> QED
    BY <1>1, <1>5, ElementsByRank
<1>7. f = [m \in 1 .. n |-> f[m]]
  BY <1>2, <1>4
<1> HIDE DEF f
<1> QED
  BY <1>6, <1>7 DEF f

LEMMA ListingKept ==
  ASSUME NEW S, Directory(S)
  PROVE  Cache!DedupeCacheItems(Files(S)) = Cache!Kept(S)
<1> DEFINE n == Cardinality(S)
           f == Files(S)
<1>1. /\ n \in Nat /\ DOMAIN f = 1 .. n
      /\ \A m \in 1 .. n : f[m] \in S
      /\ \A i \in S : \E m \in 1 .. n : f[m] = i
      /\ \A l, m \in 1 .. n : l < m => Cache!ListedBefore(f[l], f[m])
  BY SortedFiles
<1> HIDE DEF n, f
<1>2. {f[m] : m \in 1 .. n} = S
  BY <1>1
<1>3. Cache!DedupeCacheItems(f) = Cache!Kept({f[m] : m \in 1 .. n})
  BY <1>1, LoopKeeps
<1> QED
  BY <1>2, <1>3 DEF f

LEMMA ListingRanked ==
  ASSUME NEW S, Directory(S), NEW limit \in Int
  PROVE  Cache!RankedCache(Files(S), limit) = Cache!Ranked(S, limit)
<1> DEFINE K        == Cache!Kept(S)
           n        == Cardinality(K)
           f        == Best(K)
           below(i) == Cardinality(Before(i, K, RankOrder(K)))
           size     == IF limit > 0 /\ n > limit THEN limit ELSE n
<1>1. Directory(K)
  BY PartOfDirectory DEF Cache!Kept
<1>2. /\ n \in Nat /\ f \in [1 .. n -> K]
      /\ \A m \in 1 .. n : below(f[m]) = m - 1
      /\ \A i \in K : below(i) \in 0 .. n - 1 /\ f[1 + below(i)] = i
  <2> HIDE DEF K
  <2> QED
    BY <1>1, SortedBest
<1>3. Cache!DedupeCacheItems(Files(S)) = K
  BY ListingKept
<1>4. Cache!RankedCache(Files(S), limit)
        = {f[m] : m \in 1 .. IF limit > 0 /\ Len(f) > limit THEN limit ELSE Len(f)}
  BY <1>3 DEF Cache!RankedCache, Best
<1>5. \A i \in K : below(i) = Cache!Cardinality({j \in K : Cache!RankedBefore(j, i)})
  <2>1. \A i \in K : Before(i, K, RankOrder(K)) = {j \in K : Cache!RankedBefore(j, i)}
    BY PairsOfOrders DEF Before
  <2> QED
    BY <2>1, SameCardinality
<1>6. Cache!Ranked(S, limit) = {i \in K : limit > 0 => below(i) < limit}
  <2>1. Cache!Ranked(S, limit) =
          {i \in K : limit > 0 => Cache!Cardinality({j \in K : Cache!RankedBefore(j, i)}) < limit}
    BY DEF Cache!Ranked
  <2> DEFINE place(i) == Cache!Cardinality({j \in K : Cache!RankedBefore(j, i)})
  <2>2. \A i \in K : below(i) = place(i)
    BY <1>5
  <2>3. Cache!Ranked(S, limit) = {i \in K : limit > 0 => place(i) < limit}
    BY <2>1
  <2> HIDE DEF place, below, K
  <2> QED
    BY <2>2, <2>3
<1> HIDE DEF K, n, f, below
<1>7. Len(f) = n /\ size \in Nat /\ size <= n
  BY <1>2
<1>8. Cache!RankedCache(Files(S), limit) = {f[m] : m \in 1 .. size}
  BY <1>4, <1>7
<1>9. ASSUME NEW m \in 1 .. size
      PROVE  f[m] \in K /\ (limit > 0 => below(f[m]) < limit)
  <2>1. m \in 1 .. n /\ (limit > 0 => m <= limit)
    BY <1>2, <1>7
  <2> HIDE DEF size
  <2> QED
    BY <1>2, <2>1
<1>10. ASSUME NEW i \in K, limit > 0 => below(i) < limit
       PROVE  \E m \in 1 .. size : f[m] = i
  <2>1. below(i) \in 0 .. n - 1 /\ f[1 + below(i)] = i
    BY <1>2
  <2>2. 1 + below(i) \in 1 .. size
    BY <1>2, <1>10, <2>1
  <2> HIDE DEF size
  <2> QED
    BY <2>1, <2>2
<1> HIDE DEF size
<1> QED
  BY <1>6, <1>8, <1>9, <1>10

LEMMA ListingPruned ==
  ASSUME NEW S, Directory(S), NEW now
  PROVE  Cache!QuarantineCandidates(Files(S), now) = Cache!Candidates(S, now)
<1> DEFINE n == Cardinality(S)
           f == Files(S)
           K == Cache!Kept(S)
<1>1. /\ DOMAIN f = 1 .. n
      /\ \A m \in 1 .. n : f[m] \in S
      /\ \A i \in S : \E m \in 1 .. n : f[m] = i
  BY SortedFiles
<1>2. Cache!DedupeCacheItems(f) = K
  BY ListingKept
<1> HIDE DEF n, f, K
<1>3. Cache!QuarantineCandidates(f, now) =
        {f[m] : m \in {l \in 1 .. n : Cache!Prunable(f[l], now) \/ f[l] \notin K}}
  BY <1>1, <1>2 DEF Cache!QuarantineCandidates
<1>4. \A i \in S : i \notin K <=> \E j \in S : Cache!Beats(j, i)
  BY DEF K, Cache!Kept
<1>5. Cache!Candidates(S, now) = {i \in S : Cache!Prunable(i, now) \/ i \notin K}
  BY <1>4 DEF Cache!Candidates
<1> QED
  BY <1>1, <1>3, <1>5 DEF f

\* The loops over a listing of any directory select what CacheRanking says of the set of its items:
\* neither the order of the listing nor that of a map decides which copy is shown or moved
\* (cache.go:186-227, maintenance.go:229-264).
THEOREM LoopsAreSelections ==
  ASSUME NEW S, Directory(S), NEW limit \in Int, NEW now
  PROVE  /\ Cache!RankedCache(Files(S), limit) = Cache!Ranked(S, limit)
         /\ Cache!QuarantineCandidates(Files(S), now) = Cache!Candidates(S, now)
BY ListingRanked, ListingPruned

\* Maintenance at one time settles in one run, and it leaves of each key the best copy unless that
\* is itself low or stale (maintenance.go:229-264).
THEOREM BestCopyStays ==
  ASSUME NEW S, Directory(S), NEW now
  PROVE  LET moved == Cache!QuarantineCandidates(Files(S), now)
             stays == S \ moved
         IN
         /\ Cache!QuarantineCandidates(Files(stays), now) = {}
         /\ \A i \in S : \E k \in S :
              /\ Cache!DedupeKey(k) = Cache!DedupeKey(i) /\ (k = i \/ Cache!RankedBefore(k, i))
              /\ k \in stays \/ Cache!Prunable(k, now)
<1> DEFINE moved == Cache!Candidates(S, now)
           stays == S \ moved
<1>1. Cache!QuarantineCandidates(Files(S), now) = moved
  BY ListingPruned
<1>2. stays \in SUBSET S /\ Directory(stays)
  BY PartOfDirectory
<1>3. \A i \in stays : ~Cache!Prunable(i, now) /\ \A j \in S : ~Cache!Beats(j, i)
  BY DEF Cache!Candidates
<1>4. \A i \in S : Cache!Prunable(i, now) \/ (\E j \in S : Cache!Beats(j, i)) \/ i \in stays
  BY DEF Cache!Candidates
<1> HIDE DEF moved, stays
<1>5. Cache!Candidates(stays, now) = {}
  BY <1>2, <1>3 DEF Cache!Candidates
<1>6. Cache!QuarantineCandidates(Files(stays), now) = {}
  BY <1>2, <1>5, ListingPruned
<1>7. ASSUME NEW i \in S
      PROVE  \E k \in S :
               /\ Cache!DedupeKey(k) = Cache!DedupeKey(i) /\ (k = i \/ Cache!RankedBefore(k, i))
               /\ k \in stays \/ Cache!Prunable(k, now)
  <2>1. PICK k \in Cache!Kept(S) : k = i \/ Cache!Beats(k, i)
    BY BestOfKey
  <2>2. k \in S /\ \A j \in S : ~Cache!Beats(j, k)
    BY DEF Cache!Kept
  <2>3. k \in stays \/ Cache!Prunable(k, now)
    BY <1>4, <2>2
  <2>4. Cache!DedupeKey(k) = Cache!DedupeKey(i) /\ (k = i \/ Cache!RankedBefore(k, i))
    BY <2>1, <2>2, BeatsByRank
  <2> QED
    BY <2>2, <2>3, <2>4
<1> QED
  BY <1>1, <1>6, <1>7 DEF stays

\* A constraint as the executor puts it, verified and of full confidence, outranks every item of
\* another kind.
LEMMA ConstraintsFirst ==
  ASSUME NEW c, c.kind = "constraint", c.verified, c.confidence = 100,
         NEW i, i.confidence \in 0 .. 100, i.kind # "constraint"
  PROVE  /\ Cache!CacheRank(i) \in Int /\ Cache!CacheRank(c) \in Int
         /\ Cache!CacheRank(i) < Cache!CacheRank(c)
<1>1. /\ Cache!KindPriority(i.kind) \in 0 .. 95
      /\ i.kind # "route_health" => Cache!KindPriority(i.kind) \in 0 .. 90
      /\ Cache!KindPriority("constraint") = 100
  BY DEF Cache!KindPriority, Cache!CacheKindPriority
<1>2. Cache!CacheRank(c) = 11500
  BY <1>1 DEF Cache!CacheRank, Cache!HealthyRoute
<1> DEFINE priority == Cache!KindPriority(i.kind)
           conf     == i.confidence
           healthy  == IF Cache!HealthyRoute(i) THEN 300 ELSE 0
           failed   == IF i.kind = "failed_attempt" THEN 200 ELSE 0
           verified == IF i.verified THEN 500 ELSE 0
<1>3. Cache!CacheRank(i) = 100 * priority + 10 * conf + verified + healthy + failed
  BY DEF Cache!CacheRank
<1>4. /\ verified \in 0 .. 500
      /\ healthy \in 0 .. 300 /\ (i.kind # "route_health" => healthy = 0)
      /\ failed \in 0 .. 200 /\ (i.kind = "route_health" => failed = 0)
  BY DEF Cache!HealthyRoute
<1>5. conf \in 0 .. 100 /\ priority \in 0 .. 95 /\ (i.kind # "route_health" => priority <= 90)
  BY <1>1
<1> HIDE DEF priority, conf, healthy, failed, verified
<1> QED
  BY <1>2, <1>3, <1>4, <1>5

\* So none of them takes its place under the tightest limit (lake_test.go).
THEOREM ConstraintsAreShown ==
  ASSUME NEW S, Directory(S), \A i \in S : i.confidence \in 0 .. 100,
         NEW c \in S, c.kind = "constraint", c.verified, c.confidence = 100,
         NEW i \in Cache!RankedCache(Files(S), 1)
  PROVE  i.kind = "constraint"
<1> DEFINE K == Cache!Kept(S)
           ahead == {j \in K : Cache!RankedBefore(j, i)}
<1>1. PICK k \in K : k = c \/ Cache!Beats(k, c)
  BY BestOfKey
<1>2. k \in S /\ (k = c \/ Cache!RankedBefore(k, c))
  BY <1>1, BeatsByRank DEF Cache!Kept
<1>3. i \in K /\ Cache!Cardinality(ahead) < 1
  BY ListingRanked DEF Cache!Ranked
<1>4. i \in S /\ IsFiniteSet(ahead)
  BY <1>3, FS_Subset DEF Directory, Cache!Kept
<1>5. Cardinality(ahead) \in Nat /\ Cardinality(ahead) < 1
  <2> HIDE DEF ahead
  <2> QED
    BY <1>3, <1>4, SameCardinality, FS_CardinalityType
<1>6. ahead = {}
  <2> HIDE DEF ahead
  <2> QED
    BY <1>4, <1>5, FS_EmptySet
<1>7. ~Cache!RankedBefore(k, i)
  BY <1>1, <1>6
<1>8. ASSUME i.kind # "constraint" PROVE FALSE
  <2>1. Cache!CacheRank(i) < Cache!CacheRank(c) /\ i.confidence \in 0 .. 100
    BY <1>4, <1>8, ConstraintsFirst
  <2>2. /\ Cache!CacheRank(i) \in Int /\ Cache!CacheRank(c) \in Int /\ Cache!CacheRank(k) \in Int
    BY <1>2, <1>4 DEF Directory
  <2>3. Cache!CacheRank(k) >= Cache!CacheRank(c)
    BY <1>2, <2>2 DEF Cache!RankedBefore
  <2> QED
    BY <1>7, <2>1, <2>2, <2>3 DEF Cache!RankedBefore
<1> QED
  BY <1>8

Fields(i, id, kind, verified, confidence, created) ==
  /\ i.id = id /\ i.kind = kind /\ i.verified = verified
  /\ i.confidence = confidence /\ i.created = created

LEMMA ItemFields ==
  \A id, kind, position, content, verified, confidence, model, status, created :
    Fields(Cache!Item(id, kind, position, content, verified, confidence, model, status, created),
           id, kind, verified, confidence, created)
BY DEF Cache!Item, Fields

\* The universe of the run is a directory of such items, and so is every part of it.
LEMMA UniverseIsDirectory ==
  /\ Directory(Cache!Universe)
  /\ \A i \in Cache!Universe :
       /\ i.confidence \in 0 .. 100
       /\ i.kind = "constraint" => i.verified /\ i.confidence = 100
<1> DEFINE i1 == Cache!Item(1, "constraint", "", "request", TRUE, 100, "", "", 1)
           i2 == Cache!Item(2, "constraint", "", "request", TRUE, 100, "", "", 3)
           i3 == Cache!Item(3, "route_health", "", "m ok", TRUE, 95, "m", "ok", 1)
           i4 == Cache!Item(4, "route_health", "", "m failed", TRUE, 80, "m", "failed", 4)
           i5 == Cache!Item(5, "failed_attempt", "p", "x", TRUE, 80, "", "", 2)
           i6 == Cache!Item(6, "failed_attempt", "p", "x", TRUE, 80, "", "", 2)
           i7 == Cache!Item(7, "verified_recipe", "p", "x", TRUE, 90, "", "", 2)
           i8 == Cache!Item(8, "verified_recipe", "p", "x", TRUE, 40, "", "", 4)
           i9 == Cache!Item(9, "other", "p", "x", FALSE, 90, "", "", 4)
           U == Cache!Universe
           f == [i \in U |-> i.id]
<1>1. U = {i1, i2, i3, i4, i5, i6, i7, i8, i9}
  BY Zenon DEF Cache!Universe
<1>2. /\ Fields(i1, 1, "constraint", TRUE, 100, 1)
      /\ Fields(i2, 2, "constraint", TRUE, 100, 3)
      /\ Fields(i3, 3, "route_health", TRUE, 95, 1)
      /\ Fields(i4, 4, "route_health", TRUE, 80, 4)
      /\ Fields(i5, 5, "failed_attempt", TRUE, 80, 2)
      /\ Fields(i6, 6, "failed_attempt", TRUE, 80, 2)
      /\ Fields(i7, 7, "verified_recipe", TRUE, 90, 2)
      /\ Fields(i8, 8, "verified_recipe", TRUE, 40, 4)
      /\ Fields(i9, 9, "other", FALSE, 90, 4)
  BY Zenon, ItemFields
<1> HIDE DEF i1, i2, i3, i4, i5, i6, i7, i8, i9, U
<1>3. \A i \in U :
        /\ i.id \in 1 .. 9 /\ i.created \in 1 .. 4 /\ i.confidence \in 0 .. 100
        /\ i.kind = "constraint" => i.verified /\ i.confidence = 100
  BY <1>1, <1>2 DEF Fields
<1>4. \A i, j \in U : i.id = j.id => i = j
  BY <1>1, <1>2 DEF Fields
<1>5. f \in Injection(U, 1 .. 9)
  BY <1>3, <1>4 DEF Injection, IsInjective
<1>6. IsFiniteSet(U)
  <2>1. IsFiniteSet(1 .. 9)
    BY UpTo
  <2> HIDE DEF f
  <2> QED
    BY <1>5, <2>1, FS_Injection
<1>7. ASSUME NEW i \in U PROVE Cache!CacheRank(i) \in Int
  <2>1. Cache!KindPriority(i.kind) \in 0 .. 100
    BY DEF Cache!KindPriority, Cache!CacheKindPriority
  <2>2. i.confidence \in Int
    BY <1>3
  <2> HIDE DEF U
  <2> DEFINE priority   == Cache!KindPriority(i.kind)
             confidence == i.confidence
  <2>3. Cache!CacheRank(i) = 100 * priority + 10 * confidence
                             + (IF i.verified THEN 500 ELSE 0)
                             + (IF Cache!HealthyRoute(i) THEN 300 ELSE 0)
                             + (IF i.kind = "failed_attempt" THEN 200 ELSE 0)
    BY DEF Cache!CacheRank
  <2>4. priority \in Int /\ confidence \in Int
    BY <2>1, <2>2
  <2> HIDE DEF priority, confidence
  <2> QED
    BY <2>3, <2>4
<1>8. Directory(U)
  BY <1>3, <1>4, <1>6, <1>7 DEF Directory
<1> QED
  BY <1>3, <1>8 DEF U

LEMMA ListedInvariant == Spec => [](listed \subseteq Cache!Universe)
<1>1. Init => listed \subseteq Cache!Universe
  BY DEF Init, Cache!Init
<1>2. listed \subseteq Cache!Universe /\ [Next]_<<input, listed>> =>
        (listed \subseteq Cache!Universe)'
  <2> SUFFICES ASSUME listed \subseteq Cache!Universe, Next
               PROVE  (listed \subseteq Cache!Universe)'
    OBVIOUS
  <2>1. CASE AskCache
    BY <2>1 DEF AskCache, Cache!Next
  <2>2. CASE Asks
    BY <2>2 DEF Asks
  <2> QED
    BY <2>1, <2>2 DEF Next, AskTester, AskCollapse, AskQA, AskForce, AskTrace, AskQuality,
       AskSandbox, AskPlan, AskLimits, AskTask, AskPromotion, AskFailure, AskKnowledge,
       AskImprovement
<1> QED
  BY <1>1, <1>2, PTL DEF Spec

\* What RankedCache returns is a matter of ranks alone; with the executor's kinds a constraint
\* survives the tightest limit (cache.go:186-227).
THEOREM RankedAlwaysSelection == Spec => []RankedIsSelection
<1>1. ASSUME listed \subseteq Cache!Universe PROVE RankedIsSelection
  <2>1. Directory(listed) /\ Cache!Listing = Files(listed)
    BY <1>1, UniverseIsDirectory, PartOfDirectory DEF Cache!Listing, Files
  <2>2. \A limit \in 0 .. 4 : Cache!RankedCache(Cache!Listing, limit) = Cache!Ranked(listed, limit)
    BY <2>1, ListingRanked
  <2>3. \A c \in listed : c.kind = "constraint" =>
          \A i \in Cache!RankedCache(Cache!Listing, 1) : i.kind = "constraint"
    BY <1>1, <2>1, UniverseIsDirectory, ConstraintsAreShown
  <2> QED
    BY <2>2, <2>3 DEF RankedIsSelection, Cache!RankedIsSelection
<1> QED
  BY <1>1, ListedInvariant, PTL

\* Applying maintenance twice at one time moves nothing the second time, and no constraint of full
\* confidence is lost to it: its best copy stays (maintenance.go:229-264).
THEOREM MaintenanceAlwaysSettles == Spec => []MaintenanceSettles
<1>1. ASSUME listed \subseteq Cache!Universe PROVE MaintenanceSettles
  <2>1. Directory(listed) /\ Cache!Listing = Files(listed)
    BY <1>1, UniverseIsDirectory, PartOfDirectory DEF Cache!Listing, Files
  <2> SUFFICES ASSUME NEW now \in Cache!Times
               PROVE  LET moved == Cache!QuarantineCandidates(Cache!Listing, now) IN
                      /\ moved = Cache!Candidates(listed, now)
                      /\ Cache!Candidates(listed \ moved, now) = {}
                      /\ MinConfidence <= 100 =>
                           \A i \in listed : i.kind = "constraint" =>
                             \E j \in listed \ moved : Cache!DedupeKey(j) = Cache!DedupeKey(i)
    BY DEF MaintenanceSettles, Cache!MaintenanceSettles
  <2> DEFINE moved == Cache!QuarantineCandidates(Files(listed), now)
             stays == listed \ moved
  <2>2. moved = Cache!Candidates(listed, now)
    BY <2>1, ListingPruned
  <2>3. Directory(stays)
    BY <2>1, PartOfDirectory
  <2>4. Cache!Candidates(stays, now) = {}
    BY <2>1, <2>3, BestCopyStays, ListingPruned
  <2>5. ASSUME MinConfidence <= 100, NEW i \in listed, i.kind = "constraint"
        PROVE  \E j \in stays : Cache!DedupeKey(j) = Cache!DedupeKey(i)
    <3>1. PICK k \in listed : /\ Cache!DedupeKey(k) = Cache!DedupeKey(i)
                              /\ k \in stays \/ Cache!Prunable(k, now)
      BY <2>1, BestCopyStays
    <3>2. k.kind = "constraint"
      BY <2>5, <3>1 DEF Cache!DedupeKey
    <3>3. k.confidence = 100
      BY <1>1, <3>2, UniverseIsDirectory
    <3>4. ~Cache!Prunable(k, now)
      BY <2>5, <3>2, <3>3, ThresholdAssumption
      DEF Cache!Prunable, Cache!LowConfidence, Cache!Stale
    <3> QED
      BY <3>1, <3>4
  <2> QED
    BY <2>1, <2>2, <2>4, <2>5
<1> QED
  BY <1>1, ListedInvariant, PTL

=============================================================================
