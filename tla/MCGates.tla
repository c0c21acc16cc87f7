------------------------------ MODULE MCGates ------------------------------
(***************************************************************************)
(* The pure parts of qsm on every input of a bounded universe: the initial *)
(* state asks nothing, each step asks one question of one component, and   *)
(* the invariants say what its answer must be worth.  (The directory of    *)
(* the shared cache grows item by item, as in MCCacheRanking.)             *)
(***************************************************************************)
EXTENDS Integers, Sequences, FiniteSets

CONSTANTS MinConfidence, StaleAfter, RouteHealthStaleAfter

\* Confidences are percentages; the threshold is a flag of lake-maintain (main.go:1678).
ASSUME ThresholdAssumption == MinConfidence \in Nat

VARIABLES
  input,     \* the question: a record with the field topic and those of its topic
  listed     \* the items of the cache directory

Cache     == INSTANCE MCCacheRanking
Tester    == INSTANCE TesterGate
Branches  == INSTANCE BranchCollapse
QA        == INSTANCE QAGates
Scores    == INSTANCE ForceScore
Reports   == INSTANCE EvidenceReports
Knowledge == INSTANCE KnowledgeReports
Failure   == INSTANCE FailureRegrow
Plans     == INSTANCE PlanGate
Bench     == INSTANCE Benchmarks

UpToTwo(S) == {{}} \cup {{a, b} : a, b \in S}

SeqsUpTo(S, n) == UNION {[1 .. k -> S] : k \in 0 .. n}

Asks == input.topic = "none" /\ listed = {} /\ UNCHANGED listed

-----------------------------------------------------------------------------
(***************************************************************************)
(* Tester: at most two kinds of file, and JavaScript tests; machines with  *)
(* everything, nothing, or all but one tool; manifests that are absent,    *)
(* unreadable, sound, without a test, or refused in part; one kind of      *)
(* command that ends badly.                                                *)
(***************************************************************************)
FileSets == LET few == UpToTwo(Tester!FileKinds) IN few \cup {S \cup {"jstest"} : S \in few}

ToolSets == {Tester!Tools, {}} \cup {Tester!Tools \ {t} : t \in Tester!Tools}

Machines ==
  {[backend |-> "room", host |-> T, box |-> {}, daemon |-> FALSE] : T \in ToolSets}
  \cup {[backend |-> "docker", host |-> T, box |-> Tester!Tools, daemon |-> TRUE] : T \in ToolSets}
  \cup {[backend |-> "docker", host |-> Tester!Tools, box |-> B, daemon |-> D] :
          B \in {{}, Tester!Tools \ {"node"}, Tester!Tools}, D \in BOOLEAN}

Own(nr, kind, form) == [nr |-> nr, kind |-> kind, form |-> form]
Absent         == [state |-> "absent", commands |-> {}]
Sound          == [state |-> "read", commands |-> {Own(1, "test", "fine")}]
ManifestPairs  ==
  {<<Absent, Absent>>, <<Absent, Sound>>,
   <<[state |-> "invalid", commands |-> {}], Sound>>,
   <<[state |-> "read", commands |-> {Own(1, "lint", "fine")}], Sound>>,
   <<Absent, [state |-> "read", commands |-> {Own(1, "test", "fine"), Own(2, "test", "outside")}]>>}

Misfortunes == {<<"none", "ok">>, <<"test", "exit">>, <<"lint", "listed">>,
                <<"browser", "timeout">>, <<"manifest", "exit">>}

AskTester ==
  /\ Asks
  /\ \E files \in FileSets, m \in Machines, own \in ManifestPairs, bad \in Misfortunes :
       input' = [topic |-> "tester", files |-> files, m |-> m, own |-> own, bad |-> bad]

Outcome(c) == IF input.bad[1] \in {c.kind, c.origin} THEN input.bad[2] ELSE "ok"

\* A process that ended with status zero, seen without the tester's bookkeeping.
Proven(c) ==
  /\ c.needs \in (IF input.m.backend = "room" THEN input.m.host ELSE input.m.box) \cup {"manifest"}
  /\ input.m.backend = "docker" => input.m.daemon
  /\ Outcome(c) \in {"ok", "listed"}

Runner == [gotest |-> {"go tests"}, pytest |-> {"pytest"}, jstest |-> {"node tests", "npm test"}]

\* A product of a known language passes only if a test of it, its own or the manifest's, was a
\* process that ended well, and a page only if a browser was; every kind of test file in it was
\* run, except that JavaScript tests without node or npm on the host are left at a warning; and
\* no command of the manifest in effect was refused, lost or failed (tester.go:143-239).
TesterVerdictSound ==
  input.topic = "tester" =>
    LET files    == input.files
        manifest == Tester!ReadManifest(input.own[1], input.own[2])
        outcome  == [c \in Tester!Commands(files, input.m, manifest) |-> Outcome(c)]
        v        == Tester!Verify(files, input.m, input.own[1], input.own[2], {}, outcome)
        proven   == {r.cmd : r \in {x \in v.results : Proven(x.cmd)}}
        type     == Tester!ProductType(files)
    IN
    v.passed =>
      /\ type \in {"go", "python", "node"} => \E c \in proven : c.kind = "test"
      /\ type = "static-web" => \E c \in proven : c.kind = "browser"
      /\ \A t \in Tester!TestFiles(files) :
           \/ \E c \in proven : c.name \in Runner[t]
           \/ t = "jstest" /\ v.warnings \cap {"node", "npm"} # {}
      /\ manifest.state # "invalid"
      /\ \A own \in manifest.commands : \E c \in proven : c.origin = "manifest" /\ c.nr = own.nr

-----------------------------------------------------------------------------
(***************************************************************************)
(* Collapse: up to three branches, with or without evidence, with scores   *)
(* on both sides of the cap, and products that pass or trip one auditor.   *)
(***************************************************************************)
GoodManifest == [state |-> "json", version |-> TRUE, kind |-> "cli-tool", artifacts |-> {"there"},
                 tests |-> TRUE, cites |-> {"cache_item"}]
NoManifest   == [GoodManifest EXCEPT !.state = "none"]
TornManifest == [GoodManifest EXCEPT !.state = "torn"]
Uncited      == [GoodManifest EXCEPT !.cites = {"source"}]

Product(dir, page, first, second) ==
  [dir |-> dir, page |-> page, manifest |-> <<first, second>>]

Products ==
  {Product("full", {}, GoodManifest, NoManifest), Product("full", {}, NoManifest, GoodManifest),
   Product("full", {}, TornManifest, GoodManifest), Product("full", {}, Uncited, NoManifest),
   Product("full", {"bad script"}, GoodManifest, NoManifest),
   Product("empty", {}, GoodManifest, NoManifest)}

Candidate(evidence, score, product, verified) ==
  [build |-> TRUE, test |-> evidence, lint |-> TRUE, score |-> score, product |-> product,
   verified |-> verified]

Contenders ==
  {Candidate(TRUE, score, product, TRUE) : score \in {5, 8, 10}, product \in Products}
  \cup {Candidate(TRUE, 9, product, FALSE) : product \in Products}
  \cup {Candidate(FALSE, score, Product("full", {}, GoodManifest, NoManifest), TRUE) :
          score \in {5, 10}}

AskCollapse ==
  /\ Asks
  /\ \E runners \in SeqsUpTo(Contenders, 2), node \in BOOLEAN, last \in Contenders :
       input' = [topic |-> "collapse", runners |-> Append(runners, last), node |-> node]

\* The branches of the run report, verified or not when they were collected.
BranchesOf(runners, node) ==
  [i \in DOMAIN runners |->
     LET r == runners[i] IN
     [pos |-> i, build |-> r.build, test |-> r.test, lint |-> r.lint, score |-> r.score,
      product |-> r.product,
      verification |-> IF ~r.verified THEN "none"
                       ELSE IF Branches!VerifyProduct(r.product, node) THEN "passed" ELSE "failed"]]

\* What a reader of the files would accept.
Acceptable(b, node) ==
  /\ b.test /\ b.product.dir = "full"
  /\ b.verification # "none" /\ node => b.product.page = {}
  /\ b.product.manifest[1] = GoodManifest \/ b.product.manifest = <<NoManifest, GoodManifest>>

\* The verdict is an approval exactly if some branch is acceptable, and then the winner is one,
\* whatever the scores of the others: an acceptable branch with a higher score is passed over only
\* when the audit's two tenths carry both to the cap, and of those the first position wins.  The
\* ranking loses no branch (collapse.go:26-143).
CollapsePicksBest ==
  input.topic = "collapse" =>
    LET results == BranchesOf(input.runners, input.node)
        v       == Branches!Collapse(results)
        w       == v.winner.branch
        good    == {i \in DOMAIN results : Acceptable(results[i], input.node)}
    IN
    /\ v.approved <=> good # {}
    /\ good # {} => /\ w.pos \in good
                    /\ \A i \in good : \/ results[i].score < w.score
                                       \/ results[i].score = w.score /\ w.pos <= i
                                       \/ w.score >= 8 /\ w.pos < i
    /\ {v.ranked[n].branch.pos : n \in DOMAIN v.ranked} = DOMAIN results

-----------------------------------------------------------------------------
(***************************************************************************)
(* qsm qa: a desk on which everything is in order but for two things at    *)
(* most, five force averages, and a run of a winner and another branch     *)
(* when nothing else is wrong.                                             *)
(***************************************************************************)
Result(ok, tested, passed, failed, weak, severe) ==
  [ok |-> ok, tested |-> tested, passed |-> passed, failed |-> failed, weak |-> weak,
   severe |-> severe]

Fine       == Result(TRUE, TRUE, TRUE, FALSE, FALSE, FALSE)
Winners    == {Fine, [Fine EXCEPT !.passed = FALSE], [Fine EXCEPT !.failed = TRUE],
               [Fine EXCEPT !.weak = TRUE], [Fine EXCEPT !.severe = TRUE],
               Result(TRUE, FALSE, FALSE, FALSE, FALSE, FALSE), [Fine EXCEPT !.ok = FALSE]}
Others     == {Fine, Result(FALSE, FALSE, FALSE, FALSE, FALSE, FALSE),
               Result(FALSE, TRUE, FALSE, TRUE, FALSE, FALSE)}

Troubles ==
  {"no run", "unaccounted", "stale", "rejected", "no cost", "no force", "no bench", "local-smoke",
   "unofficial", "task failed", "soft sandbox", "no omni", "no lake", "uncited", "self failed",
   "no ci", "waiver"} \cup QA!ReportFiles

\* An approved verdict names a branch that built, tested and linted.
Desk(troubles, average, winner, others) ==
  LET no(what) == what \notin troubles IN
  [run      |-> [there |-> no("no run"), accounted |-> no("unaccounted"), stale |-> ~no("stale"),
                 succeeded |-> \E r \in {winner} \cup others : r.ok,
                 results |-> {winner} \cup others],
   approved |-> no("rejected") /\ winner.ok,
   cost     |-> no("no cost"),
   force    |-> [there |-> no("no force"), average |-> average, top |-> TRUE],
   bench    |-> [there |-> no("no bench"), official |-> no("unofficial"),
                 suite |-> IF no("local-smoke") THEN "omni-contract" ELSE "local-smoke",
                 tasks |-> {[kind |-> k, passed |-> k # "cli-tool" \/ no("task failed")] :
                              k \in QA!OmniKinds}],
   sandbox  |-> [there |-> TRUE, hard |-> no("soft sandbox"), omni |-> no("no omni")],
   lake     |-> [there |-> no("no lake"), cited |-> no("uncited")],
   self     |-> IF no("self failed") THEN "passed" ELSE "failed",
   files    |-> [f \in QA!ReportFiles |-> IF no(f) THEN "passed" ELSE "torn"],
   env      |-> [ci |-> no("no ci"), waiver |-> ~no("waiver")]]

AskQA ==
  /\ Asks
  /\ \E troubles \in UpToTwo(Troubles), average \in {400, 360, 300, 240, 100},
        winner \in Winners, others \in {{}} \cup {{r} : r \in Others} :
       /\ (winner = Fine /\ others = {}) \/ Cardinality(troubles) <= 1
       /\ input' = [topic |-> "qa", winner |-> winner,
                    desk |-> Desk(troubles, average, winner, others)]

\* From beta on a passed qa stands behind the winner of the verdict: the branch has a test report
\* that passed, with no failed command and nothing weak or severe in it.
WinnerStands ==
  \A profile \in QA!Profiles, refresh \in BOOLEAN :
    QA!QAProfileRank(profile) >= 2 /\ QA!QAPasses(input.desk, profile, refresh) =>
      /\ input.winner.ok /\ input.winner.tested /\ input.winner.passed
      /\ ~(input.winner.failed \/ input.winner.weak \/ input.winner.severe)

\* What passes a profile passes every lower one, except that a refreshed release report fails for
\* production alone where there is no hosted CI or its evidence is waived.
ProfilesNest ==
  \A p \in QA!Profiles, q \in QA!Profiles, refresh \in BOOLEAN :
    /\ QA!QAProfileRank(q) <= QA!QAProfileRank(p)
    /\ q = "production" /\ refresh => input.desk.env = [ci |-> TRUE, waiver |-> FALSE]
    /\ QA!QAPasses(input.desk, p, refresh)
    => QA!QAPasses(input.desk, q, refresh)

\* A higher profile asks for all that a lower one asks for, and none of them passes over a winner
\* that was not tested well (main.go:4406-4667).
QAPassHolds == input.topic = "qa" => WinnerStands /\ ProfilesNest

-----------------------------------------------------------------------------
(***************************************************************************)
(* Force: every set of the facts a category looks at.                      *)
(***************************************************************************)
Regards(i) ==
  CASE i = 1 -> {"RunPresent", "Nodes7", "Concurrency2", "AllNodesAccounted", "BenchmarkPresent",
                 "BenchmarkTasks", "OfficialBenchmark", "CIPassed", "CICI", "StressPassed",
                 "StressNodes7", "StressParallel4", "LargeRepoPassed", "LargeRepo1000"}
    [] i = 2 -> {"PlanApproved", "RunPresent", "AllNodesAccounted", "AutorunState", "RouteFresh",
                 "HealthyRoutes", "CollapseApproved", "TracePassed", "FlakePassed",
                 "CostBudgetPassed", "RecoveryPassed", "LaunchdPlist", "OpsPassed", "Runbook"}
    [] i = 3 -> {"Retries", "CacheItems", "TestCommands", "NoFailedTests", "TotalRoutes",
                 "FlakePassed", "LakeEnterprise", "DecisionCited", "RecoveryPassed",
                 "SelfImprovePassed", "SelfImproveCycles3", "NoRepeatedFailure"}
    [] i = 4 -> {"RunPresent", "AllNodesAccounted", "TestCommands", "RouteFresh", "TotalRoutes",
                 "AutorunState", "CostReport", "TracePassed", "LakeReport", "CIPassed", "CICI"}
    [] i = 5 -> {"NoSevere", "TestCommands", "AuditOK", "SandboxReport", "HardSandbox",
                 "CIWorkflow", "CompliancePassed", "SBOM", "CIPassed", "CICI"}
    [] i = 6 -> {"Simulated", "CostReport", "Tokens", "TotalRoutes", "HealthyRoutes",
                 "CostBudgetPassed", "CIPassed", "CICI"}
    [] i = 7 -> {"AuditOK", "TestCommands", "CoveragePassed", "FlakePassed", "CIWorkflow",
                 "ArtifactRetention", "ContributorPassed", "SelfImprovePassed", "CIPassed", "CICI"}
    [] i = 8 -> {"PlanApproved", "AutorunState", "TraceReport", "ContributorPassed", "ApprovalGate",
                 "OpsPassed", "SelfImprovePassed", "CIPassed", "CICI"}
    [] i = 9 -> {"AutorunState", "RouteFresh", "RunPresent", "AllNodesAccounted", "CIPresent",
                 "CIPassed", "CICI", "LaunchdPlist", "OpsPassed", "ApprovalGate"}
    [] i = 10 -> {"CollapseApproved", "NoFailedTests", "TestCommands", "BenchmarkPresent",
                  "BenchmarkTasks", "BenchmarkAllPassed", "OfficialBenchmark", "StressPassed",
                  "OpsPassed", "LargeRepoPassed", "LargeRepo1000", "CIPassed", "CICI"}

AskForce ==
  /\ Asks
  /\ \E i \in Scores!Categories : \E e \in SUBSET Regards(i) :
       input' = [topic |-> "force", category |-> i, evidence |-> e]

\* A report that goes missing, or a fact that no longer holds, never raises a score, not even
\* through the caps, which depend on the evidence themselves; and it never opens the gate of the
\* local collapse (scoring.go:113-430, main.go:400).
EvidenceNeverLowers ==
  input.topic = "force" =>
    LET e      == input.evidence
        i      == input.category
        desk   == [s \in Scores!Sources |-> e \cap Scores!Attests[s]]
        less   == {Scores!ForceEvidence([desk EXCEPT ![s] = {}]) :
                     s \in {x \in Scores!Sources : desk[x] # {}}} \cup {e \ {f} : f \in e}
    IN
    /\ Scores!ForceEvidence(desk) = e
    /\ \A d \in less :
         /\ Scores!CategoryScore(d, i) <= Scores!CategoryScore(e, i)
         /\ i = 5 /\ Scores!CategoryStatus(e, i) \in {"FAIL", "GAP"} =>
              Scores!CategoryStatus(d, i) \in {"FAIL", "GAP"}

-----------------------------------------------------------------------------
(***************************************************************************)
(* Reports: the trace of a room over attempts of up to four commands; one  *)
(* branch of up to two commands, each run twice and once on the copy;      *)
(* every machine and every outcome of a probe; the hosts of a smoke.       *)
(***************************************************************************)
Starts == [name : {"a", "b"}, ended : BOOLEAN, inside : BOOLEAN]

Line(type, start) == [type |-> type, name |-> start.name, inside |-> start.inside]

\* The lines a sequence of commands leaves: a start each, and behind it an end, or a blank line,
\* which the report passes over, where it came to none.
LinesOf(starts) ==
  [n \in 1 .. 2 * Len(starts) |->
     LET start == starts[(n + 1) \div 2] IN
     Line(IF n % 2 = 1 THEN "start" ELSE IF start.ended THEN "end" ELSE "blank", start)]

AskTrace ==
  /\ Asks
  /\ \E starts \in SeqsUpTo(Starts, 4) : input' = [topic |-> "trace", starts |-> starts]

\* A passed trace has an end for every command of every attempt of its rooms, although starts and
\* ends are only counted by name over all attempts; none of them was outside (main.go:1964-2018).
TraceEarned ==
  input.topic = "trace" /\ Reports!TracePassed({[there |-> TRUE, lines |-> LinesOf(input.starts)]})
    => \A i \in DOMAIN input.starts : input.starts[i].ended /\ input.starts[i].inside

Commands ==
  [kind : {"test", "lint"}, origin : {"qsm", "manifest"}, runs : [1 .. 2 -> BOOLEAN],
   copied : BOOLEAN]

NamesCoverage == [readable |-> TRUE, kinds |-> {"coverage"}]

AskQuality ==
  /\ Asks
  /\ \E commands \in SeqsUpTo(Commands, 2), ok \in BOOLEAN, report \in {"none", "failed", "passed"},
        copy \in {"failed", "unchanged", "mutated"},
        manifests \in {<<>>, <<NamesCoverage>>,
                       <<[NamesCoverage EXCEPT !.readable = FALSE], NamesCoverage>>},
        type \in {"go", "static-web"} :
       input' = [topic |-> "quality",
                 branches |-> {[ok |-> ok, product |-> TRUE, report |-> report,
                                commands |-> commands, copy |-> copy, manifests |-> manifests,
                                type |-> type, covered |-> TRUE]}]

\* When the flake and the mutation report pass, every product with a passed test report has a test
\* that fails on the mutated copy and passed each time it was repeated on the product itself: the
\* mutation report alone would take a test that always fails.  No report passes on a run that
\* gives it nothing to look at (main.go:2405-2650).
QualityEarned ==
  input.topic = "quality" =>
    LET bs       == input.branches
        reported == {b \in bs : b.report = "passed"}
    IN
    /\ Reports!FlakePassed(bs) /\ Reports!MutationPassed(bs) =>
         \A b \in reported : \E i \in DOMAIN b.commands :
           /\ b.commands[i].kind = "test" /\ ~b.commands[i].copied
           /\ b.commands[i].runs = <<TRUE, TRUE>>
    /\ Reports!MutationPassed(bs) => reported # {}
    /\ Reports!FlakePassed(bs) => \E b \in bs : b.report # "none" /\ b.commands # <<>>
    /\ Reports!CoveragePassed(bs) =>
         \E b \in bs : b.ok /\ (b.manifests # <<>> \/ b.type = "go")

AskSandbox ==
  /\ Asks
  /\ \E daemon, sbx, probed, inventory \in BOOLEAN, backend \in {"auto", "docker", "room"},
        seen \in SUBSET Reports!ProbeGoals, policy \in {{}, {"network_none", "non_root_user",
                                                          "drop_caps", "read_only_root"}} :
       input' = [topic |-> "sandbox", machine |-> [daemon |-> daemon, sbx |-> sbx],
                 probed |-> probed, backend |-> backend, seen |-> seen, policy |-> policy,
                 inventory |-> inventory]

\* Compliance is earned by a probe that ran in docker and saw all it looks for: neither a sandbox
\* tool on the path nor the room backend is enough (main.go:3416, 1791; sandbox.go).
ComplianceEarned ==
  input.topic = "sandbox" =>
    LET report == IF input.probed
                  THEN Reports!InspectWithProbe(input.backend, input.machine, input.seen)
                  ELSE Reports!Inspect(input.machine)
    IN Reports!CompliancePassed(report, input.policy, input.inventory) =>
         /\ input.probed /\ input.backend # "room" /\ input.machine.daemon
         /\ input.seen = Reports!ProbeGoals

Hosts ==
  [tools : {Plans!Tools, Plans!Tools \ {"go"}}, broken : {{}, {"git"}},
   files : SUBSET {"langchain-runner", "opencode-cli", "opencode-config", "wiki"},
   url : BOOLEAN, key : BOOLEAN, live : BOOLEAN, imports : SUBSET {"deepagents", "langchain"}]

AskPlan ==
  /\ Asks
  /\ \E mode \in Plans!Modes \cup {"all", "other"}, host \in Hosts, found, healthy \in BOOLEAN :
       /\ healthy => found
       /\ input' = [topic |-> "plan", mode |-> mode, host |-> host,
                    routes |-> [found |-> found, healthy |-> healthy]]

\* The smoke of a real harness starts no run that the planning gate will refuse for a file or for
\* its mode: readiness and the gate keep their own lists (main.go:807, config.go:73,
\* planning.go:148).
SmokeOnReadyHost ==
  input.topic = "plan" /\ Plans!SmokeReachesRun(input.mode, input.host, input.routes) =>
    Plans!Blockers(input.mode, input.host, TRUE) \subseteq Plans!Tools

Outlays == [there : {TRUE}, tokens : {0, 2, 250001}, usd : {0, 2}, perSuccess : {0, 2}]

AskLimits ==
  /\ Asks
  /\ \E cost \in Outlays, duration \in {2, 1800001}, nodes, parallel \in -1 .. 3,
        set \in [tokens : {-1, 0, 1, 300000}, usd : -1 .. 1, perSuccess : {0},
                duration : {-1, 0, 999, 1000, 2000000000}] :
       input' = [topic |-> "limits", cost |-> cost, duration |-> duration, set |-> set,
                 nodes |-> nodes, parallel |-> parallel]

\* A setting of zero or less lifts no limit on tokens and time, as it does the one on money.
\* Every other setting holds, but for a duration below a millisecond: it is cut to zero, and that
\* lifts the limit.  Whatever numbers the stress command is given, it has a node and no more at
\* work than it has nodes (main.go:2312, 2329, 3133, 5216, 5230).
LimitsKept ==
  input.topic = "limits" =>
    /\ Reports!CostBudgetPassed(input.cost, input.duration, input.set) =>
         /\ input.set.tokens <= 0 => input.cost.tokens <= 250000
         /\ input.set.duration <= 0 => input.duration <= 1800000
         /\ input.set.duration >= 1000 => 1000 * input.duration <= input.set.duration
         /\ \A f \in {"tokens", "usd"} : input.set[f] > 0 => input.cost[f] <= input.set[f]
    /\ Reports!StressParallel(input.nodes, input.parallel) \in 1 .. Reports!StressNodes(input.nodes)

TaskRoots ==
  [exit : BOOLEAN, succeeded : {TRUE}, trace : BOOLEAN, cited : {TRUE}, force : {90},
   verdict : [there : BOOLEAN, approved : BOOLEAN, winner : 0 .. 2],
   manifests : [1 .. 2 -> BOOLEAN]]

AskTask == Asks /\ \E root \in TaskRoots : input' = [topic |-> "task", root |-> root]

\* The task of a benchmark passes on the manifest of its own winner: a valid manifest of another
\* branch makes up only for a verdict that names no product of the report (main.go:3978-4037).
TaskEarned ==
  input.topic = "task" /\ Bench!TaskPassed(input.root) =>
    LET winner == input.root.verdict.winner IN
    /\ input.root.verdict.approved /\ input.root.exit
    /\ \E i \in 1 .. 2 : input.root.manifests[i] /\ winner \in {0, i}

\* No report passes on less than it claims: traces, quality, compliance, smoke, limits, benchmark.
ReportsEarned ==
  /\ TraceEarned /\ QualityEarned /\ ComplianceEarned /\ SmokeOnReadyHost /\ LimitsKept /\ TaskEarned

-----------------------------------------------------------------------------
(***************************************************************************)
(* Lessons: subsets of eleven recipes in four groups; branches with every  *)
(* combination of gates and words; runs of up to three nodes; three        *)
(* cycles of two tasks.                                                    *)
(***************************************************************************)
Recipe(id, content, verified, confidence) ==
  [id |-> id, content |-> content, recipe |-> TRUE, verified |-> verified,
   confidence |-> confidence]

RecipeBook ==
  {Recipe(1, "x", TRUE, 80), Recipe(2, "x", TRUE, 80), Recipe(3, "x", TRUE, 90),
   Recipe(4, "y", TRUE, 75), Recipe(5, "y", TRUE, 100), Recipe(6, "y", FALSE, 100),
   Recipe(7, "z", TRUE, 100), Recipe(8, "z", TRUE, 100), Recipe(9, "w", TRUE, 95),
   Recipe(10, "w", TRUE, 60), Recipe(11, "w", TRUE, 95)}

AskPromotion ==
  /\ Asks
  /\ \E items \in SUBSET RecipeBook, repeat \in {1, 2, 0}, confidence \in {0, 90}, most \in {1, 2, 0},
        signal \in {{"x", "y", "z", "w"}, {"x", "y"}}, look \in {2, 25} :
       input' = [topic |-> "promotion", items |-> items, signal |-> signal, look |-> look,
                 policy |-> [repeat |-> repeat, confidence |-> confidence, most |-> most]]

\* What is promoted was said by at least two verified items, whatever the policy asks, and nothing
\* that may be promoted and was said more often, or as often with more confidence, is passed over,
\* although both cuts come after sorts and the first comes before the filter (promotion.go).
PromotionsStrongest ==
  input.topic = "promotion" =>
    LET said(c) == {i \in input.items : i.content = c /\ i.verified /\ i.confidence >= 75}
        may     == Knowledge!Promotable(Knowledge!Candidates(input.items), input.policy, input.signal)
    IN \A promoted \in Knowledge!Promotions(input.items, input.policy, input.signal, input.look) :
         /\ \A p \in promoted : Cardinality(said(p.content)) >= 2
         /\ \A p \in promoted, c \in may \ promoted : ~Knowledge!Stronger(c, p)

AskFailure ==
  /\ Asks
  /\ \E gates \in SUBSET {"build", "test", "lint", "audit"}, error \in BOOLEAN,
        report \in {"none", "clean", "failing"}, signals \in SUBSET Failure!Signals,
        room \in SUBSET {"plan", "build", "test"} :
       input' = [topic |-> "failure",
                 result |-> [pos |-> 1, gates |-> gates, error |-> error, report |-> report,
                             signals |-> signals, room |-> room]]

\* The analysis of a failed branch offers a regrowth a checkpoint exactly if its room has one of a
\* phase before the tests, and one that is in the room; and a branch with an error text alone is a
\* failure too (failure.go:101-186).
RegrowthSeeded ==
  input.topic = "failure" =>
    LET r        == input.result
        analysis == Failure!Analyze({r}, 1, {})
    IN
    /\ analysis.passed <=> ~({"build", "test", "lint"} \subseteq r.gates) \/ r.error
    /\ \A f \in analysis.failures :
         /\ f.checkpoint # "" <=> r.room \ {"test"} # {}
         /\ f.checkpoint \in (r.room \ {"test"}) \cup {""}

Nodes ==
  [refreshed : BOOLEAN, memory : BOOLEAN, events : {TRUE}, written : {TRUE},
   cites : {{}, {"observed"}, {"citation"}}, wiki : BOOLEAN, verified : BOOLEAN]

AskKnowledge ==
  /\ Asks
  /\ \E nodes \in SeqsUpTo(Nodes, 2), last \in {n \in Nodes : n.refreshed /\ n.memory} :
       input' = [topic |-> "knowledge", nodes |-> Append(nodes, last)]

\* Up to three nodes, seventy per cent of them is all of them: a run is ready for the enterprise
\* only if each of its nodes cites something and refreshed its view (interaction.go:66-190).
FewNodesAllCite ==
  input.topic = "knowledge" /\ Knowledge!EnterpriseReady(input.nodes, 1) =>
    \A i \in DOMAIN input.nodes :
      input.nodes[i].refreshed /\ (input.nodes[i].wiki \/ input.nodes[i].cites # {})

Cycles == [passed : SUBSET {"t1", "t2"}, force : {50, 54, 55, 95}, cached : BOOLEAN]

AskImprovement ==
  /\ Asks
  /\ \E first, second, third \in Cycles :
       input' = [topic |-> "improvement", cycles |-> <<first, second, third>>]

\* Self-improvement passes only if no task failed in two of the cycles, the last cycle passed as
\* many as the first, and the score moved unless there was nothing left to gain
\* (main.go:4143-4274).
NoRelapse ==
  input.topic = "improvement" /\ Bench!SelfImprovePassed(input.cycles, {"t1", "t2"}) =>
    LET c == input.cycles IN
    /\ \A i, j \in DOMAIN c : i # j => c[i].passed \cup c[j].passed = {"t1", "t2"}
    /\ c[3].force < 95 /\ c[3].force - c[1].force < 5 =>
         \A i \in DOMAIN c : c[i].passed = {"t1", "t2"}

\* Four judgements on what was learnt.
LessonsEarned == PromotionsStrongest /\ RegrowthSeeded /\ FewNodesAllCite /\ NoRelapse

-----------------------------------------------------------------------------
AskCache == input.topic = "none" /\ Cache!Next /\ UNCHANGED input

Init == input = [topic |-> "none"] /\ Cache!Init

Next ==
  \/ AskTester \/ AskCollapse \/ AskQA \/ AskForce \/ AskTrace \/ AskQuality \/ AskSandbox
  \/ AskPlan \/ AskLimits \/ AskTask \/ AskPromotion \/ AskFailure \/ AskKnowledge
  \/ AskImprovement \/ AskCache

Spec == Init /\ [][Next]_<<input, listed>>

\* What RankedCache returns is a matter of ranks alone; with the executor's kinds a constraint
\* survives the tightest limit (lake_test.go).
RankedIsSelection == Cache!RankedIsSelection

\* Applying maintenance twice at one time moves nothing the second time, and no constraint of full
\* confidence is lost to it: its best copy stays, unless the threshold of the command is above all
\* confidences (maintenance.go:229).
MaintenanceSettles == Cache!MaintenanceSettles
=============================================================================
