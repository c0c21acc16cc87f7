# A TLA+ model of QSM

QSM ("qsm", Go) takes a request, has a swarm of agents build the same product in separate rooms,
judges each attempt with deterministic tests, collapses the swarm to one winner and delivers it;
`qsm autorun` repeats that for ever. The agents are slow, fail often and run as external
processes, and nothing but the file system connects the parts. This directory models the parts
that carry the program's own logic, checks them with TLC and proves their main properties with
TLAPS. Paths below are relative to the repository's source tree.

## 1. The system

| Component | State | Operations | Talks to |
|---|---|---|---|
| Executor, the swarm (`internal/swarm/executor.go` `Run`) | semaphore, results channel, WaitGroup, report | start a position, send, release, drain, return | `runOne`, the lake (summary) |
| Executor, one position (`runOne`) | attempt counter, attempt context, watchdog, cache supervisor | kit, refresh, attempt, join, retry, back off, conclude | harness, room status, shared cache, checkpoints |
| Room status (`room_status.go`) | `.qsm_status/status.json` | read, mutate, rename over | runOne, watchdog, supervisor, LangChain runner, `qsm status` |
| Harnesses (`harness.go`, `chop.go`) | a child process | launch, wait, read evidence, verify and test | room status, tester |
| LangChain runner (`harness/langchain_runner.py`) | agent loop, status patches | patch the status, refresh the cache view | room status, shared cache |
| Chop (`chop.go`) | `.rooms/pos-*` | remove and make the rooms anew | run pipeline |
| Shared cache (`internal/lake/cache.go`) | one JSON file per item | put, list, rank, render CACHE.md | every node, route health, maintenance |
| Cache maintenance (`maintenance.go`) | quarantine directory, report | list, plan, move | shared cache |
| Promotion (`promotion.go`) | wiki and material files | group, promote | shared cache |
| Lake (`lake.go`) | one JSON file per artifact | put, list | run pipeline |
| Run pipeline (`cmd/qsm/main.go` `run`) | `.state/*.json` | plan, chop, execute, report, collapse, gate, deliver | nearly everything |
| Autorun (`autorun`) | `.state/autorun.json` | start a cycle, kill it at its timeout, reap, wait | run pipeline as a child process |
| Collapse (`internal/collapse`) | verdict | audit, rank, choose | results of the executor |
| Delivery (`internal/delivery`) | `deliveries/<objective>` | copy a product | the winner's room |
| Checkpoints (`internal/checkpoint`) | archives, manifest | create, restore, list | rooms |
| Build and route health (`cmd/qsm/build_health.go`, `internal/runtime/route_health.go`) | per-model history, probe results | probe, update, choose agents | run pipeline, planning |
| Router deployment (`deploy`, `stop`) | pid file | start, wait, stop | external 9Router |
| Failure and regrow (`internal/failure`) | failure records, regrow rooms | classify, regrow | rooms |
| Tester, verifier, manifest (`internal/tester`, `verifier.go`, `internal/productmanifest`) | none | run commands, gate | harnesses, collapse |
| Planning, requirements (`internal/planning`, `internal/requirements`) | reports | gate, score | run pipeline |
| Capacity, costing, grounding, lake interaction, node kit, sandbox, synthesis, research, wiki, council, methodology | none or reports | pure computations and I/O | run pipeline |
| QA, benchmark, self-improve, CI commands | reports | run commands, gate | external tools |

What is hard, and what makes each part correct:

- **One position.** Up to four actors update one file without a lock; a watchdog judges progress by
  that file; a cancelled attempt may still return a verified product. Correct: attempts are
  bounded, nobody writes after the joins, file and result agree, a fired watchdog is answered.
- **The swarm.** `Run` blocks on the semaphore while it must also be able to receive. Correct: no
  deadlock, no lost result, an exact report, the announced concurrency.
- **Shared cache.** Writers write in place, readers read file by file, maintenance renames, all
  from several processes. Correct: a reader sees one instant of the directory or nothing new, shows
  the best of each key, loses no item without a reason; maintenance moves nothing it must keep.
- **Run and autorun.** A cycle can be killed anywhere and its agents survive it. Correct: report,
  verdict and delivery never contradict each other, deliveries are what was judged, cycles end.
- **Checkpoints and regrow rooms.** An archive, its manifest and the branch's metadata are three
  files; the walk reads a room that others still write; two regrowths look for a free room and make
  it later. Correct: what is entered is what is there, a seed is whole and nobody else's.
- **Route and build health.** Two files that concurrent runs read, change and write in place.
  Correct: a position is counted once, a run that chooses for itself builds on no route it knows to be
  bad, the planning gate refuses only what is old.
- **Router.** Deploy, autorun and stop meet in a pid file; numbers are given out again. Correct:
  every router that runs can be stopped, and a stop hits nothing else.
- **Reports.** A dozen files, each renewed by its own command, none naming the run it is about;
  `qsm qa` and the gap report join them. Correct: ready means ready on the evidence of one run.
- **The pure parts** (tester, verifier, collapse, force score, qa gates, report verdicts, promotion,
  interaction score, failure analysis) decide between success and failure by counts, caps, defaults
  and word lists. Correct: a pass stands behind what it claims, and less evidence never scores more.

## 2. Modules

| Module | Models | Contract it implements |
|---|---|---|
| `NodeRun` | `runOne`, its watchdog and supervisor goroutines, the harness process, status.json | `NodeContract` |
| `SwarmRun` | `Executor.Run` | `SwarmContract` |
| `CacheRanking` | rank, key, deduplication and quarantine reasons, as a selection | |
| `MCCacheRanking` | the same as the loops and sorts of the code; checks the two against each other | |
| `LakeCache` (`MCLakeCache`: its items) | put, list, render and maintain, file by file; extends `CacheRanking` | `CacheContract` |
| `AutorunCycles` | autorun, the run pipeline, rooms, harness processes, report, verdict, delivery | |
| `RoomSnapshots` | checkpoint create, manifest, restore; allocation and seeding of regrow rooms | |
| `RouteChoice` | probed pool, what counts as an answer, ranking and choice of agents | |
| `RouteHealth` | runs over route_health.json and build_health.json; extends `RouteChoice` | |
| `RouterProcess` | deploy, autorun's start, stop, the pid file, the system's process numbers | |
| `RootReports` | which run each report on disk is about, qa and the gap report over them | |
| `TesterGate` | detection, commands, manifest, execution and verdict of the tester | |
| `BranchCollapse` | product verifier, project manifest, the four auditors, the ranking | |
| `QAGates` | the gates of qa by profile, the release report, the gap report | |
| `ForceScore` | evidence, the ten scores, status, top tier, the gate of the local collapse | |
| `EvidenceReports` | the verdict of each report qsm builds (trace, budget, coverage, flake, ...) | |
| `PlanGate` | planning gate, validation of a real harness, doctor, readiness and smoke | |
| `FailureRegrow` | classification of failures, checkpoint to regrow from, limit | |
| `KnowledgeReports` | lake interaction score and promotion | |
| `Benchmarks` | the verdict of a benchmark task and of self-improvement | |
| `MCRoot` | the four state machines over the files of one root | |
| `MCGates` | the pure modules, and the rankings of `MCCacheRanking`, asked question by question | |
| `*_proof` | the theorems about the module of that name | |
| `FiniteOrders` | what the proofs need of sorts: finite strict orders and their ranks | |

The modules are layers. `SwarmRun` uses of a position only what `NodeContract` promises: a verdict
arrives, once. `AutorunCycles` uses of the executor only that it returns when each position has its
verdict, and of a position only launch, collect and judge. `NodeRun` takes the outcome of a cache
refresh and of the tests as a choice; what a test report is worth is `TesterGate`, what the collapse
makes of it `BranchCollapse`, what the force gate makes of that `ForceScore`. `AutorunCycles` has the
order of the pipeline, the other modules its stretches.

### NodeRun

`pc` is the place of the goroutine of `runOne` (`kit`, `refresh`, `begin`, then inside `Execute`
`launch` ... `returned`, then `joinSup`, `joinWd`, `settle`, `backoff`, `done`). `UpdateRoomStatus`
is two steps for whoever runs beside others: `ReadStatus` copies the file into `buf[a]`, a write
puts the mutated copy back; what happened in between is lost, as in the code. Steps of `runOne`
outside an attempt are one step, and `BackgroundOnlyInAttempt` says why that is right. The rename
makes a write of the file atomic. `tried` is `BranchResult.Attempts`. `age` (since `updated_at`)
and `silent` (since the process did anything) count polls of the watchdog and are capped. A
`select` with a tick and a stop both ready may take either. The evidence and the tests are a
choice of outcomes (`ReadEvidence`, `Judge`), with the error paths of each harness. Status writes
always succeed in the model: the code drops their errors, and a room whose status cannot be
written is outside it. Items put into the cache, checkpoints and citations are left out.

### SwarmRun

One action per statement of `Run` that another goroutine can see, one per statement of a
position's goroutine, the two deferred calls in their order. `channel` is a set: the report does
not depend on the order of the results, and the final sort is by position.

### CacheRanking, MCCacheRanking

An item is a record. Confidences are percentages and ranks hundredths, so that sums are exact.
`Beats(i, j)` is "i stays and j goes if both are there". `MCCacheRanking` writes
`dedupeCacheItems`, `RankedCache` and `quarantineCandidates` as the code does, a fold over the
listing with the map as state, and compares them with `Kept`, `Ranked` and `Candidates`.

### LakeCache

`file[i]` is absent, partial (created by `os.WriteFile`, not written yet), complete or quarantined.
A lister takes the directory (`ListBegin`), then reads it in the order of the names (`ListRead`),
and fails as a whole at a file that is torn or gone (`ListFail`). A torn file stays. A room writes
its CACHE.md from what it read, so `view[r]` is what its agent is shown; the write itself is one
step (it is in place, and the agent's own reading of a half written CACHE.md is not modelled).
Maintenance lists, plans, and moves one file at a time in the order of the reasons; it stops at
the first file that is gone. A failed maintenance run exits with `must(err)` before its report is
written: `moved` is the report in memory, and the report file of such a run does not exist.

### AutorunCycles

`run` is the place of the `qsm run` process, `Kill` may come at any of them, and `Fatal` stands for
each `must` and `log.Fatalf` outside the executor. `procs` are the harness processes, named by
cycle and room; `Orphans` are those whose run is gone, and they write products and status files of
whoever uses the room now. A product is the number of the write it dates from. `report` is
`run_report.json`, `verdict` is `verdict.json`, `delivery[c]` the files copied so far, two to a
product. An orphan may die at any time (`OrphanDies`: its own end, a broken pipe to the dead run,
the operator). Not modelled: a crash of autorun itself, two runs on one root, objective IDs of one
second. The start of the router is in `RouterProcess`.

### RoomSnapshots

A file of the room is its version. `maker` is the executor: `head` and `copy` walk the room file by
file into the temporary archive while `Edit` (supervisor, watchdog, harness) changes files under it,
`rename` puts the archive in place, `append` and `appending` rewrite the manifest in place. A file
whose size changes between the tar header and the copy fails the walk (`GiveUp`), and the executor goes
on without a checkpoint. The hash of an archive is the archive itself. `Die` can come between any two
steps, `Chop` of the next run removes room and archives. A regrowth looks for a free room, makes it,
extracts the archive file by file, seeds and reports, and may be abandoned anywhere; `twins` remembers
that two of them looked before either made the room.

### RouteChoice, RouteHealth

A run probes, publishes route_health.json, plans, executes, then loads, truncates and writes
build_health.json; other runs are in between at will, and a run may die with the file torn (a torn
file reads as an empty history). `seen` is the set of observations a history counts, so that losing
one and counting one twice can both be seen; `raced` remembers that somebody read the history while
another run was between its own reading and writing, or had died there, and then wrote what it read;
a reading that only serves the choice of routes is no race. `RouteChoice` leaves out the
routes the history blocks, sorts the others by score and latency, stably, keeps the default agents
among them in their order (`Kept`) and adds the rest by rank.

`Pools` are the lists a run may probe: the default routes, what the router's list amounts to, what a
flag gives. `Named` are the routes `QSM_LANGCHAIN_MODEL` may name; a run that has one (`named`) probes
that route or a pool and uses nothing else (main.go:5604, 5738). The direct fallback names itself in the
same variable once it answered (main.go:210). `ChildModel` is the name under which the langchain child
asks the router: it drops the provider of a route whose model has a slash of its own
(langchain_runner.py:862). A position is counted under what its evidence tells, which is that name, or
under the agent's route where it tells nothing (executor.go:207); `Execute` takes either.

### RouterProcess

`proc[p]` is what lives under a number: nothing, a router that does not answer yet, one that does,
one that was signalled and still answers, or another program. `Spawn`, `Truncate` and `WritePID` are
separate, as are `Look`, `Signal` and `Remove`. `why` is a history variable: the events after which
the code cannot keep its promise. The properties say that these are the only ones.

### RootReports

Each file carries the run it was made from, which the real files do not: the properties can see what
no reader compares. `qsm qa` with refresh renews coverage, flake and mutation only when the sandbox
is hard, and never compliance, verdict and cost. The gap report reads whatever qa_report.json is there.

### The pure modules

Inputs are records of what the code tests of them; a text is the family of words found in it, a
number the threshold it is compared with. `TesterGate` keeps host and container apart, since the code
looks for tools on the host and runs them in the container. `BranchCollapse` counts scores in tenths,
`ForceScore` in quarters of a tenth, so that every sum is exact. `EvidenceReports` takes the results of
running a command again as inputs. `MCGates` asks one question per step, so that a counterexample is
the question.

## 3. Runs

| Run | Asks | States | Bounds |
|---|---|---|---|
| `NodeRun_safety` | do file, result and counters agree in every interleaving? | 1.6 million | three modes, one retry, a timeout of one poll, one background refresh |
| `NodeRun_contract` | does a position always get its verdict, and a firing its answer? | 598 thousand | the same, caller never cancels |
| `NodeRun_timely` | is an armed watchdog on time? | 463 thousand | timeout of four polls, one retry, prompt scheduling |
| `NodeRun_silent_overrun` | violated: the supervisor keeps a silent room fresh | | timeout of four polls, three refreshes |
| `SwarmRun` | can `Run` deadlock, lose a result or miscount? | 4 thousand | four positions, two at a time |
| `LakeCache_rooms` | what may a room be shown? | 363 thousand | four items, a writer that may die, a room, a maintenance run, a clock of two |
| `LakeCache_upkeep` | what may maintenance move, and does it say so? | 537 thousand | four items, two writers, two maintenance runs |
| `LakeCache_live` | does an item arrive? | 132 thousand | as `_rooms`, no write dies |
| `Autorun_safety` | do report, verdict and delivery agree; do cycles end? | 224 thousand | two rooms, two cycles, three writes to products, any cycle may be killed |
| `Autorun_fake_success` | violated: an orphan writes into the room of the next cycle | | one room, two cycles, two writes |
| `MCRoot` | after which races do checkpoints, health files, the pid file and the reports go wrong, and after no others? | 5.3 million | see below |
| `MCGates` | is each verdict, score and ranking worth what it claims? | 629 thousand | see below |

Why the bounds are enough to be of interest. One retry gives a first and a last attempt, and a
second one adds no new neighbour relation; one background refresh is enough to lose and to overwrite
one. The timeouts of four polls are the code's own ratio (`noProgressPollInterval`). Four positions
with two tokens make positions wait for a token, and a results channel too small block. The nine
items of `MCGates` have ties in rank, in time and in both. The rooms of the
`LakeCache` runs meet three keys of which two fit, and an unverified item that beats a verified one;
maintenance meets two keys with two items each, a probe that outranks the newer one of its route and
goes stale before it, and a recipe of just the confidence that is kept (weaker ones are in
`MCGates`). Two cycles are an orphan and its heir. The invariants are proved without any bound
(section 5); the bounds matter for what is only checked.

`MCRoot` chooses one of four scenarios at the start; they share no file, so their product would show
nothing more. Two files that change once each under the walks of four checkpoints (one phase comes
twice), two regrowths and two rooms; two runs of two positions over two default routes, a list of one
other route whose child shortens its name, one of the default routes as the one named, and a fallback,
a probe that is old after one moment; two processes that start a router, two that stop it
and two process numbers, so that a number is given out again at once; two runs, two calls of qa (for
beta and for production) and one report command. Each of the races in a property's exception needs
two actors, and all of them occur within the bounds: each property fails without any one of its
exceptions. The two runs of the health scenario are symmetric: nothing but their names tells them
apart, no definition chooses among them or orders them, and the properties are invariants.

`MCGates` asks:

- the tester: up to two kinds of file and JavaScript tests, machines with all, none or all but one
  tool, room and docker backend, five pairs of manifests, five misfortunes (115 000 questions);
- the collapse: up to three branches with scores on both sides of the cap and products that trip one
  auditor each;
- qa: a desk in order but for two things at most, five force averages, seven winners;
- the force score: every set of the facts a category looks at;
- the reports: traces of up to four commands, a branch of up to two commands each run twice and once
  on the copy, every probe of the sandbox, every host of the smoke, budgets and stress limits below
  zero, at zero, at one and around their defaults, times below, at and above a millisecond, every task root of a benchmark;
- lessons: subsets of eleven recipes in four groups, branches with every combination of gates and
  words, up to three nodes, three cycles of two tasks;
- the cache: every subset of nine items, limits 0 to 4, times 1 to 7, as loops and as selections.

`TypeOK`, `RefreshCountBounds`, `ConcurrencyRespected`, `NoResultLost` and `StatusAgrees` are stated in
their modules and proved, but are not properties of a run: each is a conjunct or a consequence of an
`Inductive` that is.

Bounds that stand in guards or constants: `MaxRefreshes` (refreshes by supervisor and child),
`SilentCap` and `Timeout` (caps of the two counters), `MaxClock`, `MaxCycles` (which is also
`-max-cycles`), `MaxEdits`. `LakeCache_upkeep` is checked without deadlock detection because its
maintenance runs end and nothing else has to go on; `MCRoot` because commands and runs end; `MCGates`
because a question ends its behaviour. Everywhere else a stop that is not the intended end is an error.

Each property comes with a mutant: a plausible bug in the code as another body for one
definition (`...NoWait`, `...Trusts`, `...Early`, ...), marked `Mutant:` in the modules, under which
the property fails.

### Fairness

- `NodeRun`: goroutines are scheduled by the Go runtime, so the steps of `runOne`, of the marked
  updates of the background goroutines and of their stop are weakly fair. A process whose context
  is done is killed, and one whose context is not done runs into the harness timeout
  (`context.WithTimeout`): weak fairness of `ChildKilled \/ ChildDeadline`. This assumes that
  `cmd.Run` returns after the kill; a grandchild that keeps the output pipe open could hold it
  (no `WaitDelay` is set). Nothing is asked of the process, of the ticker or of the clock.
- `SwarmRun`: weak fairness of the main goroutine and of each position, whose `RunOne` is
  justified by the liveness part of `NodeContract`.
- `LakeCache`: a room keeps refreshing (the supervisor and each attempt do), a created file is
  written unless its writer dies, a maintenance run goes on once started.
- `MCRoot`, `MCGates`: none. The commands there end by their own statements, and no property asks for
  it.
- `AutorunCycles`: the timer of a cycle fires and a dead child is reaped. Nothing is asked of the
  run, the agents or the network: this is what `CyclesEnd` rests on.

## 4. Where documents and code differ

`NodeRun_silent_overrun`. The deployment plan
(`docs/PRODUCTION_LEVEL_DEFINITION_AND_LONG_RUN_DEPLOYMENT_PLAN_2026-05-05.md:89`) says no node may
exceed the no-progress timeout without evidence. For OpenCode with the shared cache the supervisor
renews `updated_at` (executor.go:327-329), so the watchdog never sees a silent process. With the
supervisor off, `ArmedWatchdogIsTimely` shows that the watchdog keeps the promise while armed: where
due goroutines run before the clock moves on, a process is never silent for longer than the timeout,
cancelled or not.

`Autorun_fake_success`. The plan (:149-150) says a delivery is approved only when tests and collapse
agree. After a killed cycle (main.go:1419) an agent that survives changes a product between its
tests and its copy. `DeliveredAsJudged` shows that without a kill this cannot happen.

Smaller differences, met while modelling and not run as properties of their own: the verdict is
persisted as approved before the force gate and the copy (main.go:297, 308), so the plan's
"delivery exists if collapse approves" (:233) does not hold of a run that dies in between; the plan
counts on no orphaned harness process (:113, :271), which `OrphansExplained` confines to killed
cycles; `docs/TOLARIA_247_KNOWLEDGE_BRAIN_PLAN.md:316` wants CACHE.md rewritten atomically, and
cache.go:181 writes it in place; the watchdog marks a room failed on a status it read before
(executor.go:370-374) and then cancels even an attempt that has moved on, which costs a retry and
never a false success (`NoSuccessOnFiredAttempt`).

Met while modelling the reports and gates, and worth a reader's attention:

- The gap report asks `production_ready` of a qa report of profile production and `top_tier_ready` of
  one of profile omni-alpha, so that never both hold; the operations report's check that the gap report
  is truthful (main.go:3581) can not fail.
- omni-alpha and local-production accept the waiver of hosted CI, production refuses it: the profiles
  nest but for that (`QAPassHolds`).
- ci-release ignores that its qa failed (main.go:2668).
- The mutation report counts any failure on the copy as caught, also of a test that always fails; only
  together with the flake report does it say that tests catch a change (`ReportsEarned`).
- A room manifest that cannot be read makes the tester fail but is skipped where commands are looked up
  for the coverage report.
- A limit of zero or below on tokens and time is replaced by its default, so no such
  setting switches it off. The limit on money has no default, and zero means none. A positive time
  below one millisecond (`500us`, `0.0005`) is accepted, cut to zero milliseconds and read as no limit
  (main.go:2312, 2329): `ReportsEarned` says that every other setting holds, and excepts this one.
- `lake-maintain` takes a threshold above all confidences and then moves even the constraints;
  `MaintenanceSettles` promises them only up to 100 percent.
- The score is capped at 1 after two tenths for the audit (collapse.go:104): of two branches at the cap
  the first position wins, whatever their own scores (`CollapsePicksBest`).
- Without a probe `sandbox.Inspect` calls a sandbox hard if the tool `sbx` is on the path; compliance
  can not rest on that, since qa and the compliance report probe (`ReportsEarned`).
- Missing node or npm leaves JavaScript tests at a warning (`TesterVerdictSound`).
- The clause "not every cycle promoted a lesson" of self-improvement is never reached, and equal counts of
  passed tasks let one task get worse while another gets better (`LessonsEarned` says what is left).
- Promotion cuts its candidates at 25 before it filters low signals; `cache_item_ids_observed`
  counts as a citation; a run can be ready for the enterprise without a
  verified product.
- A route that build_health.json blocks is not built on again by a gated run that chooses for itself, so
  that only runs without the gate, or told to use it, can add to its history; simulated runs count as
  observations of their routes. A route named by `QSM_LANGCHAIN_MODEL` only has to answer, whatever its
  history is, and so has the direct fallback (`GatedRunsAvoidBlocked`).
- A child asks the router for a shorter name than was probed if the route's model has a slash, as that
  of the default agent gamma and the routes discovered at openrouter. Such a route is probed, and its
  block looked for, under the one name, while its builds are counted under the other if the evidence
  tells it and under the first if not: a history of two builds without a success under the short name
  does not block the route (the second exception of `GatedRunsAvoidBlocked`).
- `qsm deploy` right after `qsm stop` sees the dying router answer and starts none; a second deploy while
  the first router does not answer yet starts another (`RoutersOnFile`).

## 5. Proofs

All theorems are for every value of the constants that satisfies the named assumptions
(`NodeRunAssumption`, `SwarmRunAssumption`, `PolicyAssumption`, `ItemsAssumption`,
`BoundsAssumption`, `ListersAssumption`, `AutorunAssumption`, `RootAssumption`, `ThresholdAssumption`),
which TLC evaluates in the runs. Every invariant of every run is proved.

**NodeRun_proof.** `Behaviour => []Inductive`, and from it type correctness,
`BackgroundOnlyInAttempt`, `FinalStatusAgrees`, `NoSuccessOnFiredAttempt`, `RefreshCountBounds`,
`ArmedWatchdogIsTimely`.
None of them is inductive alone. The verdict and the file agree at the end because nobody can be in
the middle of an update then (`CopyDiscipline`, `JoinDiscipline`: who may hold a copy at which
`pc`) and because each copy carries the running attempt's number (`AttemptAgreement`). A fired
watchdog is remembered until it is decided on (`VerdictDiscipline`). Refresh counts are bounded in
the file because they are bounded in each copy (`CopiesKeepRefreshes`). The watchdog is on time because
one that has used its tick saw a status younger than the timeout, and nobody but the supervisor renews
the status of a silent process (`WatchdogPace`). The proof treats types
first, then each part of the invariant for the loop, for the steps inside an attempt and for the
environment. `KeepsContract`: each step of `Next` is a `Try`, a `Conclude` or a stutter of
`NodeContract`.

**SwarmRun_proof.** The invariant counts: tokens in the semaphore are the goroutines that hold one
(and the one `Run` holds for the next), the WaitGroup is the live goroutines, channel and drained
results partition those sent, the report's numbers are cardinalities of the drained results. The
lemmas `Enters` and `Leaves` move one element of a finite set. `KeepsContract`: the return of `Run` is
`Publish`, a position's end `Decide`, the rest stutters.

**CacheRanking_proof.** Over a finite set of items that differ in time or ID, `RankedBefore` is a
strict total order that contains `Beats`. Hence deduplication of a non-empty set is not empty
(`SomethingKept`), a ranking has at most `limit` items (`RankedIsBounded`), and what it leaves out is
beaten by something shown or comes after `limit` better ones (`LeftOutForBetter`). Existence of a
least element comes from counting predecessors, not from induction over the data.

**LakeCache_proof.** The invariant says that a file being written has one writer, that what a lister
has read was whole, and that each planned or made move has a reason; reasons persist because time
and the set of written items only grow (`JustifiedPersists`). The rankings' lemmas give
`ViewsClean` and `DeparturesExplained`. `KeepsContract` maps a listing to the set of files it started
with and has not failed on, `todo[r] \cup got[r]`, which is constant from `ListBegin` to `Render`:
that is why reading file by file is a snapshot.

**AutorunCycles_proof.** The invariant ties the place of the run to the files (`FilesFollowRun`,
`DeliveryFollowsRun`), says a live process is a child that is waited for or comes from a killed
cycle (`Parents`), and that without a kill nobody touches a room that is decided (`RoomsKept`).
`DeliveriesUnderVerdict` is an action property from the same invariant.

**MCRoot_proof.** One invariant, `RootInv`, with parts for each of the four scenarios.

- *Checkpoints* (`SnapshotsInv`): while an archive is made the branch claims none for its phase
  (`ClaimWaits`), and what will be entered is the archive that was put in place (`EntryIsArchive`); with
  both, `SnapshotsAgree` survives a retry of a phase whose archive is there already.
- *Regrow rooms* (`GrowInv`): archives have a version of every file, a room that nobody uses is empty,
  and a room that one regrowth alone uses holds what that one has extracted so far (`SoleUserExtracts`).
  Using begins only when the room is made, since one that merely looks has not touched it; two users
  are `twins`. Hence `SeedsWhole`.
- *Build health* (`HealthInv`): as long as nothing raced, whoever has loaded the history has loaded all
  that was observed, and is alone in that (`UpdatesApart`), hence `HistoryExact`.
- *Routes* (`RouteInv`): the lemmas say that filtering and sorting yield routes that answered and are
  not blocked, or the one that was named (`KeptElements`, `SortedElements`, `AgentsChosen`); `OpenRoutes`
  keeps that while others write, because a run decides on the history it knew then, and says of what is
  built that it is counted under an agent's route or the child's name for it. For the gate,
  `ProbesOnFile`: until someone else wrote the file has the probe of the run that is about to plan, and
  a run without a route never gets there (`HasRoute`). Hence `GatedRunsAvoidBlocked` and `RefusalsExplained`.
- *Router* (`RouterInv`): the properties speak of moments between commands, so the invariant says where
  the number of the one router is meanwhile: on file or with the starter that enters it (`OneRouter`);
  that the number on file, those being entered and the one being stopped are routers' and all different
  (`FileLive`, `EntriesLive`, `OneStop`), except while a stop is about to remove the file. Each clause
  lives under the absence of the events that break it, so each step keeps it or is such an event.
- *Reports* (`DeskInv`): a qa that nothing disturbed works on the last run, which has written
  everything, and what it renewed is of that run (`CalmOnLastRun`, `RenewedOfRun`); what it reads without
  renewing it the run itself wrote last (`RunFilesWritten`). Hence `ReadyOnOneRun`.

**MCGates_proof.** For each pure component a theorem about all inputs, not only those of the run, and
from it the invariant on the questions asked. The invariants need little more than that a question is of
the form its topic says (`TopicOfTheAction`, `LessonsAsked`, `ReportsAsked`, `QAAsked`, ...).

- *qa*: the gates are brought into a list of demands by profile (`PassMeetsDemands`); then
  `HigherProfilesAskMore` compares the lists and `PassStandsBehindWinner` reads them off.
- *Force score*: category by category a score is bounded and grows with the evidence
  (`ScalabilityGrows` ... `BusinessGrows`). The caps are the point, since a cap that depends on a fact
  could lower a score when the fact arrives. From these `MoreEvidenceNeverLowers`,
  `MissingReportsNeverRaise` (what a report attests enters the evidence by union only),
  `MoreEvidenceKeepsVerdicts`, and `GateAfterApproval`: after an approval with every node accounted for
  only severe findings close the gate, so that the reports that merely observe a run decide nothing.
- *Reports*: `TraceCountsEveryCommand` for traces of any length: as many ends as starts, and no command
  has two ends, so each has one. `FlakeAndMutationProve` for any branches and commands.
- *Lessons*: `StrongestArePromoted` for any items, policy and cuts; `RegrowthFindsCheckpoint`;
  `ImprovementNeverRelapses` for any number of cycles.
- *Collapse*: the sort is an order by audit, score and position (`PrecedenceIsStrict`), so the first of
  any number of branches is preceded by none (`BestBranchWins`).
- *Tester*: `PassStandsOnProcesses`, by following one command that is called for through the tools that
  may be missing, the refusals of the manifest and the outcome.
- *Shared cache*: one turn of the loop of `dedupeCacheItems` turns the selection of the files so far
  into that with one file more (`NextTurn`). The fold is a recursive function over sets of places; the
  selections satisfy its recursion, and a function that differed would differ first at some least
  place (`LoopKeeps`). So `LoopsAreSelections` and `BestCopyStays` hold for every directory.

**FiniteOrders.** A finite strict order has the ranks 1 to n, each once (`RankOfEachItsOwn`,
`EveryRankTaken`, by counting predecessors), hence a first element, and a set of numbers a smallest one.
The latter takes the place of induction in the proofs above: the library's induction theorems have a
parameter that is an operator, which the provers can not instantiate.

Only model-checked: what rests on fairness (`FiringIsAnswered`, `ItemsArrive`, `CyclesEnd`, the liveness
parts of `NodeContract` and `SwarmContract`), since liveness and ENABLED are out of the prover's reach.
The two properties that documents state and the code breaks are refuted by their runs.

## 6. Not modelled

Contents and wording of prompts, plans, reports, products and logs; network and model behaviour; failing
status writes; permissions. Of the components of section 1:

- Capacity and costing are sums and floors that a reader is shown; `EvidenceReports` takes the sums of
  the cost report as inputs.
- Grounding is text matching that decides nothing; node kit and methodology are templates; synthesis,
  research, wiki and council read and write text.
- Lake artifacts are append-only files without a racing reader; what can go wrong with them is shown on
  the shared cache.
- The agent loop of the LangChain runner depends on a model's answers and on a library outside the
  repository; its status patches are in `NodeRun`. Its own ranking of the cache, which skips torn files
  where the Go side fails, is not modelled.
- Flags of the container, the walk over a process group and the parsing of environment variables are
  I/O; their outcomes are inputs of `EvidenceReports`, `TesterGate` and `PlanGate`.
- The CI annotation scripts print finished reports.

## 7. Left to do

1. A refinement between `AutorunCycles` and a detailed run pipeline: a specification of the state
   directory that both implement, with two runs on one root and objective IDs of one second.
2. The loop of the LangChain runner with its step budget, and its ranking against `CacheRanking`.
3. A harness process whose grandchild holds the output pipe, once the code sets `WaitDelay`.
