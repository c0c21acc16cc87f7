---------------------------- MODULE RouteHealth ----------------------------
(***************************************************************************)
(* Runs that share one root and choose their routes by what earlier runs   *)
(* left there: route_health.json (who answered a probe, and when) and      *)
(* build_health.json (how the builds of each route went).  Both are        *)
(* written in place without a lock: for a moment, or for good if the       *)
(* writer dies, the file is torn.                                          *)
(***************************************************************************)
EXTENDS RouteChoice

CONSTANTS
  Runs,        \* the qsm run processes
  Defaults,    \* the routes of defaultAgents, a sequence
  Pools,       \* the lists to probe that a flag or the router's list of models may amount to
  Named,       \* the routes QSM_LANGCHAIN_MODEL may name
  Fallback,    \* the model of the direct fallback
  ChildModel,  \* the name under which the langchain child asks the router for a route
  Positions,   \* the number of positions of a run
  Fresh,       \* how old a probe the planning gate accepts, thirty minutes
  MaxClock     \* bound on the clock

\* What is assumed of the constants.
RouteHealthAssumption ==
  /\ Positions \in Nat \ {0} /\ Fresh \in Nat /\ MaxClock \in Nat
  /\ Defaults # <<>> /\ Defaults \in Seq(ToSet(Defaults))
  /\ \A list \in Pools : list \in Seq(ToSet(list))
  /\ Fallback # NoName /\ NoName \notin Named

VARIABLES
  clock,
  routes,   \* route_health.json: whether it is whole, its time, whether one route was ok
  build,    \* build_health.json: whether it is whole, and the observations it counts
  run,      \* the processes
  raced     \* history: an update read build_health.json while it was torn or about to be rewritten

vars == <<clock, routes, build, run, raced>>

\* "simulated"; "plain", a real run without -route-health; "gated" with it; "fallback", gated
\* with -deepseek-fallback; "check", the command qsm route-health, which only looks.  named is
\* QSM_LANGCHAIN_MODEL, or NoName if it is not set or the harness is not langchain.
Kinds == {"simulated", "plain", "gated", "fallback", "check"}
Gated(r) == run[r].kind \in {"gated", "fallback"}

\* The history a set of observations [run, position, model, ok] amounts to.  The file holds the
\* counters and the keys of the observations counted: an observation is counted once.
Health(seen) ==
  [m \in {o.model : o \in seen} |->
     [attempts  |-> Cardinality({o \in seen : o.model = m}),
      succeeded |-> Cardinality({o \in seen : o.model = m /\ o.ok}),
      lastBad   |-> FALSE]]

LoadBuildHealth == IF build.whole THEN build.seen ELSE {}

\* Who reads the history now may read what is about to change.
Races == ~build.whole \/ \E s \in Runs : run[s].pc \in {"truncate", "write"}

Init ==
  /\ clock = 0 /\ raced = FALSE
  /\ routes = [whole |-> FALSE, at |-> 0, ok |-> FALSE]
  /\ build = [whole |-> TRUE, seen |-> {}]
  /\ run \in [Runs -> [kind : Kinds, named : Named \cup {NoName}, pc : {"start"}, agents : {<<>>},
                      known : {{}}, loaded : {{}}, answered : {{}}, at : {0}, built : {{}},
                      cut : {FALSE}]]
  /\ \A r \in Runs : run[r].kind = "simulated" => run[r].named = NoName

Becomes(r, new) == run' = [run EXCEPT ![r] = new]

\* The same, where r rewrites the probes under the runs that are about to plan.
Cuts(r, new) ==
  run' = [s \in Runs |-> IF s = r THEN new
                         ELSE [run[s] EXCEPT !.cut = @ \/ run[s].pc = "plan"]]

-----------------------------------------------------------------------------
\* What a run may probe: the route it was told to use, alone, or a pool, be that route in it or
\* not.
Probed(r) == Pools \cup (IF run[r].named # NoName THEN {<<run[r].named>>} ELSE {})

\* A gated run loads the history, probes, and begins to write what it found.  The fallback, if it
\* answers, is from then on the route the run was told to use.
Probe(r) ==
  /\ run[r].pc = "start" /\ Gated(r)
  /\ \E list \in Probed(r) : \E answered \in SUBSET ToSet(list), direct \in BOOLEAN :
       LET probed == [i \in DOMAIN list |->
                        [model |-> list[i], ok |-> list[i] \in answered, latency |-> 0]]
           turns  == answered = {} /\ run[r].kind = "fallback"
           all    == IF turns THEN Append(probed, [model |-> Fallback, ok |-> direct, latency |-> 0])
                     ELSE probed
           named  == IF direct THEN Fallback ELSE run[r].named
       IN /\ direct => turns
          /\ Cuts(r, [run[r] EXCEPT
                  !.pc = "publish", !.known = LoadBuildHealth, !.named = named,
                  !.answered = IF direct THEN {Fallback} ELSE answered,
                  !.agents = HealthyAgents(Defaults, all, Health(LoadBuildHealth), named)])
  /\ routes' = [routes EXCEPT !.whole = FALSE]
  /\ UNCHANGED <<clock, build, raced>>

\* A check probes, and begins to write what it found.
Look(r) ==
  /\ run[r].pc = "start" /\ run[r].kind = "check"
  /\ \E list \in Probed(r) : \E answered \in SUBSET ToSet(list) :
       Cuts(r, [run[r] EXCEPT !.pc = "publish", !.answered = answered])
  /\ routes' = [routes EXCEPT !.whole = FALSE]
  /\ UNCHANGED <<clock, build, raced>>

\* writeRouteHealthState is done; without a healthy route the run stops here.
Publish(r) ==
  /\ run[r].pc = "publish"
  /\ routes' = [whole |-> TRUE, at |-> clock, ok |-> run[r].answered # {}]
  /\ Cuts(r, [run[r] EXCEPT !.at = clock,
                            !.pc = CASE ~Gated(r)                             -> "done"
                                     [] Gated(r) /\ run[r].agents = <<>>      -> "no route"
                                     [] Gated(r) /\ run[r].agents # <<>>      -> "plan"])
  /\ UNCHANGED <<clock, build, raced>>

\* Without the gate the default agents are used as they are.
Skip(r) ==
  /\ run[r].pc = "start" /\ run[r].kind \in {"simulated", "plain"}
  /\ Becomes(r, [run[r] EXCEPT !.pc = "plan", !.agents = Defaults])
  /\ UNCHANGED <<clock, routes, build, raced>>

\* Mutant: a probe of this very moment is not fresh.
StrictlyFreshRouteState ==
  /\ routes.whole
  /\ clock - routes.at < Fresh
  /\ routes.ok

FreshHealthyRouteState ==
  /\ routes.whole
  /\ clock - routes.at <= Fresh
  /\ routes.ok

\* The planning gate, as far as it looks at the routes.
Plan(r) ==
  /\ run[r].pc = "plan"
  /\ Becomes(r, [run[r] EXCEPT !.pc = IF run[r].kind = "simulated" \/ FreshHealthyRouteState
                                      THEN "execute" ELSE "blocked"])
  /\ UNCHANGED <<clock, routes, build, raced>>

\* The model of an agent's evidence: its child asks for the route the run was told to use, or
\* for the agent's, from which it drops the provider if the model's name has a slash.
EffectiveModel(r, route) == IF run[r].named # NoName THEN run[r].named ELSE ChildModel[route]

\* Executor.Run: position i is built by the agent i modulo their number, and counted under the
\* model its evidence tells, or else under the agent's route.
Execute(r) ==
  /\ run[r].pc = "execute"
  /\ \E good, told \in SUBSET (1 .. Positions) :
       LET route(i) == run[r].agents[((i - 1) % Len(run[r].agents)) + 1] IN
       /\ run[r].kind = "simulated" => told = {}
       /\ Becomes(r, [run[r] EXCEPT !.pc = "load", !.built =
            {[run |-> r, position |-> i, ok |-> i \in good,
              model |-> IF i \in told THEN EffectiveModel(r, route(i)) ELSE route(i)] :
             i \in 1 .. Positions}])
  /\ UNCHANGED <<clock, routes, build, raced>>

\* Mutant: the history is taken from before the run.
LoadEarly(r) ==
  /\ run[r].pc = "load"
  /\ Becomes(r, [run[r] EXCEPT !.pc = "truncate", !.loaded = run[r].known])
  /\ raced' = (raced \/ Races)
  /\ UNCHANGED <<clock, routes, build>>

\* updateBuildHealthState reads the file, ...
Load(r) ==
  /\ run[r].pc = "load"
  /\ Becomes(r, [run[r] EXCEPT !.pc = "truncate", !.loaded = LoadBuildHealth])
  /\ raced' = (raced \/ Races)
  /\ UNCHANGED <<clock, routes, build>>

\* ... empties it, ...
Truncate(r) ==
  /\ run[r].pc = "truncate"
  /\ Becomes(r, [run[r] EXCEPT !.pc = "write"])
  /\ build' = [build EXCEPT !.whole = FALSE]
  /\ UNCHANGED <<clock, routes, raced>>

\* ... and writes what it read together with its own observations.
Write(r) ==
  /\ run[r].pc = "write"
  /\ Becomes(r, [run[r] EXCEPT !.pc = "done"])
  /\ build' = [whole |-> TRUE, seen |-> run[r].loaded \cup run[r].built]
  /\ UNCHANGED <<clock, routes, raced>>

Die(r) ==
  /\ run[r].pc \notin {"done", "no route", "blocked", "dead"}
  /\ Becomes(r, [run[r] EXCEPT !.pc = "dead"])
  /\ UNCHANGED <<clock, routes, build, raced>>

Tick == clock < MaxClock /\ clock' = clock + 1 /\ UNCHANGED <<routes, build, run, raced>>

Next ==
  \/ Tick
  \/ \E r \in Runs : \/ Probe(r) \/ Look(r) \/ Publish(r) \/ Skip(r) \/ Plan(r)
                     \/ Execute(r) \/ Load(r) \/ Truncate(r) \/ Write(r) \/ Die(r)

Spec == Init /\ [][Next]_vars

-----------------------------------------------------------------------------
\* Without two updates at a time, build_health.json counts every position of the runs that came
\* to their end, and each once (build_health.go:63).
HistoryExact ==
  ~raced /\ build.whole =>
    build.seen = UNION {run[r].built : r \in {s \in Runs : run[s].pc = "done"}}

\* The names of the agents' routes that their children shorten.
ShortNames(r) == {ChildModel[m] : m \in {n \in ToSet(run[r].agents) : ChildModel[n] # n}}

\* A run behind the gate gives its agents only routes that answered its own probe, and builds on
\* none that did not build in two attempts it knows of, whatever is written between its probe and
\* its end.  There are two exceptions: the route it was told to use, by QSM_LANGCHAIN_MODEL or as
\* the direct fallback, is used whatever its history is; and no one looks for the name to which
\* the child shortens a route (main.go:203, 215, 5738; build_health.go:128;
\* langchain_runner.py:862).
GatedRunsAvoidBlocked ==
  \A r \in Runs : Gated(r) =>
    /\ ToSet(run[r].agents) \subseteq run[r].answered
    /\ run[r].named # NoName => ToSet(run[r].agents) \subseteq {run[r].named}
    /\ \A o \in run[r].built :
         Blocks(o.model, Health(run[r].known)) => o.model \in {run[r].named} \cup ShortNames(r)

\* The planning gate refuses a run that has just found a healthy route only if the probe grew old
\* or another process wrote the probes in between (planning.go:318, main.go:211, 1041).
RefusalsExplained ==
  \A r \in Runs : Gated(r) /\ run[r].pc = "blocked" => run[r].cut \/ clock - run[r].at > Fresh
=============================================================================
