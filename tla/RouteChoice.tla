---------------------------- MODULE RouteChoice ----------------------------
(***************************************************************************)
(* Which model routes a run uses: the pool that is probed, what a probe    *)
(* shows, and the agents made of the routes that answered, ranked by the   *)
(* history of builds (internal/runtime/route_health.go, cmd/qsm).          *)
(*                                                                         *)
(* A model of the router's list is a record [id, family, embed]: family is *)
(* "oc" (wombo and the oc/ routes), "free" and "paid" (openrouter with and *)
(* without :free), "combo" (by its owner) or "other"; embed says that the  *)
(* name is that of an embedding, speech or image model.                    *)
(***************************************************************************)
EXTENDS Integers, Sequences, SequencesExt, FiniteSets

RouterModelAllowed(item, mode) ==
  ~item.embed /\ (mode = "all" \/ item.family \in {"oc", "free", "combo"})

\* appendUnique over a list.
Unique(names) ==
  FoldLeft(LAMBDA acc, id : IF id \in ToSet(acc) THEN acc ELSE Append(acc, id), <<>>, names)

\* The preferred routes the router has, then the others of its list, each once, up to the limit;
\* no limit if it is zero.
DiscoverRouterModels(list, preferred, mode, limit) ==
  LET known  == {i.id : i \in ToSet(list)}
      passed == SelectSeq(list, LAMBDA i : RouterModelAllowed(i, mode))
      names  == SelectSeq(preferred, LAMBDA id : id \in known)
                \o [i \in DOMAIN passed |-> passed[i].id]
      models == Unique(names)
  IN IF limit > 0 /\ Len(models) > limit THEN SubSeq(models, 1, limit) ELSE models

\* probeOneRoute: of all that can come back only a chat response with content is a healthy route.
Responses == {"transport error", "http error", "stream", "invalid json", "no choices",
              "reasoning only", "empty", "content"}

ProbeOK(configured, response) == configured /\ response = "content"

-----------------------------------------------------------------------------
(***************************************************************************)
(* health[m], for the models with a history, is a record of the builds     *)
(* attempted and succeeded and whether the last one ended badly.  A result *)
(* is a record [model, ok, latency].  Scores are in 24ths and a latency in *)
(* 24ths of thirty seconds.                                                *)
(***************************************************************************)
\* What stands for a route when none was asked for by name.
NoName == ""

Blocks(m, health) ==
  m \in DOMAIN health /\ health[m].attempts >= 2 /\ health[m].succeeded = 0

RouteSelectionScore(result, health) ==
  LET m == result.model
      h == health[m]
      history == m \in DOMAIN health /\ health[m].attempts > 0
  IN 12 + (IF result.ok THEN 36 ELSE 0)
     + (IF history THEN (48 * h.succeeded) \div h.attempts
                        + (IF h.attempts >= 2 THEN 6 ELSE 0)
                        - (IF h.lastBad THEN 12 ELSE 0)
                   ELSE 0)
     - (IF result.latency > 12 THEN 12 ELSE result.latency)

\* Equal scores go by latency, and then stay as probed.
RanksBefore(r, s, health) ==
  LET a == RouteSelectionScore(r, health)
      b == RouteSelectionScore(s, health)
  IN a > b \/ (a = b /\ r.latency < s.latency)

SortHealthyRoutes(routes, health) ==
  LET place(i) == 1 + Cardinality({j \in DOMAIN routes :
                        \/ RanksBefore(routes[j], routes[i], health)
                        \/ j < i /\ ~RanksBefore(routes[i], routes[j], health)})
  IN [n \in DOMAIN routes |-> routes[CHOOSE i \in DOMAIN routes : place(i) = n]]

\* Mutant: a default agent is kept if its route answered.
AnsweringAgents(defaults, results, health, override) ==
  LET answered == {r.model : r \in {x \in ToSet(results) : x.ok}}
      names    == [i \in DOMAIN results |-> results[i].model]
      kept     == SelectSeq(defaults, LAMBDA m : m \in answered)
  IN IF override # NoName
     THEN IF override \in answered THEN [i \in DOMAIN defaults |-> override] ELSE <<>>
     ELSE kept \o SelectSeq(names, LAMBDA m : m \in answered \ ToSet(kept) /\ ~Blocks(m, health))

\* The elements of s at the places I, in their order.
Kept(s, I) ==
  [n \in 1 .. Cardinality(I) |->
     s[CHOOSE i \in I : 1 + Cardinality({j \in I : j < i}) = n]]

\* The routes of the agents, the empty sequence where the code stops the run.  Default agents
\* keep their order; other healthy routes follow by rank, each once.  A model that was asked for
\* by name (NoName if none) only has to answer: its history is not looked at.
HealthyAgents(defaults, results, health, override) ==
  LET open   == {i \in DOMAIN results : results[i].ok /\ ~Blocks(results[i].model, health)}
      routes == SortHealthyRoutes(Kept(results, open), health)
      names  == [i \in DOMAIN routes |-> routes[i].model]
      kept   == Kept(defaults, {i \in DOMAIN defaults : defaults[i] \in ToSet(names)})
      others == {i \in DOMAIN names : /\ names[i] \notin ToSet(kept)
                                      /\ \A j \in DOMAIN names : j < i => names[j] # names[i]}
  IN IF override # NoName
     THEN IF \E r \in ToSet(results) : r.ok /\ r.model = override
          THEN [i \in DOMAIN defaults |-> override] ELSE <<>>
     ELSE kept \o Kept(names, others)
=============================================================================
