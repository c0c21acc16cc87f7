---------------------------- MODULE CacheRanking ----------------------------
(***************************************************************************)
(* The order on shared-cache items (internal/lake/cache.go and             *)
(* maintenance.go): how two items that say the same thing are told apart,  *)
(* which items a node is shown, and which ones maintenance moves away.     *)
(* A file of the cache directory is one item; its name is made of          *)
(* CreatedAt and ID, so two items of a directory differ in one of them.    *)
(* Confidences are percentages and ranks are in hundredths, so that the    *)
(* sums of cacheRank are exact.                                            *)
(***************************************************************************)
EXTENDS Integers, FiniteSets

CONSTANTS
  MinConfidence,           \* MaintenancePolicy.MinConfidence, in percent
  StaleAfter,              \* MaintenancePolicy.StaleAfter, in clock units
  RouteHealthStaleAfter    \* MaintenancePolicy.RouteHealthStaleAfter

\* A CacheItem is a record with the fields id, kind, objective, position, producer, content
\* (its normalised words), verified, confidence, model and status (metadata), and created.

CacheKindPriority ==
  [constraint |-> 100, route_health |-> 95, failed_attempt |-> 90, failure_lesson |-> 88,
   verified_recipe |-> 85, dependency_note |-> 75, score_signal |-> 70,
   rate_limit_signal |-> 65]

KindPriority(kind) ==
  IF kind \in DOMAIN CacheKindPriority THEN CacheKindPriority[kind] ELSE 0

HealthyRoute(i) == i.kind = "route_health" /\ i.status = "ok"

CacheRank(i) ==
  100 * KindPriority(i.kind) + 10 * i.confidence
  + (IF i.verified THEN 500 ELSE 0)
  + (IF HealthyRoute(i) THEN 300 ELSE 0)
  + (IF i.kind = "failed_attempt" THEN 200 ELSE 0)

\* Probes of one model say the same thing, whatever their wording.
DedupeKey(i) ==
  IF i.kind = "route_health" /\ i.model # ""
  THEN <<i.kind, i.objective, i.model>>
  ELSE <<i.kind, i.objective, i.position, i.producer, i.content>>

\* ListCache and listCacheFiles sort by CreatedAt, then ID.
ListedBefore(i, j) == i.created < j.created \/ (i.created = j.created /\ i.id < j.id)

\* The condition under which a later listed item replaces the kept one of its key.
Supersedes(i, j) ==
  \/ CacheRank(i) > CacheRank(j)
  \/ CacheRank(i) = CacheRank(j) /\ i.created > j.created

\* i is kept and j is not when both are listed: it supersedes j, or nothing decides and
\* it is listed first.
Beats(i, j) ==
  /\ i # j
  /\ DedupeKey(i) = DedupeKey(j)
  /\ Supersedes(i, j) \/ (~Supersedes(j, i) /\ ListedBefore(i, j))

\* dedupeCacheItems.
Kept(S) == {i \in S : ~\E j \in S : Beats(j, i)}

\* RankedCache: the order before the cut.
RankedBefore(i, j) ==
  \/ CacheRank(i) > CacheRank(j)
  \/ CacheRank(i) = CacheRank(j) /\ i.created > j.created
  \/ CacheRank(i) = CacheRank(j) /\ i.created = j.created /\ i.id < j.id

\* RankedCache: one item per key, the limit best of them.
Ranked(S, limit) ==
  {i \in Kept(S) : limit > 0 => Cardinality({j \in Kept(S) : RankedBefore(j, i)}) < limit}

\* The reasons of quarantineCandidates that look at one item.  (PutCache refuses an
\* empty content, so empty_content does not arise.)
LowConfidence(i) == i.confidence < MinConfidence

Stale(i, now) ==
  \/ i.kind = "route_health" /\ now - i.created > RouteHealthStaleAfter
  \/ i.kind # "constraint" /\ now - i.created > StaleAfter

Prunable(i, now) == LowConfidence(i) \/ Stale(i, now)

\* Mutant: the duplicates of an item are looked for among all kinds of one producer.
CandidatesLoose(S, now) ==
  {i \in S : Prunable(i, now) \/ \E j \in S : j.producer = i.producer /\ Supersedes(j, i)}

Candidates(S, now) == {i \in S : Prunable(i, now) \/ \E j \in S : Beats(j, i)}
=============================================================================
