--------------------------- MODULE MCCacheRanking ---------------------------
(***************************************************************************)
(* The loops of dedupeCacheItems, RankedCache and quarantineCandidates as  *)
(* the code writes them, compared with the declarative operators of        *)
(* CacheRanking on every directory over a small universe of items.         *)
(***************************************************************************)
EXTENDS CacheRanking, SequencesExt

VARIABLE listed      \* the items of the cache directory

Item(id, kind, position, content, verified, confidence, model, status, created) ==
  [id |-> id, kind |-> kind, objective |-> "o", position |-> position, producer |-> "e",
   content |-> content, verified |-> verified, confidence |-> confidence,
   model |-> model, status |-> status, created |-> created]

\* Ties in rank, in time and in both; probes of one model; the kinds the executor writes.
Universe ==
  {Item(1, "constraint", "", "request", TRUE, 100, "", "", 1),
   Item(2, "constraint", "", "request", TRUE, 100, "", "", 3),
   Item(3, "route_health", "", "m ok", TRUE, 95, "m", "ok", 1),
   Item(4, "route_health", "", "m failed", TRUE, 80, "m", "failed", 4),
   Item(5, "failed_attempt", "p", "x", TRUE, 80, "", "", 2),
   Item(6, "failed_attempt", "p", "x", TRUE, 80, "", "", 2),
   Item(7, "verified_recipe", "p", "x", TRUE, 90, "", "", 2),
   Item(8, "verified_recipe", "p", "x", TRUE, 40, "", "", 4),
   Item(9, "other", "p", "x", FALSE, 90, "", "", 4)}

\* S in the order of a strict total order on it.
InOrder(S, Before(_, _)) ==
  [n \in 1 .. Cardinality(S) |->
     CHOOSE i \in S : Cardinality({j \in S : Before(j, i)}) = n - 1]

Listing == InOrder(listed, ListedBefore)

Init == listed = {}
Next == \E i \in Universe \ listed : listed' = listed \cup {i}

-----------------------------------------------------------------------------
\* One turn of the loop of dedupeCacheItems (and of the first loop of
\* quarantineCandidates): the map from keys to items, here the set of its values.
DedupeStep(kept, i) ==
  LET rivals == {k \in kept : DedupeKey(k) = DedupeKey(i)} IN
  IF rivals = {} \/ \E k \in rivals : Supersedes(i, k)
  THEN (kept \ rivals) \cup {i}
  ELSE kept

DedupeCacheItems(items) == FoldLeft(DedupeStep, {}, items)

\* Mutant: the cut is made on the oldest items.
RankedCacheOldest(items, limit) ==
  LET order == InOrder(DedupeCacheItems(items), ListedBefore)
      size == IF limit > 0 /\ Len(order) > limit THEN limit ELSE Len(order)
  IN {order[n] : n \in 1 .. size}

\* Sort by rank, cut at the limit; the second sort only orders the output.
RankedCache(items, limit) ==
  LET order == InOrder(DedupeCacheItems(items), RankedBefore)
      size == IF limit > 0 /\ Len(order) > limit THEN limit ELSE Len(order)
  IN {order[n] : n \in 1 .. size}

QuarantineCandidates(items, now) ==
  LET best == DedupeCacheItems(items) IN
  {items[n] : n \in {m \in DOMAIN items : Prunable(items[m], now) \/ items[m] \notin best}}

-----------------------------------------------------------------------------
Times == 1 .. 7

\* What RankedCache returns is a matter of ranks alone; with the executor's kinds a
\* constraint survives the tightest limit (lake_test.go).
RankedIsSelection ==
  /\ \A limit \in 0 .. 4 : RankedCache(Listing, limit) = Ranked(listed, limit)
  /\ (\E i \in listed : i.kind = "constraint") =>
        \A i \in RankedCache(Listing, 1) : i.kind = "constraint"

\* Applying maintenance twice at one time moves nothing the second time, and no constraint of
\* full confidence is lost to it: its best copy stays, unless the threshold of the command is above
\* all confidences (maintenance.go:229).
MaintenanceSettles ==
  \A now \in Times :
    LET moved == QuarantineCandidates(Listing, now) IN
    /\ moved = Candidates(listed, now)
    /\ Candidates(listed \ moved, now) = {}
    /\ MinConfidence <= 100 => \A i \in listed : i.kind = "constraint" =>
         \E j \in listed \ moved : DedupeKey(j) = DedupeKey(i)
=============================================================================
