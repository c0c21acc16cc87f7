---------------------------- MODULE MCLakeCache ----------------------------
(***************************************************************************)
(* Small instances of LakeCache: a constraint, two probes of one model and *)
(* two results that say the same thing.                                    *)
(***************************************************************************)
EXTENDS LakeCache, TLC

CONSTANTS w1, w2, r1, m1, m2

Item(id, kind, content, verified, confidence, model, status, created) ==
  [id |-> id, kind |-> kind, objective |-> "o", position |-> "p", producer |-> "e",
   content |-> content, verified |-> verified, confidence |-> confidence,
   model |-> model, status |-> status, created |-> created]

Request == Item(1, "constraint", "request", TRUE, 100, "", "", 0)
RouteUp == Item(2, "route_health", "up", TRUE, 95, "m", "ok", 0)
RouteDown == Item(3, "route_health", "down", TRUE, 80, "m", "failed", 1)
Recipe == Item(4, "verified_recipe", "x", TRUE, 45, "", "", 0)
Claim == Item(5, "verified_recipe", "x", FALSE, 100, "", "", 1)

\* Three keys, of which a room is shown two; an unverified item that beats a verified one.
RoomItems == {Request, RouteDown, Recipe, Claim}

\* Two keys with two items each; the better probe goes stale before the worse one.
UpkeepItems == {RouteUp, RouteDown, Recipe, Claim}

ReadersHere == {r1}
MaintainersHere == {m1, m2}
WritersHere == {w1, w2}
OneWriter == {w1}
OneMaintainer == {m1}

\* The writers and the maintenance runs are interchangeable.
Symmetry == Permutations(WritersHere) \cup Permutations(MaintainersHere)
=============================================================================
