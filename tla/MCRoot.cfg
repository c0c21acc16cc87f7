\* Two files of a room that change once each under the walk, two regrowths and two rooms; two
\* runs of two positions, two default routes and a fallback, a probe that is old after a moment;
\* two processes that start a router, two that stop it, two process numbers; two runs and two
\* calls of qa, one report command.
CONSTANTS
  Files = 2
  Script <- MCScript
  Regrows = {g1, g2}
  MaxRooms = 2
  MaxEdits = 1
  Runs = {r1, r2}
  Defaults <- MCDefaults
  Pools <- MCPools
  Named = {"a"}
  Fallback = "f"
  ChildModel <- MCNames
  Positions = 2
  Fresh = 0
  MaxClock = 1
  Starters = {d1, d2}
  Stoppers = {s1, s2}
  Pids = {1, 2}
  Quality <- MCQuality
  Judged = {"beta", "production"}
  MaxRuns = 2
  MaxJudged = 2
  MaxReports = 1
SPECIFICATION Spec
SYMMETRY Symmetry
CHECK_DEADLOCK FALSE
INVARIANTS
  SnapshotsAgree
  SeedsWhole
  HistoryExact
  GatedRunsAvoidBlocked
  RefusalsExplained
  RoutersOnFile
  StrangersExplained
  ReadyOnOneRun
