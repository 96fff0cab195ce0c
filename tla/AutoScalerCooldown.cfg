SPECIFICATION FairSpec
CONSTANTS
  Parents = {c1}
  Policies = {p1, p2}
  PolicyOn <- OnC1
  InitPolicies = {}
  InitMin = 1
  InitMax = 2
  Seeded <- NoSeed
  Evaluators = {bg}
  Background = bg
  Simulated = {}
  BasePort <- Spread
  CpuLimit <- TextCpu
  Samples <- HighLow
  Settings <- SoonOrLate
  MaxReplicasLimit = 2
  Cooldown = 2
  MaxCooldown = 2
  Postgres = TRUE
  Ops = {"stop", "delete", "create", "update", "toggle", "drop"}
  Faults = {"run", "stats", "commit", "crash"}
  MaxLaunches = 1
  MaxUserStarts = 0
  MaxUserStops = 1
  c1 = c1
  p1 = p1
  p2 = p2
  bg = bg
  now = now
  None = None
PROPERTIES CooldownRespected RoundsEnd
