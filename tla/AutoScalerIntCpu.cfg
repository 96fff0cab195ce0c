SPECIFICATION FairSpec
CONSTANTS
  Parents = {c1}
  Policies = {p1}
  PolicyOn <- OnC1
  InitPolicies = {p1}
  InitMin = 1
  InitMax = 2
  Seeded <- NoSeed
  Evaluators = {bg}
  Background = bg
  Simulated = {}
  BasePort <- Spread
  CpuLimit <- IntCpu
  Samples <- OnlyHigh
  Settings <- WideOrNarrow
  MaxReplicasLimit = 2
  Cooldown = 2
  MaxCooldown = 2
  Postgres = TRUE
  Ops = {}
  Faults = {}
  MaxLaunches = 3
  MaxUserStarts = 1
  MaxUserStops = 1
  c1 = c1
  p1 = p1
  p2 = p2
  bg = bg
  now = now
  None = None
PROPERTIES ScalesUp
