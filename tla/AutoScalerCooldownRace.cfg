SPECIFICATION Spec
CONSTANTS
  Parents = {c1}
  Policies = {p1}
  PolicyOn <- OnC1
  InitPolicies = {p1}
  InitMin = 1
  InitMax = 3
  Seeded <- NoSeed
  Evaluators = {bg, now}
  Background = bg
  Simulated = {}
  BasePort <- Spread
  CpuLimit <- TextCpu
  Samples <- HighLow
  Settings <- WideOrNarrow
  MaxReplicasLimit = 3
  Cooldown = 1
  MaxCooldown = 1
  Postgres = TRUE
  Ops = {}
  Faults = {}
  MaxLaunches = 3
  MaxUserStarts = 1
  MaxUserStops = 1
  c1 = c1
  p1 = p1
  p2 = p2
  bg = bg
  now = now
  None = None
PROPERTIES CooldownRespected
