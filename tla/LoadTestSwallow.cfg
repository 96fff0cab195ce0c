SPECIFICATION FairSpec
CONSTANTS
  t1 = t1
  t2 = t2
  Tests = {t1}
  TotalRequests = 2
  Concurrency = 1
  Simulated = FALSE
  Postgres = TRUE
  Ops = {}
  Faults = {}
PROPERTIES TestsFinish
CHECK_DEADLOCK FALSE
