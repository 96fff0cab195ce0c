SPECIFICATION FairSpec
CONSTANTS
  t1 = t1
  t2 = t2
  Tests = {t1}
  TotalRequests = 3
  Concurrency = 2
  Simulated = TRUE
  Postgres = FALSE
  Ops = {"delete","cancel","stream"}
  Faults = {}
INVARIANTS RowsAddUp
PROPERTIES TerminalIsFinal ImplementsReport TestsFinish StreamsEnd
CHECK_DEADLOCK FALSE
