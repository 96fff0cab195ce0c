SPECIFICATION Spec
CONSTANTS
  t1 = t1
  t2 = t2
  Tests = {t1, t2}
  TotalRequests = 2
  Concurrency = 1
  Simulated = FALSE
  Postgres = TRUE
  Ops = {"delete","deploy"}
  Faults = {"commit","crash"}
SYMMETRY Alike
INVARIANTS TypeOK RowsAddUp
PROPERTIES TerminalIsFinal EndedForCause ImplementsReport
CHECK_DEADLOCK FALSE
