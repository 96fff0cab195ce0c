SPECIFICATION Spec
CONSTANTS
  c1 = c1
  c2 = c2
  c3 = c3
  Containers = {c1, c2, c3}
  Simulated = {c3}
  Faults = {"commit", "stats", "crash"}
INVARIANTS TypeOK RoundCovers
PROPERTIES AbortOnlyForCause MeteredAgain Scraped
