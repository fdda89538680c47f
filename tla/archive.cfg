SPECIFICATION MCFairSpec
CONSTANTS
  d1 = d1 d2 = d2 d3 = d3 r1 = r1 r2 = r2 r3 = r3
  Drops = {d1, d2, d3}
  Requests = {r1, r2, r3}
  Wants <- MCWants
  MaxFaults = 2
  MaxRuns = 2
  None = None
INVARIANTS BuildsAreAccountedFor FilesAreAccountedFor
CHECK_DEADLOCK FALSE
PROPERTIES LiveDropIsServed
