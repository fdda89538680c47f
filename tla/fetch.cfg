SPECIFICATION Spec
CONSTANTS
  Fetchers = {f1, f2}
  Codes = {c1, c2}
  Outputs = {o}
  Drops = {a, b, c}
  Clashing = {c}
  MaxChanges = 3
  MaxKills = 1
  MaxEdits = 2
  None = None
SYMMETRY Symmetry
INVARIANTS MarkedPlacesAreWhole StagingIsAccountedFor ResultsStayInPlace CacheReportsWhatTheCodeNamed
