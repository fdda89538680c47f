SPECIFICATION Spec
CONSTANTS
  Versions = {v1, v2}
  MaxSize = 3
  MaxTime = 3
  Validators = {"etag"}
  Absent = Absent
  Malformed = Malformed
  None = None
SYMMETRY Symmetry
INVARIANTS RangesAreExact CopiesAreHonest TransferContinuesCopy
CHECK_DEADLOCK FALSE
