SPECIFICATION Spec
CONSTANTS
  Readers = {r1, r2}
  PassIds = {i1, i2}
  None = None
  MaxWritten = 0
INVARIANTS OnePassAtATime
