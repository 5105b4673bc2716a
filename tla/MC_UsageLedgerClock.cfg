SPECIFICATION Spec
CONSTANTS
  m1 = m1  m2 = m2  top = top  child = child  r1 = r1
  MaxSeq = 0
  Epoch = 1
  Machines = {m1}
  Readers = {r1}
  Keys = {top}
  RootOf <- MC_RootOf
  ReaderKey <- MC_TopReader
  Limits = {1}
  Rnd = {0}
  MaxMs = 4
  MaxRows = 2
  MaxStepBack = 2
INVARIANTS NoRowSkipped
