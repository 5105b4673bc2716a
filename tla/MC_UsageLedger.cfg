SPECIFICATION FairSpec
CONSTANTS
  m1 = m1  m2 = m2  top = top  child = child  r1 = r1
  MaxSeq = 1
  Epoch = 1
  Machines = {m1, m2}
  Readers = {r1}
  Keys = {top, child}
  RootOf <- MC_RootOf
  ReaderKey <- MC_ChildReader
  Limits = {1}
  Rnd = {0}
  MaxMs = 3
  MaxRows = 2
  MaxStepBack = 0
INVARIANTS TypeOK NoRowSkipped DeliveredOnce
PROPERTIES FloorsHold IdsGrow ReaderCatchesUp
