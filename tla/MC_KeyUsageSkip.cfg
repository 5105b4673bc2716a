SPECIFICATION MC_NamedSpec
CONSTANTS
  m1 = m1  m2 = m2  top = top  other = other  p1 = p1  p2 = p2  r1 = r1
  MaxSeq = 0
  Epoch = 1
  Machines = {m1, m2}
  Keys = {top}
  RootOf <- MC_RootOf
  Rnd = {0}
  MaxMs = 3
  MaxRows = 3
  MaxStepBack = 0
  Passes = {p1}
  Costs = {0}
  Budgets = {}
  NoBudget = NoBudget
  PageLimit = 3
  Overlap = 1
  Readers = {r1}
  ReaderKey <- MC_ReaderKey
  Limit = 1
  MaxReads = 2
INVARIANTS SinceSkipsNothing
SYMMETRY MC_Machines
