SPECIFICATION FairSpec
CONSTANTS
  m1 = m1  m2 = m2  top = top  child = child  p1 = p1  p2 = p2
  MaxSeq = 0
  Epoch = 1
  Machines = {m1}
  Keys = {top, child}
  RootOf <- MC_OwnRoot
  Rnd = {0}
  MaxMs = 6
  MaxRows = 2
  MaxStepBack = 2
  Passes = {p1}
  Costs = {1}
  Budgets = {}
  NoBudget = NoBudget
  PageLimit = 2
  Overlap = 2
INVARIANTS NoRowStranded
PROPERTIES AllRowsIngested
