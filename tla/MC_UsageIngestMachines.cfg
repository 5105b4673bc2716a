SPECIFICATION Spec
CONSTANTS
  m1 = m1  m2 = m2  top = top  child = child  p1 = p1  p2 = p2
  MaxSeq = 0
  Epoch = 1
  Machines = {m1, m2}
  Keys = {top}
  RootOf <- MC_RootOf
  Rnd = {0}
  MaxMs = 2
  MaxRows = 2
  MaxStepBack = 0
  Passes = {p1, p2}
  Costs = {1}
  Budgets = {2}
  NoBudget = NoBudget
  PageLimit = 2
  Overlap = 1
INVARIANTS BudgetHolds CompletePassStoredAll
SYMMETRY MC_AllSymmetry
