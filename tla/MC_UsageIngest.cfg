SPECIFICATION Spec
CONSTANTS
  m1 = m1  m2 = m2  top = top  child = child  p1 = p1  p2 = p2
  MaxSeq = 1
  Epoch = 1
  Machines = {m1}
  Keys = {top, child}
  RootOf <- MC_RootOf
  Rnd = {0}
  MaxMs = 2
  MaxRows = 2
  MaxStepBack = 0
  Passes = {p1, p2}
  Costs = {0, 1}
  Budgets = {2}
  NoBudget = NoBudget
  PageLimit = 2
  Overlap = 1
INVARIANTS TypeOK RowStoredOnce SpendIsStoredCost BudgetHolds NoNeedlessDenial
PROPERTIES RevokedIsFinal ImplementsBilling
SYMMETRY MC_Symmetry
