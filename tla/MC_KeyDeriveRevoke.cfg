SPECIFICATION Spec
CONSTANTS
  q1 = q1  q2 = q2
  Requests = {q1, q2}
  Children = {1, 2, 3}
  Nobody = Nobody
  Ttls = {1, 2}
  MaxTtl = 2
  ParentExpires = 4
  RatePerMin = 2
  Minute = 2
  MaxActive = 1
  MaxTime = 3
INVARIANTS RevokeReachesSubtree
SYMMETRY MC_Symmetry
