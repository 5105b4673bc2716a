SPECIFICATION KeysSpec
CONSTANTS
  top = top  sub = sub  q1 = q1  q2 = q2  d1 = d1  d2 = d2
  Keys = {top, sub}
  RootOf <- MC_RootOf
  Expires <- MC_Expires
  Callers = {q1, q2}
  TTL = 1
  MaxRead = 1
  CacheCap = 1
  NoKey = NoKey
  LastInstant = 3
  MaxChanges = 2

  Requests = {d1, d2}
  Children = {1, 2, 3}
  Nobody = Nobody
  Ttls = {2}
  MaxTtl = 2
  ParentExpires = 3
  RatePerMin = 2
  Minute = 2
  MaxActive = 1
  MaxTime = 2

  Teams = {t1, t2}
  Tokens = {tk}
  Slots = {s1, s2}
  KeyIds = {1, 2}
  Resync = 1
  MaxCall = 1
  NoTeam = NoTeam
INVARIANTS
  KeysTypesOK
  AllowIsFresh RefusalIsFresh
  CapHolds RateHolds
  SeesRecentClaims ClaimIsVisible DerivedKeyHasRoot
SYMMETRY MC_Symmetry
