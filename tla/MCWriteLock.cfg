SPECIFICATION FairSpec
CONSTANTS
  s1 = s1  s2 = s2  x1 = x1  a1 = a1  w1 = w1
  Nobody = Nobody
  Requests = {s1, s2, x1, a1, w1}
  KindOf <- MCKindOf
INVARIANTS
  TypeOK
  LocksAreInUse
  CircleHasExtension
PROPERTIES
  AllAnswered
CHECK_DEADLOCK FALSE
