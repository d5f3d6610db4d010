\* Three keys, one of which no endpoint claims, and two callers.
SPECIFICATION Spec
SYMMETRY Symmetry
CONSTANTS
  Keys <- LoginKeys
  Owner <- LoginOwner
  Claims <- LoginClaims
  Requests <- LoginRequests
  Window <- LoginWindow
  Callers = {c1, c2}
  None = None
  Buckets = {b1, b2, b3, b4}
  MaxTime = 3
INVARIANTS
  TypeOK
  WithinLimitInMap
  NoUnfairRefusal
PROPERTIES
  SweepLeavesNoDeadBucket
