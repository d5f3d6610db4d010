\* A key that begins with the name of a second endpoint.
SPECIFICATION Spec
SYMMETRY Symmetry
CONSTANTS
  Keys <- ApiKeys
  Owner <- ApiOwner
  Claims <- ApiClaims
  Requests <- ApiRequests
  Window <- ApiWindow
  Callers = {c1}
  None = None
  Buckets = {b1, b2}
  MaxTime = 4
INVARIANTS
  WithinLimitInMap
