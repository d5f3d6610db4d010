\* Two request slots, nine mixes of operations, on either reach of the handle.
SPECIFICATION Spec
SYMMETRY Symmetry
CONSTANTS
  Requests = {r1, r2}
  Addresses = {a1, a2}
  Passwords = {p1, p2}
  SessionIds = {s1, s2}
  None = None
  Workloads <- MCWorkloads
  MaxFailures = 2
  LockTime = 2
  AccessLife = 1
  RefreshLife = 2
  SessionLife = 1
  MaxTime = 4
INVARIANTS
  TypeOK
  Lockout
PROPERTIES
  ColumnsFollowReads
  DeletionIsFinal
  SessionsEndOnce
