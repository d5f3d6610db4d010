\* PIDs that come and go, one start at a time, crashes and reuse at any moment.
SPECIFICATION StartSpec
SYMMETRY Symmetry
CONSTANTS
  Pids = {p1, p2, p3}
  Nothing = Nothing
  Empty = Empty
  Concurrent = FALSE
  Keys = {k1, k2, k3, k4}
  AdminFiles <- MCAdminFiles
INVARIANTS
  StartTypeOK
  FileNamesServer
  KeyKept
  ConfigUsable
