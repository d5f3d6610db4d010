\* Requests one after the other; two secrets, on one path or on two; the team may be
\* deleted while a request is under way.
SPECIFICATION Spec
CONSTANTS
  Secrets = {s1, s2}
  Paths = {p1, p2}
  Values = {v1}
  Metadata = {m1}
  None = None
  Requests = {r1}
  MaxVersion = 3
  Faults = {"team"}
INVARIANTS
  HistoryComplete
  AuditComplete
PROPERTY
  VersionedStore
