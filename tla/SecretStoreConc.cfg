\* Two request slots that interleave, every fault, one secret.
SPECIFICATION Spec
SYMMETRY Symmetry
CONSTANTS
  Secrets = {s1}
  Paths = {p1}
  Values = {v1, v2}
  Metadata = {m1}
  None = None
  Requests = {r1, r2}
  MaxVersion = 3
  Faults = {"statement", "crash", "team"}
INVARIANTS
  TypeOK
  AckedInHistory
  RollbackRestoresTarget
  NoOrphanVersion
  AuditBackedByHistory
PROPERTIES
  HistoryAppendOnly
  NoResurrection
