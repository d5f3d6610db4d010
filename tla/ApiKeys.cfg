\* Three keys, two request slots that interleave, every fault, two ticks.
SPECIFICATION Spec
SYMMETRY Symmetry
CONSTANTS
  Keys = {k1, k2, k3}
  Never = Never
  None = None
  Lifetimes = {1}
  Requests = {r1, r2}
  MaxTime = 2
  Faults = {"statement", "crash"}
INVARIANTS
  TypeOK
  RevokedStaysOff
  RotationNeverExtends
  RotationNeverLocksOut
PROPERTY
  CleanupSparesValid
