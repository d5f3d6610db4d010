\* Two updates at once, no fault.
SPECIFICATION Spec
CONSTANTS
  Secrets = {s1}
  Paths = {p1}
  Values = {v1, v2}
  Metadata = {m1}
  None = None
  Requests = {r1, r2}
  MaxVersion = 4
  Faults = {}
INVARIANT
  CurrentInHistory
