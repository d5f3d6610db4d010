\* Two requests that may be in flight when the signal arrives.
SPECIFICATION Spec
SYMMETRY Symmetry
CONSTANTS
  Requests = {q1, q2}
  Statements = 1
INVARIANT
  NoRequestCut
