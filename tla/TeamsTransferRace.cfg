\* Two request slots that interleave, no fault.
SPECIFICATION Spec
CONSTANTS
  Users = {u1, u2, u3}
  Requests = {r1, r2}
  Nobody = Nobody
  Ops = {"create", "add", "update", "remove", "transfer", "delete", "invite"}
  Faults = {}
INVARIANT
  OwnerHasRole
