\* Two request slots that interleave, every operation, statements that fail.
SPECIFICATION Spec
SYMMETRY Symmetry
CONSTANTS
  Users = {u1, u2, u3}
  Requests = {r1, r2}
  Nobody = Nobody
  Ops = {"create", "add", "update", "remove", "transfer", "delete", "invite"}
  Faults = {"statement"}
INVARIANTS
  TypeOK
  OwnersAccounted
  NothingOutlivesTeam
  OwnerHasRoleSerially
PROPERTY
  OwnerConsents
