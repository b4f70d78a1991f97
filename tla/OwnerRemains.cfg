SPECIFICATION MembershipSpec
SYMMETRY CallSymmetry
CHECK_DEADLOCK FALSE
CONSTANTS
  People = {u1, u2}
  Invites = {i1}
  Admissions = {q1, q2}
  NoUser = NoUser
  RoleLists = {{"OWNER"}, {"ADMIN"}}
  MaxReplacements <- MCMaxReplacements
INVARIANTS
  OwnerRemains
