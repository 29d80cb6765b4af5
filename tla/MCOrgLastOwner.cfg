\* organizations.service.ts:131 and 152 against two changes at once.
SPECIFICATION Spec
CONSTANTS
  Users = {ann, bob}
  Founder = ann
  FoundersRow = row1
  MemberIds = {row1, row2}
  InvitationIds = {inv1}
  Requests = {r1, r2}
  Roles = {"OWNER", "ADMIN"}
INVARIANTS
  KeepsAnOwner
SYMMETRY Symmetry
CHECK_DEADLOCK FALSE
