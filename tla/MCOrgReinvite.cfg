\* organizations.service.spec.ts:167 against somebody who was a member before.
SPECIFICATION Spec
CONSTANTS
  Users = {ann, bob}
  Founder = ann
  FoundersRow = row1
  MemberIds = {row1, row2, row3}
  InvitationIds = {inv1, inv2}
  Requests = {r1}
  Roles = {"OWNER", "ADMIN"}
INVARIANTS
  ValidInvitationJoins
SYMMETRY Symmetry
CHECK_DEADLOCK FALSE
