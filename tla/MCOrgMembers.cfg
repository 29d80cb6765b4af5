\* A founder and a newcomer who may leave and come back, two requests in flight.
SPECIFICATION Spec
CONSTANTS
  Users = {ann, bob}
  Founder = ann
  FoundersRow = row1
  MemberIds = {row1, row2, row3}
  InvitationIds = {inv1, inv2}
  Requests = {r1, r2}
  Roles = {"OWNER", "ADMIN"}
INVARIANTS
  TypeOK
PROPERTIES
  LastOwnerLeavesOnlyInARace
  MembersWereInvited
SYMMETRY Symmetry
CHECK_DEADLOCK FALSE
