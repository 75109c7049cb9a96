\* Two people, two invitations, three requests; a run is created or reassigned.
SPECIFICATION MembersAndRunsSpec
CONSTANTS
  Users = {fay, gil}
  Founder = fay
  Roles = {"ADMIN", "TESTER"}
  Invitations = {i1, i2}
  Reqs = {r1, r2, r3}
  Founding = Founding
  Cases = {c1}
  Older = Older
  Newer = Newer
SYMMETRY OrgSymmetry
INVARIANTS AdminRemainsUnlessRaced OneMembershipPerUser InvitationsAdmitOnce AuditTellsMembership
  AssigneesWereMembers
CHECK_DEADLOCK FALSE
