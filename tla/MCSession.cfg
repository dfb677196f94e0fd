CONSTANTS
  ann = ann
  bob = bob
  home1 = home1
  home2 = home2
  team = team
  fresh = fresh
  fund = fund
  i1 = i1
  i2 = i2
  r1 = r1
  None = None
  User = {ann, bob}
  Workspace = {home1, home2, team, fund, fresh}
  Personal <- OwnWorkspace
  Verified = {ann}
  Joined <- Memberships0
  Invite = {i1, i2}
  InviteUser <- InvitedUser
  InviteWorkspace <- InvitedTo
  Request = {r1}
  RequestWorkspace <- HeldIn
  MaxInflight = 1
  MaxRemovals = 1
  MaxVisits = 2
  MaxClicks = 2
SPECIFICATION Spec
INVARIANTS
  TypeOK
  ListIsOfTheUser
  LoadingIsUnderWay
PROPERTIES
  StartsAtHome
  LinkOpensInItsWorkspace
CHECK_DEADLOCK FALSE
