CONSTANTS
  w1 = w1
  w2 = w2
  a = a
  b = b
  r1 = r1
  r2 = r2
  xlm = xlm
  usd = usd
  ann = ann
  None = None
  Parts = {"approvals"}
  Workspace = {w1, w2}
  Wallet = {a, b}
  WalletWorkspace <- Home
  Request = {r1, r2}
  WorkspaceOf <- InW1
  Recent = {r1}
  Existing = {r2}
  Openings <- Tabs
  Votes = 1
  ListMoves = 3
  LinkMoves = 2
  MaxInflight = 2
  MaxMoves = 5
  DetailMoves = 2
  TrustlineMoves = 4
  FormMoves = 5
  Txs = 3
  Sent = {3}
  First = {2}
  LateRecorded = {1}
  PageSize = 1
  Asset = {xlm, usd}
  Native = xlm
  Recipient = {p, q}
  BringsMemo = {p}
  NeedsMemo = {q}
  Email = {ann}
  Invite = {i1, i2}
  InviteEmail <- InvitedEmail
  TeamMoves = 3
  MAX_POLLS = 2
SPECIFICATION InterfaceSpec
INVARIANT ShownOfTheWorkspace
CHECK_DEADLOCK FALSE
