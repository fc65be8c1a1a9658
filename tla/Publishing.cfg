SPECIFICATION Spec
CONSTANTS
  q1 = q1
  root = root
  ed = ed
  op = op
  r1 = r1
  r2 = r2
  a = a
  b = b
  None = None
  Quests = {q1}
  Accounts = {root, ed, op}
  Requests = {r1, r2}
  Versions = {1, 2}
  Texts = {a, b}
  Uploads <- MCUploads
  Roles0 <- MCRoles
  Worlds <- MCWorlds
  MaxClock = 1
  MaxStarted = 3
  MaxAborts = 1
SYMMETRY MCSymmetry
INVARIANT TypeOK Playable AttemptsKeepSnapshot
PROPERTY EditsByOwner SaleEndsFirst OwnersDelist
CHECK_DEADLOCK FALSE
