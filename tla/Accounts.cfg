SPECIFICATION Spec
CONSTANTS
  u1 = u1
  u2 = u2
  e1 = e1
  e2 = e2
  gg = gg
  tg = tg
  r1 = r1
  r2 = r2
  k1 = k1
  k2 = k2
  None = None
  Ids = {u1, u2}
  Emails = {e1, e2}
  Subjects = {gg, tg}
  MethodOf <- MCMethodOf
  Tokens = {k1, k2}
  Requests = {r1, r2}
  Worlds <- MCWorlds
  MaxCodeAttempts = 1
  MaxStarted = 3
  MaxAborts = 1
SYMMETRY MCSymmetry
INVARIANT TypeOK IndexAgrees NoOrphans ConfirmedIsProved GoodKeys
PROPERTY UnlinkKeepsAWay
CHECK_DEADLOCK FALSE
