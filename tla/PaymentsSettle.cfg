SPECIFICATION SaleSpec
CONSTANTS
  None = None
  u1 = u1 u2 = u2 q1 = q1 q2 = q2 c1 = c1 c2 = c2 k1 = k1
  p1 = p1 p2 = p2 p3 = p3 r1 = r1 r2 = r2
  Users = {u1}
  Quests = {q1}
  CouponIds = {c1}
  Codes = {k1}
  PaymentIds = {p1, p2}
  Requests = {r1, r2}
  Prices <- MCPrices
  CouponForms <- HalfForms
  MaxDay = 0
  MaxEdits = 1
  MaxAborts = 1
SYMMETRY Symmetry
INVARIANTS TypeOK GrantsAreJustified HeldCouponBurnsOnce
  AnsweredMeansGranted
