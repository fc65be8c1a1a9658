SPECIFICATION Spec
CONSTANTS
  None = None
  t1 = t1 t2 = t2 f1 = f1 f2 = f2 k1 = k1 s1 = s1 x1 = x1 ann = ann
  Tabs = {t1, t2}
  Flows = {f1, f2}
  TabOf <- TwoTabs
  Accounts = {ann}
  MaxIds = 2
  AttemptKeys = {k1}
  ServerIds = {s1}
  Facts = {x1}
  MaxFaults = 1
SYMMETRY Symmetry
INVARIANTS TypeOK StaysWithPlayer LogoutForgets NeverBricked
