SPECIFICATION Spec
CONSTANTS
  None = None
  t1 = t1 t2 = t2 d1 = d1 u1 = u1 f1 = f1 f2 = f2
  k1 = k1 k2 = k2 k3 = k3 s1 = s1 s2 = s2 s3 = s3
  Tabs = {t1, t2}
  Devices = {d1}
  Users = {u1}
  Flows = {f1, f2}
  AttemptKeys = {k1, k2}
  ServerIds = {s1, s2}
  Kinds = {"step", "bonus"}
  Once = {"bonus"}
  Facts <- PlayFacts
  TabOf <- FlowPerTab
  DeviceOf <- OneDevice
  UserOf <- OnePlayer
  MaxFaults = 0
SYMMETRY Symmetry
INVARIANTS TypeOK BonusOnce BackendsAgree SentIsDurable
