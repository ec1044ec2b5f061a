CONSTANTS
  o = o
  a = a
  b = b
  c = c
  d = d
  r1 = r1
  r2 = r2
  Principals = {o, a, b, c, d}
  Replicas = {r1, r2}
  Owner = o
  Identity <- Signers
  Founders <- TwoAdmins
  Invited = {}
  Requests = {"revoke", "rebind"}
  Thresholds = {}
  MaxOps = 7
  Watched = {r1}
SPECIFICATION Spec
INVARIANT PassesSettle
CHECK_DEADLOCK FALSE
