CONSTANTS
  o = o
  a = a
  b = b
  r1 = r1
  r2 = r2
  r3 = r3
  Principals = {o, a, b}
  Replicas = {r1, r2, r3}
  Owner = o
  Identity <- Signers
  Founders <- NoFounders
  Invited <- AsAdmin
  Requests = {"add", "remove"}
  Thresholds = {}
  MaxOps = 5
  Watched = {r1, r2, r3}
SPECIFICATION Spec
INVARIANT RemovedIsOut
CHECK_DEADLOCK FALSE
