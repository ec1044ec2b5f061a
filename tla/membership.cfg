CONSTANTS
  o = o
  a = a
  b = b
  r1 = r1
  r2 = r2
  r3 = r3
  Principals = {o, a, b}
  Replicas = {r1, r2, r3}
  Owner = o
  Identity <- Signers
  Founders <- OneAdmin
  Invited <- AsAdmin
  Requests = {"add", "remove", "revoke", "rebind"}
  Thresholds = {2}
  MaxOps = 5
  Watched = {r2}
SPECIFICATION Spec
SYMMETRY OwnerReplicas
INVARIANTS LogTypeOK OwnerStays QuorumProtects RetiredStaysOut MergeKeepsRemovals
CHECK_DEADLOCK FALSE
