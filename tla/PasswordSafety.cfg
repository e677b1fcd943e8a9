CONSTANTS
  Users = {u1}
  Suspended = {}
  Requests = {r1, r2}
  Passwords = {pa, pb}
  Links = {l1}
  MaxFails = 1
  LockoutTtl = 1
  MaxTime = 0
  RefreshTtl = 1
  None = None
SPECIFICATION PSpec
INVARIANTS PTypeOK OutdatedSessionsEnd ConsumedLinkGone
PROPERTY Spec
SYMMETRY FlowSymmetry
