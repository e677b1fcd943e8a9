CONSTANTS
  Users = {u1}
  Requests = {r1, r2}
  MaxTime = 2
  RefreshTtl = 2
  None = None
SPECIFICATION Spec
PROPERTY RedeemedOnce
