CONSTANTS
  Users = {u1}
  Suspended = {}
  Requests = {r1, r2}
  Passwords = {pa}
  Links = {}
  MaxFails = 2
  LockoutTtl = 2
  MaxTime = 1
  RefreshTtl = 1
  None = None
SPECIFICATION PFairSpec
PROPERTY LockoutEnds
