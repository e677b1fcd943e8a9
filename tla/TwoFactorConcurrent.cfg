CONSTANTS
  Users = {u1}
  Types = {"EMAIL_OTP"}
  Requests = {r1, r2}
  MethodIds = {m1, m2}
  Secrets = {s1}
  BackupCodes = {b1}
  Challenges = {c1}
  BatchSize = 1
  None = None
SPECIFICATION Spec
INVARIANTS TypeOK GrantedAsChallenged RemovedGrantsNothing
SYMMETRY TwoFactorSymmetry
