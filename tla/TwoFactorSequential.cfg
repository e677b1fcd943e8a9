CONSTANTS
  Users = {u1, u2}
  Types = {"TOTP"}
  Requests = {r1}
  MethodIds = {m1, m2}
  Secrets = {s1, s2}
  BackupCodes = {b1, b2}
  Challenges = {c1, c2}
  BatchSize = 1
  None = None
SPECIFICATION Spec
INVARIANT EnabledSecretProven
PROPERTIES BackupCodeOnce ChallengeOnce
SYMMETRY TwoFactorSymmetry
