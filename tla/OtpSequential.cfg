CONSTANTS
  Users = {u1}
  Purposes = {pw, tfa}
  Channels = {"email", "sms"}
  Destinations = {d1}
  Requests = {r1}
  Codes = {c1, c2}
  SmsConfigured = TRUE
  MaxAttempts = 2
  Cooldown = 1
  EmailTtl = 2
  SmsTtl = 1
  MinThrottleTtl = 1
  None = None
SPECIFICATION FairSpec
INVARIANTS TypeOK AcceptedAsSent
PROPERTIES AcceptedOnce ThrottleClears
