CONSTANTS
  Messages = {m1, m2}
  Sms = {}
  Workers = {w1}
  Configured = TRUE
  Attempts = 4
  StallTime = 3
  None = None
SPECIFICATION FairSpec
INVARIANTS TypeOK CompletedWasTaken OutageOutlasted
PROPERTY EveryJobEnds
