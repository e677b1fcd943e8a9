CONSTANTS
  Requests = {r1, r2}
  Conns = {c1, c2, c3}
  None = None
  Users = {u1, u2}
  Urls = {methods}
  Ttl = 2
  MaxVersion = 1
SPECIFICATION HFairSpec
INVARIANTS HTypeOK OneConnection ClientIsOpen
PROPERTIES RSpec WaitersAnswered StaleEnds
