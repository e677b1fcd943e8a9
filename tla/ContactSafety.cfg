CONSTANTS
  Users = {u1, u2}
  Emails = {e1, e2}
  Relay = {e2}
  OAuthOnly = {u2}
  Requests = {r1, r2}
  Links = {l1}
  None = None
SPECIFICATION Spec
INVARIANTS TypeOK VerifiedByOwnProof NewAddressProven ChangeTakesEffect CredentialFollows
SYMMETRY ContactSymmetry
