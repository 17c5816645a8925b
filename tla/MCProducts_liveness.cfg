SPECIFICATION FairSpec
CONSTANTS
  Admins = {a1}
  Req = {r1, r2, r3}
  Skus = {s1, s2}
  Columns = {"is_active"}
  Values = {TRUE, FALSE}
  MaxClock = 0
  Ops = {"CREATE", "UPDATE", "DELETE", "SIGN_IN", "ABORT"}
  None = None
PROPERTIES EveryRequestAnswered
