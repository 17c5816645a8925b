SPECIFICATION Spec
CONSTANTS
  Admins = {a1}
  Req = {r1, r2, r3, r4}
  Skus = {s1, s2}
  Columns = {"is_active"}
  Values = {TRUE}
  MaxClock = 1
  Ops = {"CREATE", "DELETE", "SIGN_IN", "ABORT"}
  None = None
SYMMETRY Symmetry
INVARIANTS SkuUnique RefusedSkuIsTaken
