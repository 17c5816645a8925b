SPECIFICATION Spec
CONSTANTS
  Admins = {a1}
  Req = {r1, r2, r3}
  Skus = {s1}
  Columns = {"is_active"}
  Values = {TRUE, FALSE}
  MaxClock = 1
  Ops = {"CREATE", "UPDATE"}
  None = None
PROPERTIES UpdatedAtFollowsCommits
