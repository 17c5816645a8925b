SPECIFICATION Spec
CONSTANTS
  Users = {u1, u2}
  Req = {r1, r2, r3, r4}
  Passwords = {p1, p2}
  InitialPassword = p1
  RefreshTTL = 1
  AccessTTL = 1
  MaxClock = 0
  Ops = {"LOGIN", "REFRESH", "LOGOUT_ALL", "CHANGE_PASSWORD", "SET_ACTIVE"}
  None = None
SYMMETRY Symmetry
PROPERTIES NoSessionSurvives ImplementsAbs
