SPECIFICATION Spec
CONSTANTS
  Users = {u1}
  Req = {r1, r2, r3}
  Passwords = {p1}
  InitialPassword = p1
  RefreshTTL = 1
  AccessTTL = 1
  MaxClock = 0
  Ops = {"LOGIN", "LOGOUT_ALL", "SET_ACTIVE"}
  None = None
PROPERTIES BearerIsStateless
