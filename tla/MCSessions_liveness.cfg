SPECIFICATION FairSpec
CONSTANTS
  Users = {u1}
  Req = {r1, r2, r3}
  Passwords = {p1, p2}
  InitialPassword = p1
  RefreshTTL = 1
  AccessTTL = 1
  MaxClock = 1
  Ops = {"LOGIN", "REFRESH", "LOGOUT", "LOGOUT_ALL", "CHANGE_PASSWORD", "SET_ACTIVE", "ABORT"}
  None = None
PROPERTIES EveryRequestAnswered
