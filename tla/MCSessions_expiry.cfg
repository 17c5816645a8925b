SPECIFICATION Spec
CONSTANTS
  Users = {u1}
  Req = {r1, r2, r3, r4}
  Passwords = {p1, p2}
  InitialPassword = p1
  RefreshTTL = 2
  AccessTTL = 1
  MaxClock = 3
  Ops = {"LOGIN", "REFRESH", "LOGOUT", "CHANGE_PASSWORD"}
  None = None
SYMMETRY ReqSymmetry
INVARIANTS SlidingExpiry AccessSupplyStops LiveSessionsMatchPassword
