SPECIFICATION Spec
CONSTANTS
  Users = {u1}
  Req = {r1, r2, r3, r4, r5}
  Passwords = {p1}
  InitialPassword = p1
  RefreshTTL = 2
  AccessTTL = 1
  MaxClock = 0
  Ops = {"LOGIN", "REFRESH", "LOGOUT", "ABORT"}
  None = None
SYMMETRY ReqSymmetry
INVARIANTS TypeOK OneLivePerFamily RotationPath RotatedOnce AnsweredRevocationHolds NoHoldAndWait
PROPERTIES EndedForGood
