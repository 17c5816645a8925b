SPECIFICATION FairSpec
CONSTANTS
  upper = upper
  lower = lower
  Req = {r1, r2, r3}
  Spellings = {upper, lower}
  Lower <- ToLower
  Names = {n1, n2}
  Ops = {"REGISTER", "CREATE_ADMIN", "UPDATE_PROFILE", "SET_ACTIVE", "ABORT"}
  None = None
INVARIANTS TypeOK AddressUnique RefusedAddressIsTaken
PROPERTIES ProfileTakesEffect ImplementsAbs EveryRequestAnswered
