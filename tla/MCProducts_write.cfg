SPECIFICATION Spec
CONSTANTS
  Admins = {a1}
  Req = {r1, r2, r3, r4}
  Skus = {s1}
  Columns = {"is_active", "price_in_minor_units"}
  Values = {TRUE, FALSE}
  MaxClock = 0
  Ops = {"CREATE", "UPDATE", "DELETE", "GET"}
  None = None
SYMMETRY Symmetry
INVARIANTS TypeOK DeletedOnce
PROPERTIES NothingAfterDeletion UpdateTakesEffect ImplementsAbs
