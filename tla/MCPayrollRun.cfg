SPECIFICATION Spec
CONSTANTS
  Periods = {p1}
  Employees = {e1, e2}
  Users = {u1, u2}
  Sessions = {s1, s2}
  NoSession = NoSession
  NoUser = NoUser
  MaxContracts = 2
SYMMETRY Symmetry
INVARIANTS TypeOK TotalsMatchRecords
PROPERTIES ReviewedFiguresStand FiguresNeverGoBack
