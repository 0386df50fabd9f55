SPECIFICATION Spec
CONSTANTS
  Grants = {g1}
  Disbursements = {d1, d2, d3}
  Users = {u1, u2}
  Sessions = {s1, s2}
  NoSession = NoSession
  NoUser = NoUser
  Amounts = {2}
  Totals = {2, 3}
  MaxVersion = 3
SYMMETRY Symmetry
INVARIANTS OneCurrentBudget BoundedOverrun EventsMatchRow
PROPERTIES StatusNeverRegresses
