SPECIFICATION Spec
CONSTANTS
  Grants = {g1}
  Disbursements = {d1, d2}
  Users = {u1, u2, u3}
  Sessions = {s1, s2}
  NoSession = NoSession
  NoUser = NoUser
  Amounts = {2}
  Totals = {3}
  MaxVersion = 1
INVARIANTS ApprovedOnce
