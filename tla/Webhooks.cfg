SPECIFICATION FairSpec
CONSTANTS
  Subs = {s1}
  Events = {e1}
  Ticks = {w1, w2}
  Copies = 2
  MaxAttempts = 2
  Quota = 2
  MaxRows = 3
  MaxBudget = 1
  NoCall = NoCall
INVARIANTS QuotaOverrunBounded SuccessesBounded
PROPERTIES DeliveredOrAccounted
