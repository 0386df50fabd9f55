SPECIFICATION FairSpec
CONSTANTS
  lower = lower
  upper = upper
  Tenants = {t1}
  Writers = {w1, w2}
  Rows = {r1}
  Bodies = {lower, upper}
  Stored <- LowerCased
  NoWriter = NoWriter
  MaxEvents = 2
INVARIANTS ChainVerifies
