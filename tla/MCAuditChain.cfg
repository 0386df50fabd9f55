SPECIFICATION FairSpec
CONSTANTS
  lower = lower
  upper = upper
  Tenants = {t1, t2}
  Writers = {w1, w2, w3}
  Rows = {r1, r2}
  Bodies = {lower}
  Stored <- SameSpelling
  NoWriter = NoWriter
  MaxEvents = 3
INVARIANTS ChainVerifies GapFree NoWaitCycle
PROPERTIES RequestsFinish
