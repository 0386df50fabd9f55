SPECIFICATION Spec
CONSTANTS
  Batches = {b1, b2}
  Serials = {p1, p2}
  Sessions = {i1, i2}
  NoBatch = NoBatch
  Forms = {f1}
  Publishers = {u1, u2}
  Caches = {c1, c2}
  MaxClock = 3
  NoForm = NoForm
  Clerks = {k1, k2}
  Applicants <- Alike
  MaxSeq = 3
  Limit = 2
  None = None
  Rows = 2
  Columns = 3
  K = 3
  MaxCount = 4
  NoTable = NoTable
  States = {s1, s2}
  Callbacks = {c1, c2}
  MaxNow = 4
  NoState = NoState
  Tabs = {t1}
  MaxCalls = 2
  Nobody = Nobody
  Ids = {1, 2, 3}
  Value <- Column
  Sizes = {1, 2}
  Subjects = {g1, g2}
  Slots = {1, 2, 3}
  MaxClicks = 3
  NoSubject = NoSubject
  All = All
  NoPage = NoPage
CHECK_DEADLOCK FALSE
INVARIANTS TypeOK SubmissionsBounded NoRowLeftBehind NothingMissed
INVARIANTS DuplicatesFlagged  NotDerivable
INVARIANTS SessionsAgree TableShows ViewsAgree
