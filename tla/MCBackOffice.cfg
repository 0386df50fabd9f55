SPECIFICATION Spec
CONSTANTS
  Employees = {e1, e2}
  Requests = {r1, r2}
  Months = {m1, m2}
  Sessions = {s1, s2}
  Nothing = Nothing
  Hires = {e1}
  Tasks = {t1, t2}
  Helpers = {h1, h2, h3}
  Nobody = Nobody
  Learners = {l1}
  Courses = {c1}
  Students = {w1, w2, w3}
  MaxAttempts = 2
  NoEnrolment = NoEnrolment
  Expenses = {x1, x2}
  Accounts = {a1, a2}
  Officers = {o1, o2}
  Numbers = {n1, n2}
  NoOfficer = NoOfficer
  Pleas = {q1, q2}
  Staff = {o1, o2}
  Runners = {u1, u2}
  NoPlea = NoPlea
  Texts = {x1, x2}
  Budgets = {2, 3}
  MaxTokens = 2
  MaxUsed = 9
  Prompts = {i1, i2}
  NoText = NoText
  Formats = {csv, pdf}
  Clients = {c1, c2}
  Workers = {w1, w2}
  MaxQueued = 2
  MaxClaims = 3
  NoJob = NoJob
  Messages = {k1, k2}
  Critical = {k1}
  TooLong = {k2}
  Posters = {p1, p2}
  MaxFaults = 1
  NoMessage = NoMessage
  Objects = {x1, x2}
  Issues = {y1}
  Callers = {c1, c2}
  NoObject = NoObject
  Rpm = 2
  Slots = 3
  MaxTime = 6
  MaxCount = 3
  MaxStarts = 1
  NoLimit = NoLimit
  NoSlip = NoSlip
  People = {e1}
  Contracts = {n1, n2, n3}
  Writers = {w1, w2}
  Currencies = {usd, ugx}
  Sources = {1}
  Dates = {1, 2}
  MaxRefreshes = 2
  NoPerson = NoPerson
  Headcount = 2
  Exports = {x1, x2}
  SlipFormats = {csv, html}
  MaxCalculations = 2
  Enrolled = {b1}
  Programmes = {g1}
  MaxVisits = 2
  Missing = Missing
  Slugs = {g1, g2}
  Askers = {k1, k2}
  Subjects = {e1}
  MaxPackages = 3
  NoSlug = NoSlug
  Migrators = {r1, r2}
  MaxFiles = 3
  MaxRuns = 2
CHECK_DEADLOCK FALSE
INVARIANTS TypeOK LedgerAgrees CompletionStands DecisionsBooked
INVARIANTS  EffectsAccounted FiguresAgree
INVARIANTS  TenantsSetUp
