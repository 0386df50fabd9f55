---------------------------- MODULE MCBackOffice -----------------------------
(***************************************************************************)
(* The parts of the back office, which share no state that the code keeps  *)
(* consistent across them: leave, onboarding, learning, expenses,          *)
(* erasures, texts of a model, reports, notifications, files, the quota of *)
(* the gateway, the payslip, contracts and rates, payslips as files,       *)
(* assessments of households, tenants, and bringing a database up.  A      *)
(* behaviour is one of any of them: part names it, and the others stay as  *)
(* they began.                                                             *)
(***************************************************************************)
EXTENDS Leave, Sequences

VARIABLE part
parts == {"leave", "onboarding", "learning", "expenses", "erasure", "insights",
          "reports", "notifications", "files", "gateway", "payslip", "workforce",
          "export", "scores", "tenancy", "seeding"}

CONSTANTS Hires, Tasks, Helpers, Nobody
VARIABLES employed, checklist, open, doing, whom, task, seen, fresh, finding,
          crossed, restarted
ASSUME HiresAssumption == Nobody \notin Hires
ASSUME TasksAssumption == IsFiniteSet(Tasks) /\ Tasks # {} /\ Nobody \notin Tasks
Onboard == INSTANCE Onboarding

CONSTANTS Learners, Courses, Students, MaxAttempts, NoEnrolment
VARIABLES course, mandatory, enrolment, required, attempts, certificates,
          taking, of, paper, status, attempt, overtaken
ASSUME CoursesAssumption == IsFiniteSet(Courses) /\ MaxAttempts \in Nat
Learn == INSTANCE Learning

CONSTANTS Expenses, Accounts, Officers, Numbers, NoOfficer
VARIABLES expense, account, number, submitted_by, approved_by, entries, debit,
          approving, entered
ASSUME ExpensesAssumption == IsFiniteSet(Expenses) /\ NoOfficer \notin Expenses
Expense == INSTANCE Expenses

CONSTANTS Pleas, Staff, Runners, NoPlea
VARIABLES plea, kind, recorder, erased, log, executing, atfirst
ASSUME RunnersAssumption == IsFiniteSet(Runners) /\ NoPlea \notin Pleas
Erase == INSTANCE Erasure

CONSTANTS Texts, Budgets, MaxTokens, MaxUsed, Prompts, NoText
VARIABLES enabled, budget, used, billed, wasted, text, review, asking, about,
          cost
ASSUME BudgetsAssumption ==
  Budgets \subseteq Nat \ {0} /\ \E b \in Budgets : \A c \in Budgets : c <= b
ASSUME PromptsAssumption ==
  IsFiniteSet(Prompts) /\ MaxTokens \in Nat /\ MaxUsed \in Nat
Insights == INSTANCE AiInsights

CONSTANTS Formats, Clients, Workers, MaxQueued, MaxClaims, NoJob
VARIABLES state, created, served, artifacts, files, asks, claims, claimed,
          began, stored, waiting, passed
ASSUME QueueAssumption ==
  /\ IsFiniteSet(Clients) /\ IsFiniteSet(Workers)
  /\ MaxQueued \in Nat \ {0} /\ MaxClaims \in Nat
Orgs == {1, 2}
Jobs == {<<1, 1>>, <<1, 2>>, <<1, 3>>, <<2, 1>>}
ASSUME NoJobAssumption == NoJob \notin Jobs
Reports == INSTANCE ReportQueue

CONSTANTS Messages, Critical, TooLong, Posters, MaxFaults, NoMessage
VARIABLES delivery, fallback, suppressed, emails, texts, faults, posting,
          message, result
ASSUME PostersAssumption ==
  IsFiniteSet(Posters) /\ NoMessage \notin Messages /\ MaxFaults \in Nat
Notices == INSTANCE Notifications

CONSTANTS Objects, Issues, Callers, NoObject
VARIABLES object, disk, issue, registry, remote, torn, calling, handle, answer
ASSUME StoresAssumption ==
  Objects \cap Issues = {} /\ NoObject \notin Objects \cup Issues
Stores == INSTANCE Files

CONSTANTS Rpm, Slots, MaxTime, MaxCount, MaxStarts
VARIABLES now, reset_at, count, admitted, starts
ASSUME GatewayAssumption ==
  /\ Rpm \in Nat /\ MaxCount \in Nat /\ MaxStarts \in Nat
  /\ Slots \in Nat \ {0} /\ MaxTime \in Nat \ {0}
Gate == INSTANCE Gateway

CONSTANTS NoLimit, NoSlip
ASSUME NoLimitAssumption == NoLimit \notin Nat
VARIABLE slip

\* The bands of the two countries, a hundredth of what they are; those of
\* Uganda with the fixed amounts that make them cumulative, and without.
Band(lower, upper, rate, fixed) ==
  [lower |-> lower, upper |-> upper, rate |-> rate, fixed |-> fixed]
SouthSudan == <<Band(0, 300, 0, 0), Band(300, 500, 10000, 0),
                Band(500, 1000, 15000, 0), Band(1000, NoLimit, 20000, 0)>>
Uganda == <<Band(0, 235, 0, 0), Band(235, 335, 10000, 0),
            Band(335, 410, 20000, 10), Band(410, 1000, 30000, 25),
            Band(1000, NoLimit, 40000, 202)>>
Seeded == [i \in DOMAIN Uganda |-> [Uganda[i] EXCEPT !.fixed = 0]]

\* Two allowances, taxable and pensionable.
Allowances(cents) ==
  <<[amount |-> cents, taxable |-> TRUE, pensionable |-> FALSE],
    [amount |-> 2 * cents, taxable |-> FALSE, pensionable |-> TRUE]>>

Tables == {<<"SS", SouthSudan>>, <<"UG", Uganda>>, <<"UG", Seeded>>}
Wages == {0, 1, 7, 234, 235, 301, 335, 411, 501, 999, 1001, 5003}
Cents == {0, 3, 101}
Days == {0, 1, 13, 29, 31}
Bases == {"gross", "pensionable", "taxable"}
Annual == {100, 700}
Inputs ==
  {[country |-> bands[1], bands |-> bands[2], basic |-> basic,
    allowances |-> Allowances(cents), days_worked |-> days, days_in_month |-> 30,
    contribution_base |-> base, employee_rate |-> 8000, employer_rate |-> 17000,
    deductible_before_tax |-> TRUE, lst_annual |-> annual, lst_months |-> 3] :
     bands \in Tables, basic \in Wages, cents \in Cents, days \in Days,
     base \in Bases, annual \in Annual}
Pay == INSTANCE Payslip

CONSTANTS People, Contracts, Writers, Currencies, Sources, Dates, MaxRefreshes,
          NoPerson
VARIABLES hired, contract, rate, refreshes, work, signing, matched, ended,
          writing, order, wrote
ASSUME CurrenciesFinite == IsFiniteSet(Currencies)
ASSUME RefreshesAssumption == MaxRefreshes \in Nat
Work == INSTANCE Workforce WITH seen <- matched

CONSTANTS Headcount, Exports, SlipFormats, MaxCalculations
VARIABLES run, under_way, export_job, slip_files, onDisk, stage, wanted, listed,
          itemised, final
ASSUME HeadcountAssumption == Headcount \in Nat /\ MaxCalculations \in Nat
Export == INSTANCE PayslipExport
  WITH Formats <- SlipFormats, job <- export_job, artifacts <- slip_files

CONSTANTS Enrolled, Programmes, MaxVisits, Missing
VARIABLES record, assessments, programme
ASSUME VisitsAssumption == MaxVisits \in Nat
ASSUME MissingAssumption ==
  Missing \notin Nat \cup {"displaced_lt_12m", "displaced_gt_12m", "returnee", "host"}

\* The worked example of the method and the best off, each with one answer of
\* the other or on either side of a bound.
Example == [dependents |-> 5, working_age |-> 2, monthly_income |-> 90000,
            members |-> 7, need_threshold_per_member |-> 22000,
            shelter |-> "temporary", rcsi |-> 22, displacement |-> "displaced_lt_12m",
            disability_count |-> 1, chronic_illness_count |-> 1,
            under5_malnutrition_count |-> 0, headship |-> "female_with_deps"]
BestOff == [dependents |-> 0, working_age |-> 3, monthly_income |-> 200000,
            members |-> 4, need_threshold_per_member |-> 22000,
            shelter |-> "permanent", rcsi |-> 0, displacement |-> "host",
            disability_count |-> 0, chronic_illness_count |-> 0,
            under5_malnutrition_count |-> 0, headship |-> "none"]
Households ==
  LET like(h) ==
        {h} \cup {[h EXCEPT !.dependents = d] : d \in {1, 2, 3, 4}}
        \cup {[h EXCEPT !.working_age = w] : w \in {-1, 0, 1}}
        \cup {[h EXCEPT !.monthly_income = m] : m \in {0, 38499, 38500, 77000, 115499}}
        \cup {[h EXCEPT !.shelter = s] : s \in {"none", "semi_permanent"}}
        \cup {[h EXCEPT !.rcsi = r] : r \in {Missing, 3, 4, 18, 19, 42, 43, 60}}
        \cup {[h EXCEPT !.displacement = p] :
                p \in {Missing, "returnee", "displaced_gt_12m"}}
        \cup {[h EXCEPT !.disability_count = n] : n \in {2, 3}}
        \cup {[h EXCEPT !.headship = s] : s \in {"child", "elderly_with_deps"}}
  IN  like(Example) \cup like(BestOff)
Scores == INSTANCE Vulnerability

CONSTANTS Slugs, Askers, Subjects, MaxPackages, NoSlug
VARIABLES role, tenant, quotas, told, named, packages, late, step, asked, found
ASSUME AskersFinite == IsFiniteSet(Askers)
Tenants == INSTANCE Tenancy WITH about <- asked

CONSTANTS Migrators, MaxFiles, MaxRuns
VARIABLES release, applied, effects, runner, rows, seeded, block, commits,
          complete
ASSUME FilesAssumption == MaxFiles \in Nat \ {0} /\ MaxRuns \in Nat
Setup == INSTANCE Seeding WITH Runners <- Migrators, runs <- seeded
-----------------------------------------------------------------------------
onboarding == <<employed, checklist, open, doing, whom, task, seen, fresh,
                finding, crossed, restarted>>
learning == <<course, mandatory, enrolment, required, attempts, certificates,
              taking, of, paper, status, attempt, overtaken>>
expenses == <<expense, account, number, submitted_by, approved_by, entries,
              debit, approving, entered>>
erasures == <<plea, kind, recorder, erased, log, executing, atfirst>>
insights == <<enabled, budget, used, billed, wasted, text, review, asking,
              about, cost>>
reports == <<state, created, served, artifacts, files, asks, claims, claimed,
             began, stored, waiting, passed>>
notices == <<delivery, fallback, suppressed, emails, texts, faults, posting,
             message, result>>
stores == <<object, disk, issue, registry, remote, torn, calling, handle, answer>>
gateway == <<now, reset_at, count, admitted, starts>>
workforce == <<hired, contract, rate, refreshes, work, signing, matched, ended,
               writing, order, wrote>>
exports == <<run, under_way, export_job, slip_files, onDisk, stage, wanted,
             listed, itemised, final>>
scores == <<record, assessments, programme>>
tenants == <<role, tenant, quotas, told, named, packages, late, step, asked, found>>
setup == <<release, applied, effects, runner, rows, seeded, block, commits, complete>>

\* The parts in two halves: a step of one half leaves all of the other alone.
people == <<leaveVars, onboarding, learning, workforce, exports, slip, scores>>
office == <<expenses, erasures, insights, reports, notices, stores, gateway,
            tenants, setup>>
vars == <<part, people, office>>

Init ==
  /\ part \in parts
  /\ LeaveInit /\ Onboard!OnboardingInit /\ Learn!LearningInit
  /\ Expense!ExpensesInit /\ Erase!ErasureInit /\ Insights!AiInit
  /\ Reports!QueueInit /\ Notices!NotificationsInit /\ Stores!FilesInit
  /\ Gate!GatewayInit /\ Pay!PayslipInit
  /\ Work!WorkforceInit /\ Export!ExportInit /\ Scores!ScoreInit
  /\ Tenants!TenancyInit /\ (part = "tenancy" \/ role = "ngois")
  /\ Setup!SeedingInit

\* UNCHANGED comes first: the steps of a part share it.
Next ==
  \/ /\ part = "leave"
     /\ UNCHANGED <<part, office, onboarding, learning, workforce, exports,
                    slip, scores>>
     /\ LeaveNext
  \/ /\ part = "onboarding"
     /\ UNCHANGED <<part, office, leaveVars, learning, workforce, exports,
                    slip, scores>>
     /\ Onboard!OnboardingNext
  \/ /\ part = "learning"
     /\ UNCHANGED <<part, office, leaveVars, onboarding, workforce, exports,
                    slip, scores>>
     /\ Learn!LearningNext
  \/ /\ part = "workforce"
     /\ UNCHANGED <<part, office, leaveVars, onboarding, learning, exports,
                    slip, scores>>
     /\ Work!WorkforceNext
  \/ /\ part = "export"
     /\ UNCHANGED <<part, office, leaveVars, onboarding, learning, workforce,
                    slip, scores>>
     /\ Export!ExportNext
  \/ /\ part = "payslip"
     /\ UNCHANGED <<part, office, leaveVars, onboarding, learning, workforce,
                    exports, scores>>
     /\ Pay!PayslipNext
  \/ /\ part = "scores"
     /\ UNCHANGED <<part, office, leaveVars, onboarding, learning, workforce,
                    exports, slip>>
     /\ Scores!ScoreNext
  \/ /\ part = "expenses"
     /\ UNCHANGED <<part, people, erasures, insights, reports, notices, stores,
                    gateway, tenants, setup>>
     /\ Expense!ExpensesNext
  \/ /\ part = "erasure"
     /\ UNCHANGED <<part, people, expenses, insights, reports, notices, stores,
                    gateway, tenants, setup>>
     /\ Erase!ErasureNext
  \/ /\ part = "insights"
     /\ UNCHANGED <<part, people, expenses, erasures, reports, notices, stores,
                    gateway, tenants, setup>>
     /\ Insights!AiNext
  \/ /\ part = "reports"
     /\ UNCHANGED <<part, people, expenses, erasures, insights, notices,
                    stores, gateway, tenants, setup>>
     /\ Reports!QueueNext
  \/ /\ part = "notifications"
     /\ UNCHANGED <<part, people, expenses, erasures, insights, reports,
                    stores, gateway, tenants, setup>>
     /\ Notices!NotificationsNext
  \/ /\ part = "files"
     /\ UNCHANGED <<part, people, expenses, erasures, insights, reports,
                    notices, gateway, tenants, setup>>
     /\ Stores!FilesNext
  \/ /\ part = "gateway"
     /\ UNCHANGED <<part, people, expenses, erasures, insights, reports,
                    notices, stores, tenants, setup>>
     /\ Gate!GatewayNext
  \/ /\ part = "tenancy"
     /\ UNCHANGED <<part, people, expenses, erasures, insights, reports,
                    notices, stores, gateway, setup>>
     /\ Tenants!TenancyNext
  \/ /\ part = "seeding"
     /\ UNCHANGED <<part, people, expenses, erasures, insights, reports,
                    notices, stores, gateway, tenants>>
     /\ Setup!SeedingNext

Spec == Init /\ [][Next]_vars
-----------------------------------------------------------------------------
\* Type invariant, of the part that runs.
TypeOK ==
  /\ part = "leave" => LeaveTypeOK
  /\ part = "onboarding" => Onboard!OnboardingTypeOK
  /\ part = "learning" => Learn!LearningTypeOK
  /\ part = "workforce" => Work!WorkforceTypeOK
  /\ part = "export" => Export!ExportTypeOK
  /\ part = "payslip" => Pay!PayslipTypeOK
  /\ part = "scores" => Scores!ScoreTypeOK
  /\ part = "expenses" => Expense!ExpensesTypeOK
  /\ part = "erasure" => Erase!ErasureTypeOK
  /\ part = "insights" => Insights!AiTypeOK
  /\ part = "reports" => Reports!QueueTypeOK
  /\ part = "notifications" => Notices!NotificationsTypeOK
  /\ part = "files" => Stores!FilesTypeOK
  /\ part = "gateway" => Gate!GatewayTypeOK
  /\ part = "tenancy" => Tenants!TenancyTypeOK
  /\ part = "seeding" => Setup!SeedingTypeOK

\* What is concluded stays so: checklists, and enrolments with a certificate.
CompletionStands ==
  /\ part = "onboarding" => Onboard!ChecklistConcluded
  /\ part = "learning" => Learn!CertificateStands

\* What was decided is in the books: the journal, and the log of erasures.
DecisionsBooked ==
  /\ part = "expenses" => Expense!JournalAgrees
  /\ part = "erasure" => Erase!ExecutedOnce

\* By how much requests that overlap can exceed a quota, and how often a tenant
\* that waits for a report can be passed over.
QuotasBounded ==
  /\ part = "reports" => Reports!QueueBounded /\ Reports!PassedOverBounded
  /\ part = "insights" => Insights!BudgetBounded
  /\ part = "gateway" => Gate!RateBounded

\* What reaches the disk or a provider inside a transaction agrees with the
\* rows, as far as that can be said of what is not rolled back.
EffectsAccounted ==
  /\ part = "reports" => Reports!ReportsWhole
  /\ part = "export" => Export!PayslipsWhole
  /\ part = "notifications" => Notices!MessagesBounded
  /\ part = "files" => Stores!FilesThere

\* A payslip agrees with the definition of the tax bands, and a score ranks
\* households by their answers.
FiguresAgree ==
  /\ part = "payslip" => Pay!PayslipAgrees
  /\ part = "scores" => Scores!RankingFair

\* A person has one active contract, and rates are those of one refresh.
WorkforceAgrees == part = "workforce" => Work!WorkforceAgrees

\* A database is brought up whole, and a tenant has its quotas or was not
\* announced; what a package says of somebody is what their row said.
TenantsSetUp ==
  /\ part = "seeding" => Setup!Installed
  /\ part = "tenancy" => Tenants!TenancyAgrees
=============================================================================
