---------------------------- MODULE MCFrontOffice ----------------------------
(***************************************************************************)
(* What field officers and the browser work with, in parts that share no   *)
(* state the code keeps consistent across them: paper batches, the form    *)
(* manifest, the register of beneficiaries, the tables for donors, signing *)
(* in, the session in the browser, its tables, its views and their frame.  *)
(* A behaviour is one of any of them: part names it, and the others stay   *)
(* as they began.                                                          *)
(***************************************************************************)
EXTENDS PaperBatch, Views

VARIABLE part
parts == {"batches", "manifest", "register", "donors", "sign-in", "session",
          "table", "views", "shell"}

CONSTANTS Forms, Publishers, Caches, MaxClock, NoForm
VARIABLES clock, published_at, form, started, coincided, cached, cursor, step,
          since, found, drawn, wipe_pending, missed, overtaken
ASSUME FormsAssumption == NoForm \notin Forms /\ MaxClock \in Nat
Manifest == INSTANCE FormManifest WITH Tabs <- Caches, overlapped <- coincided

CONSTANTS Clerks, Applicants, MaxSeq, Limit, None
VARIABLES year, tenant_key, registered, sealed, flags, dismissed, reviews,
          crowded, skewed, stage, applicant, dek, number, pairs
ASSUME ClerksAssumption ==
  IsFiniteSet(Clerks) /\ Clerks # {} /\ None \notin Clerks
ASSUME ApplicantsAssumption ==
  None \notin Applicants /\ \A a \in Applicants : a.birth \in Int \cup {None}
ASSUME MaxSeqAssumption == MaxSeq \in Nat
ASSUME LimitAssumption == Limit \in Nat

\* Two who sound alike and share nothing else; each may be registered twice.
Alike ==
  LET person == [national_id |-> None, name |-> "Nyakim", phonetic |-> "N250",
                 phone |-> "1", birth |-> 1990, sex |-> "F",
                 admin_area |-> None, household |-> None]
  IN {person, [person EXCEPT !.name = "Nyakin", !.phone = None, !.birth = 1991]}
Register == INSTANCE Registry

CONSTANTS Rows, Columns, K, MaxCount, NoTable
VARIABLE table
ASSUME TableAssumption == K \in Nat /\ MaxCount \in Nat
Donors == INSTANCE KAnonymity

CONSTANTS States, Callbacks, MaxNow, NoState
VARIABLES minute, pending, tenantOpen, userOpen, callback, phase, sessions
ASSUME StatesAssumption == NoState \notin States /\ MaxNow \in Nat \ {0}
Sign == INSTANCE SignIn

CONSTANTS Tabs, MaxCalls, Nobody
VARIABLES expired, token, config, loaded, keptToken, keptConfig, page, going,
          calls, mixed

\* A donor's reader of one tenant, and one of another who sees its payroll.
Tokens == {1, 2}
Tenant == <<"a", "b">>
Permits == <<{"grant:award:read"}, {"payroll:run:read"}>>
Visited == {"grants"}
ASSUME NobodyAssumption == Nobody # "login"
Browser == INSTANCE Session

CONSTANTS Ids, Value, Sizes
VARIABLES given, filter, sortDir, pageNo, pageSize, keyed, ticks, meant, stranded,
          moved
ASSUME RowsAssumption ==
  /\ IsFiniteSet(Ids) /\ Ids # {} /\ Ids \subseteq Nat
  /\ Value \in [Ids -> Nat]
  /\ Sizes \subseteq Nat \ {0} /\ Sizes # {}

\* Two that are alike in the column that sorts, and one without a value.
Column == <<1, 0, 1>>
List == INSTANCE DataTable WITH rows <- given, page <- pageNo

CONSTANT NoPage
VARIABLES opened, arriving, frame, permitted, groups, open, query,
          active, trigger, run, focus, wandered, adrift, folded
Framed == INSTANCE Shell WITH page <- opened
-----------------------------------------------------------------------------
manifest == <<clock, published_at, form, started, coincided, cached, cursor,
              step, since, found, drawn, wipe_pending, missed, overtaken>>
register == <<year, tenant_key, registered, sealed, flags, dismissed, reviews,
              crowded, skewed, stage, applicant, dek, number, pairs>>
signing == <<minute, pending, tenantOpen, userOpen, callback, phase, sessions>>
session == <<expired, token, config, loaded, keptToken, keptConfig, page, going,
             calls, mixed>>
list == <<given, filter, sortDir, pageNo, pageSize, keyed, ticks, meant, stranded,
          moved>>
shell == <<opened, arriving, frame, permitted, groups, open, query,
           active, trigger, run, focus, wandered, adrift, folded>>
vars == <<part, batchVars, manifest, register, table, signing, session, list,
          viewVars, shell>>

Init ==
  /\ part \in parts
  /\ PaperInit /\ Manifest!FormInit /\ Register!RegistryInit /\ Donors!KInit
  /\ Sign!SignInInit /\ Browser!SessionInit
  /\ List!DataTableInit /\ (part = "table" \/ keyed)
  /\ ViewsInit /\ (part = "views" \/ view = "grants")
  /\ Framed!ShellInit /\ (part = "shell" \/ opened = "grants")

\* UNCHANGED comes first: the steps of a part share it.
Next ==
  \/ /\ part = "batches"
     /\ UNCHANGED <<part, manifest, register, table, signing, session, list,
                    viewVars, shell>>
     /\ PaperNext
  \/ /\ part = "manifest"
     /\ UNCHANGED <<part, batchVars, register, table, signing, session, list,
                    viewVars, shell>>
     /\ Manifest!FormNext
  \/ /\ part = "register"
     /\ UNCHANGED <<part, batchVars, manifest, table, signing, session, list,
                    viewVars, shell>>
     /\ Register!RegistryNext
  \/ /\ part = "donors"
     /\ UNCHANGED <<part, batchVars, manifest, register, signing, session,
                    list, viewVars, shell>>
     /\ Donors!KNext
  \/ /\ part = "sign-in"
     /\ UNCHANGED <<part, batchVars, manifest, register, table, session, list,
                    viewVars, shell>>
     /\ Sign!SignInNext
  \/ /\ part = "session"
     /\ UNCHANGED <<part, batchVars, manifest, register, table, signing, list,
                    viewVars, shell>>
     /\ Browser!SessionNext
  \/ /\ part = "table"
     /\ UNCHANGED <<part, batchVars, manifest, register, table, signing,
                    session, viewVars, shell>>
     /\ List!DataTableNext
  \/ /\ part = "views"
     /\ UNCHANGED <<part, batchVars, manifest, register, table, signing,
                    session, list, shell>>
     /\ ViewsNext
  \/ /\ part = "shell"
     /\ UNCHANGED <<part, batchVars, manifest, register, table, signing,
                    session, list, viewVars>>
     /\ Framed!ShellNext

Spec == Init /\ [][Next]_vars
-----------------------------------------------------------------------------
\* Type invariant, of the part that runs.
TypeOK ==
  /\ part = "batches" => PaperTypeOK
  /\ part = "manifest" => Manifest!FormTypeOK
  /\ part = "register" => Register!RegistryTypeOK
  /\ part = "donors" => Donors!KTypeOK
  /\ part = "sign-in" => Sign!SignInTypeOK
  /\ part = "session" => Browser!SessionTypeOK
  /\ part = "table" => List!DataTableTypeOK
  /\ part = "views" => ViewsTypeOK
  /\ part = "shell" => Framed!ShellTypeOK

\* A form that was published reaches the browser, or the next manifest has it.
NothingMissed == part = "manifest" => Manifest!NothingMissed

\* Whom the score calls duplicates are flagged, whatever overlapped.
DuplicatesFlagged == part = "register" => Register!DuplicatesFlagged

\* How many records a race for the key of the tenant can make unreadable.
LostKeysBounded == part = "register" => Register!LostKeysBounded

\* A count below the threshold does not follow from what is published.
NotDerivable == part = "donors" => Donors!NotDerivable

\* A sign-in gives one session, in time; the browser shows and keeps what belongs
\* to the session it has; and the keyboard is where the user is.
SessionsAgree ==
  /\ part = "sign-in" => Sign!OneSessionPerState
  /\ part = "session" => Browser!SessionAgrees
  /\ part = "shell" => Framed!ShellAgrees

\* A table shows the page of the rows that was asked for.
TableShows == part = "table" => List!TableShows
=============================================================================
