-------------------------- MODULE FrontOfficeProofs ---------------------------
(***************************************************************************)
(* Proofs about the parts of the front office: for each the invariant that *)
(* its steps keep, and then the property that the run of MCFrontOffice     *)
(* checks, for every value of the constants. A behaviour of the front      *)
(* office is one of every part, so what holds of the parts holds of it.    *)
(***************************************************************************)
EXTENDS MCFrontOffice, FiniteSetTheorems, TLAPS
-----------------------------------------------------------------------------
(***************************************************************************)
(* Paper batches. A commit works on a list that it took earlier. The       *)
(* invariant says that the list still covers what its batch holds, and     *)
(* that a row which has a submission is listed by no more commits than     *)
(* were counted for it.                                                    *)
(***************************************************************************)
\* A row with a submission has its submission_id, and is on no new list.
Counted(p) ==
  /\ made[p] > 0 => p \in linked
  /\ made[p] = 0 \/ made[p] + Cardinality(Holders(p)) <= listed[p]

\* What the request i relies on while it is under way.
PaperUnderway(i) ==
  /\ job[i] # "idle" => target[i] \in Batches
  /\ job[i] \in {"idle", "committing"} => todo[i] = {} /\ done[i] = {}
  /\ job[i] = "linking" =>
       \A p \in Serials : batch_of[p] = target[i] =>
         p \in linked \cup todo[i] \cup done[i] \cup late

PaperInv ==
  /\ PaperTypeOK
  /\ \A p \in Serials : Counted(p)
  /\ \A i \in Sessions : PaperUnderway(i)
  /\ NoRowLeftBehind
-----------------------------------------------------------------------------
\* The requests with a serial on their lists can be counted.
LEMMA HoldersFinite ==
  ASSUME NEW p \in Serials
  PROVE  IsFiniteSet(Holders(p)) /\ Cardinality(Holders(p)) \in Nat
<1>1. Holders(p) \subseteq Sessions
  BY DEF Holders
<1> QED  BY <1>1, SessionsAssumption, FS_Subset, FS_CardinalityType

\* There is no batch to begin with.
LEMMA PaperInitInv == PaperInit => PaperInv
  BY NoBatchAssumption
  DEF PaperInit, PaperInv, PaperTypeOK, Counted, PaperUnderway, NoRowLeftBehind

\* No commit takes up a row that has a submission: the count stands.
LEMMA CountKept ==
  ASSUME PaperTypeOK, NEW p \in Serials, Counted(p),
         UNCHANGED <<linked, made, listed>>,
         p \in linked => Holders(p)' \subseteq Holders(p)
  PROVE  Counted(p)'
<1>1. CASE p \in linked
  <2>1. Cardinality(Holders(p)') <= Cardinality(Holders(p))
    BY <1>1, HoldersFinite, FS_Subset
  <2>2. Cardinality(Holders(p)') \in Nat
    BY <1>1, HoldersFinite, FS_Subset, FS_CardinalityType
  <2> QED  BY <2>1, <2>2, HoldersFinite DEF Counted, PaperTypeOK
<1>2. CASE p \notin linked
  BY <1>2 DEF Counted, PaperTypeOK
<1> QED  BY <1>1, <1>2
-----------------------------------------------------------------------------
\* A batch that is opened has no row.
LEMMA OpenInv ==
  ASSUME PaperInv, NEW b \in Batches, OpenBatch(b)
  PROVE  PaperInv'
<1> USE DEF PaperInv
<1>1. /\ status[b] = "none" /\ status' = [status EXCEPT ![b] = "open"]
      /\ UNCHANGED <<batch_of, linked, made, listed, late, job, target, todo,
                     done>>
  BY DEF OpenBatch, history, requests
<1>2. PaperTypeOK'
  BY <1>1 DEF PaperTypeOK
<1>3. ASSUME NEW p \in Serials PROVE Counted(p)'
  BY <1>1, CountKept DEF Holders
<1>4. ASSUME NEW i \in Sessions PROVE PaperUnderway(i)'
  BY <1>1 DEF PaperUnderway
<1>5. NoRowLeftBehind'
  BY <1>1, NoBatchAssumption DEF NoRowLeftBehind, PaperTypeOK
<1> QED  BY <1>2, <1>3, <1>4, <1>5

\* A request starts.
LEMMA PaperBeginInv ==
  ASSUME PaperInv, NEW i \in Sessions, NEW b \in Batches,
         NEW kind, kind \in {"adding", "committing"},
         NEW serials \in SUBSET Serials, kind = "committing" => serials = {},
         Begin(i, b, kind, serials)
  PROVE  PaperInv'
<1> USE DEF PaperInv
<1>1. /\ job[i] = "idle"
      /\ job' = [job EXCEPT ![i] = kind]
      /\ target' = [target EXCEPT ![i] = b]
      /\ todo' = [todo EXCEPT ![i] = serials]
      /\ UNCHANGED <<status, batch_of, linked, made, listed, late, done>>
  BY DEF Begin, rows, history
<1>2. PaperTypeOK'
  BY <1>1 DEF PaperTypeOK
<1>3. ASSUME NEW p \in Serials PROVE Counted(p)'
  <2>1. Holders(p)' \subseteq Holders(p)
    BY <1>1 DEF Holders, PaperTypeOK
  <2> QED  BY <1>1, <2>1, CountKept
<1>4. ASSUME NEW j \in Sessions PROVE PaperUnderway(j)'
  BY <1>1 DEF PaperUnderway, PaperTypeOK
<1>5. NoRowLeftBehind'
  BY <1>1 DEF NoRowLeftBehind
<1> QED  BY <1>2, <1>3, <1>4, <1>5

\* The list of a commit holds every row of its batch without a submission.
LEMMA ListInv ==
  ASSUME PaperInv, NEW i \in Sessions, ListRows(i)
  PROVE  PaperInv'
<1> USE DEF PaperInv
<1>1. /\ job[i] = "committing"
      /\ job' = [job EXCEPT ![i] = "linking"]
      /\ todo' = [todo EXCEPT ![i] =
                    {p \in Serials : batch_of[p] = target[i] /\ p \notin linked}]
      /\ UNCHANGED <<status, batch_of, linked, made, listed, late, target, done>>
  BY DEF ListRows, rows, history
<1>2. PaperTypeOK'
  BY <1>1 DEF PaperTypeOK
<1>3. ASSUME NEW p \in Serials PROVE Counted(p)'
  <2>1. ASSUME p \in linked PROVE Holders(p)' \subseteq Holders(p)
    BY <1>1, <2>1 DEF Holders, PaperTypeOK, PaperUnderway
  <2> QED  BY <1>1, <2>1, CountKept
<1>4. ASSUME NEW j \in Sessions PROVE PaperUnderway(j)'
  BY <1>1 DEF PaperUnderway, PaperTypeOK
<1>5. NoRowLeftBehind'
  BY <1>1 DEF NoRowLeftBehind
<1> QED  BY <1>2, <1>3, <1>4, <1>5
-----------------------------------------------------------------------------
\* A row that is inserted or submitted moves from todo to done, or is skipped.
LEMMA RowInv ==
  ASSUME PaperInv, NEW i \in Sessions, NEW p \in Serials,
         InsertRow(i, p) \/ SubmitRow(i, p)
  PROVE  PaperInv'
<1> USE DEF PaperInv
<1>1. /\ job[i] \in {"adding", "linking"} /\ p \in todo[i]
      /\ todo' = [todo EXCEPT ![i] = @ \ {p}]
      /\ UNCHANGED <<status, batch_of, linked, made, listed, late, job, target>>
  BY DEF InsertRow, SubmitRow, rows, history
<1>2. \/ done' = [done EXCEPT ![i] = @ \cup {p}]
      \/ job[i] = "adding" /\ done' = done
  <2>1. CASE SubmitRow(i, p)
    BY <2>1 DEF SubmitRow
  <2>2. CASE InsertRow(i, p) /\ batch_of[p] = NoBatch
    BY <2>2 DEF InsertRow
  <2>3. CASE InsertRow(i, p) /\ batch_of[p] # NoBatch
    BY <2>3 DEF InsertRow, PaperTypeOK
  <2> QED  BY <2>1, <2>2, <2>3
<1>3. PaperTypeOK'
  BY <1>1, <1>2 DEF PaperTypeOK
<1>4. ASSUME NEW j \in Sessions, job[j] = "linking"
      PROVE  todo'[j] \cup done'[j] = todo[j] \cup done[j]
  BY <1>1, <1>2, <1>4 DEF PaperTypeOK
<1>5. ASSUME NEW q \in Serials PROVE Counted(q)'
  <2>1. Holders(q)' = Holders(q)
    BY <1>1, <1>4 DEF Holders
  <2> QED  BY <1>1, <2>1, CountKept
<1>6. ASSUME NEW j \in Sessions PROVE PaperUnderway(j)'
  <2>1. CASE job[j] = "linking"
    BY <1>1, <1>4, <2>1 DEF PaperUnderway
  <2>2. CASE job[j] # "linking"
    BY <1>1, <1>2, <2>2 DEF PaperUnderway, PaperTypeOK
  <2> QED  BY <2>1, <2>2
<1>7. NoRowLeftBehind'
  BY <1>1 DEF NoRowLeftBehind
<1> QED  BY <1>3, <1>5, <1>6, <1>7
-----------------------------------------------------------------------------
\* A request that ends is on no list; the others keep theirs.
LEMMA EndFacts ==
  ASSUME PaperInv, NEW i \in Sessions, End(i)
  PROVE  /\ job' \in [Sessions -> {"idle", "adding", "committing", "linking"}]
         /\ target' \in [Sessions -> Batches \cup {NoBatch}]
         /\ todo' \in [Sessions -> SUBSET Serials]
         /\ done' \in [Sessions -> SUBSET Serials]
         /\ job'[i] = "idle" /\ todo'[i] = {} /\ done'[i] = {}
         /\ \A j \in Sessions \ {i} :
              /\ job'[j] = job[j] /\ target'[j] = target[j]
              /\ todo'[j] = todo[j] /\ done'[j] = done[j]
         /\ \A p \in Serials : Holders(p)' = Holders(p) \ {i}
<1>1. /\ job' = [job EXCEPT ![i] = "idle"]
      /\ target' = [target EXCEPT ![i] = NoBatch]
      /\ todo' = [todo EXCEPT ![i] = {}]
      /\ done' = [done EXCEPT ![i] = {}]
  BY DEF End
<1>2. PaperTypeOK
  BY DEF PaperInv
<1>3. \A p \in Serials : Holders(p)' = Holders(p) \ {i}
  BY <1>1, <1>2 DEF Holders, PaperTypeOK
<1> QED  BY <1>1, <1>2, <1>3 DEF PaperTypeOK

\* What is rolled back leaves the rows as they were.
LEMMA PaperRollbackInv ==
  ASSUME PaperInv, NEW i \in Sessions, Rollback(i)
  PROVE  PaperInv'
<1> USE DEF PaperInv
<1>1. End(i) /\ UNCHANGED <<status, batch_of, linked, made, listed, late>>
  BY DEF Rollback, rows, history
<1>2. PaperTypeOK'
  BY <1>1, EndFacts DEF PaperTypeOK
<1>3. ASSUME NEW p \in Serials PROVE Counted(p)'
  BY <1>1, EndFacts, CountKept
<1>4. ASSUME NEW j \in Sessions PROVE PaperUnderway(j)'
  <2>1. CASE j = i
    BY <1>1, <2>1, EndFacts DEF PaperUnderway
  <2>2. CASE j # i
    BY <1>1, <2>2, EndFacts DEF PaperUnderway
  <2> QED  BY <2>1, <2>2
<1>5. NoRowLeftBehind'
  BY <1>1 DEF NoRowLeftBehind
<1> QED  BY <1>2, <1>3, <1>4, <1>5

\* Rows that are added to a batch whose list is taken are late.
LEMMA CommitAddInv ==
  ASSUME PaperInv, NEW i \in Sessions, CommitAdd(i)
  PROVE  PaperInv'
<1> USE DEF PaperInv
<1>1. /\ job[i] = "adding" /\ End(i)
      /\ batch_of' = [p \in Serials |-> IF p \in done[i] THEN target[i]
                                        ELSE batch_of[p]]
      /\ late' = IF CommitPassed(target[i]) THEN late \cup done[i] ELSE late
      /\ UNCHANGED <<status, linked, made, listed>>
  BY DEF CommitAdd
<1>2. target[i] \in Batches /\ done[i] \subseteq Serials
  BY <1>1 DEF PaperUnderway, PaperTypeOK
<1>3. late \subseteq late' /\ (CommitPassed(target[i]) => done[i] \subseteq late')
  BY <1>1
<1>4. PaperTypeOK'
  BY <1>1, <1>2, EndFacts DEF PaperTypeOK
<1>5. ASSUME NEW p \in Serials PROVE Counted(p)'
  BY <1>1, EndFacts, CountKept
<1>6. ASSUME NEW j \in Sessions PROVE PaperUnderway(j)'
  <2>1. CASE j = i
    BY <1>1, <2>1, EndFacts DEF PaperUnderway
  <2>2. CASE j # i
    <3>1. /\ job'[j] = job[j] /\ target'[j] = target[j]
          /\ todo'[j] = todo[j] /\ done'[j] = done[j]
      BY <1>1, <2>2, EndFacts
    <3>2. ASSUME job[j] = "linking", NEW p \in Serials, batch_of'[p] = target[j]
          PROVE  p \in linked \cup todo[j] \cup done[j] \cup late'
      <4>1. CASE p \in done[i]
        BY <1>1, <1>3, <3>2, <4>1 DEF CommitPassed
      <4>2. CASE p \notin done[i]
        BY <1>1, <1>3, <3>2, <4>2 DEF PaperUnderway
      <4> QED  BY <4>1, <4>2
    <3> QED  BY <1>1, <3>1, <3>2 DEF PaperUnderway
  <2> QED  BY <2>1, <2>2
<1>7. NoRowLeftBehind'
  <2> SUFFICES ASSUME NEW p \in Serials, batch_of'[p] # NoBatch,
                      status[batch_of'[p]] = "committed"
               PROVE  p \in linked \cup late'
    BY <1>1 DEF NoRowLeftBehind
  <2>1. CASE p \in done[i]
    BY <1>1, <1>3, <2>1 DEF CommitPassed
  <2>2. CASE p \notin done[i]
    BY <1>1, <1>3, <2>2 DEF NoRowLeftBehind
  <2> QED  BY <2>1, <2>2
<1> QED  BY <1>4, <1>5, <1>6, <1>7
-----------------------------------------------------------------------------
\* Of the first submission of a row the holders are counted; every further one
\* has a holder less.
LEMMA CountCommit ==
  ASSUME PaperInv, NEW i \in Sessions, CommitBatch(i), NEW p \in Serials
  PROVE  /\ made'[p] \in Nat /\ listed'[p] \in Nat
         /\ Counted(p)'
<1>1. /\ job[i] = "linking" /\ todo[i] = {} /\ End(i)
      /\ linked' = linked \cup done[i]
      /\ made' = [q \in Serials |-> IF q \in done[i] THEN made[q] + 1
                                                     ELSE made[q]]
      /\ listed' = [q \in Serials |-> IF q \in done[i] /\ made[q] = 0
                                      THEN Cardinality(Holders(q))
                                      ELSE listed[q]]
  BY DEF CommitBatch, Submitted
<1>2. /\ made[p] \in Nat /\ listed[p] \in Nat /\ Counted(p)
  BY DEF PaperInv, PaperTypeOK
<1>3. Holders(p)' = Holders(p) \ {i}
  BY <1>1, EndFacts
<1>4. Cardinality(Holders(p)) \in Nat /\ IsFiniteSet(Holders(p))
  BY HoldersFinite
<1>5. CASE p \in done[i]
  <2>1. i \in Holders(p)
    BY <1>1, <1>5 DEF Holders
  <2>2. Cardinality(Holders(p)') = Cardinality(Holders(p)) - 1
    BY <1>3, <1>4, <2>1, FS_RemoveElement
  <2>3. made'[p] = made[p] + 1 /\ p \in linked'
    BY <1>1, <1>5
  <2>4. listed'[p] = IF made[p] = 0 THEN Cardinality(Holders(p)) ELSE listed[p]
    BY <1>1, <1>5
  <2> QED  BY <1>2, <1>4, <2>2, <2>3, <2>4 DEF Counted
<1>6. CASE p \notin done[i]
  <2>1. i \notin Holders(p)
    BY <1>1, <1>6 DEF Holders
  <2>2. Holders(p)' = Holders(p)
    BY <1>3, <2>1
  <2>3. made'[p] = made[p] /\ listed'[p] = listed[p] /\ linked \subseteq linked'
    BY <1>1, <1>6
  <2> QED  BY <1>2, <2>2, <2>3 DEF Counted
<1> QED  BY <1>5, <1>6

\* A commit links every row of its list, and the late ones are noted.
LEMMA CommitBatchInv ==
  ASSUME PaperInv, NEW i \in Sessions, CommitBatch(i)
  PROVE  PaperInv'
<1> USE DEF PaperInv
<1>1. /\ job[i] = "linking" /\ todo[i] = {} /\ End(i)
      /\ linked' = linked \cup done[i]
      /\ status' = [status EXCEPT ![target[i]] = "committed"]
      /\ UNCHANGED <<batch_of, late>>
  BY DEF CommitBatch, Submitted
<1>2. target[i] \in Batches /\ done[i] \subseteq Serials
  BY <1>1 DEF PaperUnderway, PaperTypeOK
<1>3. \A p \in Serials : Counted(p)'
  BY CountCommit
<1>4. made' \in [Serials -> Nat] /\ listed' \in [Serials -> Nat]
  <2>1. /\ made' = [p \in Serials |-> made'[p]]
        /\ listed' = [p \in Serials |-> listed'[p]]
    BY DEF CommitBatch, Submitted
  <2>2. \A p \in Serials : made'[p] \in Nat /\ listed'[p] \in Nat
    BY CountCommit
  <2> QED  BY <2>1, <2>2
<1>5. PaperTypeOK'
  BY <1>1, <1>2, <1>4, EndFacts DEF PaperTypeOK
<1>6. ASSUME NEW j \in Sessions PROVE PaperUnderway(j)'
  <2>1. CASE j = i
    BY <1>1, <2>1, EndFacts DEF PaperUnderway
  <2>2. CASE j # i
    BY <1>1, <2>2, EndFacts DEF PaperUnderway
  <2> QED  BY <2>1, <2>2
<1>7. NoRowLeftBehind'
  <2> SUFFICES ASSUME NEW p \in Serials, batch_of[p] # NoBatch,
                      status'[batch_of[p]] = "committed"
               PROVE  p \in linked' \cup late
    BY <1>1 DEF NoRowLeftBehind
  <2>1. CASE batch_of[p] = target[i]
    BY <1>1, <2>1 DEF PaperUnderway
  <2>2. CASE batch_of[p] # target[i]
    BY <1>1, <1>2, <2>2 DEF NoRowLeftBehind, PaperTypeOK
  <2> QED  BY <2>1, <2>2
<1> QED  BY <1>3, <1>5, <1>6, <1>7
-----------------------------------------------------------------------------
\* The invariant is inductive: every step of every request keeps it.
THEOREM PaperInvariance == PaperSpec => []PaperInv
<1>1. PaperInv /\ [PaperNext]_batchVars => PaperInv'
  <2> SUFFICES ASSUME PaperInv, [PaperNext]_batchVars PROVE PaperInv'
    OBVIOUS
  <2>1. ASSUME NEW b \in Batches, OpenBatch(b) PROVE PaperInv'
    BY <2>1, OpenInv
  <2>2. ASSUME NEW i \in Sessions, NEW b \in Batches,
               NEW serials \in SUBSET Serials, BeginAdd(i, b, serials)
        PROVE  PaperInv'
    BY <2>2, PaperBeginInv DEF BeginAdd
  <2>3. ASSUME NEW i \in Sessions, NEW b \in Batches, BeginCommit(i, b)
        PROVE  PaperInv'
    BY <2>3, PaperBeginInv DEF BeginCommit
  <2>4. ASSUME NEW i \in Sessions, NEW p \in Serials,
               InsertRow(i, p) \/ SubmitRow(i, p)
        PROVE  PaperInv'
    BY <2>4, RowInv
  <2>5. ASSUME NEW i \in Sessions,
               CommitAdd(i) \/ ListRows(i) \/ CommitBatch(i) \/ Rollback(i)
        PROVE  PaperInv'
    BY <2>5, CommitAddInv, ListInv, CommitBatchInv, PaperRollbackInv
  <2>6. CASE UNCHANGED batchVars
    <3>1. UNCHANGED <<status, batch_of, linked, made, listed, late, job, target,
                      todo, done>>
      BY <2>6 DEF batchVars, rows, history, requests
    <3>2. PaperTypeOK' /\ NoRowLeftBehind'
      BY <3>1 DEF PaperInv, PaperTypeOK, NoRowLeftBehind
    <3>3. \A p \in Serials : Counted(p)'
      BY <3>1, CountKept DEF PaperInv, Holders
    <3>4. \A i \in Sessions : PaperUnderway(i)'
      BY <3>1 DEF PaperInv, PaperUnderway
    <3> QED  BY <3>2, <3>3, <3>4 DEF PaperInv
  <2> QED  BY <2>1, <2>2, <2>3, <2>4, <2>5, <2>6 DEF PaperNext
<1> QED  BY PaperInitInv, <1>1, PTL DEF PaperSpec

\* Every variable of the paper batches keeps its type.
THEOREM PaperTypeCorrectness == PaperSpec => []PaperTypeOK
<1>1. PaperInv => PaperTypeOK
  BY DEF PaperInv
<1> QED  BY PaperInvariance, <1>1, PTL

\* A paper form becomes no more submissions than there were commits that had it
\* on their lists when the first of them committed.
THEOREM SubmissionsBoundedAlways == PaperSpec => []SubmissionsBounded
<1>1. PaperInv => SubmissionsBounded
  <2> SUFFICES ASSUME PaperInv, NEW p \in Serials PROVE made[p] <= listed[p]
    BY DEF SubmissionsBounded
  <2>1. made[p] \in Nat /\ listed[p] \in Nat /\ Counted(p)
    BY DEF PaperInv, PaperTypeOK
  <2> QED  BY <2>1, HoldersFinite DEF Counted
<1> QED  BY PaperInvariance, <1>1, PTL

\* A committed batch leaves no row behind but the late ones.
THEOREM NoRowLeftBehindAlways == PaperSpec => []NoRowLeftBehind
<1>1. PaperInv => NoRowLeftBehind
  BY DEF PaperInv
<1> QED  BY PaperInvariance, <1>1, PTL
-----------------------------------------------------------------------------
(***************************************************************************)
(* The manifest of forms.  What is published up to a cursor that is kept,  *)
(* sent or drawn is in the store or on its way to it, unless it is known   *)
(* to be missed; and a publication that no manifest overlaps is later than *)
(* all of these cursors.                                                   *)
(***************************************************************************)
FormSpec == Manifest!FormInit /\ [][Manifest!FormNext]_manifest

\* The forms up to t, but for those in coming, have been accounted for.
Accounted(t, coming) ==
  \A f \in Forms : published_at[f] > 0 /\ published_at[f] <= t =>
    f \in cached \/ f \in coming \/ f \in missed \/ overtaken

SyncUnderWay(c) ==
  /\ step[c] = "sent" => Accounted(since[c], {})
  /\ step[c] = "read" => Accounted(clock, found[c])
  /\ step[c] \in {"answered", "cached"} => Accounted(drawn[c], found[c])
  /\ step[c] = "cached" => found[c] = {}

\* No manifest was read during u, or before it and not answered yet.
Unseen(u, c) ==
  form[u] # NoForm /\ ~coincided[u] =>
    /\ step[c] # "read"
    /\ step[c] = "sent" => since[c] < started[u]
    /\ step[c] \in {"answered", "cached"} => drawn[c] < started[u]

PublishUnderWay(u) ==
  form[u] # NoForm =>
    /\ started[u] > 0
    /\ ~coincided[u] => cursor < started[u]

FormInv ==
  /\ Manifest!FormTypeOK
  /\ Accounted(cursor, {})
  /\ \A c \in Caches : SyncUnderWay(c)
  /\ \A u \in Publishers : PublishUnderWay(u)
  /\ \A u \in Publishers, c \in Caches : Unseen(u, c)

\* No form is published to begin with, and nothing is cached.
LEMMA FormInitInv == Manifest!FormInit => FormInv
<1> SUFFICES ASSUME Manifest!FormInit PROVE FormInv
  OBVIOUS
<1>1. Manifest!FormTypeOK
  <2>1. clock = 0 /\ cursor = 0 /\ clock \in 0..MaxClock /\ cursor \in 0..clock
    BY FormsAssumption DEF Manifest!FormInit
  <2>2. /\ published_at \in [Forms -> 0..clock] /\ started \in [Publishers -> 0..clock]
        /\ since \in [Caches -> 0..clock] /\ drawn \in [Caches -> 0..clock]
    BY <2>1 DEF Manifest!FormInit
  <2>3. /\ form \in [Publishers -> Forms \cup {NoForm}]
        /\ coincided \in [Publishers -> BOOLEAN]
        /\ step \in [Caches -> {"idle", "sent", "read", "answered", "cached", "pulled"}]
        /\ found \in [Caches -> SUBSET Forms]
    BY DEF Manifest!FormInit
  <2> QED  BY <2>1, <2>2, <2>3 DEF Manifest!FormInit, Manifest!FormTypeOK
<1> QED
  BY <1>1
     DEF Manifest!FormInit, FormInv, Accounted, SyncUnderWay, PublishUnderWay,
         Unseen

\* Types of what the steps of a tab leave alone and of what they change.
LEMMA FormTypeKept ==
  ASSUME Manifest!FormTypeOK,
         UNCHANGED <<clock, published_at, form, started, missed, coincided>>,
         cursor' \in 0..clock, cached' \subseteq Forms,
         wipe_pending' \in BOOLEAN, overtaken' \in BOOLEAN,
         step' \in [Caches -> {"idle", "sent", "read", "answered", "cached", "pulled"}],
         since' \in [Caches -> 0..clock], drawn' \in [Caches -> 0..clock],
         found' \in [Caches -> SUBSET Forms]
  PROVE  Manifest!FormTypeOK'
BY DEF Manifest!FormTypeOK

\* A step of the tab c, that leaves the server and the cursor alone, keeps the
\* invariant if it keeps what the invariant says of c.
LEMMA TabStepInv ==
  ASSUME FormInv, Manifest!FormTypeOK', NEW c \in Caches,
         UNCHANGED <<clock, published_at, form, started, missed, coincided,
                     cursor, overtaken>>,
         cached \subseteq cached',
         \A d \in Caches \ {c} : /\ step'[d] = step[d] /\ since'[d] = since[d]
                                 /\ found'[d] = found[d] /\ drawn'[d] = drawn[d],
         SyncUnderWay(c)', \A u \in Publishers : Unseen(u, c)'
  PROVE  FormInv'
<1>1. /\ Accounted(cursor, {}) /\ \A d \in Caches : SyncUnderWay(d)
      /\ \A u \in Publishers : PublishUnderWay(u)
      /\ \A u \in Publishers, d \in Caches : Unseen(u, d)
  BY DEF FormInv
<1>2. Accounted(cursor, {})'
  BY <1>1 DEF Accounted
<1>3. \A u \in Publishers : PublishUnderWay(u)'
  BY <1>1 DEF PublishUnderWay
<1>4. ASSUME NEW d \in Caches \ {c} PROVE SyncUnderWay(d)'
  <2>1. \A t, coming : Accounted(t, coming) =>
          \A f \in Forms : published_at'[f] > 0 /\ published_at'[f] <= t =>
            f \in cached' \/ f \in coming \/ f \in missed' \/ overtaken'
    BY DEF Accounted
  <2> QED  BY <1>1, <2>1 DEF SyncUnderWay, Accounted
<1>5. ASSUME NEW d \in Caches \ {c}, NEW u \in Publishers PROVE Unseen(u, d)'
  BY <1>1 DEF Unseen
<1> QED
  BY <1>2, <1>3, <1>4, <1>5 DEF FormInv

\* Beginning to publish: the new transaction is later than every cursor, and a
\* manifest that was read by then has not seen it.
LEMMA BeginPublishInv ==
  ASSUME FormInv, NEW u \in Publishers, NEW f \in Forms, Manifest!BeginPublish(u, f)
  PROVE  FormInv'
<1>1. /\ form[u] = NoForm /\ clock < MaxClock /\ clock' = clock + 1
      /\ form' = [form EXCEPT ![u] = f]
      /\ started' = [started EXCEPT ![u] = clock']
      /\ coincided' = [coincided EXCEPT ![u] = \E c \in Caches : step[c] = "read"]
      /\ UNCHANGED <<published_at, missed, cached, cursor, step, since, found, drawn,
                     wipe_pending, overtaken>>
  BY DEF Manifest!BeginPublish, Manifest!browser, Manifest!sync
<1>2. /\ Manifest!FormTypeOK /\ Accounted(cursor, {}) /\ \A d \in Caches : SyncUnderWay(d)
      /\ \A w \in Publishers : PublishUnderWay(w)
      /\ \A w \in Publishers, d \in Caches : Unseen(w, d)
  BY DEF FormInv
<1>3. /\ clock \in Nat /\ cursor \in 0..clock
      /\ \A d \in Caches : since[d] \in 0..clock /\ drawn[d] \in 0..clock
      /\ \A g \in Forms : published_at[g] \in 0..clock
  BY <1>2, FormsAssumption DEF Manifest!FormTypeOK
<1>4. Manifest!FormTypeOK'
  <2>1. 0..clock \subseteq 0..clock' /\ clock' \in 0..MaxClock /\ clock' \in 0..clock'
    BY <1>1, <1>3, FormsAssumption
  <2>2. started' \in [Publishers -> 0..clock']
    BY <1>1, <1>2, <2>1 DEF Manifest!FormTypeOK
  <2>3. /\ published_at' \in [Forms -> 0..clock'] /\ since' \in [Caches -> 0..clock']
        /\ drawn' \in [Caches -> 0..clock'] /\ cursor' \in 0..clock'
    BY <1>1, <1>2, <2>1 DEF Manifest!FormTypeOK
  <2>4. /\ form' \in [Publishers -> Forms \cup {NoForm}]
        /\ coincided' \in [Publishers -> BOOLEAN]
    BY <1>1, <1>2 DEF Manifest!FormTypeOK
  <2> QED  BY <1>1, <1>2, <2>1, <2>2, <2>3, <2>4 DEF Manifest!FormTypeOK
<1>5. Accounted(cursor, {})'
  BY <1>1, <1>2 DEF Accounted
<1>6. ASSUME NEW d \in Caches PROVE SyncUnderWay(d)'
  BY <1>1, <1>2, <1>3 DEF SyncUnderWay, Accounted
<1>7. ASSUME NEW w \in Publishers
      PROVE  PublishUnderWay(w)' /\ \A d \in Caches : Unseen(w, d)'
  <2>1. CASE w = u
    <3>1. /\ form'[w] = f /\ started'[w] = clock + 1
          /\ coincided'[w] = (\E c \in Caches : step[c] = "read")
      BY <1>1, <1>2, <2>1 DEF Manifest!FormTypeOK
    <3>2. PublishUnderWay(w)'
      BY <1>1, <1>3, <3>1 DEF PublishUnderWay
    <3>3. ASSUME NEW d \in Caches PROVE Unseen(w, d)'
      <4>1. step'[d] = step[d] /\ since'[d] < started'[w] /\ drawn'[d] < started'[w]
        BY <1>1, <1>3, <3>1
      <4>2. ~coincided'[w] => step[d] # "read"
        BY <3>1
      <4> QED  BY <4>1, <4>2 DEF Unseen
    <3> QED  BY <3>2, <3>3
  <2>2. CASE w # u
    <3>1. form'[w] = form[w] /\ started'[w] = started[w] /\ coincided'[w] = coincided[w]
      BY <1>1, <1>2, <2>2 DEF Manifest!FormTypeOK
    <3> QED  BY <1>1, <1>2, <3>1 DEF PublishUnderWay, Unseen
  <2> QED  BY <2>1, <2>2
<1> QED  BY <1>4, <1>5, <1>6, <1>7 DEF FormInv

\* Publishing: the form is now later than every cursor, or known to be missed.
LEMMA EndPublishInv ==
  ASSUME FormInv, NEW u \in Publishers,
         Manifest!CommitPublish(u) \/ Manifest!AbortPublish(u)
  PROVE  FormInv'
<1>1. /\ form[u] # NoForm /\ form' = [form EXCEPT ![u] = NoForm]
      /\ started' = [started EXCEPT ![u] = 0]
      /\ coincided' = [coincided EXCEPT ![u] = FALSE]
      /\ UNCHANGED <<clock, cached, cursor, step, since, found, drawn,
                     wipe_pending, overtaken>>
  BY DEF Manifest!CommitPublish, Manifest!AbortPublish, Manifest!EndPublish,
         Manifest!browser, Manifest!sync
<1>2. /\ Manifest!FormTypeOK /\ Accounted(cursor, {}) /\ \A d \in Caches : SyncUnderWay(d)
      /\ \A w \in Publishers : PublishUnderWay(w)
      /\ \A w \in Publishers, d \in Caches : Unseen(w, d)
  BY DEF FormInv
<1>3. /\ clock \in Nat /\ cursor \in 0..clock /\ started[u] \in 0..clock
      /\ \A d \in Caches : since[d] \in 0..clock /\ drawn[d] \in 0..clock
      /\ \A g \in Forms : published_at[g] \in 0..clock
      /\ form[u] \in Forms /\ coincided[u] \in BOOLEAN
  BY <1>1, <1>2, FormsAssumption DEF Manifest!FormTypeOK
<1>4. \/ UNCHANGED <<published_at, missed>>
      \/ /\ published_at' = [published_at EXCEPT ![form[u]] = started[u]]
         /\ missed' = IF coincided[u] THEN missed \cup {form[u]} ELSE missed \ {form[u]}
  BY DEF Manifest!CommitPublish, Manifest!AbortPublish
<1>5. /\ published_at' \in [Forms -> 0..clock] /\ missed' \subseteq Forms
      /\ \A g \in Forms : \/ published_at'[g] = published_at[g]
                                 /\ (g \in missed => g \in missed')
                          \/ g = form[u] /\ published_at'[g] = started[u]
                             /\ (coincided[u] => g \in missed')
  BY <1>2, <1>3, <1>4 DEF Manifest!FormTypeOK
<1>6. Manifest!FormTypeOK'
  <2>1. started' \in [Publishers -> 0..clock]
    BY <1>1, <1>2, <1>3 DEF Manifest!FormTypeOK
  <2>2. /\ form' \in [Publishers -> Forms \cup {NoForm}]
        /\ coincided' \in [Publishers -> BOOLEAN]
    BY <1>1, <1>2 DEF Manifest!FormTypeOK
  <2> QED  BY <1>1, <1>2, <1>5, <2>1, <2>2 DEF Manifest!FormTypeOK
\* What is accounted for up to a cursor before u stays so.
<1>7. ASSUME NEW t \in 0..clock, NEW coming, Accounted(t, coming),
             ~coincided[u] => t < started[u]
      PROVE  \A g \in Forms : published_at'[g] > 0 /\ published_at'[g] <= t =>
               g \in cached \/ g \in coming \/ g \in missed' \/ overtaken
  BY <1>3, <1>5, <1>7 DEF Accounted
<1>8. Accounted(cursor, {})'
  BY <1>1, <1>2, <1>3, <1>7 DEF Accounted, PublishUnderWay
<1>9. ASSUME NEW d \in Caches PROVE SyncUnderWay(d)'
  <2>0. SyncUnderWay(d) /\ Unseen(u, d) /\ since[d] \in 0..clock /\ drawn[d] \in 0..clock
        /\ clock \in 0..clock
    BY <1>2, <1>3
  <2>1. step[d] = "sent" => Accounted(since[d], {})'
    BY <1>1, <1>7, <2>0 DEF SyncUnderWay, Unseen, Accounted
  <2>2. step[d] = "read" => Accounted(clock, found[d])'
    BY <1>1, <1>7, <2>0 DEF SyncUnderWay, Unseen, Accounted
  <2>3. step[d] \in {"answered", "cached"} => Accounted(drawn[d], found[d])'
    BY <1>1, <1>7, <2>0 DEF SyncUnderWay, Unseen, Accounted
  <2> QED  BY <1>1, <2>0, <2>1, <2>2, <2>3 DEF SyncUnderWay
<1>10. ASSUME NEW w \in Publishers
       PROVE  PublishUnderWay(w)' /\ \A d \in Caches : Unseen(w, d)'
  <2>1. CASE w = u
    <3>1. form'[w] = NoForm
      BY <1>1, <1>2, <2>1 DEF Manifest!FormTypeOK
    <3> QED  BY <3>1 DEF PublishUnderWay, Unseen
  <2>2. CASE w # u
    <3>1. form'[w] = form[w] /\ started'[w] = started[w] /\ coincided'[w] = coincided[w]
      BY <1>1, <1>2, <2>2 DEF Manifest!FormTypeOK
    <3> QED  BY <1>1, <1>2, <3>1 DEF PublishUnderWay, Unseen
  <2> QED  BY <2>1, <2>2
<1> QED  BY <1>6, <1>8, <1>9, <1>10 DEF FormInv

\* Ordering a wipe changes nothing that the invariant names.
LEMMA OrderWipeInv ==
  ASSUME FormInv, Manifest!OrderWipe
  PROVE  FormInv'
<1>1. /\ wipe_pending' = TRUE
      /\ UNCHANGED <<clock, published_at, form, started, coincided, missed, cached, cursor,
                     step, since, found, drawn, overtaken>>
  BY DEF Manifest!OrderWipe, Manifest!server, Manifest!browser, Manifest!sync
<1> QED
  BY <1>1
     DEF FormInv, Manifest!FormTypeOK, Accounted, SyncUnderWay, PublishUnderWay,
         Unseen

\* A wipe takes the cursor with the store; other tabs that are in the middle of a
\* sync are what overtaken records.
LEMMA WipeInv ==
  ASSUME FormInv, NEW c \in Caches, Manifest!Wipe(c)
  PROVE  FormInv'
<1>1. /\ cached' = {} /\ cursor' = 0 /\ wipe_pending' = FALSE
      /\ overtaken' = (overtaken \/ \E d \in Caches : step[d] # "idle")
      /\ UNCHANGED <<clock, published_at, form, started, coincided, missed,
                     step, since, found, drawn>>
  BY DEF Manifest!Wipe, Manifest!server, Manifest!sync
<1>2. /\ Manifest!FormTypeOK /\ Accounted(cursor, {}) /\ \A d \in Caches : SyncUnderWay(d)
      /\ \A w \in Publishers : PublishUnderWay(w)
      /\ \A w \in Publishers, d \in Caches : Unseen(w, d)
  BY DEF FormInv
<1>3. Manifest!FormTypeOK'
  <2>1. 0 \in 0..clock
    BY <1>2, FormsAssumption DEF Manifest!FormTypeOK
  <2>2. cursor' \in 0..clock /\ overtaken' \in BOOLEAN /\ wipe_pending' \in BOOLEAN
    BY <1>1, <1>2, <2>1 DEF Manifest!FormTypeOK
  <2> QED  BY <1>1, <1>2, <2>2, FormTypeKept DEF Manifest!FormTypeOK
<1>4. Accounted(cursor, {})'
  BY <1>1, <1>2 DEF Accounted, Manifest!FormTypeOK
<1>5. ASSUME NEW d \in Caches PROVE SyncUnderWay(d)'
  BY <1>1, <1>2 DEF SyncUnderWay, Accounted
<1>6. \A w \in Publishers : PublishUnderWay(w)' /\ \A d \in Caches : Unseen(w, d)'
  BY <1>1, <1>2 DEF PublishUnderWay, Unseen
<1> QED  BY <1>3, <1>4, <1>5, <1>6 DEF FormInv

\* A sync begins with the cursor that was kept.
LEMMA SendCursorInv ==
  ASSUME FormInv, NEW c \in Caches, Manifest!SendCursor(c)
  PROVE  FormInv'
<1>1. /\ step[c] = "idle" /\ step' = [step EXCEPT ![c] = "sent"]
      /\ since' = [since EXCEPT ![c] = cursor]
      /\ UNCHANGED <<clock, published_at, form, started, coincided, missed, cached, cursor,
                     found, drawn, wipe_pending, overtaken>>
  BY DEF Manifest!SendCursor, Manifest!Step, Manifest!server, Manifest!browser
<1>2. /\ Manifest!FormTypeOK /\ Accounted(cursor, {})
      /\ \A w \in Publishers : PublishUnderWay(w)
  BY DEF FormInv
<1>3. Manifest!FormTypeOK'
  BY <1>1, <1>2, FormTypeKept DEF Manifest!FormTypeOK
<1>4. /\ step'[c] = "sent" /\ since'[c] = cursor
      /\ \A d \in Caches \ {c} : step'[d] = step[d] /\ since'[d] = since[d]
  BY <1>1, <1>2 DEF Manifest!FormTypeOK
<1>5. SyncUnderWay(c)'
  BY <1>1, <1>2, <1>4 DEF SyncUnderWay, Accounted
<1>6. \A u \in Publishers : Unseen(u, c)'
  BY <1>1, <1>2, <1>4 DEF PublishUnderWay, Unseen
<1> QED  BY <1>1, <1>3, <1>4, <1>5, <1>6, TabStepInv

\* The manifest names what is later than the cursor; the publications that are
\* under way are no longer unseen.
LEMMA ReadFormsInv ==
  ASSUME FormInv, NEW c \in Caches, Manifest!ReadForms(c)
  PROVE  FormInv'
<1>1. /\ step[c] = "sent" /\ step' = [step EXCEPT ![c] = "read"]
      /\ found' = [found EXCEPT ![c] = Manifest!Newer(since[c])]
      /\ since' = [since EXCEPT ![c] = 0]
      /\ coincided' = [u \in Publishers |-> coincided[u] \/ form[u] # NoForm]
      /\ UNCHANGED <<clock, published_at, form, started, missed, cached, cursor,
                     drawn, wipe_pending, overtaken>>
  BY DEF Manifest!ReadForms, Manifest!Step, Manifest!browser
<1>2. /\ Manifest!FormTypeOK /\ Accounted(cursor, {}) /\ \A d \in Caches : SyncUnderWay(d)
      /\ \A w \in Publishers : PublishUnderWay(w)
      /\ \A w \in Publishers, d \in Caches : Unseen(w, d)
  BY DEF FormInv
<1>3. /\ step'[c] = "read" /\ found'[c] = Manifest!Newer(since[c])
      /\ \A d \in Caches \ {c} : /\ step'[d] = step[d] /\ since'[d] = since[d]
                                 /\ found'[d] = found[d]
      /\ \A u \in Publishers : coincided'[u] = (coincided[u] \/ form[u] # NoForm)
  BY <1>1, <1>2 DEF Manifest!FormTypeOK
<1>4. Manifest!FormTypeOK'
  <2>1. 0 \in 0..clock
    BY <1>2, FormsAssumption DEF Manifest!FormTypeOK
  <2>2. since' \in [Caches -> 0..clock] /\ coincided' \in [Publishers -> BOOLEAN]
    BY <1>1, <1>2, <2>1 DEF Manifest!FormTypeOK
  <2>3. found' \in [Caches -> SUBSET Forms]
    BY <1>1, <1>2 DEF Manifest!FormTypeOK, Manifest!Newer
  <2>4. step' \in [Caches -> {"idle", "sent", "read", "answered", "cached", "pulled"}]
    BY <1>1, <1>2 DEF Manifest!FormTypeOK
  <2> QED  BY <1>1, <1>2, <2>2, <2>3, <2>4 DEF Manifest!FormTypeOK
<1>5. Accounted(cursor, {})'
  BY <1>1, <1>2 DEF Accounted
<1>6. ASSUME NEW d \in Caches PROVE SyncUnderWay(d)'
  <2>1. CASE d = c
    <3>1. Accounted(since[c], {})
      BY <1>1, <1>2 DEF SyncUnderWay
    <3>2. /\ since[c] \in 0..clock /\ clock \in Nat
          /\ \A g \in Forms : published_at[g] \in 0..clock
      BY <1>2, FormsAssumption DEF Manifest!FormTypeOK
    <3>3. Accounted(clock, found[c])'
      BY <1>1, <1>3, <3>1, <3>2 DEF Accounted, Manifest!Newer
    <3> QED  BY <1>3, <2>1, <3>3 DEF SyncUnderWay
  <2>2. CASE d # c
    BY <1>1, <1>2, <1>3, <2>2 DEF SyncUnderWay, Accounted
  <2> QED  BY <2>1, <2>2
<1>7. \A w \in Publishers : PublishUnderWay(w)' /\ \A d \in Caches : Unseen(w, d)'
  BY <1>1, <1>2, <1>3 DEF PublishUnderWay, Unseen
<1> QED  BY <1>4, <1>5, <1>6, <1>7 DEF FormInv

\* The cursor is drawn: no later than the publications that nobody has missed.
LEMMA DrawCursorInv ==
  ASSUME FormInv, NEW c \in Caches, Manifest!DrawCursor(c)
  PROVE  FormInv'
<1>1. /\ step[c] = "read" /\ step' = [step EXCEPT ![c] = "answered"]
      /\ drawn' = [drawn EXCEPT ![c] = clock]
      /\ UNCHANGED <<clock, published_at, form, started, coincided, missed, cached, cursor,
                     since, found, wipe_pending, overtaken>>
  BY DEF Manifest!DrawCursor, Manifest!Step, Manifest!server, Manifest!browser
<1>2. /\ Manifest!FormTypeOK /\ SyncUnderWay(c) /\ \A u \in Publishers : Unseen(u, c)
  BY DEF FormInv
<1>3. Manifest!FormTypeOK'
  <2>1. clock \in 0..clock /\ cursor \in 0..clock
    BY <1>2, FormsAssumption DEF Manifest!FormTypeOK
  <2> QED  BY <1>1, <1>2, <2>1, FormTypeKept DEF Manifest!FormTypeOK
<1>4. /\ step'[c] = "answered" /\ drawn'[c] = clock
      /\ \A d \in Caches \ {c} : step'[d] = step[d] /\ drawn'[d] = drawn[d]
  BY <1>1, <1>2 DEF Manifest!FormTypeOK
<1>5. SyncUnderWay(c)'
  BY <1>1, <1>2, <1>4 DEF SyncUnderWay, Accounted
<1>6. \A u \in Publishers : Unseen(u, c)'
  BY <1>1, <1>2, <1>4 DEF Unseen
<1> QED  BY <1>1, <1>3, <1>4, <1>5, <1>6, TabStepInv

\* What was found is in the store, and nothing more is coming.
LEMMA PutFormsInv ==
  ASSUME FormInv, NEW c \in Caches, Manifest!PutForms(c)
  PROVE  FormInv'
<1>1. /\ step[c] = "answered" /\ step' = [step EXCEPT ![c] = "cached"]
      /\ cached' = cached \cup found[c] /\ found' = [found EXCEPT ![c] = {}]
      /\ UNCHANGED <<clock, published_at, form, started, coincided, missed, cursor,
                     since, drawn, wipe_pending, overtaken>>
  BY DEF Manifest!PutForms, Manifest!Step, Manifest!server
<1>2. /\ Manifest!FormTypeOK /\ SyncUnderWay(c) /\ \A u \in Publishers : Unseen(u, c)
  BY DEF FormInv
<1>3. Manifest!FormTypeOK'
  <2>1. cached' \subseteq Forms
    BY <1>1, <1>2 DEF Manifest!FormTypeOK
  <2> QED  BY <1>1, <1>2, <2>1, FormTypeKept DEF Manifest!FormTypeOK
<1>4. /\ step'[c] = "cached" /\ found'[c] = {}
      /\ \A d \in Caches \ {c} : step'[d] = step[d] /\ found'[d] = found[d]
  BY <1>1, <1>2 DEF Manifest!FormTypeOK
<1>5. SyncUnderWay(c)'
  BY <1>1, <1>2, <1>4 DEF SyncUnderWay, Accounted
<1>6. \A u \in Publishers : Unseen(u, c)'
  BY <1>1, <1>2, <1>4 DEF Unseen
<1> QED  BY <1>1, <1>3, <1>4, <1>5, <1>6, TabStepInv

\* A sync or a pull that ends, or fails: what it has put into the store stays.
LEMMA EndInv ==
  ASSUME FormInv, NEW c \in Caches, Manifest!End(c),
         UNCHANGED <<clock, published_at, form, started, coincided, missed,
                     cursor, wipe_pending, overtaken>>,
         cached \subseteq cached', cached' \subseteq Forms
  PROVE  FormInv'
<1>1. /\ step' = [step EXCEPT ![c] = "idle"] /\ since' = [since EXCEPT ![c] = 0]
      /\ found' = [found EXCEPT ![c] = {}] /\ drawn' = [drawn EXCEPT ![c] = 0]
  BY DEF Manifest!End
<1>2. Manifest!FormTypeOK
  BY DEF FormInv
<1>3. Manifest!FormTypeOK'
  <2>1. 0 \in 0..clock
    BY <1>2, FormsAssumption DEF Manifest!FormTypeOK
  <2>2. since' \in [Caches -> 0..clock] /\ drawn' \in [Caches -> 0..clock]
    BY <1>1, <1>2, <2>1 DEF Manifest!FormTypeOK
  <2> QED  BY <1>1, <1>2, <2>2, FormTypeKept DEF Manifest!FormTypeOK
<1>4. /\ step'[c] = "idle"
      /\ \A d \in Caches \ {c} : /\ step'[d] = step[d] /\ since'[d] = since[d]
                                 /\ found'[d] = found[d] /\ drawn'[d] = drawn[d]
  BY <1>1, <1>2 DEF Manifest!FormTypeOK
<1>5. SyncUnderWay(c)' /\ \A u \in Publishers : Unseen(u, c)'
  BY <1>4 DEF SyncUnderWay, Unseen
<1> QED  BY <1>3, <1>4, <1>5, TabStepInv

\* The cursor of a sync is kept once its forms are in the store.
LEMMA SetMetaInv ==
  ASSUME FormInv, NEW c \in Caches, Manifest!SetMeta(c)
  PROVE  FormInv'
<1>1. /\ step[c] = "cached" /\ step' = [step EXCEPT ![c] = "idle"]
      /\ since' = [since EXCEPT ![c] = 0] /\ found' = [found EXCEPT ![c] = {}]
      /\ drawn' = [drawn EXCEPT ![c] = 0] /\ cursor' = drawn[c]
      /\ UNCHANGED <<clock, published_at, form, started, coincided, missed, cached,
                     wipe_pending, overtaken>>
  BY DEF Manifest!SetMeta, Manifest!End, Manifest!server
<1>2. /\ Manifest!FormTypeOK /\ \A d \in Caches : SyncUnderWay(d)
      /\ \A w \in Publishers : PublishUnderWay(w)
      /\ \A w \in Publishers, d \in Caches : Unseen(w, d)
  BY DEF FormInv
<1>3. Manifest!FormTypeOK'
  <2>1. 0 \in 0..clock /\ cursor' \in 0..clock
    BY <1>1, <1>2, FormsAssumption DEF Manifest!FormTypeOK
  <2>2. since' \in [Caches -> 0..clock] /\ drawn' \in [Caches -> 0..clock]
    BY <1>1, <1>2, <2>1 DEF Manifest!FormTypeOK
  <2> QED  BY <1>1, <1>2, <2>1, <2>2, FormTypeKept DEF Manifest!FormTypeOK
<1>4. /\ step'[c] = "idle"
      /\ \A d \in Caches \ {c} : /\ step'[d] = step[d] /\ since'[d] = since[d]
                                 /\ found'[d] = found[d] /\ drawn'[d] = drawn[d]
  BY <1>1, <1>2 DEF Manifest!FormTypeOK
<1>5. Accounted(cursor, {})'
  BY <1>1, <1>2 DEF SyncUnderWay, Accounted
<1>6. ASSUME NEW d \in Caches PROVE SyncUnderWay(d)'
  BY <1>1, <1>2, <1>4 DEF SyncUnderWay, Accounted
<1>7. ASSUME NEW w \in Publishers
      PROVE  PublishUnderWay(w)' /\ \A d \in Caches : Unseen(w, d)'
  BY <1>1, <1>2, <1>4 DEF PublishUnderWay, Unseen
<1> QED  BY <1>3, <1>5, <1>6, <1>7 DEF FormInv

\* A pull brings forms, and promises none.
LEMMA PullInv ==
  ASSUME FormInv, NEW c \in Caches, Manifest!Pull(c)
  PROVE  FormInv'
<1>1. /\ step[c] = "idle" /\ step' = [step EXCEPT ![c] = "pulled"]
      /\ found' = [found EXCEPT ![c] = Manifest!Newer(0)]
      /\ UNCHANGED <<clock, published_at, form, started, coincided, missed, cached, cursor,
                     since, drawn, wipe_pending, overtaken>>
  BY DEF Manifest!Pull, Manifest!Step, Manifest!server, Manifest!browser
<1>2. Manifest!FormTypeOK
  BY DEF FormInv
<1>3. Manifest!FormTypeOK'
  <2>1. found' \in [Caches -> SUBSET Forms]
    BY <1>1, <1>2 DEF Manifest!FormTypeOK, Manifest!Newer
  <2> QED  BY <1>1, <1>2, <2>1, FormTypeKept DEF Manifest!FormTypeOK
<1>4. /\ step'[c] = "pulled"
      /\ \A d \in Caches \ {c} : step'[d] = step[d] /\ found'[d] = found[d]
  BY <1>1, <1>2 DEF Manifest!FormTypeOK
<1>5. SyncUnderWay(c)' /\ \A u \in Publishers : Unseen(u, c)'
  BY <1>4 DEF SyncUnderWay, Unseen
<1> QED  BY <1>1, <1>3, <1>4, <1>5, TabStepInv

\* Every step of the manifest keeps the invariant.
LEMMA FormStepInv ==
  ASSUME FormInv, [Manifest!FormNext]_manifest
  PROVE  FormInv'
<1>1. CASE UNCHANGED manifest
  BY <1>1 DEF manifest, FormInv, Manifest!FormTypeOK, Accounted, SyncUnderWay,
              PublishUnderWay, Unseen
<1>2. ASSUME NEW u \in Publishers, NEW f \in Forms, Manifest!BeginPublish(u, f)
      PROVE  FormInv'
  BY <1>2, BeginPublishInv
<1>3. ASSUME NEW u \in Publishers, Manifest!CommitPublish(u) \/ Manifest!AbortPublish(u)
      PROVE  FormInv'
  BY <1>3, EndPublishInv
<1>4. CASE Manifest!OrderWipe
  BY <1>4, OrderWipeInv
<1>5. ASSUME NEW c \in Caches,
             \/ Manifest!Wipe(c) \/ Manifest!SendCursor(c) \/ Manifest!ReadForms(c)
             \/ Manifest!DrawCursor(c) \/ Manifest!PutForms(c) \/ Manifest!SetMeta(c)
             \/ Manifest!Fail(c) \/ Manifest!Pull(c) \/ Manifest!PutPulled(c)
      PROVE  FormInv'
  <2>0. cached \subseteq Forms /\ found[c] \subseteq Forms
    BY DEF FormInv, Manifest!FormTypeOK
  <2>1. CASE Manifest!Fail(c)
    BY <2>0, <2>1, EndInv DEF Manifest!Fail, Manifest!server, Manifest!browser
  <2>2. CASE Manifest!PutPulled(c)
    BY <2>0, <2>2, EndInv DEF Manifest!PutPulled, Manifest!server
  <2> QED
    BY <1>5, <2>1, <2>2, WipeInv, SendCursorInv, ReadFormsInv, DrawCursorInv,
       PutFormsInv, SetMetaInv, PullInv
<1> QED
  BY <1>1, <1>2, <1>3, <1>4, <1>5 DEF Manifest!FormNext

\* The invariant of the manifest holds in all of its behaviours.
THEOREM FormInvariance == FormSpec => []FormInv
<1>1. FormInv /\ [Manifest!FormNext]_manifest => FormInv'
  BY FormStepInv
<1> QED
  BY FormInitInv, <1>1, PTL DEF FormSpec

\* A behaviour of the front office is one of the manifest.
LEMMA FormPart == Spec => FormSpec
<1>1. Init => Manifest!FormInit
  BY DEF Init
<1>2. [Next]_vars => [Manifest!FormNext]_manifest
  BY DEF Next, vars
<1> QED
  BY <1>1, <1>2, PTL DEF Spec, FormSpec

\* NothingMissed (sync/manifest and runSync): in every behaviour of the front
\* office, with any number of forms, publishers and tabs.
THEOREM NothingMissedAlways == Spec => []NothingMissed
<1>1. FormInv => NothingMissed
  BY DEF FormInv, Accounted, NothingMissed, Manifest!NothingMissed
<1> QED
  BY FormPart, FormInvariance, <1>1, PTL
-----------------------------------------------------------------------------
(***************************************************************************)
(* The register.                                                           *)
(***************************************************************************)
RegistrySpec == Register!RegistryInit /\ [][Register!RegistryNext]_register

\* The cardinality of the register is that of the library.
LEMMA RegisterCard == \A S : Register!Cardinality(S) = Cardinality(S)
BY DEF Register!Cardinality, Cardinality

\* The score is a number, the same both ways, and no less for a recent record.
LEMMA BirthYearSymmetric ==
  ASSUME NEW a \in Applicants, NEW b \in Applicants
  PROVE  /\ Register!BirthYear(a, b) \in Nat
         /\ Register!BirthYear(a, b) = Register!BirthYear(b, a)
<1>1. CASE None \in {a.birth, b.birth}
  BY <1>1 DEF Register!BirthYear
<1>2. CASE None \notin {a.birth, b.birth}
  <2>1. a.birth \in Int /\ b.birth \in Int
    BY <1>2, ApplicantsAssumption
  <2>2. CASE a.birth = b.birth
    <3>2. /\ b.birth = a.birth
          /\ a.birth - b.birth \notin {-1, 1} /\ b.birth - a.birth \notin {-1, 1}
      BY <2>1, <2>2
    <3>1. Register!BirthYear(a, b) = 12 /\ Register!BirthYear(b, a) = 12
      BY <1>2, <2>2, <3>2, Zenon DEF Register!BirthYear
    <3> QED  BY <3>1
  <2>3. CASE a.birth # b.birth /\ a.birth - b.birth \in {-1, 1}
    <3>1. b.birth - a.birth \in {-1, 1} /\ b.birth # a.birth
      BY <2>1, <2>3
    <3>2. Register!BirthYear(a, b) = 6 /\ Register!BirthYear(b, a) = 6
      BY <1>2, <2>3, <3>1, Zenon DEF Register!BirthYear
    <3> QED  BY <3>2
  <2>4. CASE a.birth # b.birth /\ a.birth - b.birth \notin {-1, 1}
    <3>1. b.birth - a.birth \notin {-1, 1} /\ b.birth # a.birth
      BY <2>1, <2>4
    <3>2. Register!BirthYear(a, b) = 0 /\ Register!BirthYear(b, a) = 0
      BY <1>2, <2>4, <3>1, Zenon DEF Register!BirthYear
    <3> QED  BY <3>2
  <2> QED  BY <2>2, <2>3, <2>4
<1> QED  BY <1>1, <1>2

\* The score without the bonus is a number, the same both ways.
LEMMA LikenessSymmetric ==
  ASSUME NEW a \in Applicants, NEW b \in Applicants, NEW keys
  PROVE  /\ Register!Likeness(a, b, keys) = Register!Likeness(b, a, keys)
         /\ Register!Likeness(a, b, keys) \in Nat
<1>1. ASSUME NEW field PROVE Register!Same(a, b, field) = Register!Same(b, a, field)
  BY DEF Register!Same
<1>2. ASSUME NEW field, NEW points \in Nat
      PROVE  /\ Register!Indexed(a, b, keys, field, points) \in Nat
             /\ Register!Known(a, b, field, points) \in Nat
             /\ Register!Indexed(a, b, keys, field, points)
                  = Register!Indexed(b, a, keys, field, points)
             /\ Register!Known(a, b, field, points) = Register!Known(b, a, field, points)
  BY <1>1 DEF Register!Indexed, Register!Known
<1>3. /\ Register!Indexed(a, b, keys, "national_id", 60) \in Nat
      /\ Register!Indexed(a, b, keys, "phone", 30) \in Nat
      /\ Register!Known(a, b, "sex", 5) \in Nat
      /\ Register!Known(a, b, "admin_area", 8) \in Nat
      /\ Register!Known(a, b, "household", 15) \in Nat
      /\ (IF keys /\ a.name = b.name THEN 40
          ELSE Register!Indexed(a, b, keys, "phonetic", 25)) \in Nat
  BY <1>2
<1>4. Register!BirthYear(a, b) \in Nat /\ Register!BirthYear(a, b) = Register!BirthYear(b, a)
  BY BirthYearSymmetric
<1>5. /\ Register!Indexed(a, b, keys, "national_id", 60)
           = Register!Indexed(b, a, keys, "national_id", 60)
      /\ Register!Indexed(a, b, keys, "phone", 30) = Register!Indexed(b, a, keys, "phone", 30)
      /\ Register!Known(a, b, "sex", 5) = Register!Known(b, a, "sex", 5)
      /\ Register!Known(a, b, "admin_area", 8) = Register!Known(b, a, "admin_area", 8)
      /\ Register!Known(a, b, "household", 15) = Register!Known(b, a, "household", 15)
      /\ Register!Indexed(a, b, keys, "phonetic", 25)
           = Register!Indexed(b, a, keys, "phonetic", 25)
  BY <1>2
<1>6. Register!Likeness(a, b, keys) = Register!Likeness(b, a, keys)
  BY <1>4, <1>5 DEF Register!Likeness
<1>7. Register!Likeness(a, b, keys) \in Nat
  <2> DEFINE names == IF keys /\ a.name = b.name THEN 40
                      ELSE Register!Indexed(a, b, keys, "phonetic", 25)
  <2>1. names \in Nat
    BY <1>3
  <2>2. Register!Likeness(a, b, keys)
          = Register!Indexed(a, b, keys, "national_id", 60) + names
            + Register!Indexed(a, b, keys, "phone", 30) + Register!BirthYear(a, b)
            + Register!Known(a, b, "sex", 5) + Register!Known(a, b, "admin_area", 8)
            + Register!Known(a, b, "household", 15)
    BY DEF Register!Likeness
  <2> HIDE DEF names
  <2> QED  BY <1>3, <1>4, <2>1, <2>2
<1> QED  BY <1>6, <1>7

\* Who does not reach the threshold with the bonus does not without it.
LEMMA RecentScoresMore ==
  ASSUME NEW a \in Applicants, NEW b \in Applicants, NEW keys, NEW recent,
         ~(Register!Points(a, b, keys, recent) >= Register!Threshold)
  PROVE  Register!Likeness(a, b, keys) < Register!Threshold
BY LikenessSymmetric DEF Register!Points, Register!Threshold
-----------------------------------------------------------------------------
Held == {"inserted", "scored"}

RegTyped ==
  /\ Register!RegistryTypeOK
  /\ IsFiniteSet(Register!Members)
  /\ flags \subseteq Register!Members \X Register!Members

\* What a registration under way has drawn.
Drawn(c) ==
  /\ stage[c] # "idle" => applicant[c] \in Applicants /\ dek[c] \in Clerks
  /\ stage[c] \in {"numbered", "inserted", "scored"} =>
       /\ number[c] \in Register!Numbers
       /\ number[c].seq <= Cardinality(Register!Members) + 1
       /\ year = 0 => number[c].year = 0
  /\ stage[c] \in Held => number[c] \notin Register!Members
  /\ stage[c] # "scored" => pairs[c] = {}
  /\ pairs[c] \subseteq {number[c]} \X Register!Members

\* A registration whose number is still the next has been compared with all.
Compared(c) ==
  stage[c] = "scored" /\ number[c] \notin crowded
  /\ number[c].seq = Cardinality(Register!Members) + 1 =>
    \A n \in Register!Members :
      \/ <<number[c], n>> \in pairs[c]
      \/ Register!Likeness(applicant[c], registered[n], dek[c] = sealed[n])
           < Register!Threshold

NumbersApart(c, d) ==
  stage[c] \in Held /\ stage[d] \in Held => number[c] # number[d]

\* Until the year changes the numbers are those from 1 to the count.
Dense ==
  year = 0 =>
    /\ skewed = {}
    /\ \A n \in Register!Numbers : n \in Register!Members <=>
         n.year = 0 /\ n.seq <= Cardinality(Register!Members)

\* Whoever has drawn a key of its own that is not in the table has not used it.
Keyed ==
  /\ tenant_key = None => Register!Members = {}
  /\ \A c \in Clerks : stage[c] # "idle" => dek[c] \in {c, tenant_key}
  /\ \A n \in Register!Members : sealed[n] \in Clerks
  /\ \A n \in Register!Members, c \in Clerks :
       sealed[n] # tenant_key /\ stage[c] # "idle" => sealed[n] # dek[c]
  /\ \A n, m \in Register!Members :
       sealed[n] # tenant_key /\ sealed[m] = sealed[n] => m = n

RegInv ==
  /\ RegTyped
  /\ \A c \in Clerks : Drawn(c) /\ Compared(c)
  /\ \A c, d \in Clerks : c # d => NumbersApart(c, d)
  /\ Dense /\ Keyed /\ Register!DuplicatesFlagged

\* Nobody is registered to begin with.
LEMMA RegistryInitInv == Register!RegistryInit => RegInv
<1> SUFFICES ASSUME Register!RegistryInit PROVE RegInv
  OBVIOUS
<1>1. Register!Members = {}
  BY DEF Register!RegistryInit, Register!Members
<1>2. IsFiniteSet(Register!Members) /\ Cardinality(Register!Members) = 0
  BY <1>1, FS_EmptySet
<1>3. RegTyped
  BY <1>1, <1>2 DEF Register!RegistryInit, RegTyped, Register!RegistryTypeOK
<1>4. ASSUME NEW c \in Clerks PROVE Drawn(c) /\ Compared(c)
  BY DEF Register!RegistryInit, Drawn, Compared, Held
<1>5. Dense
  BY <1>1, <1>2 DEF Register!RegistryInit, Dense, Register!Numbers
<1>6. Keyed /\ Register!DuplicatesFlagged
  BY <1>1 DEF Register!RegistryInit, Keyed, Register!DuplicatesFlagged
<1> QED
  BY <1>3, <1>4, <1>5, <1>6
     DEF RegInv, NumbersApart, Held, Register!RegistryInit

\* The types of the register, one by one.
LEMMA RegistryFacts ==
  ASSUME RegInv
  PROVE  /\ Cardinality(Register!Members) \in Nat
         /\ Register!Members \subseteq Register!Numbers
         /\ \A n \in Register!Members :
              registered[n] \in Applicants /\ sealed[n] \in Clerks
<1>1. Cardinality(Register!Members) \in Nat
  BY FS_CardinalityType DEF RegInv, RegTyped
<1>2. \A n \in Register!Members : registered[n] \in Applicants /\ sealed[n] \in Clerks
  BY DEF RegInv, RegTyped, Register!RegistryTypeOK, Register!Members, Keyed
<1>3. Register!Members \subseteq Register!Numbers
  BY DEF Register!Members
<1> QED  BY <1>1, <1>2, <1>3

\* Whom a step that leaves the register alone does not concern.
LEMMA RegistryOthers ==
  ASSUME RegInv, UNCHANGED <<year, registered, sealed>>, crowded \subseteq crowded',
         NEW d \in Clerks,
         /\ stage'[d] = stage[d] /\ applicant'[d] = applicant[d] /\ dek'[d] = dek[d]
         /\ number'[d] = number[d] /\ pairs'[d] = pairs[d]
  PROVE  Drawn(d)' /\ Compared(d)'
<1>1. Register!Members' = Register!Members
  BY DEF Register!Members
<1>2. Drawn(d) /\ Compared(d)
  BY DEF RegInv
<1>3. Drawn(d)'
  BY <1>1, <1>2 DEF Drawn
<1>4. Compared(d)'
  BY <1>1, <1>2 DEF Compared
<1> QED  BY <1>3, <1>4

\* What is said of the register alone.
LEMMA RegistryKept ==
  ASSUME RegInv, UNCHANGED <<year, registered, sealed, flags, skewed>>,
         crowded \subseteq crowded'
  PROVE  /\ Register!Members' = Register!Members
         /\ Dense' /\ Register!DuplicatesFlagged'
<1>1. Register!Members' = Register!Members
  BY DEF Register!Members
<1>2. Dense'
  BY <1>1 DEF RegInv, Dense
<1>3. Register!DuplicatesFlagged'
  BY <1>1 DEF RegInv, Register!DuplicatesFlagged
<1> QED  BY <1>1, <1>2, <1>3

\* Records are sealed with keys of their own, or with the tenant's.
LEMMA KeyedKept ==
  ASSUME RegInv, UNCHANGED <<tenant_key, registered, sealed>>,
         \A d \in Clerks : stage'[d] # "idle" =>
           \/ stage[d] # "idle" /\ dek'[d] = dek[d]
           \/ dek'[d] = (IF tenant_key = None THEN d ELSE tenant_key)
  PROVE  Keyed'
<1>1. Register!Members' = Register!Members
  BY DEF Register!Members
<1>2. Keyed
  BY DEF RegInv
<1>3. \A d \in Clerks : stage'[d] # "idle" => dek'[d] \in {d, tenant_key}
  BY <1>2 DEF Keyed
<1>4. ASSUME NEW n \in Register!Members, NEW d \in Clerks,
             sealed[n] # tenant_key, stage'[d] # "idle"
      PROVE  sealed[n] # dek'[d]
  BY <1>2, <1>4 DEF Keyed
<1> QED  BY <1>1, <1>2, <1>3, <1>4 DEF Keyed

\* The rows of c change, at most, in a step of c that leaves the register alone.
LEMMA ClerkStepInv ==
  ASSUME RegInv, NEW c \in Clerks,
         UNCHANGED <<year, tenant_key, registered, sealed, flags, dismissed,
                     reviews, skewed>>,
         crowded \subseteq crowded', crowded' \subseteq Register!Numbers,
         /\ stage' = [stage EXCEPT ![c] = stage'[c]]
         /\ applicant' = [applicant EXCEPT ![c] = applicant'[c]]
         /\ dek' = [dek EXCEPT ![c] = dek'[c]]
         /\ number' = [number EXCEPT ![c] = number'[c]]
         /\ pairs' = [pairs EXCEPT ![c] = pairs'[c]],
         stage'[c] \in {"idle", "keying", "keyed", "numbered", "inserted", "scored"},
         applicant'[c] \in Applicants \cup {None}, dek'[c] \in Clerks \cup {None},
         number'[c] \in Register!Numbers \cup {None},
         Drawn(c)', Compared(c)',
         \A d \in Clerks \ {c} : NumbersApart(c, d)',
         stage'[c] # "idle" =>
           \/ stage[c] # "idle" /\ dek'[c] = dek[c]
           \/ dek'[c] = (IF tenant_key = None THEN c ELSE tenant_key)
  PROVE  RegInv'
<1> DEFINE same(d) == /\ stage'[d] = stage[d] /\ applicant'[d] = applicant[d]
                      /\ dek'[d] = dek[d] /\ number'[d] = number[d] /\ pairs'[d] = pairs[d]
<1>1. \A d \in Clerks \ {c} : same(d)
  BY DEF RegInv, RegTyped, Register!RegistryTypeOK
<1> HIDE DEF same
<1>2. Register!Members' = Register!Members
  BY DEF Register!Members
<1>3. Dense' /\ Register!DuplicatesFlagged'
  BY RegistryKept
<1>4. ASSUME NEW d \in Clerks PROVE Drawn(d)' /\ Compared(d)'
  <2>1. CASE d = c
    BY <2>1
  <2>2. CASE d # c
    BY <1>1, <2>2, RegistryOthers DEF same
  <2> QED  BY <2>1, <2>2
<1>5. ASSUME NEW d \in Clerks, NEW e \in Clerks, d # e PROVE NumbersApart(d, e)'
  <2>1. CASE d # c /\ e # c
    <3>1. same(d) /\ same(e)
      BY <1>1, <2>1
    <3>2. NumbersApart(d, e)
      BY <1>5 DEF RegInv
    <3> QED  BY <3>1, <3>2 DEF NumbersApart, same
  <2>2. CASE d = c \/ e = c
    BY <1>5, <2>2 DEF NumbersApart
  <2> QED  BY <2>1, <2>2
<1>6. Keyed'
  <2>1. ASSUME NEW d \in Clerks, stage'[d] # "idle"
        PROVE  \/ stage[d] # "idle" /\ dek'[d] = dek[d]
               \/ dek'[d] = (IF tenant_key = None THEN d ELSE tenant_key)
    <3>1. CASE d = c
      BY <2>1, <3>1
    <3>2. CASE d # c
      BY <1>1, <2>1, <3>2 DEF same
    <3> QED  BY <3>1, <3>2
  <2> QED  BY <2>1, KeyedKept
<1>7. RegTyped'
  <2>1. pairs'[c] \subseteq Register!Numbers \X Register!Numbers
    <3>1. CASE stage'[c] = "scored"
      BY <1>2, <3>1 DEF Drawn, Register!Members
    <3>2. CASE stage'[c] # "scored"
      BY <3>2 DEF Drawn
    <3> QED  BY <3>1, <3>2
  <2>2. Register!RegistryTypeOK'
    <3>1. Register!RegistryTypeOK
      BY DEF RegInv, RegTyped
    <3>2. /\ stage' \in [Clerks -> {"idle", "keying", "keyed", "numbered", "inserted",
                                    "scored"}]
          /\ applicant' \in [Clerks -> Applicants \cup {None}]
          /\ dek' \in [Clerks -> Clerks \cup {None}]
      BY <3>1 DEF Register!RegistryTypeOK
    <3>3. number' \in [Clerks -> Register!Numbers \cup {None}]
      BY <3>1 DEF Register!RegistryTypeOK
    <3>4. pairs' \in [Clerks -> SUBSET (Register!Numbers \X Register!Numbers)]
      BY <2>1, <3>1 DEF Register!RegistryTypeOK
    <3> QED  BY <3>1, <3>2, <3>3, <3>4 DEF Register!RegistryTypeOK
  <2> QED  BY <1>2, <2>2 DEF RegInv, RegTyped
<1> QED  BY <1>3, <1>4, <1>5, <1>6, <1>7 DEF RegInv

\* A registration begins, with the key of the tenant or one of its own.
LEMMA BeginRegistrationInv ==
  ASSUME RegInv, NEW c \in Clerks, NEW a \in Applicants,
         Register!BeginRegistration(c, a)
  PROVE  RegInv'
<1>1. /\ UNCHANGED <<year, tenant_key, registered, sealed, flags, dismissed, reviews,
                     crowded, skewed, number, pairs>>
      /\ applicant' = [applicant EXCEPT ![c] = a] /\ stage[c] = "idle"
  BY DEF Register!BeginRegistration, Register!register, Register!duplicates,
         Register!history
<1>2. RegTyped /\ Register!RegistryTypeOK
  BY DEF RegInv, RegTyped
<1>3. PICK s \in {"keying", "keyed"} : stage' = [stage EXCEPT ![c] = s]
  BY DEF Register!BeginRegistration
<1>4. dek' = [dek EXCEPT ![c] = IF tenant_key = None THEN c ELSE tenant_key]
  BY DEF Register!BeginRegistration
<1>5. /\ stage'[c] = s /\ applicant'[c] = a /\ number'[c] = number[c] /\ pairs'[c] = pairs[c]
      /\ dek'[c] = (IF tenant_key = None THEN c ELSE tenant_key) /\ dek'[c] \in Clerks
  BY <1>1, <1>2, <1>3, <1>4 DEF Register!RegistryTypeOK
<1>6. Register!Members' = Register!Members
  BY <1>1 DEF Register!Members
<1>7. Drawn(c) /\ number[c] \in Register!Numbers \cup {None}
  BY <1>2 DEF RegInv, Register!RegistryTypeOK
<1>8. Drawn(c)'
  BY <1>1, <1>5, <1>6, <1>7 DEF Drawn, Held
<1>9. Compared(c)' /\ \A d \in Clerks \ {c} : NumbersApart(c, d)'
  BY <1>5 DEF Compared, NumbersApart, Held
<1> QED
  BY <1>1, <1>2, <1>3, <1>4, <1>5, <1>7, <1>8, <1>9, ClerkStepInv
     DEF Register!RegistryTypeOK

\* The key of a tenant without one is inserted.
LEMMA InsertKeyInv ==
  ASSUME RegInv, NEW c \in Clerks, Register!InsertKey(c)
  PROVE  RegInv'
<1>1. /\ UNCHANGED <<year, tenant_key, registered, sealed, flags, dismissed, reviews,
                     crowded, skewed, applicant, dek, number, pairs>>
      /\ stage[c] = "keying" /\ stage' = [stage EXCEPT ![c] = "keyed"]
  BY DEF Register!InsertKey, Register!Goto, Register!register,
         Register!duplicates, Register!history
<1>2. RegTyped /\ Register!RegistryTypeOK /\ Drawn(c)
  BY DEF RegInv, RegTyped
<1>3. stage'[c] = "keyed" /\ Register!Members' = Register!Members
  BY <1>1, <1>2 DEF Register!RegistryTypeOK, Register!Members
<1>4. Drawn(c)'
  BY <1>1, <1>2, <1>3 DEF Drawn, Held
<1>5. Compared(c)' /\ \A d \in Clerks \ {c} : NumbersApart(c, d)'
  BY <1>3 DEF Compared, NumbersApart, Held
<1> QED
  BY <1>1, <1>2, <1>3, <1>4, <1>5, ClerkStepInv DEF Register!RegistryTypeOK

\* nextBeneficiaryNumber
LEMMA DrawNumberInv ==
  ASSUME RegInv, NEW c \in Clerks, Register!DrawNumber(c)
  PROVE  RegInv'
<1> DEFINE k == Cardinality(Register!Members)
           next == [year |-> year, seq |-> k + 1]
<1>1. /\ UNCHANGED <<year, tenant_key, registered, sealed, flags, dismissed, reviews,
                     crowded, skewed, applicant, dek, pairs>>
      /\ stage[c] = "keyed" /\ stage' = [stage EXCEPT ![c] = "numbered"]
      /\ k < MaxSeq /\ number' = [number EXCEPT ![c] = next]
  BY RegisterCard DEF Register!DrawNumber, Register!Goto, Register!register,
                      Register!duplicates, Register!history
<1>2. RegTyped /\ Register!RegistryTypeOK /\ Drawn(c)
  BY DEF RegInv, RegTyped
<1>3. k \in Nat
  BY RegistryFacts
<1>4. next \in Register!Numbers /\ next.seq = k + 1 /\ next.year = year
  BY <1>1, <1>2, <1>3, MaxSeqAssumption
     DEF Register!RegistryTypeOK, Register!Numbers
<1> HIDE DEF next
<1>5. /\ stage'[c] = "numbered" /\ number'[c] = next
      /\ Register!Members' = Register!Members
  BY <1>1, <1>2 DEF Register!RegistryTypeOK, Register!Members
<1>6. Drawn(c)'
  BY <1>1, <1>2, <1>3, <1>4, <1>5 DEF Drawn, Held
<1>7. Compared(c)' /\ \A d \in Clerks \ {c} : NumbersApart(c, d)'
  BY <1>5 DEF Compared, NumbersApart, Held
<1> QED
  BY <1>1, <1>2, <1>4, <1>5, <1>6, <1>7, ClerkStepInv
     DEF Register!RegistryTypeOK

\* The record is inserted, with the number that was drawn.
LEMMA InsertRecordInv ==
  ASSUME RegInv, NEW c \in Clerks, Register!InsertRecord(c)
  PROVE  RegInv'
<1>1. /\ UNCHANGED <<year, tenant_key, registered, sealed, flags, dismissed, reviews,
                     crowded, skewed, applicant, dek, number, pairs>>
      /\ stage[c] = "numbered" /\ stage' = [stage EXCEPT ![c] = "inserted"]
      /\ number[c] \notin Register!Members
      /\ \A d \in Clerks \ {c} : stage[d] \in Held => number[d] # number[c]
  BY DEF Register!InsertRecord, Register!Goto, Register!register,
         Register!duplicates, Register!history, Held
<1>2. RegTyped /\ Register!RegistryTypeOK /\ Drawn(c)
  BY DEF RegInv, RegTyped
<1>3. /\ stage'[c] = "inserted" /\ Register!Members' = Register!Members
      /\ \A d \in Clerks \ {c} : stage'[d] = stage[d]
  BY <1>1, <1>2 DEF Register!RegistryTypeOK, Register!Members
<1>4. Drawn(c)'
  BY <1>1, <1>2, <1>3 DEF Drawn, Held
<1>5. Compared(c)' /\ \A d \in Clerks \ {c} : NumbersApart(c, d)'
  BY <1>1, <1>3 DEF Compared, NumbersApart, Held
<1> QED
  BY <1>1, <1>2, <1>3, <1>4, <1>5, ClerkStepInv DEF Register!RegistryTypeOK

\* A search that is not cut off at the limit has everybody.
LEMMA ScoreCandidatesInv ==
  ASSUME RegInv, NEW c \in Clerks, NEW candidates \in SUBSET Register!Members,
         NEW recent \in SUBSET candidates, Register!ScoreCandidates(c, candidates, recent)
  PROVE  RegInv'
<1> DEFINE score(n) == Register!Points(applicant[c], registered[n], dek[c] = sealed[n],
                                       n \in recent)
           hits == {<<number[c], n>> :
                       n \in {m \in candidates : score(m) >= Register!Threshold}}
<1>1. /\ UNCHANGED <<year, tenant_key, registered, sealed, flags, dismissed, reviews,
                     skewed, applicant, dek, number>>
      /\ stage[c] = "inserted" /\ stage' = [stage EXCEPT ![c] = "scored"]
      /\ pairs' = [pairs EXCEPT ![c] = hits]
  BY DEF Register!ScoreCandidates, Register!Goto, Register!register,
         Register!duplicates
<1>2. RegTyped /\ Register!RegistryTypeOK /\ Drawn(c)
  BY DEF RegInv, RegTyped
<1>3. /\ stage'[c] = "scored" /\ pairs'[c] = hits
      /\ \A d \in Clerks \ {c} : stage'[d] = stage[d]
      /\ Register!Members' = Register!Members
  BY <1>1, <1>2 DEF Register!RegistryTypeOK, Register!Members
<1>4. /\ number[c] \in Register!Numbers /\ number[c] \notin Register!Members
      /\ applicant[c] \in Applicants
  BY <1>1, <1>2 DEF Drawn, Held
<1>5. hits \subseteq {number[c]} \X Register!Members
  OBVIOUS
<1>6. \/ crowded' = crowded \cup {number[c]}
      \/ candidates = Register!Members /\ crowded' = crowded
  <2>1. CASE Cardinality(Register!Members) > Limit
    BY <2>1, RegisterCard DEF Register!ScoreCandidates
  <2>2. CASE ~(Cardinality(Register!Members) > Limit)
    <3>1. crowded' = crowded /\ (Cardinality(Register!Members) <= Limit
            => Cardinality(candidates) = Cardinality(Register!Members))
      BY <2>2, RegisterCard DEF Register!ScoreCandidates
    <3>2. Cardinality(Register!Members) \in Nat
      BY RegistryFacts
    <3>3. Cardinality(candidates) = Cardinality(Register!Members)
      BY <2>2, <3>1, <3>2, LimitAssumption
    <3> QED  BY <1>2, <3>1, <3>3, FS_Subset DEF RegTyped
  <2> QED  BY <2>1, <2>2
<1>7. Compared(c)'
  <2> SUFFICES ASSUME number[c] \notin crowded', NEW n \in Register!Members,
                      <<number[c], n>> \notin hits
               PROVE  Register!Likeness(applicant[c], registered[n], dek[c] = sealed[n])
                        < Register!Threshold
    BY <1>1, <1>3 DEF Compared
  <2>1. n \in candidates
    BY <1>6
  <2>2. ~(score(n) >= Register!Threshold)
    BY <2>1
  <2>3. registered[n] \in Applicants
    BY RegistryFacts
  <2> QED  BY <1>4, <2>2, <2>3, RecentScoresMore
<1> HIDE DEF hits
<1>8. Drawn(c)'
  BY <1>1, <1>2, <1>3, <1>4, <1>5 DEF Drawn, Held
<1>9. \A d \in Clerks \ {c} : NumbersApart(c, d)'
  <2>1. \A d \in Clerks \ {c} : NumbersApart(c, d)
    BY DEF RegInv
  <2> QED  BY <1>1, <1>3, <2>1 DEF NumbersApart, Held
<1>10. crowded \subseteq crowded' /\ crowded' \subseteq Register!Numbers
  BY <1>2, <1>4, <1>6 DEF Register!RegistryTypeOK
<1> QED
  BY <1>1, <1>2, <1>3, <1>4, <1>7, <1>8, <1>9, <1>10, ClerkStepInv
     DEF Register!RegistryTypeOK

\* A registration that fails leaves nothing behind but the key it may have set.
LEMMA AbortInv ==
  ASSUME RegInv, NEW c \in Clerks, Register!Abort(c)
  PROVE  RegInv'
<1>1. /\ UNCHANGED <<year, tenant_key, registered, sealed, flags, dismissed, reviews,
                     crowded, skewed>>
      /\ stage' = [stage EXCEPT ![c] = "idle"]
      /\ applicant' = [applicant EXCEPT ![c] = None]
      /\ dek' = [dek EXCEPT ![c] = None] /\ number' = [number EXCEPT ![c] = None]
      /\ pairs' = [pairs EXCEPT ![c] = {}]
  BY DEF Register!Abort, Register!Leave, Register!register, Register!duplicates,
         Register!history
<1>2. RegTyped /\ Register!RegistryTypeOK
  BY DEF RegInv, RegTyped
<1>3. /\ stage'[c] = "idle" /\ pairs'[c] = {} /\ applicant'[c] = None /\ dek'[c] = None
      /\ number'[c] = None
  BY <1>1, <1>2 DEF Register!RegistryTypeOK
<1>4. Drawn(c)' /\ Compared(c)' /\ \A d \in Clerks \ {c} : NumbersApart(c, d)'
  BY <1>3 DEF Drawn, Compared, NumbersApart, Held
<1> QED
  BY <1>1, <1>2, <1>3, <1>4, ClerkStepInv DEF Register!RegistryTypeOK

\* The reviewers and the clock leave every registration as it is.
LEMMA ResolveInv ==
  ASSUME RegInv, NEW p \in reviews, NEW r, Register!Resolve(p, r)
  PROVE  RegInv'
<1>1. /\ UNCHANGED <<year, tenant_key, registered, sealed, flags, crowded, skewed,
                     stage, applicant, dek, number, pairs>>
      /\ reviews' = reviews \ {p} /\ dismissed' \in {dismissed, dismissed \cup {p}}
  BY DEF Register!Resolve, Register!register, Register!history, Register!clerk
<1>2. RegTyped /\ Register!RegistryTypeOK
  BY DEF RegInv, RegTyped
<1>3. Register!Members' = Register!Members /\ Dense' /\ Register!DuplicatesFlagged'
  BY <1>1, RegistryKept
<1>4. dismissed' \subseteq flags' \ reviews' /\ reviews' \subseteq flags'
  BY <1>1, <1>2 DEF Register!RegistryTypeOK
<1>5. RegTyped'
  BY <1>1, <1>2, <1>3, <1>4 DEF RegTyped, Register!RegistryTypeOK
<1>6. ASSUME NEW d \in Clerks PROVE Drawn(d)' /\ Compared(d)'
  BY <1>1, RegistryOthers
<1>7. ASSUME NEW d \in Clerks, NEW e \in Clerks, d # e PROVE NumbersApart(d, e)'
  BY <1>1, <1>7 DEF RegInv, NumbersApart
<1>8. Keyed'
  BY <1>1, KeyedKept
<1> QED  BY <1>3, <1>5, <1>6, <1>7, <1>8 DEF RegInv

\* A year begins while nobody registers: no number is skewed by it.
LEMMA NewYearInv ==
  ASSUME RegInv, Register!NewYear
  PROVE  RegInv'
<1>1. /\ UNCHANGED <<tenant_key, registered, sealed, flags, dismissed, reviews, crowded,
                     skewed, stage, applicant, dek, number, pairs>>
      /\ year' = 1
  BY DEF Register!NewYear, Register!duplicates, Register!history, Register!clerk
<1>2. RegTyped /\ Register!RegistryTypeOK
  BY DEF RegInv, RegTyped
<1>3. Register!Members' = Register!Members
  BY <1>1 DEF Register!Members
<1>4. RegTyped'
  BY <1>1, <1>2, <1>3 DEF RegTyped, Register!RegistryTypeOK
<1>5. ASSUME NEW d \in Clerks PROVE Drawn(d)' /\ Compared(d)'
  <2>1. Drawn(d) /\ Compared(d)
    BY DEF RegInv
  <2>2. Drawn(d)'
    BY <1>1, <1>3, <2>1 DEF Drawn
  <2>3. Compared(d)'
    BY <1>1, <1>3, <2>1 DEF Compared
  <2> QED  BY <2>2, <2>3
<1>6. ASSUME NEW d \in Clerks, NEW e \in Clerks, d # e PROVE NumbersApart(d, e)'
  BY <1>1, <1>6 DEF RegInv, NumbersApart
<1>7. Keyed'
  BY <1>1, KeyedKept
<1>8. Dense' /\ Register!DuplicatesFlagged'
  BY <1>1, <1>3 DEF RegInv, Dense, Register!DuplicatesFlagged
<1> QED  BY <1>4, <1>5, <1>6, <1>7, <1>8 DEF RegInv

\* A number other than the next takes all who are under way out of the promise;
\* the next one is of a registration that was compared with everybody.
LEMMA CommitRegistrationInv ==
  ASSUME RegInv, NEW c \in Clerks, Register!CommitRegistration(c)
  PROVE  RegInv'
<1> DEFINE M == Register!Members
           k == Cardinality(Register!Members)
<1>1. /\ stage[c] = "scored"
      /\ tenant_key' = IF tenant_key = None THEN dek[c] ELSE tenant_key
      /\ registered' = [registered EXCEPT ![number[c]] = applicant[c]]
      /\ sealed' = [sealed EXCEPT ![number[c]] = dek[c]]
      /\ flags' = flags \cup pairs[c] /\ reviews' = reviews \cup pairs[c]
      /\ skewed' = skewed \cup Register!Skewed(c)
      /\ UNCHANGED <<year, dismissed, crowded>>
      /\ stage' = [stage EXCEPT ![c] = "idle"]
      /\ applicant' = [applicant EXCEPT ![c] = None]
      /\ dek' = [dek EXCEPT ![c] = None] /\ number' = [number EXCEPT ![c] = None]
      /\ pairs' = [pairs EXCEPT ![c] = {}]
  BY DEF Register!CommitRegistration, Register!Leave
<1>2. RegTyped /\ Register!RegistryTypeOK /\ Drawn(c) /\ Compared(c) /\ Keyed /\ Dense
  BY DEF RegInv, RegTyped
<1>3. /\ number[c] \in Register!Numbers /\ number[c] \notin M
      /\ number[c].seq <= k + 1 /\ (year = 0 => number[c].year = 0)
      /\ applicant[c] \in Applicants /\ dek[c] \in Clerks
      /\ pairs[c] \subseteq {number[c]} \X M
  BY <1>1, <1>2 DEF Drawn, Held
<1>4. /\ M \subseteq Register!Numbers /\ k \in Nat /\ IsFiniteSet(M)
      /\ \A n \in M : registered[n] \in Applicants /\ sealed[n] \in Clerks
  BY <1>2, RegistryFacts DEF RegTyped
<1>5. /\ registered'[number[c]] = applicant[c] /\ sealed'[number[c]] = dek[c]
      /\ \A n \in Register!Numbers \ {number[c]} :
           registered'[n] = registered[n] /\ sealed'[n] = sealed[n]
  BY <1>1, <1>2, <1>3 DEF Register!RegistryTypeOK
<1>6. Register!Members' = M \cup {number[c]}
  BY <1>3, <1>5, ApplicantsAssumption DEF Register!Members
<1>7. Cardinality(Register!Members)' = k + 1 /\ IsFiniteSet(Register!Members')
  BY <1>3, <1>4, <1>6, FS_AddElement
<1>8. /\ stage'[c] = "idle" /\ pairs'[c] = {}
      /\ \A d \in Clerks \ {c} :
           /\ stage'[d] = stage[d] /\ applicant'[d] = applicant[d] /\ dek'[d] = dek[d]
           /\ number'[d] = number[d] /\ pairs'[d] = pairs[d]
  BY <1>1, <1>2 DEF Register!RegistryTypeOK
<1> HIDE DEF M, k
<1>9. Register!Skewed(c) \in SUBSET Register!Numbers
      /\ (number[c].seq = k + 1 => Register!Skewed(c) = {})
  <2>1. CASE number[c].seq = k + 1
    BY <2>1, RegisterCard DEF Register!Skewed, k
  <2>2. CASE number[c].seq # k + 1
    <3>1. Register!Skewed(c) = {number[d] : d \in {e \in Clerks : Register!Inserting(e)}}
      BY <2>2, RegisterCard DEF Register!Skewed, k
    <3>2. \A d \in Clerks : Register!Inserting(d) => number[d] \in Register!Numbers
      BY DEF RegInv, Drawn, Register!Inserting
    <3> QED  BY <2>2, <3>1, <3>2
  <2> QED  BY <2>1, <2>2
<1>10. RegTyped'
  <2>1. tenant_key' \in Clerks \cup {None}
    BY <1>1, <1>2, <1>3 DEF Register!RegistryTypeOK
  <2>2. registered' \in [Register!Numbers -> Applicants \cup {None}]
    BY <1>1, <1>2, <1>3 DEF Register!RegistryTypeOK
  <2>3. sealed' \in [Register!Numbers -> Clerks \cup {None}]
    BY <1>1, <1>2, <1>3 DEF Register!RegistryTypeOK
  <2>4. flags' \subseteq Register!Members' \X Register!Members'
    BY <1>1, <1>2, <1>3, <1>6 DEF RegTyped, M
  <2>5. Register!Members' \subseteq Register!Numbers
    BY <1>3, <1>4, <1>6
  <2>6. flags' \subseteq Register!Numbers \X Register!Numbers
    BY <2>4, <2>5
  <2>7. dismissed \cap pairs[c] = {}
    <3>1. dismissed \subseteq M \X M
      BY <1>2 DEF RegTyped, Register!RegistryTypeOK, M
    <3> QED  BY <1>3, <3>1
  <2>8. dismissed' \subseteq flags' \ reviews' /\ reviews' \subseteq flags'
    BY <1>1, <1>2, <2>7 DEF Register!RegistryTypeOK
  <2>9. skewed' \subseteq Register!Numbers
    BY <1>1, <1>2, <1>9 DEF Register!RegistryTypeOK
  <2>10. /\ stage' \in [Clerks -> {"idle", "keying", "keyed", "numbered", "inserted",
                                   "scored"}]
         /\ applicant' \in [Clerks -> Applicants \cup {None}]
         /\ dek' \in [Clerks -> Clerks \cup {None}]
         /\ number' \in [Clerks -> Register!Numbers \cup {None}]
    BY <1>1, <1>2 DEF Register!RegistryTypeOK
  <2>11. pairs' \in [Clerks -> SUBSET (Register!Numbers \X Register!Numbers)]
    BY <1>1, <1>2 DEF Register!RegistryTypeOK
  <2>12. year' \in {0, 1} /\ crowded' \subseteq Register!Numbers
    BY <1>1, <1>2 DEF Register!RegistryTypeOK
  <2>13. Register!RegistryTypeOK'
    BY <2>1, <2>2, <2>3, <2>6, <2>8, <2>9, <2>10, <2>11, <2>12
       DEF Register!RegistryTypeOK
  <2> QED  BY <1>7, <2>4, <2>13 DEF RegTyped
<1>11. ASSUME NEW d \in Clerks PROVE Drawn(d)' /\ Compared(d)'
  <2>1. CASE d = c
    BY <1>8, <2>1 DEF Drawn, Compared, Held
  <2>2. CASE d # c
    <3>1. Drawn(d) /\ NumbersApart(c, d)
      BY <2>2 DEF RegInv
    <3>2. pairs[d] \subseteq {number[d]} \X Register!Members'
      BY <1>6, <3>1 DEF Drawn, M
    <3>3. stage[d] \in Held => number[d] \notin Register!Members'
      BY <1>1, <1>6, <3>1 DEF Drawn, NumbersApart, Held, M
    <3>4. stage[d] \in {"numbered", "inserted", "scored"} => number[d].seq <= k + 1
      BY <3>1 DEF Drawn, k
    <3>5. stage[d] \in {"numbered", "inserted", "scored"} => number[d].seq \in Int
      BY <3>1 DEF Drawn, Register!Numbers
    <3>6. Compared(d)'
      BY <1>4, <1>7, <1>8, <2>2, <3>4, <3>5 DEF Compared
    <3>7. Drawn(d)'
      BY <1>1, <1>4, <1>7, <1>8, <2>2, <3>1, <3>2, <3>3, <3>4, <3>5 DEF Drawn
    <3> QED  BY <3>6, <3>7
  <2> QED  BY <2>1, <2>2
<1>12. ASSUME NEW d \in Clerks, NEW e \in Clerks, d # e PROVE NumbersApart(d, e)'
  <2>1. CASE d # c /\ e # c
    BY <1>8, <1>12, <2>1 DEF RegInv, NumbersApart
  <2>2. CASE d = c \/ e = c
    BY <1>8, <2>2 DEF NumbersApart, Held
  <2> QED  BY <2>1, <2>2
<1>13. Dense'
  <2> SUFFICES ASSUME year = 0
               PROVE  /\ skewed' = {}
                      /\ \A n \in Register!Numbers : n \in Register!Members' <=>
                           n.year = 0 /\ n.seq <= k + 1
    BY <1>1, <1>7 DEF Dense
  <2>1. /\ skewed = {}
        /\ \A n \in Register!Numbers : n \in M <=> n.year = 0 /\ n.seq <= k
    BY <1>2 DEF Dense, M, k
  <2>2. number[c].seq = k + 1
    <3>1. number[c].seq \in Int
      BY <1>3 DEF Register!Numbers
    <3> QED  BY <1>3, <1>4, <2>1, <3>1
  <2>3. skewed' = {}
    BY <1>1, <1>9, <2>1, <2>2
  <2>4. ASSUME NEW n \in Register!Numbers
        PROVE  n \in Register!Members' <=> n.year = 0 /\ n.seq <= k + 1
    <3>1. n.seq \in Int
      BY DEF Register!Numbers
    <3>2. n.year = 0 /\ n.seq = k + 1 => n = number[c]
      BY <1>3, <2>2 DEF Register!Numbers
    <3>3. n = number[c] => n.year = 0 /\ n.seq = k + 1
      BY <1>3, <2>2
    <3> QED  BY <1>4, <1>6, <2>1, <3>1, <3>2, <3>3
  <2> QED  BY <2>3, <2>4
<1>14. Keyed'
  <2>1. tenant_key = None => M = {}
    BY <1>2 DEF Keyed, M
  <2>2. tenant_key' # None
    BY <1>1, <1>3, ClerksAssumption
  <2>3. \A d \in Clerks : stage'[d] # "idle" => d # c /\ stage[d] # "idle" /\ dek'[d] = dek[d]
    BY <1>8
  <2>4. \A d \in Clerks : stage[d] # "idle" => dek[d] \in Clerks /\ dek[d] \in {d, tenant_key}
    BY <1>2 DEF RegInv, Drawn, Keyed
  <2>5. CASE tenant_key = None
    <3>1. dek[c] = c /\ tenant_key' = c /\ Register!Members' = {number[c]}
      BY <1>1, <1>3, <1>6, <2>1, <2>4, <2>5, ClerksAssumption
    <3>2. sealed'[number[c]] = tenant_key'
      BY <1>5, <3>1
    <3>3. \A d \in Clerks : stage'[d] # "idle" => dek'[d] \in {d, tenant_key'}
      BY <2>3, <2>4, <2>5, ClerksAssumption
    <3> QED  BY <1>3, <1>5, <2>2, <3>1, <3>2, <3>3 DEF Keyed
  <2>6. CASE tenant_key # None
    <3>1. tenant_key' = tenant_key
      BY <1>1, <2>6
    <3>2. \A d \in Clerks : stage'[d] # "idle" => dek'[d] \in {d, tenant_key'}
      BY <2>3, <2>4, <3>1
    <3>3. \A n \in Register!Members' : sealed'[n] \in Clerks
      BY <1>3, <1>4, <1>5, <1>6
    <3>4. ASSUME NEW n \in Register!Members', NEW d \in Clerks,
                 sealed'[n] # tenant_key', stage'[d] # "idle"
          PROVE  sealed'[n] # dek'[d]
      <4>1. CASE n = number[c]
        <5>1. sealed'[n] = dek[c] /\ dek[c] = c
          BY <1>1, <1>5, <2>4, <3>1, <3>4, <4>1
        <5> QED  BY <2>3, <2>4, <3>1, <3>4, <5>1
      <4>2. CASE n # number[c]
        <5>1. n \in M /\ sealed'[n] = sealed[n]
          BY <1>4, <1>5, <1>6, <4>2
        <5> QED  BY <1>2, <2>3, <3>1, <3>4, <5>1 DEF Keyed, M
      <4> QED  BY <4>1, <4>2
    <3>5. ASSUME NEW n \in Register!Members', NEW m \in Register!Members',
                 sealed'[n] # tenant_key', sealed'[m] = sealed'[n]
          PROVE  m = n
      <4>1. \A x \in M : x # number[c] /\ sealed'[x] = sealed[x]
        BY <1>3, <1>4, <1>5
      <4>2. \A x \in M : sealed[x] # tenant_key => sealed[x] # dek[c]
        BY <1>1, <1>2 DEF Keyed, M
      <4>3. \A x, y \in M : sealed[x] # tenant_key /\ sealed[y] = sealed[x] => y = x
        BY <1>2 DEF Keyed, M
      <4> QED  BY <1>5, <1>6, <3>1, <3>5, <4>1, <4>2, <4>3
    <3> QED  BY <2>2, <3>2, <3>3, <3>4, <3>5 DEF Keyed
  <2> QED  BY <2>5, <2>6
<1>15. Register!DuplicatesFlagged'
  <2>1. year' = 0 => skewed' = {}
    BY <1>13 DEF Dense
  <2> DEFINE settled(m, n) ==
        \/ m = n \/ {m, n} \cap (crowded' \cup skewed') # {}
        \/ {<<m, n>>, <<n, m>>} \cap flags' # {}
        \/ Register!Likeness(registered'[m], registered'[n], sealed'[m] = sealed'[n])
             < Register!Threshold
  <2>2. ASSUME NEW m \in M, NEW n \in M PROVE settled(m, n)
    <3>1. /\ registered'[m] = registered[m] /\ registered'[n] = registered[n]
          /\ sealed'[m] = sealed[m] /\ sealed'[n] = sealed[n]
      BY <1>3, <1>4, <1>5
    <3>2. \/ m = n \/ {m, n} \cap (crowded \cup skewed) # {}
          \/ {<<m, n>>, <<n, m>>} \cap flags # {}
          \/ Register!Likeness(registered[m], registered[n], sealed[m] = sealed[n])
               < Register!Threshold
      BY DEF RegInv, Register!DuplicatesFlagged, M
    <3> QED  BY <1>1, <3>1, <3>2
  <2>3. ASSUME NEW n \in M PROVE settled(number[c], n) /\ settled(n, number[c])
    <3>1. CASE number[c] \in crowded \cup skewed'
      BY <1>1, <3>1
    <3>2. CASE <<number[c], n>> \in pairs[c]
      BY <1>1, <3>2
    <3>3. CASE number[c] \notin crowded \cup skewed' /\ <<number[c], n>> \notin pairs[c]
      <4>1. number[c].seq = k + 1
        <5> SUFFICES ASSUME number[c].seq # k + 1 PROVE number[c] \in skewed'
          BY <3>3
        <5>1. Register!Inserting(c)
          BY <1>1 DEF Register!Inserting
        <5> QED  BY <1>1, <5>1, RegisterCard DEF Register!Skewed, k
      <4>2. Register!Likeness(applicant[c], registered[n], dek[c] = sealed[n])
              < Register!Threshold
        BY <1>1, <1>2, <3>3, <4>1 DEF Compared, k, M
      <4>3. /\ registered'[n] = registered[n] /\ sealed'[n] = sealed[n]
            /\ registered[n] \in Applicants
        BY <1>3, <1>4, <1>5
      <4>4. Register!Likeness(registered'[number[c]], registered'[n],
                              sealed'[number[c]] = sealed'[n]) < Register!Threshold
        BY <1>5, <4>2, <4>3
      <4>5. Register!Likeness(registered'[n], registered'[number[c]],
                              sealed'[n] = sealed'[number[c]]) < Register!Threshold
        <5>1. Register!Likeness(registered[n], applicant[c], dek[c] = sealed[n])
                < Register!Threshold
          BY <1>3, <4>2, <4>3, LikenessSymmetric
        <5>2. (dek[c] = sealed[n]) = (sealed[n] = dek[c])
          OBVIOUS
        <5> QED  BY <1>5, <4>3, <5>1, <5>2
      <4> QED  BY <4>4, <4>5
    <3> QED  BY <3>1, <3>2, <3>3
  <2>4. settled(number[c], number[c])
    OBVIOUS
  <2> HIDE DEF settled
  <2>5. \A m, n \in Register!Members' : settled(m, n)
    BY <1>6, <2>2, <2>3, <2>4
  <2> QED  BY <2>1, <2>5 DEF Register!DuplicatesFlagged, settled
<1> QED  BY <1>10, <1>11, <1>12, <1>13, <1>14, <1>15 DEF RegInv
-----------------------------------------------------------------------------
\* In every behaviour of the register (field-data-service).
THEOREM RegistryInvariance == RegistrySpec => []RegInv
<1>1. RegInv /\ [Register!RegistryNext]_register => RegInv'
  <2> SUFFICES ASSUME RegInv, [Register!RegistryNext]_register PROVE RegInv'
    OBVIOUS
  <2>1. CASE UNCHANGED register
    <3>1. UNCHANGED <<year, tenant_key, registered, sealed, flags, dismissed, reviews,
                      crowded, skewed, stage, applicant, dek, number, pairs>>
      BY <2>1 DEF register
    <3>2. Register!Members' = Register!Members /\ Dense' /\ Register!DuplicatesFlagged'
      BY <3>1, RegistryKept
    <3>3. RegTyped'
      BY <3>1, <3>2 DEF RegInv, RegTyped, Register!RegistryTypeOK
    <3>4. ASSUME NEW d \in Clerks PROVE Drawn(d)' /\ Compared(d)'
      BY <3>1, RegistryOthers
    <3>5. ASSUME NEW d \in Clerks, NEW e \in Clerks, d # e PROVE NumbersApart(d, e)'
      BY <3>1, <3>5 DEF RegInv, NumbersApart
    <3>6. Keyed'
      BY <3>1, KeyedKept
    <3> QED  BY <3>2, <3>3, <3>4, <3>5, <3>6 DEF RegInv
  <2>2. ASSUME NEW c \in Clerks, NEW candidates \in SUBSET Register!Members,
               NEW recent \in SUBSET candidates,
               Register!ScoreCandidates(c, candidates, recent)
        PROVE  RegInv'
    BY <2>2, ScoreCandidatesInv
  <2> QED
    BY <2>1, <2>2, BeginRegistrationInv, InsertKeyInv, DrawNumberInv,
       InsertRecordInv, CommitRegistrationInv, AbortInv, ResolveInv, NewYearInv
       DEF Register!RegistryNext
<1> QED  BY <1>1, RegistryInitInv, PTL DEF RegistrySpec

\* A behaviour of the front office is one of the register.
LEMMA RegistryPart == Spec => RegistrySpec
<1>1. Init => Register!RegistryInit
  BY DEF Init
<1>2. [Next]_vars => [Register!RegistryNext]_register
  BY DEF Next, vars
<1> QED  BY <1>1, <1>2, PTL DEF Spec, RegistrySpec

\* DuplicatesFlagged (field-data-service): in every behaviour of the front office,
\* whoever registers whom.
THEOREM DuplicatesFlaggedAlways == Spec => []DuplicatesFlagged
<1>1. RegInv => DuplicatesFlagged
  BY DEF RegInv, DuplicatesFlagged
<1> QED  BY <1>1, RegistryPart, RegistryInvariance, PTL

\* LostKeysBounded (field-data-service): in every behaviour of the front office.
\* The records that are lost are each of another clerk, and of none whose key is
\* the tenant's.
THEOREM LostKeysBoundedAlways == Spec => []LostKeysBounded
<1>1. RegInv => LostKeysBounded
  <2> SUFFICES ASSUME RegInv PROVE Register!LostKeysBounded
    BY DEF LostKeysBounded
  <2> DEFINE lost == {n \in Register!Members : sealed[n] # tenant_key}
             others == Clerks \ {tenant_key}
  <2>1. Keyed /\ tenant_key \in Clerks \cup {None}
    BY DEF RegInv, RegTyped, Register!RegistryTypeOK
  <2>2. Cardinality(Clerks) \in Nat \ {0}
    BY ClerksAssumption, FS_CardinalityType, FS_EmptySet
  <2>3. CASE tenant_key = None
    <3>1. lost = {}
      BY <2>1, <2>3 DEF Keyed
    <3> QED  BY <2>2, <3>1, FS_EmptySet, RegisterCard
                DEF Register!LostKeysBounded
  <2>4. CASE tenant_key # None
    <3>1. IsFiniteSet(others) /\ Cardinality(others) = Cardinality(Clerks) - 1
      BY <2>1, <2>4, ClerksAssumption, FS_RemoveElement
    <3> DEFINE key == [n \in lost |-> sealed[n]]
    <3>2. key \in Injection(lost, others)
      BY <2>1 DEF Keyed, Injection, IsInjective
    <3>3. Cardinality(lost) <= Cardinality(others) /\ IsFiniteSet(lost)
      BY <3>1, <3>2, FS_Injection
    <3>4. Cardinality(lost) \in Nat
      BY <3>3, FS_CardinalityType
    <3> HIDE DEF lost, others
    <3>5. Cardinality(lost) < Cardinality(Clerks)
      BY <2>2, <3>1, <3>3, <3>4
    <3> QED  BY <3>5, RegisterCard DEF Register!LostKeysBounded, lost
  <2> QED  BY <2>3, <2>4
<1> QED  BY <1>1, RegistryPart, RegistryInvariance, PTL
-----------------------------------------------------------------------------
(***************************************************************************)
(* Tables for donors.  What is hidden depends on which counts are small,   *)
(* not on how small they are, and nothing that is published is added up    *)
(* from a count that is hidden.                                            *)
(***************************************************************************)
\* Tables with the same counts but for small ones that stay small.
Alter(t, u) ==
  /\ \A x \in Donors!Cells : t[x] \in Int /\ u[x] \in Int
  /\ \A x \in Donors!Cells : u[x] = t[x] \/ (t[x] \in 1..(K - 1) /\ u[x] \in 1..(K - 1))

\* What is small stays small, and the rest stays as it is.
LEMMA FewStay ==
  ASSUME NEW t, NEW u, Alter(t, u), K \in Int
  PROVE  /\ Donors!Few(u) = Donors!Few(t)
         /\ \A x \in Donors!Cells \ Donors!Few(t) : u[x] = t[x]
BY DEF Alter, Donors!Few

\* What a row hides as well is chosen among counts that did not change.
LEMMA ComplementStays ==
  ASSUME NEW t, NEW u, Alter(t, u), K \in Int
  PROVE  Donors!Complement(u) = Donors!Complement(t)
<1>1. \A r : Donors!NextSmallest(u, r) = Donors!NextSmallest(t, r)
  <2> SUFFICES ASSUME NEW r PROVE Donors!NextSmallest(u, r) = Donors!NextSmallest(t, r)
    OBVIOUS
  <2> DEFINE rest(v) == {x \in Donors!Row(r) \ Donors!Few(v) : v[x] > 0}
  <2>1. \A x \in Donors!Row(r) \ Donors!Few(t) : u[x] = t[x]
    BY FewStay DEF Donors!Row
  <2>2. rest(u) = rest(t)
    BY <2>1, FewStay
  <2>3. \A x \in rest(t) : u[x] = t[x]
    BY <2>1
  <2>4. PICK R : R = rest(t)
    OBVIOUS
  <2>5. \A x : x \in Donors!NextSmallest(t, r) <=>
          x \in R /\ \A y \in R : t[x] < t[y] \/ (t[x] = t[y] /\ x[2] <= y[2])
    BY <2>4 DEF Donors!NextSmallest
  <2>6. \A x : x \in Donors!NextSmallest(u, r) <=>
          x \in R /\ \A y \in R : u[x] < u[y] \/ (u[x] = u[y] /\ x[2] <= y[2])
    BY <2>2, <2>4 DEF Donors!NextSmallest
  <2>7. \A x \in R : u[x] = t[x]
    BY <2>3, <2>4
  <2>8. \A x : x \in Donors!NextSmallest(u, r) <=> x \in Donors!NextSmallest(t, r)
    BY <2>5, <2>6, <2>7
  <2> QED  BY <2>8 DEF Donors!NextSmallest
<1> QED  BY <1>1, FewStay DEF Donors!Complement

\* Neither a count that is shown nor a total has a part in what changed.
LEMMA SuppressedStays ==
  ASSUME NEW t, NEW u, Alter(t, u), K \in Int
  PROVE  Donors!Suppressed(u) = Donors!Suppressed(t)
<1>1. /\ Donors!Few(u) = Donors!Few(t) /\ Donors!Complement(u) = Donors!Complement(t)
      /\ Donors!Hidden(u) = Donors!Hidden(t)
  BY FewStay, ComplementStays DEF Donors!Hidden
<1>2. \A x \in Donors!Cells \ Donors!Hidden(t) : u[x] = t[x]
  BY FewStay DEF Donors!Hidden
<1>3. ASSUME NEW S \in SUBSET (Donors!Cells \ Donors!Hidden(t))
      PROVE  Donors!Total(u, S) = Donors!Total(t, S)
  <2>1. [x \in S |-> u[x]] = [x \in S |-> t[x]]
    BY <1>2
  <2> QED  BY <2>1 DEF Donors!Total, Donors!Restrict
<1>4. [x \in Donors!Cells \ Donors!Hidden(t) |-> u[x]]
        = [x \in Donors!Cells \ Donors!Hidden(t) |-> t[x]]
  BY <1>2
<1>5. Donors!ColumnTotals(u) = Donors!ColumnTotals(t)
  <2>1. \A c : Donors!Column(c) \ Donors!Hidden(t) \subseteq Donors!Cells \ Donors!Hidden(t)
    BY DEF Donors!Column
  <2>2. \A c : Donors!Total(u, Donors!Column(c) \ Donors!Hidden(t))
                = Donors!Total(t, Donors!Column(c) \ Donors!Hidden(t))
    BY <1>3, <2>1
  <2> QED  BY <1>1, <2>2 DEF Donors!ColumnTotals
<1>6. \A r : Donors!Row(r) \cap Donors!Hidden(t) = {} =>
               Donors!Total(u, Donors!Row(r)) = Donors!Total(t, Donors!Row(r))
  <2>1. \A r : Donors!Row(r) \cap Donors!Hidden(t) = {} =>
                 Donors!Row(r) \in SUBSET (Donors!Cells \ Donors!Hidden(t))
    BY DEF Donors!Row
  <2> QED  BY <1>3, <2>1
<1>7. Donors!Total(u, Donors!Cells \ Donors!Hidden(t))
        = Donors!Total(t, Donors!Cells \ Donors!Hidden(t))
  BY <1>3
<1> DEFINE whole == {r \in 1 .. Rows : Donors!Row(r) \cap Donors!Hidden(t) = {}}
<1>8. [r \in whole |-> Donors!Total(u, Donors!Row(r))]
        = [r \in whole |-> Donors!Total(t, Donors!Row(r))]
  BY <1>6
<1>9. \A v : Donors!Hidden(v) = Donors!Hidden(t) =>
        Donors!Suppressed(v) =
          [few |-> Donors!Few(v), suppressed |-> Donors!Complement(v),
           counts |-> [x \in Donors!Cells \ Donors!Hidden(t) |-> v[x]],
           row_totals |-> [r \in whole |-> Donors!Total(v, Donors!Row(r))],
           col_totals |-> Donors!ColumnTotals(v),
           grand_total |-> Donors!Total(v, Donors!Cells \ Donors!Hidden(t))]
  BY DEF Donors!Suppressed
<1> QED  BY <1>1, <1>4, <1>5, <1>7, <1>8, <1>9

\* What is published is a table of counts.
LEMMA DonorTables == Spec => []Donors!KTypeOK
<1>1. Init => Donors!KTypeOK
  BY DEF Init, Donors!KInit, Donors!KTypeOK
<1>2. Donors!KTypeOK /\ [Next]_vars => Donors!KTypeOK'
  <2>1. [Next]_vars => Donors!KNext \/ UNCHANGED table
    BY DEF Next, vars
  <2> QED  BY <2>1 DEF Donors!KNext, Donors!KTypeOK, Donors!PublishPreview
<1> QED  BY <1>1, <1>2, PTL DEF Spec

\* NotDerivable (suppressAggregate, packages/k-anonymity): in every behaviour of
\* the front office.
THEOREM NotDerivableAlways == Spec => []NotDerivable
<1>1. Donors!KTypeOK => NotDerivable
  <2> SUFFICES ASSUME Donors!KTypeOK, table # NoTable,
                      NEW x \in Donors!Few(table), NEW n \in (1 .. K - 1) \ {table[x]}
               PROVE  Donors!Suppressed([table EXCEPT ![x] = n]) = Donors!Suppressed(table)
    BY DEF NotDerivable, Donors!NotDerivable
  <2>1. table \in [Donors!Cells -> 0 .. MaxCount] /\ x \in Donors!Cells
    BY DEF Donors!KTypeOK, Donors!Tables, Donors!Few
  <2>2. table[x] > 0 /\ table[x] < K
    BY DEF Donors!Few
  <2>3. Alter(table, [table EXCEPT ![x] = n])
    BY <2>1, <2>2, TableAssumption DEF Alter
  <2> QED  BY <2>3, SuppressedStays, TableAssumption
<1> QED  BY <1>1, DonorTables, PTL
-----------------------------------------------------------------------------
(***************************************************************************)
(* Signing in.  A state is open, or one callback at most has taken it:     *)
(* oidc/start draws what nobody has, and taking removes it.                *)
(***************************************************************************)
SignInSpec == Sign!SignInInit /\ [][Sign!SignInNext]_signing

\* What a callback has taken, and what its sessions came from.
Took == [state : States \cup {NoState}, taken : 0..MaxNow]
Has(c, s) == callback[c].state = s \/ \E x \in sessions[c] : x.state = s

SignTyped ==
  /\ minute \in 1..MaxNow
  /\ pending \in [States -> 1..Sign!Absent]
  /\ tenantOpen \in BOOLEAN /\ userOpen \in BOOLEAN
  /\ phase \in [Callbacks -> {"idle", "taken", "tenant", "known"}]
  /\ callback \in [Callbacks -> Took] /\ sessions \in [Callbacks -> SUBSET Took]

StateSound(s) ==
  /\ Sign!IsPending(s) => pending[s] <= minute /\ \A c \in Callbacks : ~ Has(c, s)
  /\ \A c, d \in Callbacks : Has(c, s) /\ Has(d, s) => c = d

InTime(c) ==
  callback[c].taken <= Sign!Ttl /\ \A x \in sessions[c] : x.taken <= Sign!Ttl

SignInv ==
  /\ SignTyped
  /\ \A s \in States : StateSound(s)
  /\ \A c \in Callbacks : InTime(c)

\* The cardinality of the sign-in is that of the library.
LEMMA SignCard == \A S : Sign!Cardinality(S) = Cardinality(S)
BY DEF Sign!Cardinality, Cardinality

\* Nobody signs in to begin with, and no state is open.
LEMMA SignInitInv == Sign!SignInInit => SignInv
<1> SUFFICES ASSUME Sign!SignInInit PROVE SignInv
  OBVIOUS
<1>1. [state |-> NoState, taken |-> 0] \in Took /\ Sign!Absent \in 1..Sign!Absent
  BY StatesAssumption DEF Took, Sign!Absent
<1>2. SignTyped
  BY <1>1, StatesAssumption DEF Sign!SignInInit, SignTyped
<1>3. \A s \in States : StateSound(s)
  BY StatesAssumption DEF Sign!SignInInit, StateSound, Has, Sign!IsPending
<1>4. \A c \in Callbacks : InTime(c)
  BY DEF Sign!SignInInit, InTime, Sign!Ttl
<1> QED  BY <1>2, <1>3, <1>4 DEF SignInv

\* A step that opens nothing, and takes nothing.
LEMMA SignKept ==
  ASSUME SignInv, minute' \in minute..MaxNow, pending' \in [States -> 1..Sign!Absent],
         tenantOpen' \in BOOLEAN, userOpen' \in BOOLEAN,
         phase' \in [Callbacks -> {"idle", "taken", "tenant", "known"}],
         callback' \in [Callbacks -> Took], sessions' \in [Callbacks -> SUBSET Took],
         \A s \in States : pending'[s] \in {pending[s], Sign!Absent},
         \A c \in Callbacks, s \in States : Has(c, s)' => Has(c, s),
         \A c \in Callbacks : InTime(c)'
  PROVE  SignInv'
<1>1. SignTyped'
  BY DEF SignInv, SignTyped, Sign!Absent
<1>2. ASSUME NEW s \in States PROVE StateSound(s)'
  <2>1. Sign!IsPending(s)' => Sign!IsPending(s) /\ pending'[s] = pending[s]
    BY DEF Sign!IsPending, Sign!Absent
  <2>2. minute \in Nat /\ minute' \in Nat /\ minute <= minute' /\ pending[s] \in Nat
    BY StatesAssumption DEF SignInv, SignTyped, Sign!Absent
  <2> QED  BY <2>1, <2>2 DEF SignInv, StateSound
<1> QED  BY <1>1, <1>2 DEF SignInv

\* A state is drawn that is not open and that nobody has.
LEMMA DrawInv ==
  ASSUME SignInv, NEW s \in States, NEW kept, kept \in {pending, Sign!Pruned},
         Sign!Draw(s, kept)
  PROVE  SignInv'
<1>1. /\ \A c \in Callbacks : ~ Has(c, s)
      /\ pending' = [kept EXCEPT ![s] = minute]
      /\ UNCHANGED <<minute, tenantOpen, userOpen, callback, phase, sessions>>
  BY DEF Sign!Draw, Has
<1>2. /\ minute \in 1..MaxNow /\ MaxNow \in Nat /\ minute \in 1..Sign!Absent
      /\ Sign!Absent \in 1..Sign!Absent
  BY StatesAssumption DEF SignInv, SignTyped, Sign!Absent
<1>3. /\ kept \in [States -> 1..Sign!Absent]
      /\ \A t \in States : kept[t] \in {pending[t], Sign!Absent}
  BY <1>2 DEF SignInv, SignTyped, Sign!Pruned
<1>4. pending' \in [States -> 1..Sign!Absent] /\ pending'[s] = minute
  BY <1>1, <1>2, <1>3
<1>5. \A t \in States \ {s} : pending'[t] \in {pending[t], Sign!Absent}
  BY <1>1, <1>3
<1>6. SignTyped'
  BY <1>1, <1>4 DEF SignInv, SignTyped, Sign!Absent
<1>7. ASSUME NEW t \in States PROVE StateSound(t)'
  <2>1. StateSound(t)
    BY DEF SignInv
  <2>2. \A c \in Callbacks : Has(c, t)' <=> Has(c, t)
    BY <1>1 DEF Has
  <2>3. CASE t = s
    BY <1>1, <1>2, <1>4, <2>1, <2>2, <2>3 DEF StateSound
  <2>4. CASE t # s
    <3>1. Sign!IsPending(t)' => Sign!IsPending(t) /\ pending'[t] = pending[t]
      BY <1>5, <2>4 DEF Sign!IsPending, Sign!Absent
    <3> QED  BY <1>1, <2>1, <2>2, <3>1 DEF StateSound
  <2> QED  BY <2>3, <2>4
<1>8. \A c \in Callbacks : InTime(c)'
  BY <1>1 DEF SignInv, InTime, Sign!Ttl
<1> QED  BY <1>6, <1>7, <1>8 DEF SignInv

\* A state is taken in its time, and is open no more.
LEMMA TakeStateInv ==
  ASSUME SignInv, NEW c \in Callbacks, NEW s \in States, Sign!TakeState(c, s)
  PROVE  SignInv'
<1> DEFINE age == minute - pending[s]
<1>1. /\ Sign!IsPending(s) /\ ~ Sign!Expired(s)
      /\ pending' = [pending EXCEPT ![s] = Sign!Absent]
      /\ callback' = [callback EXCEPT ![c] = [state |-> s, taken |-> age]]
      /\ phase' = [phase EXCEPT ![c] = "taken"]
      /\ UNCHANGED <<minute, tenantOpen, userOpen, sessions>>
  BY DEF Sign!TakeState
<1>2. /\ minute \in 1..MaxNow /\ MaxNow \in Nat /\ Sign!Absent \in 1..Sign!Absent
      /\ pending[s] \in 1..Sign!Absent /\ pending[s] <= minute
  BY <1>1, StatesAssumption DEF SignInv, SignTyped, StateSound, Sign!Absent
<1>3. age \in 0..MaxNow /\ age <= Sign!Ttl
  BY <1>1, <1>2 DEF Sign!Expired, Sign!Ttl, Sign!Absent
<1> HIDE DEF age
<1>4. [state |-> s, taken |-> age] \in Took
  BY <1>3 DEF Took
<1>5. SignTyped'
  BY <1>1, <1>2, <1>4 DEF SignInv, SignTyped, Sign!Absent
<1>6. /\ callback'[c] = [state |-> s, taken |-> age]
      /\ \A d \in Callbacks \ {c} : callback'[d] = callback[d]
      /\ pending'[s] = Sign!Absent
      /\ \A t \in States \ {s} : pending'[t] = pending[t]
  BY <1>1 DEF SignInv, SignTyped
<1>7. ASSUME NEW t \in States PROVE StateSound(t)'
  <2>1. StateSound(t)
    BY DEF SignInv
  <2>2. CASE t = s
    <3>1. \A d \in Callbacks : ~ Has(d, s)
      BY <1>1 DEF SignInv, StateSound
    <3>2. ~ Sign!IsPending(s)'
      BY <1>6 DEF Sign!IsPending, Sign!Absent
    <3>3. \A d \in Callbacks \ {c} : ~ Has(d, s)'
      BY <1>1, <1>6, <3>1 DEF Has
    <3> QED  BY <2>2, <3>2, <3>3 DEF StateSound
  <2>3. CASE t # s
    <3>1. \A d \in Callbacks : Has(d, t)' => Has(d, t)
      BY <1>1, <1>6, <2>3 DEF Has
    <3>2. Sign!IsPending(t)' => Sign!IsPending(t) /\ pending'[t] = pending[t]
      BY <1>6, <2>3 DEF Sign!IsPending, Sign!Absent
    <3> QED  BY <1>1, <2>1, <3>1, <3>2 DEF StateSound
  <2> QED  BY <2>2, <2>3
<1>8. ASSUME NEW d \in Callbacks PROVE InTime(d)'
  BY <1>1, <1>3, <1>6 DEF SignInv, InTime, Sign!Ttl
<1> QED  BY <1>5, <1>7, <1>8 DEF SignInv

\* A login without a provider has no state.
LEMMA LoginInv ==
  ASSUME SignInv, NEW c \in Callbacks, Sign!Login(c)
  PROVE  SignInv'
<1> DEFINE none == [state |-> NoState, taken |-> 0]
<1>1. /\ callback' = [callback EXCEPT ![c] = none]
      /\ phase' = [phase EXCEPT ![c] = "taken"]
      /\ UNCHANGED <<minute, pending, tenantOpen, userOpen, sessions>>
  BY DEF Sign!Login
<1>2. none \in Took /\ none.taken = 0 /\ none.state = NoState
  BY StatesAssumption DEF Took
<1> HIDE DEF none
<1>3. /\ callback' \in [Callbacks -> Took] /\ callback'[c] = none
      /\ \A d \in Callbacks \ {c} : callback'[d] = callback[d]
      /\ phase' \in [Callbacks -> {"idle", "taken", "tenant", "known"}]
  BY <1>1, <1>2 DEF SignInv, SignTyped
<1>4. \A d \in Callbacks, s \in States : Has(d, s)' => Has(d, s)
  BY <1>1, <1>2, <1>3, StatesAssumption DEF Has
<1>5. \A d \in Callbacks : InTime(d)'
  BY <1>1, <1>2, <1>3 DEF SignInv, InTime, Sign!Ttl
<1>6. minute' \in minute..MaxNow
  BY <1>1, StatesAssumption DEF SignInv, SignTyped
<1> QED  BY <1>1, <1>3, <1>4, <1>5, <1>6, SignKept DEF SignInv, SignTyped

\* A callback goes on to another phase, or gives up: what it issues is what it
\* has taken.
LEMMA SignStepInv ==
  ASSUME SignInv, NEW c \in Callbacks,
         \/ Sign!ReadTenant(c) \/ Sign!Identify(c) \/ Sign!Issue(c) \/ Sign!Refuse(c)
  PROVE  SignInv'
<1>1. PICK to \in {"idle", "tenant", "known"} :
        /\ phase' = [phase EXCEPT ![c] = to]
        /\ UNCHANGED <<minute, pending, tenantOpen, userOpen, callback>>
        /\ sessions' \in {sessions, [sessions EXCEPT ![c] = @ \cup {callback[c]}]}
  BY DEF Sign!ReadTenant, Sign!Identify, Sign!Issue, Sign!Refuse, Sign!Step
<1>2. /\ phase' \in [Callbacks -> {"idle", "taken", "tenant", "known"}]
      /\ sessions' \in [Callbacks -> SUBSET Took]
      /\ \A d \in Callbacks : sessions'[d] \subseteq sessions[d] \cup {callback[d]}
  BY <1>1 DEF SignInv, SignTyped
<1>3. \A d \in Callbacks, s \in States : Has(d, s)' => Has(d, s)
  BY <1>1, <1>2 DEF Has
<1>4. \A d \in Callbacks : InTime(d)'
  BY <1>1, <1>2 DEF SignInv, InTime, Sign!Ttl
<1>5. minute' \in minute..MaxNow
  BY <1>1, StatesAssumption DEF SignInv, SignTyped
<1> QED  BY <1>1, <1>2, <1>3, <1>4, <1>5, SignKept DEF SignInv, SignTyped

\* The process restarts, somebody is shut out, or time passes.
LEMMA SignOthersInv ==
  ASSUME SignInv, Sign!RestartAuth \/ Sign!Close \/ Sign!Tick
  PROVE  SignInv'
<1>1. /\ UNCHANGED <<callback, sessions>>
      /\ minute' \in minute..MaxNow
      /\ pending' \in [States -> 1..Sign!Absent]
      /\ \A s \in States : pending'[s] \in {pending[s], Sign!Absent}
      /\ tenantOpen' \in BOOLEAN /\ userOpen' \in BOOLEAN
      /\ phase' \in [Callbacks -> {"idle", "taken", "tenant", "known"}]
  <2>1. minute \in 1..MaxNow /\ MaxNow \in Nat /\ Sign!Absent \in 1..Sign!Absent
    BY StatesAssumption DEF SignInv, SignTyped, Sign!Absent
  <2>2. CASE Sign!RestartAuth
    BY <2>1, <2>2 DEF Sign!RestartAuth, SignInv, SignTyped
  <2>3. CASE Sign!Close
    <3>1. UNCHANGED <<minute, pending, callback, phase, sessions>>
      BY <2>3 DEF Sign!Close
    <3>2. tenantOpen' \in BOOLEAN /\ userOpen' \in BOOLEAN
      BY <2>3, Zenon DEF Sign!Close, SignInv, SignTyped
    <3> QED  BY <2>1, <3>1, <3>2 DEF SignInv, SignTyped
  <2>4. CASE Sign!Tick
    BY <2>1, <2>4 DEF Sign!Tick, SignInv, SignTyped
  <2> QED  BY <2>2, <2>3, <2>4
<1>2. \A c \in Callbacks, s \in States : Has(c, s)' => Has(c, s)
  BY <1>1 DEF Has
<1>3. \A c \in Callbacks : InTime(c)'
  BY <1>1 DEF SignInv, InTime, Sign!Ttl
<1> QED  BY <1>1, <1>2, <1>3, SignKept DEF SignInv, SignTyped

\* In every behaviour of the sign-in (auth-service).
THEOREM SignInInvariance == SignInSpec => []SignInv
<1>1. SignInv /\ [Sign!SignInNext]_signing => SignInv'
  <2> SUFFICES ASSUME SignInv, [Sign!SignInNext]_signing PROVE SignInv'
    OBVIOUS
  <2>1. CASE UNCHANGED signing
    <3>1. UNCHANGED <<minute, pending, tenantOpen, userOpen, callback, phase, sessions>>
      BY <2>1 DEF signing
    <3>2. minute' \in minute..MaxNow
      BY <3>1, StatesAssumption DEF SignInv, SignTyped
    <3>3. \A c \in Callbacks, s \in States : Has(c, s)' => Has(c, s)
      BY <3>1 DEF Has
    <3>4. \A c \in Callbacks : InTime(c)'
      BY <3>1 DEF SignInv, InTime, Sign!Ttl
    <3> QED  BY <3>1, <3>2, <3>3, <3>4, SignKept DEF SignInv, SignTyped
  <2>2. ASSUME NEW s \in States, Sign!StartWithProvider(s) \/ Sign!StartStub(s)
        PROVE  SignInv'
    BY <2>2, DrawInv DEF Sign!StartWithProvider, Sign!StartStub
  <2> QED
    BY <2>1, <2>2, TakeStateInv, LoginInv, SignStepInv, SignOthersInv
       DEF Sign!SignInNext
<1> QED  BY <1>1, SignInitInv, PTL DEF SignInSpec

\* A state is good for one session: who has it is one callback at most.
LEMMA SessionsHold == SignInv => Sign!OneSessionPerState
<1> SUFFICES ASSUME SignInv, NEW s \in States
             PROVE  /\ Cardinality({c \in Callbacks : \E x \in sessions[c] : x.state = s}) <= 1
                    /\ \A c \in Callbacks : \A x \in sessions[c] : x.taken <= Sign!Ttl
  BY SignCard DEF Sign!OneSessionPerState
<1> DEFINE holders == {c \in Callbacks : \E x \in sessions[c] : x.state = s}
<1>1. \A c, d \in holders : c = d
  BY DEF SignInv, StateSound, Has
<1>2. CASE holders = {}
  BY <1>2, FS_EmptySet DEF SignInv, InTime
<1>3. ASSUME NEW c \in holders PROVE Cardinality(holders) = 1
  <2>1. holders = {c}
    BY <1>1
  <2> QED  BY <2>1, FS_Singleton
<1> QED  BY <1>2, <1>3 DEF SignInv, InTime
-----------------------------------------------------------------------------
(***************************************************************************)
(* The session in the browser.  A page that is guarded is shown by the     *)
(* guard alone, which decides with the token it then stays with; and a     *)
(* token and a configuration change together, or the tab is noted.         *)
(***************************************************************************)
SessionSpec == Browser!SessionInit /\ [][Browser!SessionNext]_session

\* The stores are those of the tabs.
Stored ==
  /\ token = [t \in Tabs |-> token[t]] /\ config = [t \in Tabs |-> config[t]]
  /\ page = [t \in Tabs |-> page[t]]

MayOpen(k, p) ==
  p \in Browser!Guarded => k # Nobody /\ Browser!CanAny(k, Browser!Routes[p].permissions)
Belongs(c, k) == c.of \in {Nobody, Browser!Owner(k)}

SessInv ==
  /\ Stored
  /\ \A t \in Tabs : MayOpen(token[t], page[t])
  /\ \A t \in Tabs \ mixed : Belongs(config[t], token[t])

\* The pages that need a permission.
LEMMA PagesGuarded ==
  Browser!Guarded = {"grants", "reports", "finance", "employees", "leave", "payroll",
                     "field", "training", "notifications", "intelligence", "ai",
                     "compliance", "webhooks", "home", "designSystem"}
BY DEF Browser!Guarded, Browser!Routes

\* Nobody needs a permission for where the guard leads instead.
LEMMA PagesFree ==
  \A p \in {"login", "callback", "blank", "suspended", "unavailable", "forbidden"} :
    p \notin Browser!Guarded
BY PagesGuarded

\* What the navigation asks for is what the router asks for.
LEMMA NavigationAgrees ==
  /\ DOMAIN Browser!Navigation = Browser!Guarded
  /\ \A p \in Browser!Guarded : Browser!Navigation[p] = Browser!Routes[p]
BY DEF Browser!Guarded, Browser!Routes, Browser!Navigation

\* The guard opens a page to whom it is open.
LEMMA DecisionOpens ==
  ASSUME NEW p, NEW k, NEW c
  PROVE  MayOpen(k, Browser!Decision(p, k, c))
BY PagesFree DEF MayOpen, Browser!Decision

\* Nobody has a session to begin with.
LEMMA SessInitInv == Browser!SessionInit => SessInv
BY PagesFree
   DEF Browser!SessionInit, SessInv, Stored, MayOpen, Belongs, Browser!Default

\* A step of the tab t.
LEMMA SessionTabInv ==
  ASSUME SessInv, NEW t \in Tabs, NEW k, NEW c, NEW p,
         token' = token \/ token' = [token EXCEPT ![t] = k], token'[t] = k,
         config' = config \/ config' = [config EXCEPT ![t] = c], config'[t] = c,
         page' = page \/ page' = [page EXCEPT ![t] = p], page'[t] = p,
         MayOpen(k, p),
         \A u \in Tabs \ {t} : u \notin mixed' => u \notin mixed,
         t \notin mixed' => Belongs(c, k)
  PROVE  SessInv'
<1>1. Stored
  BY DEF SessInv
<1>2. Stored'
  BY <1>1 DEF Stored
<1>3. \A u \in Tabs \ {t} :
          token'[u] = token[u] /\ config'[u] = config[u] /\ page'[u] = page[u]
  BY <1>1 DEF Stored
<1>4. ASSUME NEW u \in Tabs PROVE MayOpen(token'[u], page'[u])
  <2>1. CASE u = t
    BY <2>1
  <2>2. CASE u # t
    BY <1>3, <2>2 DEF SessInv
  <2> QED  BY <2>1, <2>2
<1>5. ASSUME NEW u \in Tabs, u \notin mixed' PROVE Belongs(config'[u], token'[u])
  <2>1. CASE u = t
    BY <1>5, <2>1
  <2>2. CASE u # t
    BY <1>3, <1>5, <2>2 DEF SessInv
  <2> QED  BY <2>1, <2>2
<1>6. \A u \in Tabs : MayOpen(token[u], page[u])'
  BY <1>4 DEF MayOpen
<1>7. \A u \in Tabs \ mixed' : Belongs(config[u], token[u])'
  BY <1>5 DEF Belongs
<1> QED  BY <1>2, <1>6, <1>7 DEF SessInv

\* A step that leaves the stores and what is on screen as they are.
LEMMA SessKept ==
  ASSUME SessInv, UNCHANGED <<token, config, page, mixed>>
  PROVE  SessInv'
BY DEF SessInv, Stored, MayOpen, Belongs

\* Where the guard leads, the session in use may go.
LEMMA GuardInv ==
  ASSUME SessInv, NEW t \in Tabs, NEW c, NEW p, NEW l, NEW calling,
         UNCHANGED token,
         config' = config \/ config' = [config EXCEPT ![t] = c], config'[t] = c,
         \/ Browser!Guard(t, p, token[t], c, l, calling)
         \/ UNCHANGED page,
         \A u \in Tabs \ {t} : u \notin mixed' => u \notin mixed,
         t \notin mixed' => Belongs(c, token[t])
  PROVE  SessInv'
<1>1. PICK k : k = token[t]
  OBVIOUS
<1>2. (token' = token \/ token' = [token EXCEPT ![t] = k]) /\ token'[t] = k
  BY <1>1
<1>3. CASE UNCHANGED page
  <2>1. PICK q : q = page[t]
    OBVIOUS
  <2>2. (page' = page \/ page' = [page EXCEPT ![t] = q]) /\ page'[t] = q /\ MayOpen(k, q)
    BY <1>1, <1>3, <2>1 DEF SessInv
  <2> QED  BY <1>1, <1>2, <2>2, SessionTabInv
<1>4. CASE page' = [page EXCEPT ![t] = Browser!Decision(p, k, c)]
  <2>1. PICK q : q = Browser!Decision(p, k, c)
    OBVIOUS
  <2>2. page' = [page EXCEPT ![t] = q] /\ MayOpen(k, q)
    BY <1>4, <2>1, DecisionOpens
  <2>3. page'[t] = q
    BY <2>2 DEF SessInv, Stored
  <2> QED  BY <1>1, <1>2, <2>2, <2>3, SessionTabInv
<1> QED  BY <1>1, <1>3, <1>4 DEF Browser!Guard

\* Somebody signs in on a page that is not guarded.
LEMMA EstablishInv ==
  ASSUME SessInv, NEW t \in Tabs, NEW k \in Tokens,
         Browser!Login(t, k) \/ Browser!CompleteOidc(t, k)
  PROVE  SessInv'
<1>1. PICK c, p : c = config[t] /\ p = page[t]
  OBVIOUS
<1>2. /\ p \in {"login", "callback"} /\ token' = [token EXCEPT ![t] = k]
      /\ UNCHANGED <<config, page>> /\ Browser!Mixing(t, k, c)
  BY <1>1
     DEF Browser!Login, Browser!CompleteOidc, Browser!Establish, Browser!Persist
<1>3. token'[t] = k /\ config'[t] = c /\ page'[t] = p
  BY <1>1, <1>2 DEF SessInv, Stored
<1>4. MayOpen(k, p)
  BY <1>2, PagesFree DEF MayOpen
<1>5. /\ \A u \in Tabs \ {t} : u \notin mixed' => u \notin mixed
      /\ t \notin mixed' => Belongs(c, k)
  BY <1>2 DEF Browser!Mixing, Belongs
<1> QED  BY <1>2, <1>3, <1>4, <1>5, SessionTabInv

\* A page is loaded: the stores from localStorage, and nothing guarded yet.
LEMMA RestoreInv ==
  ASSUME SessInv, NEW t \in Tabs, Browser!Restore(t),
         NEW p, p \in {"login", "callback", "blank"},
         page' = [page EXCEPT ![t] = p]
  PROVE  SessInv'
<1>1. PICK k, c : k = keptToken /\ c = keptConfig
  OBVIOUS
<1>2. /\ token' = [token EXCEPT ![t] = k] /\ config' = [config EXCEPT ![t] = c]
      /\ Browser!Mixing(t, k, c)
  BY <1>1 DEF Browser!Restore
<1>3. token'[t] = k /\ config'[t] = c /\ page'[t] = p
  BY <1>2 DEF SessInv, Stored
<1>4. MayOpen(k, p)
  BY PagesFree DEF MayOpen
<1>5. /\ \A u \in Tabs \ {t} : u \notin mixed' => u \notin mixed
      /\ t \notin mixed' => Belongs(c, k)
  BY <1>2 DEF Browser!Mixing, Belongs
<1> QED  BY <1>2, <1>3, <1>4, <1>5, SessionTabInv

\* The session ends: no token, no configuration, and the login page.
LEMMA ForgetInv ==
  ASSUME SessInv, NEW t \in Tabs, Browser!Forget(t),
         page' = [page EXCEPT ![t] = "login"]
  PROVE  SessInv'
<1>1. PICK k, c : k = Nobody /\ c = Browser!Default
  OBVIOUS
<1>2. /\ token' = [token EXCEPT ![t] = k] /\ config' = [config EXCEPT ![t] = c]
      /\ mixed' = mixed \ {t}
  BY <1>1 DEF Browser!Forget
<1>3. token'[t] = k /\ config'[t] = c /\ page'[t] = "login"
  BY <1>2 DEF SessInv, Stored
<1>4. MayOpen(k, "login") /\ Belongs(c, k)
  BY <1>1, PagesFree DEF MayOpen, Belongs, Browser!Default
<1> QED  BY <1>2, <1>3, <1>4, SessionTabInv

\* A bootstrap has been answered, and its configuration is taken or was kept.
LEMMA BootstrapInv ==
  ASSUME SessInv, NEW t \in Tabs, NEW a \in calls[t],
         Browser!TakeConfig(t, a) \/ Browser!KeepConfig(t, a)
  PROVE  SessInv'
<1>1. PICK c : /\ c = config'[t] /\ UNCHANGED token
               /\ (config' = config \/ config' = [config EXCEPT ![t] = c])
               /\ Browser!Proceed(t, a, token[t], c)
               /\ Browser!Mixing(t, token[t], c) \/ (UNCHANGED mixed /\ c = config[t])
  <2>1. CASE Browser!TakeConfig(t, a)
    <3>1. PICK c : c = a.body
      OBVIOUS
    <3>2. config' = [config EXCEPT ![t] = c]
      BY <2>1, <3>1 DEF Browser!TakeConfig
    <3>3. config'[t] = c
      BY <3>2 DEF SessInv, Stored
    <3> QED  BY <2>1, <3>1, <3>2, <3>3 DEF Browser!TakeConfig
  <2>2. CASE Browser!KeepConfig(t, a)
    BY <2>2 DEF Browser!KeepConfig
  <2> QED  BY <2>1, <2>2
<1>2. PICK p, l, calling : \/ Browser!Guard(t, p, token[t], c, l, calling)
                           \/ UNCHANGED page
  BY <1>1 DEF Browser!Proceed
<1>3. /\ \A u \in Tabs \ {t} : u \notin mixed' => u \notin mixed
      /\ t \notin mixed' => Belongs(c, token[t])
  BY <1>1 DEF Browser!Mixing, Belongs, SessInv
<1> QED  BY <1>1, <1>2, <1>3, GuardInv

\* A link is followed.
LEMMA NavigateInv ==
  ASSUME SessInv, NEW t \in Tabs, NEW p \in Visited, Browser!Navigate(t, p)
  PROVE  SessInv'
<1>1. PICK c, l, calling : c = config[t] /\ l = loaded[t] /\ calling = calls[t]
  OBVIOUS
<1>2. /\ Browser!Guard(t, p, token[t], c, l, calling)
      /\ UNCHANGED <<token, config, mixed>>
  BY <1>1 DEF Browser!Navigate
<1> QED  BY <1>1, <1>2, GuardInv DEF SessInv

\* In every behaviour of the session (stores/auth.ts, router.ts).
THEOREM SessionInvariance == SessionSpec => []SessInv
<1>1. SessInv /\ [Browser!SessionNext]_session => SessInv'
  <2> SUFFICES ASSUME SessInv, [Browser!SessionNext]_session PROVE SessInv'
    OBVIOUS
  <2>1. CASE UNCHANGED session
    BY <2>1, SessKept DEF session
  <2>2. ASSUME NEW t \in Tabs, NEW p \in Visited, Browser!Reload(t, p)
        PROVE  SessInv'
    <3>1. PICK q \in {"login", "blank"} : page' = [page EXCEPT ![t] = q]
      BY <2>2 DEF Browser!Reload
    <3>2. Browser!Restore(t)
      BY <2>2 DEF Browser!Reload
    <3> QED  BY <3>1, <3>2, RestoreInv
  <2>3. ASSUME NEW t \in Tabs, Browser!StartOidc(t) PROVE SessInv'
    BY <2>3, RestoreInv DEF Browser!StartOidc
  <2>4. ASSUME NEW t \in Tabs, Browser!Logout(t) PROVE SessInv'
    BY <2>4, ForgetInv DEF Browser!Logout
  <2>5. ASSUME NEW t \in Tabs, Browser!Fetch(t) PROVE SessInv'
    BY <2>5, SessKept DEF Browser!Fetch
  <2>6. ASSUME NEW t \in Tabs, NEW a \in calls[t],
               Browser!Answer(t, a) \/ Browser!TakeData(t, a)
        PROVE  SessInv'
    BY <2>6, SessKept DEF Browser!Answer, Browser!TakeData
  <2>7. ASSUME NEW t \in Tabs, NEW a \in calls[t], Browser!Evict(t, a) PROVE SessInv'
    BY <2>7, ForgetInv DEF Browser!Evict
  <2>8. CASE Browser!OtherTab \/ \E k \in Tokens : Browser!Expire(k)
    BY <2>8, SessKept DEF Browser!OtherTab, Browser!Expire
  <2> QED
    BY <2>1, <2>2, <2>3, <2>4, <2>5, <2>6, <2>7, <2>8, EstablishInv,
       BootstrapInv, NavigateInv
       DEF Browser!SessionNext
<1> QED  BY <1>1, SessInitInv, PTL DEF SessionSpec

\* What the session may open is open to it, from the navigation as well.
LEMMA SessionHolds == SessInv => Browser!SessionAgrees
<1> SUFFICES ASSUME SessInv, NEW t \in Tabs
             PROVE  /\ MayOpen(token[t], page[t])
                    /\ \A p \in DOMAIN Browser!Navigation :
                         /\ config[t].active
                         /\ Browser!Meets(Browser!Navigation[p], token[t], config[t])
                         /\ token[t] # Nobody
                         => Browser!Decision(p, token[t], config[t]) = p
                    /\ t \notin mixed => Belongs(config[t], token[t])
  BY DEF Browser!SessionAgrees, MayOpen, Belongs
<1>1. ASSUME NEW p \in Browser!Guarded, NEW k, NEW c, c.active, k # Nobody,
             Browser!Meets(Browser!Routes[p], k, c)
      PROVE  Browser!Decision(p, k, c) = p
  BY <1>1 DEF Browser!Meets, Browser!Decision
<1> QED  BY <1>1, NavigationAgrees DEF SessInv
-----------------------------------------------------------------------------
(***************************************************************************)
(* The types of the session.  A request carries the token that was in use, *)
(* which is there because what is on screen needs it; and every answer is  *)
(* a configuration of some tenant, or the one without any.                 *)
(***************************************************************************)
Request == [token : Tokens, by : Browser!Guarded \cup {"login", "page"},
            status : {"sent", "ok", "refused", "failed"}, body : Browser!Configs]

\* The type invariant, with the requests under way.
SessTyped ==
  /\ Browser!SessionTypeOK
  /\ calls \in [Tabs -> SUBSET Request]

\* Who has opened a tab has visited what the router guards.
LEMMA VisitedGuarded == Visited \subseteq Browser!Guarded
BY PagesGuarded DEF Visited

\* Without a configuration everything is on.
LEMMA DefaultConfig == Browser!Default \in Browser!Configs
BY DEF Browser!Configs

\* A request that is sent, whatever for.
LEMMA SentTyped ==
  ASSUME NEW k \in Tokens, NEW by \in Browser!Guarded \cup {"login", "page"}
  PROVE  Browser!Sent(k, by) \in Request
BY DefaultConfig DEF Browser!Sent, Request

\* No tab has a session to begin with.
LEMMA SessTypesInit == Browser!SessionInit => SessTyped
BY DefaultConfig
   DEF Browser!SessionInit, SessTyped, Browser!SessionTypeOK, Browser!Public

\* Where the guard leads is a page.
LEMMA DecisionTyped ==
  ASSUME NEW p \in Browser!Guarded, NEW k, NEW c
  PROVE  Browser!Decision(p, k, c) \in Browser!Guarded \cup Browser!Detours \cup Browser!Public
BY DEF Browser!Decision, Browser!Detours, Browser!Public

\* The types of what the guard writes.
LEMMA GuardTyped ==
  ASSUME SessTyped, NEW t \in Tabs, NEW p \in Browser!Guarded,
         NEW k \in Tokens \cup {Nobody}, NEW c, NEW l, NEW S \in SUBSET Request,
         Browser!Guard(t, p, k, c, l, S)
  PROVE  /\ page' \in [Tabs -> Browser!Guarded \cup Browser!Detours \cup Browser!Public \cup {"blank"}]
         /\ going' \in [Tabs -> Browser!Guarded \cup {Nobody}]
         /\ calls' \in [Tabs -> SUBSET Request]
<1>1. SessTyped
  OBVIOUS
<1>2. CASE l \/ k = Nobody
  <2>1. PICK q : q = Browser!Decision(p, k, c)
    OBVIOUS
  <2>2. q \in Browser!Guarded \cup Browser!Detours \cup Browser!Public
    BY <2>1, DecisionTyped
  <2>3. /\ page' = [page EXCEPT ![t] = q] /\ going' = [going EXCEPT ![t] = Nobody]
        /\ calls' = [calls EXCEPT ![t] = S]
    BY <1>2, <2>1 DEF Browser!Guard
  <2> QED  BY <1>1, <2>2, <2>3 DEF SessTyped, Browser!SessionTypeOK
<1>3. CASE ~ (l \/ k = Nobody)
  <2>1. PICK d : d = Browser!Sent(k, p)
    OBVIOUS
  <2>2. d \in Request
    BY <1>3, <2>1, SentTyped
  <2>3. /\ UNCHANGED page /\ going' = [going EXCEPT ![t] = p]
        /\ calls' = [calls EXCEPT ![t] = S \cup {d}]
    BY <1>3, <2>1 DEF Browser!Guard
  <2> QED  BY <1>1, <2>2, <2>3 DEF SessTyped, Browser!SessionTypeOK
<1> QED  BY <1>2, <1>3

\* The stores that a page is loaded with.
LEMMA RestoreTyped ==
  ASSUME SessTyped, NEW t \in Tabs, Browser!Restore(t)
  PROVE  /\ expired' \subseteq Tokens /\ mixed' \subseteq Tabs
         /\ token' \in [Tabs -> Tokens \cup {Nobody}] /\ keptToken' \in Tokens \cup {Nobody}
         /\ config' \in [Tabs -> Browser!Configs] /\ keptConfig' \in Browser!Configs
         /\ loaded' \in [Tabs -> BOOLEAN]
BY DEF SessTyped, Browser!SessionTypeOK, Browser!Restore, Browser!Mixing

\* The stores that a session leaves.
LEMMA ForgetTyped ==
  ASSUME SessTyped, NEW t \in Tabs, Browser!Forget(t)
  PROVE  /\ mixed' \subseteq Tabs
         /\ token' \in [Tabs -> Tokens \cup {Nobody}] /\ keptToken' \in Tokens \cup {Nobody}
         /\ config' \in [Tabs -> Browser!Configs] /\ keptConfig' \in Browser!Configs
BY DefaultConfig DEF SessTyped, Browser!SessionTypeOK, Browser!Forget

\* A sign-in.
LEMMA EstablishTyped ==
  ASSUME SessTyped, NEW t \in Tabs, NEW k \in Tokens, Browser!Establish(t, k)
  PROVE  SessTyped'
<1>1. PICK d : d = Browser!Sent(k, "login")
  OBVIOUS
<1>2. d \in Request
  BY <1>1, SentTyped
<1>3. /\ token' = [token EXCEPT ![t] = k] /\ keptToken' = k
      /\ mixed' \subseteq mixed \cup {t}
      /\ calls' = [calls EXCEPT ![t] = @ \cup {d}]
      /\ UNCHANGED <<expired, config, loaded, keptConfig, page, going>>
  BY <1>1 DEF Browser!Establish, Browser!Persist, Browser!Mixing
<1> QED  BY <1>2, <1>3 DEF SessTyped, Browser!SessionTypeOK

\* A page is loaded, from the address or on the way back from the provider.
LEMMA ReloadTyped ==
  ASSUME SessTyped, NEW t \in Tabs, NEW p \in Browser!Guarded,
         Browser!StartOidc(t) \/ Browser!Reload(t, p)
  PROVE  SessTyped'
<1>1. CASE Browser!StartOidc(t)
  <2>1. /\ Browser!Restore(t) /\ page' = [page EXCEPT ![t] = "callback"]
        /\ calls' = [calls EXCEPT ![t] = {}] /\ UNCHANGED going
    BY <1>1 DEF Browser!StartOidc
  <2> QED  BY <2>1, RestoreTyped
              DEF SessTyped, Browser!SessionTypeOK, Browser!Public
<1>2. CASE Browser!Reload(t, p) /\ keptToken = Nobody
  <2>1. /\ Browser!Restore(t) /\ page' = [page EXCEPT ![t] = "login"]
        /\ calls' = [calls EXCEPT ![t] = {}] /\ going' = [going EXCEPT ![t] = Nobody]
    BY <1>2 DEF Browser!Reload
  <2> QED  BY <2>1, RestoreTyped
              DEF SessTyped, Browser!SessionTypeOK, Browser!Public
<1>3. CASE Browser!Reload(t, p) /\ keptToken # Nobody
  <2>1. PICK d : d = Browser!Sent(keptToken, p)
    OBVIOUS
  <2>2. keptToken \in Tokens
    BY <1>3 DEF SessTyped, Browser!SessionTypeOK
  <2>3. d \in Request
    BY <2>1, <2>2, SentTyped
  <2>4. /\ Browser!Restore(t) /\ page' = [page EXCEPT ![t] = "blank"]
        /\ calls' = [calls EXCEPT ![t] = {d}] /\ going' = [going EXCEPT ![t] = p]
    BY <1>3, <2>1 DEF Browser!Reload
  <2> QED  BY <2>3, <2>4, RestoreTyped DEF SessTyped, Browser!SessionTypeOK
<1> QED  BY <1>1, <1>2, <1>3

\* The session ends, by the button or by an answer.
LEMMA EndTyped ==
  ASSUME SessTyped, NEW t \in Tabs, NEW c,
         Browser!Logout(t) \/ Browser!Evict(t, c)
  PROVE  SessTyped'
<1>1. PICK b \in BOOLEAN : b = (c.by # "page")
  OBVIOUS
<1>2. /\ Browser!Forget(t) /\ UNCHANGED expired
      /\ page' = [page EXCEPT ![t] = "login"] /\ going' = [going EXCEPT ![t] = Nobody]
  BY DEF Browser!Logout, Browser!Evict
<1>3. \/ loaded' = [loaded EXCEPT ![t] = FALSE]
      \/ loaded' = [loaded EXCEPT ![t] = c.by # "page"]
  BY Zenon DEF Browser!Logout, Browser!Evict
<1>4. \/ loaded' = [loaded EXCEPT ![t] = FALSE]
      \/ loaded' = [loaded EXCEPT ![t] = b]
  BY Zenon, <1>1, <1>3
<1>5. \/ UNCHANGED calls \/ calls' = [calls EXCEPT ![t] = {}]
      \/ calls' = [calls EXCEPT ![t] = @ \ {c}]
  BY DEF Browser!Logout, Browser!Evict
<1>6. loaded' \in [Tabs -> BOOLEAN] /\ calls' \in [Tabs -> SUBSET Request]
  BY <1>4, <1>5 DEF SessTyped, Browser!SessionTypeOK
<1> QED  BY <1>2, <1>6, ForgetTyped
            DEF SessTyped, Browser!SessionTypeOK, Browser!Public

\* A link is followed, or a view asks for its data.
LEMMA AskTyped ==
  ASSUME SessInv, SessTyped, NEW t \in Tabs, NEW p \in Browser!Guarded,
         Browser!Navigate(t, p) \/ Browser!Fetch(t)
  PROVE  SessTyped'
<1>1. SessTyped
  OBVIOUS
<1>2. CASE Browser!Navigate(t, p)
  <2>1. PICK k, c, l, S : k = token[t] /\ c = config[t] /\ l = loaded[t] /\ S = calls[t]
    OBVIOUS
  <2>2. k \in Tokens \cup {Nobody} /\ S \in SUBSET Request
    BY <2>1 DEF SessTyped, Browser!SessionTypeOK
  <2>3. /\ Browser!Guard(t, p, k, c, l, S)
        /\ UNCHANGED <<expired, token, config, loaded, keptToken, keptConfig, mixed>>
    BY <1>2, <2>1 DEF Browser!Navigate
  <2> QED  BY <1>1, <2>2, <2>3, GuardTyped DEF SessTyped, Browser!SessionTypeOK
<1>3. CASE Browser!Fetch(t)
  <2>1. PICK d : d = Browser!Sent(token[t], "page")
    OBVIOUS
  <2>2. token[t] # Nobody
    BY <1>3 DEF Browser!Fetch, SessInv, MayOpen
  <2>3. token[t] \in Tokens
    BY <2>2 DEF SessTyped, Browser!SessionTypeOK
  <2>4. d \in Request
    BY <2>1, <2>3, SentTyped
  <2>5. /\ calls' = [calls EXCEPT ![t] = @ \cup {d}]
        /\ UNCHANGED <<expired, token, config, loaded, keptToken, keptConfig, page, going,
               mixed>>
    BY <1>3, <2>1 DEF Browser!Fetch
  <2> QED  BY <1>1, <2>4, <2>5 DEF SessTyped, Browser!SessionTypeOK
<1> QED  BY <1>2, <1>3

\* What a server can say.
LEMMA SettingsTyped ==
  ASSUME NEW k \in Tokens, NEW b \in Browser!Settings(Tenant[k]) \cup {Browser!Default}
  PROVE  b \in Browser!Configs
BY DEF Browser!Configs

\* A request is answered, and the answer is dropped by a view.
LEMMA AnswerTyped ==
  ASSUME SessTyped, NEW t \in Tabs, NEW c \in calls[t],
         Browser!Answer(t, c) \/ Browser!TakeData(t, c)
  PROVE  SessTyped'
<1>1. c \in Request
  BY DEF SessTyped
<1>2. CASE Browser!Answer(t, c)
  <2>1. PICK told \in {"ok", "refused", "failed"},
             b \in Browser!Settings(Tenant[c.token]) \cup {Browser!Default} :
          calls' = [calls EXCEPT ![t] =
                      (@ \ {c}) \cup {[c EXCEPT !.status = told, !.body = b]}]
    BY <1>2 DEF Browser!Answer
  <2>2. c.token \in Tokens
    BY <1>1 DEF Request
  <2>3. b \in Browser!Configs
    BY <2>1, <2>2, SettingsTyped
  <2>4. PICK d : d = [c EXCEPT !.status = told, !.body = b]
    OBVIOUS
  <2>5. d \in Request
    BY <1>1, <2>3, <2>4 DEF Request
  <2>6. calls' = [calls EXCEPT ![t] = (@ \ {c}) \cup {d}]
    BY <2>1, <2>4
  <2> QED  BY <1>2, <2>5, <2>6
              DEF SessTyped, Browser!SessionTypeOK, Browser!Answer
<1>3. CASE Browser!TakeData(t, c)
  BY <1>3 DEF SessTyped, Browser!SessionTypeOK, Browser!TakeData
<1> QED  BY <1>2, <1>3

\* What follows on a bootstrap is typed.
LEMMA ProceedTyped ==
  ASSUME SessTyped, NEW t \in Tabs, NEW a \in calls[t], NEW k \in Tokens \cup {Nobody},
         NEW c, a.by # "page", Browser!Proceed(t, a, k, c)
  PROVE  /\ page' \in [Tabs -> Browser!Guarded \cup Browser!Detours \cup Browser!Public \cup {"blank"}]
         /\ going' \in [Tabs -> Browser!Guarded \cup {Nobody}]
         /\ calls' \in [Tabs -> SUBSET Request]
<1>1. PICK S : S = calls[t] \ {a}
  OBVIOUS
<1>2. S \in SUBSET Request /\ a \in Request
  BY <1>1 DEF SessTyped
<1>3. a.by \in Browser!Guarded \cup {"login"}
  BY <1>2 DEF Request
<1>4. ASSUME NEW p \in Browser!Guarded, Browser!Guard(t, p, k, c, TRUE, S)
      PROVE  /\ page' \in [Tabs -> Browser!Guarded \cup Browser!Detours \cup Browser!Public \cup {"blank"}]
             /\ going' \in [Tabs -> Browser!Guarded \cup {Nobody}]
             /\ calls' \in [Tabs -> SUBSET Request]
  BY <1>2, <1>4, GuardTyped
<1>5. CASE \E p \in Visited : Browser!Guard(t, p, k, c, TRUE, S)
  BY <1>4, <1>5, VisitedGuarded
<1>6. CASE a.by = going[t] /\ Browser!Guard(t, going[t], k, c, TRUE, S)
  <2>1. going[t] \in Browser!Guarded
    BY <1>3, <1>6, PagesFree, NobodyAssumption
       DEF SessTyped, Browser!SessionTypeOK
  <2> QED  BY <1>4, <1>6, <2>1
<1>7. CASE calls' = [calls EXCEPT ![t] = @ \ {a}] /\ UNCHANGED <<page, going>>
  BY <1>7 DEF SessTyped, Browser!SessionTypeOK
<1> QED  BY <1>1, <1>5, <1>6, <1>7 DEF Browser!Proceed

\* A bootstrap has been answered.
LEMMA BootstrapTyped ==
  ASSUME SessTyped, NEW t \in Tabs, NEW a \in calls[t],
         Browser!TakeConfig(t, a) \/ Browser!KeepConfig(t, a)
  PROVE  SessTyped'
<1>1. PICK k, c : k = token[t] /\ c = config'[t]
  OBVIOUS
<1>2. k \in Tokens \cup {Nobody} /\ a.body \in Browser!Configs
  BY <1>1 DEF SessTyped, Browser!SessionTypeOK, Request
<1>3. SessTyped /\ UNCHANGED <<expired, token, keptToken>>
  BY DEF Browser!TakeConfig, Browser!KeepConfig
<1>4. loaded' = [loaded EXCEPT ![t] = TRUE] /\ a.by # "page"
  BY DEF Browser!TakeConfig, Browser!KeepConfig
<1>5. CASE Browser!TakeConfig(t, a)
  <2>1. PICK b : b = a.body
    OBVIOUS
  <2>2. /\ config' = [config EXCEPT ![t] = b] /\ keptConfig' = b
        /\ mixed' \subseteq mixed \cup {t} /\ Browser!Proceed(t, a, k, b)
    BY <1>1, <1>5, <2>1 DEF Browser!TakeConfig, Browser!Mixing
  <2> QED  BY <1>2, <1>3, <1>4, <2>1, <2>2, ProceedTyped
              DEF SessTyped, Browser!SessionTypeOK
<1>6. CASE Browser!KeepConfig(t, a)
  <2>1. PICK b : b = config[t]
    OBVIOUS
  <2>2. UNCHANGED <<config, keptConfig, mixed>> /\ Browser!Proceed(t, a, k, b)
    BY <1>1, <1>6, <2>1 DEF Browser!KeepConfig
  <2> QED  BY <1>2, <1>3, <1>4, <2>2, ProceedTyped
              DEF SessTyped, Browser!SessionTypeOK
<1> QED  BY <1>5, <1>6

\* Every step of the session keeps the types.
LEMMA SessNextTyped ==
  SessInv /\ SessTyped /\ [Browser!SessionNext]_session => SessTyped'
<1> SUFFICES ASSUME SessInv, SessTyped, [Browser!SessionNext]_session PROVE SessTyped'
  OBVIOUS
<1>1. CASE UNCHANGED session
  BY <1>1 DEF session, SessTyped, Browser!SessionTypeOK
<1>2. ASSUME NEW t \in Tabs, NEW k
                 \in Tokens, Browser!Login(t, k) \/ Browser!CompleteOidc(t, k)
      PROVE  SessTyped'
  BY <1>2, EstablishTyped DEF Browser!Login, Browser!CompleteOidc
<1>3. ASSUME NEW t \in Tabs, NEW p \in Visited, Browser!Navigate(t, p) \/ Browser!Reload(t, p)
      PROVE  SessTyped'
  BY <1>3, AskTyped, ReloadTyped, VisitedGuarded
<1>4. ASSUME NEW t \in Tabs, Browser!StartOidc(t) \/ Browser!Logout(t) \/ Browser!Fetch(t)
      PROVE  SessTyped'
  BY <1>4, AskTyped, ReloadTyped, EndTyped, VisitedGuarded, PagesGuarded
<1>5. ASSUME NEW t \in Tabs, NEW c \in calls[t],
             \/ Browser!Answer(t, c) \/ Browser!TakeConfig(t, c) \/ Browser!KeepConfig(t, c)
             \/ Browser!TakeData(t, c) \/ Browser!Evict(t, c)
      PROVE  SessTyped'
  BY <1>5, AnswerTyped, BootstrapTyped, EndTyped
<1>6. CASE Browser!OtherTab \/ \E k \in Tokens : Browser!Expire(k)
  BY <1>6, DefaultConfig
     DEF SessTyped, Browser!SessionTypeOK, Browser!OtherTab, Browser!Expire
<1> QED  BY <1>1, <1>2, <1>3, <1>4, <1>5, <1>6 DEF Browser!SessionNext

\* In every behaviour of the session its stores have their types.
LEMMA SessionTyped == SessionSpec => []SessTyped
BY SessNextTyped, SessTypesInit, SessionInvariance, PTL DEF SessionSpec
-----------------------------------------------------------------------------
(***************************************************************************)
(* The frame around the views.  The dialog is open on its page only, with  *)
(* the button it returns the focus to; and a palette that was opened over  *)
(* it, while the focus was in it, returns the focus into it.               *)
(***************************************************************************)
ShellSpec == Framed!ShellInit /\ [][Framed!ShellNext]_shell

Overlaid == open \cap {"palette", "dialog"} # {}

\* What a dialog and a palette rely on.
Framing ==
  /\ permitted \subseteq Framed!Pages
  /\ "dialog" \in open => opened = "payroll" /\ run = "offered"
  /\ {"palette", "dialog"} \subseteq open /\ ~ wandered => trigger \in {"cancel", "confirm"}

\* The parts of ShellAgrees.
OnTop ==
  /\ "palette" \in open /\ ~ wandered => focus = "query"
  /\ "dialog" \in open /\ "palette" \notin open /\ ~ wandered =>
       focus \in {"cancel", "confirm"}
Somewhere == focus \in Framed!Shown \cup {"body"} /\ (focus = "body" => frame \/ adrift)
Marked ==
  "palette" \in open /\ Framed!Filtered # {} =>
    active \in 0..Framed!Cardinality(Framed!Filtered) - 1
Listed == opened \in permitted => opened \in groups \/ folded

ShellInv == Framing /\ OnTop /\ Somewhere /\ Marked /\ Listed

\* The parts of the invariant are what the property asks of the frame.
LEMMA ShellParts == ShellInv => Framed!ShellAgrees
BY DEF ShellInv, OnTop, Somewhere, Marked, Listed, Framed!ShellAgrees

\* The cardinality of the frame is that of the library.
LEMMA ShellCard == \A S : Framed!Cardinality(S) = Cardinality(S)
BY DEF Framed!Cardinality, Cardinality

\* A list that is not empty has a first item.
LEMMA FirstItem ==
  ASSUME NEW S, S \subseteq Framed!Pages, S # {}
  PROVE  Framed!Cardinality(S) \in Nat \ {0}
<1>1. IsFiniteSet(Framed!Pages)
  <2>1. IsFiniteSet({}) /\ IsFiniteSet({} \cup {"payroll"})
    BY FS_EmptySet, FS_AddElement
  <2>2. IsFiniteSet(({} \cup {"payroll"}) \cup {"grants"})
    BY <2>1, FS_AddElement
  <2>3. Framed!Pages = ({} \cup {"payroll"}) \cup {"grants"}
    BY DEF Framed!Pages
  <2> QED  BY <2>2, <2>3
<1>2. IsFiniteSet(S)
  BY <1>1, FS_Subset
<1>3. Cardinality(S) \in Nat /\ Cardinality(S) # 0
  BY <1>2, FS_CardinalityType, FS_EmptySet
<1> QED  BY <1>3, ShellCard

\* An overlay that is still open and has not lost the focus had not before.
LEMMA LeaveFacts ==
  ASSUME NEW b, Framed!Leave(b), Overlaid', ~ wandered'
  PROVE  ~ wandered /\ ~ b
BY Zenon DEF Framed!Leave, Overlaid

\* Where the focus goes.
LEMMA MoveFacts ==
  ASSUME NEW e, Framed!MoveTo(e)
  PROVE  focus' \in Framed!Shown' \cup {"body"} /\ (e \in Framed!Shown' => focus' = e)
BY DEF Framed!MoveTo

\* What an overlay keeps the pointer and the keyboard from.
LEMMA PressedFacts ==
  ASSUME OnTop, Overlaid, ~ wandered, NEW e, Framed!Pressed(e)
  PROVE  /\ "palette" \in open => e = "query"
         /\ "palette" \notin open => e \in {"cancel", "confirm"}
BY DEF OnTop, Overlaid, Framed!Pressed, Framed!Clickable

\* What is shown of the overlays and of the page.
ShowsThem ==
  permitted \subseteq Framed!Pages =>
    /\ {"menu", "search", "heading"} \subseteq Framed!Shown
    /\ "query" \in Framed!Shown <=> "palette" \in open
    /\ "cancel" \in Framed!Shown <=> "dialog" \in open
    /\ "confirm" \in Framed!Shown <=> "dialog" \in open
    /\ "approve" \in Framed!Shown <=> (opened = "payroll" /\ run = "offered")
    /\ "body" \notin Framed!Shown

\* In every state.
LEMMA ShownFacts == ShowsThem
BY DEF ShowsThem, Framed!Shown, Framed!Sidebar, Framed!GroupOf, Framed!LinkOf,
       Framed!Pages

\* And so in the next.
LEMMA ShownNext == ShowsThem'
BY ShownFacts, PTL

\* What is shown of a page that is permitted.
LEMMA LinksFacts ==
  ASSUME permitted \subseteq Framed!Pages, NEW p \in permitted
  PROVE  /\ Framed!GroupOf[p] \in Framed!Shown /\ Framed!GroupOf[p] # "body"
         /\ Framed!LinkOf[p] \notin {"body", "query", "cancel", "confirm"}
         /\ Framed!GroupOf[p] \notin {"body", "query", "cancel", "confirm"}
BY DEF Framed!Shown, Framed!Sidebar, Framed!GroupOf, Framed!LinkOf, Framed!Pages

\* What the state shows when nothing that shows it changes.
LEMMA ShownKept ==
  UNCHANGED <<opened, permitted, groups, open, run>> => Framed!Shown' = Framed!Shown
BY DEF Framed!Shown, Framed!Sidebar

\* What the palette marks, while its list stays, or anew.
LEMMA MarkedKept ==
  ASSUME Marked, UNCHANGED <<permitted, query, active>>,
         "palette" \in open' => "palette" \in open
  PROVE  Marked'
BY DEF Marked, Framed!Filtered

\* A search begins with the first entry marked.
LEMMA MarkedAnew ==
  ASSUME permitted' \subseteq Framed!Pages, active' = 0
  PROVE  Marked'
<1> SUFFICES ASSUME Framed!Filtered' # {}
             PROVE  0 \in 0..Framed!Cardinality(Framed!Filtered') - 1
  BY DEF Marked
<1>1. Framed!Filtered' \subseteq Framed!Pages
  BY DEF Framed!Filtered
<1> QED  BY <1>1, FirstItem

\* A step that leaves what the frame shows, and where the focus is.
LEMMA ShellKept ==
  ASSUME ShellInv, UNCHANGED <<opened, permitted, groups, folded, open, run, trigger,
             wandered>>,
         UNCHANGED <<focus, adrift, frame>> \/ (OnTop' /\ Somewhere'), Marked'
  PROVE  ShellInv'
<1>1. Framing' /\ Listed'
  BY DEF ShellInv, Framing, Listed
<1>2. OnTop' /\ Somewhere'
  BY ShownKept DEF ShellInv, OnTop, Somewhere
<1> QED  BY <1>1, <1>2 DEF ShellInv

\* The frame as it first appears.
LEMMA ShellInitInv == Framed!ShellInit => ShellInv
BY DEF Framed!ShellInit, ShellInv, Framing, OnTop, Somewhere, Marked, Listed,
       Framed!Pages

\* The page is there.
LEMMA ArriveInv == ASSUME ShellInv, Framed!Arrive PROVE ShellInv'
<1>1. /\ opened' = arriving /\ frame' = TRUE /\ open' = open \ {"dialog", "drawer"}
      /\ groups' = groups \cup ({opened'} \cap permitted)
      /\ UNCHANGED <<permitted, query, active, trigger>>
      /\ Framed!MoveTo(IF "drawer" \in open THEN "menu" ELSE focus)
      /\ Framed!Leave("drawer" \in open)
  BY DEF Framed!Arrive, Framed!search
<1>2. Framing'
  BY <1>1 DEF ShellInv, Framing
<1>3. OnTop'
  <2> SUFFICES ASSUME "palette" \in open', ~ wandered' PROVE focus' = "query"
    BY <1>1 DEF OnTop
  <2>1. ~ wandered /\ "drawer" \notin open
    BY <1>1, LeaveFacts DEF Overlaid
  <2>2. focus = "query"
    BY <1>1, <2>1 DEF ShellInv, OnTop
  <2>3. "query" \in Framed!Shown'
    BY <1>2, ShownNext DEF ShowsThem, Framing
  <2> QED  BY <1>1, <2>1, <2>2, <2>3, MoveFacts
<1>4. Somewhere'
  BY <1>1, MoveFacts DEF Somewhere
<1>5. Marked'
  BY <1>1, MarkedKept DEF ShellInv
<1>6. Listed'
  BY <1>1 DEF Listed
<1> QED  BY <1>2, <1>3, <1>4, <1>5, <1>6 DEF ShellInv

\* The heading of the page gets the focus, whatever is open.
LEMMA FrameInv == ASSUME ShellInv, Framed!Frame PROVE ShellInv'
<1>1. /\ focus' = "heading" /\ Framed!Leave(TRUE)
      /\ UNCHANGED <<opened, permitted, groups, folded, open, query, active, trigger, run>>
  BY DEF Framed!Frame, Framed!side, Framed!search
<1>2. ~ Overlaid' \/ wandered'
  BY <1>1, LeaveFacts
<1>3. Framing'
  BY <1>1, <1>2 DEF ShellInv, Framing, Overlaid
<1>4. OnTop'
  BY <1>2 DEF OnTop, Overlaid
<1>5. Somewhere'
  BY <1>1, <1>3, ShownNext DEF ShowsThem, Framing, Somewhere
<1>6. Marked'
  BY <1>1, MarkedKept DEF ShellInv
<1>7. Listed'
  BY <1>1 DEF ShellInv, Listed
<1> QED  BY <1>3, <1>4, <1>5, <1>6, <1>7 DEF ShellInv

\* What is permitted changes.
LEMMA ReconfigureInv == ASSUME ShellInv, Framed!Reconfigure PROVE ShellInv'
<1>1. /\ permitted' \in {Framed!Pages, {"grants"}} /\ active' = 0
      /\ Framed!MoveTo(focus) /\ Framed!Leave(FALSE)
      /\ UNCHANGED <<opened, frame, groups, open, query, trigger, run>>
  BY DEF Framed!Reconfigure, Framed!Land
<1>2. ~ Overlaid' \/ wandered' \/ ~ wandered
  BY <1>1, LeaveFacts
<1>3. Framing'
  BY <1>1, <1>2 DEF ShellInv, Framing, Overlaid, Framed!Pages
<1>4. OnTop'
  <2>1. /\ "palette" \in open => "query" \in Framed!Shown'
        /\ "dialog" \in open => {"cancel", "confirm"} \subseteq Framed!Shown'
    BY <1>1, <1>3, ShownNext DEF ShowsThem, Framing
  <2> QED  BY <1>1, <1>2, <2>1, MoveFacts DEF ShellInv, OnTop, Overlaid
<1>5. Somewhere'
  <2>1. adrift' = (focus' = "body")
    BY DEF Framed!Reconfigure
  <2>2. focus' = "body" => adrift'
    BY Zenon, <2>1
  <2> QED  BY <1>1, <2>2, MoveFacts DEF Somewhere
<1>6. Marked'
  BY <1>1, <1>3, MarkedAnew DEF Framing
<1>7. Listed'
  <2>1. folded' = (folded \/ opened \in permitted' \ (permitted \cup groups))
    BY DEF Framed!Reconfigure
  <2>2. folded \/ opened \in permitted' \ (permitted \cup groups) => folded'
    BY Zenon, <2>1
  <2> QED  BY <1>1, <2>2 DEF ShellInv, Listed
<1> QED  BY <1>3, <1>4, <1>5, <1>6, <1>7 DEF ShellInv

\* The palette opens, over a dialog perhaps.
LEMMA OpenPaletteInv == ASSUME ShellInv, Framed!OpenPalette PROVE ShellInv'
<1>1. /\ "palette" \notin open
      /\ trigger' \in {focus} \cup {e \in {"search"} : Framed!Pressed(e)}
      /\ open' = open \cup {"palette"} /\ query' = "" /\ active' = 0
      /\ Framed!MoveTo("query") /\ Framed!Leave(FALSE)
      /\ UNCHANGED <<opened, permitted, groups, folded, run>>
  BY DEF Framed!OpenPalette, Framed!Land, Framed!route, Framed!side
<1>2. wandered' \/ ~ wandered
  BY <1>1, LeaveFacts DEF Overlaid
<1>3. Framing'
  <2> SUFFICES ASSUME "dialog" \in open', ~ wandered'
               PROVE  trigger' \in {"cancel", "confirm"}
    BY <1>1 DEF ShellInv, Framing
  <2>1. "dialog" \in open /\ ~ wandered
    BY <1>1, <1>2
  <2>2. focus \in {"cancel", "confirm"}
    BY <1>1, <2>1 DEF ShellInv, OnTop
  <2>3. ~ Framed!Pressed("search")
    BY <1>1, <2>1, PressedFacts DEF ShellInv, Overlaid
  <2> QED  BY <1>1, <2>2, <2>3
<1>4. focus' = "query"
  <2>1. "query" \in Framed!Shown'
    BY <1>1, <1>3, ShownNext DEF ShowsThem, Framing
  <2> QED  BY <1>1, <2>1, MoveFacts
<1>5. OnTop'
  BY <1>1, <1>4 DEF OnTop
<1>6. Somewhere'
  BY <1>1, <1>4, MoveFacts DEF Somewhere
<1>7. Marked'
  BY <1>1, <1>3, MarkedAnew DEF Framing
<1>8. Listed'
  BY <1>1 DEF ShellInv, Listed
<1> QED  BY <1>3, <1>5, <1>6, <1>7, <1>8 DEF ShellInv

\* A letter, or an arrow, in the palette.
LEMMA TypeInv ==
  ASSUME ShellInv, NEW q \in DOMAIN Framed!Queries, Framed!Type(q)
  PROVE  ShellInv'
<1>1. /\ active' = 0
      /\ UNCHANGED <<opened, permitted, groups, folded, open, run, trigger, wandered,
                     focus, adrift, frame>>
  BY DEF Framed!Type, Framed!route, Framed!side
<1>2. Marked'
  BY <1>1, MarkedAnew DEF ShellInv, Framing
<1> QED  BY <1>1, <1>2, ShellKept

\* The arrow keys keep the mark on an entry.
LEMMA ArrowInv == ASSUME ShellInv, Framed!Arrow PROVE ShellInv'
<1>1. UNCHANGED <<opened, permitted, groups, folded, open, run, trigger, wandered,
                  focus, adrift, frame, query>>
  BY DEF Framed!Arrow, Framed!route, Framed!side
<1>2. Marked'
  <2> SUFFICES ASSUME Framed!Filtered' # {}
               PROVE  active' \in 0..Framed!Cardinality(Framed!Filtered') - 1
    BY DEF Marked
  <2>1. PICK n : n = Framed!Cardinality(Framed!Filtered)
    OBVIOUS
  <2>2. Framed!Filtered' = Framed!Filtered
    BY <1>1 DEF Framed!Filtered
  <2>3. n \in Nat \ {0}
    BY <2>1, <2>2, FirstItem DEF ShellInv, Framing, Framed!Filtered
  <2>4. active \in 0..n - 1
    BY <2>1, <2>2 DEF ShellInv, Marked, Framed!Arrow
  <2>5. \/ active' = IF active + 1 < n THEN active + 1 ELSE n - 1
        \/ active' = IF active > 0 THEN active - 1 ELSE 0
    BY <2>1 DEF Framed!Arrow
  <2>6. active' \in 0..n - 1
    BY <2>3, <2>4, <2>5
  <2> QED  BY <2>1, <2>2, <2>6
<1> QED  BY <1>1, <1>2, ShellKept

\* The palette closes, while the page may be left for another.
LEMMA ClosePaletteInv ==
  ASSUME ShellInv, Framed!ClosePalette, UNCHANGED <<opened, permitted>>
  PROVE  ShellInv'
<1>1. /\ "palette" \in open /\ open' = open \ {"palette"} /\ active' = 0
      /\ Framed!MoveTo(IF trigger \in Framed!Shown' THEN trigger ELSE focus)
      /\ Framed!Leave(FALSE) /\ UNCHANGED <<groups, folded, run>>
  BY DEF Framed!ClosePalette, Framed!Forget, Framed!Land, Framed!side
<1>2. Framing'
  BY <1>1 DEF ShellInv, Framing
<1>3. OnTop'
  <2> SUFFICES ASSUME "dialog" \in open', ~ wandered'
               PROVE  focus' \in {"cancel", "confirm"}
    BY <1>1 DEF OnTop
  <2>1. "dialog" \in open /\ ~ wandered
    BY <1>1, LeaveFacts DEF Overlaid
  <2>2. trigger \in {"cancel", "confirm"}
    BY <1>1, <2>1 DEF ShellInv, Framing
  <2>3. {"cancel", "confirm"} \subseteq Framed!Shown'
    BY <1>2, ShownNext DEF ShowsThem, Framing
  <2> QED  BY <1>1, <2>2, <2>3, MoveFacts
<1>4. Somewhere'
  <2>1. adrift' = (focus' = "body")
    BY DEF Framed!ClosePalette
  <2>2. focus' = "body" => adrift'
    BY Zenon, <2>1
  <2> QED  BY <1>1, <2>2, MoveFacts DEF Somewhere
<1>5. Marked'
  BY <1>1, <1>2, MarkedAnew DEF Framing
<1>6. Listed'
  BY <1>1 DEF ShellInv, Listed
<1> QED  BY <1>2, <1>3, <1>4, <1>5, <1>6 DEF ShellInv

\* A link of the sidebar, and the name of a group.
LEMMA BehindAll ==
  ASSUME ShellInv, NEW e, e \notin {"query", "cancel", "confirm"}, Framed!Pressed(e)
  PROVE  ~ Overlaid \/ wandered
BY PressedFacts DEF ShellInv, Overlaid

\* Following a link keeps the invariant: no overlay covers one that can be pressed.
LEMMA FollowInv ==
  ASSUME ShellInv, NEW p \in permitted, Framed!Follow(p)
  PROVE  ShellInv'
<1>1. /\ Framed!Pressed(Framed!LinkOf[p]) /\ focus' = Framed!LinkOf[p]
      /\ UNCHANGED <<opened, permitted, groups, folded, open, run, trigger, wandered,
                     query, active>>
  BY DEF Framed!Follow, Framed!Push, Framed!side, Framed!search
<1>2. Framed!LinkOf[p] \notin {"body", "query", "cancel", "confirm"}
  BY LinksFacts DEF ShellInv, Framing
<1>3. OnTop'
  BY <1>1, <1>2, BehindAll DEF OnTop, Overlaid
<1>4. Somewhere'
  BY <1>1, <1>2, ShownKept DEF Somewhere, Framed!Pressed
<1>5. Marked'
  BY <1>1, MarkedKept DEF ShellInv
<1> QED  BY <1>1, <1>3, <1>4, <1>5, ShellKept

\* The head of a group opens and closes it.
LEMMA ToggleGroupInv ==
  ASSUME ShellInv, NEW p \in permitted, Framed!ToggleGroup(p)
  PROVE  ShellInv'
<1>1. /\ Framed!Pressed(Framed!GroupOf[p]) /\ focus' = Framed!GroupOf[p]
      /\ UNCHANGED <<opened, permitted, open, run, trigger, wandered, query, active>>
  BY DEF Framed!ToggleGroup, Framed!route, Framed!search
<1>2. Framed!GroupOf[p] \notin {"body", "query", "cancel", "confirm"}
  BY LinksFacts DEF ShellInv, Framing
<1>3. OnTop'
  BY <1>1, <1>2, BehindAll DEF OnTop, Overlaid
<1>4. Somewhere'
  <2>1. Framed!GroupOf[p] \in Framed!Shown'
    BY <1>1 DEF Framed!Shown, Framed!Sidebar
  <2> QED  BY <1>1, <1>2, <2>1 DEF Somewhere
<1>5. Marked'
  BY <1>1, MarkedKept DEF ShellInv
<1>6. Framing'
  BY <1>1 DEF ShellInv, Framing
<1>7. Listed'
  <2>1. /\ groups' = IF p \in groups THEN groups \ {p} ELSE groups \cup {p}
        /\ folded' = IF p = opened THEN p \in groups ELSE folded
    BY DEF Framed!ToggleGroup
  <2>2. (p = opened /\ p \in groups => folded') /\ (p # opened /\ folded => folded')
    BY Zenon, <2>1
  <2> QED  BY <1>1, <2>1, <2>2 DEF ShellInv, Listed
<1> QED  BY <1>3, <1>4, <1>5, <1>6, <1>7 DEF ShellInv

\* The drawer.
LEMMA MenuInv == ASSUME ShellInv, Framed!Menu PROVE ShellInv'
<1>1. /\ Framed!Pressed("menu") \/ open = {"drawer"}
      /\ open' = IF "drawer" \in open THEN open \ {"drawer"} ELSE open \cup {"drawer"}
      /\ focus' = "menu"
      /\ UNCHANGED <<opened, permitted, groups, folded, run, trigger, wandered, query,
                     active>>
  BY DEF Framed!Menu, Framed!route, Framed!side, Framed!search
<1>2. Framing'
  BY <1>1 DEF ShellInv, Framing
<1>3. OnTop'
  BY <1>1, BehindAll DEF OnTop, Overlaid
<1>4. Somewhere'
  BY <1>1, <1>2, ShownNext DEF ShowsThem, Framing, Somewhere
<1>5. Marked'
  BY <1>1, MarkedKept DEF ShellInv
<1>6. Listed'
  BY <1>1 DEF ShellInv, Listed
<1> QED  BY <1>2, <1>3, <1>4, <1>5, <1>6 DEF ShellInv

\* The dialog opens on its page.
LEMMA ApproveInv == ASSUME ShellInv, Framed!Approve PROVE ShellInv'
<1>1. /\ Framed!Pressed("approve") /\ open' = open \cup {"dialog"}
      /\ Framed!MoveTo("cancel") /\ Framed!Leave(FALSE)
      /\ UNCHANGED <<opened, permitted, groups, folded, run, trigger, query, active>>
  BY DEF Framed!Approve, Framed!Land, Framed!route, Framed!side, Framed!search
<1>2. "palette" \notin open' \/ wandered'
  BY <1>1, BehindAll, LeaveFacts DEF Overlaid
<1>3. Framing'
  BY <1>1, <1>2, ShownFacts DEF ShellInv, Framing, ShowsThem, Framed!Pressed
<1>4. focus' = "cancel"
  <2>1. "cancel" \in Framed!Shown'
    BY <1>1, <1>3, ShownNext DEF ShowsThem, Framing
  <2> QED  BY <1>1, <2>1, MoveFacts
<1>5. OnTop'
  BY <1>2, <1>4 DEF OnTop
<1>6. Somewhere'
  BY <1>1, <1>4, MoveFacts DEF Somewhere
<1>7. Marked'
  BY <1>1, MarkedKept DEF ShellInv
<1>8. Listed'
  BY <1>1 DEF ShellInv, Listed
<1> QED  BY <1>3, <1>5, <1>6, <1>7, <1>8 DEF ShellInv

\* The dialog closes.
LEMMA DialogCloses ==
  ASSUME ShellInv, open' = open \ {"dialog"}, "palette" \notin open \/ wandered,
         Framed!Leave(FALSE), UNCHANGED <<opened, permitted, groups, folded, query, active>>,
         Somewhere'
  PROVE  ShellInv'
<1>1. "palette" \notin open' \/ wandered'
  BY LeaveFacts DEF Overlaid
<1>2. Framing' /\ OnTop' /\ Listed'
  BY <1>1 DEF ShellInv, Framing, OnTop, Listed
<1>3. Marked'
  BY MarkedKept DEF ShellInv
<1> QED  BY <1>2, <1>3 DEF ShellInv

\* Its button has the focus back, if the dialog was cancelled.
LEMMA CancelInv == ASSUME ShellInv, Framed!Cancel PROVE ShellInv'
<1>1. /\ Framed!Pressed("cancel") \/ ("dialog" \in open /\ "palette" \notin open)
      /\ open' = open \ {"dialog"} /\ Framed!MoveTo("approve") /\ Framed!Leave(FALSE)
      /\ UNCHANGED <<opened, permitted, groups, folded, run, query, active>>
  BY DEF Framed!Cancel, Framed!Land, Framed!route, Framed!side, Framed!search
<1>2. "dialog" \in open
  BY <1>1, ShownFacts DEF ShellInv, Framing, ShowsThem, Framed!Pressed
<1>3. "palette" \notin open \/ wandered
  BY <1>1, PressedFacts DEF ShellInv, Overlaid
<1>4. Somewhere'
  <2>1. opened' = "payroll" /\ run' = "offered" /\ permitted' \subseteq Framed!Pages
    BY <1>1, <1>2 DEF ShellInv, Framing
  <2>2. "approve" \in Framed!Shown'
    BY <2>1, ShownNext DEF ShowsThem
  <2> QED  BY <1>1, <2>2, MoveFacts DEF Somewhere
<1> QED  BY <1>1, <1>3, <1>4, DialogCloses

\* Or it is disabled, and nothing has it.
LEMMA ConfirmInv == ASSUME ShellInv, Framed!Confirm PROVE ShellInv'
<1>1. /\ Framed!Pressed("confirm") /\ adrift' = TRUE
      /\ open' = open \ {"dialog"} /\ Framed!MoveTo("approve") /\ Framed!Leave(FALSE)
      /\ UNCHANGED <<opened, permitted, groups, folded, query, active>>
  BY DEF Framed!Confirm, Framed!Land, Framed!route, Framed!side, Framed!search
<1>2. "palette" \notin open \/ wandered
  BY <1>1, PressedFacts DEF ShellInv, Overlaid
<1>3. Somewhere'
  BY <1>1, MoveFacts DEF Somewhere
<1> QED  BY <1>1, <1>2, <1>3, DialogCloses

\* The server answers when no dialog is open.
LEMMA AnswerInv == ASSUME ShellInv, Framed!Answer PROVE ShellInv'
<1>1. /\ run = "busy"
      /\ UNCHANGED <<opened, permitted, groups, folded, open, query, active, trigger, frame,
                     focus, wandered, adrift>>
  BY DEF Framed!Answer, Framed!route, Framed!side, Framed!search
<1>2. Framing'
  BY <1>1 DEF ShellInv, Framing
<1>3. OnTop' /\ Listed'
  BY <1>1 DEF ShellInv, OnTop, Listed
<1>4. Somewhere'
  <2>1. Framed!Shown \subseteq Framed!Shown'
    BY <1>1 DEF Framed!Shown, Framed!Sidebar
  <2> QED  BY <1>1, <2>1 DEF ShellInv, Somewhere
<1>5. Marked'
  BY <1>1, MarkedKept DEF ShellInv
<1> QED  BY <1>2, <1>3, <1>4, <1>5 DEF ShellInv

\* Everything closes.
LEMMA EscapeInv == ASSUME ShellInv, Framed!Escape PROVE ShellInv'
<1>1. /\ open' = {} /\ UNCHANGED <<opened, permitted, groups, folded>>
      /\ \E e : Framed!MoveTo(e)
  BY DEF Framed!Escape, Framed!Land, Framed!route, Framed!side
<1>2. Framing' /\ OnTop' /\ Marked' /\ Listed'
  BY <1>1 DEF ShellInv, Framing, OnTop, Marked, Listed
<1>3. Somewhere'
  <2>1. adrift' = (focus' = "body")
    BY DEF Framed!Escape
  <2>2. focus' = "body" => adrift'
    BY Zenon, <2>1
  <2> QED  BY <1>1, <2>2, MoveFacts DEF Somewhere
<1> QED  BY <1>2, <1>3 DEF ShellInv

\* The next element of the page, or of the dialog.
LEMMA TabInv == ASSUME ShellInv, Framed!Tab PROVE ShellInv'
<1>1. /\ focus' \in Framed!Shown
      /\ focus \in {"cancel", "confirm"} => focus' \in {"cancel", "confirm"}
      /\ Framed!Leave(focus \notin {"cancel", "confirm"})
      /\ UNCHANGED <<opened, permitted, groups, folded, open, query, active, trigger, run>>
  BY DEF Framed!Tab, Framed!route, Framed!side, Framed!search
<1>2. Overlaid' /\ ~ wandered' => ~ wandered /\ focus \in {"cancel", "confirm"}
  BY <1>1, LeaveFacts
<1>3. Framing'
  BY <1>1, <1>2 DEF ShellInv, Framing, Overlaid
<1>4. OnTop'
  BY <1>1, <1>2 DEF ShellInv, OnTop, Overlaid
<1>5. Somewhere'
  BY <1>1, ShownKept, ShownFacts DEF ShellInv, Framing, ShowsThem, Somewhere
<1>6. Marked'
  BY <1>1, MarkedKept DEF ShellInv
<1>7. Listed'
  BY <1>1 DEF ShellInv, Listed
<1> QED  BY <1>3, <1>4, <1>5, <1>6, <1>7 DEF ShellInv

\* In every behaviour of the frame (AppShell.vue, CommandPalette.vue).
THEOREM ShellInvariance == ShellSpec => []ShellInv
<1>1. ShellInv /\ [Framed!ShellNext]_shell => ShellInv'
  <2> SUFFICES ASSUME ShellInv, [Framed!ShellNext]_shell PROVE ShellInv'
    OBVIOUS
  <2>1. CASE UNCHANGED shell
    <3>1. UNCHANGED <<opened, permitted, groups, folded, open, run, trigger, wandered,
                      focus, adrift, frame, query, active>>
      BY <2>1 DEF shell
    <3>2. Marked'
      BY <3>1, MarkedKept DEF ShellInv
    <3> QED  BY <3>1, <3>2, ShellKept
  <2>2. CASE (UNCHANGED Framed!route /\ Framed!ClosePalette) \/ Framed!Go
    <3>1. Framed!ClosePalette /\ UNCHANGED <<opened, permitted>>
      BY <2>2 DEF Framed!Go, Framed!Push, Framed!route
    <3> QED  BY <3>1, ClosePaletteInv
  <2> QED
    BY <2>1, <2>2, ArriveInv, FrameInv, ReconfigureInv, OpenPaletteInv, TypeInv,
       ArrowInv, FollowInv, ToggleGroupInv, MenuInv, ApproveInv, CancelInv,
       ConfirmInv, AnswerInv, EscapeInv, TabInv
    DEF Framed!ShellNext
<1> QED  BY <1>1, ShellInitInv, PTL DEF ShellSpec
-----------------------------------------------------------------------------
(***************************************************************************)
(* The types of the frame.  Where the focus is and what is permitted the   *)
(* invariant above says already.                                           *)
(***************************************************************************)
\* What can be shown are elements of the page.
LEMMA ShownElements ==
  permitted \subseteq Framed!Pages => Framed!Shown \subseteq Framed!Elements
BY DEF Framed!Shown, Framed!Sidebar, Framed!Elements, Framed!Pages

\* The focus and what is permitted.
FocusTyped == focus \in Framed!Elements \cup {"body"} /\ permitted \subseteq Framed!Pages

\* Both are in the invariant.
LEMMA FocusIsTyped == ShellInv => FocusTyped
BY ShownElements DEF FocusTyped, ShellInv, Somewhere, Framing

\* No list is longer than the pages are many.
LEMMA ListLength ==
  /\ Framed!Cardinality(Framed!Pages) \in Nat \ {0}
  /\ \A S : S \subseteq Framed!Pages =>
       /\ Framed!Cardinality(S) \in Nat
       /\ Framed!Cardinality(S) <= Framed!Cardinality(Framed!Pages)
<1>1. IsFiniteSet(Framed!Pages)
  <2>1. IsFiniteSet({}) /\ IsFiniteSet({} \cup {"payroll"})
    BY FS_EmptySet, FS_AddElement
  <2>2. IsFiniteSet(({} \cup {"payroll"}) \cup {"grants"})
    BY <2>1, FS_AddElement
  <2>3. Framed!Pages = ({} \cup {"payroll"}) \cup {"grants"}
    BY DEF Framed!Pages
  <2> QED  BY <2>2, <2>3
<1>2. Framed!Cardinality(Framed!Pages) \in Nat \ {0}
  BY FirstItem DEF Framed!Pages
<1>3. \A S : S \subseteq Framed!Pages =>
        Cardinality(S) \in Nat /\ Cardinality(S) <= Cardinality(Framed!Pages)
  BY <1>1, FS_Subset, FS_CardinalityType
<1> QED  BY <1>2, <1>3, ShellCard

\* What is true or false.
Flags == /\ frame \in BOOLEAN /\ wandered \in BOOLEAN
         /\ adrift \in BOOLEAN /\ folded \in BOOLEAN
\* Where the user is.
Places ==
  /\ opened \in Framed!Pages \cup {"forbidden"}
  /\ arriving \in Framed!Pages \cup {"forbidden", NoPage}
  /\ groups \subseteq Framed!Pages /\ open \subseteq Framed!Overlays
  /\ run \in {"offered", "busy", "gone"}
\* What the palette keeps.
Searching ==
  /\ query \in DOMAIN Framed!Queries
  /\ active \in -1..Framed!Cardinality(Framed!Pages) - 1
  /\ trigger \in Framed!Elements \cup {"body"}

\* Together these are the type invariant.
LEMMA TypesSplit ==
  Framed!ShellTypeOK <=> FocusTyped /\ Flags /\ Places /\ Searching
BY DEF Framed!ShellTypeOK, FocusTyped, Flags, Places, Searching

\* The frame as it first appears.
LEMMA ShellInitTyped == Framed!ShellInit => Flags /\ Places /\ Searching
<1> SUFFICES ASSUME Framed!ShellInit PROVE Flags /\ Places /\ Searching
  OBVIOUS
<1>1. Flags
  BY DEF Framed!ShellInit, Flags
<1>2. Places
  BY DEF Framed!ShellInit, Places
<1>3. Searching
  <2>1. "" \in DOMAIN Framed!Queries
    BY DEF Framed!Queries
  <2>2. \A n \in Nat \ {0} : 0 \in -1..n - 1
    OBVIOUS
  <2>3. 0 \in -1..Framed!Cardinality(Framed!Pages) - 1
    BY <2>2, ListLength
  <2> QED  BY <2>1, <2>3 DEF Framed!ShellInit, Searching
<1> QED  BY <1>1, <1>2, <1>3

\* Every step keeps a flag a flag.
LEMMA FlagsTyped == ASSUME Flags, Framed!ShellNext PROVE Flags'
<1>1. ASSUME NEW b, Framed!Leave(b) PROVE wandered' \in BOOLEAN
  BY <1>1, Zenon DEF Framed!Leave
<1>2. ASSUME NEW e, Framed!Land(e) PROVE wandered' \in BOOLEAN
  BY <1>1, <1>2, Zenon DEF Framed!Land
<1>3. ASSUME Framed!Keep PROVE adrift' \in BOOLEAN
  BY <1>3, Zenon DEF Framed!Keep
<1>4. wandered' \in BOOLEAN
  BY <1>1, <1>2, Zenon
     DEF Flags, Framed!ShellNext, Framed!Arrive, Framed!Frame,
         Framed!Reconfigure, Framed!OpenPalette, Framed!Type, Framed!Arrow,
         Framed!ClosePalette, Framed!Go, Framed!Follow, Framed!ToggleGroup,
         Framed!Menu, Framed!Approve, Framed!Cancel, Framed!Confirm,
         Framed!Answer, Framed!Escape, Framed!Tab
<1>5. adrift' \in BOOLEAN
  BY <1>3, Zenon
     DEF Flags, Framed!ShellNext, Framed!Arrive, Framed!Frame,
         Framed!Reconfigure, Framed!OpenPalette, Framed!Type, Framed!Arrow,
         Framed!ClosePalette, Framed!Go, Framed!Follow, Framed!ToggleGroup,
         Framed!Menu, Framed!Approve, Framed!Cancel, Framed!Confirm,
         Framed!Answer, Framed!Escape, Framed!Tab
<1>6. frame' \in BOOLEAN
  BY Zenon
     DEF Flags, Framed!ShellNext, Framed!Arrive, Framed!Frame,
         Framed!Reconfigure, Framed!OpenPalette, Framed!Type, Framed!Arrow,
         Framed!Push, Framed!ClosePalette, Framed!Go, Framed!Follow,
         Framed!ToggleGroup, Framed!Menu, Framed!Approve, Framed!Cancel,
         Framed!Confirm, Framed!Answer, Framed!Escape, Framed!Tab, Framed!route
<1>7. folded' \in BOOLEAN
  <2>1. CASE Framed!Arrive
    BY <2>1 DEF Framed!Arrive
  <2>2. CASE Framed!Reconfigure
    BY <2>2, Zenon DEF Framed!Reconfigure
  <2>3. CASE \E p \in permitted : Framed!ToggleGroup(p)
    <3>1. PICK p \in permitted :
            folded' = IF p = opened THEN p \in groups ELSE folded
      BY <2>3, Zenon DEF Framed!ToggleGroup
    <3>2. (p \in groups) \in BOOLEAN
      OBVIOUS
    <3> QED  BY <3>1, <3>2, Zenon DEF Flags
  <2>4. CASE folded' = folded
    BY <2>4, Zenon DEF Flags
  <2> QED
    BY <2>1, <2>2, <2>3, <2>4
    DEF Framed!ShellNext, Framed!Frame, Framed!OpenPalette, Framed!Type, Framed!Arrow,
        Framed!ClosePalette, Framed!Go, Framed!Follow, Framed!Menu, Framed!Approve,
        Framed!Cancel, Framed!Confirm, Framed!Answer, Framed!Escape, Framed!Tab, Framed!side
<1> QED  BY <1>4, <1>5, <1>6, <1>7 DEF Flags

\* Every step stays among the pages.
LEMMA PlacesTyped == ASSUME ShellInv, Places, Framed!ShellNext PROVE Places'
<1>1. permitted \subseteq Framed!Pages /\ Framed!Filtered \subseteq Framed!Pages
  BY DEF ShellInv, Framing, Framed!Filtered
<1>2. ASSUME NEW p \in Framed!Pages, Framed!Push(p)
      PROVE  arriving' \in Framed!Pages \cup {"forbidden", NoPage} /\ UNCHANGED opened
  BY <1>2 DEF Framed!Push
<1>3. CASE Framed!Arrive
  BY <1>1, <1>3 DEF Places, Framed!Arrive
<1>4. CASE Framed!Reconfigure
  BY <1>1, <1>4 DEF Places, Framed!Reconfigure
<1>5. CASE Framed!Go \/ \E p \in permitted : Framed!Follow(p)
  BY <1>1, <1>2, <1>5
     DEF Places, Framed!Go, Framed!ClosePalette, Framed!Follow, Framed!side
<1>6. CASE \E p \in permitted : Framed!ToggleGroup(p)
  BY <1>1, <1>6 DEF Places, Framed!ToggleGroup, Framed!route
<1>7. CASE \/ Framed!OpenPalette \/ \E q \in DOMAIN Framed!Queries : Framed!Type(q)
           \/ Framed!Arrow \/ (UNCHANGED Framed!route /\ Framed!ClosePalette)
           \/ Framed!Menu \/ Framed!Approve \/ Framed!Escape
  BY <1>7
     DEF Places, Framed!OpenPalette, Framed!Type, Framed!Arrow,
         Framed!ClosePalette, Framed!Menu, Framed!Approve, Framed!Escape,
         Framed!route, Framed!side, Framed!Overlays
<1>8. CASE \/ Framed!Frame \/ Framed!Cancel \/ Framed!Confirm \/ Framed!Answer \/ Framed!Tab
  BY <1>8
     DEF Places, Framed!Frame, Framed!Cancel, Framed!Confirm, Framed!Answer,
         Framed!Tab, Framed!route, Framed!side
<1> QED  BY <1>3, <1>4, <1>5, <1>6, <1>7, <1>8 DEF Framed!ShellNext

\* Every step leaves the palette what it keeps.
LEMMA SearchTyped == ASSUME ShellInv, Searching, Framed!ShellNext PROVE Searching'
<1>1. PICK n \in Nat \ {0} : n = Framed!Cardinality(Framed!Pages)
  BY ListLength
<1>2. PICK m \in Nat : m = Framed!Cardinality(Framed!Filtered) /\ m <= n
  BY <1>1, ListLength DEF ShellInv, Framing, Framed!Filtered
<1>3. "" \in DOMAIN Framed!Queries
  BY DEF Framed!Queries
<1>4. focus \in Framed!Elements \cup {"body"}
  BY FocusIsTyped DEF FocusTyped
<1>5. "search" \in Framed!Elements
  BY DEF Framed!Elements
<1>6. active \in -1..n - 1
  BY <1>1 DEF Searching
<1>7. CASE Framed!Arrow
  <2>1. active' = (IF active + 1 < m THEN active + 1 ELSE m - 1)
        \/ active' = (IF active > 0 THEN active - 1 ELSE 0)
    BY <1>2, <1>7 DEF Framed!Arrow
  <2>2. active' \in -1..n - 1
    BY <1>2, <1>6, <2>1
  <2> QED  BY <1>1, <1>7, <2>2 DEF Searching, Framed!Arrow
<1>8. CASE active' = 0 /\ query' \in DOMAIN Framed!Queries
           /\ trigger' \in {"body", "search", focus, trigger}
  <2>1. active' \in -1..n - 1
    BY <1>8
  <2> QED  BY <1>1, <1>4, <1>5, <1>8, <2>1 DEF Searching
<1>9. CASE UNCHANGED <<query, active, trigger>>
  BY <1>9 DEF Searching
<1> QED
  BY <1>3, <1>7, <1>8, <1>9
  DEF Searching, Framed!ShellNext, Framed!Arrive, Framed!Frame, Framed!Reconfigure,
      Framed!OpenPalette, Framed!Type, Framed!ClosePalette, Framed!Go, Framed!Follow,
      Framed!ToggleGroup, Framed!Menu, Framed!Approve, Framed!Cancel, Framed!Confirm,
      Framed!Answer, Framed!Escape, Framed!Tab, Framed!search, Framed!Forget

\* In every behaviour of the frame its variables have their types.
LEMMA FrameTyped == ShellSpec => []Framed!ShellTypeOK
<1>1. ShellInv /\ Flags /\ Places /\ Searching /\ [Framed!ShellNext]_shell
        => Flags' /\ Places' /\ Searching'
  <2>1. UNCHANGED shell /\ Flags /\ Places /\ Searching => Flags' /\ Places' /\ Searching'
    BY DEF shell, Flags, Places, Searching
  <2> QED  BY <2>1, FlagsTyped, PlacesTyped, SearchTyped
<1>2. ShellInv /\ Flags /\ Places /\ Searching => Framed!ShellTypeOK
  BY TypesSplit, FocusIsTyped
<1> QED  BY <1>1, <1>2, ShellInitTyped, ShellInvariance, PTL DEF ShellSpec
-----------------------------------------------------------------------------
(***************************************************************************)
(* The table of the browser.  The place of a row is how many come before   *)
(* it, so the rows of a finite set take the places 1 to their number, each *)
(* one of them; a page is a stretch of those places, and the stretches     *)
(* cover them.                                                             *)
(***************************************************************************)
ListSpec == List!DataTableInit /\ [][List!DataTableNext]_list

\* The cardinality of the table is that of the library.
LEMMA ListCard == \A S : List!Cardinality(S) = Cardinality(S)
BY DEF List!Cardinality, Cardinality

Sorts == {"none", "asc", "desc"}
\* Rows have an order, whatever they are sorted by.
LEMMA RowsOrdered ==
  ASSUME NEW dir \in Sorts
  PROVE  /\ \A a \in Ids : ~ List!Before(a, a, dir)
         /\ \A a, b \in Ids : a # b => List!Before(a, b, dir) \/ List!Before(b, a, dir)
         /\ \A a, b, c \in Ids :
              List!Before(a, b, dir) /\ List!Before(b, c, dir) => List!Before(a, c, dir)
<1>1. \A a \in Ids : a \in Nat /\ Value[a] \in Nat
  BY RowsAssumption
<1> HIDE DEF Sorts
<1> QED  BY <1>1 DEF List!Before, Sorts

\* What comes before a row of a finite set is fewer than the set.
LEMMA AheadFinite ==
  ASSUME NEW s \in SUBSET Ids, NEW r \in s, NEW dir \in Sorts
  PROVE  LET ahead == {x \in s : List!Before(x, r, dir)}
         IN  /\ IsFiniteSet(s) /\ IsFiniteSet(ahead)
             /\ Cardinality(s) \in Nat /\ Cardinality(ahead) \in Nat
             /\ Cardinality(ahead) < Cardinality(s)
             /\ List!Place(r, s, dir) = Cardinality(ahead) + 1
             /\ List!Place(r, s, dir) \in Nat /\ List!Place(r, s, dir) \in 1 .. Cardinality(s)
<1> DEFINE ahead == {x \in s : List!Before(x, r, dir)}
<1>1. IsFiniteSet(s)
  BY FS_Subset, RowsAssumption
<1>2. ahead \in SUBSET s /\ r \in s /\ r \notin ahead
  BY RowsOrdered
<1>3. List!Place(r, s, dir) = Cardinality(ahead) + 1
  BY ListCard DEF List!Place
<1> HIDE DEF ahead
<1>4. /\ IsFiniteSet(ahead) /\ Cardinality(ahead) <= Cardinality(s)
      /\ Cardinality(s) # Cardinality(ahead)
  BY <1>1, <1>2, FS_Subset
<1>5. Cardinality(s) \in Nat /\ Cardinality(ahead) \in Nat
  BY <1>1, <1>4, FS_CardinalityType
<1>6. Cardinality(ahead) < Cardinality(s)
  BY <1>4, <1>5
<1>7. List!Place(r, s, dir) \in Nat /\ List!Place(r, s, dir) \in 1 .. Cardinality(s)
  BY <1>3, <1>5, <1>6
<1> QED  BY <1>1, <1>3, <1>4, <1>5, <1>6, <1>7 DEF ahead

\* A row that comes before another has a smaller place.
LEMMA PlaceOrdered ==
  ASSUME NEW s \in SUBSET Ids, NEW a \in s, NEW b \in s, NEW dir \in Sorts,
         List!Before(a, b, dir)
  PROVE  List!Place(a, s, dir) < List!Place(b, s, dir)
<1> DEFINE A == {x \in s : List!Before(x, a, dir)}
           B == {x \in s : List!Before(x, b, dir)}
<1>1. /\ IsFiniteSet(B) /\ Cardinality(A) \in Nat /\ Cardinality(B) \in Nat
      /\ List!Place(a, s, dir) = Cardinality(A) + 1
      /\ List!Place(b, s, dir) = Cardinality(B) + 1
  BY AheadFinite
<1>2. A \in SUBSET B /\ a \in B /\ a \notin A
  BY RowsOrdered
<1> HIDE DEF A, B
<1>3. Cardinality(A) <= Cardinality(B) /\ Cardinality(A) # Cardinality(B)
  BY <1>1, <1>2, FS_Subset
<1> QED  BY <1>1, <1>3

\* No two rows have one place.
LEMMA PlaceInjective ==
  ASSUME NEW s \in SUBSET Ids, NEW a \in s, NEW b \in s, NEW dir \in Sorts,
         List!Place(a, s, dir) = List!Place(b, s, dir)
  PROVE  a = b
<1>1. List!Place(a, s, dir) \in Nat /\ List!Place(b, s, dir) \in Nat
  BY AheadFinite
<1>2. ~ List!Before(a, b, dir)
  BY <1>1, PlaceOrdered
<1>3. ~ List!Before(b, a, dir)
  BY <1>1, PlaceOrdered
<1> QED  BY <1>2, <1>3, RowsOrdered

\* And every place up to the number of rows is taken.
LEMMA PlaceSurjective ==
  ASSUME NEW s \in SUBSET Ids, NEW dir \in Sorts, NEW n \in 1 .. Cardinality(s)
  PROVE  \E r \in s : List!Place(r, s, dir) = n
<1> DEFINE f == [r \in s |-> List!Place(r, s, dir)]
           C == Cardinality(s)
<1>1. IsFiniteSet(s)
  BY FS_Subset, RowsAssumption
<1>2. C \in Nat /\ C = Cardinality(s)
  BY <1>1, FS_CardinalityType
<1>3. f \in [s -> 1 .. C]
  BY AheadFinite
<1>4. \A a, b \in s : f[a] = f[b] => a = b
  BY PlaceInjective
<1> HIDE DEF C, f
<1>5. f \in Injection(s, 1 .. C)
  BY <1>3, <1>4, Zenon DEF Injection, IsInjective
<1>6. IsFiniteSet(1 .. C) /\ Cardinality(1 .. C) = C
  BY <1>2, FS_Interval
<1>7. f \in Surjection(s, 1 .. C)
  BY <1>2, <1>5, <1>6, FS_Injection
<1>8. \A t \in 1 .. C : \E r \in s : f[r] = t
  BY <1>7 DEF Surjection
<1> QED  BY <1>2, <1>8 DEF f

\* What dividing gives.
LEMMA Division ==
  ASSUME NEW n \in Nat, NEW k \in Nat \ {0}
  PROVE  n \div k \in Nat /\ (n \div k) * k <= n /\ n < (n \div k) * k + k
OBVIOUS

\* Fewer steps of a length go less far.
LEMMA Steps ==
  ASSUME NEW i \in Int, NEW j \in Int, NEW k \in Nat \ {0}
  PROVE  /\ i <= j => i * k <= j * k
         /\ i < j => i * k + k <= j * k
         /\ i * k \in Int /\ (i + 1) * k = i * k + k
<1>1. i * k \in Int /\ (i + 1) * k = i * k + k
  OBVIOUS
<1>2. i <= j => i * k <= j * k
  OBVIOUS
<1>3. ASSUME i < j PROVE i * k + k <= j * k
  <2>1. i + 1 <= j
    BY <1>3
  <2>2. (i + 1) * k <= j * k
    BY <2>1
  <2> QED  BY <1>1, <2>2
<1> QED  BY <1>1, <1>2, <1>3

\* The pages of n rows reach to the last, and no page begins after it.
LEMMA PagesReach ==
  ASSUME NEW n \in Nat, NEW k \in Nat \ {0}
  PROVE  /\ List!Pages(n, k) \in Nat \ {0} /\ (n > 0 => List!Pages(n, k) <= n)
         /\ (n = 0 => List!Pages(n, k) = 1)
         /\ \A t \in 1 .. n : \E p \in 1 .. List!Pages(n, k) :
              t \in (p - 1) * k + 1 .. p * k
         /\ \A p \in 1 .. List!Pages(n, k) : n > 0 => (p - 1) * k + 1 \in 1 .. n
<1>1. CASE n = 0
  BY <1>1 DEF List!Pages
<1>2. CASE n > 0
  <2> DEFINE q == (n - 1) \div k
  <2>1. q \in Nat /\ q * k <= n - 1 /\ n - 1 < q * k + k
    BY <1>2, Division
  <2>2. List!Pages(n, k) = q + 1
    BY <1>2 DEF List!Pages
  <2> HIDE DEF q
  <2>3. q <= q * k
    <3>1. k >= 1
      OBVIOUS
    <3> QED  BY <2>1, <3>1
  <2>4. ASSUME NEW t \in 1 .. n
        PROVE  \E p \in 1 .. q + 1 : t \in (p - 1) * k + 1 .. p * k
    <3> DEFINE d == (t - 1) \div k
    <3>1. d \in Nat /\ d * k <= t - 1 /\ t - 1 < d * k + k
      BY Division
    <3> HIDE DEF d
    <3>2. ~ q < d
      <4>1. ASSUME q < d PROVE FALSE
        <5>1. q * k + k <= d * k
          BY <2>1, <3>1, <4>1, Steps
        <5>2. q * k \in Int /\ d * k \in Int
          BY <2>1, <3>1
        <5> QED  BY <2>1, <3>1, <5>1, <5>2
      <4> QED  BY <4>1
    <3>3. d + 1 \in 1 .. q + 1
      BY <2>1, <3>1, <3>2
    <3>4. (d + 1) * k = d * k + k /\ d * k \in Int /\ (d + 1) - 1 = d
      BY <3>1, Steps
    <3>5. t \in ((d + 1) - 1) * k + 1 .. (d + 1) * k
      BY <3>1, <3>4
    <3> QED  BY <3>3, <3>5
  <2>5. ASSUME NEW p \in 1 .. q + 1
        PROVE  (p - 1) * k + 1 \in 1 .. n
    <3>1. p - 1 \in Nat /\ p - 1 <= q
      BY <2>1
    <3>2. (p - 1) * k <= q * k /\ (p - 1) * k \in Int /\ q * k \in Int
      BY <2>1, <3>1, Steps
    <3>3. (p - 1) * k >= 0
      BY <3>1
    <3> QED  BY <1>2, <2>1, <3>2, <3>3
  <2>6. q * k \in Int
    BY <2>1
  <2> QED  BY <1>2, <2>1, <2>2, <2>3, <2>4, <2>5, <2>6
<1> QED  BY <1>1, <1>2

\* So the pages cover the rows, do not overlap, and none of them is empty
\* unless all are.
LEMMA PagesCover ==
  ASSUME NEW s \in SUBSET Ids, NEW q, NEW dir \in Sorts, NEW k \in Sizes
  PROVE  LET all == List!Filtered(s, q)
             last == List!PageCount(s, q, k)
             at(p) == List!OnPage(p, s, q, dir, k)
         IN  /\ last \in Nat \ {0} /\ last <= Cardinality(Ids)
             /\ UNION {at(p) : p \in 1 .. last} = all
             /\ \A p1, p2 \in 1 .. last : p1 # p2 => at(p1) \cap at(p2) = {}
             /\ \A p \in 1 .. last : all # {} => at(p) # {}
<1> DEFINE all == List!Filtered(s, q)
           n == Cardinality(all)
           last == List!PageCount(s, q, k)
           place(r) == List!Place(r, all, dir)
           at(p) == List!OnPage(p, s, q, dir, k)
<1>1. all \in SUBSET Ids /\ IsFiniteSet(all) /\ n \in Nat /\ n <= Cardinality(Ids)
  <2>1. all \in SUBSET Ids
    BY DEF List!Filtered
  <2> QED  BY <2>1, FS_Subset, FS_CardinalityType, RowsAssumption
<1>2. k \in Nat \ {0}
  BY RowsAssumption
<1>3. last = List!Pages(n, k)
  BY ListCard DEF List!PageCount
<1>4. \A p : at(p) = {r \in all : place(r) \in (p - 1) * k + 1 .. p * k}
  BY DEF List!OnPage
<1>5. \A r \in all : place(r) \in Nat /\ place(r) \in 1 .. n
  BY <1>1, AheadFinite
<1>6. \A t \in 1 .. n : \E r \in all : place(r) = t
  BY <1>1, PlaceSurjective
<1>7. all # {} => n > 0
  BY <1>1, FS_EmptySet
<1>8. Cardinality(Ids) \in Nat \ {0}
  BY RowsAssumption, FS_EmptySet, FS_CardinalityType
<1> HIDE DEF all, n, last, place, at
<1>9. last \in Nat \ {0} /\ last <= Cardinality(Ids)
  <2>1. /\ List!Pages(n, k) \in Nat \ {0} /\ (n > 0 => List!Pages(n, k) <= n)
        /\ (n = 0 => List!Pages(n, k) = 1)
    BY <1>1, <1>2, PagesReach
  <2>2. n = 0 \/ n > 0
    BY <1>1
  <2> QED  BY <1>1, <1>3, <1>8, <2>1, <2>2
<1>10. UNION {at(p) : p \in 1 .. last} = all
  <2>1. ASSUME NEW r \in all PROVE \E p \in 1 .. last : r \in at(p)
    <3>1. PICK p \in 1 .. last : place(r) \in (p - 1) * k + 1 .. p * k
      BY <1>1, <1>2, <1>3, <1>5, PagesReach
    <3> QED  BY <1>4, <3>1
  <2>2. \A p : at(p) \subseteq all
    BY <1>4
  <2> QED  BY <2>1, <2>2
<1>11. ASSUME NEW p1 \in 1 .. last, NEW p2 \in 1 .. last, p1 < p2
       PROVE  at(p1) \cap at(p2) = {}
  <2>1. ASSUME NEW r \in all, place(r) \in (p1 - 1) * k + 1 .. p1 * k,
               place(r) \in (p2 - 1) * k + 1 .. p2 * k
        PROVE  FALSE
    <3>1. p1 \in Int /\ p2 - 1 \in Int /\ p1 <= p2 - 1
      BY <1>9, <1>11
    <3>2. p1 * k <= (p2 - 1) * k /\ p1 * k \in Int /\ (p2 - 1) * k \in Int
      BY <1>2, <3>1, Steps
    <3>3. place(r) \in Int /\ place(r) <= p1 * k /\ (p2 - 1) * k + 1 <= place(r)
      BY <1>5, <2>1
    <3> QED  BY <3>2, <3>3
  <2> QED  BY <1>4, <2>1
<1>12. ASSUME NEW p \in 1 .. last, all # {}
       PROVE  at(p) # {}
  <2>1. (p - 1) * k + 1 \in 1 .. n
    BY <1>1, <1>2, <1>3, <1>7, <1>12, PagesReach
  <2>2. PICK r \in all : place(r) = (p - 1) * k + 1
    BY <1>6, <2>1
  <2>3. p * k = (p - 1) * k + k /\ (p - 1) * k \in Int
    <3>1. p - 1 \in Int /\ (p - 1) + 1 = p
      BY <1>9
    <3> QED  BY <1>2, <3>1, Steps
  <2>4. place(r) \in (p - 1) * k + 1 .. p * k
    BY <1>2, <2>2, <2>3
  <2> QED  BY <1>4, <2>4
<1>13. \A p1, p2 \in 1 .. last : p1 # p2 => at(p1) \cap at(p2) = {}
  <2>1. \A p1, p2 \in 1 .. last : p1 # p2 => p1 < p2 \/ p2 < p1
    BY <1>9
  <2> QED  BY <1>11, <2>1
<1> QED  BY <1>9, <1>10, <1>12, <1>13 DEF all, last, at

(***************************************************************************)
(* What the steps keep: the page is one there is unless it was stranded,   *)
(* and ticked are the rows that were meant, or the places they have on the *)
(* page as long as nothing has moved.                                      *)
(***************************************************************************)
ListTypes ==
  /\ given \in SUBSET Ids /\ meant \in SUBSET Ids
  /\ pageNo \in 1 .. Cardinality(Ids) /\ pageSize \in Sizes /\ sortDir \in Sorts
  /\ keyed \in BOOLEAN /\ stranded \in BOOLEAN /\ moved \in BOOLEAN
OnAPage == ~ stranded => pageNo <= List!PageCount(given, filter, pageSize)
Keys(rs) == {List!KeyFor(r) : r \in rs}
Meant ==
  /\ keyed => ticks = meant
  /\ ~ keyed /\ ~ moved => ticks = Keys(meant) /\ meant \subseteq List!Shown
TableInv == ListTypes /\ OnAPage /\ Meant

\* On a page each row has a key of its own.
LEMMA KeysInjective ==
  ASSUME ListTypes, NEW a \in List!Shown, NEW b \in List!Shown,
         List!KeyFor(a) = List!KeyFor(b)
  PROVE  a = b
<1>1. List!Shown \in SUBSET Ids
  BY DEF ListTypes, List!Shown, List!OnPage, List!Filtered
<1> HIDE DEF Sorts
<1>2. CASE keyed
  BY <1>2 DEF List!KeyFor
<1>3. CASE ~ keyed
  BY <1>1, <1>3, PlaceInjective DEF List!KeyFor, ListTypes
<1> QED  BY <1>2, <1>3

\* The invariant is more than the property.
LEMMA TableHolds == TableInv => List!TableShows
<1> SUFFICES ASSUME TableInv PROVE List!TableShows
  OBVIOUS
<1> USE DEF TableInv, ListTypes
<1> DEFINE all == List!Filtered(given, filter)
           last == List!PageCount(given, filter, pageSize)
           at(p) == List!OnPage(p, given, filter, sortDir, pageSize)
<1>1. /\ last \in Nat \ {0}
      /\ UNION {at(p) : p \in 1 .. last} = all
      /\ \A p1, p2 \in 1 .. last : p1 # p2 => at(p1) \cap at(p2) = {}
      /\ \A p \in 1 .. last : all # {} => at(p) # {}
  BY PagesCover
<1>2. all # {} /\ ~ stranded => List!Shown # {}
  <2>1. Cardinality(Ids) \in Nat
    BY RowsAssumption, FS_CardinalityType
  <2>2. ~ stranded => pageNo \in 1 .. last
    BY <1>1, <2>1 DEF OnAPage
  <2>3. List!Shown = at(pageNo)
    BY DEF List!Shown
  <2> HIDE DEF all, last, at
  <2> QED  BY <1>1, <2>2, <2>3
<1>3. keyed => ticks = meant
  BY DEF Meant
<1>4. ASSUME ~ keyed, ~ moved
      PROVE  {r \in List!Shown : List!KeyFor(r) \in ticks} = meant
  <2>1. ticks = {List!KeyFor(r) : r \in meant} /\ meant \subseteq List!Shown
    BY <1>4 DEF Meant, Keys
  <2>2. \A a, b \in List!Shown : List!KeyFor(a) = List!KeyFor(b) => a = b
    BY KeysInjective
  <2> QED  BY <2>1, <2>2
<1> QED  BY <1>1, <1>2, <1>3, <1>4, Zenon DEF List!TableShows

\* At first nothing is there.
LEMMA ListInitInv == List!DataTableInit => TableInv
<1> SUFFICES ASSUME List!DataTableInit PROVE TableInv
  OBVIOUS
<1> USE DEF List!DataTableInit
<1>1. pageSize \in Sizes
  BY RowsAssumption
<1>2. Cardinality(Ids) \in Nat \ {0}
  BY RowsAssumption, FS_EmptySet, FS_CardinalityType
<1>3. sortDir \in Sorts
  BY DEF Sorts
<1>4. ListTypes
  <2>1. 1 \in 1 .. Cardinality(Ids)
    BY <1>2
  <2>2. keyed \in BOOLEAN /\ stranded \in BOOLEAN /\ moved \in BOOLEAN
    BY Zenon
  <2> QED  BY <1>1, <1>3, <2>1, <2>2 DEF ListTypes
<1>5. OnAPage
  <2>1. List!PageCount(given, filter, pageSize) \in Nat \ {0}
    BY <1>1, <1>3, PagesCover
  <2> QED  BY <2>1 DEF OnAPage
<1>6. Meant
  BY DEF Meant, Keys
<1> QED  BY <1>4, <1>5, <1>6 DEF TableInv

\* Other rows, another order or another page leave what is ticked, and what it
\* means as long as the page shows the same in the same order.
LEMMA ShowMeant ==
  ASSUME TableInv, NEW s \in SUBSET Ids, NEW q, NEW dir \in Sorts, NEW p, NEW k,
         List!Show(s, q, dir, p, k)
  PROVE  Meant'
<1> USE DEF TableInv
<1>1. UNCHANGED <<keyed, ticks, meant>>
  BY DEF List!Show
<1>2. List!Shown' = List!OnPage(p, s, q, dir, k) /\ sortDir' = dir
  BY DEF List!Show, List!Shown
<1>3. keyed' => ticks' = meant'
  BY <1>1 DEF Meant
<1>4. ASSUME ~ keyed', ~ moved'
      PROVE  ticks' = Keys(meant)' /\ meant' \subseteq List!Shown'
  <2>1. /\ ~ moved
        /\ ticks # {} => List!OnPage(p, s, q, dir, k) = List!Shown /\ dir = sortDir
    BY <1>4 DEF List!Show
  <2>2. ~ keyed /\ ticks = Keys(meant) /\ meant \subseteq List!Shown
    BY <1>1, <1>4, <2>1 DEF Meant
  <2>3. CASE ticks = {}
    <3>1. meant = {}
      BY <2>2, <2>3 DEF Keys
    <3> QED  BY <1>1, <2>3, <3>1 DEF Keys
  <2>4. CASE ticks # {}
    <3>1. List!Shown' = List!Shown /\ sortDir' = sortDir
      BY <1>2, <2>1, <2>4
    <3>2. \A r : List!KeyFor(r)' = List!KeyFor(r)
      BY <1>1, <3>1 DEF List!KeyFor, List!Place
    <3>3. Keys(meant)' = Keys(meant)
      BY <1>1, <3>2 DEF Keys
    <3> QED  BY <1>1, <2>2, <3>1, <3>3
  <2> QED  BY <2>3, <2>4
<1> QED  BY <1>3, <1>4 DEF Meant

\* There is a page at least, and there are no more than rows.
LEMMA PageCountType ==
  ASSUME NEW s \in SUBSET Ids, NEW q, NEW k \in Sizes
  PROVE  /\ List!PageCount(s, q, k) \in Nat \ {0}
         /\ List!PageCount(s, q, k) <= Cardinality(Ids) /\ Cardinality(Ids) \in Nat \ {0}
<1>1. "none" \in Sorts
  BY DEF Sorts
<1> QED  BY <1>1, PagesCover, RowsAssumption, FS_EmptySet, FS_CardinalityType

\* The steps that change what is shown.
LEMMA ShowInv ==
  ASSUME TableInv,
         NEW s \in SUBSET Ids, NEW q, NEW dir \in Sorts,
         NEW p \in 1 .. Cardinality(Ids), NEW k \in Sizes, List!Show(s, q, dir, p, k),
         stranded' \in BOOLEAN, ~ stranded' => p <= List!PageCount(s, q, k)
  PROVE  TableInv'
<1>1. /\ given' = s /\ filter' = q /\ sortDir' = dir /\ pageNo' = p /\ pageSize' = k
      /\ UNCHANGED <<keyed, meant>>
  BY DEF List!Show
<1>2. moved' \in BOOLEAN
  BY Zenon DEF List!Show
<1>3. ListTypes'
  BY <1>1, <1>2 DEF TableInv, ListTypes
<1>4. OnAPage'
  <2>1. List!PageCount(given, filter, pageSize)' = List!PageCount(s, q, k)
    BY <1>1
  <2> QED  BY <1>1, <2>1 DEF OnAPage
<1> QED  BY <1>3, <1>4, ShowMeant DEF TableInv

\* Ticking a row or a page.
LEMMA TickInv ==
  ASSUME TableInv, NEW keys, NEW toggled \in SUBSET Ids, List!Tick(keys, toggled),
         keyed => keys = toggled,
         ~ keyed /\ ~ moved => keys = Keys(toggled) /\ toggled \subseteq List!Shown
  PROVE  TableInv'
<1>1. /\ ticks' = keys /\ meant' = toggled
      /\ UNCHANGED <<given, filter, sortDir, pageNo, pageSize, keyed, stranded, moved>>
  BY DEF List!Tick
<1>2. ListTypes'
  BY <1>1 DEF TableInv, ListTypes
<1>3. OnAPage'
  <2>1. List!PageCount(given, filter, pageSize)' = List!PageCount(given, filter, pageSize)
    BY <1>1
  <2> QED  BY <1>1, <2>1 DEF TableInv, OnAPage
<1>4. List!Shown' = List!Shown
  BY <1>1 DEF List!Shown
<1>5. \A r : List!KeyFor(r)' = List!KeyFor(r)
  BY <1>1, <1>4 DEF List!KeyFor
<1>6. Keys(meant)' = Keys(toggled)
  BY <1>1, <1>5 DEF Keys
<1>7. Meant'
  BY <1>1, <1>4, <1>6 DEF Meant
<1> QED  BY <1>2, <1>3, <1>7 DEF TableInv

\* A row is ticked or unticked: the key that is found is its own.
LEMMA ToggleRowInv ==
  ASSUME TableInv, NEW r \in Ids, List!ToggleRow(r)
  PROVE  TableInv'
<1>1. r \in List!Shown /\ List!Shown \in SUBSET Ids /\ meant \in SUBSET Ids
  BY DEF List!ToggleRow, TableInv, ListTypes, List!Shown, List!OnPage,
         List!Filtered
<1>2. keyed => List!KeyFor(r) = r /\ ticks = meant
  BY DEF List!KeyFor, TableInv, Meant
<1>3. \A x \in List!Shown : List!KeyFor(x) = List!KeyFor(r) => x = r
  BY <1>1, KeysInjective DEF TableInv
<1>4. ~ keyed /\ ~ moved =>
        ticks = {List!KeyFor(x) : x \in meant} /\ meant \subseteq List!Shown
  BY DEF TableInv, Meant, Keys
<1>5. CASE List!KeyFor(r) \in ticks
  <2>1. List!Tick(ticks \ {List!KeyFor(r)}, meant \ {r})
    BY <1>5 DEF List!ToggleRow
  <2>2. keyed => ticks \ {List!KeyFor(r)} = meant \ {r}
    BY <1>2
  <2>3. ~ keyed /\ ~ moved =>
          /\ ticks \ {List!KeyFor(r)} = {List!KeyFor(x) : x \in meant \ {r}}
          /\ meant \ {r} \subseteq List!Shown
    BY <1>3, <1>4
  <2> QED  BY <1>1, <2>1, <2>2, <2>3, TickInv DEF Keys
<1>6. CASE List!KeyFor(r) \notin ticks
  <2>1. List!Tick(ticks \cup {List!KeyFor(r)}, meant \cup {r})
    BY <1>6 DEF List!ToggleRow
  <2>2. keyed => ticks \cup {List!KeyFor(r)} = meant \cup {r}
    BY <1>2
  <2>3. ~ keyed /\ ~ moved =>
          /\ ticks \cup {List!KeyFor(r)} = {List!KeyFor(x) : x \in meant \cup {r}}
          /\ meant \cup {r} \subseteq List!Shown
    BY <1>1, <1>4
  <2> QED  BY <1>1, <2>1, <2>2, <2>3, TickInv DEF Keys
<1> QED  BY <1>5, <1>6

\* All rows of the page are, by their own keys.
LEMMA ToggleAllInv ==
  ASSUME TableInv, List!ToggleAllOnPage
  PROVE  TableInv'
<1> DEFINE keys == {List!KeyFor(r) : r \in List!Shown}
<1>1. List!Shown \in SUBSET Ids /\ meant \in SUBSET Ids
  BY DEF TableInv, ListTypes, List!Shown, List!OnPage, List!Filtered
<1>2. keyed => keys = List!Shown /\ ticks = meant
  BY DEF List!KeyFor, TableInv, Meant
<1>3. ~ keyed /\ ~ moved =>
        ticks = {List!KeyFor(x) : x \in meant} /\ meant \subseteq List!Shown
  BY DEF TableInv, Meant, Keys
<1>4. CASE keys # {} /\ keys \subseteq ticks
  <2>1. List!Tick(ticks \ keys, meant \ List!Shown)
    BY <1>4, Zenon DEF List!ToggleAllOnPage
  <2>2. keyed => ticks \ keys = meant \ List!Shown
    BY <1>2
  <2>3. ~ keyed /\ ~ moved =>
          /\ ticks \ keys = {List!KeyFor(x) : x \in meant \ List!Shown}
          /\ meant \ List!Shown \subseteq List!Shown
    BY <1>3
  <2> QED  BY <1>1, <2>1, <2>2, <2>3, TickInv DEF Keys
<1>5. CASE ~ (keys # {} /\ keys \subseteq ticks)
  <2>1. List!Tick(ticks \cup keys, meant \cup List!Shown)
    BY <1>5, Zenon DEF List!ToggleAllOnPage
  <2>2. keyed => ticks \cup keys = meant \cup List!Shown
    BY <1>2
  <2>3. ~ keyed /\ ~ moved =>
          /\ ticks \cup keys = {List!KeyFor(x) : x \in meant \cup List!Shown}
          /\ meant \cup List!Shown \subseteq List!Shown
    BY <1>3
  <2> QED  BY <1>1, <2>1, <2>2, <2>3, TickInv DEF Keys
<1> QED  BY <1>4, <1>5

\* Every step keeps the invariant.
LEMMA ListNextInv == TableInv /\ [List!DataTableNext]_list => TableInv'
<1> SUFFICES ASSUME TableInv, [List!DataTableNext]_list PROVE TableInv'
  OBVIOUS
<1>0. /\ given \in SUBSET Ids /\ pageNo \in 1 .. Cardinality(Ids) /\ pageSize \in Sizes
      /\ sortDir \in Sorts /\ stranded \in BOOLEAN
      /\ ~ stranded => pageNo <= List!PageCount(given, filter, pageSize)
      /\ Cardinality(Ids) \in Nat \ {0}
      /\ List!PageCount(given, filter, pageSize) \in Nat \ {0}
      /\ List!PageCount(given, filter, pageSize) <= Cardinality(Ids)
  BY PageCountType DEF TableInv, ListTypes, OnAPage
<1>1. ASSUME NEW s \in SUBSET Ids, List!Load(s) PROVE TableInv'
  <2>1. List!Show(s, filter, sortDir, pageNo, pageSize)
    BY <1>1 DEF List!Load
  <2>2. stranded' \in BOOLEAN
    BY <1>1, Zenon DEF List!Load
  <2>3. List!PageCount(s, filter, pageSize) \in Nat \ {0}
    BY <1>0, PageCountType
  <2>4. ~ stranded' => pageNo <= List!PageCount(s, filter, pageSize)
    <3>1. ~ stranded' => ~ (pageNo > List!PageCount(s, filter, pageSize))
      BY <1>1, Zenon DEF List!Load
    <3> QED  BY <1>0, <2>3, <3>1
  <2> QED  BY <1>0, <2>1, <2>2, <2>4, ShowInv
<1>2. ASSUME NEW q, List!LookFor(q) PROVE TableInv'
  <2>1. List!Show(given, q, sortDir, 1, pageSize) /\ stranded' = FALSE
    BY <1>2 DEF List!LookFor
  <2>2. 1 <= List!PageCount(given, q, pageSize) /\ 1 \in 1 .. Cardinality(Ids)
    BY <1>0, PageCountType
  <2> QED  BY <1>0, <2>1, <2>2, ShowInv
<1>3. ASSUME List!ToggleSort PROVE TableInv'
  <2> DEFINE dir == IF sortDir = "asc" THEN "desc" ELSE "asc"
  <2>1. List!Show(given, filter, dir, pageNo, pageSize) /\ stranded' = stranded
    BY <1>3 DEF List!ToggleSort
  <2>2. dir \in Sorts
    BY DEF Sorts
  <2> HIDE DEF dir
  <2> QED  BY <1>0, <2>1, <2>2, ShowInv
<1>4. ASSUME NEW p \in 1 .. Cardinality(Ids), List!Turn(p) PROVE TableInv'
  <2>1. List!Show(given, filter, sortDir, p, pageSize)
    BY <1>4 DEF List!Turn
  <2>2. stranded' \in BOOLEAN
    <3>1. (p > List!PageCount(given, filter, pageSize)) \in BOOLEAN
      BY <1>0
    <3> QED  BY <1>4, <3>1 DEF List!Turn
  <2>3. ~ stranded' => p <= List!PageCount(given, filter, pageSize)
    <3>1. ~ stranded' => ~ (p > List!PageCount(given, filter, pageSize))
      BY <1>4, Zenon DEF List!Turn
    <3> QED  BY <1>0, <3>1
  <2> QED  BY <1>0, <2>1, <2>2, <2>3, ShowInv
<1>5. ASSUME List!PrevPage PROVE TableInv'
  <2> DEFINE p == List!Larger(1, pageNo - 1)
  <2>1. List!Turn(p)
    BY <1>5 DEF List!PrevPage
  <2>2. p \in 1 .. Cardinality(Ids)
    BY <1>0 DEF List!Larger
  <2> HIDE DEF p
  <2> QED  BY <1>4, <2>1, <2>2
<1>6. ASSUME List!NextPage PROVE TableInv'
  <2> DEFINE last == List!PageCount(given, filter, pageSize)
             p == List!Smaller(last, pageNo + 1)
  <2>1. List!Turn(p) /\ pageNo < last
    BY <1>6 DEF List!NextPage
  <2>2. p \in 1 .. Cardinality(Ids) /\ p <= last
    <3> HIDE DEF last
    <3>1. last \in Nat \ {0} /\ last <= Cardinality(Ids)
      BY <1>0 DEF last
    <3> QED  BY <1>0, <2>1, <3>1 DEF List!Smaller
  <2> HIDE DEF p
  <2> QED  BY <1>4, <2>1, <2>2
<1>7. ASSUME NEW k \in Sizes, List!SetPageSize(k) PROVE TableInv'
  <2>1. List!Show(given, filter, sortDir, 1, k) /\ stranded' = FALSE
    BY <1>7 DEF List!SetPageSize
  <2>2. 1 <= List!PageCount(given, filter, k) /\ 1 \in 1 .. Cardinality(Ids)
    BY <1>0, PageCountType
  <2> QED  BY <1>0, <2>1, <2>2, ShowInv
<1>8. ASSUME NEW k \in Sizes, List!GivePageSize(k) PROVE TableInv'
  <2>1. List!Show(given, filter, sortDir, pageNo, k)
    BY <1>8 DEF List!GivePageSize
  <2>2. stranded' \in BOOLEAN
    BY <1>8, Zenon DEF List!GivePageSize
  <2>3. List!PageCount(given, filter, k) \in Nat \ {0}
    BY <1>0, PageCountType
  <2>4. ~ stranded' => pageNo <= List!PageCount(given, filter, k)
    <3>1. ~ stranded' => ~ (pageNo > List!PageCount(given, filter, k))
      BY <1>8, Zenon DEF List!GivePageSize
    <3> QED  BY <1>0, <2>3, <3>1
  <2> QED  BY <1>0, <2>1, <2>2, <2>4, ShowInv
<1>9. ASSUME UNCHANGED list PROVE TableInv'
  <2>1. UNCHANGED <<given, filter, sortDir, pageNo, pageSize, keyed, ticks, meant,
            stranded, moved>>
    BY <1>9 DEF list
  <2>2. List!Shown' = List!Shown
    BY <2>1 DEF List!Shown
  <2>3. \A r : List!KeyFor(r)' = List!KeyFor(r)
    BY <2>1, <2>2 DEF List!KeyFor
  <2>4. Keys(meant)' = Keys(meant)
    BY <2>1, <2>3 DEF Keys
  <2> QED  BY <2>1, <2>2, <2>4 DEF TableInv, ListTypes, OnAPage, Meant
<1> QED  BY <1>1, <1>2, <1>3, <1>5, <1>6, <1>7, <1>8, <1>9, ToggleRowInv,
            ToggleAllInv
         DEF List!DataTableNext

\* The invariant of the table.
THEOREM TableInvariance == ListSpec => []TableInv
<1> QED  BY ListInitInv, ListNextInv, PTL DEF ListSpec
-----------------------------------------------------------------------------
(***************************************************************************)
(* The views.  What is shown is as it should be, or a request is under way *)
(* that will make it so, or a handler has such a request still before it,  *)
(* unless an error is shown or one of the races has happened.  That rests  *)
(* on the tables of handlers: what a handler changes it reads again.       *)
(***************************************************************************)
ViewSpec == ViewsInit /\ [][ViewsNext]_viewVars

OfOne(v) == {p \in DOMAIN Panes(v) : Panes(v)[p] = "one"}

\* What request i of a handler does.
Reads(v, h, i) ==
  /\ h.requests[i].panes \subseteq DOMAIN Panes(v)
  /\ h.requests[i].do = "read" =>
       \A p \in h.requests[i].panes : h.requests[i].of = Panes(v)[p]
  /\ h.requests[i].do = "post" => h.requests[i].panes \subseteq OfOne(v)
  /\ h.requests[i].do = "post" /\ h.requests[i].panes # {} =>
       h.requests[i].picks /\ h.requests[i].of # All
  /\ h.requests[i].own =>
       /\ h.requests[i].do = "read" /\ h.requests[i].panes = DOMAIN Panes(v)
       /\ i = Len(h.requests)
  /\ h.requests[i].of \in {"one", "both"} \/ h.requests[i].picks =>
       h.about \in {"any", "selected"}

\* What is about one subject is about what is selected.
Aims(v, h, i) ==
  \A p \in h.requests[i].panes \cap OfOne(v) :
    \/ h.requests[i].picks \/ h.requests[i].again
    \/ i = 1 /\ "first" \in h.sets
    \/ i > 1 /\ h.requests[i - 1].picks

\* A change that a pane shows is read again; and so is a choice.
Affects(v, h, i, p) ==
  IF p \in OfOne(v)
  THEN (h.requests[i].do = "post" /\ h.requests[i].of \in {"one", "both"})
       \/ h.requests[i].picks
  ELSE h.requests[i].do = "post" /\ h.requests[i].of \in {All, "both"}
Follows(v, h, i) ==
  \A p \in DOMAIN Panes(v) \ h.requests[i].panes :
    Affects(v, h, i, p) =>
      \E j \in i + 1 .. Len(h.requests) : p \in h.requests[j].panes

\* A handler.
Shaped(v, h) ==
  /\ Len(h.requests) \in Nat /\ DOMAIN h.requests = 1 .. Len(h.requests)
  /\ h.about \in {All, "any", "selected", NoSubject}
  /\ "first" \in h.sets => h.about # All
  /\ "first" \in h.sets /\ Len(h.requests) > 0 => OfOne(v) \subseteq h.requests[1].panes
  /\ Len(h.requests) = 0 => h.about = NoSubject /\ "busy" \notin h.sets
Fine(v, h) ==
  /\ Shaped(v, h)
  /\ \A i \in 1 .. Len(h.requests) :
       /\ h.requests[i].do \in {"post", "read"} /\ h.requests[i].own \in BOOLEAN
       /\ Reads(v, h, i) /\ Aims(v, h, i) /\ Follows(v, h, i)

\* A handler that changes something waits for busy, and sets it.
Patient(name, h) ==
  /\ name # "mount" /\ "busy" \in h.sets => "busy" \in h.off
  /\ \A i \in 1 .. Len(h.requests) : h.requests[i].do = "post" => "busy" \in h.sets

\* The first one reads all there is to be read.
Opens(v, h) ==
  /\ Len(h.requests) > 0
  /\ IF v = "grant" THEN h.about = "any" /\ DOMAIN Panes(v) \subseteq h.requests[1].panes
     ELSE /\ h.about = All
          /\ \A p \in DOMAIN Panes(v) \ OfOne(v) :
               \E i \in 1 .. Len(h.requests) : p \in h.requests[i].panes

\* What the table says of a handler.
Sound(v, name, h) ==
  /\ Fine(v, h)
  /\ v \in Waiting => Patient(name, h)
  /\ name = "mount" => Opens(v, h)
FineTable ==
  \A v \in views :
    /\ "mount" \in DOMAIN Handlers[v]
    /\ \A name \in DOMAIN Handlers[v] : Sound(v, name, Handlers[v][name])
-----------------------------------------------------------------------------
(***************************************************************************)
(* The handlers, view by view.                                             *)
(***************************************************************************)
\* The panes are one, or two.
LEMMA PaneKinds ==
  ASSUME NEW v
  PROVE  /\ DOMAIN Panes(v) \subseteq {1, 2} /\ OfOne(v) \subseteq DOMAIN Panes(v)
         /\ \A p \in DOMAIN Panes(v) :
              IF p \in OfOne(v) THEN Panes(v)[p] = "one" ELSE Panes(v)[p] = All
BY ViewsAssumption DEF Panes, OfOne

\* A view with one pane, of the list.
Plain(v) == v # "grant" /\ DOMAIN Panes(v) = {1} /\ Panes(v)[1] = All

\* What a request is.
LEMMA RequestFields ==
  ASSUME NEW of, NEW panes
  PROVE  /\ Post(of).do = "post" /\ Post(of).of = of /\ Post(of).panes = {}
         /\ ~ Post(of).own /\ ~ Post(of).picks /\ ~ Post(of).again /\ Post(of).own \in BOOLEAN
         /\ Read(of, panes).do = "read" /\ Read(of, panes).of = of
         /\ Read(of, panes).panes = panes
         /\ ~ Read(of, panes).own /\ ~ Read(of, panes).picks /\ ~ Read(of, panes).again
         /\ Read(of, panes).own \in BOOLEAN
         /\ Load(of).do = "read" /\ Load(of).of = of /\ Load(of).panes = {1}
         /\ Load(of).own /\ ~ Load(of).picks /\ ~ Load(of).again /\ Load(of).own \in BOOLEAN
BY DEF Post, Read, Load

\* A change and the list, or the list alone.
LEMMA PlainFine ==
  ASSUME NEW v, Plain(v), NEW off, NEW sets, "first" \notin sets
  PROVE  Fine(v, Change(off, sets)) /\ Fine(v, Handler(<<Load(All)>>, off, sets, All))
<1> DEFINE post == Post(All)
           load == Load(All)
<1>1. /\ post.do = "post" /\ post.of = All /\ post.panes = {} /\ ~ post.own
      /\ ~ post.picks /\ ~ post.again /\ post.own \in BOOLEAN
  BY RequestFields
<1>2. /\ load.do = "read" /\ load.of = All /\ load.panes = {1} /\ load.own
      /\ ~ load.picks /\ ~ load.again /\ load.own \in BOOLEAN
  BY RequestFields
<1>3. OfOne(v) = {}
  BY ViewsAssumption DEF Plain, OfOne
<1>4. /\ Change(off, sets).requests = <<post, load>> /\ Change(off, sets).about = All
      /\ Change(off, sets).sets = sets
  BY DEF Change, Handler
<1>6. /\ Handler(<<Load(All)>>, off, sets, All).requests = <<load>>
      /\ Handler(<<Load(All)>>, off, sets, All).about = All
      /\ Handler(<<Load(All)>>, off, sets, All).sets = sets
  BY DEF Handler
<1> DEFINE c == Change(off, sets)
           r == Handler(<<Load(All)>>, off, sets, All)
<1> HIDE DEF post, load, c, r
<1>7. Fine(v, c)
  <2>1. Len(c.requests) = 2 /\ c.requests[1] = post /\ c.requests[2] = load
    BY <1>4 DEF c
  <2>2. Shaped(v, c)
    BY <1>4, <2>1 DEF Shaped, c
  <2>3. \A i \in 1 .. 2 : i = 1 \/ i = 2
    OBVIOUS
  <2>4. Reads(v, c, 1) /\ Reads(v, c, 2)
    BY <1>1, <1>2, <1>3, <2>1, ViewsAssumption DEF Reads, Plain
  <2>5. Aims(v, c, 1) /\ Aims(v, c, 2)
    BY <1>3 DEF Aims
  <2>6. Follows(v, c, 1) /\ Follows(v, c, 2)
    <3>1. 2 \in 1 + 1 .. 2
      OBVIOUS
    <3> QED  BY <1>1, <1>2, <1>3, <2>1, <3>1 DEF Follows, Affects, Plain
  <2> QED  BY <1>1, <1>2, <2>1, <2>2, <2>3, <2>4, <2>5, <2>6 DEF Fine
<1>8. Fine(v, r)
  <2>1. Len(r.requests) = 1 /\ r.requests[1] = load
    BY <1>6 DEF r
  <2>2. Shaped(v, r)
    BY <1>6, <2>1 DEF Shaped, r
  <2>3. \A i \in 1 .. 1 : i = 1
    OBVIOUS
  <2>4. Reads(v, r, 1)
    BY <1>2, <1>3, <1>6, <2>1, ViewsAssumption DEF Reads, Plain
  <2>5. Aims(v, r, 1)
    BY <1>3 DEF Aims
  <2>6. Follows(v, r, 1)
    BY <1>2, <1>3, <2>1 DEF Follows, Affects, Plain
  <2> QED  BY <1>2, <2>1, <2>2, <2>3, <2>4, <2>5, <2>6 DEF Fine
<1> QED  BY <1>7, <1>8 DEF c, r

\* A view that opens by reading its list.
LEMMA PlainOpens ==
  ASSUME NEW v, Plain(v), NEW off, NEW sets
  PROVE  LET h == Handler(<<Load(All)>>, off, sets, All)
         IN  Opens(v, h) /\ (\A i \in 1 .. Len(h.requests) : h.requests[i].do = "read")
<1> DEFINE h == Handler(<<Load(All)>>, off, sets, All)
           load == Load(All)
<1>1. h.about = All /\ Len(h.requests) = 1 /\ h.requests[1] = load
  BY DEF Handler
<1>2. load.panes = {1} /\ load.do = "read"
  BY RequestFields
<1> HIDE DEF h, load
<1>3. 1 \in 1 .. Len(h.requests) /\ \A i \in 1 .. Len(h.requests) : i = 1
  BY <1>1
<1>4. Opens(v, h)
  BY <1>1, <1>2, <1>3 DEF Opens, Plain
<1> QED  BY <1>1, <1>2, <1>3, <1>4 DEF h

\* Of one that reads only, and of one that changes something and waits.
LEMMA PlainSound ==
  ASSUME NEW v, Plain(v), NEW name, NEW off
  PROVE  /\ Sound(v, name, Refresh(off))
         /\ \A sets : name # "mount" /\ "first" \notin sets
                /\ {"busy"} \subseteq sets \cap off =>
              Sound(v, name, Change(off, sets))
<1>1. Sound(v, name, Refresh(off))
  <2> DEFINE h == Handler(<<Load(All)>>, off, {}, All)
  <2>1. Fine(v, h)
    BY PlainFine
  <2>2. h.sets = {}
    BY DEF Handler
  <2>3. Opens(v, h) /\ \A i \in 1 .. Len(h.requests) : h.requests[i].do = "read"
    BY PlainOpens
  <2> HIDE DEF h
  <2>4. Sound(v, name, h)
    BY <2>1, <2>2, <2>3 DEF Sound, Patient
  <2> QED  BY <2>4 DEF h, Refresh
<1>2. ASSUME NEW sets, name # "mount", "first" \notin sets, "busy" \in sets, "busy" \in off
      PROVE  Sound(v, name, Change(off, sets))
  <2>1. Fine(v, Change(off, sets))
    BY <1>2, PlainFine
  <2>2. Change(off, sets).sets = sets /\ Change(off, sets).off = off
    BY DEF Change, Handler
  <2> QED  BY <1>2, <2>1, <2>2 DEF Sound, Patient
<1> QED  BY <1>1, <1>2

\* Of one request that no pane shows.
LEMMA UnshownFine ==
  ASSUME NEW v, Plain(v), NEW off, NEW sets, "first" \notin sets,
         NEW r \in {Post("rates"), Read(All, {})}
  PROVE  Fine(v, Handler(<<r>>, off, sets, All))
<1> DEFINE h == Handler(<<r>>, off, sets, All)
<1>1. /\ h.sets = sets /\ Len(h.requests) = 1 /\ h.requests[1] = r /\ h.about = All
  BY DEF Handler
<1>2. /\ r.do \in {"post", "read"} /\ r.of \in {"rates", All} /\ r.panes = {}
      /\ r.do = "post" => r.of = "rates"
      /\ ~ r.own /\ ~ r.picks /\ r.own \in BOOLEAN
  BY RequestFields
<1> HIDE DEF h
<1>3. \A i \in 1 .. 1 : i = 1
  OBVIOUS
<1>4. OfOne(v) = {} /\ All \notin {"one", "both", "rates"}
  BY ViewsAssumption DEF OfOne, Plain
<1>5. Reads(v, h, 1)
  BY <1>1, <1>2, <1>4 DEF Reads, Plain
<1>6. Aims(v, h, 1) /\ Follows(v, h, 1)
  BY <1>1, <1>2, <1>4 DEF Aims, Follows, Affects
<1>7. Shaped(v, h)
  BY <1>1 DEF Shaped
<1> QED  BY <1>1, <1>2, <1>3, <1>5, <1>6, <1>7 DEF Fine, h

\* Payroll.
LEMMA PayrollSound == \A name \in DOMAIN PayrollView :
    Sound("payroll", name, PayrollView[name])
<1>1. Plain("payroll")
  BY DEF Plain, Panes
<1>2. /\ Sound("payroll", "mount", Mount) /\ Sound("payroll", "refresh", Refresh({"loading"}))
      /\ Sound("payroll", "createRun", Change({"busy"}, {"busy", "clears"}))
      /\ \A name \in {"calculate", "submitRun", "confirmApprove"} :
           Sound("payroll", name, Change(PayrollRow, {"busy"}))
  BY <1>1, PlainSound DEF Mount, PayrollRow
<1>3. Sound("payroll", "refreshFx",
          Handler(<<Post("rates")>>, {"busy"}, {"busy", "clears"}, All))
  <2>1. Fine("payroll", Handler(<<Post("rates")>>, {"busy"}, {"busy", "clears"}, All))
    BY <1>1, UnshownFine
  <2> QED  BY <2>1 DEF Sound, Patient, Handler
<1>4. Sound("payroll", "exportPayslips",
            Handler(<<Read(All, {})>>, PayrollRow, {"busy", "clears"}, All))
  <2>1. Fine("payroll", Handler(<<Read(All, {})>>, PayrollRow, {"busy", "clears"}, All))
    BY <1>1, UnshownFine
  <2> QED  BY <2>1 DEF Sound, Patient, Handler, PayrollRow
<1> QED  BY <1>2, <1>3, <1>4 DEF PayrollView

\* The expenses.
LEMMA FinanceSound == \A name \in DOMAIN FinanceView :
    Sound("finance", name, FinanceView[name])
<1>1. Plain("finance")
  BY DEF Plain, Panes
<1>2. /\ Sound("finance", "mount", Mount) /\ Sound("finance", "refresh", Refresh({"loading"}))
      /\ \A name \in {"createCoa", "createExpense"} :
           Sound("finance", name, Change(FinanceTab, {"busy", "clears"}))
      /\ \A name \in {"submitExpense", "approveExpense"} :
           Sound("finance", name, Change(FinanceTab, {"busy"}))
  BY <1>1, PlainSound DEF Mount, FinanceTab
<1> QED  BY <1>2 DEF FinanceView

\* Leave.
LEMMA LeaveSound == \A name \in DOMAIN LeaveView : Sound("leave", name, LeaveView[name])
<1>1. Plain("leave")
  BY DEF Plain, Panes
<1>2. /\ Sound("leave", "mount", Mount) /\ Sound("leave", "refresh", Refresh({"loading"}))
      /\ \A name \in {"createRequest", "runAccrue"} :
           Sound("leave", name, Change(LeaveForm, {"busy", "clears"}))
      /\ Sound("leave", "approve", Change(LeaveRow, {"busy"}))
  BY <1>1, PlainSound DEF Mount, LeaveForm, LeaveRow
<1> QED  BY <1>2 DEF LeaveView

\* The employees: two changes, and the list.
LEMMA EmployeesSound ==
  \A name \in DOMAIN EmployeesView : Sound("employees", name, EmployeesView[name])
<1> DEFINE h == Handler(<<Post(All), Post(All), Load(All)>>, {"busy"}, {"busy", "clears"}, All)
           post == Post(All)
           load == Load(All)
<1>1. Plain("employees")
  BY DEF Plain, Panes
<1>2. Sound("employees", "mount", Mount) /\ Sound("employees", "refresh", Refresh({"loading"}))
  BY <1>1, PlainSound DEF Mount
<1>3. /\ h.sets = {"busy", "clears"} /\ h.off = {"busy"} /\ h.about = All
      /\ Len(h.requests) = 3 /\ h.requests[1] = post /\ h.requests[2] = post
      /\ h.requests[3] = load
  BY DEF Handler
<1>4. /\ post.do = "post" /\ post.of = All /\ post.panes = {} /\ ~ post.own /\ ~ post.picks
      /\ post.own \in BOOLEAN
      /\ load.do = "read" /\ load.of = All /\ load.panes = {1} /\ load.own /\ ~ load.picks
      /\ load.own \in BOOLEAN
  BY RequestFields
<1> HIDE DEF h, post, load
<1>5. \A i \in 1 .. 3 : i = 1 \/ i = 2 \/ i = 3
  OBVIOUS
<1>6. OfOne("employees") = {} /\ All \notin {"one", "both", "rates", "any", "selected"}
  BY <1>1, ViewsAssumption DEF OfOne, Plain
<1>7. \A i \in 1 .. 3 : Reads("employees", h, i)
  BY <1>1, <1>3, <1>4, <1>5, <1>6 DEF Reads, Plain
<1>8. \A i \in 1 .. 3 : Aims("employees", h, i)
  BY <1>6 DEF Aims
<1>9. \A i \in 1 .. 3 : Follows("employees", h, i)
  <2>1. 3 \in 1 + 1 .. 3 /\ 3 \in 2 + 1 .. 3
    OBVIOUS
  <2> QED  BY <1>1, <1>3, <1>4, <1>5, <1>6, <2>1 DEF Follows, Affects, Plain
<1>10. Shaped("employees", h)
  BY <1>3 DEF Shaped
<1>11. Sound("employees", "createEmployee", h)
  BY <1>3, <1>4, <1>5, <1>7, <1>8, <1>9, <1>10 DEF Sound, Fine, Patient
<1> QED  BY <1>2, <1>11 DEF EmployeesView, h

\* The grants, whose button waits for nothing.
LEMMA GrantsSound == \A name \in DOMAIN GrantsView : Sound("grants", name, GrantsView[name])
<1>1. Plain("grants") /\ "grants" \notin Waiting
  BY DEF Plain, Panes, Waiting
<1>2. Sound("grants", "mount", Mount) /\ Sound("grants", "refresh", Refresh({}))
  BY <1>1, PlainSound DEF Mount
<1>3. Sound("grants", "createGrant", Change({}, {"clears"}))
  BY <1>1, PlainFine DEF Sound
<1> QED  BY <1>2, <1>3 DEF GrantsView

\* The reports, which only read.
LEMMA ReportsSound == \A name \in DOMAIN ReportsView :
    Sound("reports", name, ReportsView[name])
<1>1. Plain("reports")
  BY DEF Plain, Panes
<1> QED  BY <1>1, PlainSound DEF Mount, ReportsView

\* The indicators, which are busy from the start.
LEMMA IntelligenceSound ==
  \A name \in DOMAIN IntelligenceView : Sound("intelligence", name, IntelligenceView[name])
<1> DEFINE h == Handler(<<Load(All)>>, {}, {"busy"}, All)
<1>1. Plain("intelligence")
  BY DEF Plain, Panes
<1>2. Sound("intelligence", "refresh", Change({"busy"}, {"busy"}))
  BY <1>1, PlainSound
<1>3. Fine("intelligence", h)
  BY <1>1, PlainFine
<1>5. Opens("intelligence", h) /\ \A i \in 1 .. Len(h.requests) : h.requests[i].do = "read"
  BY <1>1, PlainOpens
<1> HIDE DEF h
<1>6. Sound("intelligence", "mount", h)
  BY <1>3, <1>5 DEF Sound, Patient
<1> QED  BY <1>2, <1>6 DEF IntelligenceView, h

\* Training and notifications, which only read when they open.
LEMMA ReadOnlySound ==
  /\ \A name \in DOMAIN TrainingView : Sound("training", name, TrainingView[name])
  /\ \A name \in DOMAIN NotificationsView :
         Sound("notifications", name, NotificationsView[name])
<1>1. Plain("training") /\ Plain("notifications")
  BY DEF Plain, Panes
<1> QED  BY <1>1, PlainSound DEF TrainingView, NotificationsView, Mount

\* The dashboard, which leaves out what fails.
LEMMA HomeSound == \A name \in DOMAIN HomeView : Sound("home", name, HomeView[name])
<1> DEFINE h == Handler(<<Load(All)>>, {}, {"uncaught"}, All)
<1>1. Plain("home")
  BY DEF Plain, Panes
<1>2. Fine("home", h)
  BY <1>1, PlainFine
<1>3. h.sets = {"uncaught"}
  BY DEF Handler
<1>4. Opens("home", h) /\ \A i \in 1 .. Len(h.requests) : h.requests[i].do = "read"
  BY <1>1, PlainOpens
<1> HIDE DEF h
<1>5. Sound("home", "mount", h)
  BY <1>2, <1>3, <1>4 DEF Sound, Patient
<1> QED  BY <1>5 DEF HomeView, h

\* Two panes, both of lists.
BothListed(v) == DOMAIN Panes(v) = {1, 2} /\ OfOne(v) = {} /\ Panes(v) = [p \in {1, 2} |-> All]

\* Requests about lists.
ListRequest(r) ==
  /\ r.do \in {"post", "read"} /\ r.of = All /\ ~ r.own /\ ~ r.picks /\ r.own \in BOOLEAN
  /\ r.do = "post" => r.panes = {}
  /\ r.do = "read" => r.panes \subseteq {1, 2}

\* A handler of such requests is fine if a change is followed by both lists.
LEMMA ListedFine ==
  ASSUME NEW v, BothListed(v), NEW h, h.about = All, "first" \notin h.sets,
         Len(h.requests) \in Nat \ {0},
         \A i \in 1 .. Len(h.requests) : ListRequest(h.requests[i]),
         \A i \in 1 .. Len(h.requests) : h.requests[i].do = "post" =>
           \A p \in {1, 2} : \E j \in i + 1 .. Len(h.requests) : p \in h.requests[j].panes
  PROVE  Fine(v, h)
<1> DEFINE n == Len(h.requests)
<1>1. All \notin {"one", "both", "rates", "any", "selected"}
  BY ViewsAssumption
<1>2. n \in Nat \ {0}
  OBVIOUS
<1>3. Shaped(v, h)
  BY DEF Shaped
<1>4. ASSUME NEW i \in 1 .. n PROVE Reads(v, h, i) /\ Aims(v, h, i)
  <2>1. ListRequest(h.requests[i])
    OBVIOUS
  <2> QED  BY <1>1, <2>1 DEF Reads, Aims, ListRequest, BothListed
<1>5. ASSUME NEW i \in 1 .. n PROVE Follows(v, h, i)
  <2>1. ListRequest(h.requests[i])
    OBVIOUS
  <2>2. h.requests[i].do = "post" =>
           \A p \in {1, 2} : \E j \in i + 1 .. n : p \in h.requests[j].panes
    OBVIOUS
  <2> HIDE DEF n
  <2>3. \A p \in DOMAIN Panes(v) :
            Affects(v, h, i, p) => h.requests[i].do = "post" /\ p \in {1, 2}
    BY <2>1 DEF Affects, ListRequest, BothListed
  <2>4. \A p \in DOMAIN Panes(v) : Affects(v, h, i, p) =>
           \E j \in i + 1 .. n : p \in h.requests[j].panes
    BY <2>2, <2>3
  <2> QED  BY <2>4 DEF Follows, n
<1> QED  BY <1>3, <1>4, <1>5 DEF Fine, ListRequest

\* The field: what changes is the local store, and both panes are read again.
LEMMA FieldSound == \A name \in DOMAIN FieldView : Sound("field", name, FieldView[name])
<1> DEFINE post == Post(All)
           both == Read(All, {1, 2})
           forms == Read(All, {1})
           mount == Handler(<<both>>, {}, {"uncaught"}, All)
           pull == Handler(<<forms>>, {"busy"}, {"busy", "clears"}, All)
           change == Handler(<<post, both>>, {"busy"}, {"busy", "clears"}, All)
<1>1. BothListed("field")
  BY ViewsAssumption DEF BothListed, Panes, OfOne
<1>2. /\ ListRequest(post) /\ ListRequest(both) /\ ListRequest(forms)
      /\ post.do = "post" /\ both.do = "read" /\ forms.do = "read" /\ both.panes = {1, 2}
  BY RequestFields DEF ListRequest
<1>3. /\ Len(mount.requests) = 1 /\ mount.requests[1] = both /\ mount.about = All
      /\ mount.sets = {"uncaught"}
      /\ Len(pull.requests) = 1 /\ pull.requests[1] = forms /\ pull.about = All
      /\ pull.sets = {"busy", "clears"} /\ pull.off = {"busy"}
      /\ Len(change.requests) = 2 /\ change.requests[1] = post /\ change.requests[2] = both
      /\ change.about = All /\ change.sets = {"busy", "clears"} /\ change.off = {"busy"}
  BY DEF Handler
<1>4. FieldView = [mount |-> mount, pull |-> pull, queueLocal |-> change, syncNow |-> change]
  BY DEF FieldView
<1> HIDE DEF post, both, forms, mount, pull, change
<1>5. (\A i \in 1 .. 1 : i = 1) /\ (\A i \in 1 .. 2 : i = 1 \/ i = 2) /\ 2 \in 1 + 1 .. 2
  OBVIOUS
<1>6. Fine("field", mount) /\ Fine("field", pull)
  <2>1. Fine("field", mount)
    BY <1>1, <1>2, <1>3, <1>5, ListedFine
  <2>2. Fine("field", pull)
    BY <1>1, <1>2, <1>3, <1>5, ListedFine
  <2> QED  BY <2>1, <2>2
<1>7. Fine("field", change)
  <2>1. /\ Len(change.requests) \in Nat \ {0} /\ change.about = All
        /\ "first" \notin change.sets /\ Len(change.requests) = 2
    BY <1>3
  <2>2. \A i \in 1 .. Len(change.requests) : ListRequest(change.requests[i])
    BY <1>2, <1>3, <1>5
  <2>3. \A i \in 1 .. Len(change.requests) : change.requests[i].do = "post" =>
          \A p \in {1, 2} :
            \E j \in i + 1 .. Len(change.requests) : p \in change.requests[j].panes
    <3>1. \A i \in 1 .. 2 : change.requests[i].do = "post" => i = 1
      BY <1>2, <1>3, <1>5
    <3>2. \A p \in {1, 2} : p \in change.requests[2].panes
      BY <1>2, <1>3
    <3> QED  BY <1>5, <2>1, <3>1, <3>2
  <2> QED  BY <1>1, <2>1, <2>2, <2>3, ListedFine
<1>8. Sound("field", "mount", mount) /\ Sound("field", "pull", pull)
  <2>1. 1 \in 1 .. 1
    OBVIOUS
  <2>2. Opens("field", mount)
    BY <1>1, <1>2, <1>3, <2>1 DEF Opens, BothListed
  <2> QED  BY <1>2, <1>3, <1>5, <1>6, <2>2 DEF Sound, Patient
<1>9. Sound("field", "queueLocal", change) /\ Sound("field", "syncNow", change)
  BY <1>2, <1>3, <1>5, <1>7 DEF Sound, Patient
<1> QED  BY <1>4, <1>8, <1>9

\* Compliance: the two panes are read one after the other.
LEMMA ComplianceSound ==
  \A name \in DOMAIN ComplianceView : Sound("compliance", name, ComplianceView[name])
<1> DEFINE post == Post(All)
           a == Read(All, {1})
           b == Read(All, {2})
           mount == Handler(<<a, b>>, {}, {}, All)
           change == Handler(<<post, a, b>>, {"busy"}, {"busy", "clears"}, All)
<1>1. BothListed("compliance")
  BY ViewsAssumption DEF BothListed, Panes, OfOne
<1>2. /\ ListRequest(post) /\ ListRequest(a) /\ ListRequest(b)
      /\ post.do = "post" /\ a.do = "read" /\ b.do = "read" /\ a.panes = {1} /\ b.panes = {2}
  BY RequestFields DEF ListRequest
<1>3. /\ Len(mount.requests) = 2 /\ mount.requests[1] = a /\ mount.requests[2] = b
      /\ mount.about = All /\ mount.sets = {}
      /\ Len(change.requests) = 3 /\ change.requests[1] = post /\ change.requests[2] = a
      /\ change.requests[3] = b
      /\ change.about = All /\ change.sets = {"busy", "clears"} /\ change.off = {"busy"}
  BY DEF Handler
<1>4. ComplianceView = [mount |-> mount, publishIati |-> change]
  BY DEF ComplianceView
<1> HIDE DEF post, a, b, mount, change
<1>5. /\ \A i \in 1 .. 2 : i = 1 \/ i = 2
      /\ \A i \in 1 .. 3 : i = 1 \/ i = 2 \/ i = 3
      /\ 2 \in 1 + 1 .. 3 /\ 3 \in 1 + 1 .. 3
  OBVIOUS
<1>6. Fine("compliance", mount)
  BY <1>1, <1>2, <1>3, <1>5, ListedFine
<1>7. Fine("compliance", change)
  <2>1. \A i \in 1 .. 3 : ListRequest(change.requests[i])
    BY <1>2, <1>3, <1>5
  <2>2. \A i \in 1 .. 3 : change.requests[i].do = "post" => i = 1
    BY <1>2, <1>3, <1>5
  <2>3. \A p \in {1, 2} : \E j \in 1 + 1 .. 3 : p \in change.requests[j].panes
    BY <1>2, <1>3, <1>5
  <2>4. \A i \in 1 .. 3 : change.requests[i].do = "post" =>
          \A p \in {1, 2} : \E j \in i + 1 .. 3 : p \in change.requests[j].panes
    BY <2>2, <2>3
  <2>5. /\ Len(change.requests) \in Nat \ {0} /\ change.about = All
        /\ "first" \notin change.sets
    BY <1>3
  <2>6. \A i \in 1 .. Len(change.requests) : ListRequest(change.requests[i])
    BY <1>3, <2>1
  <2>7. \A i \in 1 .. Len(change.requests) : change.requests[i].do = "post" =>
          \A p \in {1, 2} :
            \E j \in i + 1 .. Len(change.requests) : p \in change.requests[j].panes
    <3>1. Len(change.requests) = 3
      BY <1>3
    <3> QED  BY <2>4, <3>1
  <2> QED  BY <1>1, <2>5, <2>6, <2>7, ListedFine
<1>8. Sound("compliance", "mount", mount)
  <2>1. 1 \in 1 .. 2 /\ 2 \in 1 .. 2
    OBVIOUS
  <2>2. Opens("compliance", mount)
    BY <1>1, <1>2, <1>3, <2>1 DEF Opens, BothListed
  <2> QED  BY <1>2, <1>3, <1>5, <1>6, <2>2 DEF Sound, Patient
<1>9. Sound("compliance", "publishIati", change)
  BY <1>2, <1>3, <1>5, <1>7 DEF Sound, Patient
<1> QED  BY <1>4, <1>8, <1>9

\* The grant: every change reads the grant again that is selected by then.
LEMMA GrantSound == \A name \in DOMAIN GrantDetailView :
    Sound("grant", name, GrantDetailView[name])
<1> DEFINE post == Post("one")
           load == Load("one")
           again == [Load("one") EXCEPT !.again = TRUE]
           file == Read("one", {})
           enter == Handler(<<load>>, {}, {"first"}, "any")
           change == Handler(<<post, again>>, GrantPanels, {"clears"}, "selected")
           download == Handler(<<file>>, GrantPanels, {"clears"}, "selected")
<1>1. /\ DOMAIN Panes("grant") = {1} /\ Panes("grant")[1] = "one" /\ OfOne("grant") = {1}
      /\ "grant" \notin Waiting
  BY DEF Panes, OfOne, Waiting
<1>2. /\ post.do = "post" /\ post.of = "one" /\ post.panes = {} /\ ~ post.own /\ ~ post.picks
      /\ post.own \in BOOLEAN
      /\ load.do = "read" /\ load.of = "one" /\ load.panes = {1} /\ load.own /\ ~ load.picks
      /\ load.own \in BOOLEAN
      /\ file.do = "read" /\ file.of = "one" /\ file.panes = {} /\ ~ file.own /\ ~ file.picks
      /\ file.own \in BOOLEAN
  BY RequestFields
<1>3. /\ again.do = "read" /\ again.of = "one" /\ again.panes = {1} /\ again.own
      /\ ~ again.picks /\ again.again /\ again.own \in BOOLEAN
  BY DEF Load, Read, Post
<1>4. /\ Len(enter.requests) = 1 /\ enter.requests[1] = load /\ enter.about = "any"
      /\ enter.sets = {"first"}
      /\ Len(change.requests) = 2 /\ change.requests[1] = post /\ change.requests[2] = again
      /\ change.about = "selected" /\ change.sets = {"clears"}
      /\ Len(download.requests) = 1 /\ download.requests[1] = file
      /\ download.about = "selected" /\ download.sets = {"clears"}
  BY DEF Handler
<1>5. /\ GrantDetailView.mount = enter /\ GrantDetailView.switch = enter
      /\ GrantDetailView.createDisbursement = change
      /\ GrantDetailView.submitDisbursement = change
      /\ GrantDetailView.approveDisbursement = change
      /\ GrantDetailView.uploadFile = change /\ GrantDetailView.downloadFile = download
      /\ DOMAIN GrantDetailView
             = {"mount", "switch", "createDisbursement", "submitDisbursement",
                                   "approveDisbursement", "uploadFile", "downloadFile"}
  BY DEF GrantDetailView
<1> HIDE DEF post, load, again, file, enter, change, download
<1>6. /\ (\A i \in 1 .. 1 : i = 1) /\ (\A i \in 1 .. 2 : i = 1 \/ i = 2) /\ 2 \in 1 + 1 .. 2
      /\ All \notin {"one", "both", "any", "selected"}
  BY ViewsAssumption
<1>7. Fine("grant", enter)
  <2>1. Shaped("grant", enter)
    BY <1>1, <1>2, <1>4, <1>6 DEF Shaped
  <2>2. Reads("grant", enter, 1)
    BY <1>1, <1>2, <1>4, <1>6 DEF Reads
  <2>3. Aims("grant", enter, 1)
    BY <1>1, <1>4 DEF Aims
  <2>4. Follows("grant", enter, 1)
    BY <1>1, <1>2, <1>4 DEF Follows
  <2> QED  BY <1>2, <1>4, <1>6, <2>1, <2>2, <2>3, <2>4 DEF Fine
<1>8. Fine("grant", change)
  <2>1. Shaped("grant", change)
    BY <1>4 DEF Shaped
  <2>2. Reads("grant", change, 1) /\ Reads("grant", change, 2)
    BY <1>1, <1>2, <1>3, <1>4, <1>6 DEF Reads
  <2>3. Aims("grant", change, 1) /\ Aims("grant", change, 2)
    BY <1>1, <1>2, <1>3, <1>4 DEF Aims
  <2>4. Follows("grant", change, 1) /\ Follows("grant", change, 2)
    BY <1>1, <1>2, <1>3, <1>4, <1>6 DEF Follows
  <2> QED  BY <1>2, <1>3, <1>4, <1>6, <2>1, <2>2, <2>3, <2>4 DEF Fine
<1>9. Fine("grant", download)
  <2>1. Shaped("grant", download)
    BY <1>4 DEF Shaped
  <2>2. Reads("grant", download, 1) /\ Aims("grant", download, 1)
    BY <1>1, <1>2, <1>4, <1>6 DEF Reads, Aims
  <2>3. Follows("grant", download, 1)
    BY <1>1, <1>2, <1>4 DEF Follows, Affects
  <2> QED  BY <1>2, <1>4, <1>6, <2>1, <2>2, <2>3 DEF Fine
<1>10. Opens("grant", enter)
  BY <1>1, <1>2, <1>4 DEF Opens
<1> QED  BY <1>1, <1>5, <1>7, <1>8, <1>9, <1>10 DEF Sound

\* A list, and what is selected of it.
Paired(v) == DOMAIN Panes(v) = {1, 2} /\ Panes(v)[1] = All /\ Panes(v)[2] = "one"
    /\ OfOne(v) = {2}

\* The list alone, and a change of the list.
LEMMA PairedFine ==
  ASSUME NEW v, Paired(v), NEW off, NEW sets, "first" \notin sets
  PROVE  /\ Fine(v, Handler(<<Read(All, {1})>>, off, sets, All))
         /\ Fine(v, Handler(<<Post(All), Read(All, {1})>>, off, sets, All))
<1> DEFINE post == Post(All)
           entries == Read(All, {1})
           g == Handler(<<entries>>, off, sets, All)
           h == Handler(<<post, entries>>, off, sets, All)
<1>1. /\ post.do = "post" /\ post.of = All /\ post.panes = {} /\ ~ post.own /\ ~ post.picks
      /\ post.own \in BOOLEAN
      /\ entries.do = "read" /\ entries.of = All /\ entries.panes = {1} /\ ~ entries.own
             /\ ~ entries.picks
      /\ entries.own \in BOOLEAN
  BY RequestFields
<1>2. /\ Len(g.requests) = 1 /\ g.requests[1] = entries /\ g.about = All /\ g.sets = sets
      /\ Len(h.requests) = 2 /\ h.requests[1] = post /\ h.requests[2] = entries
      /\ h.about = All /\ h.sets = sets
  BY DEF Handler
<1> HIDE DEF post, entries, g, h
<1>3. /\ (\A i \in 1 .. 1 : i = 1) /\ (\A i \in 1 .. 2 : i = 1 \/ i = 2) /\ 2 \in 1 + 1 .. 2
      /\ All \notin {"one", "both", "any", "selected"}
  BY ViewsAssumption
<1>4. Fine(v, g)
  <2>1. Reads(v, g, 1) /\ Aims(v, g, 1)
    BY <1>1, <1>2, <1>3 DEF Reads, Aims, Paired
  <2>2. Follows(v, g, 1)
    BY <1>1, <1>2 DEF Follows, Affects, Paired
  <2> QED  BY <1>1, <1>2, <1>3, <2>1, <2>2 DEF Fine, Shaped
<1>5. Fine(v, h)
  <2>1. Reads(v, h, 1) /\ Reads(v, h, 2)
    BY <1>1, <1>2, <1>3 DEF Reads, Paired
  <2>2. Aims(v, h, 1) /\ Aims(v, h, 2)
    BY <1>1, <1>2, <1>3 DEF Aims, Paired
  <2>3. Follows(v, h, 1) /\ Follows(v, h, 2)
    BY <1>1, <1>2, <1>3 DEF Follows, Affects, Paired
  <2>4. Shaped(v, h)
    BY <1>2 DEF Shaped
  <2> QED  BY <1>1, <1>2, <1>3, <2>1, <2>2, <2>3, <2>4 DEF Fine
<1> QED  BY <1>4, <1>5 DEF post, entries, g, h

\* The webhooks: a test selects the subscription whose deliveries it reads.
LEMMA WebhooksSound == \A name \in DOMAIN WebhooksView :
    Sound("webhooks", name, WebhooksView[name])
<1> DEFINE entries == Read(All, {1})
           post == Post(All)
           ping == Picks(Post("one"))
           deliveries == Read("one", {2})
           mount == Handler(<<entries>>, {}, {}, All)
           create == Handler(<<post, entries>>, {"busy"}, {"busy", "clears"}, All)
           disable == Handler(<<post, entries>>, {"busy"}, {"busy"}, All)
           send == Handler(<<ping, deliveries>>, {"busy"}, {"busy", "clears"}, "any")
           show == Handler(<<deliveries>>, {"busy"}, {"uncaught", "first"}, "any")
<1>1. Paired("webhooks")
  BY ViewsAssumption DEF Paired, Panes, OfOne
<1>2. /\ entries.do = "read" /\ entries.panes = {1}
      /\ deliveries.do = "read" /\ deliveries.of = "one" /\ deliveries.panes = {2}
      /\ ~ deliveries.own /\ ~ deliveries.picks /\ deliveries.own \in BOOLEAN
  BY RequestFields
<1>3. /\ ping.do = "post" /\ ping.of = "one" /\ ping.panes = {} /\ ~ ping.own /\ ping.picks
      /\ ping.own \in BOOLEAN
  BY DEF Picks, Post
<1>4. /\ mount.sets = {} /\ mount.about = All /\ Len(mount.requests) = 1
             /\ mount.requests[1] = entries
      /\ create.sets = {"busy", "clears"} /\ create.off = {"busy"}
      /\ disable.sets = {"busy"} /\ disable.off = {"busy"}
      /\ send.sets = {"busy", "clears"} /\ send.off = {"busy"} /\ send.about = "any"
      /\ Len(send.requests) = 2 /\ send.requests[1] = ping /\ send.requests[2] = deliveries
      /\ show.sets = {"uncaught", "first"} /\ show.off = {"busy"} /\ show.about = "any"
      /\ Len(show.requests) = 1 /\ show.requests[1] = deliveries
  BY DEF Handler
<1>5. WebhooksView = [mount |-> mount, create |-> create, disable |-> disable,
                      sendTest |-> send, showDeliveries |-> show]
  BY DEF WebhooksView
<1>6. Fine("webhooks", mount) /\ Fine("webhooks", create) /\ Fine("webhooks", disable)
  BY <1>1, PairedFine
<1> HIDE DEF entries, post, ping, deliveries, mount, create, disable, send, show
<1>7. /\ (\A i \in 1 .. 1 : i = 1) /\ (\A i \in 1 .. 2 : i = 1 \/ i = 2) /\ 2 \in 1 + 1 .. 2
      /\ All \notin {"one", "both", "any", "selected"}
  BY ViewsAssumption
<1>8. Fine("webhooks", send)
  <2>1. Reads("webhooks", send, 1) /\ Reads("webhooks", send, 2)
    BY <1>1, <1>2, <1>3, <1>4, <1>7 DEF Reads, Paired
  <2>2. Aims("webhooks", send, 1) /\ Aims("webhooks", send, 2)
    BY <1>1, <1>2, <1>3, <1>4, <1>7 DEF Aims, Paired
  <2>3. Follows("webhooks", send, 1) /\ Follows("webhooks", send, 2)
    BY <1>1, <1>2, <1>3, <1>4, <1>7 DEF Follows, Affects, Paired
  <2>4. Shaped("webhooks", send)
    BY <1>4 DEF Shaped
  <2> QED  BY <1>2, <1>3, <1>4, <1>7, <2>1, <2>2, <2>3, <2>4 DEF Fine
<1>9. Fine("webhooks", show)
  <2>1. Reads("webhooks", show, 1) /\ Aims("webhooks", show, 1)
    BY <1>1, <1>2, <1>4, <1>7 DEF Reads, Aims, Paired
  <2>2. Follows("webhooks", show, 1)
    BY <1>1, <1>2, <1>4, <1>7 DEF Follows, Affects, Paired
  <2>3. Shaped("webhooks", show)
    BY <1>1, <1>2, <1>4, <1>7 DEF Shaped, Paired
  <2> QED  BY <1>2, <1>4, <1>7, <2>1, <2>2, <2>3 DEF Fine
<1>10. Sound("webhooks", "mount", mount) /\ Sound("webhooks", "create", create)
       /\ Sound("webhooks", "disable", disable)
  <2>1. 1 \in 1 .. 1
    OBVIOUS
  <2>2. Opens("webhooks", mount)
    BY <1>1, <1>2, <1>4, <2>1 DEF Opens, Paired
  <2> QED  BY <1>2, <1>4, <1>6, <1>7, <2>2 DEF Sound, Patient
<1>11. Sound("webhooks", "sendTest", send)
  BY <1>4, <1>8 DEF Sound, Patient
<1>12. Sound("webhooks", "showDeliveries", show)
  BY <1>2, <1>4, <1>7, <1>9 DEF Sound, Patient
<1> QED  BY <1>5, <1>10, <1>11, <1>12

\* The texts: what is generated or approved is selected and read again.
LEMMA InsightsSound ==
  \A name \in DOMAIN AiInsightsView : Sound("insights", name, AiInsightsView[name])
<1> DEFINE entries == Read(All, {1})
           one == Picks(Read("one", {2}))
           again == [one EXCEPT !.again = TRUE]
           draft == [Picks(Post("both")) EXCEPT !.panes = {2}]
           both == Post("both")
           mount == Handler(<<entries>>, {}, {}, All)
           generate == Handler(<<draft, entries>>, {"busy"}, {"busy", "clears"}, "any")
           enter == Handler(<<one>>, {}, {"uncaught"}, "any")
           leave == Handler(<<>>, {}, {"first"}, NoSubject)
           approve == Handler(<<both, entries, again>>, {"busy"}, {"busy", "clears"},
               "selected")
<1>1. Paired("insights")
  BY ViewsAssumption DEF Paired, Panes, OfOne
<1>2. /\ entries.do = "read" /\ entries.of = All /\ entries.panes = {1} /\ ~ entries.own
             /\ ~ entries.picks
      /\ entries.own \in BOOLEAN
      /\ both.do = "post" /\ both.of = "both" /\ both.panes = {} /\ ~ both.own /\ ~ both.picks
      /\ both.own \in BOOLEAN
  BY RequestFields
<1>3. /\ one.do = "read" /\ one.of = "one" /\ one.panes = {2} /\ ~ one.own /\ one.picks
      /\ one.own \in BOOLEAN
      /\ again.do = "read" /\ again.of = "one" /\ again.panes = {2} /\ ~ again.own
      /\ again.picks /\ again.own \in BOOLEAN
      /\ draft.do = "post" /\ draft.of = "both" /\ draft.panes = {2} /\ ~ draft.own
      /\ draft.picks /\ draft.own \in BOOLEAN
  BY DEF Picks, Read, Post
<1>4. /\ mount.sets = {} /\ mount.about = All /\ Len(mount.requests) = 1
             /\ mount.requests[1] = entries
      /\ generate.sets = {"busy", "clears"} /\ generate.off = {"busy"}
      /\ generate.about = "any" /\ Len(generate.requests) = 2
      /\ generate.requests[1] = draft /\ generate.requests[2] = entries
      /\ enter.sets = {"uncaught"} /\ enter.about = "any"
      /\ Len(enter.requests) = 1 /\ enter.requests[1] = one
      /\ leave.sets = {"first"} /\ leave.about = NoSubject /\ Len(leave.requests) = 0
      /\ approve.sets = {"busy", "clears"} /\ approve.off = {"busy"}
      /\ approve.about = "selected" /\ Len(approve.requests) = 3
      /\ approve.requests[1] = both /\ approve.requests[2] = entries
      /\ approve.requests[3] = again
  BY DEF Handler
<1>5. AiInsightsView = [mount |-> mount, generate |-> generate, open |-> enter,
                        closeSelected |-> leave, approve |-> approve]
  BY DEF AiInsightsView
<1>6. Fine("insights", mount)
  BY <1>1, PairedFine
<1> HIDE DEF entries, one, again, draft, both, mount, generate, enter, leave, approve
<1>7. /\ (\A i \in 1 .. 1 : i = 1) /\ (\A i \in 1 .. 2 : i = 1 \/ i = 2) /\ 2 \in 1 + 1 .. 2
      /\ (\A i \in 1 .. 3 : i = 1 \/ i = 2 \/ i = 3) /\ 2 \in 1 + 1 .. 3 /\ 3 \in 1 + 1 .. 3
      /\ All \notin {"one", "both", "any", "selected"} /\ NoSubject # All
  BY ViewsAssumption
<1>8. Fine("insights", generate)
  <2>1. Reads("insights", generate, 1) /\ Reads("insights", generate, 2)
    BY <1>1, <1>2, <1>3, <1>4, <1>7 DEF Reads, Paired
  <2>2. Aims("insights", generate, 1) /\ Aims("insights", generate, 2)
    BY <1>1, <1>2, <1>3, <1>4, <1>7 DEF Aims, Paired
  <2>3. Follows("insights", generate, 1) /\ Follows("insights", generate, 2)
    BY <1>1, <1>2, <1>3, <1>4, <1>7 DEF Follows, Affects, Paired
  <2>4. Shaped("insights", generate)
    BY <1>4 DEF Shaped
  <2> QED  BY <1>2, <1>3, <1>4, <1>7, <2>1, <2>2, <2>3, <2>4 DEF Fine
<1>9. Fine("insights", enter)
  <2>1. Reads("insights", enter, 1) /\ Aims("insights", enter, 1)
    BY <1>1, <1>3, <1>4, <1>7 DEF Reads, Aims, Paired
  <2>2. Follows("insights", enter, 1)
    BY <1>1, <1>3, <1>4, <1>7 DEF Follows, Affects, Paired
  <2> QED  BY <1>3, <1>4, <1>7, <2>1, <2>2 DEF Fine, Shaped
<1>10. Fine("insights", leave)
  BY <1>4, <1>7 DEF Fine, Shaped
<1>11. Fine("insights", approve)
  <2>1. \A i \in 1 .. 3 : Reads("insights", approve, i)
    BY <1>1, <1>2, <1>3, <1>4, <1>7 DEF Reads, Paired
  <2>2. \A i \in 1 .. 3 : Aims("insights", approve, i)
    BY <1>1, <1>2, <1>3, <1>4, <1>7 DEF Aims, Paired
  <2>3. \A i \in 1 .. 3 : Follows("insights", approve, i)
    BY <1>1, <1>2, <1>3, <1>4, <1>7 DEF Follows, Affects, Paired
  <2>4. Shaped("insights", approve)
    BY <1>4 DEF Shaped
  <2> QED  BY <1>2, <1>3, <1>4, <1>7, <2>1, <2>2, <2>3, <2>4 DEF Fine
<1>12. Sound("insights", "mount", mount) /\ Sound("insights", "open", enter)
  <2>1. 1 \in 1 .. 1
    OBVIOUS
  <2>2. Opens("insights", mount)
    BY <1>1, <1>2, <1>4, <2>1 DEF Opens, Paired
  <2> QED  BY <1>2, <1>3, <1>4, <1>6, <1>7, <1>9, <2>2 DEF Sound, Patient
<1>13. Sound("insights", "generate", generate) /\ Sound("insights", "approve", approve)
  BY <1>4, <1>8, <1>11 DEF Sound, Patient
<1>14. Sound("insights", "closeSelected", leave)
  BY <1>4, <1>10 DEF Sound, Patient
<1> QED  BY <1>5, <1>12, <1>13, <1>14

\* The table of handlers is as the proofs take it.
LEMMA Table == FineTable
<1>1. ASSUME NEW v \in views, NEW name \in DOMAIN Handlers[v]
      PROVE  Sound(v, name, Handlers[v][name])
  BY PayrollSound, FinanceSound, LeaveSound, EmployeesSound, GrantsSound,
     GrantSound, ReportsSound, IntelligenceSound, ComplianceSound, FieldSound,
     WebhooksSound, InsightsSound, ReadOnlySound, HomeSound
     DEF views, Handlers
<1>2. \A v \in views : "mount" \in DOMAIN Handlers[v]
  BY DEF views, Handlers, PayrollView, FinanceView, LeaveView, EmployeesView,
         GrantsView, GrantDetailView, ReportsView, IntelligenceView,
         ComplianceView, FieldView, WebhooksView, AiInsightsView, TrainingView,
         NotificationsView, HomeView
<1> QED  BY <1>1, <1>2, Zenon DEF FineTable
-----------------------------------------------------------------------------
(***************************************************************************)
(* The invariant.                                                          *)
(***************************************************************************)
Names == {"idle"} \cup UNION {DOMAIN Handlers[v] : v \in views}
Task ==
  [name : Names, at : Nat, subject : Subjects \cup {All, NoSubject}, got : Nat]
Proper(k) ==
  LET t == tasks[k]
  IN  /\ t.name \in DOMAIN Handlers[view] /\ t.at \in 1 .. Len(HandlerOf(t).requests)
      /\ t.subject # NoSubject
      /\ HandlerOf(t).about \in {"any", "selected"} => t.subject \in Subjects
ViewTypes ==
  /\ view \in views
  /\ version \in [Subjects \cup {All} -> Nat] /\ acked \in [Subjects \cup {All} -> Nat]
  /\ \A o \in Subjects \cup {All} : acked[o] <= version[o]
  /\ busy \in BOOLEAN /\ loading \in BOOLEAN /\ error \in BOOLEAN
  /\ selected \in Subjects \cup {NoSubject}
  /\ shown \in [{1, 2} -> [subject : Subjects \cup {All, NoSubject}, version : Nat]]
  /\ tasks \in [Slots -> Task] /\ \A k \in Slots : Running(k) => Proper(k)
  /\ clicks \in 0 .. MaxClicks
  /\ doubled \in BOOLEAN /\ overlapped \in BOOLEAN /\ unheard \in BOOLEAN
  /\ cleared \in BOOLEAN

\* A pane shows what it should.
Good(p) ==
  LET s == IF p \in OfOne(view) THEN selected ELSE All
  IN  s # NoSubject => shown[p].subject = s /\ shown[p].version >= acked[s]

\* A request is under way for it, and will be answered with what it should show.
InFlight(k, p) == Running(k) /\ p \in Asking(tasks[k]).panes
Right(k, p) ==
  /\ \/ p \notin OfOne(view) \/ Asking(tasks[k]).picks
     \/ tasks[k].subject = selected \/ selected = NoSubject
  /\ tasks[k].got = 0 \/ tasks[k].got >= acked[What(tasks[k])]
Settled(p) ==
  /\ \A k \in Slots : InFlight(k, p) => Right(k, p)
  /\ Good(p) \/ \E k \in Slots : InFlight(k, p)

\* A handler will ask for it.
Later(k, p) ==
  /\ Running(k)
  /\ \E i \in tasks[k].at + 1 .. Len(HandlerOf(tasks[k]).requests) :
       p \in HandlerOf(tasks[k]).requests[i].panes

Clean == ~ error /\ ~ overlapped /\ ~ unheard /\ ~ cleared
Covered ==
  Clean => \A p \in DOMAIN Panes(view) : (\E k \in Slots : Later(k, p)) \/ Settled(p)
Alone ==
  ~ overlapped => \A j, k \in Slots : \A p \in {1, 2} :
    InFlight(j, p) /\ InFlight(k, p) => j = k
BusyHeld == busy => \E k \in Slots : Running(k) /\ "busy" \in HandlerOf(tasks[k]).sets
Awaited == loading => \E k \in Slots : Running(k) /\ Asking(tasks[k]).own
Changing(k) == Running(k) /\ "busy" \in HandlerOf(tasks[k]).sets
Once ==
  view \in Waiting =>
    /\ ~ doubled
    /\ \A k \in Slots : Changing(k) => busy
    /\ \A j, k \in Slots : Changing(j) /\ Changing(k) => j = k
ViewInv == ViewTypes /\ Covered /\ Alone /\ BusyHeld /\ Awaited /\ Once
-----------------------------------------------------------------------------
\* The invariant is more than the property.
LEMMA ViewsHold == ViewInv => ViewsAgree
<1> SUFFICES ASSUME ViewInv PROVE ViewsAgree
  OBVIOUS
<1>1. ASSUME Quiet, ~ error, ~ overlapped, ~ unheard, ~ cleared,
             NEW p \in DOMAIN Panes(view)
      PROVE  LET s == IF Panes(view)[p] = All THEN All ELSE selected
             IN  s # NoSubject => shown[p].subject = s /\ shown[p].version >= acked[s]
  <2>1. \A k \in Slots : ~ Later(k, p) /\ ~ InFlight(k, p)
    BY <1>1 DEF Quiet, Later, InFlight
  <2>2. Good(p)
    BY <1>1, <2>1 DEF ViewInv, Covered, Clean, Settled
  <2>3. p \in OfOne(view) <=> Panes(view)[p] # All
    BY ViewsAssumption, PaneKinds
  <2> QED  BY <2>2, <2>3 DEF Good
<1>2. view \in Waiting => ~ doubled
  BY DEF ViewInv, Once
<1>3. Quiet => ~ busy /\ ~ loading
  BY DEF ViewInv, BusyHeld, Awaited, Quiet
<1> QED  BY <1>1, <1>2, <1>3, Zenon DEF ViewsAgree
-----------------------------------------------------------------------------
(***************************************************************************)
(* What Make does, whoever calls it.                                       *)
(***************************************************************************)
Moves(k, name, i, s, chosen, err, load) ==
  /\ Make(k, name, i, s, chosen, err, load)
  /\ UNCHANGED view /\ k \in Slots
  /\ name \in DOMAIN Handlers[view] /\ i \in 1 .. Len(Handlers[view][name].requests) + 1
  /\ s \in Subjects \cup {All, NoSubject} /\ chosen \in Subjects \cup {NoSubject}
  /\ Handlers[view][name].about \in {"any", "selected"} => s \in Subjects
  /\ err \in BOOLEAN /\ load \in BOOLEAN
  /\ Running(k) => tasks[k].name = name
Aim(name, i, s, chosen) ==
  IF Handlers[view][name].requests[i].again THEN chosen ELSE s

\* A handler of the table is fine.
LEMMA HandlerFine ==
  ASSUME FineTable, view \in views, NEW name \in DOMAIN Handlers[view]
  PROVE  /\ Fine(view, Handlers[view][name])
         /\ view \in Waiting => Patient(name, Handlers[view][name])
BY DEF FineTable, Sound

\* It ends, or the next request is made.
Asked(k, name, i, s, chosen, err, load) ==
  /\ i \in 1 .. Len(Handlers[view][name].requests)
  /\ Ask(k, name, i, Aim(name, i, s, chosen), err, load)
  /\ Aim(name, i, s, chosen) \in Subjects \cup {All}
  /\ Handlers[view][name].about \in {"any", "selected"} =>
       Aim(name, i, s, chosen) \in Subjects
Outcomes(k, name, i, s, chosen, err, load) ==
  \/ /\ i = Len(Handlers[view][name].requests) + 1
     /\ Stop(k, Handlers[view][name], err, load)
  \/ Stop(k, Handlers[view][name], TRUE, load)
  \/ Asked(k, name, i, s, chosen, err, load)
\* So it is, whichever handler moves.
LEMMA Outcome ==
  ASSUME FineTable, ViewTypes,
         NEW k, NEW name, NEW i, NEW s, NEW chosen, NEW err, NEW load,
         Moves(k, name, i, s, chosen, err, load)
  PROVE  Outcomes(k, name, i, s, chosen, err, load)
<1> DEFINE h == Handlers[view][name]
           n == Len(h.requests)
           about == Aim(name, i, s, chosen)
<1>1. n \in Nat
  BY HandlerFine DEF Moves, ViewTypes, Fine, Shaped
<1>2. i \in 1 .. n + 1
  BY DEF Moves
<1>3. CASE i > n
  <2>1. Stop(k, h, err, load)
    BY <1>3 DEF Moves, Make
  <2>2. i = n + 1
    BY <1>1, <1>2, <1>3
  <2> QED  BY <2>1, <2>2, Zenon DEF Outcomes
<1>4. CASE ~ (i > n) /\ about = NoSubject
  <2>1. Stop(k, h, TRUE, load)
    BY <1>4 DEF Moves, Make, Aim
  <2> QED  BY <2>1, Zenon DEF Outcomes
<1>5. CASE ~ (i > n) /\ about # NoSubject
  <2>1. Ask(k, name, i, about, err, load)
    BY <1>5 DEF Moves, Make, Aim
  <2>2. about \in Subjects \cup {All}
    BY <1>5 DEF Moves, Aim
  <2>3. h.about \in {"any", "selected"} => about \in Subjects
    BY <1>5 DEF Moves, Aim
  <2>4. i \in 1 .. n
    BY <1>1, <1>2, <1>5
  <2> QED  BY <2>1, <2>2, <2>3, <2>4, Zenon DEF Outcomes, Asked
<1> QED  BY <1>3, <1>4, <1>5, Zenon

\* The other slots are as they were.
LEMMA OthersStay ==
  ASSUME ViewTypes, UNCHANGED view, NEW k \in Slots, NEW x, tasks' = [tasks EXCEPT ![k] = x]
  PROVE  /\ tasks'[k] = x
         /\ \A j \in Slots \ {k} :
              /\ tasks'[j] = tasks[j] /\ (Running(j)' <=> Running(j))
              /\ Asking(tasks[j])' = Asking(tasks[j])
              /\ HandlerOf(tasks[j])' = HandlerOf(tasks[j])
              /\ What(tasks[j])' = What(tasks[j])
              /\ (Proper(j) => Proper(j)')
              /\ (Changing(j)' <=> Changing(j))
              /\ \A p : (InFlight(j, p)' <=> InFlight(j, p)) /\ (Later(j, p)' <=> Later(j, p))
<1>1. tasks'[k] = x
  BY DEF ViewTypes
<1>2. ASSUME NEW j \in Slots \ {k}
      PROVE  tasks'[j] = tasks[j] /\ view' = view
  BY DEF ViewTypes
<1>3. ASSUME NEW j \in Slots \ {k}
      PROVE  /\ (Running(j)' <=> Running(j))
             /\ Asking(tasks[j])' = Asking(tasks[j])
             /\ HandlerOf(tasks[j])' = HandlerOf(tasks[j])
             /\ What(tasks[j])' = What(tasks[j])
  BY <1>2 DEF Running, Asking, HandlerOf, What, Idle
<1>4. ASSUME NEW j \in Slots \ {k}
      PROVE  (Proper(j) => Proper(j)') /\ (Changing(j)' <=> Changing(j))
  BY <1>2, <1>3 DEF Proper, Changing
<1>5. ASSUME NEW j \in Slots \ {k}, NEW p
      PROVE  (InFlight(j, p)' <=> InFlight(j, p)) /\ (Later(j, p)' <=> Later(j, p))
  BY <1>2, <1>3 DEF InFlight, Later
<1> QED  BY <1>1, <1>2, <1>3, <1>4, <1>5

\* A slot that ends is free.
LEMMA StopFree ==
  ASSUME ViewTypes, UNCHANGED view, NEW k \in Slots, tasks' = [tasks EXCEPT ![k] = Idle]
  PROVE  ~ Running(k)' /\ (\A p : ~ InFlight(k, p)' /\ ~ Later(k, p)') /\ ~ Changing(k)'
BY OthersStay DEF Running, InFlight, Later, Changing, Idle

\* Requests from i on are still to be made for pane p.
Ahead(name, i, p) ==
  \E m \in i .. Len(Handlers[view][name].requests) :
      p \in Handlers[view][name].requests[m].panes

\* What is so when request i has been asked.
LEMMA AskedFacts ==
  ASSUME FineTable, ViewTypes,
         NEW k, NEW name, NEW i, NEW s, NEW chosen, NEW err, NEW load,
         Moves(k, name, i, s, chosen, err, load), Asked(k, name, i, s, chosen, err, load)
  PROVE  LET h == Handlers[view][name]
         IN  /\ i \in Nat \ {0} /\ i \in 1 .. Len(h.requests) /\ Len(h.requests) \in Nat
             /\ tasks' = [tasks EXCEPT ![k] = [name |-> name, at |-> i,
                                       subject |-> Aim(name, i, s, chosen), got |-> 0]]
             /\ Running(k)' /\ HandlerOf(tasks[k])' = h /\ Asking(tasks[k])' = h.requests[i]
             /\ (Changing(k)' <=> "busy" \in h.sets)
             /\ tasks'[k].got = 0 /\ tasks'[k].subject = Aim(name, i, s, chosen)
             /\ tasks'[k].at = i /\ tasks'[k].name = name
             /\ \A p : (InFlight(k, p)' <=> p \in h.requests[i].panes)
             /\ \A p : (Later(k, p)' <=> Ahead(name, i + 1, p))
             /\ h.requests[i].own \in BOOLEAN /\ h.requests[i].do \in {"post", "read"}
             /\ Reads(view, h, i) /\ Aims(view, h, i) /\ Follows(view, h, i)
<1> DEFINE about == Aim(name, i, s, chosen)
<1>1. k \in Slots /\ view' = view /\ name \in DOMAIN Handlers[view] /\ view \in views
  BY DEF Moves, ViewTypes
<1>2. Fine(view, Handlers[view][name])
  BY <1>1, HandlerFine
<1>3. /\ i \in 1 .. Len(Handlers[view][name].requests)
      /\ Len(Handlers[view][name].requests) \in Nat
  BY <1>2 DEF Asked, Fine, Shaped
<1>4. i \in Nat \ {0}
  BY <1>3
<1>5. tasks' = [tasks EXCEPT ![k] = [name |-> name, at |-> i, subject |-> about, got |-> 0]]
  BY DEF Asked, Ask
<1>6. /\ Handlers[view][name].requests[i].own \in BOOLEAN
      /\ Handlers[view][name].requests[i].do \in {"post", "read"}
      /\ Reads(view, Handlers[view][name], i) /\ Aims(view, Handlers[view][name], i)
      /\ Follows(view, Handlers[view][name], i)
  BY <1>2, <1>3 DEF Fine
<1> HIDE DEF about
<1> DEFINE h == Handlers[view][name]
           t == [name |-> name, at |-> i, subject |-> about, got |-> 0]
<1>7. t # Idle /\ t.name = name /\ t.at = i /\ t.subject = about /\ t.got = 0
  BY <1>4 DEF Idle
<1>8. tasks' = [tasks EXCEPT ![k] = t]
  BY <1>5
<1> HIDE DEF t
<1>9. tasks'[k] = t
  BY <1>1, <1>8, OthersStay
<1>10. Running(k)'
  BY <1>7, <1>9 DEF Running, Idle
<1>11. HandlerOf(tasks[k])' = h
  BY <1>1, <1>7, <1>9 DEF HandlerOf
<1>12. Asking(tasks[k])' = h.requests[i]
  BY <1>7, <1>9, <1>11 DEF Asking
<1>13. (Changing(k)' <=> "busy" \in h.sets) /\ \A p :
           InFlight(k, p)' <=> p \in h.requests[i].panes
  BY <1>10, <1>11, <1>12 DEF Changing, InFlight
<1>14. \A p : Later(k, p)' <=> Ahead(name, i + 1, p)
  BY <1>7, <1>9, <1>10, <1>11 DEF Later, Ahead
<1>15. tasks'[k].got = 0 /\ tasks'[k].subject = about /\ tasks'[k].at = i
           /\ tasks'[k].name = name
  BY <1>7, <1>9
<1> QED  BY <1>3, <1>4, <1>5, <1>6, <1>10, <1>11, <1>12, <1>13, <1>14, <1>15,
            Zenon
         DEF about

\* Types after it.
LEMMA MakeTypes ==
  ASSUME FineTable, ViewTypes,
         NEW k, NEW name, NEW i, NEW s, NEW chosen, NEW err, NEW load,
         Moves(k, name, i, s, chosen, err, load)
  PROVE  /\ tasks' \in [Slots -> Task] /\ \A j \in Slots : Running(j)' => Proper(j)'
         /\ busy' \in BOOLEAN /\ error' \in BOOLEAN /\ loading' \in BOOLEAN
         /\ doubled' \in BOOLEAN /\ overlapped' \in BOOLEAN
<1> DEFINE h == Handlers[view][name]
           about == Aim(name, i, s, chosen)
<1>0. k \in Slots /\ view' = view /\ name \in DOMAIN Handlers[view] /\ view \in views
  BY DEF Moves, ViewTypes
<1>1. ASSUME NEW e \in BOOLEAN, Stop(k, h, e, load)
      PROVE  /\ tasks' \in [Slots -> Task] /\ \A j \in Slots : Running(j)' => Proper(j)'
             /\ busy' \in BOOLEAN /\ error' \in BOOLEAN /\ loading' \in BOOLEAN
             /\ doubled' \in BOOLEAN /\ overlapped' \in BOOLEAN
  <2>1. tasks' = [tasks EXCEPT ![k] = Idle]
    BY <1>1 DEF Stop
  <2>2. Idle \in Task
    BY DEF Idle, Task, Names
  <2>3. tasks' \in [Slots -> Task]
    BY <2>1, <2>2 DEF ViewTypes
  <2>4. \A j \in Slots : Running(j)' => Proper(j)'
    BY <1>0, <2>1, StopFree, OthersStay DEF ViewTypes
  <2>5. busy' \in BOOLEAN
    BY <1>1, Zenon DEF Stop
  <2>6. error' \in BOOLEAN /\ loading' \in BOOLEAN
    BY <1>1 DEF Stop, Moves
  <2>7. doubled' \in BOOLEAN /\ overlapped' \in BOOLEAN
    BY <1>1 DEF Stop, ViewTypes
  <2> QED  BY <2>3, <2>4, <2>5, <2>6, <2>7
<1>2. CASE Asked(k, name, i, s, chosen, err, load)
  <2>1. tasks' = [tasks EXCEPT ![k] = [name |-> name, at |-> i, subject |-> about, got |-> 0]]
    BY <1>2 DEF Asked, Ask
  <2>2. about \in Subjects \cup {All} /\ i \in 1 .. Len(h.requests)
    BY <1>2 DEF Asked
  <2>3. Len(h.requests) \in Nat
    BY <1>0, HandlerFine DEF Fine, Shaped
  <2>4. i \in Nat \ {0}
    BY <2>2, <2>3
  <2>5. [name |-> name, at |-> i, subject |-> about, got |-> 0] \in Task
    <3>1. name \in Names
      BY <1>0 DEF Names
    <3> QED  BY <2>2, <2>4, <3>1 DEF Task
  <2>6. tasks' \in [Slots -> Task]
    BY <2>1, <2>5 DEF ViewTypes
  <2>7. Proper(k)'
    <3>1. /\ tasks'[k].name = name /\ tasks'[k].at = i /\ tasks'[k].subject = about
          /\ HandlerOf(tasks[k])' = h
      BY <1>2, AskedFacts
    <3>2. h.about \in {"any", "selected"} => about \in Subjects
      BY <1>2 DEF Asked
    <3> QED  BY <1>0, <2>2, <3>1, <3>2, ViewsAssumption DEF Proper
  <2>8. \A j \in Slots : Running(j)' => Proper(j)'
    BY <1>0, <2>1, <2>7, OthersStay DEF ViewTypes
  <2>9. /\ busy' \in BOOLEAN /\ error' \in BOOLEAN /\ loading' \in BOOLEAN
        /\ doubled' \in BOOLEAN /\ overlapped' \in BOOLEAN
    BY <1>2, Zenon DEF Asked, Ask
  <2> QED  BY <2>6, <2>8, <2>9
<1>3. Outcomes(k, name, i, s, chosen, err, load)
  BY Outcome
<1>4. err \in BOOLEAN
  BY DEF Moves
<1>5. CASE Stop(k, h, err, load)
  BY <1>1, <1>4, <1>5, Zenon
<1>6. CASE Stop(k, h, TRUE, load)
  BY <1>1, <1>6, Zenon
<1> QED  BY <1>2, <1>3, <1>5, <1>6, Zenon DEF Outcomes

\* No two requests are under way for a pane, unless that is said.
LEMMA MakeAlone ==
  ASSUME FineTable, ViewTypes, Alone,
         NEW k, NEW name, NEW i, NEW s, NEW chosen, NEW err, NEW load,
         Moves(k, name, i, s, chosen, err, load)
  PROVE  Alone'
<1> DEFINE h == Handlers[view][name]
           about == Aim(name, i, s, chosen)
<1>0. k \in Slots /\ view' = view /\ name \in DOMAIN Handlers[view] /\ view \in views
  BY DEF Moves, ViewTypes
<1>1. ASSUME NEW e, Stop(k, h, e, load) PROVE Alone'
  <2>1. tasks' = [tasks EXCEPT ![k] = Idle] /\ overlapped' = overlapped
    BY <1>1 DEF Stop
  <2>2. \A p : ~ InFlight(k, p)'
    BY <1>0, <2>1, StopFree
  <2>3. \A j \in Slots \ {k} : \A p : InFlight(j, p)' <=> InFlight(j, p)
    BY <1>0, <2>1, OthersStay
  <2> QED  BY <2>1, <2>2, <2>3 DEF Alone
<1>2. CASE Asked(k, name, i, s, chosen, err, load)
  <2>1. tasks' = [tasks EXCEPT ![k] = [name |-> name, at |-> i, subject |-> about, got |-> 0]]
    BY <1>2 DEF Asked, Ask
  <2>2. i \in Nat \ {0}
    BY <1>0, <1>2, HandlerFine DEF Asked, Fine, Shaped
  <2>3. \A p : InFlight(k, p)' <=> p \in h.requests[i].panes
    BY <1>2, AskedFacts
  <2>4. \A j \in Slots \ {k} : \A p : InFlight(j, p)' <=> InFlight(j, p)
    BY <1>0, <2>1, OthersStay
  <2>5. ASSUME ~ overlapped', NEW p, p \in h.requests[i].panes, NEW j \in Slots \ {k},
               InFlight(j, p)
        PROVE  FALSE
    <3>1. Running(j) /\ p \in Asking(tasks[j]).panes
      BY <2>5 DEF InFlight
    <3>2. Asking(tasks[j]).panes \cap h.requests[i].panes # {}
      BY <2>5, <3>1
    <3> QED  BY <1>2, <2>5, <3>1, <3>2 DEF Asked, Ask
  <2>6. ~ overlapped' => ~ overlapped
    BY <1>2, Zenon DEF Asked, Ask
  <2> QED  BY <2>3, <2>4, <2>5, <2>6 DEF Alone
<1> QED  BY <1>1, <1>2, Outcome, Zenon DEF Outcomes

\* What is busy is held by a handler.
LEMMA MakeHeld ==
  ASSUME FineTable, ViewTypes, BusyHeld,
         NEW k, NEW name, NEW i, NEW s, NEW chosen, NEW err, NEW load,
         Moves(k, name, i, s, chosen, err, load)
  PROVE  BusyHeld'
<1> DEFINE h == Handlers[view][name]
           about == Aim(name, i, s, chosen)
<1>0. k \in Slots /\ view' = view /\ name \in DOMAIN Handlers[view] /\ view \in views
  BY DEF Moves, ViewTypes
<1>1. Changing(k) => "busy" \in h.sets
  BY DEF Changing, Moves, HandlerOf
<1>2. busy => \E j \in Slots : Changing(j)
  BY DEF BusyHeld, Changing
<1>3. ASSUME NEW e, Stop(k, h, e, load) PROVE BusyHeld'
  <2>1. tasks' = [tasks EXCEPT ![k] = Idle] /\ (busy' => busy /\ "busy" \notin h.sets)
    BY <1>3, Zenon DEF Stop
  <2>2. \A j \in Slots \ {k} : Changing(j)' <=> Changing(j)
    BY <1>0, <2>1, OthersStay
  <2>3. busy' => \E j \in Slots : Changing(j)'
    BY <1>1, <1>2, <2>1, <2>2
  <2> QED  BY <2>3 DEF BusyHeld, Changing
<1>4. CASE Asked(k, name, i, s, chosen, err, load)
  <2>1. tasks' = [tasks EXCEPT ![k] = [name |-> name, at |-> i, subject |-> about, got |-> 0]]
    BY <1>4 DEF Asked, Ask
  <2>2. i \in Nat \ {0}
    BY <1>0, <1>4, HandlerFine DEF Asked, Fine, Shaped
  <2>3. busy' => busy \/ "busy" \in h.sets
    BY <1>4, Zenon DEF Asked, Ask
  <2>4. \A j \in Slots \ {k} : Changing(j)' <=> Changing(j)
    BY <1>0, <2>1, OthersStay
  <2>5. Changing(k)' <=> "busy" \in h.sets
    BY <1>4, AskedFacts
  <2>6. busy' => \E j \in Slots : Changing(j)'
    BY <1>0, <1>1, <1>2, <2>3, <2>4, <2>5
  <2> QED  BY <2>6 DEF BusyHeld, Changing
<1> QED  BY <1>3, <1>4, Outcome, Zenon DEF Outcomes

\* What loads is awaited, if others do what loads already.
LEMMA MakeAwaited ==
  ASSUME FineTable, ViewTypes,
         NEW k, NEW name, NEW i, NEW s, NEW chosen, NEW err, NEW load,
         Moves(k, name, i, s, chosen, err, load),
         load => \E j \in Slots \ {k} : Running(j) /\ Asking(tasks[j]).own
  PROVE  Awaited'
<1> DEFINE h == Handlers[view][name]
           about == Aim(name, i, s, chosen)
<1>0. k \in Slots /\ view' = view /\ name \in DOMAIN Handlers[view] /\ view \in views
  BY DEF Moves, ViewTypes
<1>1. ASSUME NEW e, Stop(k, h, e, load) PROVE Awaited'
  <2>1. tasks' = [tasks EXCEPT ![k] = Idle] /\ loading' = load
    BY <1>1 DEF Stop
  <2>2. \A j \in Slots \ {k} :
          (Running(j)' <=> Running(j)) /\ Asking(tasks[j])' = Asking(tasks[j])
    BY <1>0, <2>1, OthersStay
  <2> QED  BY <2>1, <2>2 DEF Awaited
<1>2. CASE Asked(k, name, i, s, chosen, err, load)
  <2>1. tasks' = [tasks EXCEPT ![k] = [name |-> name, at |-> i, subject |-> about, got |-> 0]]
    BY <1>2 DEF Asked, Ask
  <2>2. i \in Nat \ {0}
    BY <1>0, <1>2, HandlerFine DEF Asked, Fine, Shaped
  <2>3. loading' => load \/ h.requests[i].own
    BY <1>2, Zenon DEF Asked, Ask
  <2>4. \A j \in Slots \ {k} :
          (Running(j)' <=> Running(j)) /\ Asking(tasks[j])' = Asking(tasks[j])
    BY <1>0, <2>1, OthersStay
  <2>5. Running(k)' /\ Asking(tasks[k])' = h.requests[i]
    BY <1>2, AskedFacts
  <2> QED  BY <1>0, <2>3, <2>4, <2>5 DEF Awaited
<1> QED  BY <1>1, <1>2, Outcome, Zenon DEF Outcomes

\* Changes are made one at a time where their buttons wait, if no other handler
\* that sets busy is under way when one begins.
LEMMA MakeOnce ==
  ASSUME FineTable, ViewTypes, Once,
         NEW k, NEW name, NEW i, NEW s, NEW chosen, NEW err, NEW load,
         Moves(k, name, i, s, chosen, err, load),
         view \in Waiting /\ "busy" \in Handlers[view][name].sets => Changing(k) \/ ~ busy
  PROVE  Once'
<1> SUFFICES ASSUME view \in Waiting PROVE Once'
  BY DEF Once, Moves
<1> DEFINE h == Handlers[view][name]
           about == Aim(name, i, s, chosen)
<1>0. k \in Slots /\ view' = view /\ name \in DOMAIN Handlers[view] /\ view \in views
  BY DEF Moves, ViewTypes
<1>1. /\ ~ doubled /\ \A j \in Slots : Changing(j) => busy
      /\ \A j, l \in Slots : Changing(j) /\ Changing(l) => j = l
  BY DEF Once
<1>2. ASSUME "busy" \in h.sets, NEW j \in Slots \ {k} PROVE ~ Changing(j)
  BY <1>0, <1>1, <1>2
<1>3. ASSUME NEW e, Stop(k, h, e, load) PROVE Once'
  <2>1. tasks' = [tasks EXCEPT ![k] = Idle] /\ doubled' = doubled
    BY <1>3 DEF Stop
  <2>2. busy /\ "busy" \notin h.sets => busy'
    BY <1>3, Zenon DEF Stop
  <2>3. \A j \in Slots \ {k} : Changing(j)' <=> Changing(j)
    BY <1>0, <2>1, OthersStay
  <2>4. ~ Changing(k)'
    BY <1>0, <2>1, StopFree
  <2> QED  BY <1>1, <1>2, <2>1, <2>2, <2>3, <2>4 DEF Once
<1>4. CASE Asked(k, name, i, s, chosen, err, load)
  <2>1. tasks' = [tasks EXCEPT ![k] = [name |-> name, at |-> i, subject |-> about, got |-> 0]]
    BY <1>4 DEF Asked, Ask
  <2>2. busy \/ "busy" \in h.sets => busy'
    BY <1>4, Zenon DEF Asked, Ask
  <2>3. \A j \in Slots \ {k} : Changing(j)' <=> Changing(j)
    BY <1>0, <2>1, OthersStay
  <2>4. Changing(k)' <=> "busy" \in h.sets
    BY <1>4, AskedFacts
  <2>5. ASSUME NEW j \in Slots, Running(j), Asking(tasks[j]).do = "post"
        PROVE  Changing(j)
    <3>1. Proper(j)
      BY <2>5 DEF ViewTypes
    <3>2. Patient(tasks[j].name, HandlerOf(tasks[j]))
      BY <1>0, <3>1, HandlerFine DEF Proper, HandlerOf
    <3> QED  BY <2>5, <3>1, <3>2 DEF Proper, Patient, Changing, Asking
  <2>6. h.requests[i].do = "post" => "busy" \in h.sets
    BY <1>0, <1>4, HandlerFine DEF Patient, Asked
  <2>7. ASSUME doubled' PROVE FALSE
    <3>1. /\ h.requests[i].do = "post"
          /\ \E r \in {Asking(tasks[j]) : j \in {j \in Slots \ {k} : Running(j)}} :
                 r.do = "post"
      BY <1>1, <1>4, <2>7, Zenon DEF Asked, Ask
    <3>2. PICK j \in Slots \ {k} : Running(j) /\ Asking(tasks[j]).do = "post"
      BY <3>1
    <3> QED  BY <1>2, <2>5, <2>6, <3>1, <3>2
  <2> QED  BY <1>1, <1>2, <2>2, <2>3, <2>4, <2>7 DEF Once
<1> QED  BY <1>3, <1>4, Outcome, Zenon DEF Outcomes

\* What is still before the handler, or before the others, or already as it
\* should be.
Elsewhere(k, p) == \E j \in Slots \ {k} : Later(j, p)
Undisturbed(k, p) ==
  /\ \A j \in Slots \ {k} : InFlight(j, p) => Right(j, p)'
  /\ Good(p)' \/ \E j \in Slots \ {k} : InFlight(j, p)

\* What is shown is accounted for when a handler goes on, if it is by the others
\* and by what the handler still asks for.
LEMMA MakeCovered ==
  ASSUME FineTable, ViewTypes,
         NEW k, NEW name, NEW i, NEW s, NEW chosen, NEW err, NEW load,
         Moves(k, name, i, s, chosen, err, load),
         ~ err /\ ~ overlapped /\ ~ unheard' /\ ~ cleared' =>
           \A p \in DOMAIN Panes(view) :
             Ahead(name, i, p) \/ Elsewhere(k, p) \/ Undisturbed(k, p),
         i \in 1 .. Len(Handlers[view][name].requests) =>
           \A p \in Handlers[view][name].requests[i].panes \cap OfOne(view) :
             \/ Handlers[view][name].requests[i].picks
             \/ Aim(name, i, s, chosen) = selected' \/ selected' = NoSubject
  PROVE  Covered'
<1> DEFINE h == Handlers[view][name]
           about == Aim(name, i, s, chosen)
<1>0. k \in Slots /\ view' = view /\ name \in DOMAIN Handlers[view] /\ view \in views
  BY DEF Moves, ViewTypes
<1>1. CASE Stop(k, h, TRUE, load)
  BY <1>1 DEF Stop, Covered, Clean
<1>2. CASE i = Len(h.requests) + 1 /\ Stop(k, h, err, load)
  <2>1. tasks' = [tasks EXCEPT ![k] = Idle] /\ overlapped' = overlapped /\ (error' <=> err)
    BY <1>2 DEF Stop
  <2>2. SUFFICES ASSUME Clean', NEW p \in DOMAIN Panes(view)
                 PROVE  (\E j \in Slots : Later(j, p)') \/ Settled(p)'
    BY <1>0 DEF Covered
  <2>3. ~ Ahead(name, i, p)
    <3>1. Len(h.requests) \in Nat
      BY <1>0, HandlerFine DEF Fine, Shaped
    <3> QED  BY <1>2, <3>1 DEF Ahead
  <2>4. Elsewhere(k, p) \/ Undisturbed(k, p)
    BY <2>1, <2>2, <2>3 DEF Clean
  <2>5. \A j \in Slots \ {k} :
            (InFlight(j, p)' <=> InFlight(j, p)) /\ (Later(j, p)' <=> Later(j, p))
    BY <1>0, <2>1, OthersStay
  <2>6. ~ InFlight(k, p)'
    BY <1>0, <2>1, StopFree
  <2> QED  BY <2>4, <2>5, <2>6 DEF Elsewhere, Undisturbed, Settled
<1>3. CASE Asked(k, name, i, s, chosen, err, load)
  <2> DEFINE r == h.requests[i]
  <2>1. tasks' = [tasks EXCEPT ![k] = [name |-> name, at |-> i, subject |-> about, got |-> 0]]
    BY <1>3 DEF Asked, Ask
  <2>2. SUFFICES ASSUME Clean', NEW p \in DOMAIN Panes(view)
                 PROVE  (\E j \in Slots : Later(j, p)') \/ Settled(p)'
    BY <1>0 DEF Covered
  <2>3. /\ i \in 1 .. Len(h.requests) /\ i \in Nat \ {0} /\ Len(h.requests) \in Nat
        /\ Asking(tasks[k])' = r /\ tasks'[k].got = 0 /\ tasks'[k].subject = about
        /\ \A q : InFlight(k, q)' <=> q \in r.panes
        /\ \A q : Later(k, q)' <=> Ahead(name, i + 1, q)
        /\ r.own => r.panes = DOMAIN Panes(view)
    <3>1. /\ i \in Nat \ {0} /\ i \in 1 .. Len(h.requests) /\ Len(h.requests) \in Nat
          /\ Asking(tasks[k])' = r /\ tasks'[k].got = 0 /\ tasks'[k].subject = about
          /\ \A q : InFlight(k, q)' <=> q \in r.panes
          /\ \A q : Later(k, q)' <=> Ahead(name, i + 1, q)
          /\ Reads(view, h, i)
      BY <1>3, AskedFacts
    <3> QED  BY <3>1, Zenon DEF Reads
  <2>4. \A j \in Slots \ {k} :
            (InFlight(j, p)' <=> InFlight(j, p)) /\ (Later(j, p)' <=> Later(j, p))
    BY <1>0, <2>1, OthersStay
  <2>5. ~ overlapped /\ ~ unheard' /\ ~ cleared' /\ (~ err \/ r.own)
    <3>1. ~ error' /\ ~ overlapped' /\ ~ unheard' /\ ~ cleared'
      BY <2>2 DEF Clean
    <3> QED  BY <1>3, <3>1, Zenon DEF Asked, Ask
  <2>6. CASE p \in r.panes
    <3>1. \A j \in Slots \ {k} : ~ InFlight(j, p)'
      <4>1. ASSUME NEW j \in Slots \ {k}, InFlight(j, p) PROVE FALSE
        <5>1. Running(j) /\ p \in Asking(tasks[j]).panes
          BY <4>1 DEF InFlight
        <5>2. Asking(tasks[j]).panes \cap r.panes # {}
          BY <2>6, <5>1
        <5> QED  BY <1>3, <2>2, <5>1, <5>2 DEF Asked, Ask, Clean
      <4> QED  BY <2>4, <4>1
    <3>2. Right(k, p)'
      BY <1>0, <2>3, <2>6 DEF Right
    <3> QED  BY <1>0, <2>3, <2>6, <3>1, <3>2 DEF Settled
  <2>7. CASE p \notin r.panes
    <3>1. ~ err
      BY <2>3, <2>5, <2>7
    <3>2. Ahead(name, i, p) \/ Elsewhere(k, p) \/ Undisturbed(k, p)
      BY <2>5, <3>1
    <3>3. ASSUME Ahead(name, i, p) PROVE Later(k, p)'
      <4>1. PICK m \in i .. Len(h.requests) : p \in h.requests[m].panes
        BY <3>3 DEF Ahead
      <4>2. m \in i + 1 .. Len(h.requests)
        BY <2>3, <2>7, <4>1
      <4>3. Ahead(name, i + 1, p)
        BY <4>1, <4>2 DEF Ahead
      <4> QED  BY <2>3, <4>3
    <3> QED  BY <1>0, <2>3, <2>4, <2>7, <3>2, <3>3
                DEF Elsewhere, Undisturbed, Settled
  <2> QED  BY <2>6, <2>7
<1> QED  BY <1>1, <1>2, <1>3, Outcome, Zenon DEF Outcomes
-----------------------------------------------------------------------------
(***************************************************************************)
(* A handler under way goes on.                                            *)
(***************************************************************************)
Following(k, failed) ==
  IF failed /\ ~ Asking(tasks[k]).own THEN Len(HandlerOf(tasks[k]).requests) + 1
  ELSE tasks[k].at + 1
Errs(k, failed) == error \/ (failed /\ "uncaught" \notin HandlerOf(tasks[k]).sets)
Loads(k) == loading /\ ~ Asking(tasks[k]).own

\* What is known of a task under way.
LEMMA TaskFacts ==
  ASSUME FineTable, ViewTypes, NEW k \in Slots, Running(k)
  PROVE  LET t == tasks[k]
             h == HandlerOf(t)
         IN  /\ t.name \in DOMAIN Handlers[view] /\ h = Handlers[view][t.name]
             /\ Fine(view, h) /\ Len(h.requests) \in Nat
             /\ t.at \in 1 .. Len(h.requests) /\ t.at \in Nat \ {0}
             /\ t.subject \in Subjects \cup {All} /\ t.got \in Nat
             /\ h.about \in {"any", "selected"} => t.subject \in Subjects
             /\ Asking(t) = h.requests[t.at]
             /\ Asking(t).own \in BOOLEAN /\ Asking(t).do \in {"post", "read"}
             /\ Reads(view, h, t.at) /\ Aims(view, h, t.at) /\ Follows(view, h, t.at)
<1>1. Proper(k) /\ tasks[k] \in Task /\ view \in views
  BY DEF ViewTypes
<1>2. tasks[k].name \in DOMAIN Handlers[view]
          /\ HandlerOf(tasks[k]) = Handlers[view][tasks[k].name]
  BY <1>1 DEF Proper, HandlerOf
<1>3. Fine(view, HandlerOf(tasks[k]))
  BY <1>1, <1>2, HandlerFine
<1>4. /\ tasks[k].at \in 1 .. Len(HandlerOf(tasks[k]).requests)
      /\ Len(HandlerOf(tasks[k]).requests) \in Nat
  BY <1>1, <1>3 DEF Proper, Fine, Shaped
<1>5. tasks[k].at \in Nat \ {0}
  BY <1>4
<1>6. /\ tasks[k].subject \in Subjects \cup {All} /\ tasks[k].got \in Nat
      /\ HandlerOf(tasks[k]).about \in {"any", "selected"} => tasks[k].subject \in Subjects
  BY <1>1 DEF Proper, Task
<1>7. Asking(tasks[k]) = HandlerOf(tasks[k]).requests[tasks[k].at]
  BY DEF Asking
<1>8. /\ Asking(tasks[k]).own \in BOOLEAN /\ Asking(tasks[k]).do \in {"post", "read"}
      /\ Reads(view, HandlerOf(tasks[k]), tasks[k].at)
      /\ Aims(view, HandlerOf(tasks[k]), tasks[k].at)
      /\ Follows(view, HandlerOf(tasks[k]), tasks[k].at)
  BY <1>3, <1>4, <1>7 DEF Fine
<1> QED  BY <1>2, <1>3, <1>4, <1>5, <1>6, <1>7, <1>8

\* Going on is a move.
LEMMA GoesOn ==
  ASSUME FineTable, ViewTypes, NEW k \in Slots, Running(k),
         NEW chosen \in Subjects \cup {NoSubject}, NEW failed \in BOOLEAN,
         GoOn(k, chosen, failed), UNCHANGED view
  PROVE  /\ Moves(k, tasks[k].name, Following(k, failed), tasks[k].subject, chosen,
                  Errs(k, failed), Loads(k))
         /\ unheard' = (unheard \/ (failed /\ "uncaught" \in HandlerOf(tasks[k]).sets))
<1>1. /\ tasks[k].name \in DOMAIN Handlers[view]
      /\ HandlerOf(tasks[k]) = Handlers[view][tasks[k].name]
      /\ tasks[k].at \in 1 .. Len(HandlerOf(tasks[k]).requests)
      /\ Len(HandlerOf(tasks[k]).requests) \in Nat
      /\ tasks[k].subject \in Subjects \cup {All}
      /\ HandlerOf(tasks[k]).about \in {"any", "selected"} => tasks[k].subject \in Subjects
  BY TaskFacts
<1>2. Make(k, tasks[k].name, Following(k, failed), tasks[k].subject, chosen,
           Errs(k, failed), Loads(k))
  BY DEF GoOn, Following, Errs, Loads
<1>3. Following(k, failed) \in 1 .. Len(Handlers[view][tasks[k].name].requests) + 1
  <2> DEFINE m == Len(HandlerOf(tasks[k]).requests)
             a == tasks[k].at
  <2>1. a + 1 \in 1 .. m + 1 /\ m + 1 \in 1 .. m + 1
    <3>1. a \in 1 .. m /\ m \in Nat
      BY <1>1
    <3> HIDE DEF a, m
    <3> QED  BY <3>1
  <2>2. Following(k, failed) = m + 1 \/ Following(k, failed) = a + 1
    BY DEF Following
  <2>3. m = Len(Handlers[view][tasks[k].name].requests)
    BY <1>1
  <2> HIDE DEF a, m
  <2> QED  BY <2>1, <2>2, <2>3
<1>4. Errs(k, failed) \in BOOLEAN /\ Loads(k) \in BOOLEAN
  BY Zenon DEF Errs, Loads
<1>5. unheard' = (unheard \/ (failed /\ "uncaught" \in HandlerOf(tasks[k]).sets))
  BY DEF GoOn
<1> QED  BY <1>1, <1>2, <1>3, <1>4, <1>5, Zenon DEF Moves

\* So what does not depend on the server is kept.
LEMMA GoOnInv ==
  ASSUME FineTable, ViewInv, NEW k \in Slots, Running(k),
         NEW chosen \in Subjects \cup {NoSubject}, NEW failed \in BOOLEAN,
         GoOn(k, chosen, failed), UNCHANGED view
  PROVE  /\ tasks' \in [Slots -> Task] /\ \A j \in Slots : Running(j)' => Proper(j)'
         /\ busy' \in BOOLEAN /\ error' \in BOOLEAN /\ loading' \in BOOLEAN
         /\ doubled' \in BOOLEAN /\ overlapped' \in BOOLEAN /\ unheard' \in BOOLEAN
         /\ Alone' /\ BusyHeld' /\ Awaited' /\ Once'
<1> DEFINE n == tasks[k].name
           i == Following(k, failed)
           e == Errs(k, failed)
           l == Loads(k)
<1>1. /\ Moves(k, n, i, tasks[k].subject, chosen, e, l)
      /\ unheard' = (unheard \/ (failed /\ "uncaught" \in HandlerOf(tasks[k]).sets))
  BY GoesOn DEF ViewInv
<1>2. unheard' \in BOOLEAN
  BY <1>1, Zenon
<1>3. l => \E j \in Slots \ {k} : Running(j) /\ Asking(tasks[j]).own
  BY DEF ViewInv, Awaited, Loads
<1>4. view \in Waiting /\ "busy" \in Handlers[view][n].sets => Changing(k) \/ ~ busy
  BY DEF Changing, HandlerOf
<1> HIDE DEF n, i, e, l
<1>5. /\ tasks' \in [Slots -> Task] /\ \A j \in Slots : Running(j)' => Proper(j)'
      /\ busy' \in BOOLEAN /\ error' \in BOOLEAN /\ loading' \in BOOLEAN
      /\ doubled' \in BOOLEAN /\ overlapped' \in BOOLEAN
  BY <1>1, MakeTypes DEF ViewInv
<1>6. Alone'
  BY <1>1, MakeAlone DEF ViewInv
<1>7. BusyHeld'
  BY <1>1, MakeHeld DEF ViewInv
<1>8. Awaited'
  BY <1>1, <1>3, MakeAwaited DEF ViewInv
<1>9. Once'
  BY <1>1, <1>4, MakeOnce DEF ViewInv
<1> QED  BY <1>2, <1>5, <1>6, <1>7, <1>8, <1>9

\* The others are as they were.
LEMMA OthersSame ==
  ASSUME FineTable, ViewTypes,
         NEW k, NEW name, NEW i, NEW s, NEW chosen, NEW err, NEW load,
         Moves(k, name, i, s, chosen, err, load), NEW j \in Slots \ {k}
  PROVE  /\ tasks'[j] = tasks[j] /\ Asking(tasks[j])' = Asking(tasks[j])
         /\ What(tasks[j])' = What(tasks[j])
<1>1. k \in Slots /\ view' = view
  BY DEF Moves
<1>2. ASSUME NEW x, tasks' = [tasks EXCEPT ![k] = x]
      PROVE  /\ tasks'[j] = tasks[j] /\ Asking(tasks[j])' = Asking(tasks[j])
             /\ What(tasks[j])' = What(tasks[j])
  BY <1>1, <1>2, OthersStay
<1>3. \E x : tasks' = [tasks EXCEPT ![k] = x]
  BY Outcome, Zenon DEF Outcomes, Asked, Ask, Stop
<1> QED  BY <1>2, <1>3

\* What a request under way is of, for a pane.
LEMMA WhatFor ==
  ASSUME FineTable, ViewTypes, NEW k \in Slots, NEW p \in DOMAIN Panes(view), InFlight(k, p)
  PROVE  IF p \in OfOne(view)
         THEN What(tasks[k]) = tasks[k].subject /\ tasks[k].subject \in Subjects
         ELSE What(tasks[k]) = All /\ Asking(tasks[k]).do = "read"
<1>1. Running(k) /\ p \in Asking(tasks[k]).panes
  BY DEF InFlight
<1>2. /\ Asking(tasks[k]) = HandlerOf(tasks[k]).requests[tasks[k].at]
      /\ Asking(tasks[k]).do \in {"post", "read"}
      /\ HandlerOf(tasks[k]).about \in {"any", "selected"} => tasks[k].subject \in Subjects
      /\ Reads(view, HandlerOf(tasks[k]), tasks[k].at)
  BY <1>1, TaskFacts
<1>3. IF p \in OfOne(view) THEN Panes(view)[p] = "one" ELSE Panes(view)[p] = All
  BY PaneKinds
<1>4. CASE Asking(tasks[k]).do = "read"
  BY <1>1, <1>2, <1>3, <1>4, ViewsAssumption DEF Reads, What
<1>5. CASE Asking(tasks[k]).do = "post"
  BY <1>1, <1>2, <1>5 DEF Reads, What
<1> QED  BY <1>2, <1>4, <1>5

\* A pane whose number and subject stay is not disturbed.
LEMMA Untouched ==
  ASSUME FineTable, ViewTypes,
         NEW k, NEW name, NEW i, NEW s, NEW chosen, NEW err, NEW load,
         Moves(k, name, i, s, chosen, err, load),
         NEW p \in DOMAIN Panes(view), Settled(p), ~ InFlight(k, p), shown'[p] = shown[p],
         p \in OfOne(view) => /\ selected' = selected \/ selected' = NoSubject
                              /\ \A o \in Subjects : acked'[o] = acked[o],
         p \notin OfOne(view) => acked'[All] = acked[All]
  PROVE  Undisturbed(k, p)
<1>1. k \in Slots /\ view' = view /\ selected \in Subjects \cup {NoSubject}
  BY DEF Moves, ViewTypes
<1>2. ASSUME NEW j \in Slots \ {k}, InFlight(j, p) PROVE Right(j, p)'
  <2>1. Right(j, p)
    BY <1>2 DEF Settled
  <2>2. /\ tasks'[j] = tasks[j] /\ Asking(tasks[j])' = Asking(tasks[j])
        /\ What(tasks[j])' = What(tasks[j])
    BY OthersSame
  <2>3. acked'[What(tasks[j])] = acked[What(tasks[j])]
    BY <1>2, WhatFor
  <2> QED  BY <1>1, <2>1, <2>2, <2>3 DEF Right
<1>3. Good(p) => Good(p)'
  BY <1>1 DEF Good
<1>4. Good(p) \/ \E j \in Slots \ {k} : InFlight(j, p)
  BY DEF Settled
<1> QED  BY <1>2, <1>3, <1>4 DEF Undisturbed

\* Aims, of the request after one.
LEMMA AimsNext ==
  ASSUME NEW v, NEW h, NEW a \in Nat \ {0}, Aims(v, h, a + 1),
         NEW p \in h.requests[a + 1].panes \cap OfOne(v)
  PROVE  h.requests[a + 1].picks \/ h.requests[a + 1].again \/ h.requests[a].picks
<1>1. a + 1 # 1 /\ a + 1 - 1 = a
  OBVIOUS
<1>2. \/ h.requests[a + 1].picks \/ h.requests[a + 1].again
      \/ a + 1 = 1
      \/ h.requests[(a + 1) - 1].picks
  BY Zenon DEF Aims
<1> QED  BY <1>1, <1>2

\* What is asked for next is about what is selected, or selects it.
LEMMA NextAim ==
  ASSUME FineTable, ViewTypes, NEW k \in Slots, Running(k),
         selected' = IF Asking(tasks[k]).picks THEN tasks[k].subject ELSE selected,
         tasks[k].at + 1 \in 1 .. Len(Handlers[view][tasks[k].name].requests),
         NEW p \in Handlers[view][tasks[k].name].requests[tasks[k].at + 1].panes \cap OfOne(view)
  PROVE  \/ Handlers[view][tasks[k].name].requests[tasks[k].at + 1].picks
         \/ Aim(tasks[k].name, tasks[k].at + 1, tasks[k].subject, selected') = selected'
<1> DEFINE h == Handlers[view][tasks[k].name]
           a == tasks[k].at
<1>1. /\ h = HandlerOf(tasks[k]) /\ Fine(view, h) /\ a \in Nat \ {0}
      /\ Asking(tasks[k]) = h.requests[a]
  BY TaskFacts
<1>2. Aims(view, h, a + 1)
  BY <1>1 DEF Fine
<1>3. a + 1 # 1 /\ a + 1 - 1 = a
  <2>1. a \in Nat \ {0}
    BY <1>1
  <2> HIDE DEF a
  <2> QED  BY <2>1
<1>4. h.requests[a + 1].picks \/ h.requests[a + 1].again \/ h.requests[a].picks
  <2>1. a \in Nat \ {0} /\ p \in h.requests[a + 1].panes \cap OfOne(view)
    BY <1>1
  <2> HIDE DEF h, a
  <2> QED  BY <1>2, <2>1, AimsNext
<1> QED  BY <1>1, <1>4 DEF Aim
-----------------------------------------------------------------------------
(***************************************************************************)
(* The steps.                                                              *)
(***************************************************************************)
\* A failure is shown, or nobody heard of it.
LEMMA FailsInv ==
  ASSUME FineTable, ViewInv, NEW k \in Slots, NEW acted \in BOOLEAN, Fails(k, acted)
  PROVE  ViewInv'
<1> DEFINE n == tasks[k].name
           i == Following(k, TRUE)
           e == Errs(k, TRUE)
           l == Loads(k)
<1>0. ViewTypes /\ Running(k)
  BY DEF ViewInv, Fails
<1>1. /\ UNCHANGED <<view, acked, selected, shown, clicks, cleared>> /\ GoOn(k, selected, TRUE)
      /\ selected \in Subjects \cup {NoSubject}
  BY DEF Fails, ViewInv, ViewTypes
<1>2. /\ tasks' \in [Slots -> Task] /\ \A j \in Slots : Running(j)' => Proper(j)'
      /\ busy' \in BOOLEAN /\ error' \in BOOLEAN /\ loading' \in BOOLEAN
      /\ doubled' \in BOOLEAN /\ overlapped' \in BOOLEAN /\ unheard' \in BOOLEAN
      /\ Alone' /\ BusyHeld' /\ Awaited' /\ Once'
  BY <1>0, <1>1, GoOnInv
<1>3. /\ version' \in [Subjects \cup {All} -> Nat]
      /\ \A o \in Subjects \cup {All} : acked'[o] <= version'[o]
  <2>1. \A o \in Subjects \cup {All} :
          /\ version[o] \in Nat /\ acked[o] \in Nat /\ acked[o] <= version[o]
          /\ version'[o] = version[o] + 1 \/ version'[o] = version[o]
    BY <1>0 DEF Fails, ViewTypes
  <2>2. DOMAIN version' = Subjects \cup {All}
            /\ version' = [o \in DOMAIN version' |-> version'[o]]
    BY <1>0 DEF Fails, ViewTypes
  <2> QED  BY <1>1, <2>1, <2>2
<1>4. ViewTypes'
  BY <1>0, <1>1, <1>2, <1>3 DEF ViewTypes
<1>5. /\ Moves(k, n, i, tasks[k].subject, selected, e, l)
      /\ unheard' = (unheard \/ "uncaught" \in HandlerOf(tasks[k]).sets)
  BY <1>0, <1>1, GoesOn
<1>6. e \/ unheard'
  BY <1>5, Zenon DEF Errs
<1>7. i \notin 1 .. Len(Handlers[view][n].requests)
  <2> DEFINE m == Len(HandlerOf(tasks[k]).requests)
  <2>1. /\ m \in Nat /\ m = Len(Handlers[view][n].requests)
        /\ Asking(tasks[k]).own => tasks[k].at = m
    <3>1. m \in Nat /\ m = Len(Handlers[view][n].requests)
      BY <1>0, TaskFacts
    <3>2. Reads(view, HandlerOf(tasks[k]), tasks[k].at)
          /\ Asking(tasks[k]) = HandlerOf(tasks[k]).requests[tasks[k].at]
      BY <1>0, TaskFacts
    <3>3. Asking(tasks[k]).own => tasks[k].at = m
      BY <3>2 DEF Reads
    <3> QED  BY <3>1, <3>3
  <2>2. i = m + 1
    BY <2>1 DEF Following
  <2>3. m \in Nat
    BY <2>1
  <2> HIDE DEF i, m
  <2>4. i \notin 1 .. m
    BY <2>2, <2>3
  <2> QED  BY <2>1, <2>4
<1> HIDE DEF n, i, e, l
<1>8. Covered'
  BY <1>0, <1>5, <1>6, <1>7, MakeCovered
<1> QED  BY <1>2, <1>4, <1>8 DEF ViewInv

\* The server reads no less than was acknowledged.
LEMMA ServeInv ==
  ASSUME FineTable, ViewInv, NEW k \in Slots, Serve(k)
  PROVE  ViewInv'
<1> DEFINE g == version[What(tasks[k])]
           t == [tasks[k] EXCEPT !.got = g]
<1>0. ViewTypes /\ Running(k) /\ tasks[k] \in Task
  BY DEF ViewInv, Serve, ViewTypes
<1>1. UNCHANGED <<view, version, acked, busy, loading, error, selected, shown,
                  clicks, doubled, overlapped, unheard, cleared>>
  BY DEF Serve
<1>2. What(tasks[k]) \in Subjects \cup {All} /\ g \in Nat /\ g >= acked[What(tasks[k])]
  <2>1. What(tasks[k]) \in Subjects \cup {All}
    BY <1>0, TaskFacts DEF What
  <2> QED  BY <1>0, <2>1 DEF ViewTypes
<1>3. tasks' = [tasks EXCEPT ![k] = t]
  BY <1>0 DEF Serve, ViewTypes
<1>4. /\ t.name = tasks[k].name /\ t.at = tasks[k].at /\ t.subject = tasks[k].subject
      /\ t.got = g /\ t \in Task
  BY <1>0, <1>2 DEF Task
<1>5. t # Idle
  <2>1. tasks[k].at \in Nat \ {0}
    BY <1>0, TaskFacts
  <2> QED  BY <1>4, <2>1 DEF Idle
<1> HIDE DEF t
<1>6. tasks'[k] = t
  BY <1>0, <1>1, <1>3, OthersStay
<1>7. /\ Running(k)' /\ HandlerOf(tasks[k])' = HandlerOf(tasks[k])
      /\ Asking(tasks[k])' = Asking(tasks[k]) /\ What(tasks[k])' = What(tasks[k])
  BY <1>1, <1>4, <1>5, <1>6 DEF Running, HandlerOf, Asking, What, Idle
<1>8. \A j \in Slots :
        /\ (Running(j)' <=> Running(j)) /\ HandlerOf(tasks[j])' = HandlerOf(tasks[j])
        /\ Asking(tasks[j])' = Asking(tasks[j]) /\ (Proper(j) => Proper(j)')
        /\ (Changing(j)' <=> Changing(j))
        /\ \A p : (InFlight(j, p)' <=> InFlight(j, p)) /\ (Later(j, p)' <=> Later(j, p))
  <2>1. ASSUME NEW j \in Slots \ {k}
        PROVE  /\ (Running(j)' <=> Running(j)) /\ HandlerOf(tasks[j])' = HandlerOf(tasks[j])
               /\ Asking(tasks[j])' = Asking(tasks[j]) /\ (Proper(j) => Proper(j)')
               /\ (Changing(j)' <=> Changing(j))
               /\ \A p : (InFlight(j, p)' <=> InFlight(j, p)) /\ (Later(j, p)' <=> Later(j, p))
    BY <1>0, <1>1, <1>3, OthersStay
  <2>2. (Proper(k) => Proper(k)') /\ (Changing(k)' <=> Changing(k))
    BY <1>0, <1>1, <1>4, <1>6, <1>7 DEF Proper, Changing
  <2>3. \A p : (InFlight(k, p)' <=> InFlight(k, p)) /\ (Later(k, p)' <=> Later(k, p))
    BY <1>0, <1>4, <1>6, <1>7 DEF InFlight, Later
  <2> QED  BY <1>0, <1>7, <2>1, <2>2, <2>3
<1>9. ASSUME NEW j \in Slots, NEW p, Right(j, p) PROVE Right(j, p)'
  <2>1. CASE j = k
    BY <1>1, <1>2, <1>4, <1>6, <1>7, <1>9, <2>1 DEF Right
  <2>2. CASE j # k
    <3>1. tasks'[j] = tasks[j] /\ Asking(tasks[j])' = Asking(tasks[j])
              /\ What(tasks[j])' = What(tasks[j])
      BY <1>0, <1>1, <1>3, <2>2, OthersStay
    <3> QED  BY <1>1, <1>9, <3>1 DEF Right
  <2> QED  BY <2>1, <2>2
<1>10. ViewTypes'
  <2>1. tasks' \in [Slots -> Task]
    BY <1>0, <1>3, <1>4 DEF ViewTypes
  <2> QED  BY <1>0, <1>1, <1>8, <2>1 DEF ViewTypes
<1>11. Covered'
  <2>1. \A p : Good(p)' <=> Good(p)
    BY <1>1 DEF Good
  <2> QED  BY <1>1, <1>8, <1>9, <2>1 DEF ViewInv, Covered, Clean, Settled
<1>12. Alone'
  BY <1>1, <1>8 DEF ViewInv, Alone
<1>13. BusyHeld' /\ Awaited'
  BY <1>1, <1>8 DEF ViewInv, BusyHeld, Awaited
<1>14. Once'
  BY <1>1, <1>8 DEF ViewInv, Once
<1> QED  BY <1>10, <1>11, <1>12, <1>13, <1>14 DEF ViewInv

\* What is still asked for is before the handler.
LEMMA StillAhead ==
  ASSUME FineTable, ViewTypes, NEW k \in Slots, Running(k), NEW p \in DOMAIN Panes(view),
         \/ Later(k, p)
         \/ p \notin Asking(tasks[k]).panes
            /\ Affects(view, HandlerOf(tasks[k]), tasks[k].at, p)
  PROVE  Ahead(tasks[k].name, tasks[k].at + 1, p)
<1>1. /\ HandlerOf(tasks[k]) = Handlers[view][tasks[k].name]
      /\ Asking(tasks[k]) = HandlerOf(tasks[k]).requests[tasks[k].at]
      /\ Follows(view, HandlerOf(tasks[k]), tasks[k].at)
  BY TaskFacts
<1>2. CASE Later(k, p)
  BY <1>1, <1>2 DEF Later, Ahead
<1>3. CASE /\ p \notin Asking(tasks[k]).panes
           /\ Affects(view, HandlerOf(tasks[k]), tasks[k].at, p)
  BY <1>1, <1>3 DEF Follows, Ahead
<1> QED  BY <1>2, <1>3

\* When no request of others is under way for a pane that is as it should be.
LEMMA AnsweredHere ==
  ASSUME Alone, ~ overlapped, NEW k \in Slots, NEW p \in {1, 2}, InFlight(k, p), Good(p)'
  PROVE  Undisturbed(k, p)
BY DEF Alone, Undisturbed

\* A change is acknowledged: what shows it is read again, or is given it.
LEMMA DoneInv ==
  ASSUME FineTable, ViewInv, NEW k \in Slots, Done(k)
  PROVE  ViewInv'
<1> DEFINE n == tasks[k].name
           i == Following(k, FALSE)
           e == Errs(k, FALSE)
           l == Loads(k)
           r == Asking(tasks[k])
           o == tasks[k].subject
           S == Subjects \cup {All}
<1>0. ViewTypes /\ Running(k) /\ r.do = "post"
  BY DEF ViewInv, Done
<1>1. /\ UNCHANGED <<view, clicks, cleared>> /\ GoOn(k, selected', FALSE)
      /\ selected' = (IF r.picks THEN o ELSE selected)
      /\ shown' = [p \in DOMAIN shown |->
                     IF p \in r.panes THEN [subject |-> o,
                         version |-> version'[o]] ELSE shown[p]]
  BY DEF Done
<1>2. /\ o \in S /\ Reads(view, HandlerOf(tasks[k]), tasks[k].at)
      /\ r = HandlerOf(tasks[k]).requests[tasks[k].at]
      /\ HandlerOf(tasks[k]).about \in {"any", "selected"} => o \in Subjects
  BY <1>0, TaskFacts
<1>3. /\ r.picks \/ r.of \in {"one", "both"} => o \in Subjects
      /\ r.panes \subseteq OfOne(view) /\ (r.panes # {} => r.picks /\ r.of # All)
  BY <1>0, <1>2 DEF Reads
<1>4. selected' \in Subjects \cup {NoSubject}
  BY <1>0, <1>1, <1>3 DEF ViewTypes
<1>5. /\ tasks' \in [Slots -> Task] /\ \A j \in Slots : Running(j)' => Proper(j)'
      /\ busy' \in BOOLEAN /\ error' \in BOOLEAN /\ loading' \in BOOLEAN
      /\ doubled' \in BOOLEAN /\ overlapped' \in BOOLEAN /\ unheard' \in BOOLEAN
      /\ Alone' /\ BusyHeld' /\ Awaited' /\ Once'
  BY <1>0, <1>1, <1>4, GoOnInv
<1>6. /\ version' \in [S -> Nat] /\ acked' \in [S -> Nat]
      /\ \A x \in S :
           /\ acked'[x] <= version'[x]
           /\ acked'[x] # acked[x] => x \in Scope(r.of, o)
  <2>1. \A x \in S :
          /\ version[x] \in Nat /\ acked[x] \in Nat /\ acked[x] <= version[x]
          /\ version'[x] = IF x \in Scope(r.of, o) THEN version[x] + 1 ELSE version[x]
          /\ acked'[x] = IF x \in Scope(r.of, o) THEN version'[x] ELSE acked[x]
    BY <1>0 DEF Done, ViewTypes
  <2>2. /\ DOMAIN version' = S /\ version' = [x \in DOMAIN version' |-> version'[x]]
        /\ DOMAIN acked' = S /\ acked' = [x \in DOMAIN acked' |-> acked'[x]]
    BY <1>0 DEF Done, ViewTypes
  <2> QED  BY <2>1, <2>2
<1>7. shown' \in [{1, 2} -> [subject : Subjects \cup {All, NoSubject}, version : Nat]]
  <2>1. version'[o] \in Nat
    BY <1>2, <1>6
  <2> QED  BY <1>0, <1>1, <1>2, <2>1 DEF ViewTypes
<1>8. ViewTypes'
  BY <1>0, <1>1, <1>4, <1>5, <1>6, <1>7 DEF ViewTypes
<1>9. /\ Moves(k, n, i, o, selected', e, l)
      /\ unheard' = (unheard \/ (FALSE /\ "uncaught" \in HandlerOf(tasks[k]).sets))
  BY <1>0, <1>1, <1>4, GoesOn
<1>10. i = tasks[k].at + 1 /\ (~ e => ~ error) /\ (~ unheard' => ~ unheard)
  BY <1>9, Zenon DEF Following, Errs
<1>11. ASSUME ~ e, ~ overlapped, ~ unheard', ~ cleared', NEW p \in DOMAIN Panes(view)
       PROVE  Ahead(n, i, p) \/ Elsewhere(k, p) \/ Undisturbed(k, p)
  <2>1. (\E j \in Slots : Later(j, p)) \/ Settled(p)
    BY <1>1, <1>10, <1>11 DEF ViewInv, Covered, Clean
  <2>2. CASE \E j \in Slots : Later(j, p)
    BY <1>0, <1>10, <2>2, StillAhead DEF Elsewhere
  <2>3. CASE Settled(p) /\ p \in r.panes
    <3>1. p \in OfOne(view) /\ r.picks /\ o \in Subjects /\ p \in {1, 2}
      BY <1>3, <2>3, PaneKinds
    <3>2. shown'[p] = [subject |-> o, version |-> version'[o]] /\ selected' = o
      BY <1>0, <1>1, <2>3, <3>1 DEF ViewTypes
    <3>3. acked'[o] <= version'[o] /\ acked'[o] \in Nat /\ version'[o] \in Nat
      BY <1>6, <3>1
    <3>4. Good(p)'
      BY <1>1, <3>1, <3>2, <3>3 DEF Good
    <3>5. InFlight(k, p)
      BY <1>0, <2>3 DEF InFlight
    <3> QED  BY <1>11, <3>1, <3>4, <3>5, AnsweredHere DEF ViewInv
  <2>4. CASE Settled(p) /\ p \notin r.panes
    <3>1. CASE Affects(view, HandlerOf(tasks[k]), tasks[k].at, p)
      BY <1>0, <1>10, <2>4, <3>1, StillAhead
    <3>2. CASE ~ Affects(view, HandlerOf(tasks[k]), tasks[k].at, p)
      <4>1. ~ InFlight(k, p)
        BY <2>4 DEF InFlight
      <4>2. shown'[p] = shown[p]
        BY <1>0, <1>1, <2>4, PaneKinds DEF ViewTypes
      <4>3. p \in OfOne(view) => selected' = selected /\ \A x \in Subjects :
                acked'[x] = acked[x]
        BY <1>0, <1>1, <1>2, <1>6, <3>2, ViewsAssumption DEF Affects, Scope
      <4>4. p \notin OfOne(view) => acked'[All] = acked[All]
        BY <1>0, <1>2, <1>3, <1>6, <3>2, ViewsAssumption DEF Affects, Scope
      <4> HIDE DEF n, i, e, l
      <4> QED  BY <1>0, <1>9, <2>4, <4>1, <4>2, <4>3, <4>4, Untouched
    <3> QED  BY <3>1, <3>2
  <2> QED  BY <2>1, <2>2, <2>3, <2>4
<1>12. i \in 1 .. Len(Handlers[view][n].requests) =>
         \A p \in Handlers[view][n].requests[i].panes \cap OfOne(view) :
           Handlers[view][n].requests[i].picks \/ Aim(n, i, o, selected') = selected'
  BY <1>0, <1>1, <1>10, NextAim
<1> HIDE DEF n, i, e, l, o
<1>13. Covered'
  BY <1>0, <1>9, <1>11, <1>12, MakeCovered
<1> QED  BY <1>5, <1>8, <1>13 DEF ViewInv

\* An answer is shown: it is what the pane should show.
LEMMA AnsweredInv ==
  ASSUME FineTable, ViewInv, NEW k \in Slots, Answer(k)
  PROVE  ViewInv'
<1> DEFINE n == tasks[k].name
           i == Following(k, FALSE)
           e == Errs(k, FALSE)
           l == Loads(k)
           r == Asking(tasks[k])
           o == tasks[k].subject
           w == What(tasks[k])
           g == tasks[k].got
<1>0. ViewTypes /\ Running(k) /\ r.do = "read" /\ g \in Nat /\ g > 0
  <2>1. ViewTypes /\ Running(k) /\ r.do = "read" /\ g > 0
    BY DEF ViewInv, Answer
  <2> QED  BY <2>1, TaskFacts
<1>1. /\ UNCHANGED <<view, version, acked, clicks, cleared>> /\ GoOn(k, selected', FALSE)
      /\ selected' = (IF r.picks THEN o ELSE selected)
      /\ shown' = [p \in DOMAIN shown |->
                     IF p \in r.panes THEN [subject |-> w, version |-> g] ELSE shown[p]]
  BY DEF Answer
<1>2. /\ o \in Subjects \cup {All} /\ Reads(view, HandlerOf(tasks[k]), tasks[k].at)
      /\ r = HandlerOf(tasks[k]).requests[tasks[k].at]
      /\ HandlerOf(tasks[k]).about \in {"any", "selected"} => o \in Subjects
  BY <1>0, TaskFacts
<1>3. r.picks => o \in Subjects
  BY <1>2 DEF Reads
<1>4. selected' \in Subjects \cup {NoSubject} /\ w \in Subjects \cup {All}
  BY <1>0, <1>1, <1>2, <1>3 DEF ViewTypes, What
<1>5. /\ tasks' \in [Slots -> Task] /\ \A j \in Slots : Running(j)' => Proper(j)'
      /\ busy' \in BOOLEAN /\ error' \in BOOLEAN /\ loading' \in BOOLEAN
      /\ doubled' \in BOOLEAN /\ overlapped' \in BOOLEAN /\ unheard' \in BOOLEAN
      /\ Alone' /\ BusyHeld' /\ Awaited' /\ Once'
  BY <1>0, <1>1, <1>4, GoOnInv
<1>6. shown' \in [{1, 2} -> [subject : Subjects \cup {All, NoSubject}, version : Nat]]
  BY <1>0, <1>1, <1>4 DEF ViewTypes
<1>7. ViewTypes'
  BY <1>0, <1>1, <1>4, <1>5, <1>6 DEF ViewTypes
<1>8. /\ Moves(k, n, i, o, selected', e, l)
      /\ unheard' = (unheard \/ (FALSE /\ "uncaught" \in HandlerOf(tasks[k]).sets))
  BY <1>0, <1>1, <1>4, GoesOn
<1>9. i = tasks[k].at + 1 /\ (~ e => ~ error) /\ (~ unheard' => ~ unheard)
  BY <1>8, Zenon DEF Following, Errs
<1>10. ASSUME ~ e, ~ overlapped, ~ unheard', ~ cleared', NEW p \in DOMAIN Panes(view)
       PROVE  Ahead(n, i, p) \/ Elsewhere(k, p) \/ Undisturbed(k, p)
  <2>1. (\E j \in Slots : Later(j, p)) \/ Settled(p)
    BY <1>1, <1>9, <1>10 DEF ViewInv, Covered, Clean
  <2>2. CASE \E j \in Slots : Later(j, p)
    BY <1>0, <1>9, <2>2, StillAhead DEF Elsewhere
  <2>3. CASE Settled(p) /\ p \in r.panes
    <3>1. InFlight(k, p) /\ p \in {1, 2}
      BY <1>0, <2>3, PaneKinds DEF InFlight
    <3>2. /\ \/ p \notin OfOne(view) \/ r.picks \/ o = selected \/ selected = NoSubject
          /\ g = 0 \/ g >= acked[w]
      BY <2>3, <3>1 DEF Settled, Right
    <3>3. IF p \in OfOne(view) THEN w = o /\ o \in Subjects ELSE w = All
      BY <1>0, <3>1, WhatFor
    <3>4. shown'[p] = [subject |-> w, version |-> g] /\ g >= acked[w]
      BY <1>0, <1>1, <2>3, <3>1, <3>2 DEF ViewTypes
    <3>5. Good(p)'
      BY <1>1, <3>2, <3>3, <3>4 DEF Good
    <3> QED  BY <1>10, <3>1, <3>5, AnsweredHere DEF ViewInv
  <2>4. CASE Settled(p) /\ p \notin r.panes
    <3>1. CASE Affects(view, HandlerOf(tasks[k]), tasks[k].at, p)
      BY <1>0, <1>9, <2>4, <3>1, StillAhead
    <3>2. CASE ~ Affects(view, HandlerOf(tasks[k]), tasks[k].at, p)
      <4>1. ~ InFlight(k, p)
        BY <2>4 DEF InFlight
      <4>2. shown'[p] = shown[p]
        BY <1>0, <1>1, <2>4, PaneKinds DEF ViewTypes
      <4>3. p \in OfOne(view) => selected' = selected
        BY <1>1, <1>2, <3>2 DEF Affects
      <4> HIDE DEF n, i, e, l
      <4> QED  BY <1>0, <1>1, <1>8, <2>4, <4>1, <4>2, <4>3, Untouched
    <3> QED  BY <3>1, <3>2
  <2> QED  BY <2>1, <2>2, <2>3, <2>4
<1>11. i \in 1 .. Len(Handlers[view][n].requests) =>
         \A p \in Handlers[view][n].requests[i].panes \cap OfOne(view) :
           Handlers[view][n].requests[i].picks \/ Aim(n, i, o, selected') = selected'
  BY <1>0, <1>1, <1>9, NextAim
<1> HIDE DEF n, i, e, l, o
<1>12. Covered'
  BY <1>0, <1>8, <1>10, <1>11, MakeCovered
<1> QED  BY <1>5, <1>7, <1>12 DEF ViewInv

\* A button is pressed: an error is taken away only by a handler that reads all
\* again, or that is said.
LEMMA ClickInv ==
  ASSUME FineTable, ViewInv, NEW k \in Slots, NEW name \in DOMAIN Handlers[view], NEW s,
         Click(k, name, s)
  PROVE  ViewInv'
<1> DEFINE h == Handlers[view][name]
           e == (error /\ "clears" \notin h.sets)
           first == "first" \in h.sets
           lost == error /\ "clears" \in h.sets /\ ~ DOMAIN Panes(view) \subseteq Rereads(h)
<1>0. ViewTypes /\ ~ Running(k) /\ Able(h) /\ s \in About(h) /\ name # "mount"
  BY DEF ViewInv, Click
<1>1. /\ UNCHANGED <<view, version, acked, shown, unheard>>
      /\ selected' = (IF first THEN s ELSE selected)
      /\ clicks' = clicks + 1 /\ clicks < MaxClicks
      /\ Make(k, name, 1, s, selected', e, loading)
      /\ cleared' = (cleared \/ lost)
  BY DEF Click
<1>2. Fine(view, h) /\ Shaped(view, h) /\ Len(h.requests) \in Nat
      /\ (view \in Waiting => Patient(name, h))
  BY <1>0, HandlerFine DEF ViewTypes, Fine, Shaped
<1>3. /\ s \in Subjects \cup {All, NoSubject}
      /\ h.about \in {"any", "selected"} => s \in Subjects
      /\ h.about \in {All, NoSubject} => s = h.about
      /\ first => s \in Subjects \cup {NoSubject}
  BY <1>0, <1>2, ViewsAssumption DEF About, Shaped, ViewTypes
<1>4. selected' \in Subjects \cup {NoSubject}
  BY <1>0, <1>1, <1>3 DEF ViewTypes
<1>5. e \in BOOLEAN /\ loading \in BOOLEAN
  BY <1>0, Zenon DEF ViewTypes
<1>6. 1 \in 1 .. Len(h.requests) + 1
  <2> DEFINE m == Len(h.requests)
  <2>1. m \in Nat
    BY <1>2
  <2> HIDE DEF m
  <2>2. 1 \in 1 .. m + 1
    BY <2>1
  <2> QED  BY <2>2 DEF m
<1>7. Moves(k, name, 1, s, selected', e, loading)
  BY <1>0, <1>1, <1>3, <1>4, <1>5, <1>6 DEF Moves
<1>8. cleared' \in BOOLEAN /\ (~ cleared' => ~ cleared /\ ~ lost)
  BY <1>1, Zenon
<1> HIDE DEF e
<1>9. /\ tasks' \in [Slots -> Task] /\ \A j \in Slots : Running(j)' => Proper(j)'
      /\ busy' \in BOOLEAN /\ error' \in BOOLEAN /\ loading' \in BOOLEAN
      /\ doubled' \in BOOLEAN /\ overlapped' \in BOOLEAN
  BY <1>0, <1>7, MakeTypes
<1>10. ViewTypes'
  BY <1>0, <1>1, <1>4, <1>8, <1>9, ViewsAssumption DEF ViewTypes
<1>11. Alone' /\ BusyHeld'
  BY <1>0, <1>7, MakeAlone, MakeHeld DEF ViewInv
<1>12. Awaited'
  <2>1. loading => \E j \in Slots \ {k} : Running(j) /\ Asking(tasks[j]).own
    BY <1>0 DEF ViewInv, Awaited
  <2> QED  BY <1>0, <1>7, <2>1, MakeAwaited
<1>13. Once'
  <2>1. view \in Waiting /\ "busy" \in h.sets => ~ busy
    BY <1>0, <1>2 DEF Patient, Able
  <2> QED  BY <1>0, <1>7, <2>1, MakeOnce DEF ViewInv
<1>14. ASSUME ~ e, ~ overlapped, ~ unheard', ~ cleared', NEW p \in DOMAIN Panes(view)
       PROVE  Ahead(name, 1, p) \/ Elsewhere(k, p) \/ Undisturbed(k, p)
  <2>1. ~ InFlight(k, p) /\ ~ Later(k, p)
    BY <1>0 DEF InFlight, Later
  <2>2. CASE error
    <3>1. p \in Rereads(h)
      BY <1>8, <1>14, <2>2 DEF e
    <3>2. PICK m \in DOMAIN h.requests : p \in h.requests[m].panes
      BY <3>1 DEF Rereads
    <3>3. DOMAIN h.requests = 1 .. Len(h.requests)
      BY <1>2 DEF Shaped
    <3> QED  BY <3>2, <3>3 DEF Ahead
  <2>3. CASE ~ error
    <3>1. (\E j \in Slots : Later(j, p)) \/ Settled(p)
      BY <1>1, <1>8, <1>14, <2>3 DEF ViewInv, Covered, Clean
    <3>2. CASE \E j \in Slots : Later(j, p)
      BY <2>1, <3>2 DEF Elsewhere
    <3>3. CASE Settled(p) /\ ~ (first /\ p \in OfOne(view) /\ Len(h.requests) > 0)
      <4>1. p \in OfOne(view) => selected' = selected \/ selected' = NoSubject
        <5>1. CASE first /\ Len(h.requests) = 0
          BY <1>1, <1>2, <1>3, <5>1 DEF Shaped
        <5>2. CASE ~ first
          BY <1>1, <5>2
        <5>3. Len(h.requests) = 0 \/ Len(h.requests) > 0
          <6> DEFINE m == Len(h.requests)
          <6>1. m \in Nat
            BY <1>2
          <6> HIDE DEF m
          <6>2. m = 0 \/ m > 0
            BY <6>1
          <6> QED  BY <6>2 DEF m
        <5> QED  BY <3>3, <5>1, <5>2, <5>3
      <4> QED  BY <1>0, <1>1, <1>7, <2>1, <3>3, <4>1, Untouched
    <3>4. CASE first /\ p \in OfOne(view) /\ Len(h.requests) > 0
      <4>1. p \in h.requests[1].panes
        BY <1>2, <3>4 DEF Shaped
      <4>2. 1 \in 1 .. Len(h.requests)
        <5> DEFINE m == Len(h.requests)
        <5>1. m \in Nat /\ m > 0
          BY <1>2, <3>4
        <5> HIDE DEF m
        <5>2. 1 \in 1 .. m
          BY <5>1
        <5> QED  BY <5>2 DEF m
      <4> QED  BY <4>1, <4>2 DEF Ahead
    <3> QED  BY <3>1, <3>2, <3>3, <3>4
  <2> QED  BY <1>0, <2>2, <2>3 DEF ViewTypes
<1>15. 1 \in 1 .. Len(h.requests) =>
         \A p \in h.requests[1].panes \cap OfOne(view) :
           h.requests[1].picks \/ Aim(name, 1, s, selected') = selected'
  <2>1. 1 \in 1 .. Len(h.requests) => Aims(view, h, 1)
    BY <1>2 DEF Fine
  <2> QED  BY <1>1, <2>1 DEF Aims, Aim
<1>16. Covered'
  BY <1>0, <1>7, <1>14, <1>15, MakeCovered
<1> QED  BY <1>10, <1>11, <1>12, <1>13, <1>16 DEF ViewInv

\* A view opens with its first handler under way, which reads what it shows.
LEMMA ViewsInitInv == ASSUME FineTable PROVE ViewsInit => ViewInv
<1> SUFFICES ASSUME ViewsInit PROVE ViewInv
  OBVIOUS
<1> DEFINE h == Handlers[view].mount
           o == IF view = "grant" THEN selected ELSE All
           t == [name |-> "mount", at |-> 1, subject |-> o, got |-> 0]
<1>1. /\ view \in views /\ version = [s \in Subjects \cup {All} |-> 1] /\ acked = version
      /\ selected = (IF view = "grant" THEN CHOOSE s \in Subjects : TRUE ELSE NoSubject)
      /\ shown = [p \in {1, 2} |-> [subject |-> NoSubject, version |-> 0]]
      /\ tasks = [k \in Slots |-> IF k = 1 THEN t ELSE Idle]
      /\ loading = h.requests[1].own /\ ~ error
      /\ clicks = 0 /\ ~ doubled /\ ~ overlapped /\ ~ unheard /\ ~ cleared
  <2>1. tasks = [k \in Slots |-> IF k = 1 THEN t ELSE Idle]
    <3>1. [name |-> "mount", at |-> 1, got |-> 0, subject |-> o] = t
      OBVIOUS
    <3> QED  BY <3>1 DEF ViewsInit
  <2> QED  BY <2>1 DEF ViewsInit
<1>20. busy = ("busy" \in h.sets)
  BY Zenon DEF ViewsInit
<1>2. /\ error \in BOOLEAN /\ doubled \in BOOLEAN /\ overlapped \in BOOLEAN
      /\ unheard \in BOOLEAN /\ cleared \in BOOLEAN
  BY DEF ViewsInit
<1>3. selected \in Subjects \cup {NoSubject} /\ (view = "grant" => selected \in Subjects)
  BY <1>1, ViewsAssumption
<1>4. "mount" \in DOMAIN Handlers[view] /\ Sound(view, "mount", h)
  BY <1>1 DEF FineTable
<1>5. /\ Fine(view, h) /\ Opens(view, h) /\ Len(h.requests) \in Nat /\ Len(h.requests) > 0
  BY <1>4 DEF Sound, Opens, Fine, Shaped
<1>6. 1 \in 1 .. Len(h.requests)
  <2> DEFINE m == Len(h.requests)
  <2>1. m \in Nat /\ m > 0
    BY <1>5
  <2> HIDE DEF m
  <2>2. 1 \in 1 .. m
    BY <2>1
  <2> QED  BY <2>2 DEF m
<1>7. /\ h.requests[1].own \in BOOLEAN /\ Reads(view, h, 1)
      /\ h.about \in {"any", "selected"} => o \in Subjects
      /\ o \in Subjects \cup {All} /\ o # NoSubject
  BY <1>3, <1>5, <1>6, ViewsAssumption DEF Fine, Opens
<1>8. /\ t # Idle /\ t.name = "mount" /\ t.at = 1 /\ t.subject = o /\ t.got = 0
  BY DEF Idle
<1>9. t \in Task /\ Idle \in Task
  BY <1>1, <1>4, <1>7 DEF Task, Names, Idle
<1> HIDE DEF t, o
<1>10. /\ 1 \in Slots /\ tasks[1] = t /\ \A k \in Slots \ {1} : tasks[k] = Idle
  BY <1>1, ViewsAssumption
<1>11. /\ Running(1) /\ HandlerOf(tasks[1]) = h /\ Asking(tasks[1]) = h.requests[1]
       /\ \A k \in Slots : Running(k) => k = 1
  BY <1>8, <1>10 DEF Running, HandlerOf, Asking
<1>12. Proper(1)
  BY <1>4, <1>6, <1>7, <1>8, <1>10, <1>11 DEF Proper
<1>13. ViewTypes
  <2>1. tasks \in [Slots -> Task]
    BY <1>1, <1>9
  <2>2. busy \in BOOLEAN
    <3>1. ("busy" \in h.sets) \in BOOLEAN
      OBVIOUS
    <3> QED  BY <1>20, <3>1, Zenon
  <2>3. loading \in BOOLEAN
    BY <1>1, <1>7
  <2>4. version \in [Subjects \cup {All} -> Nat] /\ \A x \in Subjects \cup {All} :
            acked[x] <= version[x]
    BY <1>1
  <2>5. shown \in [{1, 2} -> [subject : Subjects \cup {All, NoSubject}, version : Nat]]
    BY <1>1
  <2> QED  BY <1>1, <1>2, <1>3, <1>11, <1>12, <2>1, <2>2, <2>3, <2>4, <2>5,
              ViewsAssumption
           DEF ViewTypes
<1>14. Alone /\ BusyHeld /\ Awaited
  <2>1. Alone
    BY <1>11 DEF Alone, InFlight
  <2>2. BusyHeld
    <3>1. busy => "busy" \in h.sets
      BY <1>20, Zenon
    <3> QED  BY <1>10, <1>11, <3>1 DEF BusyHeld
  <2>3. Awaited
    BY <1>1, <1>10, <1>11 DEF Awaited
  <2> QED  BY <2>1, <2>2, <2>3
<1>15. Once
  <2>1. Changing(1) => busy
    <3>1. "busy" \in h.sets => busy
      BY <1>20, Zenon
    <3> QED  BY <1>11, <3>1 DEF Changing
  <2> QED  BY <1>1, <1>11, <2>1 DEF Once, Changing
<1>16. ASSUME NEW p \in DOMAIN Panes(view)
       PROVE  (\E k \in Slots : Later(k, p)) \/ Settled(p)
  <2>1. \A k \in Slots : InFlight(k, p) => k = 1
    BY <1>11 DEF InFlight
  <2>2. p \notin OfOne(view) \/ o = selected \/ selected = NoSubject
    BY <1>1 DEF o
  <2>3. Right(1, p)
    BY <1>8, <1>10, <2>2 DEF Right
  <2>4. CASE p \in h.requests[1].panes
    BY <1>10, <1>11, <2>1, <2>3, <2>4 DEF Settled, InFlight
  <2>5. CASE p \notin h.requests[1].panes /\ p \in OfOne(view)
    <3>1. view # "grant"
      BY <1>5, <2>5 DEF Opens
    <3>2. Good(p)
      BY <1>1, <2>5, <3>1 DEF Good
    <3> QED  BY <2>1, <2>3, <3>2 DEF Settled
  <2>6. CASE p \notin h.requests[1].panes /\ p \notin OfOne(view)
    <3>1. view # "grant"
      BY <1>5, <2>6 DEF Opens
    <3>2. PICK i \in 1 .. Len(h.requests) : p \in h.requests[i].panes
      BY <1>5, <2>6, <3>1 DEF Opens
    <3>3. i \in 1 + 1 .. Len(h.requests)
      <4> DEFINE m == Len(h.requests)
      <4>1. m \in Nat /\ i \in 1 .. m /\ i # 1
        BY <1>5, <2>6, <3>2
      <4> HIDE DEF m
      <4>2. i \in 1 + 1 .. m
        BY <4>1
      <4> QED  BY <4>2 DEF m
    <3>4. Later(1, p)
      BY <1>8, <1>10, <1>11, <3>2, <3>3 DEF Later
    <3> QED  BY <1>10, <3>4
  <2> QED  BY <2>4, <2>5, <2>6
<1>17. Covered
  BY <1>16 DEF Covered
<1> QED  BY <1>13, <1>14, <1>15, <1>17 DEF ViewInv

\* Every step keeps it.
LEMMA ViewsNextInv == ASSUME FineTable PROVE ViewInv /\ [ViewsNext]_viewVars => ViewInv'
<1> SUFFICES ASSUME ViewInv, [ViewsNext]_viewVars PROVE ViewInv'
  OBVIOUS
<1>1. CASE UNCHANGED viewVars
  <2>1. UNCHANGED <<view, version, acked, busy, loading, error, selected, shown,
                    tasks, clicks, doubled, overlapped, unheard, cleared>>
    BY <1>1 DEF viewVars
  <2>2. \A j \in Slots :
          /\ (Running(j)' <=> Running(j)) /\ HandlerOf(tasks[j])' = HandlerOf(tasks[j])
          /\ Asking(tasks[j])' = Asking(tasks[j]) /\ What(tasks[j])' = What(tasks[j])
    BY <2>1 DEF Running, HandlerOf, Asking, What, Idle
  <2>3. \A j \in Slots :
          /\ (Proper(j)' <=> Proper(j)) /\ (Changing(j)' <=> Changing(j))
          /\ \A p : (InFlight(j, p)' <=> InFlight(j, p)) /\ (Later(j, p)' <=> Later(j, p))
                   /\ (Right(j, p)' <=> Right(j, p))
    BY <2>1, <2>2 DEF Proper, Changing, InFlight, Later, Right
  <2>4. \A p : Good(p)' <=> Good(p)
    BY <2>1 DEF Good
  <2>5. Covered'
    BY <2>1, <2>3, <2>4 DEF ViewInv, Covered, Clean, Settled
  <2>6. Alone' /\ BusyHeld' /\ Awaited' /\ Once'
    BY <2>1, <2>2, <2>3 DEF ViewInv, Alone, BusyHeld, Awaited, Once
  <2>7. ViewTypes'
    BY <2>1, <2>2, <2>3 DEF ViewInv, ViewTypes
  <2> QED  BY <2>5, <2>6, <2>7 DEF ViewInv
<1>2. CASE ViewsNext
  <2>1. PICK k \in Slots :
          \/ \E name \in DOMAIN Handlers[view] : \E s \in About(Handlers[view][name]) :
               Click(k, name, s)
          \/ Done(k) \/ Serve(k) \/ Answer(k) \/ \E acted \in BOOLEAN : Fails(k, acted)
    BY <1>2 DEF ViewsNext
  <2> QED  BY <2>1, ClickInv, DoneInv, ServeInv, AnsweredInv, FailsInv
<1> QED  BY <1>1, <1>2

\* What is shown is accounted for, always.
THEOREM ViewsInvariance == ViewSpec => []ViewInv
<1>1. FineTable
  BY Table
<1>2. ViewsInit => ViewInv
  BY <1>1, ViewsInitInv
<1>3. ViewInv /\ [ViewsNext]_viewVars => ViewInv'
  BY <1>1, ViewsNextInv
<1> QED  BY <1>2, <1>3, PTL DEF ViewSpec
-----------------------------------------------------------------------------
(***************************************************************************)
(* Signing in, the session, the frame, the table and the views, in the front *)
(* office.                                                                 *)
(***************************************************************************)
\* A behaviour of the front office is one of signing in.
LEMMA SignInPart == Spec => SignInSpec
<1>1. Init => Sign!SignInInit
  BY DEF Init
<1>2. [Next]_vars => [Sign!SignInNext]_signing
  BY DEF Next, vars
<1> QED  BY <1>1, <1>2, PTL DEF Spec, SignInSpec

\* So it is one of the session,
LEMMA SessionPart == Spec => SessionSpec
<1>1. Init => Browser!SessionInit
  BY DEF Init
<1>2. [Next]_vars => [Browser!SessionNext]_session
  BY DEF Next, vars
<1> QED  BY <1>1, <1>2, PTL DEF Spec, SessionSpec

\* and one of the frame.
LEMMA ShellPart == Spec => ShellSpec
<1>1. Init => Framed!ShellInit
  BY DEF Init
<1>2. [Next]_vars => [Framed!ShellNext]_shell
  BY DEF Next, vars
<1> QED  BY <1>1, <1>2, PTL DEF Spec, ShellSpec

\* SessionsAgree (auth-service/src/index.ts, stores/auth.ts, AppShell.vue): in
\* every behaviour of the front office.
THEOREM SessionsAgreeAlways == Spec => []SessionsAgree
<1>1. SignInv /\ SessInv /\ ShellInv => SessionsAgree
  BY SessionsHold, SessionHolds, ShellParts DEF SessionsAgree
<1> QED  BY <1>1, SignInPart, SessionPart, ShellPart, SignInInvariance,
            SessionInvariance, ShellInvariance, PTL

\* A behaviour of the front office is one of the table.
LEMMA TablePart == Spec => ListSpec
<1>1. Init => List!DataTableInit
  BY DEF Init
<1>2. [Next]_vars => [List!DataTableNext]_list
  BY DEF Next, vars
<1> QED  BY <1>1, <1>2, PTL DEF Spec, ListSpec

\* TableShows (DataTable.vue:59-146): in every behaviour of the front office,
\* whatever rows the view gives and whatever they are sorted and cut by.
THEOREM TableShowsAlways == Spec => []TableShows
<1>1. TableInv => TableShows
  BY TableHolds DEF TableShows
<1> QED  BY <1>1, TablePart, TableInvariance, PTL

\* A behaviour of the front office is one of the views.
LEMMA ViewsPart == Spec => ViewSpec
<1>1. Init => ViewsInit
  BY DEF Init
<1>2. [Next]_vars => [ViewsNext]_viewVars
  BY DEF Next, vars
<1> QED  BY <1>1, <1>2, PTL DEF Spec, ViewSpec

\* ViewsAgree (views/*.vue, at the handlers of each): in every behaviour of the
\* front office, however many handlers are under way, clicks are made and
\* subjects there are.
THEOREM ViewsAgreeAlways == Spec => []ViewsAgree
<1> QED  BY ViewsPart, ViewsInvariance, ViewsHold, PTL

\* A behaviour of the front office is one of the paper batches.
LEMMA PaperPart == Spec => PaperSpec
<1>1. Init => PaperInit
  BY DEF Init
<1>2. [Next]_vars => [PaperNext]_batchVars
  BY DEF Next, vars
<1> QED  BY <1>1, <1>2, PTL DEF Spec, PaperSpec

\* The types of signing in are in its invariant,
LEMMA SignTypes == SignTyped => Sign!SignInTypeOK
BY DEF SignTyped, Took, Sign!SignInTypeOK

\* and so are those of the table,
LEMMA TableTypes == ListTypes => List!DataTableTypeOK
BY ListCard DEF ListTypes, Sorts, List!DataTableTypeOK

\* and those of the views, where a task is at one of its handler's requests.
LEMMA ViewsTypes == ViewTypes => ViewsTypeOK
<1> SUFFICES ASSUME ViewTypes PROVE ViewsTypeOK
  OBVIOUS
<1>1. ASSUME NEW k \in Slots, Running(k)
      PROVE  tasks[k].at \in DOMAIN HandlerOf(tasks[k]).requests
  <2>1. Proper(k) /\ view \in views
    BY <1>1 DEF ViewTypes
  <2>2. Fine(view, HandlerOf(tasks[k]))
    BY <2>1, Table, HandlerFine DEF Proper, HandlerOf
  <2> QED  BY <2>1, <2>2 DEF Proper, Fine, Shaped
<1>2. {busy, loading, error, doubled, overlapped, unheard, cleared} \subseteq BOOLEAN
  BY Zenon DEF ViewTypes
<1> QED  BY <1>1, <1>2 DEF ViewTypes, ViewsTypeOK

\* TypeOK: in every behaviour of the front office.
THEOREM TypeCorrectness == Spec => []TypeOK
<1>1. /\ PaperInv => PaperTypeOK
      /\ FormInv => Manifest!FormTypeOK
      /\ RegInv => Register!RegistryTypeOK
      /\ SignInv => Sign!SignInTypeOK
      /\ SessTyped => Browser!SessionTypeOK
      /\ TableInv => List!DataTableTypeOK
      /\ ViewInv => ViewsTypeOK
  BY SignTypes, TableTypes, ViewsTypes
  DEF PaperInv, FormInv, RegInv, RegTyped, SignInv, SessTyped, TableInv, ViewInv
<1>2. Spec => /\ []PaperInv /\ []FormInv /\ []RegInv /\ []Donors!KTypeOK /\ []SignInv
              /\ []SessTyped /\ []TableInv /\ []ViewInv /\ []Framed!ShellTypeOK
  BY PaperPart, PaperInvariance, FormPart, FormInvariance, RegistryPart,
     RegistryInvariance, DonorTables, SignInPart, SignInInvariance, SessionPart,
     SessionTyped, TablePart, TableInvariance, ViewsPart, ViewsInvariance,
     ShellPart, FrameTyped, PTL
<1>3. /\ PaperTypeOK /\ Manifest!FormTypeOK /\ Register!RegistryTypeOK /\ Donors!KTypeOK
      /\ Sign!SignInTypeOK /\ Browser!SessionTypeOK /\ List!DataTableTypeOK /\ ViewsTypeOK
      /\ Framed!ShellTypeOK
      => TypeOK
  BY DEF TypeOK
<1> QED  BY <1>1, <1>2, <1>3, PTL
===============================================================================
