------------------------------ MODULE Registry -------------------------------
(***************************************************************************)
(* Registration of beneficiaries (beneficiary-service), the key of the     *)
(* tenant that their names are encrypted and indexed with (packages/       *)
(* crypto), the score that makes two of them a duplicate (packages/        *)
(* beneficiary-dedup), and the review of the flags (field-data-service).   *)
(*                                                                         *)
(* Nothing locks the register.  What keeps two registrations from missing  *)
(* each other is that both draw the same number, count + 1, and one of     *)
(* them breaks the unique constraint.                                      *)
(***************************************************************************)
EXTENDS Integers, FiniteSets

CONSTANTS Clerks,      \* registrations that may be under way
          Applicants,  \* what they enter: records with the fields of Points
          MaxSeq,      \* bound: numbers of one year
          Limit,       \* candidates that are compared (LIMIT 200)
          None         \* null

Numbers == [year : {0, 1}, seq : 1 .. MaxSeq]

VARIABLES
  year,        \* the year that beneficiary_number is made with
  tenant_key,  \* tenant_data_keys: the clerk who drew the key, or None
  registered,  \* registered[n]: the applicant with the number n, or None
  sealed,      \* sealed[n]: the key that n was encrypted and indexed with
  flags,       \* beneficiary_duplicate_flags: <<subject, candidate>>
  dismissed,   \* those whose status is dismissed
  reviews,     \* flags whose item in submission_review_queue is open
  crowded,     \* numbers that were compared with a part of the register only
  skewed,      \* numbers that a commit left behind the count
  stage,       \* stage[c]: where the transaction of the clerk c is
  applicant,   \* applicant[c]: whom c registers
  dek,         \* dek[c]: the key that ensureTenantDek has given it
  number,      \* number[c]: the number that it has drawn
  pairs        \* pairs[c]: flags that it has raised and not committed

register == <<year, tenant_key, registered, sealed>>
duplicates == <<flags, dismissed, reviews>>
history == <<crowded, skewed>>
clerk == <<stage, applicant, dek, number, pairs>>
registryVars == <<register, duplicates, history, clerk>>

RegistryInit ==
  /\ year = 0 /\ tenant_key = None
  /\ registered = [n \in Numbers |-> None]
  /\ sealed = [n \in Numbers |-> None]
  /\ flags = {} /\ dismissed = {} /\ reviews = {}
  /\ crowded = {} /\ skewed = {}
  /\ stage = [c \in Clerks |-> "idle"]
  /\ applicant = [c \in Clerks |-> None]
  /\ dek = [c \in Clerks |-> None]
  /\ number = [c \in Clerks |-> None]
  /\ pairs = [c \in Clerks |-> {}]

Members == {n \in Numbers : registered[n] # None}

-----------------------------------------------------------------------------
(* scoreDuplicate.                                                         *)
Same(a, b, field) == a[field] # None /\ a[field] = b[field]

\* The blind indexes of equal values are equal under one key only.
Indexed(a, b, keys, field, points) ==
  IF keys /\ Same(a, b, field) THEN points ELSE 0

Known(a, b, field, points) == IF Same(a, b, field) THEN points ELSE 0

BirthYear(a, b) ==
  IF None \in {a.birth, b.birth} THEN 0
  ELSE CASE a.birth = b.birth -> 12
         [] a.birth - b.birth \in {-1, 1} -> 6
         [] OTHER -> 0

Likeness(a, b, keys) ==
  Indexed(a, b, keys, "national_id", 60)
  + (IF keys /\ a.name = b.name THEN 40
     ELSE Indexed(a, b, keys, "phonetic", 25))
  + Indexed(a, b, keys, "phone", 30)
  + BirthYear(a, b)
  + Known(a, b, "sex", 5) + Known(a, b, "admin_area", 8)
  + Known(a, b, "household", 15)

Points(a, b, keys, recent) == Likeness(a, b, keys) + IF recent THEN 5 ELSE 0

Threshold == 45   \* priority is not "none"

-----------------------------------------------------------------------------
(* POST beneficiaries.                                                     *)
Goto(c, from, to) == stage[c] = from /\ stage' = [stage EXCEPT ![c] = to]

\* BEGIN, and the SELECT of ensureTenantDek; without a key, c draws one.
BeginRegistration(c, a) ==
  /\ stage[c] = "idle"
  /\ applicant' = [applicant EXCEPT ![c] = a]
  /\ IF tenant_key = None
     THEN /\ dek' = [dek EXCEPT ![c] = c]
          /\ stage' = [stage EXCEPT ![c] = "keying"]
     ELSE /\ dek' = [dek EXCEPT ![c] = tenant_key]
          /\ stage' = [stage EXCEPT ![c] = "keyed"]
  /\ UNCHANGED <<register, duplicates, history, number, pairs>>

\* Its insertion is under way: it has the row, or has drawn this number.
Inserting(d) == stage[d] \in {"numbered", "inserted", "scored"}

\* INSERT ... ON CONFLICT DO UPDATE, which waits for another that has inserted
\* and not committed; the row keeps the key it has, c the one that it drew.
InsertKey(c) ==
  /\ Goto(c, "keying", "keyed")
  /\ \A d \in Clerks \ {c} :
       ~(tenant_key = None /\ dek[d] = d /\ (stage[d] = "keyed" \/ Inserting(d)))
  /\ UNCHANGED <<register, duplicates, history, applicant, dek, number, pairs>>

\* Mutant: no two registrations draw the same number, as from a sequence.
DrawDistinctNumber(c) ==
  /\ Goto(c, "keyed", "numbered")
  /\ Cardinality(Members) < MaxSeq
  /\ number' = [number EXCEPT
       ![c] = [year |-> year, seq |-> Cardinality(Members) + 1 +
                 Cardinality({d \in Clerks : Inserting(d)})]]
  /\ number'[c] \in Numbers
  /\ UNCHANGED <<register, duplicates, history, applicant, dek, pairs>>

\* nextBeneficiaryNumber
DrawNumber(c) ==
  /\ Goto(c, "keyed", "numbered")
  /\ Cardinality(Members) < MaxSeq
  /\ number' = [number EXCEPT
       ![c] = [year |-> year, seq |-> Cardinality(Members) + 1]]
  /\ UNCHANGED <<register, duplicates, history, applicant, dek, pairs>>

\* It waits for another clerk who has inserted this number; if that one has
\* committed, the constraint beneficiaries_number_unique refuses (Abort).
InsertRecord(c) ==
  /\ Goto(c, "numbered", "inserted")
  /\ number[c] \notin Members
  /\ \A d \in Clerks \ {c} :
       stage[d] \in {"inserted", "scored"} => number[d] # number[c]
  /\ UNCHANGED <<register, duplicates, history, applicant, dek, number, pairs>>

\* Up to Limit others, in no order, some of them registered within 30 days.
ScoreCandidates(c, candidates, recent) ==
  /\ Goto(c, "inserted", "scored")
  /\ candidates \subseteq Members /\ recent \subseteq candidates
  /\ Cardinality(candidates)
       = IF Cardinality(Members) <= Limit THEN Cardinality(Members) ELSE Limit
  /\ pairs' = [pairs EXCEPT ![c] =
       {<<number[c], n>> : n \in {m \in candidates :
          Points(applicant[c], registered[m], dek[c] = sealed[m], m \in recent)
            >= Threshold}}]
  /\ crowded' = IF Cardinality(Members) > Limit THEN crowded \cup {number[c]}
                ELSE crowded
  /\ UNCHANGED <<register, duplicates, skewed, applicant, dek, number>>

Leave(c) ==
  /\ stage' = [stage EXCEPT ![c] = "idle"]
  /\ applicant' = [applicant EXCEPT ![c] = None]
  /\ dek' = [dek EXCEPT ![c] = None]
  /\ number' = [number EXCEPT ![c] = None]
  /\ pairs' = [pairs EXCEPT ![c] = {}]

\* c commits a number that is not the next, as one of last year, or one that was
\* drawn when others of last year were under way: it and the numbers of all who
\* are under way, because the count goes up without their number being taken.
Skewed(c) ==
  IF number[c].seq = Cardinality(Members) + 1 THEN {}
  ELSE {number[d] : d \in {e \in Clerks : Inserting(e)}}

\* Mutant: the key in the table is replaced by the one that c has drawn.
CommitRegistrationRekeyed(c) ==
  /\ stage[c] = "scored"
  /\ tenant_key' = dek[c]
  /\ registered' = [registered EXCEPT ![number[c]] = applicant[c]]
  /\ sealed' = [sealed EXCEPT ![number[c]] = dek[c]]
  /\ flags' = flags \cup pairs[c]
  /\ reviews' = reviews \cup pairs[c]
  /\ skewed' = skewed \cup Skewed(c)
  /\ Leave(c)
  /\ UNCHANGED <<year, dismissed, crowded>>

\* Each flag with an item for the reviewers, the audit event, and COMMIT.
CommitRegistration(c) ==
  /\ stage[c] = "scored"
  /\ tenant_key' = IF tenant_key = None THEN dek[c] ELSE tenant_key
  /\ registered' = [registered EXCEPT ![number[c]] = applicant[c]]
  /\ sealed' = [sealed EXCEPT ![number[c]] = dek[c]]
  /\ flags' = flags \cup pairs[c]
  /\ reviews' = reviews \cup pairs[c]
  /\ skewed' = skewed \cup Skewed(c)
  /\ Leave(c)
  /\ UNCHANGED <<year, dismissed, crowded>>

\* An error, the unique constraint among them: ROLLBACK, the key with the rest.
Abort(c) ==
  stage[c] # "idle" /\ Leave(c) /\ UNCHANGED <<register, duplicates, history>>

-----------------------------------------------------------------------------
\* review-queue/:id/resolve: only an open item; accept and reject leave the
\* flag as it is.
Resolve(p, resolution) ==
  /\ p \in reviews
  /\ reviews' = reviews \ {p}
  /\ dismissed' = IF resolution = "dismiss_duplicate" THEN dismissed \cup {p}
                  ELSE dismissed
  /\ UNCHANGED <<register, flags, history, clerk>>

\* The clock of the service.
NewYear ==
  /\ year = 0 /\ year' = 1
  /\ UNCHANGED <<tenant_key, registered, sealed, duplicates, history, clerk>>

RegistryNext ==
  \/ \E c \in Clerks :
       \/ \E a \in Applicants : BeginRegistration(c, a)
       \/ InsertKey(c) \/ DrawNumber(c) \/ InsertRecord(c)
       \/ \E candidates \in SUBSET Members : \E recent \in SUBSET candidates :
            ScoreCandidates(c, candidates, recent)
       \/ CommitRegistration(c) \/ Abort(c)
  \/ \E p \in reviews, r \in {"accept", "reject", "dismiss_duplicate"} :
       Resolve(p, r)
  \/ NewYear

-----------------------------------------------------------------------------
\* Type invariant.
RegistryTypeOK ==
  /\ year \in {0, 1} /\ tenant_key \in Clerks \cup {None}
  /\ registered \in [Numbers -> Applicants \cup {None}]
  /\ sealed \in [Numbers -> Clerks \cup {None}]
  /\ flags \subseteq Numbers \X Numbers
  /\ dismissed \subseteq flags \ reviews /\ reviews \subseteq flags
  /\ crowded \subseteq Numbers /\ skewed \subseteq Numbers
  /\ stage \in [Clerks -> {"idle", "keying", "keyed", "numbered", "inserted",
                           "scored"}]
  /\ applicant \in [Clerks -> Applicants \cup {None}]
  /\ dek \in [Clerks -> Clerks \cup {None}]
  /\ number \in [Clerks -> Numbers \cup {None}]
  /\ pairs \in [Clerks -> SUBSET (Numbers \X Numbers)]

(* Two people whom the score calls a possible duplicate, by the indexes    *)
(* they are stored with, are flagged, whatever registrations overlapped.   *)
(* The exceptions: the later one was compared with a part of the register  *)
(* only; and registrations from New Year's Eve on, which draw different    *)
(* numbers and do not see each other as long as they overlap.              *)
DuplicatesFlagged ==
  /\ year = 0 => skewed = {}
  /\ \A m, n \in Members :
       \/ m = n \/ {m, n} \cap (crowded \cup skewed) # {}
       \/ {<<m, n>>, <<n, m>>} \cap flags # {}
       \/ Likeness(registered[m], registered[n], sealed[m] = sealed[n]) < Threshold

(* The names of a record can be decrypted and its duplicates found as long *)
(* as it was sealed with the key in the table.  Those that were not are    *)
(* one at most for each clerk who met the first registration of the tenant *)
(* in progress: each had drawn a key, which no table keeps.                *)
LostKeysBounded ==
  Cardinality({n \in Members : sealed[n] # tenant_key}) < Cardinality(Clerks)
=============================================================================
