---------------------------- MODULE Vulnerability ----------------------------
(***************************************************************************)
(* The vulnerability score of a household (packages/vulnerability-score)   *)
(* and what beneficiary-service keeps of it: an assessment is a row of its *)
(* own, an enrolment one per programme and beneficiary.                    *)
(***************************************************************************)
EXTENDS Integers, FiniteSets

CONSTANTS
  Households,   \* the answers that are assessed
  Enrolled,     \* beneficiaries
  Programmes,
  MaxVisits,    \* assessments
  Missing       \* null

VARIABLES
  record,       \* rows of beneficiaries
  assessments,  \* <<visit, beneficiary, answers, score>>
  programme     \* programme[p]: the beneficiaries enrolled
scoreVars == <<record, assessments, programme>>

\* Points for the first bound that v reaches, of <<bound, points>> in order.
Points(v, steps) ==
  LET reached == {i \in DOMAIN steps : v >= steps[i][1]}
  IN  IF reached = {} THEN 0
      ELSE steps[CHOOSE i \in reached : \A j \in reached : i <= j][2]

\* The bounds of a ratio are doubled or quadrupled to stay whole.
Dependency(h) ==
  IF h.working_age <= 0 THEN 20
  ELSE Points(2 * h.dependents,
              <<<<4 * h.working_age, 20>>, <<3 * h.working_age, 16>>,
                <<2 * h.working_age, 11>>, <<h.working_age, 6>>>>)

Income(h) ==
  LET need == h.members * h.need_threshold_per_member
      below(quarters) == 4 * h.monthly_income < quarters * need
  IN  IF below(1) THEN 20 ELSE IF below(2) THEN 17 ELSE IF below(3) THEN 14
      ELSE IF below(4) THEN 8 ELSE 0

ShelterPoints == [none |-> 12, emergency |-> 12, temporary |-> 8,
                  semi_permanent |-> 4, permanent |-> 0]
Food(h) ==
  IF h.rcsi = Missing THEN 0 ELSE Points(h.rcsi, <<<<43, 15>>, <<19, 11>>, <<4, 6>>>>)
DisplacementPoints == [displaced_lt_12m |-> 10, displaced_gt_12m |-> 7,
                       returnee |-> 5, host |-> 0]
Displacement(h) ==
  IF h.displacement = Missing THEN 0 ELSE DisplacementPoints[h.displacement]
Health(h) ==
  LET raw == h.disability_count * 6 + h.chronic_illness_count * 4
               + h.under5_malnutrition_count * 7
  IN  IF raw < 13 THEN raw ELSE 13
HeadshipPoints == [child |-> 10, elderly_with_deps |-> 6, female_with_deps |-> 6,
                   none |-> 0]

Score(h) ==
  Dependency(h) + Income(h) + ShelterPoints[h.shelter] + Food(h)
    + Displacement(h) + Health(h) + HeadshipPoints[h.headship]
FactorsMissing(h) == {f \in {"rcsi", "displacement"} : h[f] = Missing}
Band(score) ==
  IF score >= 75 THEN "Severe" ELSE IF score >= 50 THEN "High"
  ELSE IF score >= 25 THEN "Moderate" ELSE "Low"
-----------------------------------------------------------------------------
ScoreInit ==
  /\ record = {} /\ assessments = {}
  /\ programme = [p \in Programmes |-> {}]

\* A record that is there.
Register(b) ==
  /\ b \notin record
  /\ record' = record \cup {b}
  /\ UNCHANGED <<assessments, programme>>

\* POST .../beneficiaries/:id/assessments: 404, or one more row.
Assess(b, h) ==
  /\ b \in record /\ Cardinality(assessments) < MaxVisits
  /\ assessments' = assessments \cup
       {[visit |-> Cardinality(assessments) + 1, of |-> b, answers |-> h,
         score |-> Score(h), band |-> Band(Score(h)), missing |-> FactorsMissing(h)]}
  /\ UNCHANGED <<record, programme>>

\* POST .../programmes/:id/enrollments, of whom there is a record.
Enrol(b, p) ==
  /\ b \in record
  /\ programme' = [programme EXCEPT ![p] = @ \cup {b}]
  /\ UNCHANGED <<record, assessments>>

ScoreNext ==
  \E b \in Enrolled :
    \/ Register(b)
    \/ \E h \in Households : Assess(b, h)
    \/ \E p \in Programmes : Enrol(b, p)
-----------------------------------------------------------------------------
ScoreTypeOK ==
  /\ record \subseteq Enrolled
  /\ \A a \in assessments : a.visit \in 1..MaxVisits /\ a.answers \in Households
  /\ \A p \in Programmes : programme[p] \subseteq record

\* h is worse off than g in every answer, as far as those of g are known.
WorseOff(h, g) ==
  /\ h.dependents >= g.dependents /\ h.working_age <= g.working_age
  /\ h.monthly_income <= g.monthly_income /\ h.members >= g.members
  /\ h.need_threshold_per_member >= g.need_threshold_per_member
  /\ ShelterPoints[h.shelter] >= ShelterPoints[g.shelter]
  /\ g.rcsi = Missing \/ (h.rcsi # Missing /\ h.rcsi >= g.rcsi)
  /\ \/ g.displacement = Missing
     \/ /\ h.displacement # Missing
        /\ DisplacementPoints[h.displacement] >= DisplacementPoints[g.displacement]
  /\ h.disability_count >= g.disability_count
  /\ h.chronic_illness_count >= g.chronic_illness_count
  /\ h.under5_malnutrition_count >= g.under5_malnutrition_count
  /\ HeadshipPoints[h.headship] >= HeadshipPoints[g.headship]

\* The worked example of the method (index.ts:209-224).
Bentiu == [dependents |-> 5, working_age |-> 2, monthly_income |-> 90000,
           members |-> 7, need_threshold_per_member |-> 22000,
           shelter |-> "temporary", rcsi |-> 22, displacement |-> "displaced_lt_12m",
           disability_count |-> 1, chronic_illness_count |-> 1,
           under5_malnutrition_count |-> 0, headship |-> "female_with_deps"]

\* Whoever is worse off in every answer is ranked no lower, also than one whose
\* answers are missing, which only understates a score (index.test.ts:17); the
\* score is of the hundred points that there are, its band does not fall when it
\* rises, and the worked example has the score of the method.
RankingFair ==
  LET rank == [Low |-> 1, Moderate |-> 2, High |-> 3, Severe |-> 4]
  IN  \A a, c \in assessments :
        /\ a.score \in 0..100
        /\ WorseOff(a.answers, c.answers) =>
             a.score >= c.score /\ rank[a.band] >= rank[c.band]
        /\ a.answers = Bentiu => a.score = 79 /\ a.band = "Severe"
=============================================================================
