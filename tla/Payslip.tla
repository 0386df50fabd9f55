------------------------------- MODULE Payslip -------------------------------
(***************************************************************************)
(* computePayroll (packages/payroll-engine): from the earnings of a month, *)
(* the tax bands and the rates of a scheme to what is deducted and paid.   *)
(* Amounts are integers of cents, as parseMoney gives them; rates are in   *)
(* thousandths of a percent, as the tables have them.  Bands are in order, *)
(* [lower, upper, rate, fixed], and the upper bound of the last is NoLimit. *)
(***************************************************************************)
EXTENDS Integers, Sequences, SequencesExt, FiniteSetsExt

CONSTANTS Inputs,   \* what may be computed
          NoLimit,  \* "no upper bound"
          NoSlip    \* "nothing was computed"

VARIABLE slip  \* the input that was computed, or NoSlip

PayslipInit == slip = NoSlip

Least(a, b) == IF a < b THEN a ELSE b
Most(a, b) == IF a > b THEN a ELSE b

-----------------------------------------------------------------------------
(* decimal.ts                                                              *)
\* From hundredths of a cent; the amounts here are not negative.
RoundHalfUp(hundredths) == (hundredths + 50) \div 100

\* The third decimal of a rate is cut off.
MulRate(cents, rate) == RoundHalfUp((cents * (rate \div 10)) \div 100)

\* An amount that is formatted and parsed again: "-0" has no sign, so that an
\* amount between -1 and 0 comes back positive.
Reparse(cents) == IF cents < 0 /\ cents > -100 THEN -cents ELSE cents

Prorate(cents, days, of) ==
  CASE days >= of -> cents
    [] days <= 0 -> 0
    [] OTHER -> RoundHalfUp((cents * days * 100) \div of)

-----------------------------------------------------------------------------
\* Mutant: a band is as wide as its upper bound.
BandWidthWhole(left, band) ==
  IF band.upper = NoLimit THEN left ELSE Least(left, Most(0, band.upper))

BandWidth(left, band) ==
  IF band.upper = NoLimit THEN left ELSE Least(left, Most(0, band.upper - band.lower))

\* marginalPayeSs: each band takes its part of what is left.
MarginalPayeSs(base, bands) ==
  FoldLeft(LAMBDA acc, band :
             LET width == BandWidth(acc.left, band)
             IN IF acc.left <= 0 \/ width <= 0 THEN acc
                ELSE [left |-> acc.left - width,
                      tax |-> acc.tax + MulRate(width, band.rate)],
           [left |-> base, tax |-> 0], bands).tax

\* cumulativePayeUg: the first band that holds the income, or the last one
\* that it is above, with its fixed amount.
CumulativePayeUg(income, bands) ==
  LET above(i) == bands[i].upper # NoLimit /\ income > bands[i].upper
      holds(i) == income >= bands[i].lower /\ ~ above(i)
      held == {i \in DOMAIN bands : holds(i)}
      band == bands[IF held # {} THEN Min(held)
                    ELSE Max({1} \cup {i \in DOMAIN bands : above(i)})]
      excess == income - band.lower
  IN IF excess <= 0 THEN 0 ELSE band.fixed + MulRate(excess, band.rate)

-----------------------------------------------------------------------------
Sum(amounts) == FoldLeft(LAMBDA total, cents : total + cents, 0, amounts)

\* computePayroll; failed is NGOIS-PAY-0052.
Compute(in) ==
  LET basic == Prorate(in.basic, in.days_worked, in.days_in_month)
      allowance(kind) ==
        Sum([i \in DOMAIN in.allowances |->
               IF kind = "all" \/ in.allowances[i][kind]
               THEN Prorate(in.allowances[i].amount, in.days_worked,
                            in.days_in_month)
               ELSE 0])
      gross == basic + allowance("all")
      taxable == basic + allowance("taxable")
      basis == CASE in.contribution_base = "gross" -> gross
                 [] in.contribution_base = "pensionable" ->
                      basic + allowance("pensionable")
                 [] OTHER -> taxable
      ee == MulRate(basis, in.employee_rate)
      er == MulRate(basis, in.employer_rate)
      ss == in.country = "SS"
      base == IF ss /\ in.deductible_before_tax THEN taxable - ee ELSE taxable
      paye == IF ss THEN MarginalPayeSs(Reparse(base), in.bands)
                    ELSE CumulativePayeUg(taxable, in.bands)
      lst == IF ss \/ in.lst_months = 0 THEN 0
             ELSE RoundHalfUp((in.lst_annual * 100) \div in.lst_months)
      deductions == ee + paye + lst
  IN IF gross = 0
     THEN [gross |-> 0, base |-> 0, ee |-> 0, paye |-> 0, lst |-> 0,
           total_deductions |-> 0, net |-> 0, employer_cost |-> 0, failed |-> FALSE]
     ELSE [gross |-> gross, base |-> base, ee |-> ee, paye |-> paye, lst |-> lst,
           total_deductions |-> deductions, net |-> gross - deductions,
           employer_cost |-> gross + er,
           failed |-> Reparse(gross - deductions) < 0]

ComputeSlip(in) == slip = NoSlip /\ slip' = in

PayslipNext == \E in \in Inputs : ComputeSlip(in)

-----------------------------------------------------------------------------
\* Type invariant.
PayslipTypeOK == slip \in Inputs \cup {NoSlip}

\* The tax of an income by the definition of the bands, in thousandths of a
\* percent of a cent: each part of it at the rate of its band.
Exact(income, bands) ==
  LET part(b) == Most(0, (IF b.upper = NoLimit THEN income
                          ELSE Least(income, b.upper)) - b.lower)
  IN Sum([i \in DOMAIN bands |-> part(bands[i]) * bands[i].rate])

Whole == 100000  \* a hundred percent
Near(cents, exact, halves) == 
  /\ 2 * cents * Whole <= 2 * exact + halves * Whole
  /\ 2 * cents * Whole >= 2 * exact - halves * Whole

\* The fixed amount of each band is the tax of its lower bound.
Cumulative(bands) ==
  \A i \in DOMAIN bands : bands[i].fixed * Whole = Exact(bands[i].lower, bands)

(* The two ways to compute the tax agree with the definition of the bands: *)
(* the marginal one to half a cent for each band, and the cumulative one   *)
(* to half a cent, where the fixed amounts of the table are the tax of its *)
(* lower bounds.  What is paid and what is deducted is the gross, and a    *)
(* payslip that is not refused pays a negative amount only within the last *)
(* 99 cents, whose sign is lost.                                           *)
PayslipAgrees ==
  slip # NoSlip =>
    LET r == Compute(slip)
    IN /\ slip.country = "SS" /\ r.base >= 0
            => Near(r.paye, Exact(r.base, slip.bands), Len(slip.bands))
       /\ slip.country = "UG" /\ Cumulative(slip.bands)
            => Near(r.paye, Exact(r.base, slip.bands), 1)
       /\ r.net + r.total_deductions = r.gross
       /\ ~ r.failed => r.net > -100
       /\ r.failed => r.net <= -100
=============================================================================
