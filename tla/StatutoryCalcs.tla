---------------------------- MODULE StatutoryCalcs -----------------------------
(***************************************************************************)
(* The Indonesian statutory calculations of statutory_calcs.rs, as         *)
(* operators over whole numbers.                                           *)
(*                                                                         *)
(* Money is counted in the smallest unit the code keeps (two decimals).    *)
(* A rate is a whole number over RateUnit, a multiplier or the surtax a    *)
(* number of tenths, and hours a whole number of HourUnit-ths; a product   *)
(* is kept as a numerator over the product of its units, exact like the    *)
(* code's Decimal, and rounded only where the code calls money().          *)
(*                                                                         *)
(* A law is a record: brackets, ptkp, ter, bpjs, overtime (StatutoryLaw    *)
(* reads one from the tables).                                             *)
(***************************************************************************)
EXTENDS Integers, Sequences, FiniteSetsExt, Functions

CONSTANTS
  RateUnit,        \* a rate r stands for r / RateUnit
  HourUnit,        \* an hour is this many units
  HoursPerMonth,   \* divisor of the hourly rate (173 in the code)
  PartUnit,        \* a quotient is kept to this many parts (10^28 in the code)
  Open             \* no upper bound: upper_bound or hour_to is None

ASSUME UnitsAssumption ==
  /\ RateUnit \in Nat \ {0} /\ HourUnit \in Nat \ {0}
  /\ HoursPerMonth \in Nat \ {0} /\ PartUnit \in Nat \ {0}

\* round_dp(2, MidpointAwayFromZero) of n / d, for an n that is not negative.
Money(n, d) == (2 * n + d) \div (2 * d)

\* n / d of an amount: the quotient is rounded before it multiplies, so that a
\* product that is a half exactly may come out below it.
Part(amount, n, d) == Money(amount * Money(n * PartUnit, d), PartUnit)

\* The cap of a capped wage base.
Capped(gross, cap) == IF gross > cap THEN cap ELSE gross

\* no NPWP: the tax is 1.2 times as high, here in tenths.
Surtax(hasNpwp) == IF hasNpwp THEN 10 ELSE 12

-------------------------------------------------------------------------------
\* A plausible error in SliceIn, put in its place by a mutation run only.
AllAbove(taxable, b) == taxable - b.lower

-------------------------------------------------------------------------------
(* PPh 21 by brackets *)

\* The brackets the walk visits before it breaks.
Visited(taxable, brackets) ==
  {i \in DOMAIN brackets : \A j \in 1..i : taxable > brackets[j].lower}

SliceIn(taxable, b) ==
  (IF b.upper = Open THEN taxable ELSE Capped(taxable, b.upper)) - b.lower

\* In RateUnit-ths of a unit of money, for a year.
ProgressiveTax(taxable, brackets) ==
  SumFunction([i \in Visited(taxable, brackets) |->
                 SliceIn(taxable, brackets[i]) * brackets[i].rate])

Taxable(gross, relief) == IF 12 * gross > relief THEN 12 * gross - relief ELSE 0

Pph21(tier, hasNpwp, gross, law) ==
  Money(ProgressiveTax(Taxable(gross, law.ptkp[tier]), law.brackets)
          * Surtax(hasNpwp),
        RateUnit * 10 * 12)

-------------------------------------------------------------------------------
(* PPh 21 by the average effective rate *)

\* Gross less the employee's JHT and JP, unrounded: RateUnit-ths of a unit.
TerBase(gross, bpjs) ==
  LET share == gross * bpjs.jht.employee
                 + Capped(gross, bpjs.jp.cap) * bpjs.jp.employee
  IN  IF gross * RateUnit > share THEN gross * RateUnit - share ELSE 0

\* The bands the walk reaches before it breaks; the last of them applies.
BandsReached(base, bands) ==
  {i \in DOMAIN bands : \A j \in 1..i : base >= bands[j].lower * RateUnit}

HasTerRate(category, gross, law) ==
  /\ category \in DOMAIN law.ter
  /\ BandsReached(TerBase(gross, law.bpjs), law.ter[category]) # {}

Pph21Ter(category, hasNpwp, gross, law) ==
  LET base  == TerBase(gross, law.bpjs)
      bands == law.ter[category]
      band  == bands[Max(BandsReached(base, bands))]
  IN  Money(base * band.rate * Surtax(hasNpwp), RateUnit * RateUnit * 10)

-------------------------------------------------------------------------------
(* BPJS *)

BpjsKesehatan(gross, bpjs) ==
  LET base == Capped(gross, bpjs.kes.cap)
  IN  [employee |-> Money(base * bpjs.kes.employee, RateUnit),
       employer |-> Money(base * bpjs.kes.employer, RateUnit)]

BpjsKetenagakerjaan(gross, risk, bpjs) ==
  LET jpBase == Capped(gross, bpjs.jp.cap)
  IN  [employee |-> Money(gross * bpjs.jht.employee, RateUnit)
                      + Money(jpBase * bpjs.jp.employee, RateUnit),
       employer |-> Money(gross * bpjs.jht.employer, RateUnit)
                      + Money(jpBase * bpjs.jp.employer, RateUnit)
                      + Money(gross * bpjs.jkk[risk], RateUnit)
                      + Money(gross * bpjs.jkm, RateUnit)]

-------------------------------------------------------------------------------
(* THR and overtime *)

\* One month's pay, by twelfths until a year of tenure.
Thr(monthly, months) ==
  CASE months >= 12 -> Money(monthly, 1)
    [] months \in 1..11 -> Part(monthly, months, 12)
    [] OTHER -> 0

\* The bands an hour of the day falls in; the first in order applies.
BandsOf(hour, bands) ==
  {i \in DOMAIN bands :
     hour >= bands[i].from /\ (bands[i].to = Open \/ hour <= bands[i].to)}

MultiplierFor(hour, bands) == bands[Min(BandsOf(hour, bands))].multiplier

WholeHours(hours) == hours \div HourUnit

\* The hours of a stretch that pay asks a multiplier for.
HoursPriced(hours) ==
  1..(WholeHours(hours) + (IF hours % HourUnit > 0 THEN 1 ELSE 0))

\* Nothing to price, or a band for every hour: otherwise MissingOvertimeBands.
OvertimePriceable(hours, base, bands) ==
  \/ hours <= 0 \/ base <= 0
  \/ bands # <<>> /\ \A h \in HoursPriced(hours) : BandsOf(h, bands) # {}

\* How much of its h-th hour was worked.
Worked(h, hours) == IF h <= WholeHours(hours) THEN HourUnit ELSE hours % HourUnit

\* One day's stretch: whole hours, and the last one by the part worked.  The
\* hourly rate is taken as exact (the code keeps 28 digits of it).
OvertimePay(hours, base, bands) ==
  IF hours <= 0 \/ base <= 0 THEN 0
  ELSE Money(base * SumFunction([h \in HoursPriced(hours) |->
                                   MultiplierFor(h, bands) * Worked(h, hours)]),
             HoursPerMonth * 10 * HourUnit)

-------------------------------------------------------------------------------
(* compute_statutory *)

Component(name, ct, amount) == [name |-> name, ct |-> ct, amount |-> amount]

\* The inputs in: tier, npwp, ter (a category, or Brackets for none) and months.
Computable(in, gross, risk, law) ==
  /\ risk \in DOMAIN law.bpjs.jkk
  /\ IF in.ter = "brackets" THEN in.tier \in DOMAIN law.ptkp
     ELSE HasTerRate(in.ter, gross, law)

Withholding(in, gross, law) ==
  IF in.ter = "brackets" THEN Pph21(in.tier, in.npwp, gross, law)
  ELSE Pph21Ter(in.ter, in.npwp, gross, law)

\* A component of nothing is left out.
IfAny(c) == IF c.amount > 0 THEN <<c>> ELSE <<>>

\* In this order, the employee's shares only; a blank in a name is written _.
ComputeStatutory(in, gross, risk, law) ==
     IfAny(Component("THR", "earning", Thr(gross, in.months)))
  \o IfAny(Component("PPh_21", "deduction", Withholding(in, gross, law)))
  \o IfAny(Component("BPJS_Kesehatan", "deduction",
                     BpjsKesehatan(gross, law.bpjs).employee))
  \o IfAny(Component("BPJS_Ketenagakerjaan", "deduction",
                     BpjsKetenagakerjaan(gross, risk, law.bpjs).employee))

===============================================================================
