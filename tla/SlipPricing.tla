----------------------------- MODULE SlipPricing -------------------------------
(***************************************************************************)
(* From components and statutory lines to a slip: the assembly at the end  *)
(* of build_computed_slip and price_slip (payroll_write_service.rs).       *)
(*                                                                         *)
(* A line is [name, ct, amount, ref]: ref is the approval that vouches for *)
(* it, if any.  General-ledger accounts are left to PayrollRun.            *)
(***************************************************************************)
EXTENDS StatutoryCalcs

CONSTANT NoRef     \* source_ref IS NULL

Line(name, ct, amount) ==
  [name |-> name, ct |-> ct, amount |-> amount, ref |-> NoRef]

Earnings(lines) == {i \in DOMAIN lines : lines[i].ct = "earning"}
Deductions(lines) == {i \in DOMAIN lines : lines[i].ct # "earning"}
Total(lines, chosen) == SumFunction([i \in chosen |-> lines[i].amount])

\* The hours of all days together.
HoursOf(stretches) == SumFunction(stretches)

-------------------------------------------------------------------------------
\* Plausible errors in the definitions below, put in their place by the
\* mutation runs only.
WindowPay(stretches, base, bands) ==
  OvertimePay(HoursOf(stretches), base, bands)
ProratedAll(comp, paid, working) ==
  Line(comp.name, comp.ct, Part(comp.amount, paid, working))

-------------------------------------------------------------------------------
(* The statutory lines of a computed slip *)

StretchesPriceable(stretches, base, bands) ==
  \A d \in DOMAIN stretches : OvertimePriceable(stretches[d], base, bands)

\* Every day on its own ladder.
StretchesPay(stretches, base, bands) ==
  SumFunction([d \in DOMAIN stretches |-> OvertimePay(stretches[d], base, bands)])

OvertimeLines(name, stretches, ref, base, bands) ==
  IF HoursOf(stretches) > 0
    THEN <<[Line(name, "earning", StretchesPay(stretches, base, bands))
              EXCEPT !.ref = ref]>>
    ELSE <<>>

\* approval is the row that vouches for the hours, or NoRef for none.
StatutoryLines(in, base, clock, approval, hours, risk, law) ==
     OvertimeLines("Lembur_Overtime", clock, NoRef, base, law.overtime)
  \o (IF approval = NoRef THEN <<>>
      ELSE OvertimeLines("Lembur_disetujui", hours, approval, base,
                         law.overtime))
  \o [i \in DOMAIN ComputeStatutory(in, base, risk, law) |->
        LET c == ComputeStatutory(in, base, risk, law)[i]
        IN  Line(c.name, c.ct, c.amount)]

-------------------------------------------------------------------------------
(* price_slip *)

\* Unpaid days clamped to those of the period.
UnpaidDays(unpaid, working) ==
  IF unpaid < 0 THEN 0 ELSE IF unpaid > working THEN working ELSE unpaid

\* Earnings by the part of the period paid, deductions as they stand.
ComponentLine(comp, paid, working) ==
  Line(comp.name, comp.ct,
       IF comp.ct = "earning" THEN Part(comp.amount, paid, working)
       ELSE comp.amount)

PricedLines(components, statutory, working, unpaid) ==
  [i \in DOMAIN components |->
     ComponentLine(components[i], working - UnpaidDays(unpaid, working),
                   working)]
  \o statutory

\* The refusals that come before any amount is known ...
Priceable(components, statutory, working) ==
  /\ working > 0
  /\ components # <<>>
  /\ \A i \in DOMAIN statutory : statutory[i].amount >= 0

\* ... and the slip, whose net must not be negative.
Priced(components, statutory, working, unpaid) ==
  LET lines      == PricedLines(components, statutory, working, unpaid)
      gross      == Total(lines, Earnings(lines))
      deductions == Total(lines, Deductions(lines))
  IN  [lines      |-> lines,
       working    |-> working,
       gross      |-> gross,
       deductions |-> deductions,
       net        |-> gross - deductions,
       unpaid     |-> UnpaidDays(unpaid, working)]

===============================================================================
