------------------------------ MODULE SlipInputs -------------------------------
(***************************************************************************)
(* What the computed slip reads outside payroll, through the default ports *)
(* (employee_inputs_port.rs, overtime_port.rs, timesheet_port.rs), and the *)
(* window of a run.                                                        *)
(*                                                                         *)
(* Days and months are numbers: month m is the days of Month(m), and its   *)
(* year is m \div 12.  Hours come in the units of StatutoryCalcs.          *)
(***************************************************************************)
EXTENDS Integers, FiniteSetsExt

CONSTANTS
  MonthDays,   \* days of a month
  NoOne        \* no such row, or a column that IS NULL

ASSUME MonthAssumption == MonthDays \in Nat \ {0}

Month(m) == (m * MonthDays)..(m * MonthDays + MonthDays - 1)
MonthOf(day) == day \div MonthDays
YearOf(month) == month \div 12

-------------------------------------------------------------------------------
\* A plausible error in Vouching, put in its place by a mutation run only.
AnyoneVouches(approvals, employee, window) ==
  {a \in approvals : a.status = "approved" /\ a.month = MonthOf(Max(window))}

-------------------------------------------------------------------------------
\* run_window: the run's own bounds when it has both, else its calendar month.
RunWindow(run) ==
  IF run.from # NoOne /\ run.to # NoOne THEN run.from..run.to
  ELSE Month(run.month)

-------------------------------------------------------------------------------
(* The employee's tax facts *)

\* With a spouse K, without TK; at most three children count.
DerivedTier(fact) ==
  <<IF fact.spouse THEN "k" ELSE "tk",
    IF fact.children > 3 THEN 3 ELSE fact.children>>

TierOf(fact) == IF fact.override # NoOne THEN fact.override
                ELSE DerivedTier(fact)

\* A column nobody filled in: no NPWP, the bracket path, no THR.
FactsOf(fact, run) ==
  [tier   |-> TierOf(fact),
   npwp   |-> fact.npwp = TRUE,
   ter    |-> IF fact.ter = NoOne THEN "brackets" ELSE fact.ter,
   months |-> IF fact.joined = NoOne THEN 0 ELSE run.month - fact.joined]

-------------------------------------------------------------------------------
(* Hours *)

\* overtime_stretches: the clock's sum per day, where it is above nothing.
ClockStretches(minutes, window) ==
  [d \in {x \in window : minutes[x] > 0} |-> minutes[d]]

\* Approvals the query takes: approved ones from the window's first month to
\* the end of that year, or from the start of the last month's year up to it.
Vouching(approvals, employee, window) ==
  {a \in approvals :
     /\ a.employee = employee /\ a.status = "approved"
     /\ \/ /\ YearOf(a.month) = YearOf(MonthOf(Min(window)))
           /\ a.month >= MonthOf(Min(window))
        \/ /\ YearOf(a.month) = YearOf(MonthOf(Max(window)))
           /\ a.month <= MonthOf(Max(window))}

\* ... and the latest of them, one per employee and month.
LatestOf(approvals) ==
  CHOOSE a \in approvals : \A b \in approvals : b.month <= a.month

\* Claimed hours cropped to the authorised ones, per day.
ApprovedStretches(claimed, authorised, window) ==
  LET paid(d) == IF claimed[d] > authorised[d] THEN authorised[d]
                 ELSE claimed[d]
  IN  [d \in {x \in window : paid(x) > 0} |-> paid(d)]

===============================================================================
