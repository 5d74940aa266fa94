------------------------------- MODULE SlipDesk --------------------------------
(***************************************************************************)
(* Computed slips: preview_computed_salary_slip and                        *)
(* add_computed_salary_slip of one draft run.  A request reads the run,    *)
(* five law tables, the employee's facts, the structure, the clock, the    *)
(* timesheet approval and the approved hours, one statement each and no    *)
(* transaction around them, then the structure once more to price, and a   *)
(* save inserts.  Meanwhile other requests and other systems commit.       *)
(***************************************************************************)
EXTENDS SlipPricing, StatutoryLaw, SlipInputs

CONSTANTS
  Employees,
  Orders,       \* what a request asks: [employee, working, unpaid, risk]
  Worlds,       \* states the other tables may start from
  LawOffers,    \* sets that may come into the tables: <<table, date, rows>>
  Structures,   \* readings the structure may change to
  MaxCommits    \* the bound on what others commit

VARIABLES
  run,        \* payroll_entries: the run's columns a slip reads
  law,        \* the statutory tables
  facts,      \* employees and their tax rows, NoOne if soft-deleted
  structure,  \* components as of the period's first day
  minutes,    \* attendances: per employee and day
  sheet,      \* timesheets and authorisations: claimed and authorised hours
  approvals,  \* timesheet_approvals
  slips,      \* salary_slips of the run, per employee
  stamp,      \* the run's timesheet_approval_id
  req,        \* the request in progress, with what it has read
  quoted,     \* the last preview's answer, if nothing changed since
  since,      \* what was committed since the request began
  commits     \* how much others committed, for the bound

tables == <<run, law, facts, structure, minutes, sheet, approvals>>
vars == <<tables, slips, stamp, req, quoted, since, commits>>

Idle == [at |-> "idle"]

\* The sets of a table a behaviour may see.
Offered(t) == {x[3] : x \in {y \in LawOffers : y[1] = t}}
SetsOf(t) ==
  Offered(t) \cup UNION {{w.law[t][d] : d \in DOMAIN w.law[t]} : w \in Worlds}

Components == [name : STRING, ct : {"earning", "deduction"}, amount : Nat]

\* Hours of each day of the run's window, at least.
PerDay(f, r) == RunWindow(r) \subseteq DOMAIN f /\ \A d \in DOMAIN f : f[d] \in Int

\* What the types, keys and checks of the tables give: a run with a window of
\* days, facts and hours of every employee, approvals of one employee each, and
\* sets of the law under dates.
WorldTyped(w) ==
  /\ {"status", "from", "to", "month", "expense"} \subseteq DOMAIN w.run
  /\ w.run.status \in {"draft", "closed"}
  /\ w.run.month \in Nat /\ {w.run.from, w.run.to} \subseteq Nat \cup {NoOne}
  /\ RunWindow(w.run) # {}
  /\ w.structure \in Structures
  /\ \A e \in Employees :
       /\ e \in DOMAIN w.facts /\ e \in DOMAIN w.minutes /\ e \in DOMAIN w.sheet
       /\ w.facts[e] # NoOne => w.facts[e].joined \in Int \cup {NoOne}
       /\ PerDay(w.minutes[e], w.run)
       /\ {"claimed", "authorised"} \subseteq DOMAIN w.sheet[e]
       /\ PerDay(w.sheet[e].claimed, w.run)
       /\ PerDay(w.sheet[e].authorised, w.run)
  /\ IsFiniteSet(w.approvals)
  /\ \A a \in w.approvals :
       /\ {"id", "employee", "month", "status"} \subseteq DOMAIN a
       /\ a.id \notin {NoOne, NoRef} /\ a.month \in Nat
       /\ \A b \in w.approvals : b.id = a.id => b.employee = a.employee
  /\ DOMAIN w.law = Tables
  /\ \A t \in Tables : DOMAIN w.law[t] \subseteq Nat

ASSUME DeskAssumption ==
  /\ \A w \in Worlds : WorldTyped(w)
  /\ \A x \in LawOffers : x[1] \in Tables /\ x[2] \in Nat
  /\ \A t \in Tables : \A rows \in SetsOf(t) : RowsTyped(t, rows, Open)
  /\ Structures \subseteq Seq(Components)
  /\ \A o \in Orders :
       o.employee \in Employees /\ o.working \in Int /\ o.unpaid \in Int

Init ==
  /\ \E w \in Worlds :
       /\ run = w.run /\ law = w.law /\ facts = w.facts
       /\ structure = w.structure /\ minutes = w.minutes /\ sheet = w.sheet
       /\ approvals = w.approvals
  /\ slips = <<>> /\ stamp = NoOne
  /\ req = Idle /\ quoted = {} /\ since = {} /\ commits = 0

At(label) == req.at = label
Window == RunWindow(run)
AsOf == Min(Window)

\* The fields of f, with those of g.
With(f, g) ==
  [x \in DOMAIN f \cup DOMAIN g |-> IF x \in DOMAIN g THEN g[x] ELSE f[x]]
Just(x, v) == [y \in {x} |-> v]
Then(label, read) == req' = With([req EXCEPT !.at = label], read)
Refuse == req' = Idle /\ since' = {} /\ quoted' = {}
Reads == UNCHANGED <<tables, slips, stamp, quoted, since>>

-------------------------------------------------------------------------------
(* build_computed_slip *)

\* A preview, or a save; one that follows a preview keeps what it answered.
Begin(kind, o) ==
  /\ At("idle")
  /\ o.risk \in RiskClasses
  /\ req' = [at |-> "run", kind |-> kind, order |-> o]
  /\ quoted' = {q \in quoted : kind = "save" /\ q.order = o}
  /\ UNCHANGED <<tables, slips, stamp, since>>

ReadRun ==
  /\ At("run")
  /\ IF run.status = "draft" THEN Then("law", [seen |-> <<>>]) /\ Reads
     ELSE Refuse /\ UNCHANGED <<tables, slips, stamp>>

\* effective_at and the rows of that date, for the next table.  The rows of a
\* date never change, so the two statements read as one.
NextTable == ReadOrder[Cardinality(DOMAIN req.seen) + 1]

MayRefuse(t, rows) ==
  \/ ~Complete(t, rows, Open)
  \/ t = "bpjs" /\ NoCap \in CapsOf(rows, "kes") \cup CapsOf(rows, "jp")

ReadLaw ==
  LET t == NextTable IN
  /\ At("law")
  /\ \/ /\ DatesInForce(law[t], AsOf) # {}
        /\ Complete(t, RowsInForce(law[t], AsOf), Open)
        /\ \E cfg \in Readings(t, RowsInForce(law[t], AsOf)) :
             Then(IF t = "overtime" THEN "facts" ELSE "law",
                  [seen |-> With(req.seen, Just(t, cfg))])
        /\ Reads
     \/ /\ \/ DatesInForce(law[t], AsOf) = {}
           \/ MayRefuse(t, RowsInForce(law[t], AsOf))
        /\ Refuse /\ UNCHANGED <<tables, slips, stamp>>

ReadFacts ==
  LET f == facts[req.order.employee] IN
  /\ At("facts")
  /\ IF f # NoOne THEN Then("base", [in |-> FactsOf(f, run)]) /\ Reads
     ELSE Refuse /\ UNCHANGED <<tables, slips, stamp>>

\* The statutory base: the structure's earnings, not prorated.
BaseOf(components) == Total(components, Earnings(components))

ReadBase ==
  /\ At("base")
  /\ IF BaseOf(structure) > 0
       THEN Then("clock", [base |-> BaseOf(structure)]) /\ Reads
     ELSE Refuse /\ UNCHANGED <<tables, slips, stamp>>

ReadClock ==
  LET hours == ClockStretches(minutes[req.order.employee], Window) IN
  /\ At("clock")
  /\ IF /\ run.expense # NoOne
        /\ StretchesPriceable(hours, req.base, req.seen.overtime)
       THEN Then("approval", [clock |-> hours]) /\ Reads
     ELSE Refuse /\ UNCHANGED <<tables, slips, stamp>>

\* The approval that vouches for the period, and then ...
ReadApproval ==
  LET found == Vouching(approvals, req.order.employee, Window) IN
  /\ At("approval")
  /\ IF found = {}
       THEN Then("assemble", [approval |-> NoRef, hours |-> <<>>])
     ELSE Then("hours", [approval |-> LatestOf(found).id])
  /\ Reads

\* ... the hours of the window, in a statement of its own.
ReadHours ==
  LET s     == sheet[req.order.employee]
      hours == ApprovedStretches(s.claimed, s.authorised, Window) IN
  /\ At("hours")
  /\ IF StretchesPriceable(hours, req.base, req.seen.overtime)
       THEN Then("assemble", [hours |-> hours]) /\ Reads
     ELSE Refuse /\ UNCHANGED <<tables, slips, stamp>>

\* The tier and the category parse; no category is the bracket path.
KnownTier(in) == in.tier \in Tiers
KnownMethod(in) == in.ter \in Categories \cup {"brackets"}

Statutory(r) ==
  StatutoryLines(r.in, r.base, r.clock, r.approval, r.hours, r.order.risk,
                 r.seen)

\* Nothing is read here: tax, BPJS, THR and overtime, or a refusal.
Assemble ==
  /\ At("assemble")
  /\ IF /\ KnownTier(req.in) /\ KnownMethod(req.in)
        /\ Computable(req.in, req.base, req.order.risk, req.seen)
       THEN /\ Then(IF req.kind = "save" THEN "recheck" ELSE "price",
                    [statutory |-> Statutory(req)])
            /\ Reads
     ELSE Refuse /\ UNCHANGED <<tables, slips, stamp>>

-------------------------------------------------------------------------------
(* price_slip, and what becomes of the slip *)

\* add_salary_slip looks at the run again.
Recheck ==
  /\ At("recheck")
  /\ IF run.status = "draft" THEN Then("price", <<>>) /\ Reads
     ELSE Refuse /\ UNCHANGED <<tables, slips, stamp>>

\* The priced slip, with the hours and the method it keeps.
Noted(slip, clock, in) ==
  With(slip, [overtime |-> HoursOf(clock),
              method   |-> IF in.ter = "brackets" THEN "npwp_brackets" ELSE in.ter])

\* A plausible error in SlipOf, put in its place by a mutation run only.
QuoteInFull(r) ==
  Noted(Priced(structure, r.statutory, r.order.working,
               IF r.kind = "preview" THEN 0 ELSE r.order.unpaid),
        r.clock, r.in)

SlipOf(r) ==
  Noted(Priced(structure, r.statutory, r.order.working, r.order.unpaid),
        r.clock, r.in)

\* The structure's second reading: a preview answers, a save goes on.
Price ==
  LET o == req.order IN
  /\ At("price")
  /\ IF /\ Priceable(structure, req.statutory, o.working)
        /\ SlipOf(req).net >= 0
       THEN IF req.kind = "preview"
              THEN /\ req' = Idle
                   /\ quoted' = IF since = {}
                                  THEN {[order |-> o, slip |-> SlipOf(req)]}
                                  ELSE {}
                   /\ since' = {}
            ELSE Then("insert", [slip |-> SlipOf(req)])
                   /\ UNCHANGED <<quoted, since>>
     ELSE Refuse
  /\ UNCHANGED <<tables, slips, stamp>>

\* One transaction: the slip, its lines and the run's stamp.  The unique key
\* on run and employee refuses a second slip.
Insert ==
  LET e == req.order.employee IN
  /\ At("insert")
  /\ IF e \in DOMAIN slips THEN UNCHANGED <<slips, stamp>>
     ELSE /\ slips' = With(slips, Just(e, req.slip))
          /\ stamp' = IF req.approval = NoRef THEN stamp ELSE req.approval
  /\ Refuse
  /\ UNCHANGED tables

Step == \/ ReadRun \/ ReadLaw \/ ReadFacts \/ ReadBase \/ ReadClock
        \/ ReadApproval \/ ReadHours \/ Assemble \/ Recheck \/ Price \/ Insert

-------------------------------------------------------------------------------
(* What others commit meanwhile *)

\* x changed, after the last preview or while a request is in progress.
Commits(x) ==
  /\ commits < MaxCommits /\ commits' = commits + 1
  /\ IF At("idle") THEN quoted' = {} /\ since' = {}
     ELSE quoted' = quoted /\ since' = since \cup {x}
  /\ UNCHANGED <<slips, stamp, req>>

\* A set comes into a table under a date it has no rows for (the primary key).
PublishLaw(t, d, rows) ==
  /\ d \notin DOMAIN law[t]
  /\ law' = [law EXCEPT ![t] = With(@, Just(d, rows))]
  /\ Commits(<<t, d>>)
  /\ UNCHANGED <<run, facts, structure, minutes, sheet, approvals>>

\* A planned change reaches the draft run.
ChangeStructure(s) ==
  /\ s # structure
  /\ structure' = s
  /\ Commits(<<"structure">>)
  /\ UNCHANGED <<run, law, facts, minutes, sheet, approvals>>

\* An approver signs, or takes the signature back.
Review(a) ==
  /\ approvals' = (approvals \ {a}) \cup
       {[a EXCEPT !.status = IF @ = "approved" THEN "pending" ELSE "approved"]}
  /\ Commits(<<"approval">>)
  /\ UNCHANGED <<run, law, facts, structure, minutes, sheet>>

\* The employee leaves, or hours are corrected away.
Dismiss(e) ==
  /\ facts[e] # NoOne
  /\ facts' = [facts EXCEPT ![e] = NoOne]
  /\ Commits(<<"facts">>)
  /\ UNCHANGED <<run, law, structure, minutes, sheet, approvals>>

CorrectHours(e, d) ==
  /\ sheet[e].claimed[d] > 0
  /\ sheet' = [sheet EXCEPT ![e].claimed[d] = 0]
  /\ Commits(<<"hours">>)
  /\ UNCHANGED <<run, law, facts, structure, minutes, approvals>>

\* The run is processed (PayrollRun has the whole of its life).
CloseRun ==
  /\ run.status = "draft"
  /\ run' = [run EXCEPT !.status = "closed"]
  /\ Commits(<<"run">>)
  /\ UNCHANGED <<law, facts, structure, minutes, sheet, approvals>>

Others ==
  \/ \E x \in LawOffers : PublishLaw(x[1], x[2], x[3])
  \/ \E s \in Structures : ChangeStructure(s)
  \/ \E a \in approvals : Review(a)
  \/ \E e \in Employees :
       Dismiss(e) \/ \E d \in DOMAIN sheet[e].claimed : CorrectHours(e, d)
  \/ CloseRun

Next ==
  \/ \E kind \in {"preview", "save"}, o \in Orders :
       Begin(kind, o) /\ UNCHANGED commits
  \/ Step /\ UNCHANGED commits
  \/ Others

Spec == Init /\ [][Next]_vars

-------------------------------------------------------------------------------
(* What is said of the tables and no check enforces *)

LawIsSorted ==
  /\ \A rows \in SetsOf("brackets") : Ascending(rows)
  /\ \A rows \in SetsOf("ter") : \A c \in DOMAIN rows : Ascending(rows[c])

HoursHaveOneBand ==
  \A rows \in SetsOf("overtime") :
    "workday" \in DOMAIN rows => Apart(rows["workday"], Open)

OneCap == \A rows \in SetsOf("bpjs") : CappedAlike(rows)

\* Of the 28 digits of a quotient an amount of NUMERIC(18, 2) leaves enough.
QuotientsSuffice ==
  \A s \in Structures, o \in Orders :
    \A i \in DOMAIN s : s[i].amount * o.working < PartUnit

-------------------------------------------------------------------------------
(* Properties *)

StatutoryNames ==
  {"Lembur_Overtime", "Lembur_disetujui", "THR", "PPh_21",
   "BPJS_Kesehatan", "BPJS_Ketenagakerjaan"}

LineNames ==
  StatutoryNames \cup UNION {{s[i].name : i \in DOMAIN s} : s \in Structures}

Lines == [name : LineNames, ct : {"earning", "deduction"}, amount : Nat,
          ref : {NoRef} \cup {a.id : a \in approvals}]

\* Every slip on file is made of lines of a structure and of the statutory ones,
\* its sums are numbers, and what a request takes for the law is a configuration.
TypeOK ==
  /\ run.status \in {"draft", "closed"}
  /\ DOMAIN law = Tables
  /\ DOMAIN slips \subseteq Employees
  /\ \A e \in DOMAIN slips :
       /\ \A i \in DOMAIN slips[e].lines : slips[e].lines[i] \in Lines
       /\ {slips[e].gross, slips[e].deductions, slips[e].overtime} \subseteq Nat
  /\ req.at \in {"idle", "run", "law", "facts", "base", "clock", "approval",
                "hours", "assemble", "recheck", "price", "insert"}
  /\ "seen" \in DOMAIN req =>
       \A t \in DOMAIN req.seen : IsConfig(t, req.seen[t], Open)

\* m is n / d to the nearest whole, a half up.
Nearest(m, n, d) == 2 * d * m <= 2 * n + d /\ 2 * n + d < 2 * d * (m + 1)

LineAmount(lines, name) ==
  SumFunction([i \in DOMAIN lines |->
                 IF lines[i].name = name THEN lines[i].amount ELSE 0])

\* A year's tax unit by unit: each at the rate of the bracket it lies in.
UnitRate(u, b) ==
  IF u > b.lower /\ (b.upper = Open \/ u <= b.upper) THEN b.rate ELSE 0

PerUnitTax(taxable, brackets) ==
  SumFunction([u \in 1..taxable |->
    SumFunction([i \in DOMAIN brackets |-> UnitRate(u, brackets[i])])])

\* The rate of the band with the greatest lower bound the base reaches.
EffectiveRate(base, bands) ==
  LET below == {i \in DOMAIN bands : bands[i].lower * RateUnit <= base}
  IN  bands[CHOOSE i \in below :
              \A j \in below : bands[j].lower <= bands[i].lower].rate

Assembled == "statutory" \in DOMAIN req

\* statutory_calcs.rs:658, :725: the tax withheld (none, if there is no line)
\* is what taxing the year's income unit by unit gives, a fifth more without
\* NPWP; under TER it is the base at the rate of the highest band reached.
TaxIsPerUnit ==
  Assembled =>
    LET in == req.in  cfg == req.seen
        tax == LineAmount(req.statutory, "PPh_21")
        extra == IF in.npwp THEN 5 ELSE 6
    IN  IF in.ter = "brackets"
          THEN Nearest(tax,
                 PerUnitTax(12 * req.base - cfg.ptkp[in.tier], cfg.brackets)
                   * extra,
                 RateUnit * 12 * 5)
        ELSE LET base == TerBase(req.base, cfg.bpjs)
             IN  Nearest(tax, base * EffectiveRate(base, cfg.ter[in.ter]) * extra,
                         RateUnit * RateUnit * 5)

\* Every unit of every day's stretch is paid at the multiplier of the hour of
\* that day it falls in: the first hour's rate comes back each morning.
HourOf(u) == (u + HourUnit - 1) \div HourUnit
UnitMultiplier(u, bands) ==
  bands[CHOOSE i \in DOMAIN bands :
          HourOf(u) \in bands[i].from..(IF bands[i].to = Open THEN HourOf(u)
                                        ELSE bands[i].to)].multiplier

PerUnitOvertime(stretches, base, bands) ==
  [d \in DOMAIN stretches |->
     base * SumFunction([u \in 1..stretches[d] |-> UnitMultiplier(u, bands)])]

\* The days' pay, each rounded for itself.
SumsTo(amount, pays, d) ==
  amount = SumFunction([x \in DOMAIN pays |->
                          CHOOSE m \in 0..pays[x] : Nearest(m, pays[x], d)])

\* statutory_calcs.rs:880 (and payroll_write_service.rs:730): what the clock
\* and the approved timesheet add is the pay of their hours, day by day.
OvertimeIsPerHour ==
  Assembled =>
    \A leg \in {<<"Lembur_Overtime", req.clock>>,
               <<"Lembur_disetujui", req.hours>>} :
      SumsTo(LineAmount(req.statutory, leg[1]),
             PerUnitOvertime(leg[2], req.base, req.seen.overtime),
             HoursPerMonth * 10 * HourUnit)

\* Each part of the law a request goes by is one whole set, the one in force on
\* the period's first day, or one that only a set published since then
\* replaced: no mixture within a table, and never a law of a later day.
LawSeenWasInForce ==
  ~At("idle") /\ ~At("run") =>
    \A t \in DOMAIN req.seen :
      \E d \in DOMAIN law[t] :
        /\ d <= AsOf
        /\ req.seen[t] \in Readings(t, law[t][d])
        /\ \A x \in DOMAIN law[t] : x \in d + 1..AsOf => <<t, x>> \in since

\* statutory_params_repository.rs:146, :178: whatever a request was given as the
\* law computes the tax of any known tier and category; only a risk class the
\* law has no rate for is found out afterwards.
LoadedLawComputes ==
  At("assemble") /\ req.order.risk \in DOMAIN req.seen.bpjs.jkk =>
    \A tier \in Tiers, ter \in Categories \cup {"brackets"} :
      Computable([tier |-> tier, ter |-> ter], req.base, req.order.risk, req.seen)

\* What was committed since a request began and could have reached it.
Disturbed == \E x \in since : x[1] \in Tables => x[2] <= AsOf

\* The law in force on the period's first day, as it may be read.
RowsNow(t) ==
  law[t][CHOOSE d \in DOMAIN law[t] :
           /\ d <= AsOf
           /\ \A x \in DOMAIN law[t] : x <= AsOf => x <= d]
SomeReading(t, rows) == CHOOSE r \in Readings(t, rows) : TRUE
LawNow(b) ==
  [t \in Tables |-> IF t = "bpjs" THEN b ELSE SomeReading(t, RowsNow(t))]

\* The slip of an order as all the tables stand.
CurrentSlips(o) ==
  LET in       == FactsOf(facts[o.employee], run)
      s        == sheet[o.employee]
      clock    == ClockStretches(minutes[o.employee], Window)
      found    == Vouching(approvals, o.employee, Window)
      approval == IF found = {} THEN NoRef ELSE LatestOf(found).id
      hours    == IF found = {} THEN <<>>
                  ELSE ApprovedStretches(s.claimed, s.authorised, Window)
      lines(b) == StatutoryLines(in, BaseOf(structure), clock, approval, hours,
                                 o.risk, LawNow(b))
  IN  {Noted(Priced(structure, lines(b), o.working, o.unpaid), clock, in) :
         b \in Readings("bpjs", RowsNow("bpjs"))}

\* payroll_write_service.rs:674: a slip saved while nothing it read from
\* changed is the slip of the tables as they stand together; above all a law
\* dated after the period's first day leaves it alone.
UndisturbedSlipIsOneReading ==
  [][\A e \in DOMAIN slips' \ DOMAIN slips :
       ~Disturbed => slips'[e] \in CurrentSlips(req.order)]_vars

\* payroll_write_service.rs:579: while nothing changes, a save writes what the
\* preview before it showed.
PreviewIsTheSlip ==
  [][\A e \in DOMAIN slips' \ DOMAIN slips :
       ~Disturbed => \A q \in quoted : slips'[e] = q.slip]_vars

\* payroll_write_service.rs:590: a slip adds up to a net that is not negative,
\* and pays of each earning of the structure it was priced on the part of the
\* days that were paid, to within half a unit; a deduction it takes in full.
SlipAddsUp ==
  \A e \in DOMAIN slips :
    LET s == slips[e]
        sum(ct) == SumFunction([i \in DOMAIN s.lines |->
                     IF s.lines[i].ct = ct THEN s.lines[i].amount ELSE 0])
    IN  /\ s.net >= 0
        /\ s.gross = sum("earning") /\ s.deductions = sum("deduction")
        /\ s.gross = s.deductions + s.net
        /\ \E c \in Structures :
             /\ Len(c) <= Len(s.lines)
             /\ \A i \in DOMAIN c :
                  /\ s.lines[i].name = c[i].name
                  /\ IF c[i].ct = "deduction"
                       THEN s.lines[i].amount = c[i].amount
                     ELSE /\ s.lines[i].amount \in 0..c[i].amount
                          /\ 2 * (s.lines[i].amount * s.working
                                    - c[i].amount * (s.working - s.unpaid))
                               \in -s.working..s.working

\* payroll_write_service.rs:567: hours a slip pays on an approval are vouched
\* for by an approval of that employee; a run with such a slip is stamped, and
\* its stamp is the approval of someone who has a slip in it.
RunIsVouchedFor ==
  LET owners(id) == {a.employee : a \in {x \in approvals : x.id = id}}
  IN  /\ \A e \in DOMAIN slips : \A i \in DOMAIN slips[e].lines :
           LET ref == slips[e].lines[i].ref
           IN  ref # NoRef => owners(ref) = {e} /\ stamp # NoOne
      /\ stamp # NoOne => owners(stamp) \subseteq DOMAIN slips

===============================================================================
