------------------------------- MODULE RunReads --------------------------------
(***************************************************************************)
(* What is read of runs and slips: the comparison of a run with the run    *)
(* before it (payroll_comparison.rs) and the payslip of one slip           *)
(* (render_slip_pdf).  The comparison is six statements and no             *)
(* transaction, and runs live on meanwhile, by the steps of RunLife: what  *)
(* the verbs of PayrollRun commit.                                         *)
(*                                                                         *)
(* A slip is the sequence of its lines [name, ct, amount]; its columns     *)
(* are the sums of them.  Hours are left out: they are summed like pay.    *)
(***************************************************************************)
EXTENDS Integers, Sequences, FiniteSets, Functions

CONSTANTS
  Runs,        \* run ids
  Period,      \* the period of each, a number; several runs may share one
  People,      \* employee ids, numbers: the last key people are ordered by
  Slips,       \* the slips that may be added
  ReadWorlds,  \* [run, slips] to start from
  Requests,    \* comparisons asked for: [id, limit, offset]
  MaxPage,     \* the most people of one answer (200 in the code)
  MaxMoves,    \* the bound on what others commit
  Nobody       \* NULL: no such run or person

VARIABLES
  runs,       \* payroll_entries: the status of each
  slipsOf,    \* salary_slips: of each run, a slip per employee
  read,       \* the comparison in progress, with what it has read
  answer,     \* the last answer, while nothing has changed since
  payslips,   \* the payslip last handed out, if any
  sinceRead,  \* what runs have come to since the comparison began
  moves       \* how much others committed, for the bound

readTables == <<runs, slipsOf>>
readVars == <<readTables, read, answer, payslips, sinceRead, moves>>

NoRead == [at |-> "idle"]
Statuses == {"absent", "draft", "processed", "posted", "cancelled"}
SlipLines == [name : STRING, ct : {"earning", "deduction"}, amount : Nat]

\* Runs in some status, each with slips of some of its people.
TablesTyped(status, of) ==
  /\ status \in [Runs -> Statuses]
  /\ DOMAIN of = Runs
  /\ \A r \in Runs : /\ DOMAIN of[r] \subseteq People
                     /\ IsFiniteSet(DOMAIN of[r])
                     /\ \A e \in DOMAIN of[r] : of[r][e] \in Slips

\* What the tables give.  A slip has a line: price_slip refuses a structure
\* without components.
ReadsAssumption ==
  /\ Period \in [Runs -> Nat]
  /\ Nobody \notin Runs
  /\ People \subseteq Int /\ MaxPage \in Nat \ {0}
  /\ Slips \subseteq Seq(SlipLines) \ {<<>>}
  /\ Requests \subseteq [id : Runs, limit : Int, offset : Int]
  /\ \A w \in ReadWorlds : TablesTyped(w.run, w.slips)

ReadInit ==
  /\ \E w \in ReadWorlds : runs = w.run /\ slipsOf = w.slips
  /\ read = NoRead /\ answer = {} /\ payslips = {} /\ sinceRead = {} /\ moves = 0

ReadAt(label) == read.at = label

-------------------------------------------------------------------------------
(* Sums *)

Paid(s, ct) ==
  SumFunction([i \in DOMAIN s |-> IF s[i].ct = ct THEN s[i].amount ELSE 0])
Gross(s) == Paid(s, "earning")
Deducted(s) == Paid(s, "deduction")
AbsOf(n) == IF n < 0 THEN -n ELSE n

-------------------------------------------------------------------------------
\* Plausible errors in the definitions below, put in their place by the
\* mutation runs only.
NotYetFinal(id) == {p \in Runs : Period[p] < Period[id] /\ runs[p] # "cancelled"}
EitherRun(id, prev) == DOMAIN slipsOf[id] \cup DOMAIN slipsOf[prev]
CurrentOnly(id, prev) == DOMAIN slipsOf[id]
NotCancelled(r) == runs[r] # "cancelled"

-------------------------------------------------------------------------------
(* compare_runs: one operator per statement *)

\* Processed or posted runs of an earlier period ...
Earlier(id) ==
  {p \in Runs : runs[p] \in {"processed", "posted"} /\ Period[p] < Period[id]}

\* ... and the latest of them; of a shared period any one may come first.
PreviousRuns(id) ==
  {p \in Earlier(id) : \A q \in Earlier(id) : Period[q] <= Period[p]}

TotalsOf(r) ==
  [status     |-> runs[r],
   headcount  |-> Cardinality(DOMAIN slipsOf[r]),
   gross      |-> SumFunction([e \in DOMAIN slipsOf[r] |-> Gross(slipsOf[r][e])]),
   deductions |-> SumFunction([e \in DOMAIN slipsOf[r] |-> Deducted(slipsOf[r][e])])]

GrossIn(r, e) == IF e \in DOMAIN slipsOf[r] THEN Gross(slipsOf[r][e]) ELSE 0
Both(id, prev) == DOMAIN slipsOf[id] \cap DOMAIN slipsOf[prev]

Movement(id, prev) ==
  [joined  |-> Cardinality(DOMAIN slipsOf[id] \ DOMAIN slipsOf[prev]),
   left    |-> Cardinality(DOMAIN slipsOf[prev] \ DOMAIN slipsOf[id]),
   changed |-> Cardinality({e \in Both(id, prev) :
                 10 * AbsOf(GrossIn(id, e) - GrossIn(prev, e))
                   > AbsOf(GrossIn(prev, e))})]

LinesOf(r) ==
  UNION {{<<e, i>> : i \in DOMAIN slipsOf[r][e]} : e \in DOMAIN slipsOf[r]}
LineAt(r, x) == slipsOf[r][x[1]][x[2]]

AmountOf(r, c) ==
  SumFunction([x \in LinesOf(r) |->
                 IF LineAt(r, x).name = c.name /\ LineAt(r, x).ct = c.ct
                   THEN LineAt(r, x).amount ELSE 0])

\* A set: the order of the answer, by size of the change, is left out.
ComponentsOf(id, prev) ==
  {[name |-> c.name, ct |-> c.ct, current |-> AmountOf(id, c),
    previous |-> AmountOf(prev, c)] :
     c \in {LineAt(id, x) : x \in LinesOf(id)}
             \cup {LineAt(prev, x) : x \in LinesOf(prev)}}

\* Everyone of both runs (FULL OUTER JOIN).
Everyone(id, prev) == DOMAIN slipsOf[id] \cup DOMAIN slipsOf[prev]

PersonChange(id, prev, e) ==
  [employee |-> e,
   gross    |-> IF e \in DOMAIN slipsOf[id] THEN GrossIn(id, e) ELSE Nobody,
   previous |-> IF e \in DOMAIN slipsOf[prev] THEN GrossIn(prev, e) ELSE Nobody,
   change   |-> GrossIn(id, e) - GrossIn(prev, e)]

\* Largest change first, then by employee.
ComesFirst(a, b) ==
  \/ AbsOf(a.change) > AbsOf(b.change)
  \/ AbsOf(a.change) = AbsOf(b.change) /\ a.employee < b.employee

\* The order is total: each has a place, after those who come first.
Ranked(id, prev) ==
  LET people == {PersonChange(id, prev, e) : e \in Everyone(id, prev)}
      place  == [p \in people |->
                   Cardinality({q \in people : ComesFirst(q, p)}) + 1]
  IN  [n \in 1..Cardinality(people) |-> CHOOSE p \in people : place[p] = n]

\* LIMIT and OFFSET, after limit.clamp(1, 200) and offset.max(0).
PageSize(limit) == IF limit < 1 THEN 1 ELSE IF limit > MaxPage THEN MaxPage ELSE limit
PageStart(offset) == IF offset < 0 THEN 0 ELSE offset
Page(ranked, limit, offset) ==
  LET left == Len(ranked) - PageStart(offset)
  IN  [i \in 1..(IF PageSize(limit) < left THEN PageSize(limit) ELSE left) |->
         ranked[PageStart(offset) + i]]

-------------------------------------------------------------------------------
(* compare_runs, one statement a step *)

OnlyReads == UNCHANGED <<readTables, payslips, sinceRead, moves>>

\* The fields of f, with those of g.
Merged(f, g) ==
  [x \in DOMAIN f \cup DOMAIN g |-> IF x \in DOMAIN g THEN g[x] ELSE f[x]]
ReadOn(label, found) ==
  read' = Merged([read EXCEPT !.at = label], found) /\ UNCHANGED answer
Answer(a) == read' = NoRead /\ answer' = {Merged(read, a)} /\ sinceRead' = {}

\* A run that is on file; its own status does not matter.
ReadHeader(q) ==
  /\ ReadAt("idle")
  /\ runs[q.id] # "absent"
  /\ read' = [at |-> "previous", request |-> q]
  /\ answer' = {}
  /\ OnlyReads

ReadPrevious ==
  LET id == read.request.id IN
  /\ ReadAt("previous")
  /\ IF PreviousRuns(id) = {} THEN ReadOn("totals", [prev |-> Nobody])
     ELSE \E p \in PreviousRuns(id) : ReadOn("totals", [prev |-> p])
  /\ OnlyReads

\* Without a run before it the answer ends here.
ReadTotals ==
  LET id == read.request.id IN
  /\ ReadAt("totals")
  /\ IF read.prev = Nobody
       THEN /\ Answer([current |-> TotalsOf(id), since |-> sinceRead])
            /\ UNCHANGED <<readTables, payslips, moves>>
     ELSE /\ ReadOn("movement", [current  |-> TotalsOf(id),
                               previous |-> TotalsOf(read.prev)])
          /\ OnlyReads

ReadMovement ==
  /\ ReadAt("movement")
  /\ ReadOn("components", [movement |-> Movement(read.request.id, read.prev)])
  /\ OnlyReads

ReadComponents ==
  /\ ReadAt("components")
  /\ ReadOn("people", [components |-> ComponentsOf(read.request.id, read.prev)])
  /\ OnlyReads

ReadPeople ==
  LET q == read.request IN
  /\ ReadAt("people")
  /\ Answer([people |-> Page(Ranked(q.id, read.prev), q.limit, q.offset),
             since  |-> sinceRead])
  /\ UNCHANGED <<readTables, payslips, moves>>

-------------------------------------------------------------------------------
(* render_slip_pdf *)

\* The tables of the document: every line goes to the deductions, whatever it
\* is, and the earnings name the gross only when there is no line.
PayslipTables(lines) ==
  [earnings   |-> IF lines = <<>>
                    THEN <<[name |-> "Salary", ct |-> "earning", amount |-> 0]>>
                    ELSE <<>>,
   deductions |-> lines]

Published(r) == runs[r] = "posted"

\* The slip of a posted run; one transaction, and nothing changes such a slip.
Render(r, e) ==
  /\ Published(r)
  /\ e \in DOMAIN slipsOf[r]
  /\ payslips' =
       {[run |-> r, employee |-> e, gross |-> Gross(slipsOf[r][e]),
         deductions |-> Deducted(slipsOf[r][e]),
         tables |-> PayslipTables(slipsOf[r][e])]}
  /\ UNCHANGED <<readTables, read, answer, sinceRead, moves>>

-------------------------------------------------------------------------------
(* What others commit meanwhile *)

\* The life of the runs whose slips are read here.
Life == INSTANCE RunLife WITH
  status <- runs,
  roster <- [r \in Runs |-> DOMAIN slipsOf[r]]

\* What r has come to, a status or one more slip, disturbs a comparison.
OthersCommit(r, event) ==
  /\ moves < MaxMoves /\ moves' = moves + 1
  /\ sinceRead' = IF ReadAt("idle") THEN {} ELSE sinceRead \cup {<<r, event>>}
  /\ answer' = {}
  /\ UNCHANGED <<read, payslips>>

Move(r, from, to) ==
  /\ runs[r] = from
  /\ runs' = [runs EXCEPT ![r] = to]
  /\ OthersCommit(r, to)

OpenRun(r) == Move(r, "absent", "draft") /\ UNCHANGED slipsOf

\* Also on a run that has moved on since add_salary_slip found it a draft.
AddSlip(r, e, s) ==
  /\ runs[r] # "absent" /\ e \notin DOMAIN slipsOf[r]
  /\ slipsOf' = [slipsOf EXCEPT ![r] = Merged(@, [x \in {e} |-> s])]
  /\ OthersCommit(r, "slip")
  /\ UNCHANGED runs

Process(r) ==
  DOMAIN slipsOf[r] # {} /\ Move(r, "draft", "processed") /\ UNCHANGED slipsOf

Post(r) == Move(r, "processed", "posted") /\ UNCHANGED slipsOf

\* The slips go with a draft and stay of a processed run.
CancelDraft(r) ==
  Move(r, "draft", "cancelled") /\ slipsOf' = [slipsOf EXCEPT ![r] = <<>>]
CancelProcessed(r) == Move(r, "processed", "cancelled") /\ UNCHANGED slipsOf

ReadNext ==
  \/ \E q \in Requests : ReadHeader(q)
  \/ ReadPrevious \/ ReadTotals \/ ReadMovement \/ ReadComponents \/ ReadPeople
  \/ \E r \in Runs :
       \/ \E e \in People : Render(r, e) \/ \E s \in Slips : AddSlip(r, e, s)
       \/ OpenRun(r) \/ Process(r) \/ Post(r) \/ CancelDraft(r) \/ CancelProcessed(r)

ReadSpec == ReadInit /\ [][ReadNext]_readVars

-------------------------------------------------------------------------------
(* Properties *)

\* Statuses, slips and payslips are of the right kind.
ReadTypeOK ==
  /\ TablesTyped(runs, slipsOf)
  /\ \A p \in payslips : {p.gross, p.deductions} \subseteq Nat
  /\ read.at \in {"idle", "previous", "totals", "movement", "components", "people"}

Full(a) == "people" \in DOMAIN a

ChangeOf(a, ct) ==
  SumFunction([c \in a.components |->
                 IF c.ct = ct THEN c.current - c.previous ELSE 0])

\* payroll_comparison.rs:1: an answer nothing disturbed tells one story in five
\* ways: who joined less who left is the difference of the headcounts, what the
\* components moved is the difference of gross and of deductions, and no more
\* people changed than are in both runs.
ComparisonAddsUp ==
  \A a \in answer : Full(a) /\ a.since = {} =>
    /\ a.movement.joined - a.movement.left
         = a.current.headcount - a.previous.headcount
    /\ ChangeOf(a, "earning") = a.current.gross - a.previous.gross
    /\ ChangeOf(a, "deduction") = a.current.deductions - a.previous.deductions
    /\ a.movement.changed <= a.current.headcount - a.movement.joined

\* payroll_comparison.rs:240: one page after the other, everyone of either run
\* is on exactly one, and nobody later changed more than somebody earlier; the
\* pages together move by the difference of gross.
PagesCoverEveryone ==
  \A a \in answer : Full(a) /\ a.since = {} =>
    LET q      == a.request
        all    == DOMAIN slipsOf[q.id] \cup DOMAIN slipsOf[a.prev]
        size   == PageSize(q.limit)
        pages  == [k \in 1..Cardinality(all) |->
                     Page(Ranked(q.id, a.prev), q.limit, (k - 1) * size)]
        places == {x \in (DOMAIN pages) \X (1..size) : x[2] \in DOMAIN pages[x[1]]}
        row    == [x \in places |-> pages[x[1]][x[2]]]
    IN  /\ {row[x].employee : x \in places} = all
        /\ Cardinality(places) = Cardinality(all)
        /\ \A x, y \in places :
             x[1] < y[1] \/ (x[1] = y[1] /\ x[2] < y[2])
               => AbsOf(row[x].change) >= AbsOf(row[y].change)
        /\ SumFunction([x \in places |-> row[x].change])
             = a.current.gross - a.previous.gross
        /\ Len(a.people) <= MaxPage

\* payroll_comparison.rs:145: whatever happens meanwhile, the run compared with
\* is of an earlier period and final, unless it was cancelled while the
\* comparison was being read; and a final run in between, or any where none was
\* found, was processed meanwhile.
PreviousWasLatest ==
  \A a \in answer :
    LET final == {p \in Runs : runs[p] \in {"processed", "posted"}
                                 /\ Period[p] < Period[a.request.id]}
        before == {p \in final : <<p, "processed">> \notin a.since}
    IN  IF a.prev = Nobody THEN before = {}
        ELSE /\ Period[a.prev] < Period[a.request.id]
             /\ a.prev \in final \/ <<a.prev, "cancelled">> \in a.since
             /\ \A p \in before : Period[p] <= Period[a.prev]

\* payroll_write_service.rs:861: a payslip handed out stays that of a posted run
\* and of a slip on file, and leaves out none of its lines.
PayslipsStand ==
  \A p \in payslips :
    /\ runs[p.run] = "posted" /\ p.employee \in DOMAIN slipsOf[p.run]
    /\ LET s == slipsOf[p.run][p.employee]
       IN  /\ p.tables.earnings \o p.tables.deductions = s
           /\ p.gross = Gross(s) /\ p.deductions = Deducted(s)

===============================================================================
