# A verification of backbone-payroll

`backbone-payroll` collects salary slips into payroll runs, closes a run, posts
one aggregate salary journal to the general ledger, announces it and hands the
deductions to a remittance adapter. Salary structures change from a date, HR
events record compensation, and statutory amounts are worked out from
effective-dated parameter tables. This directory holds TLA+ modules of that
program, TLC configurations that check them on small instances, and proofs that
TLAPS checks for every size. File and line references are to the sources.

## 1. Inventory

The hand-written core is `src/application/service/` and
`src/infrastructure/persistence/`; most of the rest is generated from `schema/`.
State is in Postgres. There is no in-memory state, no thread of the module's own
and no lock but row locks, so what interleaves is SQL statements and port calls
of concurrent requests, workers and event deliveries. Transactions are READ
COMMITTED, the Postgres default; nothing sets another level.

| Component | State it keeps | Operations | Module |
|---|---|---|---|
| Run lifecycle (`payroll_write_service.rs` and the entry, slip and line repositories) | `payroll_entries` (status, totals, journal), `salary_slips`, `salary_slip_lines` | create, add slip, process, cancel, post, remit | `PayrollRun` |
| GL, event and remittance ports (`payroll_gl.rs`, `payroll_events.rs`, `payroll_remittance.rs`) | outside: journals, events, instructions, each deduplicated by a key the engine chooses | `post`, `publish`, `remit` | `PayrollRun` |
| Dated structure changes (`pay_schedule.rs`, `pay_schedule_repository.rs`, `salary_component_repository.rs`) | `salary_components`, `salary_component_versions` | plan, withdraw, daily pass, as-of read | `PaySchedule` |
| Event consumers and inbox (hire, onboarding, promotion and offboarding handlers) | `compensation_changes`, `inbox_consumed` | one handler per event | `CompensationInbox` |
| Slip pricing (`build_computed_slip`, `price_slip`, the preview and the computed save) | none of its own; the slip and the run's approval stamp are stored | preview, save; proration, rounding, refusals | `SlipPricing`, `SlipDesk` |
| Statutory calculations (`statutory_calcs.rs`) | none | PTKP, PPh 21, TER, BPJS, THR, overtime | `StatutoryCalcs` |
| Statutory parameters (`statutory_params_repository.rs`) | five effective-dated tables, written by migrations | resolve as of a date | `StatutoryLaw`; its reads are `SlipDesk`'s |
| Timesheet, overtime and employee inputs ports | none; they read tables of other modules | one read each | `SlipInputs` |
| Run comparison (`payroll_comparison.rs`), payslips (`render_slip_pdf`) | none | compare a run with the one before it; hand out a payslip | `RunReads` |
| Generated surface: entities, DTOs, row rules, CRUD routes, history off the audit trail | any row of the seven tables, `auditlog.audit_trails` | create, PUT, PATCH, soft delete, restore, purge, read as of | `GeneratedRows` |
| Command routes, the document's layout, migrations, seeders | wiring and data | | not modelled, section 12 |

How they interact. `add_salary_slip` reads the structure as of the first day of
the run's period (`PaySchedule`'s `Reading`) and stores a slip on the run
(`PayrollRun`'s `slips`). A plan or a withdrawal looks at the runs and slips to
find what it reaches. Posting calls the ledger, then writes the row, then
publishes; remitting reads the lines of a posted run. HR events reach payroll
only through the consumers, which write `compensation_changes` and never a run.
A computed slip reads, besides run and structure, the law, the employee's facts,
the clock, the approval and the approved hours, each in a statement of its own
and without a transaction around them (`SlipDesk`); the comparison reads two runs
and their slips in six such statements (`RunReads`).

What is hard about each, and what makes it correct:

* **Run lifecycle.** Every verb but cancel and the insert of a slip is several
  separately committed statements, with a port call in the middle of post. A run
  may be cancelled, processed or posted between any two of them, the process may
  die, sinks refuse, clients retry. Correct means: rows only move forward;
  totals are of slips the run has; one journal per run, the one on the row; who
  is answered is answered with that journal; nothing is paid twice; a posted run
  is announced in the end; journal, event and remittances tell the same story.
* **Dated structure changes.** Planners and withdrawers serialise on row locks,
  but what a statement read before it waited stays as it was; slips and runs are
  read without locks; the daily pass races planners; midnight passes while a
  request waits. Correct means: earlier periods keep what they pay; a processed
  run's structure does not change under it; whoever plans is told whose slips are
  stale; rows follow the versions in force; no component is left without either.
* **Consumers.** Events are redelivered, arrive concurrently and out of order.
  Correct means: one effect per event, one initial compensation per employee,
  and an event whose handler failed is not lost.
* **Computed slips.** A dozen reads without a snapshot, of tables that five other
  systems write, and a second reading of the structure to price. Correct means:
  each part of the law is one set in force on the period's first day; a slip that
  nothing disturbed is one reading of all tables; the preview is the slip; a
  slip that pays approved hours stamps its run.
* **Pricing, statutory calculations.** Boundaries: unpaid days clamped at both
  ends, half-away-from-zero rounding per line, a net of zero, brackets, TER
  bands, ceilings, overtime bands. Correct means: agreement with a reference
  that taxes each unit and pays each hour by itself, and sums that add up.
* **Parameters.** Loaders that accept or refuse a set of rows, and calculations
  that refuse later. Correct means: what is accepted computes.
* **Run comparison.** Headcounts, movement, components and people are separate
  queries over the same slips, and people come in pages. Correct means: they tell
  the same story, everyone is on one page, and the run compared with is the
  latest final one.
* **Generated surface.** Every column is named again in five places per entity,
  the rules look only at what a request changes, and a past row is walked from
  its trail. Correct means: no path loses a column, no sequence of writes makes a
  row worse, the walk arrives at the row.

## 2. Plan

Done, in this order because the ledger is where a mistake costs most:

1. `SalaryBook`, `RunLife` and `PayrollRun` — the run's life, what it promises
   and what others see of it, and `PayrollRunProofs`.
2. `PaySchedule` and `PayScheduleProofs` — dated changes.
3. `CompensationInbox` and `CompensationInboxProofs` — the event consumers.
4. `StatutoryCalcs`, `StatutoryLaw`, `SlipInputs`, `SlipPricing` — the operators
   of a slip's amounts — and `SlipDesk`, which composes them into the preview and
   the save of a computed slip while others commit; `SlipDeskProofs` (where a slip's
   data come from, and what it pays).
5. `RunReads` and `RunReadsProofs` — the comparison and payslips.
6. `GeneratedRows` and `GeneratedRowsProofs` — one row of each entity behind its
   generated surface.

`FiniteSums` has the facts about sums over finite sets and sequences that the
proofs of the schedule, the slip desk and the comparison cite. `MCSlipsReadsRows` extends the modules of
parts 4 to 6 and checks them side by side: they share no state, so a behaviour is
one of them with the others standing still (`SlipsReadsRowsProofs`). Three modules
look at runs: `PayrollRun` moves them by its verbs, `PaySchedule` and `RunReads`
have runs that live on while they read. `RunLife` is what the three agree on:
each instantiates it with its own tables, and each is proved to keep to it.
`SlipDesk` sees of a run's life only that it closes.

Every safety property of the passing runs is a theorem (section 11). Left: the slip desk
and the closing of the run in one module, which needs a smaller instance of
each.

## 3. PayrollRun

Each verb is cut where the code commits or leaves the process; what it has read
so far travels in `call[c]`.

| Code | Steps |
|---|---|
| `create_payroll_entry` | `CreateRun` |
| `add_salary_slip` | `BeginSlip` (draft check, pricing), `CommitSlip` (transaction) |
| `process_payroll_entry` | `SumSlips`, `MarkProcessed` (`WHERE status='draft'`) |
| `cancel_payroll_entry` | `Cancel`, `CancelAgain` (one transaction, row locked) |
| `post_payroll_entry`, processed run | `BeginPost`, `GroupDeductions`, `PostToLedger` or `RejectPosting`, `MarkPosted`, then `Publish` or `FailPublish`, or `FetchJournal` for who lost the claim |
| `post_payroll_entry`, posted run | `BeginRepost`, `Regroup`, `Publish` or `FailPublish` |
| `remit_payroll_entry` | `BeginRemit`, `GroupPayables`, `RemitOne` or `RefuseRemittance` |
| request dropped, process dead | `Crash`, between any two steps |

Money: a slip is priced once and immutable, so a stored sum is the set of slips
it adds up and `Net`, `Owed`, `Gross` give the amounts. Whether an envelope
balances and which accounts are payable is decided on amounts (`Balanced`,
`Payables`). Names, periods, dates and currencies are left out.

The ports are external and modelled from what the code relies on: the ledger
keeps one journal per idempotency key `payroll:{run}` and answers a repeated key
with it; the remittance sink keeps the first instruction per key
`payroll_remittance:{company}:{run}:{account}`; the event sink keeps what it got.

`CommitSlip` and `Cancel` are single steps although they are transactions of
several statements: the slip's foreign key to its run (migration 20260927110006)
makes an insert wait for a cancellation that holds the row, and the other way
round. That foreign key does not look at the status, which is why a slip can be
committed on a run that has left draft.

**`SalaryBook`** is what all this promises: a roster of slips is collected,
closed once, and that roster is what is booked, announced and remitted.
`PayrollRun!Book` instantiates it by a refinement mapping; `ImplementsBook` is a
property of run `run_serial`.

**`RunLife`** is what everybody else sees of runs, without the discipline below:
statuses and rosters, one committed statement a step, a late slip included.
`PayrollRun!Life` maps rows and slips to it; `ImplementsLife` is a property of
run `run_lifecycle`.

**Discipline.** `add_salary_slip` checks draft before its transaction and not
again, so the engine relies on its users not to process or cancel a run while
one of its slips is being added. `Undisturbed` states that, and `SerialSpec`
keeps it. What holds without it (`Spec`) and what only with it is separated in
the module.

**Fairness.** `WF(Continue(c))`: a handler that runs goes on. For a run that is
posted or processed, strong fairness of the steps of the post verb for that run:
a client that was not answered calls the verb again, which is what
`payroll_events.rs` asks of it ("at least once"), and neither crashes nor
refusals hit the same run every time. Strong and not weak, because another
caller's success, a crash or a refusal disables such a step again and again.
Nothing in the module retries by itself.

## 4. PaySchedule

| Code | Steps |
|---|---|
| the clock | `Tick` |
| `plan_change` | `BeginPlan` (validation, the statement that waits), `LockComponents` (it answers), `CheckRuns` (`runs_reached`), `WritePlan` (versions, baseline, due rows, commit) |
| `withdraw_change` | `BeginWithdraw` (date check), `Withdraw` (locks, deletion, commit) |
| `apply_due_changes` | `BeginPass` (what the `UPDATE` reads), `FinishPass` (what it writes when it has the locks) |
| `add_salary_slip` as the schedule sees it | `BeginSlip`, `CommitSlip` |
| `process`, `cancel` as the schedule sees them | `ProcessRun`, `CancelRun` |
| rollback, deadlock victim, lost connection | `Abort` |

The point of the module is READ COMMITTED. `lock_components` is one `SELECT ...
FOR UPDATE OF c` that also computes `has_versions` with a subquery. When it has
to wait, Postgres re-evaluates the row it waited for as the holder left it, but
the subquery on the other table still sees the snapshot of the statement's
start. So `row` is read at `WritePlan`, while `versioned` travels from
`BeginPlan`. The daily pass is one `UPDATE` with the same split: `pass` is its
join result from before the wait.

A component's amount, name, account and removal change together and are one
value, or `NotPaid`. One structure, one employee's slip per run. A plan that is
aborted, or refused, leaves nothing. Runs live by `RunLife` (`ImplementsLife`, a
theorem); posting is left out, because a change cannot tell a posted run from a
processed one.

**Discipline.** `Quiet`: changes are planned and withdrawn one at a time, no slip
is being added while one is written or withdrawn, and a change that reaches a
draft's slip is not withdrawn. `RunsWait`: from a plan's check (`CheckRuns`) to
its commit nobody processes a run it has found reached. Neither keeps a plan
from a run that is processed already: that is the refusal of `CheckRuns` alone,
which is what `FinalRunsKeepTheirReading` is about. A withdrawal looks at no runs, so the property exempts it: it may move what a
processed run reads. Only `EarlierPeriodsKept`, `FinalRunsKeepTheirReading` and
`StaleSlipsAreNamed` need the discipline; runs `racing_planners` and
`reaches_final_run` show that two of them do.

**Fairness.** A transaction that holds its locks goes on (WF); Postgres queues
waiters for a row lock in order, so a waiting pass gets through although planners
keep coming (SF of `FinishPass`, the only step that they can disable again); the
pass is scheduled daily, so it starts again while there is something to move
(WF).

## 5. CompensationInbox

| Code | Steps |
|---|---|
| employee module (external) | `AddEmployee`, `SetSalary` |
| relay (external) | `Deliver`, to any idle worker as long as nobody has answered; `Answer` |
| the read before the transaction (`starting_salary`; the other three consumers take the amount from the payload) | `Deliver`, as `Amount` |
| `inbox::once` | `Claim`, which waits while another transaction holds the key |
| `already_compensated`, `employee_exists`, refusal, warning | `Look` |
| `INSERT` and commit | `Commit` |
| process or answer lost | `Crash`, `Restart` |

One module for the four handlers, because they share the inbox and meet in
`compensation_changes`; `Kind` says which one takes an event, and `Row`, `Refused`
and `Warns` say where they differ. The three questions of a handler are read at
different moments: the salary before the transaction, the claim when the key is
free, the rows and the employee afterwards, each as committed by then. Nothing
locks the employee. A row is its amount; change types, dates, references and
notes are left out, except that an offboarding without a breakdown leaves zero
for review. Every consumer has its own name in the inbox, and each kind is
taken by one of them, so the key is the event.

**Fairness.** A handler that runs goes on (WF), the consumer registered before
creates a hire's employee in the end (`hire_compensation_handler.rs:141` relies
on it; WF), and from some time on no worker dies. The relay keeps delivering an
event until it is answered (SF of `Deliver`, which is disabled while both workers
are busy). This is an assumption on the relay: the migration of the inbox table
says that a delivery that keeps failing exhausts its retries, so a hire whose
employee comes later than that needs the "re-emit" its handler speaks of.

## 6. SlipDesk

`StatutoryCalcs` has the calculations, `StatutoryLaw` the tables and what each
loader makes of them, `SlipInputs` what the three ports make of other modules'
tables, `SlipPricing` the lines and sums of a slip. `SlipDesk` extends them all.

| Code | Steps |
|---|---|
| a request | `Begin`: a preview or a save |
| `build_computed_slip`: the run, draft | `ReadRun` |
| `resolve_as_of`, table by table | `ReadLaw`, five times |
| employee facts; structure total; clock | `ReadFacts`, `ReadBase`, `ReadClock` |
| `approved_overtime`, its two statements | `ReadApproval`, `ReadHours` |
| `compute_statutory` and the lines | `Assemble` |
| `add_salary_slip`: the run once more | `Recheck` (a save only) |
| `price_slip`: the structure once more | `Price`: a preview answers here |
| slip, lines and stamp in one transaction | `Insert` |
| others commit | `PublishLaw`, `ChangeStructure`, `Review`, `Dismiss`, `CorrectHours`, `CloseRun` |

A request carries what it has read (`req`); `since` lists what was committed
after it began, and `Disturbed` says whether any of it could have reached it: a
set of law dated after the period's first day cannot. `quoted` is the last
preview's answer as long as nothing has changed.

Numbers. Money is a whole number of the smallest unit the code keeps, a rate a
whole number over `RateUnit`; products are kept exactly as numerators, like the
code's `Decimal`, and rounded where the code calls `money()`. The one inexact
step is kept too: proration divides before it multiplies (`Part`), to
`PartUnit` parts instead of 10^28. Days and months are numbers. A set of law
published for a date is never changed (its primary key has the date), so the
two statements that read a table are one step. The BPJS rows come in no order
and each row overwrites the cap of its component; `Readings` gives every
configuration that may come out.

What the tables may hold is stated where it is declared. `RowsTyped` is what the
columns' types and checks admit under one date (a bracket's upper bound above its
lower, no negative rate, the known tiers and categories), `DeskAssumption` that a
behaviour starts from rows like that. What no constraint enforces is kept apart
and named: `LawIsSorted` (brackets and TER bands ascend, as
`statutory_calcs.rs:656`, `:744` ask), `HoursHaveOneBand` (no hour has two overtime
bands, `:298`), `OneCap` (both sides of a BPJS component are capped alike, as they
are seeded, migration 20260818100000) and `QuotientsSuffice` (an amount has fewer digits
than a quotient: 18 against 28). The model does without them; four theorems do
not, and the run evaluates them.

## 7. RunReads

`compare_runs` is six statements: `ReadHeader`, `ReadPrevious`, `ReadTotals`,
`ReadMovement`, `ReadComponents`, `ReadPeople`; without an earlier final run it
answers after the third. `Render` hands out a payslip of a posted run. Meanwhile
runs live on by the steps of `RunLife`: `OpenRun`, `AddSlip`, `Process`, `Post`,
`CancelDraft` and `CancelProcessed` (`PayrollRun` has those verbs whole; here
each is what a reader sees of it, a slip that lands on a run past draft and a
cancellation of the run compared with included). A slip is the sequence of its
lines (at least one: `price_slip` refuses a structure without components) and its
columns are their sums. `read` is the comparison in progress, `sinceRead` what
runs came to while it was read; its answer carries them as `since`. People are
ranked by the size of their change and then by id, and `Page` cuts the ranking as
`LIMIT` and `OFFSET` do. Hours are summed like pay and left out; the order of the
components is left out.

## 8. GeneratedRows

Seven entities are generated from one schema each, and each is described five
times: what the Create and Update DTOs take (`...Takes`), what responses show and
conversions copy (`...Dto`), what `new()`, its setters and `apply_patch` make
(`...Makes`), what the builder asks for (`...Builds`), and the row rules
(`...Rules`). A behaviour is one row of one entity behind one router: `Create`,
`PutRow`, `PatchRow`, `SoftDelete`, `Restore`, `Purge`, and `Tick`, which ends an
instant. `Mounted` says which endpoints a router has (`guarded`, `all`,
`readonly`). Slips, versions and compensation changes have a trail, from which
`RowAsOf` walks the row as it was, entry by entry (`Walked`).

Names. Responses are camelCase (`salary_slip_line_dto.rs:141`) and the Create and
Update DTOs take a column by that name or by its own, so what is shown can be sent
back by create and PUT. `apply_patch` matches the columns' own names and ignores
every other key (`salary_slip_line.rs:163`), so sent back as shown a PATCH writes
the columns of one word (`OneWord`), which both spell alike, and drops the rest.
Whether the generic handler of backbone-core respells keys before it calls
`apply_patch` cannot be seen here: `PatchRow` has both spellings and nothing in
between.

The trail. The history route reads `ORDER BY occurred_at, txid`
(`salary_slip_handler.rs:269`), and `txid` is text (`:251`): of two entries of one
instant, number 10 comes before number 9. An entry carries its instant and its
transaction, `TextPlace` is where the text of that transaction sorts, any order
at all, and the reader walks the entries as `Precedes` sorts them, not as they were
written. What `occurred_at` is, is up to the capture function of the audit module,
which is not in this repository; here it is the instant of the write.

A row is a function
on its columns, and one that is not there has none (`Gone`). A column's value is
one of its kind's few distinctions (a number is zero, one or negative; a text
short, blank or too long), and a request sends all columns but one, or a wrong
one. A row may be from before the rules (`Legacy`).

## 9. Runs

| Run | Shows | Instance |
|---|---|---|
| `run_lifecycle` | rows, ledger, answers, events and remittances stay consistent under every interleaving, refusal and crash; `RunLife` is implemented | 1 run, 2 employees, 2 accounts, 3 callers |
| `run_announced` | a posted run is announced in the end | 1 run, 2 employees, 1 account, 2 callers |
| `run_serial` | with the discipline: one story everywhere, `SalaryBook` is implemented, a processed run is posted or cancelled | 1 run, 2 employees, 2 accounts, 2 callers |
| `late_slip` | counterexample: a slip on a run that is not a draft | |
| `cancel_while_posting` | counterexample: a cancelled run with a journal | |
| `schedule_rows` | components stay accounted for, rows come back to the versions in force | 2 components, 2 amounts, 2 callers, 3 days |
| `schedule_quiet` | with the discipline: earlier periods, what processed runs read, stale slips | 1 run on the second of 3 days |
| `racing_planners` | counterexample: a changed amount recorded as the baseline of all earlier months | |
| `reaches_final_run` | counterexample: a processed run's structure changes | |
| `events_consumed` | one effect per event, no silent skip, every event consumed | 1 employee, 4 events, one of each kind, 2 workers |
| `second_initial_row` | counterexample: a hire and an onboarding both record an initial salary | the hire and the onboarding |
| `slips_reads_rows` | computed slips, comparison and payslips, generated rows; its properties are below | see below |

Why the bounds are enough. Three callers are a winner of the claim, a loser and
one that cancels, adds a slip or remits in between; two accounts let a
remittance stop half-way; of two employees one has deductions and one has none,
so late slips both unbalance an envelope and do not. Runs share nothing but the
callers, and `PayrollRunProofs` covers any number of them. In the schedule one
component exists from the start and one is added by a change, two amounts tell
old from new, three days give a past, a present and a future change; two
planners are what a race needs, and the pass is a third writer. Events of different employees
share nothing but the workers; two workers give a duplicate delivery and a
concurrent consumer. Nothing is
capped but the days (`LastDay`). Deadlock is checked in all of these runs: some
action is always enabled: requests can be begun again and salaries set at any time. In
`run_serial` and `schedule_quiet` the discipline is a conjunct of the next-state
relation, so TLC reports the relation as one action. The run of
`schedule_quiet` is of the second day, so that a change planned from that day reaches
it and one from the third does not; the code alone refuses the first once the run is
processed.

The properties of `slips_reads_rows`:

| Property | Says |
|---|---|
| `AllTyped` | every variable of the three parts has its type |
| `TaxIsPerUnit` | the tax withheld is what taxing the year's income unit by unit gives, or the base at the highest TER band it reaches; a fifth more without NPWP |
| `OvertimeIsPerHour` | each overtime line is the pay of its hours, hour by hour, each day on its own ladder and rounded for itself |
| `LawSeenWasInForce` | each part of the law a request goes by is one whole set, in force on the period's first day when it was read |
| `LoadedLawComputes` | what the loaders accept computes for every known tier and category |
| `SlipAddsUp` | gross, deductions and net are the sums of the lines, the net is not negative, earnings are prorated to within half a unit and deductions are not |
| `RunIsVouchedFor` | paid approved hours are vouched for by an approval of that employee; the run then has a stamp, of somebody with a slip in it |
| `UndisturbedSlipIsOneReading` | a slip that nothing disturbed is the slip the tables give together |
| `PreviewIsTheSlip` | while nothing changes a save writes what the preview showed |
| `ComparisonAddsUp` | joined less left is the difference of headcounts, the components move by the difference of gross and of deductions |
| `PagesCoverEveryone` | page after page, everyone of either run once, by size of change |
| `PreviousWasLatest` | the run compared with is of an earlier period, final unless it was cancelled while it was read, and the latest but for runs processed while it was read |
| `PayslipsStand` | a payslip handed out stays that of a posted run, with every line of its slip |
| `WritesAgree` | what is shown of a row makes the row again by create, by PUT over another row, by `new()` and builder, and by a PATCH under the columns' own names; a PATCH of it as shown moves the columns of one word only |
| `NothingSpoils` | no sequence of writes makes a number negative, a text too long or a name blank that was not so |
| `AsOfIsTheRow` | the row walked from the trail is the row as the instant ended, if of no instant so far two entries sort against the order they were written in |

Its instance. Slip desk: two employees (one with NPWP and clock hours, one
without and with approved hours), five worlds that differ in one thing each
(TER without NPWP; a family above the cap on children and a THR month; cut-off
days across two months with an override; an approval of a later month of the year),
four orders (unpaid days below zero, above the period and in between; a risk
class the law has no rate for), laws published before, on and after the first
day, a set with a gap, one that is incomplete for its table, overtime with
no second hour; `MaxCommits = 1`: one commit at every point of a request is what
tells a disturbed reading from an undisturbed one, and the proofs cover any
number. Requests follow one another, because two requests meet only in the
unique key and the stamp, where the later commit is a commit of the other's.
`MonthDays = 2`, `HoursPerMonth = 10`, `HourUnit = 2`, `RateUnit = 20`,
`PartUnit = 1000`: small enough to tax unit by unit, coarse enough that halves
and band edges come up. Comparison: two runs of one month and one of the next,
of which one may have yet to be opened, three people, pages of at most two,
`MaxMoves = 2` (a run processed and another cancelled between two statements). Generated rows: all seven entities under all three
routers, `MaxWrites = 2` (a row goes bad by one write after another, is
deleted and restored, deleted and purged) and two instants; the transactions are
numbers 9, 10 and 11, which as text sort as 10, 11, 9, so that two writes in one
instant come in either order. Deadlock is off in this run
alone: requests, commits and instants are bounded, so a part comes to its end.

## 10. What the counterexamples say

* **Late slip** (`late_slip`). `payroll.hook.yaml:88` says a slip is added only
  to a draft run. Consequences: the deductions grouped at post no longer match
  the totals stored at process, so the envelope is refused as unbalanced on
  every attempt, although ADR-001 says it balances by construction; if the slip
  lands after posting, a remittance regroups the lines and pays an amount the
  journal never credited (`payroll_remittance.rs:28` says "as grouped at post
  time"), and a repeated post publishes an event with other payables
  (`payroll.hook.yaml:39` says it publishes nothing new). `TotalsAreTheSlips`,
  `OneStory` and `ProcessedIsPosted` state these under the discipline.
* **Cancel while posting** (`cancel_while_posting`). The ledger is called before
  the row is claimed, so a cancellation in between leaves a journal of a
  cancelled run. `SalaryBook` therefore allows a voided run to be booked.
* **Racing planners** (`racing_planners`). Both plan the first change of an
  item; the second is told that there are no versions and upserts the baseline
  from the row, which the first has changed already.
* **Reaching a final run** (`reaches_final_run`). `runs_reached` is read without
  locking the runs, and `withdraw_change` does not look at them.

* **Second initial row** (`second_initial_row`). The onboarding looks for rows of
  the employee and then inserts, the hire inserts in between; their inbox keys
  differ, so neither waits. A hire delivered after the onboarding has the same
  result without a race, because only the onboarding looks.

Noted while modelling, without a run of their own: a withdrawal compares its
date with a `today` it read before it waited for locks, so at midnight it can
delete versions that have come into force (the rows then go back to the version
before, as `RowsFollow` shows); the comment at `pay_schedule_repository.rs:234` says a withdrawn
item was never paid, which is not so for a slip of a run opened ahead; the
comment over `cancel_payroll_entry` speaks of drafts only, the code and the
hook file also allow processed runs.

Noted about computed slips, comparison and rows, likewise without a run:

* The approval query (`timesheet_port.rs:79`) takes any later month of the
  window's first year, or an earlier one of its last; an approval of December
  vouches for hours of May.
* The loader of brackets looks at the first and the last row only, so a set with a
  gap passes and income in the gap is not taxed; rest-day bands are loaded and never
  used; one workday band is enough for the loader, and hours beyond it are
  refused slip by slip; a risk class without a rate is found out only then.
* The cap of a BPJS component is that of whichever of its rows comes last, of a
  query without an order.
* The same hours may be paid twice, off the clock and off the approved timesheet:
  the two legs are added and nothing compares them.
* The run's stamp is the approval of the slip that commits last.
* A preview answers for an employee who has a slip already; a save is refused.
* A payslip's document lists earnings in the table of deductions
  (`payroll_write_service.rs:917`); every line is there.
* A comparison read while runs change need not add up; `ComparisonAddsUp` is about
  the others.
* A PUT that leaves out a nullable column clears it; a PATCH ignores, without a word,
  a value it cannot decode.
* The guarded router mounts the generated endpoints of a salary structure, so one
  can be soft-deleted while slips and planned changes refer to it.
* Trail entries of one instant are walked in the order of their transaction ids as
  text. A row inserted by transaction 9 and updated by 10 in one instant is walked
  update first, and its row as of that instant is the inserted one; without its
  precondition TLC finds `AsOfIsTheRow` violated in two steps. The doc comment of
  the route (`salary_slip_handler.rs:211`) calls the image "at any instant ...
  reconstructible from the trail alone"; the positions it lists (`:233`) are numbered in
  the same order.
* What a reader is shown of a row, sent back by PATCH under the names it was shown,
  drops every column of two words without a word, unless the generic handler
  respells them.

## 11. Proofs

Every theorem holds for all values of the constants that the module's named
assumptions admit, of whatever size. Each is listed with the run's property it
states:

| Module | Theorems |
|---|---|
| `PayrollRunProofs` | `TypeOK` and the six invariants of `run_lifecycle`, `Lifecycle`, `ImplementsLife`; under the discipline `TotalsAreTheSlips`, `OneStory`, `ImplementsBook` |
| `PayScheduleProofs` | `TypeOK`, `RowsAccountedFor`, and that it implements `RunLife`; under the discipline `StaleSlipsAreNamed`, `EarlierPeriodsKept`, `FinalRunsKeepTheirReading` |
| `CompensationInboxProofs` | `TypeOK`, `OneEffect`, `SkipsAreVisible` |
| `SlipDeskProofs` | `LawSeenWasInForce`, `UndisturbedSlipIsOneReading`, `TypeOK`, `TaxIsPerUnit`, `OvertimeIsPerHour`, `LoadedLawComputes`, `SlipAddsUp`, `RunIsVouchedFor`, `PreviewIsTheSlip` |
| `RunReadsProofs` | `ReadTypeOK`, `PreviousWasLatest`, `PayslipsStand`, `ComparisonAddsUp`, `PagesCoverEveryone`; that others commit steps of `RunLife`, and may commit any of them |
| `GeneratedRowsProofs` | `RowTypeOK`, `WritesAgree`, `NothingSpoils`, `AsOfIsTheRow` |
| `SlipsReadsRowsProofs` | `AllTyped`, and all of the three parts' properties under the specification they are checked under |
| `FiniteSums` | lemmas only |

**`PayrollRunProofs`**, from `PayAssumption` and `NullAssumption`. None of the
invariants is inductive. `IInv` adds what callers carry
(`Carried`): once a run has left draft its totals and accounts are frozen, so
what was read of them is still true when it is used; who is about to mark a row
holds a journal of that run which the ledger has; who is about to publish is on
a posted row; who is about to store a sum has summed slips that are still there,
unless the run is not a draft any more and the claim will fail. Steps that write
no row are one lemma (`ReadingStep`), each writing step has its own case.
`SerialInv` adds, under `SerialSpec`, that what
a caller has read of the slips is still what the run holds (`UpToDate`), which
the discipline gives for a draft and the frozen status for the rest
(`FrozenStays`). For the refinement every step is mapped: a slip, the three
markings and what goes outside are steps of the book on one run, all others
stutter (`StepSeen`). For `RunLife` no discipline is needed, only `IInv`: that the
run a slip lands on has been opened, whatever it has come to since, and that who
marks a run processed has summed slips that are still there (`LifeOfCalls`).

**`PayScheduleProofs`**, from `ScheduleAssumption`. The
inductive invariant adds that what a planner or a pass remembers of
`has_versions` holds until it is used, unless the component is deleted
(`VersionedThen`), although it is read before the wait: versions of an existing
component never all go without the component going too, because a withdrawal
date is never the baseline's. `QuietInv` adds, under the discipline `Quiet`, that
with one planner at a time what it
read is still so when it writes: which components have versions, and that it
reaches no run but those it is going to name, none of them processed (`UpToDate`);
a slip being added was priced on what the structure still says. That none is
processed comes from the refusal of `CheckRuns` and from `RunsWait`, and gives
`FinalRunsKeepTheirReading` for `WritePlan`, the one step of a plan that writes. The argument is that a plan or a withdrawal moves
the reading of no day before its own date (`PlanReads`, `WithdrawReads`), the
daily pass that of none at all (`PassReads`). That the schedule implements `RunLife`
needs the types alone: a slip priced before a change commits and landing after
it, on whatever its run has come to, is still one slip more, and all that plans
and passes write is components.

**`CompensationInboxProofs`**, from `InboxAssumption`. The inductive invariant adds
that a transaction holds an event's claim alone and only while the event is not
claimed for good (`ClaimsExclude`); only `Claim`, `Look` and `Commit` need more
than the lemma that a step lets claims go (`OnlyLetsGo`). `SkipsAreVisible` follows
from an invariant of its own: a worker about to commit without a row carries an
excuse (`CarriesReason`), and an excuse lasts because no step takes back a row or
a warning.

**`SlipDeskProofs`**, from `DeskAssumption`. `DeskInv` has a part per statement: what
the request holds is, unless it is disturbed, what that statement would find now;
what it has worked out is worked out from what it holds. A commit either disturbs
(`OtherCommit`) or is a law (`LawCommit`), which replaces no set of its table and
disturbs if it is dated up to the first day. `SlipIsCurrent` puts the parts
together: undisturbed, each table's set is the last in force, and every table but
BPJS reads in one way.

It goes on from there in three layers. First the calculations,
for any law: the slices of ascending brackets are the units that lie in them, so
the progressive tax is the tax unit by unit; the band the TER walk stops at is the
highest one reached; whole and part hours are the units of the hours they fall in;
`Part` is within half a unit as long as a quotient's digits suffice. Then the invariant:
`PayInv` says what `DeskInv` leaves open, namely what the data are: the tables
keep their types whatever is committed, the hours a request holds are priceable,
its approval belongs to its employee, its tier and category compute, and every
slip on file was priced on some structure and stamped. Last the properties,
each a consequence. `PreviewIsTheSlip` needs one more, `QuoteInv`: what a preview
answered is, until something it read changes, the slip of the tables as they
stand, and with `OneCap` there is one such slip. Four theorems have a hypothesis
about the tables beyond `DeskAssumption`, each something the code's comments or the
column types say and nothing checks (section 6): `TaxByUnit` needs `LawIsSorted`,
`OvertimeByHour` needs `HoursHaveOneBand`, `PreviewSaved` needs `OneCap`, `SlipAdds` needs
`QuotientsSuffice`. Without the first three the code pays something else: unsorted
brackets are walked as they come, of two bands of an hour the first in order
counts, either cap may apply. Sets with a gap, incomplete ones and ones that
refuse later are within the hypotheses and within the instance.

**`RunReadsProofs`**, from `ReadsAssumption`. `ReadsInv` says of the
comparison in progress what the property says of an answer: a run that is final
stays final, and what becomes final is listed. `FiguresInv` adds that the figures of
a comparison nothing disturbed are what the tables still give. That they agree
is then a matter of one state: a person's gross is the sum over their lines,
lines grouped by component sum to the same (`SumByKey`), and who joined, left and
stayed are the two runs' people. For the pages, the ranking takes every person to
one place (`RankedIsOrder`) and the pages cut the places without overlap or rest
(`PagesPartition`), so sums over places are sums over people. What happens to runs meanwhile is
compared with `RunLife` both ways: `OthersOnlyLive` says that it allows every
such step, `LifeMayGoOn` that each of its steps which leaves the slips on file as
they are is one `RunReads` allows. The second is what makes the first of use: a
comparison that assumed too much of runs would satisfy `OthersOnlyLive` as well.
With `ImplementsLife` of `PayrollRun`, the theorems about comparisons and
payslips hold beside its verbs, whoever races whom.

**`GeneratedRowsProofs`**, from `RowsAssumption`. `RowInv`: a row that is there has in
every column a value the column admits. That the five descriptions agree is a
fact about the seven entities (`EntitiesAreRegular`), from which `WritesAgree` follows
for any such row. `NothingSpoils` is that a rule asked only of changed
columns lets no column change for the worse. For the trail, `TrailInv`: for every past instant
the entries up to it are the first few written, walked in the order they were
written they end with the row as that instant
ended (`Traced`), and every entry is of an instant so far (`WithinPast`). Entries of
different instants sort as they were written (`InstantsAscend`), those of one instant by
the property's precondition, so the place the query gives an entry is the one it has in
the trail and the walk is that one (`AsOfIsTheHistory`), for any `TextPlace`. A write appends an
entry of the current instant, so it leaves the earlier walks alone; the invariant
names the walk as a function along the trail, so that a step of the row is one
more value of that function and no induction is needed.

**`SlipsReadsRowsProofs`**, from the three assumptions of `MCSlipsReadsRows`, which
TLC evaluates. A step of the whole is a step of one part and a stutter of the
others (`PartsMove`), so a behaviour of the whole is one of each part
(`PartsStandAlone`), and the theorems about the parts, `DeskTypes`, `ReadsTypes` and
`RowTypes` among them, are theorems about what the run checks.

**`FiniteSums`**. The community modules define sums by recursive functions over
subsets that a CHOOSE picks from. The library's induction theorems cannot be
instantiated here, but its well-foundedness theorems can: a statement that
failed would fail at a smallest subset or a least number (`SmallestSubset`,
`LeastNumber`). From that: a sum exists (`WalkExists`), does not depend on the
order (`SumWithout`), is linear, splits and regroups by key, is kept by a
renaming, and along a sequence is the sum of its parts; a bounded set of numbers
has a greatest.

Only model-checked: the liveness properties (`PostedIsAnnounced`,
`ProcessedIsPosted`, `RowsFollow`, `AllConsumed`), because fairness and ENABLED are out of
the prover's reach. The counterexamples of section 10 are TLC's by nature.

## 12. Not modelled

* The generated CRUD of a run, a slip, a line or a component writes rows without
  the lifecycle's verbs; ADR-001 parks that. `GeneratedRows` has those endpoints,
  `PayrollRun` and `PaySchedule` are of a host that does not mount them for runs,
  slips and lines (the guarded router does not).
* Command routes decode, authorise and call one verb each; permissions and the
  wording of errors are left out. So are the lists' paging, filters and sorting.
* The document itself (`payslip_pdf.rs`): rows, columns, fonts, number formats.
* Repository traits, exported types, module wiring and empty event handlers have no
  behaviour of their own; sample data and default law are data.
* Tenancy policies and the audit triggers beyond the entry they write. The unique
  index on (run, employee), the foreign key of slips and the check constraints
  are in the actions' guards.
* Ids, actors, timestamps other than deletion, notes and reasons: no verb decides
  anything on them.
* `create_structure` is one transaction; `PaySchedule` starts from what it leaves.
* In the consumers: payloads that cannot be read and events without a scope,
  which are refused every time.
