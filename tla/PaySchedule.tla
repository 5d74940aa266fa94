----------------------------- MODULE PaySchedule ------------------------------
(*****************************************************************************)
(* Changing a salary structure from a date.  Planners and withdrawers of one *)
(* structure take the row locks of its components and wait for each other;   *)
(* slips read the structure without a lock, and the daily pass brings the    *)
(* component rows up to the versions in force.                               *)
(*                                                                           *)
(* Postgres runs these transactions READ COMMITTED.  A statement that waits  *)
(* for a row lock goes on with the row as its holder left it, but everything *)
(* else it read is from before the wait: that is call[c].versioned for       *)
(* lock_components and pass for apply_due.                                   *)
(*                                                                           *)
(* A day is a number, 0 the baseline of 1900-01-01.  What a component says   *)
(* is one value: an amount, or that it is not paid (removed, soft-deleted).  *)
(*****************************************************************************)
EXTENDS Integers, FiniteSetsExt, Functions

CONSTANTS Items,    \* component ids of the structure, those to come included
          Amounts,  \* what a component may pay
          Created,  \* Created[i]: the component as create_structure left it
          Runs,     \* payroll runs
          Start,    \* Start[r]: the first day of r's period
          Callers,  \* concurrent requests
          Offers,   \* the changes callers plan: <<from, what it sets>>
          LastDay   \* the bound on days

NotPaid == "not paid"
Unborn == "unborn"    \* an id no component has had yet
Gone == "gone"        \* the component was deleted
Pay == Amounts \cup {NotPaid}
Baseline == 0
Empty == [x \in {} |-> NotPaid]
Days == 1..LastDay
Change == UNION {[S -> Pay] : S \in SUBSET Items \ {{}}}

ASSUME ScheduleAssumption ==
  /\ LastDay \in Nat \ {0}
  /\ Amounts \cap {NotPaid, Unborn, Gone} = {}
  /\ Created \in [Items -> Pay \cup {Unborn}]
  /\ Start \in [Runs -> Days]
  /\ Offers \subseteq Days \X Change

VARIABLES
  today,     \* the date the service reads off its clock
  row,       \* salary_components: what each says
  versions,  \* salary_component_versions: per component, from date to value
  status,    \* payroll_entries: status of each run
  slip,      \* the slip a run holds on the structure, as it was priced
  named,     \* runs some plan answered with in draft_runs_to_redo
  pass,      \* the daily pass waiting for row locks: the rows it will move
  call       \* where each caller is, with what it has read

vars == <<today, row, versions, status, slip, named, pass, call>>

Idle == [at |-> "idle"]

Call ==
       {Idle}
  \cup [at : {"plan", "check"}, from : Days, sets : Change, today : Days,
        versioned : SUBSET Items]
  \cup [at : {"write"}, from : Days, sets : Change, today : Days,
        versioned : SUBSET Items, reached : SUBSET Runs]
  \cup [at : {"withdraw"}, from : Days]
  \cup [at : {"slip"}, run : Runs, priced : [Items -> Pay]]

\* What a component says from which date on, and what the pass will write.
Versions == UNION {[D -> Pay] : D \in SUBSET (0..LastDay)}
DueRows == UNION {[S -> Pay] : S \in SUBSET Items}

TypeOK ==
  /\ today \in Days
  /\ row \in [Items -> Pay \cup {Unborn, Gone}]
  /\ versions \in [Items -> Versions]
  /\ status \in [Runs -> {"draft", "processed", "cancelled"}]
  /\ slip \in UNION {[R -> [Items -> Pay]] : R \in SUBSET Runs}
  /\ named \subseteq Runs
  /\ pass \in DueRows
  /\ call \in [Callers -> Call]

Init ==
  /\ today = 1
  /\ row = Created
  /\ versions = [i \in Items |-> Empty]
  /\ status = [r \in Runs |-> "draft"]
  /\ slip = Empty
  /\ named = {}
  /\ pass = Empty
  /\ call = [c \in Callers |-> Idle]

Goto(c, step) == call' = [call EXCEPT ![c] = step]
Return(c) == Goto(c, Idle)
At(c, label) == call[c].at = label

-------------------------------------------------------------------------------
\* Plausible errors in the definitions below, put in their place by the
\* mutation runs only.
NoBaseline(i, versioned) == FALSE
BaselineOfNew(i, versioned) == i \notin versioned
AnyRuns(runs) == TRUE
AnyItem(from) == {}
AfterOnly(from) ==
  {r \in DOMAIN slip : status[r] # "cancelled" /\ Start[r] > from}
OnTheDay(vs, d) == [i \in {j \in Items : d \in DOMAIN vs[j]} |-> vs[i][d]]

-------------------------------------------------------------------------------
(* Reading the structure *)

Exists(i) == row[i] \in Pay
HasVersions(i) == DOMAIN versions[i] # {}

\* Dates of f that have come by day d, and what f says on d.
DatesUpTo(f, d) == {x \in DOMAIN f : x <= d}
InForce(f, d) ==
  IF DatesUpTo(f, d) = {} THEN NotPaid ELSE f[Max(DatesUpTo(f, d))]

\* list_by_structure for one component: its versions if it has any, else its row.
AsOf(i, d) ==
  IF HasVersions(i) THEN InForce(versions[i], d)
  ELSE IF Exists(i) THEN row[i] ELSE NotPaid

Reading(d) == [i \in Items |-> AsOf(i, d)]

\* runs_reached: runs not cancelled, from the date on, with a slip on it.
Reached(from) ==
  {r \in DOMAIN slip : status[r] # "cancelled" /\ Start[r] >= from}

\* The rows apply_due would move on a day, and to what.
Due(vs, d) ==
  [i \in {j \in Items : DatesUpTo(vs[j], d) # {}} |-> InForce(vs[i], d)]
Moved(rows, due) == Restrict(due, {i \in DOMAIN due : rows[i] # due[i]})
Apply(rows, due) ==
  [i \in Items |->
     IF i \in DOMAIN due /\ rows[i] \in Pay THEN due[i] ELSE rows[i]]

\* INSERT ... ON CONFLICT (component_id, effective_from) DO UPDATE.
Upsert(f, d, value) ==
  [x \in DOMAIN f \cup {d} |-> IF x = d THEN value ELSE f[x]]

-------------------------------------------------------------------------------
(* The clock *)

Tick ==
  /\ today < LastDay
  /\ today' = today + 1
  /\ UNCHANGED <<row, versions, status, slip, named, pass, call>>

-------------------------------------------------------------------------------
(* Planning a change *)

\* A planner or a withdrawer holds the row locks of the structure.
Locked == \E c \in Callers : call[c].at \in {"check", "write"}

\* A new item gets a uuid of its own.
Fresh(i) ==
  /\ row[i] = Unborn
  /\ \A c \in Callers :
       call[c].at \in {"plan", "check", "write"} => i \notin DOMAIN call[c].sets

\* plan_change, up to the statement that waits for the locks; has_versions is
\* read as of its start. Only an item that exists can be removed.
BeginPlan(c, from, sets) ==
  /\ At(c, "idle")
  /\ \A i \in DOMAIN sets : Exists(i) \/ (Fresh(i) /\ sets[i] # NotPaid)
  /\ Goto(c, [at |-> "plan", from |-> from, sets |-> sets, today |-> today,
              versioned |-> {i \in Items : HasVersions(i)}])
  /\ UNCHANGED <<today, row, versions, status, slip, named, pass>>

\* lock_components answers.
LockComponents(c) ==
  /\ At(c, "plan")
  /\ ~Locked
  /\ Goto(c, [call[c] EXCEPT !.at = "check"])
  /\ UNCHANGED <<today, row, versions, status, slip, named, pass>>

\* A change that reaches a run past draft is refused.
MayReach(runs) == \A r \in runs : status[r] = "draft"

CheckRuns(c) ==
  LET reached == Reached(call[c].from) IN
  /\ At(c, "check")
  /\ IF MayReach(reached)
       THEN Goto(c, [at |-> "write", from |-> call[c].from,
                     sets |-> call[c].sets, today |-> call[c].today,
                     versioned |-> call[c].versioned, reached |-> reached])
       ELSE Return(c)
  /\ UNCHANGED <<today, row, versions, status, slip, named, pass>>

\* An existing item without versions gets its row as baseline first.
NeedsBaseline(i, versioned) == i \notin versioned /\ row[i] # Unborn

\* An item that is gone, or was removed without versions, cannot be changed.
Refused(i, versioned) ==
  row[i] = Gone \/ (i \notin versioned /\ row[i] = NotPaid)

\* A new item gets a row that is not paid until its date ...
Inserted(sets) ==
  [i \in Items |->
     IF i \in DOMAIN sets /\ row[i] = Unborn THEN NotPaid ELSE row[i]]

\* ... and every item changed a version of that date.
Planned(from, sets, versioned) ==
  LET known(i) == IF NeedsBaseline(i, versioned)
                    THEN Upsert(versions[i], Baseline, row[i])
                    ELSE versions[i]
  IN  [i \in Items |-> IF i \in DOMAIN sets THEN Upsert(known(i), from, sets[i])
                       ELSE versions[i]]

\* The versions are written, in-force ones applied, and all of it committed.
WritePlan(c) ==
  LET p == call[c] IN
  /\ At(c, "write")
  /\ IF \E i \in DOMAIN p.sets : Refused(i, p.versioned)
       THEN UNCHANGED <<row, versions, named>>
       ELSE /\ versions' = Planned(p.from, p.sets, p.versioned)
            /\ row' = IF p.from <= p.today
                        THEN Apply(Inserted(p.sets), Due(versions', p.today))
                        ELSE Inserted(p.sets)
            /\ named' = named \cup p.reached
  /\ Return(c)
  /\ UNCHANGED <<today, status, slip, pass>>

-------------------------------------------------------------------------------
(* Withdrawing one, and the daily pass *)

BeginWithdraw(c, from) ==
  /\ At(c, "idle")
  /\ from > today
  /\ Goto(c, [at |-> "withdraw", from |-> from])
  /\ UNCHANGED <<today, row, versions, status, slip, named, pass>>

\* Components cancel_planned deletes: all their versions start on that date.
OnlyPlanned(from) == {i \in Items : DOMAIN versions[i] = {from}}

\* With the locks held, the versions of that date go.
Withdraw(c) ==
  LET from == call[c].from IN
  /\ At(c, "withdraw")
  /\ ~Locked
  /\ versions' = [i \in Items |->
                    Restrict(versions[i], DOMAIN versions[i] \ {from})]
  /\ row' = [i \in Items |-> IF i \in OnlyPlanned(from) THEN Gone ELSE row[i]]
  /\ Return(c)
  /\ UNCHANGED <<today, status, slip, named, pass>>

\* apply_due_changes: one statement, which looks for the rows to move ...
BeginPass ==
  /\ pass = Empty
  /\ Moved(row, Due(versions, today)) # Empty
  /\ pass' = Moved(row, Due(versions, today))
  /\ UNCHANGED <<today, row, versions, status, slip, named, call>>

\* ... and moves them when it has their locks.
FinishPass ==
  /\ pass # Empty
  /\ ~Locked
  /\ row' = Apply(row, pass)
  /\ pass' = Empty
  /\ UNCHANGED <<today, versions, status, slip, named, call>>

-------------------------------------------------------------------------------
(* Slips and runs, as far as the schedule sees them *)

\* add_salary_slip: the draft check and price_slip's read of the structure ...
BeginSlip(c, r) ==
  /\ At(c, "idle")
  /\ status[r] = "draft"
  /\ \E i \in Items : AsOf(i, Start[r]) # NotPaid
  /\ Goto(c, [at |-> "slip", run |-> r, priced |-> Reading(Start[r])])
  /\ UNCHANGED <<today, row, versions, status, slip, named, pass>>

\* ... and the insert, one slip of the employee per run.
CommitSlip(c, r) ==
  /\ At(c, "slip") /\ call[c].run = r
  /\ slip' = IF r \in DOMAIN slip THEN slip
             ELSE [q \in DOMAIN slip \cup {r} |->
                     IF q = r THEN call[c].priced ELSE slip[q]]
  /\ Return(c)
  /\ UNCHANGED <<today, row, versions, status, named, pass>>

ProcessRun(r) ==
  /\ status[r] = "draft"
  /\ r \in DOMAIN slip
  /\ status' = [status EXCEPT ![r] = "processed"]
  /\ UNCHANGED <<today, row, versions, slip, named, pass, call>>

CancelRun(r) ==
  /\ status[r] \in {"draft", "processed"}
  /\ status' = [status EXCEPT ![r] = "cancelled"]
  /\ slip' = IF status[r] = "draft"
               THEN Restrict(slip, DOMAIN slip \ {r}) ELSE slip
  /\ UNCHANGED <<today, row, versions, named, pass, call>>

\* A transaction that ends without committing (an error, a deadlock victim,
\* a lost connection) leaves nothing.
Abort(c) ==
  /\ ~At(c, "idle")
  /\ Return(c)
  /\ UNCHANGED <<today, row, versions, status, slip, named, pass>>

-------------------------------------------------------------------------------
Continue(c) ==
  \/ LockComponents(c)
  \/ CheckRuns(c)
  \/ WritePlan(c)
  \/ Withdraw(c)

Next ==
  \/ Tick
  \/ BeginPass \/ FinishPass
  \/ \E c \in Callers :
       \/ \E o \in Offers : BeginPlan(c, o[1], o[2])
       \/ \E from \in Days : BeginWithdraw(c, from)
       \/ \E r \in Runs : BeginSlip(c, r) \/ CommitSlip(c, r)
       \/ Continue(c)
       \/ Abort(c)
  \/ \E r \in Runs : ProcessRun(r) \/ CancelRun(r)

Spec == Init /\ [][Next]_vars

-------------------------------------------------------------------------------
(* Fairness.  A transaction that has its locks goes on, and Postgres grants  *)
(* row locks in the order they were asked for, so a pass gets them; the      *)
(* daily pass is run whenever there is something to move.                    *)
FairSpec ==
  /\ Spec
  /\ \A c \in Callers : WF_vars(Continue(c))
  /\ WF_vars(BeginPass) /\ SF_vars(FinishPass)

(* Discipline of use, for what the row locks do not cover.                   *)

\* Changes of a structure are planned and withdrawn one at a time.
OnePlanner ==
  \A b, c \in Callers :
    /\ call[b].at \in {"plan", "check", "write", "withdraw"}
    /\ call[c].at \in {"plan", "check", "write", "withdraw"}
    => b = c

\* While a change is written or withdrawn no slip is being added; a change that
\* reaches the slips of a draft is not withdrawn.
Quiet ==
  /\ OnePlanner
  /\ \A b, c \in Callers :
       ~(call[b].at \in {"write", "withdraw"} /\ At(c, "slip"))
  /\ \A c \in Callers : At(c, "withdraw") =>
       \A r \in Reached(call[c].from) : status[r] # "draft"

\* Between the look at the runs a change reaches and its commit nobody
\* processes one of them.
RunsWait ==
  \A c \in Callers : At(c, "write") =>
    \A r \in call[c].reached :
      status'[r] = "processed" => status[r] = "processed"

QuietSpec == Init /\ [][Next /\ Quiet' /\ RunsWait]_vars

-------------------------------------------------------------------------------
(* Properties of every interleaving (Spec)                                   *)

\* A component that was there before its first dated change carries a baseline
\* once it has versions, so no earlier month loses it; one without versions is
\* still what create_structure made it; one that a change added has versions,
\* and one that was deleted has none.
RowsAccountedFor ==
  \A i \in Items :
    /\ HasVersions(i) => Exists(i) /\
         (Created[i] # Unborn => Baseline \in DOMAIN versions[i])
    /\ Exists(i) /\ ~HasVersions(i) => row[i] = Created[i]

\* The rows come back to what is in force today, whatever planners, stale
\* passes and withdrawals interleave.
RowsFollow ==
  []<>(\A i \in Items :
         HasVersions(i) /\ DatesUpTo(versions[i], today) # {} =>
           row[i] = InForce(versions[i], today))

\* The runs here, of one employee each, live as runs do.  Posting is left out:
\* a change cannot tell a posted run from a processed one.
Life == INSTANCE RunLife WITH
  People <- {"employee"},
  roster <- [r \in Runs |-> IF r \in DOMAIN slip THEN {"employee"} ELSE {}]

ImplementsLife == Life!Spec

-------------------------------------------------------------------------------
(* Properties that need the discipline (QuietSpec)                           *)

\* A period reads a component differently only if a version dated in or before
\* it was written or withdrawn: recording the baseline, a later change and the
\* daily pass leave it alone.
EarlierPeriodsKept ==
  [][\A i \in Items, d \in Days :
       (\A x \in 1..d :
          /\ x \in DOMAIN versions'[i] <=> x \in DOMAIN versions[i]
          /\ x \in DOMAIN versions[i] => versions'[i][x] = versions[i][x])
       => AsOf(i, d)' = AsOf(i, d)]_vars

\* hook.yaml:144 (PAY-CHANGE-RUNS): what a processed run reads of the structure
\* its slips are on is not changed by a plan, the daily pass or a run's own life;
\* a withdrawal, which never asks for runs, is all that may change it.
FinalRunsKeepTheirReading ==
  [][\A r \in Runs :
       status[r] = "processed" /\ Reading(Start[r])' # Reading(Start[r])
         => \E c \in Callers : Withdraw(c)]_vars

\* A draft's slip that the structure has moved away from was named to whoever
\* planned the change.
StaleSlipsAreNamed ==
  \A r \in DOMAIN slip :
    status[r] = "draft" /\ slip[r] # Reading(Start[r]) => r \in named

===============================================================================
