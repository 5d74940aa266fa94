------------------------------ MODULE PayrollRun ------------------------------
(*****************************************************************************)
(* The life of payroll runs under concurrent callers: PayrollWriteService's  *)
(* verbs on a run (create, add slip, process, cancel, post, remit) and the   *)
(* three systems a posting reaches: the general ledger, the consumers of     *)
(* PayrollPosted and the remittance adapter.                                 *)
(*                                                                           *)
(* Every verb is a sequence of separately committed SQL statements and port  *)
(* calls, so every one of those is a step here, and the steps of different   *)
(* callers interleave.  What a verb read earlier travels in call[c].  A verb *)
(* that is one transaction (commit of a slip, cancel) is one step.           *)
(*                                                                           *)
(* Money.  An employee's slip is priced once and immutable, so it is known   *)
(* by its employee, and a stored sum is the set of the slips it adds up: the *)
(* amounts are Gross, Net and Owed of that set.                              *)
(*****************************************************************************)
EXTENDS Integers, FiniteSets, FiniteSetsExt

CONSTANTS Runs,       \* payroll run ids
          Employees,  \* who may have a slip in a run
          Accounts,   \* the payable accounts deduction lines are booked to
          Callers,    \* concurrent requests, or workers, using the service
          NetPay,     \* NetPay[e]: the net pay of e's slip
          Deduction,  \* Deduction[e][a]: the deduction lines of e's slip on a
          NoJournal   \* the NULL of payroll_entries.journal_id

ASSUME PayAssumption ==
  /\ NetPay \in [Employees -> Nat]
  /\ Deduction \in [Employees -> [Accounts -> Nat]]

VARIABLES
  run,        \* payroll_entries: the rows
  slips,      \* salary_slips with their lines: whose slips each run holds
  ledger,     \* the journals the GL holds (external)
  published,  \* the PayrollPosted events that reached the sink (external)
  paid,       \* the remittance instructions the sink accepted (external)
  call,       \* where each caller is inside a verb, with what it has read
  answered    \* the journals callers were told their run was posted under

vars == <<run, slips, ledger, published, paid, call, answered>>
rows == <<run, slips>>
outside == <<ledger, published, paid>>

-------------------------------------------------------------------------------
(* Amounts *)

Net(S) == MapThenSumSet(LAMBDA e : NetPay[e], S)
Owed(S, a) == MapThenSumSet(LAMBDA e : Deduction[e][a], S)
Deductions(S) == MapThenSumSet(LAMBDA a : Owed(S, a), Accounts)
Gross(S) == Net(S) + Deductions(S)

-------------------------------------------------------------------------------
(* State *)

Status == {"absent", "draft", "processed", "posted", "cancelled"}

Journal == [run : Runs, summed : SUBSET Employees, grouped : SUBSET Employees]

ASSUME NullAssumption == NoJournal \notin Journal

RunRow ==
  [status   : Status,
   accounts : BOOLEAN,             \* both control accounts are set
   summed   : SUBSET Employees,    \* total_gross, total_deductions, total_net
   journal  : Journal \cup {NoJournal}]

Event ==
  [run : Runs, journal : Journal,
   summed : SUBSET Employees, grouped : SUBSET Employees]

Remittance == [run : Runs, account : Accounts, grouped : SUBSET Employees]

Idle == [at |-> "idle"]

Call ==
       {Idle}
  \cup [at : {"slip"}, run : Runs, slip : Employees]
  \cup [at : {"process"}, run : Runs, summed : SUBSET Employees]
  \cup [at : {"group"}, run : Runs, summed : SUBSET Employees]
  \cup [at : {"post"}, run : Runs, summed : SUBSET Employees,
        grouped : SUBSET Employees]
  \cup [at : {"mark"}, journal : Journal, run : Runs,
        summed : SUBSET Employees, grouped : SUBSET Employees]
  \cup [at : {"fetch"}, run : Runs]
  \cup [at : {"regroup"}, journal : Journal, run : Runs,
        summed : SUBSET Employees]
  \cup [at : {"publish"}, journal : Journal, run : Runs,
        summed : SUBSET Employees, grouped : SUBSET Employees]
  \cup [at : {"payables"}, run : Runs]
  \cup [at : {"remit"}, run : Runs, grouped : SUBSET Employees,
        due : SUBSET Accounts]

TypeOK ==
  /\ run \in [Runs -> RunRow]
  /\ slips \in [Runs -> SUBSET Employees]
  /\ ledger \subseteq Journal
  /\ published \subseteq Event
  /\ paid \subseteq Remittance
  /\ call \in [Callers -> Call]
  /\ answered \subseteq [run : Runs, journal : Journal]

Init ==
  /\ run = [r \in Runs |-> [status |-> "absent", accounts |-> FALSE,
                            summed |-> {}, journal |-> NoJournal]]
  /\ slips = [r \in Runs |-> {}]
  /\ ledger = {}
  /\ published = {}
  /\ paid = {}
  /\ call = [c \in Callers |-> Idle]
  /\ answered = {}

Goto(c, step) == call' = [call EXCEPT ![c] = step]
Return(c) == Goto(c, Idle)
At(c, label) == call[c].at = label

-------------------------------------------------------------------------------
(* What the code asks before it writes, one operator per question            *)

\* Plausible errors in the answers below, and in BeginRepost, put in their
\* place by the mutation runs only.
AnyRow(r) == run[r].status # "absent"
NoCheck(r) == TRUE
NetLineForgotten(summed, grouped) == Gross(summed) = Deductions(grouped)
NoKey(r, summed) == {}
RecordedOrNull(r) == {run[r].journal}
KeyWithAmount(r, a, S) ==
  \E p \in paid : p.run = r /\ p.account = a /\ p.grouped = S
AnsweredWithoutEvent(c, r) ==
  /\ At(c, "idle")
  /\ run[r].status = "posted"
  /\ answered' = answered \cup {[run |-> r, journal |-> run[r].journal]}
  /\ UNCHANGED <<rows, outside, call>>

\* WHERE status = 'draft' of mark_processed.
MayMarkProcessed(r) == run[r].status = "draft"

\* WHERE status = 'processed' of mark_posted.
MayMarkPosted(r) == run[r].status = "processed"

\* The match on the locked status in cancel_payroll_entry ...
MayCancel(r) == run[r].status \in {"draft", "processed"}

\* ... of which only the draft arm deletes the slips.
CancelDropsSlips(r) == run[r].status = "draft"

\* The two control accounts, both needed for an envelope.
HasAccounts(r) == run[r].accounts

\* Dr gross and Cr net of the run's totals, Cr each grouped deduction: the two
\* sides come from reads made at different times.
Balanced(summed, grouped) ==
  Gross(summed) = Net(summed) + Deductions(grouped)

\* Accounts whose grouped amount is positive: the others get no line.
Payables(grouped) == {a \in Accounts : Owed(grouped, a) > 0}

\* The journals the ledger holds under the key payroll:{run}.
JournalsOf(r, summed) == {j \in ledger : j.run = r}

\* fetch_journal_id: a NULL does not decode, so the caller gets an error.
Recorded(r) == {run[r].journal} \ {NoJournal}

\* The sink has seen the key payroll_remittance:{company}:{run}:{account}.
AlreadySent(r, a, S) == \E p \in paid : p.run = r /\ p.account = a

-------------------------------------------------------------------------------
(* Opening a run and adding slips *)

\* create_payroll_entry; the control accounts are optional columns.
CreateRun(r) ==
  /\ run[r].status = "absent"
  /\ \E set \in BOOLEAN :
       run' = [run EXCEPT ![r].status = "draft", ![r].accounts = set]
  /\ UNCHANGED <<slips, outside, call, answered>>

\* add_salary_slip, up to its transaction: the draft check and the pricing.
BeginSlip(c, r, e) ==
  /\ At(c, "idle")
  /\ run[r].status = "draft"
  /\ Goto(c, [at |-> "slip", run |-> r, slip |-> e])
  /\ UNCHANGED <<rows, outside, answered>>

\* Its transaction. The status is not read again; only the unique index on
\* (run, employee) can refuse the insert.
CommitSlip(c) ==
  /\ At(c, "slip")
  /\ slips' = [slips EXCEPT ![call[c].run] = @ \cup {call[c].slip}]
  /\ Return(c)
  /\ UNCHANGED <<run, outside, answered>>

-------------------------------------------------------------------------------
(* Processing and cancelling *)

\* process_payroll_entry sums the live slips in a statement of its own ...
SumSlips(c, r) ==
  /\ At(c, "idle")
  /\ slips[r] # {}
  /\ Goto(c, [at |-> "process", run |-> r, summed |-> slips[r]])
  /\ UNCHANGED <<rows, outside, answered>>

\* ... and stores that sum in another, gated on draft.
MarkProcessed(c) ==
  LET r == call[c].run IN
  /\ At(c, "process")
  /\ \/ /\ MayMarkProcessed(r)
        /\ run' = [run EXCEPT ![r].status = "processed",
                              ![r].summed = call[c].summed]
     \/ /\ ~MayMarkProcessed(r)
        /\ UNCHANGED run
  /\ Return(c)
  /\ UNCHANGED <<slips, outside, answered>>

\* cancel_payroll_entry is one transaction that holds the run row FOR UPDATE;
\* a slip insert waits for it on the foreign key, so it is one step.
Cancel(r) ==
  /\ MayCancel(r)
  /\ run' = [run EXCEPT ![r].status = "cancelled"]
  /\ slips' = IF CancelDropsSlips(r) THEN [slips EXCEPT ![r] = {}] ELSE slips
  /\ UNCHANGED <<outside, call, answered>>

\* Cancelling a cancelled run again is answered with FALSE, not refused.
CancelAgain(r) ==
  /\ run[r].status = "cancelled"
  /\ UNCHANGED vars

-------------------------------------------------------------------------------
(* Posting *)

\* post_payroll_entry reads the run. A processed run is to be posted; a posted
\* one only has its event published again.
BeginPost(c, r) ==
  /\ At(c, "idle")
  /\ run[r].status = "processed"
  /\ HasAccounts(r)
  /\ Goto(c, [at |-> "group", run |-> r, summed |-> run[r].summed])
  /\ UNCHANGED <<rows, outside, answered>>

BeginRepost(c, r) ==
  /\ At(c, "idle")
  /\ run[r].status = "posted"
  /\ run[r].journal # NoJournal
  /\ Goto(c, [at |-> "regroup", run |-> r, summed |-> run[r].summed,
              journal |-> run[r].journal])
  /\ UNCHANGED <<rows, outside, answered>>

\* The deduction lines are grouped in a second read; the envelope mixes both.
GroupDeductions(c) ==
  LET r == call[c].run IN
  /\ At(c, "group")
  /\ \/ /\ Balanced(call[c].summed, slips[r])
        /\ Goto(c, [at |-> "post", run |-> r, summed |-> call[c].summed,
                    grouped |-> slips[r]])
     \/ /\ ~Balanced(call[c].summed, slips[r])
        /\ Return(c)
  /\ UNCHANGED <<rows, outside, answered>>

\* The sink posts the envelope, or answers with the journal its key names.
PostToLedger(c) ==
  LET r == call[c].run
      mine == [run |-> r, summed |-> call[c].summed,
               grouped |-> call[c].grouped]
      known == JournalsOf(r, call[c].summed)
  IN
  /\ At(c, "post")
  /\ \E j \in (IF known = {} THEN {mine} ELSE known) :
       /\ ledger' = ledger \cup {j}
       /\ Goto(c, [at |-> "mark", run |-> r, summed |-> call[c].summed,
                   grouped |-> call[c].grouped, journal |-> j])
  /\ UNCHANGED <<rows, published, paid, answered>>

\* The sink refuses the envelope (GlRejected): the run stays processed.
RejectPosting(c) ==
  /\ At(c, "post")
  /\ Return(c)
  /\ UNCHANGED <<rows, outside, answered>>

\* mark_posted claims processed -> posted, or finds the claim lost.
MarkPosted(c) ==
  LET r == call[c].run IN
  /\ At(c, "mark")
  /\ \/ /\ MayMarkPosted(r)
        /\ run' = [run EXCEPT ![r].status = "posted",
                              ![r].journal = call[c].journal]
        /\ Goto(c, [call[c] EXCEPT !.at = "publish"])
     \/ /\ ~MayMarkPosted(r)
        /\ Goto(c, [at |-> "fetch", run |-> r])
        /\ UNCHANGED run
  /\ UNCHANGED <<slips, outside, answered>>

\* The loser answers with the journal on the row; a NULL there is an error.
FetchJournal(c) ==
  LET r == call[c].run IN
  /\ At(c, "fetch")
  /\ answered' = answered \cup
       {[run |-> r, journal |-> j] : j \in Recorded(r)}
  /\ Return(c)
  /\ UNCHANGED <<rows, outside>>

\* payables_for_run, for the event of a run that is posted already.
Regroup(c) ==
  /\ At(c, "regroup")
  /\ Goto(c, [at |-> "publish", run |-> call[c].run,
              summed |-> call[c].summed, grouped |-> slips[call[c].run],
              journal |-> call[c].journal])
  /\ UNCHANGED <<rows, outside, answered>>

Publish(c) ==
  /\ At(c, "publish")
  /\ published' = published \cup
       {[run |-> call[c].run, journal |-> call[c].journal,
         summed |-> call[c].summed, grouped |-> call[c].grouped]}
  /\ answered' = answered \cup
       {[run |-> call[c].run, journal |-> call[c].journal]}
  /\ Return(c)
  /\ UNCHANGED <<rows, ledger, paid>>

\* The event sink fails: an error after the run row has landed.
FailPublish(c) ==
  /\ At(c, "publish")
  /\ Return(c)
  /\ UNCHANGED <<rows, outside, answered>>

-------------------------------------------------------------------------------
(* Remitting *)

BeginRemit(c, r) ==
  /\ At(c, "idle")
  /\ run[r].status = "posted"
  /\ Goto(c, [at |-> "payables", run |-> r])
  /\ UNCHANGED <<rows, outside, answered>>

GroupPayables(c) ==
  LET S == slips[call[c].run] IN
  /\ At(c, "payables")
  /\ IF Payables(S) = {}
       THEN Return(c)
       ELSE Goto(c, [at |-> "remit", run |-> call[c].run, grouped |-> S,
                     due |-> Payables(S)])
  /\ UNCHANGED <<rows, outside, answered>>

\* One instruction, in the order the rows came back. The sink keeps the first
\* it sees of a (run, account) key and calls any later one a duplicate.
RemitOne(c) ==
  LET r == call[c].run IN
  /\ At(c, "remit")
  /\ \E a \in call[c].due :
       /\ paid' = IF AlreadySent(r, a, call[c].grouped)
                    THEN paid
                    ELSE paid \cup {[run |-> r, account |-> a,
                                     grouped |-> call[c].grouped]}
       /\ IF call[c].due = {a}
            THEN Return(c)
            ELSE Goto(c, [call[c] EXCEPT !.due = @ \ {a}])
  /\ UNCHANGED <<rows, ledger, published, answered>>

\* The sink refuses one instruction: the verb stops there, the accepted stay.
RefuseRemittance(c) ==
  /\ At(c, "remit")
  /\ Return(c)
  /\ UNCHANGED <<rows, outside, answered>>

-------------------------------------------------------------------------------
\* The request is dropped or the process dies between two steps. Nothing of a
\* verb's progress is kept but what its steps have written.
Crash(c) ==
  /\ ~At(c, "idle")
  /\ Return(c)
  /\ UNCHANGED <<rows, outside, answered>>

Begin(c, r) ==
  \/ \E e \in Employees : BeginSlip(c, r, e)
  \/ SumSlips(c, r)
  \/ BeginPost(c, r)
  \/ BeginRepost(c, r)
  \/ BeginRemit(c, r)

Continue(c) ==
  \/ CommitSlip(c)
  \/ MarkProcessed(c)
  \/ GroupDeductions(c)
  \/ PostToLedger(c)
  \/ MarkPosted(c)
  \/ FetchJournal(c)
  \/ Regroup(c)
  \/ Publish(c)
  \/ GroupPayables(c)
  \/ RemitOne(c)

Fail(c) ==
  \/ RejectPosting(c)
  \/ FailPublish(c)
  \/ RefuseRemittance(c)
  \/ Crash(c)

Next ==
  \/ \E r \in Runs : CreateRun(r) \/ Cancel(r) \/ CancelAgain(r)
  \/ \E c \in Callers, r \in Runs : Begin(c, r)
  \/ \E c \in Callers : Continue(c) \/ Fail(c)

Spec == Init /\ [][Next]_vars

-------------------------------------------------------------------------------
(* Fairness.  A handler that is running goes on (Continue).  A client that   *)
(* was not answered re-runs the verb on its run, as the event contract asks  *)
(* of it, and neither crashes nor refusals of a sink hit a run every time.   *)

Retried(r) == \E c \in Callers : BeginPost(c, r)
Republished(r) == \E c \in Callers : BeginRepost(c, r)
For(r, c, Step) == call[c] # Idle /\ call[c].run = r /\ Step

FairSpec ==
  /\ Spec
  /\ \A c \in Callers : WF_vars(Continue(c))
  /\ \A r \in Runs :
       /\ SF_vars(Republished(r))
       /\ \A c \in Callers :
            SF_vars(For(r, c, Regroup(c))) /\ SF_vars(For(r, c, Publish(c)))

(* Discipline of use.  add_salary_slip checks "draft" before its transaction *)
(* and never again, so the engine relies on whoever drives it not to process *)
(* or cancel a run while a slip is being added to it.                        *)
Undisturbed ==
  \A c \in Callers : At(c, "slip") =>
    /\ run[call[c].run].status = "draft"
    /\ \A b \in Callers :
         ~(At(b, "process") /\ call[b].run = call[c].run)

SerialSpec == Init /\ [][Next /\ Undisturbed']_vars

SerialFairSpec ==
  /\ SerialSpec
  /\ \A c \in Callers : WF_vars(Continue(c))
  /\ \A r \in Runs :
       /\ SF_vars(Retried(r))
       /\ \A c \in Callers :
            /\ SF_vars(For(r, c, GroupDeductions(c)))
            /\ SF_vars(For(r, c, PostToLedger(c)))
            /\ SF_vars(For(r, c, MarkPosted(c)))

-------------------------------------------------------------------------------
(* Properties of every interleaving (Spec)                                   *)

\* The totals on a processed or posted run add up slips the run really has,
\* at least one of them: a sum read before a cancellation that deleted the
\* slips is never stored after it.
SummedSlipsExist ==
  \A r \in Runs : run[r].status \in {"processed", "posted"} =>
    run[r].summed # {} /\ run[r].summed \subseteq slips[r]

\* The ledger holds at most one journal of a run, for the totals on its row,
\* however many callers, retries and crashes the posting took.
BooksMatchRow ==
  \A j \in ledger :
    /\ run[j.run].status \notin {"absent", "draft"}
    /\ j.summed = run[j.run].summed
    /\ \A k \in ledger : k.run = j.run => k = j

\* A posted run names the journal the ledger holds for it and has both
\* control accounts: the two "posted without" errors cannot be met.
PostedIsBooked ==
  \A r \in Runs : run[r].status = "posted" =>
    /\ run[r].accounts
    /\ run[r].journal \in ledger
    /\ run[r].journal.run = r

\* Whoever is answered with a journal, winner, loser of the race or retry, is
\* answered with the one journal of a run that is posted.
AnsweredIsPosted ==
  \A x \in answered :
    run[x.run].status = "posted" /\ run[x.run].journal = x.journal

\* An event speaks of a posted run, names its journal and its net totals.
EventsMatchBooks ==
  \A e \in published :
    /\ run[e.run].status = "posted"
    /\ run[e.run].journal = e.journal
    /\ e.summed = e.journal.summed

\* Only a posted run is remitted, and an account of a run at most once,
\* although a retry may find it owed a different amount.
RemittedOnce ==
  \A p \in paid :
    /\ run[p.run].status = "posted"
    /\ \A q \in paid : q.run = p.run /\ q.account = p.account => q = p

\* Posted and cancelled rows never change again, totals are written once, and
\* rows move draft -> processed -> posted or into cancelled.
MovesForward(r) ==
  /\ run[r].status \in {"posted", "cancelled"} => run'[r] = run[r]
  /\ run[r].status = "processed" => run'[r].summed = run[r].summed
  /\ <<run[r].status, run'[r].status>> \in
       {<<s, s>> : s \in Status} \cup
       {<<"absent", "draft">>, <<"draft", "processed">>,
        <<"draft", "cancelled">>, <<"processed", "posted">>,
        <<"processed", "cancelled">>}

\* Slips leave a run only when a draft is cancelled.
KeepsSlips(r) ==
  \/ slips[r] \subseteq slips'[r]
  \/ run[r].status = "draft" /\ run'[r].status = "cancelled"

\* What no step of any verb does to a run, in whatever order legal calls come.
Lifecycle == [][\A r \in Runs : MovesForward(r) /\ KeepsSlips(r)]_vars

\* A run that gets posted is announced, whatever crashes and publish failures
\* hit its callers, because a re-run of the verb publishes again.
PostedIsAnnounced ==
  \A r \in Runs : (run[r].status = "posted") ~>
    (\E e \in published : e.run = r)

\* Seen by everybody else, each step of every verb is one step of a run's life:
\* no statement moves two runs, drops a slip that counts or skips a status.
Life == INSTANCE RunLife WITH
  People <- Employees,
  status <- [r \in Runs |-> run[r].status],
  roster <- slips

ImplementsLife == Life!Spec

-------------------------------------------------------------------------------
(* Properties that need the discipline (SerialSpec)                          *)

\* A closed run's totals are exactly its slips; a run cancelled as a draft
\* keeps none.
TotalsAreTheSlips ==
  \A r \in Runs :
    /\ run[r].status \in {"processed", "posted"} => run[r].summed = slips[r]
    /\ run[r].status = "cancelled" => slips[r] = run[r].summed

\* Ledger, events and remittances all describe the same slips: those of the
\* run as it was closed.
OneStory ==
  /\ \A j \in ledger : j.summed = slips[j.run] /\ j.grouped = slips[j.run]
  /\ \A e \in published : e.summed = slips[e.run] /\ e.grouped = slips[e.run]
  /\ \A p \in paid : p.grouped = slips[p.run]

\* A processed run with its control accounts gets posted unless cancelled: it
\* is never stuck with an envelope that does not balance.
ProcessedIsPosted ==
  \A r \in Runs : (run[r].status = "processed" /\ run[r].accounts) ~>
    (run[r].status \in {"posted", "cancelled"})

\* Seen from outside, a run is collected, closed, booked, announced and
\* remitted as one unchanging set of slips.
Book == INSTANCE SalaryBook WITH
  phase <- [r \in Runs |-> run[r].status],
  roster <- slips,
  booked <- {<<j.run, j.summed, j.grouped>> : j \in ledger},
  announced <- {<<e.run, e.summed, e.grouped>> : e \in published},
  remitted <- {<<p.run, p.account, p.grouped>> : p \in paid}

ImplementsBook == Book!Spec

-------------------------------------------------------------------------------
(* Statements of the documents that concurrent callers falsify               *)

\* schema/hooks/payroll.hook.yaml:88 "a slip is added only to a draft run".
SlipsOnlyOnDraft ==
  [][\A r \in Runs :
       \/ slips'[r] \subseteq slips[r]
       \/ run[r].status = "draft"]_vars

\* payroll_write_service.rs:996 "the run closes without touching the GL --
\* nothing was posted, so there is nothing to reverse".
CancelledIsOffTheBooks ==
  \A r \in Runs : run[r].status = "cancelled" =>
    \A j \in ledger : j.run # r

===============================================================================
