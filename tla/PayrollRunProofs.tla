--------------------------- MODULE PayrollRunProofs ---------------------------
(*****************************************************************************)
(* Theorems about PayrollRun for every number of runs, employees, accounts   *)
(* and callers, and any amounts: first of its full interleaving (Spec), then *)
(* of what holds when no run is processed or cancelled while a slip is being *)
(* added to it (SerialSpec): totals, ledger, events and remittances describe *)
(* the same slips, and SalaryBook is implemented.  In between, without any    *)
(* discipline: RunLife is.                                                   *)
(*****************************************************************************)
EXTENDS PayrollRun, TLAPS

\* Where a caller stands determines what it carries.
LEMMA CarriedByStep ==
  ASSUME TypeOK, NEW c \in Callers
  PROVE  /\ At(c, "slip") =>
              call[c] \in [at : {"slip"}, run : Runs, slip : Employees]
         /\ At(c, "process") =>
              call[c] \in [at : {"process"}, run : Runs,
                           summed : SUBSET Employees]
         /\ At(c, "group") =>
              call[c] \in [at : {"group"}, run : Runs,
                           summed : SUBSET Employees]
         /\ At(c, "post") =>
              call[c] \in [at : {"post"}, run : Runs,
                           summed : SUBSET Employees,
                           grouped : SUBSET Employees]
         /\ At(c, "mark") =>
              call[c] \in [at : {"mark"}, journal : Journal, run : Runs,
                           summed : SUBSET Employees,
                           grouped : SUBSET Employees]
         /\ At(c, "fetch") => call[c] \in [at : {"fetch"}, run : Runs]
         /\ At(c, "regroup") =>
              call[c] \in [at : {"regroup"}, journal : Journal, run : Runs,
                           summed : SUBSET Employees]
         /\ At(c, "publish") =>
              call[c] \in [at : {"publish"}, journal : Journal, run : Runs,
                           summed : SUBSET Employees,
                           grouped : SUBSET Employees]
         /\ At(c, "payables") => call[c] \in [at : {"payables"}, run : Runs]
         /\ At(c, "remit") =>
              call[c] \in [at : {"remit"}, run : Runs,
                           grouped : SUBSET Employees, due : SUBSET Accounts]
  BY DEF TypeOK, Call, At, Idle

\* A caller may move to any step that carries well-typed reads.
LEMMA GotoTypeOK ==
  ASSUME TypeOK, NEW c \in Callers, NEW step \in Call, Goto(c, step)
  PROVE  call' \in [Callers -> Call]
  BY DEF TypeOK, Goto

LEMMA ReturnTypeOK ==
  ASSUME TypeOK, NEW c \in Callers, Return(c)
  PROVE  call' \in [Callers -> Call]
  BY DEF TypeOK, Goto, Return, Call

LEMMA InitTypeOK == Init => TypeOK
  BY DEF Init, TypeOK, Call, RunRow, Status

LEMMA NextTypeOK == TypeOK /\ [Next]_vars => TypeOK'
<1> SUFFICES ASSUME TypeOK, [Next]_vars
             PROVE  TypeOK'
  OBVIOUS
<1>1. ASSUME NEW r \in Runs, CreateRun(r) PROVE TypeOK'
  <2>1. PICK set \in BOOLEAN :
          run' = [run EXCEPT ![r].status = "draft", ![r].accounts = set]
    BY <1>1 DEF CreateRun
  <2>2. run' = [run EXCEPT ![r] = [@ EXCEPT !.status = "draft",
                                           !.accounts = set]]
    BY <2>1
  <2>3. [run[r] EXCEPT !.status = "draft", !.accounts = set] \in RunRow
    BY DEF TypeOK, RunRow, Status
  <2>4. run' \in [Runs -> RunRow]
    BY <2>2, <2>3 DEF TypeOK
  <2> QED
    BY <1>1, <2>4 DEF CreateRun, TypeOK, outside
<1>2. ASSUME NEW r \in Runs, Cancel(r) PROVE TypeOK'
  BY <1>2 DEF Cancel, TypeOK, RunRow, Status, outside
<1>3. ASSUME NEW c \in Callers, NEW r \in Runs, NEW e \in Employees,
             BeginSlip(c, r, e)
      PROVE  TypeOK'
  <2>1. call' \in [Callers -> Call]
    BY <1>3, GotoTypeOK DEF BeginSlip, Call
  <2> QED
    BY <1>3, <2>1 DEF BeginSlip, TypeOK, rows, outside
<1>4. ASSUME NEW c \in Callers, NEW r \in Runs, SumSlips(c, r) PROVE TypeOK'
  <2>1. slips[r] \in SUBSET Employees
    BY DEF TypeOK
  <2>2. call' \in [Callers -> Call]
    BY <1>4, <2>1, GotoTypeOK DEF SumSlips, Call
  <2> QED
    BY <1>4, <2>2 DEF SumSlips, TypeOK, rows, outside
<1>5. ASSUME NEW c \in Callers, NEW r \in Runs, BeginPost(c, r) PROVE TypeOK'
  <2>1. run[r].summed \in SUBSET Employees
    BY DEF TypeOK, RunRow
  <2>2. call' \in [Callers -> Call]
    BY <1>5, <2>1, GotoTypeOK DEF BeginPost, Call
  <2> QED
    BY <1>5, <2>2 DEF BeginPost, TypeOK, rows, outside
<1>6. ASSUME NEW c \in Callers, NEW r \in Runs, BeginRepost(c, r) PROVE TypeOK'
  <2>1. run[r].summed \in SUBSET Employees /\ run[r].journal \in Journal
    BY <1>6 DEF BeginRepost, TypeOK, RunRow
  <2>2. call' \in [Callers -> Call]
    BY <1>6, <2>1, GotoTypeOK DEF BeginRepost, Call
  <2> QED
    BY <1>6, <2>2 DEF BeginRepost, TypeOK, rows, outside
<1>7. ASSUME NEW c \in Callers, NEW r \in Runs, BeginRemit(c, r) PROVE TypeOK'
  <2>1. call' \in [Callers -> Call]
    BY <1>7, GotoTypeOK DEF BeginRemit, Call
  <2> QED
    BY <1>7, <2>1 DEF BeginRemit, TypeOK, rows, outside
<1>8. ASSUME NEW c \in Callers, CommitSlip(c) PROVE TypeOK'
  <2>1. call[c].run \in Runs /\ call[c].slip \in Employees
    BY <1>8, CarriedByStep DEF CommitSlip
  <2>2. call' \in [Callers -> Call]
    BY <1>8, ReturnTypeOK DEF CommitSlip
  <2> QED
    BY <1>8, <2>1, <2>2 DEF CommitSlip, TypeOK, outside
<1>9. ASSUME NEW c \in Callers, MarkProcessed(c) PROVE TypeOK'
  <2>1. call[c].run \in Runs /\ call[c].summed \in SUBSET Employees
    BY <1>9, CarriedByStep DEF MarkProcessed
  <2>2. call' \in [Callers -> Call]
    BY <1>9, ReturnTypeOK DEF MarkProcessed
  <2>3. run' \in [Runs -> RunRow]
    BY <1>9, <2>1 DEF MarkProcessed, TypeOK, RunRow, Status
  <2> QED
    BY <1>9, <2>2, <2>3 DEF MarkProcessed, TypeOK, outside
<1>10. ASSUME NEW c \in Callers, GroupDeductions(c) PROVE TypeOK'
  <2>1. /\ call[c].run \in Runs /\ call[c].summed \in SUBSET Employees
        /\ slips[call[c].run] \in SUBSET Employees
    BY <1>10, CarriedByStep DEF GroupDeductions, TypeOK
  <2>2. [at |-> "post", run |-> call[c].run, summed |-> call[c].summed,
         grouped |-> slips[call[c].run]] \in Call
    BY <2>1 DEF Call
  <2>3. call' \in [Callers -> Call]
    BY <1>10, <2>2, GotoTypeOK, ReturnTypeOK DEF GroupDeductions
  <2> QED
    BY <1>10, <2>3 DEF GroupDeductions, TypeOK, rows, outside
<1>11. ASSUME NEW c \in Callers, PostToLedger(c) PROVE TypeOK'
  <2>1. /\ call[c].run \in Runs /\ call[c].summed \in SUBSET Employees
        /\ call[c].grouped \in SUBSET Employees
    BY <1>11, CarriedByStep DEF PostToLedger
  <2>2. PICK j \in Journal :
          /\ ledger' = ledger \cup {j}
          /\ Goto(c, [at |-> "mark", run |-> call[c].run,
                      summed |-> call[c].summed,
                      grouped |-> call[c].grouped, journal |-> j])
    BY <1>11, <2>1 DEF PostToLedger, JournalsOf, TypeOK, Journal
  <2>3. call' \in [Callers -> Call]
    BY <2>1, <2>2, GotoTypeOK DEF Call
  <2> QED
    BY <1>11, <2>2, <2>3 DEF PostToLedger, TypeOK, rows
<1>12. ASSUME NEW c \in Callers, MarkPosted(c) PROVE TypeOK'
  <2>1. /\ call[c].run \in Runs /\ call[c].summed \in SUBSET Employees
        /\ call[c].grouped \in SUBSET Employees /\ call[c].journal \in Journal
    BY <1>12, CarriedByStep DEF MarkPosted
  <2>2. /\ [at |-> "fetch", run |-> call[c].run] \in Call
        /\ [call[c] EXCEPT !.at = "publish"] \in Call
    BY <1>12, <2>1, CarriedByStep DEF MarkPosted, Call
  <2>3. call' \in [Callers -> Call]
    BY <1>12, <2>2, GotoTypeOK DEF MarkPosted
  <2>4. run' \in [Runs -> RunRow]
    BY <1>12, <2>1, SMTT(40) DEF MarkPosted, TypeOK, RunRow, Status
  <2> QED
    BY <1>12, <2>3, <2>4 DEF MarkPosted, TypeOK, outside
<1>13. ASSUME NEW c \in Callers, FetchJournal(c) PROVE TypeOK'
  <2>1. call[c].run \in Runs
    BY <1>13, CarriedByStep DEF FetchJournal
  <2>2. Recorded(call[c].run) \subseteq Journal
    BY <2>1 DEF Recorded, TypeOK, RunRow
  <2>3. call' \in [Callers -> Call]
    BY <1>13, ReturnTypeOK DEF FetchJournal
  <2> QED
    BY <1>13, <2>1, <2>2, <2>3 DEF FetchJournal, TypeOK, rows, outside
<1>14. ASSUME NEW c \in Callers, Regroup(c) PROVE TypeOK'
  <2>1. /\ call[c].run \in Runs /\ call[c].summed \in SUBSET Employees
        /\ call[c].journal \in Journal
        /\ slips[call[c].run] \in SUBSET Employees
    BY <1>14, CarriedByStep DEF Regroup, TypeOK
  <2>2. call' \in [Callers -> Call]
    BY <1>14, <2>1, GotoTypeOK DEF Regroup, Call
  <2> QED
    BY <1>14, <2>2 DEF Regroup, TypeOK, rows, outside
<1>15. ASSUME NEW c \in Callers, Publish(c) PROVE TypeOK'
  <2>1. /\ call[c].run \in Runs /\ call[c].summed \in SUBSET Employees
        /\ call[c].grouped \in SUBSET Employees /\ call[c].journal \in Journal
    BY <1>15, CarriedByStep DEF Publish
  <2>2. call' \in [Callers -> Call]
    BY <1>15, ReturnTypeOK DEF Publish
  <2>3. published' \subseteq Event
    BY <1>15, <2>1 DEF Publish, TypeOK, Event
  <2> QED
    BY <1>15, <2>1, <2>2, <2>3 DEF Publish, TypeOK, rows
<1>16. ASSUME NEW c \in Callers, GroupPayables(c) PROVE TypeOK'
  <2>1. /\ call[c].run \in Runs
        /\ slips[call[c].run] \in SUBSET Employees
        /\ Payables(slips[call[c].run]) \subseteq Accounts
    BY <1>16, CarriedByStep DEF GroupPayables, TypeOK, Payables
  <2>2. [at |-> "remit", run |-> call[c].run, grouped |-> slips[call[c].run],
         due |-> Payables(slips[call[c].run])] \in Call
    BY <2>1 DEF Call
  <2>3. call' \in [Callers -> Call]
    BY <1>16, <2>2, GotoTypeOK, ReturnTypeOK DEF GroupPayables
  <2> QED
    BY <1>16, <2>3 DEF GroupPayables, TypeOK, rows, outside
<1>17. ASSUME NEW c \in Callers, RemitOne(c) PROVE TypeOK'
  <2>1. /\ call[c].run \in Runs /\ call[c].grouped \in SUBSET Employees
        /\ call[c].due \in SUBSET Accounts
    BY <1>17, CarriedByStep DEF RemitOne
  <2>2. \A a \in call[c].due : [call[c] EXCEPT !.due = @ \ {a}] \in Call
    BY <1>17, CarriedByStep DEF RemitOne, Call
  <2>3. call' \in [Callers -> Call]
    BY <1>17, <2>2, GotoTypeOK, ReturnTypeOK DEF RemitOne
  <2>4. paid' \subseteq Remittance
    BY <1>17, <2>1 DEF RemitOne, TypeOK, Remittance
  <2> QED
    BY <1>17, <2>3, <2>4 DEF RemitOne, TypeOK, rows
<1>18. ASSUME NEW c \in Callers, Fail(c) PROVE TypeOK'
  <2>1. Return(c) /\ UNCHANGED <<rows, outside, answered>>
    BY <1>18 DEF Fail, RejectPosting, FailPublish, RefuseRemittance, Crash
  <2>2. call' \in [Callers -> Call]
    BY <2>1, ReturnTypeOK
  <2> QED
    BY <2>1, <2>2 DEF TypeOK, rows, outside
<1>19. CASE UNCHANGED vars
  BY <1>19 DEF TypeOK, vars
<1> QED
  BY <1>1, <1>2, <1>3, <1>4, <1>5, <1>6, <1>7, <1>8, <1>9, <1>10, <1>11,
     <1>12, <1>13, <1>14, <1>15, <1>16, <1>17, <1>18, <1>19
     DEF Next, Begin, Continue, CancelAgain

\* Every state of the engine is well typed: no caller answers with, and no
\* event carries, a missing journal, and no row holds a sum of foreign slips.
THEOREM TypeCorrect == Spec => []TypeOK
  BY InitTypeOK, NextTypeOK, PTL DEF Spec

-------------------------------------------------------------------------------
(* The engine's safety rests on two facts the code never states.  Once a run *)
(* has left draft its totals and accounts do not change, so what a caller    *)
(* read of them is still true when it acts; and whatever a caller is about   *)
(* to post, mark or publish is what the row and the ledger already say.      *)

Frozen(r) == run[r].status \in {"processed", "posted", "cancelled"}

Carried(c) ==
  LET r == call[c].run IN
  /\ ~At(c, "idle") => run[r].status # "absent"
  /\ At(c, "process") =>
       /\ call[c].summed # {}
       /\ run[r].status = "draft" => call[c].summed \subseteq slips[r]
  /\ call[c].at \in {"group", "post", "mark"} =>
       Frozen(r) /\ run[r].accounts /\ call[c].summed = run[r].summed
  /\ At(c, "mark") => call[c].journal \in ledger /\ call[c].journal.run = r
  /\ call[c].at \in {"regroup", "publish"} =>
       /\ run[r].status = "posted"
       /\ call[c].journal = run[r].journal
       /\ call[c].summed = run[r].summed
  /\ call[c].at \in {"payables", "remit"} => run[r].status = "posted"

NullUnlessPosted ==
  \A r \in Runs : run[r].status # "posted" => run[r].journal = NoJournal

AbsentIsEmpty ==
  \A r \in Runs : run[r].status = "absent" => slips[r] = {}

IInv ==
  /\ TypeOK
  /\ \A c \in Callers : Carried(c)
  /\ NullUnlessPosted
  /\ AbsentIsEmpty
  /\ SummedSlipsExist
  /\ BooksMatchRow
  /\ PostedIsBooked
  /\ AnsweredIsPosted
  /\ EventsMatchBooks
  /\ RemittedOnce

LEMMA InitInv == Init => IInv
<1> SUFFICES ASSUME Init PROVE IInv
  OBVIOUS
<1>1. TypeOK
  BY InitTypeOK
<1>2. \A c \in Callers : Carried(c)
  BY DEF Init, Carried, At, Idle
<1> QED
  BY <1>1, <1>2
     DEF Init, IInv, NullUnlessPosted, AbsentIsEmpty, SummedSlipsExist,
         BooksMatchRow, PostedIsBooked, AnsweredIsPosted, EventsMatchBooks,
         RemittedOnce

\* The part of the invariant that is about rows and the outside only.
RowsInv ==
  /\ NullUnlessPosted
  /\ AbsentIsEmpty
  /\ SummedSlipsExist
  /\ BooksMatchRow
  /\ PostedIsBooked
  /\ AnsweredIsPosted
  /\ EventsMatchBooks
  /\ RemittedOnce

\* A step that writes nothing but its caller's position keeps the invariant as
\* soon as what that caller now carries is true.
LEMMA ReadingStep ==
  ASSUME IInv, TypeOK', UNCHANGED <<rows, outside, answered>>,
         NEW c \in Callers, NEW step, Goto(c, step), Carried(c)'
  PROVE  IInv'
<1>1. \A b \in Callers : Carried(b)'
  <2> SUFFICES ASSUME NEW b \in Callers, b # c
               PROVE  Carried(b)'
    OBVIOUS
  <2>1. call'[b] = call[b]
    BY DEF Goto, IInv, TypeOK
  <2> QED
    BY <2>1 DEF IInv, Carried, Frozen, At, rows, outside
<1>2. RowsInv'
  BY DEF IInv, RowsInv, NullUnlessPosted, AbsentIsEmpty, SummedSlipsExist,
         BooksMatchRow, PostedIsBooked, AnsweredIsPosted, EventsMatchBooks,
         RemittedOnce, rows, outside
<1> QED
  BY <1>1, <1>2 DEF IInv, RowsInv

\* Going back to idle carries nothing.
LEMMA GivingUp ==
  ASSUME IInv, TypeOK', UNCHANGED <<rows, outside, answered>>,
         NEW c \in Callers, Return(c)
  PROVE  IInv'
<1>1. Carried(c)'
  BY DEF Return, Goto, IInv, TypeOK, Carried, At, Idle
<1> QED
  BY <1>1, ReadingStep DEF Return

LEMMA BeginInv ==
  ASSUME IInv, TypeOK', NEW c \in Callers, NEW r \in Runs, Begin(c, r)
  PROVE  IInv'
<1> USE DEF Carried, Frozen, At, Goto, TypeOK
<1>1. ASSUME NEW e \in Employees, BeginSlip(c, r, e) PROVE IInv'
  <2>1. Carried(c)'
    BY <1>1 DEF BeginSlip, IInv, rows
  <2> QED
    BY <1>1, <2>1, ReadingStep DEF BeginSlip
<1>2. CASE SumSlips(c, r)
  <2>1. Carried(c)'
    BY <1>2 DEF SumSlips, IInv, AbsentIsEmpty, rows
  <2> QED
    BY <1>2, <2>1, ReadingStep DEF SumSlips
<1>3. CASE BeginPost(c, r)
  <2>1. Carried(c)'
    BY <1>3 DEF BeginPost, HasAccounts, IInv, rows
  <2> QED
    BY <1>3, <2>1, ReadingStep DEF BeginPost
<1>4. CASE BeginRepost(c, r)
  <2>1. Carried(c)'
    BY <1>4 DEF BeginRepost, IInv, rows
  <2> QED
    BY <1>4, <2>1, ReadingStep DEF BeginRepost
<1>5. CASE BeginRemit(c, r)
  <2>1. Carried(c)'
    BY <1>5 DEF BeginRemit, IInv, rows
  <2> QED
    BY <1>5, <2>1, ReadingStep DEF BeginRemit
<1> QED
  BY <1>1, <1>2, <1>3, <1>4, <1>5 DEF Begin

\* The verbs that only read between two writes.
LEMMA ReadInv ==
  ASSUME IInv, TypeOK', NEW c \in Callers,
         \/ GroupDeductions(c) \/ Regroup(c) \/ GroupPayables(c) \/ Fail(c)
  PROVE  IInv'
<1> USE DEF Carried, Frozen, At, Goto, TypeOK
<1>1. CASE GroupDeductions(c)
  <2>1. CASE Return(c)
    BY <1>1, <2>1, GivingUp, SMTT(40) DEF GroupDeductions
  <2>2. CASE Goto(c, [at |-> "post", run |-> call[c].run,
                      summed |-> call[c].summed,
                      grouped |-> slips[call[c].run]])
    <3>1. Carried(c)'
      BY <1>1, <2>2 DEF GroupDeductions, IInv, rows
    <3> QED
      BY <1>1, <2>2, <3>1, ReadingStep DEF GroupDeductions
  <2> QED
    BY <1>1, <2>1, <2>2 DEF GroupDeductions
<1>2. CASE Regroup(c)
  <2>1. Carried(c)'
    BY <1>2 DEF Regroup, IInv, rows
  <2> QED
    BY <1>2, <2>1, ReadingStep DEF Regroup
<1>3. CASE GroupPayables(c)
  <2>1. CASE Return(c)
    BY <1>3, <2>1, GivingUp, SMTT(40) DEF GroupPayables
  <2>2. CASE Goto(c, [at |-> "remit", run |-> call[c].run,
                      grouped |-> slips[call[c].run],
                      due |-> Payables(slips[call[c].run])])
    <3>1. Carried(c)'
      BY <1>3, <2>2 DEF GroupPayables, IInv, rows
    <3> QED
      BY <1>3, <2>2, <3>1, ReadingStep DEF GroupPayables
  <2> QED
    BY <1>3, <2>1, <2>2 DEF GroupPayables
<1>4. CASE Fail(c)
  BY <1>4, GivingUp
     DEF Fail, RejectPosting, FailPublish, RefuseRemittance, Crash
<1> QED
  BY <1>1, <1>2, <1>3, <1>4

\* What a caller carries about one run is untouched by a write to another.
LEMMA CarriedElsewhere ==
  ASSUME IInv, NEW b \in Callers, call'[b] = call[b], ledger \subseteq ledger',
         NEW r \in Runs, call[b].run # r,
         \A q \in Runs : q # r => run'[q] = run[q] /\ slips'[q] = slips[q]
  PROVE  Carried(b)'
<1>1. ~At(b, "idle") => call[b].run \in Runs
  BY CarriedByStep DEF IInv, TypeOK, Call, At, Idle
<1>2. Carried(b)
  BY DEF IInv
<1> QED
  BY <1>1, <1>2 DEF Carried, Frozen, At

\* The writes to rows and slips outside a posting.
LEMMA RowWritesInv ==
  ASSUME IInv, TypeOK',
         \/ \E r \in Runs : CreateRun(r) \/ Cancel(r)
         \/ \E c \in Callers : CommitSlip(c) \/ MarkProcessed(c)
  PROVE  IInv'
<1> USE DEF TypeOK, RunRow
<1>1. ASSUME NEW r \in Runs, CreateRun(r) PROVE IInv'
  <2>1. PICK set \in BOOLEAN :
          run' = [run EXCEPT ![r].status = "draft", ![r].accounts = set]
    BY <1>1 DEF CreateRun
  <2>2. /\ run[r].status = "absent" /\ run'[r].status = "draft"
        /\ run'[r].journal = run[r].journal
        /\ \A q \in Runs : q # r => run'[q] = run[q]
    BY <1>1, <2>1 DEF CreateRun, IInv
  <2>3. ASSUME NEW c \in Callers PROVE Carried(c)'
    <3>1. UNCHANGED <<call, slips, ledger>>
      BY <1>1 DEF CreateRun, outside
    <3>2. CASE call[c].run = r
      BY <2>2, <3>1, <3>2 DEF IInv, Carried, At
    <3>3. CASE call[c].run # r
      BY <2>2, <3>1, <3>3, CarriedElsewhere
    <3> QED
      BY <3>2, <3>3
  <2>4. RowsInv'
    BY <1>1, <2>2
       DEF CreateRun, IInv, RowsInv, NullUnlessPosted, AbsentIsEmpty,
           SummedSlipsExist, BooksMatchRow, PostedIsBooked, AnsweredIsPosted,
           EventsMatchBooks, RemittedOnce, outside, Journal, Event, Remittance
  <2> QED
    BY <2>3, <2>4 DEF IInv, RowsInv
<1>2. ASSUME NEW r \in Runs, Cancel(r) PROVE IInv'
  <2>1. /\ run[r].status \in {"draft", "processed"}
        /\ run'[r].status = "cancelled"
        /\ run'[r].journal = run[r].journal
        /\ run'[r].accounts = run[r].accounts
        /\ run'[r].summed = run[r].summed
        /\ run[r].status # "draft" => slips' = slips
        /\ \A q \in Runs : q # r => run'[q] = run[q] /\ slips'[q] = slips[q]
    BY <1>2 DEF Cancel, MayCancel, CancelDropsSlips, IInv
  <2>2. ASSUME NEW c \in Callers PROVE Carried(c)'
    <3>1. UNCHANGED <<call, ledger>>
      BY <1>2 DEF Cancel, outside
    <3>2. CASE call[c].run = r
      BY <2>1, <3>1, <3>2 DEF IInv, Carried, Frozen, At
    <3>3. CASE call[c].run # r
      BY <2>1, <3>1, <3>3, CarriedElsewhere
    <3> QED
      BY <3>2, <3>3
  <2>3. RowsInv'
    BY <1>2, <2>1
       DEF Cancel, IInv, RowsInv, NullUnlessPosted, AbsentIsEmpty,
           SummedSlipsExist, BooksMatchRow, PostedIsBooked, AnsweredIsPosted,
           EventsMatchBooks, RemittedOnce, outside, Journal, Event, Remittance
  <2> QED
    BY <2>2, <2>3 DEF IInv, RowsInv
<1>3. ASSUME NEW c \in Callers, CommitSlip(c) PROVE IInv'
  <2>1. /\ call[c].run \in Runs /\ run[call[c].run].status # "absent"
        /\ \A q \in Runs : slips[q] \subseteq slips'[q]
        /\ \A q \in Runs : q # call[c].run => slips'[q] = slips[q]
    BY <1>3, CarriedByStep DEF CommitSlip, IInv, Carried, At
  <2>2. \A b \in Callers : b # c => call'[b] = call[b]
    BY <1>3 DEF CommitSlip, Return, Goto, IInv
  <2>3. Carried(c)'
    BY <1>3 DEF CommitSlip, Return, Goto, IInv, Carried, At, Idle
  <2>4. ASSUME NEW b \in Callers, b # c PROVE Carried(b)'
    <3>1. UNCHANGED <<run, ledger>> /\ call'[b] = call[b]
      BY <1>3, <2>2, <2>4 DEF CommitSlip, outside
    <3>2. CASE call[b].run = call[c].run
      BY <2>1, <3>1, <3>2 DEF IInv, Carried, Frozen, At
    <3>3. CASE call[b].run # call[c].run
      BY <2>1, <3>1, <3>3, CarriedElsewhere
    <3> QED
      BY <3>2, <3>3
  <2>5. RowsInv'
    BY <1>3, <2>1
       DEF CommitSlip, IInv, RowsInv, NullUnlessPosted, AbsentIsEmpty,
           SummedSlipsExist, BooksMatchRow, PostedIsBooked, AnsweredIsPosted,
           EventsMatchBooks, RemittedOnce, outside
  <2> QED
    BY <2>3, <2>4, <2>5 DEF IInv, RowsInv
<1>4. ASSUME NEW c \in Callers, MarkProcessed(c) PROVE IInv'
  <2>1. CASE ~MayMarkProcessed(call[c].run)
    BY <1>4, <2>1, GivingUp DEF MarkProcessed, rows
  <2>2. CASE MayMarkProcessed(call[c].run)
    <3> DEFINE r == call[c].run
    <3>1. /\ r \in Runs /\ run[r].status = "draft"
          /\ call[c].summed # {} /\ call[c].summed \subseteq slips[r]
      BY <1>4, <2>2, CarriedByStep
         DEF MarkProcessed, MayMarkProcessed, IInv, Carried, At
    <3>2. /\ run'[r].status = "processed"
          /\ run'[r].journal = run[r].journal
          /\ run'[r].summed = call[c].summed
          /\ \A q \in Runs : q # r => run'[q] = run[q]
      BY <1>4, <2>2, <3>1 DEF MarkProcessed, IInv
    <3>3. \A b \in Callers : b # c => call'[b] = call[b]
      BY <1>4, SMTT(40) DEF MarkProcessed, Return, Goto, IInv
    <3>4. Carried(c)'
      BY <1>4 DEF MarkProcessed, Return, Goto, IInv, Carried, At, Idle
    <3>5. UNCHANGED <<slips, ledger, published, paid, answered>>
      BY <1>4 DEF MarkProcessed, outside
    <3> HIDE DEF r
    <3>6. ASSUME NEW b \in Callers, b # c PROVE Carried(b)'
      <4>1. Carried(b)
        BY DEF IInv
      <4>2. CASE call[b].run = r
        BY <3>1, <3>2, <3>3, <3>5, <3>6, <4>1, <4>2 DEF Carried, Frozen, At
      <4>3. CASE call[b].run # r
        BY <3>1, <3>2, <3>3, <3>5, <3>6, <4>3, CarriedElsewhere
      <4> QED
        BY <4>2, <4>3
    <3>7. NullUnlessPosted' /\ AbsentIsEmpty' /\ SummedSlipsExist'
      BY <3>1, <3>2, <3>5, ZenonT(60)
         DEF IInv, NullUnlessPosted, AbsentIsEmpty, SummedSlipsExist
    <3>8. BooksMatchRow' /\ PostedIsBooked'
      BY <3>1, <3>2, <3>5
         DEF IInv, BooksMatchRow, PostedIsBooked, Journal
    <3>9. AnsweredIsPosted' /\ EventsMatchBooks' /\ RemittedOnce'
      BY <3>1, <3>2, <3>5, SMTT(40)
         DEF IInv, AnsweredIsPosted, EventsMatchBooks, RemittedOnce,
             Event, Remittance
    <3> QED
      BY <3>4, <3>6, <3>7, <3>8, <3>9 DEF IInv
  <2> QED
    BY <2>1, <2>2
<1> QED
  BY <1>1, <1>2, <1>3, <1>4

\* The steps of a posting that write, and the remittance.
LEMMA PostingInv ==
  ASSUME IInv, TypeOK', NEW c \in Callers,
         \/ PostToLedger(c) \/ MarkPosted(c) \/ FetchJournal(c) \/ Publish(c)
         \/ RemitOne(c)
  PROVE  IInv'
<1> DEFINE r == call[c].run
<1> USE DEF TypeOK
<1>1. CASE PostToLedger(c)
  <2>1. /\ At(c, "post") /\ r \in Runs
        /\ Frozen(r) /\ run[r].accounts /\ call[c].summed = run[r].summed
        /\ call[c].grouped \in SUBSET Employees
    BY <1>1, CarriedByStep DEF PostToLedger, IInv, Carried, At
  <2>2. PICK j : /\ ledger' = ledger \cup {j}
                 /\ Goto(c, [at |-> "mark", run |-> r,
                             summed |-> call[c].summed,
                             grouped |-> call[c].grouped, journal |-> j])
                 /\ \/ JournalsOf(r, call[c].summed) = {}
                       /\ j = [run |-> r, summed |-> call[c].summed,
                               grouped |-> call[c].grouped]
                    \/ j \in JournalsOf(r, call[c].summed)
    BY <1>1 DEF PostToLedger
  <2>3. UNCHANGED <<run, slips, published, paid, answered>>
    BY <1>1 DEF PostToLedger, rows
  <2> HIDE DEF r
  <2>4. Carried(c)'
    BY <2>1, <2>2, <2>3
       DEF Goto, IInv, Carried, Frozen, At, JournalsOf
  <2>5. ASSUME NEW b \in Callers, b # c PROVE Carried(b)'
    BY <2>2, <2>3, <2>5 DEF Goto, IInv, Carried, Frozen, At
  <2>6. BooksMatchRow'
    <3>1. CASE j \in JournalsOf(r, call[c].summed)
      BY <2>2, <2>3, <3>1 DEF IInv, BooksMatchRow, JournalsOf
    <3>2. CASE JournalsOf(r, call[c].summed) = {}
      BY <2>1, <2>2, <2>3, <3>2
         DEF IInv, BooksMatchRow, JournalsOf, Frozen, Journal
    <3> QED
      BY <2>2, <3>1, <3>2
  <2>7. PostedIsBooked'
    BY <2>2, <2>3 DEF IInv, PostedIsBooked
  <2> QED
    BY <2>3, <2>4, <2>5, <2>6, <2>7
       DEF IInv, NullUnlessPosted, AbsentIsEmpty, SummedSlipsExist,
           AnsweredIsPosted, EventsMatchBooks, RemittedOnce
<1>2. CASE MarkPosted(c)
  <2>1. /\ At(c, "mark") /\ r \in Runs
        /\ Frozen(r) /\ run[r].accounts /\ call[c].summed = run[r].summed
        /\ call[c].journal \in ledger /\ call[c].journal.run = r
    BY <1>2, CarriedByStep DEF MarkPosted, IInv, Carried, At
  <2>2. UNCHANGED <<slips, ledger, published, paid, answered>>
    BY <1>2 DEF MarkPosted, outside
  <2>3. CASE ~MayMarkPosted(r)
    <3>1. Goto(c, [at |-> "fetch", run |-> r]) /\ UNCHANGED <<rows, outside>>
      BY <1>2, <2>3 DEF MarkPosted, rows
    <3>2. Carried(c)'
      BY <2>1, <3>1 DEF Goto, IInv, Carried, Frozen, At, rows
    <3> QED
      BY <2>2, <3>1, <3>2, ReadingStep
  <2>4. CASE MayMarkPosted(r)
    <3>1. /\ run[r].status = "processed"
          /\ run' = [run EXCEPT ![r].status = "posted",
                                ![r].journal = call[c].journal]
          /\ Goto(c, [call[c] EXCEPT !.at = "publish"])
      BY <1>2, <2>4 DEF MarkPosted, MayMarkPosted
    <3>2. /\ run'[r].status = "posted"
          /\ run'[r].journal = call[c].journal
          /\ run'[r].summed = run[r].summed
          /\ run'[r].accounts = run[r].accounts
          /\ \A q \in Runs : q # r => run'[q] = run[q]
      BY <2>1, <3>1 DEF IInv, RunRow
    <3>3. /\ call'[c].at = "publish"
          /\ call'[c].run = r
          /\ call'[c].journal = call[c].journal
          /\ call'[c].summed = call[c].summed
      BY <2>1, <3>1, CarriedByStep DEF Goto, IInv
    <3>4. \A b \in Callers : b # c => call'[b] = call[b]
      BY <3>1 DEF Goto, IInv
    <3> HIDE DEF r
    <3>5. Carried(c)'
      BY <2>1, <3>2, <3>3 DEF Carried, At
    <3>6. ASSUME NEW b \in Callers, b # c PROVE Carried(b)'
      <4>1. CASE call[b].run = r
        BY <2>2, <3>1, <3>2, <3>4, <3>6, <4>1 DEF IInv, Carried, Frozen, At
      <4>2. CASE call[b].run # r
        BY <2>1, <2>2, <3>2, <3>4, <3>6, <4>2, CarriedElsewhere
      <4> QED
        BY <4>1, <4>2
    <3>7. NullUnlessPosted' /\ AbsentIsEmpty' /\ SummedSlipsExist'
      BY <2>1, <2>2, <3>1, <3>2
         DEF IInv, NullUnlessPosted, AbsentIsEmpty, SummedSlipsExist
    <3>8. BooksMatchRow' /\ PostedIsBooked'
      BY <2>1, <2>2, <3>1, <3>2
         DEF IInv, BooksMatchRow, PostedIsBooked, Journal
    <3>9. AnsweredIsPosted' /\ EventsMatchBooks' /\ RemittedOnce'
      BY <2>2, <3>1, <3>2
         DEF IInv, AnsweredIsPosted, EventsMatchBooks, RemittedOnce,
             Event, Remittance
    <3> QED
      BY <3>5, <3>6, <3>7, <3>8, <3>9 DEF IInv
  <2> QED
    BY <2>3, <2>4
<1>3. CASE FetchJournal(c)
  <2>1. r \in Runs
    BY <1>3, CarriedByStep DEF FetchJournal, IInv
  <2>2. /\ UNCHANGED <<run, slips, ledger, published, paid>>
        /\ answered' = answered \cup
             {[run |-> r, journal |-> j] : j \in Recorded(r)}
    BY <1>3 DEF FetchJournal, rows, outside
  <2> HIDE DEF r
  <2>3. \A b \in Callers : Carried(b)'
    BY <1>3, <2>2
       DEF FetchJournal, Return, Goto, IInv, Carried, Frozen, At, Idle
  <2>4. \A j \in Recorded(r) :
          run[r].status = "posted" /\ run[r].journal = j
    BY <2>1 DEF Recorded, IInv, NullUnlessPosted
  <2>5. AnsweredIsPosted'
    BY <2>2, <2>4 DEF IInv, AnsweredIsPosted
  <2> QED
    BY <2>2, <2>3, <2>5
       DEF IInv, NullUnlessPosted, AbsentIsEmpty, SummedSlipsExist,
           BooksMatchRow, PostedIsBooked, EventsMatchBooks, RemittedOnce
<1>4. CASE Publish(c)
  <2>1. /\ r \in Runs
        /\ run[r].status = "posted"
        /\ call[c].journal = run[r].journal
        /\ call[c].summed = run[r].summed
    BY <1>4, CarriedByStep DEF Publish, IInv, Carried, At
  <2>2. /\ UNCHANGED <<run, slips, ledger, paid>>
        /\ published' = published \cup
             {[run |-> r, journal |-> call[c].journal,
               summed |-> call[c].summed, grouped |-> call[c].grouped]}
        /\ answered' = answered \cup {[run |-> r, journal |-> call[c].journal]}
    BY <1>4 DEF Publish, rows
  <2> HIDE DEF r
  <2>3. \A b \in Callers : Carried(b)'
    BY <1>4, <2>2
       DEF Publish, Return, Goto, IInv, Carried, Frozen, At, Idle
  <2>4. run[r].journal.summed = run[r].summed
    BY <2>1 DEF IInv, PostedIsBooked, BooksMatchRow
  <2>5. AnsweredIsPosted' /\ EventsMatchBooks'
    BY <2>1, <2>2, <2>4 DEF IInv, AnsweredIsPosted, EventsMatchBooks
  <2> QED
    BY <2>2, <2>3, <2>5
       DEF IInv, NullUnlessPosted, AbsentIsEmpty, SummedSlipsExist,
           BooksMatchRow, PostedIsBooked, RemittedOnce
<1>5. CASE RemitOne(c)
  <2>1. r \in Runs /\ run[r].status = "posted"
    BY <1>5, CarriedByStep DEF RemitOne, IInv, Carried, At
  <2>2. UNCHANGED <<run, slips, ledger, published, answered>>
    BY <1>5 DEF RemitOne, rows
  <2>3. PICK a \in call[c].due :
          /\ paid' = IF AlreadySent(r, a, call[c].grouped)
                       THEN paid
                       ELSE paid \cup {[run |-> r, account |-> a,
                                        grouped |-> call[c].grouped]}
          /\ IF call[c].due = {a}
               THEN Return(c)
               ELSE Goto(c, [call[c] EXCEPT !.due = @ \ {a}])
    BY <1>5 DEF RemitOne
  <2>4. /\ call'[c].at \in {"idle", "remit"}
        /\ call'[c].at = "remit" => call'[c].run = r
        /\ \A b \in Callers : b # c => call'[b] = call[b]
    BY <1>5, <2>3, CarriedByStep DEF RemitOne, IInv, Return, Goto, Idle
  <2> HIDE DEF r
  <2>5. Carried(c)'
    BY <2>1, <2>2, <2>4 DEF Carried, At
  <2>6. ASSUME NEW b \in Callers, b # c PROVE Carried(b)'
    BY <2>2, <2>4, <2>6 DEF IInv, Carried, Frozen, At
  <2>7. RemittedOnce'
    BY <2>1, <2>2, <2>3 DEF IInv, RemittedOnce, AlreadySent
  <2> QED
    BY <2>2, <2>5, <2>6, <2>7
       DEF IInv, NullUnlessPosted, AbsentIsEmpty, SummedSlipsExist,
           BooksMatchRow, PostedIsBooked, AnsweredIsPosted, EventsMatchBooks
<1> QED
  BY <1>1, <1>2, <1>3, <1>4, <1>5

LEMMA NextInv == IInv /\ [Next]_vars => IInv'
<1> SUFFICES ASSUME IInv, [Next]_vars PROVE IInv'
  OBVIOUS
<1>1. TypeOK'
  BY NextTypeOK DEF IInv
<1>2. CASE \E r \in Runs : CreateRun(r) \/ Cancel(r)
  BY <1>1, <1>2, RowWritesInv
<1>3. CASE \E c \in Callers, r \in Runs : Begin(c, r)
  BY <1>1, <1>3, BeginInv
<1>4. CASE \E c \in Callers : Continue(c) \/ Fail(c)
  BY <1>1, <1>4, RowWritesInv, ReadInv, PostingInv DEF Continue
<1>5. CASE UNCHANGED vars
  BY <1>5
     DEF vars, IInv, TypeOK, Carried, Frozen, At, NullUnlessPosted,
         AbsentIsEmpty, SummedSlipsExist, BooksMatchRow, PostedIsBooked,
         AnsweredIsPosted, EventsMatchBooks, RemittedOnce
<1> QED
  BY <1>2, <1>3, <1>4, <1>5 DEF Next, CancelAgain

LEMMA Safe == Spec => []IInv
  BY InitInv, NextInv, PTL DEF Spec

\* However many callers post, retry and crash, the ledger holds one journal of
\* a run at most, and it states the totals on the run's row.
THEOREM OneJournalPerRun == Spec => []BooksMatchRow
  BY Safe, PTL DEF IInv

\* A run marked posted is in the ledger under the journal it names.
THEOREM PostedRunsAreBooked == Spec => []PostedIsBooked
  BY Safe, PTL DEF IInv

\* A caller of the post verb that gets an answer gets a true one.
THEOREM AnswersAreTrue == Spec => []AnsweredIsPosted
  BY Safe, PTL DEF IInv

\* Totals on a closed run never count a slip the run does not hold.
THEOREM TotalsCountRealSlips == Spec => []SummedSlipsExist
  BY Safe, PTL DEF IInv

\* An event is about a posted run and agrees with its journal.
THEOREM EventsAgreeWithBooks == Spec => []EventsMatchBooks
  BY Safe, PTL DEF IInv

\* Each payable account of a posted run is paid at most once.
THEOREM PaidAtMostOnce == Spec => []RemittedOnce
  BY Safe, PTL DEF IInv

-------------------------------------------------------------------------------
(* What a step may never do *)

LEMMA SameRow ==
  ASSUME TypeOK, NEW r \in Runs, run'[r] = run[r]
  PROVE  MovesForward(r)
  BY DEF TypeOK, RunRow, MovesForward

\* A step that leaves the runs alone and takes no slip away.
LEMMA KeepsRows ==
  ASSUME TypeOK, UNCHANGED run, \A r \in Runs : slips[r] \subseteq slips'[r]
  PROVE  \A r \in Runs : MovesForward(r) /\ KeepsSlips(r)
  BY SameRow DEF KeepsSlips

LEMMA NextLifecycle ==
  ASSUME TypeOK, [Next]_vars
  PROVE  \A r \in Runs : MovesForward(r) /\ KeepsSlips(r)
<1>1. ASSUME NEW q \in Runs, CreateRun(q)
      PROVE  \A r \in Runs : MovesForward(r) /\ KeepsSlips(r)
  <2>1. PICK set \in BOOLEAN :
          run' = [run EXCEPT ![q].status = "draft", ![q].accounts = set]
    BY <1>1 DEF CreateRun
  <2>2. /\ run'[q].status = "draft"
        /\ \A r \in Runs \ {q} : run'[r] = run[r]
    BY <2>1 DEF TypeOK, RunRow
  <2>3. MovesForward(q)
    BY <1>1, <2>2 DEF CreateRun, MovesForward
  <2> QED
    BY <1>1, <2>2, <2>3, SameRow DEF CreateRun, KeepsSlips
<1>2. ASSUME NEW q \in Runs, Cancel(q)
      PROVE  \A r \in Runs : MovesForward(r) /\ KeepsSlips(r)
  <2>1. /\ run[q].status \in {"draft", "processed"}
        /\ run' = [run EXCEPT ![q].status = "cancelled"]
    BY <1>2 DEF Cancel, MayCancel
  <2>2. /\ run'[q].status = "cancelled" /\ run'[q].summed = run[q].summed
        /\ \A r \in Runs \ {q} : run'[r] = run[r]
    BY <2>1 DEF TypeOK, RunRow
  <2>3. MovesForward(q)
    BY <2>1, <2>2 DEF MovesForward
  <2>4. \A r \in Runs : KeepsSlips(r)
    BY <1>2, <2>2 DEF Cancel, CancelDropsSlips, KeepsSlips, TypeOK
  <2> QED
    BY <2>2, <2>3, <2>4, SameRow
<1>3. ASSUME NEW c \in Callers, MarkProcessed(c)
      PROVE  \A r \in Runs : MovesForward(r) /\ KeepsSlips(r)
  <2> DEFINE q == call[c].run
  <2>1. q \in Runs /\ UNCHANGED slips
    BY <1>3, CarriedByStep DEF MarkProcessed
  <2>2. CASE UNCHANGED run
    BY <2>1, <2>2, KeepsRows
  <2>3. CASE /\ run[q].status = "draft"
             /\ run' = [run EXCEPT ![q].status = "processed",
                                   ![q].summed = call[c].summed]
    <3>1. /\ run'[q].status = "processed"
          /\ \A r \in Runs \ {q} : run'[r] = run[r]
      BY <2>1, <2>3 DEF TypeOK, RunRow
    <3>2. MovesForward(q)
      BY <2>3, <3>1 DEF MovesForward
    <3> QED
      BY <2>1, <3>1, <3>2, SameRow DEF KeepsSlips
  <2> QED
    BY <1>3, <2>2, <2>3 DEF MarkProcessed, MayMarkProcessed
<1>4. ASSUME NEW c \in Callers, MarkPosted(c)
      PROVE  \A r \in Runs : MovesForward(r) /\ KeepsSlips(r)
  <2> DEFINE q == call[c].run
  <2>1. q \in Runs /\ UNCHANGED slips
    BY <1>4, CarriedByStep DEF MarkPosted
  <2>2. CASE UNCHANGED run
    BY <2>1, <2>2, KeepsRows
  <2>3. CASE /\ run[q].status = "processed"
             /\ run' = [run EXCEPT ![q].status = "posted",
                                   ![q].journal = call[c].journal]
    <3>1. /\ run'[q].status = "posted" /\ run'[q].summed = run[q].summed
          /\ \A r \in Runs \ {q} : run'[r] = run[r]
      BY <2>1, <2>3 DEF TypeOK, RunRow
    <3>2. MovesForward(q)
      BY <2>3, <3>1 DEF MovesForward
    <3> QED
      BY <2>1, <3>1, <3>2, SameRow DEF KeepsSlips
  <2> QED
    BY <1>4, <2>2, <2>3 DEF MarkPosted, MayMarkPosted
<1>5. ASSUME NEW c \in Callers, CommitSlip(c)
      PROVE  \A r \in Runs : MovesForward(r) /\ KeepsSlips(r)
  BY <1>5, KeepsRows DEF CommitSlip, TypeOK
<1>6. CASE UNCHANGED rows
  BY <1>6, KeepsRows DEF rows
<1>7. \/ \E q \in Runs : CreateRun(q) \/ Cancel(q)
      \/ \E c \in Callers : MarkProcessed(c) \/ MarkPosted(c) \/ CommitSlip(c)
      \/ UNCHANGED rows
  <2>1. CASE \E q \in Runs : CancelAgain(q)
    BY <2>1 DEF CancelAgain, vars, rows
  <2>2. CASE \E c \in Callers, q \in Runs : Begin(c, q)
    BY <2>2 DEF Begin, BeginSlip, SumSlips, BeginPost, BeginRepost, BeginRemit
  <2>3. CASE \E c \in Callers : Fail(c)
    BY <2>3 DEF Fail, RejectPosting, FailPublish, RefuseRemittance, Crash
  <2>4. CASE \E c \in Callers : Continue(c)
    BY <2>4 DEF Continue, GroupDeductions, PostToLedger, FetchJournal, Regroup,
                Publish, GroupPayables, RemitOne, rows
  <2>5. CASE UNCHANGED vars
    BY <2>5 DEF vars, rows
  <2> QED
    BY <2>1, <2>2, <2>3, <2>4, <2>5 DEF Next
<1> QED
  BY <1>1, <1>2, <1>3, <1>4, <1>5, <1>6, <1>7

\* Whatever callers do, and however they are interrupted, a run moves forward
\* only, closed totals stay, and slips leave with a cancelled draft alone.
THEOREM RunsMoveForward == Spec => Lifecycle
<1>1. TypeOK /\ [Next]_vars =>
        [\A r \in Runs : MovesForward(r) /\ KeepsSlips(r)]_vars
  BY NextLifecycle
<1> QED
  BY <1>1, TypeCorrect, PTL DEF Spec, Lifecycle

-------------------------------------------------------------------------------
(* The serial specification *)

\* A run that has not been processed has no totals yet.
NoTotalsYet ==
  \A r \in Runs : run[r].status \in {"absent", "draft"} => run[r].summed = {}

\* From the day it leaves draft, a run's totals are its slips.
TotalsHold == \A r \in Runs : Frozen(r) => run[r].summed = slips[r]

\* What a caller has read of the slips is still what the run holds, and only
\* runs with slips get as far as a posting.
UpToDate(c) ==
  LET r == call[c].run IN
  /\ At(c, "process") /\ run[r].status = "draft" => call[c].summed = slips[r]
  /\ call[c].at \in {"post", "mark", "publish", "remit"} =>
       call[c].grouped = slips[r]
  /\ call[c].at \in {"group", "post", "mark"} => call[c].summed # {}

SerialInv ==
  /\ IInv
  /\ Undisturbed
  /\ NoTotalsYet
  /\ TotalsHold
  /\ \A c \in Callers : UpToDate(c)
  /\ OneStory

LEMMA SerialInit == Init => SerialInv
<1> SUFFICES ASSUME Init PROVE SerialInv
  OBVIOUS
<1>1. IInv
  BY InitInv
<1> QED
  BY <1>1
     DEF Init, SerialInv, Undisturbed, NoTotalsYet, TotalsHold, Frozen,
         UpToDate, At, Idle, OneStory

-------------------------------------------------------------------------------
(* Which steps write which variable *)

\* The slips of a run change when one is committed or its draft is cancelled.
LEMMA SlipsWritten ==
  ASSUME TypeOK, [Next]_vars, NEW r \in Runs, slips'[r] # slips[r]
  PROVE  \/ \E c \in Callers : At(c, "slip") /\ call[c].run = r
         \/ run[r].status = "draft" /\ run'[r].status = "cancelled"
<1>1. ASSUME NEW q \in Runs, Cancel(q)
      PROVE  run[r].status = "draft" /\ run'[r].status = "cancelled"
  <2>1. CASE run[q].status = "draft"
    BY <1>1, <2>1 DEF Cancel, CancelDropsSlips, TypeOK, RunRow
  <2> QED
    BY <1>1, <2>1 DEF Cancel, CancelDropsSlips
<1>2. ASSUME NEW c \in Callers, CommitSlip(c)
      PROVE  At(c, "slip") /\ call[c].run = r
  BY <1>2, CarriedByStep DEF CommitSlip, TypeOK
<1>3. CASE \E q \in Runs : CreateRun(q) \/ CancelAgain(q)
  BY <1>3 DEF CreateRun, CancelAgain, vars
<1>4. CASE \E c \in Callers, q \in Runs : Begin(c, q)
  BY <1>4 DEF Begin, BeginSlip, SumSlips, BeginPost, BeginRepost, BeginRemit,
              rows
<1>5. CASE \E c \in Callers : Fail(c)
  BY <1>5 DEF Fail, RejectPosting, FailPublish, RefuseRemittance, Crash, rows
<1>6. ASSUME NEW c \in Callers, Continue(c) PROVE CommitSlip(c)
  BY <1>6 DEF Continue, MarkProcessed, GroupDeductions, PostToLedger,
              MarkPosted, FetchJournal, Regroup, Publish, GroupPayables,
              RemitOne, rows
<1>7. CASE UNCHANGED vars
  BY <1>7 DEF vars
<1> QED
  BY <1>1, <1>2, <1>3, <1>4, <1>5, <1>6, <1>7 DEF Next

\* A run that has left draft keeps its slips and its totals, and stays out.
LEMMA FrozenStays ==
  ASSUME IInv, Undisturbed, [Next]_vars, NEW r \in Runs, Frozen(r)
  PROVE  Frozen(r)' /\ run'[r].summed = run[r].summed /\ slips'[r] = slips[r]
<1>1. TypeOK
  BY DEF IInv
<1>2. MovesForward(r)
  BY <1>1, NextLifecycle
<1>3. Frozen(r)' /\ run'[r].summed = run[r].summed
  BY <1>2 DEF MovesForward, Frozen, Status
<1>4. slips'[r] = slips[r]
  BY <1>1, SlipsWritten DEF Undisturbed, Frozen
<1> QED
  BY <1>3, <1>4

\* A caller that does not move keeps what it carries up to date.
LEMMA BystanderStep ==
  ASSUME SerialInv, [Next]_vars, NEW b \in Callers, call'[b] = call[b]
  PROVE  UpToDate(b)'
<1> DEFINE r == call[b].run
<1>1. TypeOK /\ Carried(b) /\ UpToDate(b)
  BY DEF SerialInv, IInv
<1>2. CASE call[b].at \in {"group", "post", "mark", "publish", "remit"}
  <2>1. r \in Runs /\ Frozen(r)
    BY <1>1, <1>2, CarriedByStep DEF Carried, Frozen, At
  <2>2. slips'[r] = slips[r]
    BY <2>1, FrozenStays DEF SerialInv
  <2> QED
    BY <1>1, <1>2, <2>2 DEF UpToDate, At
<1>3. CASE At(b, "process")
  <2>1. r \in Runs /\ run[r].status # "absent" /\ MovesForward(r)
    BY <1>1, <1>3, CarriedByStep, NextLifecycle DEF Carried, At
  <2>2. run'[r].status = "draft" => run[r].status = "draft"
    BY <2>1 DEF MovesForward, Status
  <2>3. run'[r].status = "draft" => slips'[r] = slips[r]
    BY <1>1, <1>3, <2>1, SlipsWritten DEF SerialInv, Undisturbed
  <2> QED
    BY <1>1, <1>3, <2>2, <2>3 DEF UpToDate, At
<1> QED
  BY <1>2, <1>3 DEF UpToDate, At

\* Other callers than the one that moves stay where they are.
LEMMA OneMoves ==
  ASSUME TypeOK, NEW c \in Callers, NEW step, Goto(c, step)
  PROVE  call'[c] = step /\ \A b \in Callers : b # c => call'[b] = call[b]
  BY DEF Goto, TypeOK

\* A step of a caller reads what the run holds, or passes on what it has read.
LEMMA MoverStep ==
  ASSUME SerialInv, [Next]_vars, NEW c \in Callers,
         \/ \E r \in Runs : Begin(c, r)
         \/ Continue(c)
         \/ Fail(c)
  PROVE  \A b \in Callers : UpToDate(b)'
<1> USE DEF At
<1>1. TypeOK /\ Carried(c) /\ UpToDate(c)
  BY SMTT(40) DEF SerialInv, IInv
<1>2. PICK step : Goto(c, step)
  BY DEF Begin, Continue, Fail, BeginSlip, SumSlips, BeginPost, BeginRepost,
         BeginRemit, CommitSlip, MarkProcessed, GroupDeductions, PostToLedger,
         MarkPosted, FetchJournal, Regroup, Publish, GroupPayables, RemitOne,
         RejectPosting, FailPublish, RefuseRemittance, Crash, Return
<1>3. \A b \in Callers : b # c => UpToDate(b)'
  BY <1>1, <1>2, OneMoves, BystanderStep
<1>4. CASE Return(c)
  <2>1. call'[c] = Idle
    BY <1>1, <1>4, OneMoves DEF Return
  <2> QED
    BY <1>3, <2>1 DEF UpToDate, Idle
<1>5. ASSUME NEW r \in Runs, Begin(c, r) PROVE UpToDate(c)'
  <2>1. CASE SumSlips(c, r)
    BY <1>1, <2>1, OneMoves DEF SumSlips, UpToDate, rows
  <2>2. CASE ~SumSlips(c, r)
    <3>1. ASSUME NEW e \in Employees, BeginSlip(c, r, e)
          PROVE  UpToDate(c)'
      BY <1>1, <3>1, OneMoves DEF BeginSlip, UpToDate
    <3>2. CASE BeginPost(c, r)
      <4>1. run[r].summed # {}
        BY <3>2 DEF BeginPost, SerialInv, IInv, SummedSlipsExist
      <4> QED
        BY <1>1, <3>2, <4>1, OneMoves DEF BeginPost, UpToDate
    <3>3. CASE BeginRepost(c, r)
      BY <1>1, <3>3, OneMoves DEF BeginRepost, UpToDate
    <3>4. CASE BeginRemit(c, r)
      BY <1>1, <3>4, OneMoves DEF BeginRemit, UpToDate
    <3> QED
      BY <1>5, <2>2, <3>1, <3>2, <3>3, <3>4 DEF Begin
  <2> QED
    BY <2>1, <2>2
<1>6. CASE GroupDeductions(c)
  BY <1>1, <1>3, <1>4, <1>6, OneMoves DEF GroupDeductions, UpToDate, rows
<1>7. CASE PostToLedger(c)
  <2>1. /\ call'[c].at = "mark" /\ call'[c].run = call[c].run
        /\ call'[c].grouped = call[c].grouped
        /\ call'[c].summed = call[c].summed
        /\ slips' = slips /\ call[c].at = "post"
    BY <1>1, <1>7, OneMoves DEF PostToLedger, rows
  <2> QED
    BY <1>1, <1>3, <2>1 DEF UpToDate
<1>8. CASE MarkPosted(c)
  <2>1. /\ \/ call'[c].at = "fetch"
           \/ /\ call'[c].at = "publish" /\ call'[c].run = call[c].run
              /\ call'[c].grouped = call[c].grouped
        /\ slips' = slips /\ call[c].at = "mark"
    BY <1>1, <1>8, OneMoves, CarriedByStep DEF MarkPosted
  <2> QED
    BY <1>1, <1>3, <2>1 DEF UpToDate
<1>9. CASE Regroup(c)
  BY <1>1, <1>3, <1>9, OneMoves DEF Regroup, UpToDate, rows
<1>10. CASE GroupPayables(c)
  BY <1>1, <1>3, <1>4, <1>10, OneMoves DEF GroupPayables, UpToDate, rows
<1>11. CASE RemitOne(c)
  <2>1. PICK a \in call[c].due :
          IF call[c].due = {a}
            THEN Return(c)
            ELSE Goto(c, [call[c] EXCEPT !.due = @ \ {a}])
    BY <1>11 DEF RemitOne
  <2>2. CASE Goto(c, [call[c] EXCEPT !.due = @ \ {a}])
    <3>1. /\ call'[c].at = "remit" /\ call'[c].run = call[c].run
          /\ call'[c].grouped = call[c].grouped
          /\ slips' = slips /\ call[c].at = "remit"
      BY <1>1, <1>11, <2>2, OneMoves, CarriedByStep DEF RemitOne, rows
    <3> QED
      BY <1>1, <1>3, <3>1 DEF UpToDate
  <2> QED
    BY <1>4, <2>1, <2>2
<1> QED
  BY <1>3, <1>4, <1>5, <1>6, <1>7, <1>8, <1>9, <1>10, <1>11
     DEF Continue, Fail, CommitSlip, MarkProcessed, FetchJournal, Publish,
         RejectPosting, FailPublish, RefuseRemittance, Crash

\* Three steps reach the systems outside.
LEMMA OutsideWritten ==
  ASSUME [Next]_vars
  PROVE  \/ UNCHANGED outside
         \/ \E c \in Callers : PostToLedger(c) \/ Publish(c) \/ RemitOne(c)
<1>1. CASE \E r \in Runs : CreateRun(r) \/ Cancel(r) \/ CancelAgain(r)
  BY <1>1 DEF CreateRun, Cancel, CancelAgain, vars, outside
<1>2. CASE \E c \in Callers, r \in Runs : Begin(c, r)
  BY <1>2 DEF Begin, BeginSlip, SumSlips, BeginPost, BeginRepost, BeginRemit
<1>3. CASE \E c \in Callers : Fail(c)
  BY <1>3 DEF Fail, RejectPosting, FailPublish, RefuseRemittance, Crash
<1>4. CASE \E c \in Callers : Continue(c)
  BY <1>4 DEF Continue, CommitSlip, MarkProcessed, GroupDeductions,
              MarkPosted, FetchJournal, Regroup, GroupPayables
<1>5. CASE UNCHANGED vars
  BY <1>5 DEF vars, outside
<1> QED
  BY <1>1, <1>2, <1>3, <1>4, <1>5 DEF Next

-------------------------------------------------------------------------------
(* Every step keeps the story one *)

\* Totals come with the status processed, and a cancelled draft, whose slips go,
\* has none.
LEMMA TotalsStep ==
  ASSUME SerialInv, [Next]_vars
  PROVE  NoTotalsYet' /\ TotalsHold'
<1> USE DEF SerialInv, IInv
<1>1. ASSUME NEW r \in Runs, Frozen(r)
      PROVE  Frozen(r)' /\ run'[r].summed = slips'[r]
  BY <1>1, FrozenStays DEF TotalsHold
<1>2. ASSUME NEW r \in Runs, ~Frozen(r)
      PROVE  /\ ~Frozen(r)' => run'[r].summed = {}
             /\ Frozen(r)' => run'[r].summed = slips'[r]
  <2>1. run[r].summed = {} /\ run[r].status \in {"absent", "draft"}
    BY <1>2 DEF Frozen, NoTotalsYet, TypeOK, RunRow, Status
  <2>2. ASSUME NEW q \in Runs, CreateRun(q)
        PROVE  run'[r].summed = {} /\ ~Frozen(r)'
    <3>1. PICK set \in BOOLEAN :
            run' = [run EXCEPT ![q].status = "draft", ![q].accounts = set]
      BY <2>2 DEF CreateRun
    <3> QED
      BY <2>1, <3>1 DEF TypeOK, RunRow, Frozen
  <2>3. ASSUME NEW q \in Runs, Cancel(q)
        PROVE  /\ run'[r].summed = {}
               /\ Frozen(r)' => slips'[r] = {}
    BY <2>1, <2>3 DEF Cancel, MayCancel, CancelDropsSlips, TypeOK, RunRow,
                      Frozen
  <2>4. ASSUME NEW c \in Callers, MarkProcessed(c)
        PROVE  /\ ~Frozen(r)' => run'[r].summed = {}
               /\ Frozen(r)' => run'[r].summed = slips'[r]
    <3>1. call[c].run \in Runs /\ UpToDate(c)
      BY <2>4, CarriedByStep DEF MarkProcessed
    <3>2. CASE UNCHANGED run
      BY <2>1, <3>2 DEF Frozen
    <3>3. CASE /\ run[call[c].run].status = "draft"
               /\ run' = [run EXCEPT ![call[c].run].status = "processed",
                                     ![call[c].run].summed = call[c].summed]
      <4>1. call[c].summed = slips[call[c].run] /\ slips' = slips
        BY <2>4, <3>1, <3>3 DEF MarkProcessed, UpToDate
      <4>2. CASE call[c].run = r
        BY <3>1, <3>3, <4>1, <4>2 DEF TypeOK, RunRow, Frozen
      <4>3. CASE call[c].run # r
        BY <2>1, <3>3, <4>3 DEF TypeOK, RunRow, Frozen
      <4> QED
        BY <4>2, <4>3
    <3> QED
      BY <2>4, <3>2, <3>3 DEF MarkProcessed, MayMarkProcessed
  <2>5. ASSUME NEW c \in Callers, MarkPosted(c)
        PROVE  run'[r].summed = {} /\ ~Frozen(r)'
    <3>1. call[c].run \in Runs /\ Carried(c)
      BY <2>5, CarriedByStep DEF MarkPosted
    <3>2. call[c].run # r
      BY <1>2, <2>5, <3>1 DEF MarkPosted, Carried, At
    <3>3. run'[r] = run[r]
      BY <2>5, <3>1, <3>2 DEF MarkPosted, TypeOK
    <3> QED
      BY <2>1, <3>3 DEF Frozen
  <2>6. CASE UNCHANGED run
    BY <2>1, <2>6 DEF Frozen
  <2>7. \/ \E q \in Runs : CreateRun(q) \/ Cancel(q)
        \/ \E c \in Callers : MarkProcessed(c) \/ MarkPosted(c)
        \/ UNCHANGED run
    BY DEF Next, CancelAgain, Begin, BeginSlip, SumSlips, BeginPost,
           BeginRepost, BeginRemit, Continue, CommitSlip, GroupDeductions,
           PostToLedger, FetchJournal, Regroup, Publish, GroupPayables,
           RemitOne, Fail, RejectPosting, FailPublish, RefuseRemittance,
           Crash, vars, rows
  <2> QED
    BY <2>2, <2>3, <2>4, <2>5, <2>6, <2>7
<1> QED
  BY <1>1, <1>2 DEF NoTotalsYet, TotalsHold, Frozen

\* The ledger, the events and the remittances tell the run's own story.
LEMMA StoryStep ==
  ASSUME SerialInv, [Next]_vars
  PROVE  OneStory'
<1> USE DEF SerialInv, IInv, TypeOK
<1>1. ASSUME NEW j \in ledger'
      PROVE  j.summed = slips'[j.run] /\ j.grouped = slips'[j.run]
  <2>1. CASE j \in ledger
    <3>1. j.run \in Runs /\ Frozen(j.run)
      BY <2>1 DEF BooksMatchRow, Journal, Frozen, RunRow, Status
    <3> QED
      BY <2>1, <3>1, FrozenStays DEF OneStory
  <2>2. CASE j \notin ledger
    <3>1. PICK c \in Callers : PostToLedger(c)
      BY <1>1, <2>2, OutsideWritten DEF outside, PostToLedger, Publish, RemitOne
    <3>2. /\ j = [run |-> call[c].run, summed |-> call[c].summed,
                  grouped |-> call[c].grouped]
          /\ At(c, "post") /\ slips' = slips
      BY <1>1, <2>2, <3>1 DEF PostToLedger, JournalsOf, rows
    <3>3. /\ call[c].run \in Runs /\ Frozen(call[c].run)
          /\ call[c].summed = run[call[c].run].summed
      BY <3>2, CarriedByStep DEF Carried, At
    <3> QED
      BY <3>2, <3>3 DEF UpToDate, At, TotalsHold
  <2> QED
    BY <2>1, <2>2
<1>2. ASSUME NEW e \in published'
      PROVE  e.summed = slips'[e.run] /\ e.grouped = slips'[e.run]
  <2>1. CASE e \in published
    <3>1. e.run \in Runs /\ Frozen(e.run)
      BY <2>1 DEF EventsMatchBooks, Event, Frozen
    <3> QED
      BY <2>1, <3>1, FrozenStays DEF OneStory
  <2>2. CASE e \notin published
    <3>1. PICK c \in Callers : Publish(c)
      BY <1>2, <2>2, OutsideWritten DEF outside, PostToLedger, Publish, RemitOne
    <3>2. /\ e = [run |-> call[c].run, journal |-> call[c].journal,
                  summed |-> call[c].summed, grouped |-> call[c].grouped]
          /\ At(c, "publish") /\ slips' = slips
      BY <1>2, <2>2, <3>1 DEF Publish, rows
    <3>3. /\ call[c].run \in Runs /\ Frozen(call[c].run)
          /\ call[c].summed = run[call[c].run].summed
      BY <3>2, CarriedByStep DEF Carried, At, Frozen
    <3> QED
      BY <3>2, <3>3 DEF UpToDate, At, TotalsHold
  <2> QED
    BY <2>1, <2>2
<1>3. ASSUME NEW p \in paid' PROVE p.grouped = slips'[p.run]
  <2>1. CASE p \in paid
    <3>1. p.run \in Runs /\ Frozen(p.run)
      BY <2>1 DEF RemittedOnce, Remittance, Frozen
    <3> QED
      BY <2>1, <3>1, FrozenStays DEF OneStory
  <2>2. CASE p \notin paid
    <3>1. PICK c \in Callers : RemitOne(c)
      BY <1>3, <2>2, OutsideWritten DEF outside, PostToLedger, Publish, RemitOne
    <3>2. PICK a \in Accounts :
            p = [run |-> call[c].run, account |-> a,
                 grouped |-> call[c].grouped]
      BY <1>3, <2>2, <3>1, CarriedByStep DEF RemitOne
    <3>3. At(c, "remit") /\ slips' = slips
      BY <3>1 DEF RemitOne, rows
    <3> QED
      BY <3>2, <3>3 DEF UpToDate, At
  <2> QED
    BY <2>1, <2>2
<1> QED
  BY <1>1, <1>2, <1>3 DEF OneStory

LEMMA SerialStep ==
  SerialInv /\ [Next /\ Undisturbed']_vars => SerialInv'
<1> SUFFICES ASSUME SerialInv, [Next /\ Undisturbed']_vars PROVE SerialInv'
  OBVIOUS
<1>1. [Next]_vars /\ IInv'
  BY NextInv DEF SerialInv
<1>2. Undisturbed'
  BY DEF SerialInv, Undisturbed, At, vars
<1>3. NoTotalsYet' /\ TotalsHold' /\ OneStory'
  BY <1>1, TotalsStep, StoryStep
<1>4. \A c \in Callers : UpToDate(c)'
  <2>1. CASE UNCHANGED call
    BY <1>1, <2>1, BystanderStep
  <2>2. CASE \E c \in Callers :
               (\E r \in Runs : Begin(c, r)) \/ Continue(c) \/ Fail(c)
    BY <1>1, <2>2, MoverStep
  <2> QED
    BY <1>1, <2>1, <2>2 DEF Next, CreateRun, Cancel, CancelAgain, vars
<1> QED
  BY <1>1, <1>2, <1>3, <1>4 DEF SerialInv

LEMMA SerialSafe == SerialSpec => []SerialInv
  BY SerialInit, SerialStep, PTL DEF SerialSpec

\* If no run is closed or cancelled while a slip is being added to it, the
\* totals of a closed run are the sums of exactly the slips it holds.
THEOREM TotalsAreExact == SerialSpec => []TotalsAreTheSlips
<1>1. SerialInv => TotalsAreTheSlips
  BY DEF SerialInv, TotalsHold, Frozen, TotalsAreTheSlips
<1> QED
  BY <1>1, SerialSafe, PTL

\* Under the same discipline the journal, the event and the remittances of a
\* run are all about the slips it was closed with.
THEOREM OneStoryIsTold == SerialSpec => []OneStory
<1>1. SerialInv => OneStory
  BY DEF SerialInv
<1> QED
  BY <1>1, SerialSafe, PTL

-------------------------------------------------------------------------------
(* RunLife is implemented, without any discipline                            *)

\* What only moves a caller or the outside leaves the life of the runs alone.
LEMMA LifeUnseen ==
  ASSUME UNCHANGED rows
  PROVE  UNCHANGED Life!vars
  BY DEF rows, Life!vars

LEMMA LifeStep ==
  ASSUME NEW r \in Runs, Life!Step(r)
  PROVE  [Life!Next]_(Life!vars)
  BY DEF Life!Next

\* One run's status moves, and those of the others stay.
LEMMA StatusMoves ==
  ASSUME TypeOK, NEW r \in Runs, NEW to,
         run'[r].status = to, \A q \in Runs \ {r} : run'[q] = run[q]
  PROVE  Life!Moves(r, run[r].status, to)
<1> DEFINE status == [q \in Runs |-> run[q].status]
           later == [q \in Runs |-> run'[q].status]
<1>1. later = [status EXCEPT ![r] = to]
  OBVIOUS
<1> QED
  BY <1>1 DEF Life!Moves

LEMMA LifeOfRows ==
  ASSUME TypeOK, NEW r \in Runs, CreateRun(r) \/ Cancel(r)
  PROVE  Life!Step(r)
<1>1. CASE CreateRun(r)
  <2>1. PICK set \in BOOLEAN :
          run' = [run EXCEPT ![r].status = "draft", ![r].accounts = set]
    BY <1>1 DEF CreateRun
  <2>2. /\ run'[r].status = "draft"
        /\ \A q \in Runs \ {r} : run'[q] = run[q]
    BY <2>1 DEF TypeOK, RunRow
  <2>3. Life!Moves(r, "absent", "draft")
    BY <1>1, <2>2, StatusMoves DEF CreateRun
  <2> QED
    BY <1>1, <2>3 DEF CreateRun, Life!Create, Life!Step
<1>2. CASE Cancel(r)
  <2>1. /\ run'[r].status = "cancelled"
        /\ \A q \in Runs \ {r} : run'[q] = run[q]
    BY <1>2 DEF Cancel, TypeOK, RunRow
  <2>2. CASE run[r].status = "draft"
    <3>1. Life!Moves(r, "draft", "cancelled")
      BY <2>1, <2>2, StatusMoves
    <3> QED
      BY <1>2, <2>2, <3>1
         DEF Cancel, CancelDropsSlips, Life!CancelDraft, Life!Step
  <2>3. CASE run[r].status = "processed"
    <3>1. Life!Moves(r, "processed", "cancelled")
      BY <2>1, <2>3, StatusMoves
    <3> QED
      BY <1>2, <2>3, <3>1
         DEF Cancel, CancelDropsSlips, Life!CancelProcessed, Life!Step
  <2> QED
    BY <1>2, <2>2, <2>3 DEF Cancel, MayCancel
<1> QED
  BY <1>1, <1>2

\* A run a caller is adding a slip to is on file, and a sum that is stored was
\* of slips the draft still has.
LEMMA LifeOfCalls ==
  ASSUME IInv, NEW c \in Callers,
         CommitSlip(c) \/ MarkProcessed(c) \/ MarkPosted(c)
  PROVE  [Life!Next]_(Life!vars)
<1> DEFINE r == call[c].run
<1>1. TypeOK /\ r \in Runs /\ Carried(c)
  BY CarriedByStep DEF IInv, CommitSlip, MarkProcessed, MarkPosted
<1>2. PICK q \in Runs : q = r
  BY <1>1
<1>3. CASE CommitSlip(c)
  <2>1. call[c].slip \in Employees /\ run[q].status # "absent"
    BY <1>1, <1>2, <1>3, CarriedByStep DEF CommitSlip, Carried, At
  <2>2. CASE call[c].slip \in slips[q]
    <3>1. UNCHANGED rows
      BY <1>1, <1>2, <1>3, <2>2 DEF CommitSlip, TypeOK, rows
    <3> QED
      BY <3>1, LifeUnseen
  <2>3. CASE call[c].slip \notin slips[q]
    <3>1. Life!AddSlip(q, call[c].slip)
      BY <1>2, <1>3, <2>1, <2>3 DEF CommitSlip, Life!AddSlip
    <3> QED
      BY <2>1, <3>1, LifeStep DEF Life!Step
  <2> QED
    BY <2>2, <2>3
<1>4. CASE MarkProcessed(c)
  <2>1. CASE UNCHANGED run
    BY <1>4, <2>1, LifeUnseen DEF MarkProcessed, rows
  <2>2. CASE /\ run[r].status = "draft"
             /\ run' = [run EXCEPT ![r].status = "processed",
                                   ![r].summed = call[c].summed]
    <3>1. slips[q] # {}
      BY <1>1, <1>2, <1>4, <2>2 DEF MarkProcessed, Carried
    <3>2. /\ run'[q].status = "processed"
          /\ \A x \in Runs \ {q} : run'[x] = run[x]
      BY <1>1, <1>2, <2>2 DEF TypeOK, RunRow
    <3>3. Life!Moves(q, "draft", "processed")
      BY <1>1, <1>2, <2>2, <3>2, StatusMoves
    <3> QED
      BY <1>4, <3>1, <3>3, LifeStep DEF MarkProcessed, Life!Process, Life!Step
  <2> QED
    BY <1>4, <2>1, <2>2 DEF MarkProcessed, MayMarkProcessed
<1>5. CASE MarkPosted(c)
  <2>1. CASE UNCHANGED run
    BY <1>5, <2>1, LifeUnseen DEF MarkPosted, rows
  <2>2. CASE /\ run[r].status = "processed"
             /\ run' = [run EXCEPT ![r].status = "posted",
                                   ![r].journal = call[c].journal]
    <3>1. /\ run'[q].status = "posted"
          /\ \A x \in Runs \ {q} : run'[x] = run[x]
      BY <1>1, <1>2, <2>2 DEF TypeOK, RunRow
    <3>2. Life!Moves(q, "processed", "posted")
      BY <1>1, <1>2, <2>2, <3>1, StatusMoves
    <3> QED
      BY <1>5, <3>2, LifeStep DEF MarkPosted, Life!Post, Life!Step
  <2> QED
    BY <1>5, <2>1, <2>2 DEF MarkPosted, MayMarkPosted
<1> QED
  BY <1>3, <1>4, <1>5

LEMMA LifeNext ==
  IInv /\ [Next]_vars => [Life!Next]_(Life!vars)
<1> SUFFICES ASSUME IInv, [Next]_vars PROVE [Life!Next]_(Life!vars)
  OBVIOUS
<1>1. CASE \E r \in Runs : CreateRun(r) \/ Cancel(r)
  BY <1>1, LifeOfRows, LifeStep DEF IInv
<1>2. CASE \E r \in Runs : CancelAgain(r)
  BY <1>2, LifeUnseen DEF CancelAgain, vars, rows
<1>3. CASE \E c \in Callers, r \in Runs : Begin(c, r)
  BY <1>3, LifeUnseen
     DEF Begin, BeginSlip, SumSlips, BeginPost, BeginRepost, BeginRemit
<1>4. CASE \E c \in Callers : Fail(c)
  BY <1>4, LifeUnseen
     DEF Fail, RejectPosting, FailPublish, RefuseRemittance, Crash
<1>5. ASSUME NEW c \in Callers, Continue(c) PROVE [Life!Next]_(Life!vars)
  <2>1. CASE \/ GroupDeductions(c) \/ PostToLedger(c) \/ FetchJournal(c)
             \/ Regroup(c) \/ Publish(c) \/ GroupPayables(c) \/ RemitOne(c)
    BY <2>1, LifeUnseen
       DEF GroupDeductions, PostToLedger, FetchJournal, Regroup, Publish,
           GroupPayables, RemitOne, rows
  <2> QED
    BY <1>5, <2>1, LifeOfCalls DEF Continue
<1>6. CASE UNCHANGED vars
  BY <1>6, LifeUnseen DEF vars, rows
<1> QED
  BY <1>1, <1>2, <1>3, <1>4, <1>5, <1>6 DEF Next

\* Whatever callers do to a run and however they are interrupted, everybody else
\* sees the life of RunLife: one status or one slip a step, no run closed without
\* a slip, and no slip dropped but a cancelled draft's.
THEOREM LivesAsRunsDo == Spec => ImplementsLife
<1>1. Init => Life!Init
  BY DEF Init, Life!Init
<1>2. IInv /\ [Next]_vars => [Life!Next]_(Life!vars)
  BY LifeNext
<1> QED
  BY <1>1, <1>2, Safe, PTL DEF Spec, ImplementsLife, Life!Spec

-------------------------------------------------------------------------------
(* SalaryBook is implemented: every step is one of its steps or a stutter    *)

\* A step that only moves a caller is not seen from outside.
LEMMA UnseenStep ==
  ASSUME UNCHANGED <<rows, outside>>
  PROVE  UNCHANGED Book!vars
  BY DEF rows, outside, Book!vars

\* A step of the book on one run, or one of its entries, is a step of the book.
LEMMA OneRunsStep ==
  ASSUME NEW r \in Runs,
         \/ Book!Open(r) \/ Book!Close(r)
         \/ Book!VoidDraft(r) \/ Book!VoidClosed(r)
         \/ Book!Book(r) \/ Book!Post(r) \/ Book!Announce(r)
         \/ \E e \in Employees : Book!Enrol(r, e)
         \/ \E a \in Accounts : Book!Remit(r, a)
  PROVE  [Book!Next]_(Book!vars)
  BY DEF Book!Next

LEMMA RunStepSeen ==
  ASSUME SerialInv, NEW r \in Runs, CreateRun(r) \/ Cancel(r)
  PROVE  [Book!Next]_(Book!vars)
<1>1. TypeOK
  BY DEF SerialInv, IInv
<1>2. CASE CreateRun(r)
  <2>1. PICK set \in BOOLEAN :
          run' = [run EXCEPT ![r].status = "draft", ![r].accounts = set]
    BY <1>2 DEF CreateRun
  <2>2. [q \in Runs |-> run'[q].status] =
          [[q \in Runs |-> run[q].status] EXCEPT ![r] = "draft"]
    BY <1>1, <2>1 DEF TypeOK, RunRow
  <2>3. Book!Open(r)
    BY <1>2, <2>2 DEF CreateRun, outside, Book!Open
  <2> QED
    BY <2>3, OneRunsStep
<1>3. CASE Cancel(r)
  <2>1. [q \in Runs |-> run'[q].status] =
          [[q \in Runs |-> run[q].status] EXCEPT ![r] = "cancelled"]
    BY <1>1, <1>3 DEF Cancel, TypeOK, RunRow
  <2>2. run[r].status = "draft" => Book!VoidDraft(r)
    BY <1>3, <2>1 DEF Cancel, CancelDropsSlips, outside, Book!VoidDraft
  <2>3. run[r].status = "processed" => Book!VoidClosed(r)
    BY <1>3, <2>1 DEF Cancel, CancelDropsSlips, outside, Book!VoidClosed
  <2> QED
    BY <1>3, <2>2, <2>3, OneRunsStep DEF Cancel, MayCancel
<1> QED
  BY <1>2, <1>3

LEMMA SlipSeen ==
  ASSUME SerialInv, NEW c \in Callers, CommitSlip(c)
  PROVE  [Book!Next]_(Book!vars)
<1>1. /\ call[c].run \in Runs /\ call[c].slip \in Employees
      /\ run[call[c].run].status = "draft"
  BY CarriedByStep DEF SerialInv, IInv, Undisturbed, CommitSlip
<1>2. Book!Enrol(call[c].run, call[c].slip)
  BY <1>1 DEF CommitSlip, outside, Book!Enrol
<1> QED
  BY <1>1, <1>2, OneRunsStep

LEMMA MarksSeen ==
  ASSUME SerialInv, NEW c \in Callers, MarkProcessed(c) \/ MarkPosted(c)
  PROVE  [Book!Next]_(Book!vars)
<1> DEFINE r == call[c].run
<1>1. TypeOK /\ r \in Runs /\ Carried(c) /\ UpToDate(c)
  BY CarriedByStep DEF SerialInv, IInv, MarkProcessed, MarkPosted
<1>0. PICK q \in Runs : q = r
  BY <1>1
<1>2. CASE MarkProcessed(c)
  <2>1. CASE UNCHANGED run
    BY <1>2, <2>1, UnseenStep DEF MarkProcessed, rows
  <2>2. CASE /\ run[r].status = "draft"
             /\ run' = [run EXCEPT ![r].status = "processed",
                                   ![r].summed = call[c].summed]
    <3>1. [x \in Runs |-> run'[x].status] =
            [[x \in Runs |-> run[x].status] EXCEPT ![r] = "processed"]
      BY <1>1, <2>2 DEF TypeOK, RunRow
    <3>2. slips[r] # {}
      BY <1>1, <1>2, <2>2 DEF MarkProcessed, Carried, UpToDate
    <3>3. Book!Close(q)
      BY <1>0, <1>1, <1>2, <2>2, <3>1, <3>2 DEF MarkProcessed, outside, Book!Close
    <3> QED
      BY <3>3, OneRunsStep
  <2> QED
    BY <1>2, <2>1, <2>2 DEF MarkProcessed, MayMarkProcessed
<1>3. CASE MarkPosted(c)
  <2>1. CASE UNCHANGED run
    BY <1>3, <2>1, UnseenStep DEF MarkPosted, rows
  <2>2. CASE /\ run[r].status = "processed"
             /\ run' = [run EXCEPT ![r].status = "posted",
                                   ![r].journal = call[c].journal]
    <3>1. [x \in Runs |-> run'[x].status] =
            [[x \in Runs |-> run[x].status] EXCEPT ![r] = "posted"]
      BY <1>1, <2>2 DEF TypeOK, RunRow
    <3>2. call[c].journal \in ledger /\ call[c].journal.run = r
      BY <1>1, <1>3 DEF MarkPosted, Carried, At
    <3>3. <<r, slips[r], slips[r]>> \in
            {<<j.run, j.summed, j.grouped>> : j \in ledger}
      BY <3>2, SMTT(40) DEF SerialInv, OneStory
    <3>4. Book!Post(q)
      BY <1>0, <1>1, <1>3, <2>2, <3>1, <3>3 DEF MarkPosted, outside, Book!Post
    <3> QED
      BY <3>4, OneRunsStep
  <2> QED
    BY <1>3, <2>1, <2>2 DEF MarkPosted, MayMarkPosted
<1> QED
  BY <1>2, <1>3

LEMMA OutsideSeen ==
  ASSUME SerialInv, NEW c \in Callers,
         PostToLedger(c) \/ Publish(c) \/ RemitOne(c)
  PROVE  [Book!Next]_(Book!vars)
<1> DEFINE r == call[c].run
<1>1. TypeOK /\ r \in Runs /\ Carried(c) /\ UpToDate(c)
  BY CarriedByStep DEF SerialInv, IInv, PostToLedger, Publish, RemitOne
<1>0. PICK q \in Runs : q = r
  BY <1>1
<1>2. UNCHANGED rows
  BY DEF PostToLedger, Publish, RemitOne
<1>3. CASE PostToLedger(c)
  <2>1. /\ Frozen(r) /\ call[c].summed = slips[r] /\ call[c].grouped = slips[r]
        /\ slips[r] # {}
    BY <1>1, <1>3
       DEF PostToLedger, Carried, UpToDate, SerialInv, TotalsHold, At
  <2>2. CASE JournalsOf(r, call[c].summed) # {}
    <3>1. UNCHANGED outside
      BY <1>3, <2>2 DEF PostToLedger, JournalsOf, outside
    <3> QED
      BY <1>2, <3>1, UnseenStep
  <2>3. CASE JournalsOf(r, call[c].summed) = {}
    <3>1. ledger' = ledger \cup {[run |-> r, summed |-> slips[r],
                                  grouped |-> slips[r]]}
      BY <1>3, <2>1, <2>3 DEF PostToLedger
    <3>2. run[r].status # "posted"
      BY <1>1, <2>3 DEF SerialInv, IInv, PostedIsBooked, JournalsOf
    <3>3. {<<j.run, j.summed, j.grouped>> : j \in ledger'} =
            {<<j.run, j.summed, j.grouped>> : j \in ledger}
              \cup {<<r, slips[r], slips[r]>>}
      <4> DEFINE new == [run |-> r, summed |-> slips[r], grouped |-> slips[r]]
      <4> DEFINE seen(j) == <<j.run, j.summed, j.grouped>>
      <4>1. seen(new) = <<r, slips[r], slips[r]>>
        OBVIOUS
      <4>2. ledger' = ledger \cup {new}
        BY <3>1
      <4> HIDE DEF new, seen
      <4>3. {seen(j) : j \in ledger'} =
             {seen(j) : j \in ledger} \cup {seen(new)}
        BY <4>2
      <4> QED
        BY <4>1, <4>3 DEF seen
    <3>4. Book!Book(q)
      BY <1>0, <1>1, <1>2, <1>3, <2>1, <3>2, <3>3
         DEF PostToLedger, Frozen, rows, Book!Book
    <3> QED
      BY <3>4, OneRunsStep
  <2> QED
    BY <2>2, <2>3
<1>4. CASE Publish(c)
  <2>1. /\ run[r].status = "posted" /\ call[c].grouped = slips[r]
        /\ call[c].summed = slips[r]
    BY <1>1, <1>4
       DEF Publish, Carried, UpToDate, SerialInv, TotalsHold, Frozen, At
  <2>2. published' = published \cup
          {[run |-> r, journal |-> call[c].journal,
            summed |-> slips[r], grouped |-> slips[r]]}
    BY <1>4, <2>1 DEF Publish
  <2>3. {<<e.run, e.summed, e.grouped>> : e \in published'} =
          {<<e.run, e.summed, e.grouped>> : e \in published}
            \cup {<<r, slips[r], slips[r]>>}
    <3> DEFINE new == [run |-> r, journal |-> call[c].journal,
                         summed |-> slips[r], grouped |-> slips[r]]
    <3> DEFINE seen(e) == <<e.run, e.summed, e.grouped>>
    <3>1. seen(new) = <<r, slips[r], slips[r]>>
      OBVIOUS
    <3>2. published' = published \cup {new}
      BY <2>2
    <3> HIDE DEF new, seen
    <3>3. {seen(e) : e \in published'} =
           {seen(e) : e \in published} \cup {seen(new)}
      BY <3>2
    <3> QED
      BY <3>1, <3>3 DEF seen
  <2>4. Book!Announce(q)
    BY <1>0, <1>1, <1>2, <1>4, <2>1, <2>3 DEF Publish, rows, Book!Announce
  <2> QED
    BY <2>4, OneRunsStep
<1>5. CASE RemitOne(c)
  <2>1. run[r].status = "posted" /\ call[c].grouped = slips[r]
    BY <1>1, <1>5 DEF RemitOne, Carried, UpToDate, At
  <2>2. PICK a \in call[c].due :
          paid' = IF AlreadySent(r, a, call[c].grouped)
                    THEN paid
                    ELSE paid \cup {[run |-> r, account |-> a,
                                     grouped |-> slips[r]]}
    BY <1>5, <2>1 DEF RemitOne
  <2>3. a \in Accounts
    BY <1>5, CarriedByStep DEF RemitOne, SerialInv, IInv
  <2>4. CASE paid' = paid
    BY <1>2, <1>5, <2>4, UnseenStep DEF RemitOne, outside
  <2>5. CASE paid' = paid \cup {[run |-> r, account |-> a,
                                 grouped |-> slips[r]]}
    <3>1. {<<p.run, p.account, p.grouped>> : p \in paid'} =
            {<<p.run, p.account, p.grouped>> : p \in paid}
              \cup {<<r, a, slips[r]>>}
      <4> DEFINE new == [run |-> r, account |-> a, grouped |-> slips[r]]
      <4> DEFINE seen(p) == <<p.run, p.account, p.grouped>>
      <4>1. seen(new) = <<r, a, slips[r]>>
        OBVIOUS
      <4>2. paid' = paid \cup {new}
        BY <2>5
      <4> HIDE DEF new, seen
      <4>3. {seen(p) : p \in paid'} =
             {seen(p) : p \in paid} \cup {seen(new)}
        BY <4>2
      <4> QED
        BY <4>1, <4>3 DEF seen
    <3>2. Book!Remit(r, a)
      BY <1>1, <1>2, <1>5, <2>1, <3>1 DEF RemitOne, rows, Book!Remit
    <3> QED
      BY <1>1, <2>3, <3>2, OneRunsStep
  <2> QED
    BY <2>2, <2>4, <2>5
<1> QED
  BY <1>3, <1>4, <1>5

LEMMA StepSeen ==
  SerialInv /\ [Next /\ Undisturbed']_vars => [Book!Next]_(Book!vars)
<1> SUFFICES ASSUME SerialInv, [Next]_vars PROVE [Book!Next]_(Book!vars)
  OBVIOUS
<1>1. CASE \E r \in Runs : CreateRun(r) \/ Cancel(r)
  BY <1>1, RunStepSeen
<1>2. CASE \E r \in Runs : CancelAgain(r)
  BY <1>2, UnseenStep DEF CancelAgain, vars, rows, outside
<1>3. CASE \E c \in Callers, r \in Runs : Begin(c, r)
  BY <1>3, UnseenStep
     DEF Begin, BeginSlip, SumSlips, BeginPost, BeginRepost, BeginRemit
<1>4. CASE \E c \in Callers : Fail(c)
  BY <1>4, UnseenStep
     DEF Fail, RejectPosting, FailPublish, RefuseRemittance, Crash
<1>5. ASSUME NEW c \in Callers, Continue(c) PROVE [Book!Next]_(Book!vars)
  <2>1. CASE GroupDeductions(c) \/ FetchJournal(c) \/ Regroup(c)
               \/ GroupPayables(c)
    BY <2>1, UnseenStep
       DEF GroupDeductions, FetchJournal, Regroup, GroupPayables
  <2> QED
    BY <1>5, <2>1, SlipSeen, MarksSeen, OutsideSeen DEF Continue
<1>6. CASE UNCHANGED vars
  BY <1>6, UnseenStep DEF vars, rows, outside
<1> QED
  BY <1>1, <1>2, <1>3, <1>4, <1>5, <1>6 DEF Next

\* Under the discipline the engine keeps the promise of SalaryBook: one closed
\* roster is booked at most once, announced and remitted, and nothing else is.
THEOREM KeepsTheBook == SerialSpec => ImplementsBook
<1>1. Init => Book!Init
  BY DEF Init, Book!Init
<1>2. SerialInv /\ [Next /\ Undisturbed']_vars => [Book!Next]_(Book!vars)
  BY StepSeen
<1> QED
  BY <1>1, <1>2, SerialSafe, PTL DEF SerialSpec, ImplementsBook, Book!Spec

===============================================================================
