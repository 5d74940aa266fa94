--------------------------- MODULE CompensationInbox ---------------------------
(*****************************************************************************)
(* HR events that become compensation rows: a hire, a completed onboarding,  *)
(* an effective promotion and a closed offboarding.  The relay delivers an   *)
(* event until a handler has answered it, to several workers if it must, and *)
(* the events of an employee come from the outboxes of different modules, in *)
(* any order.                                                                *)
(*                                                                           *)
(* A handler is one READ COMMITTED transaction: the inbox claim, a question  *)
(* about the employee, the row, commit.  A second claim of the same event    *)
(* waits for the first one's transaction (primary key); nothing else waits.  *)
(*****************************************************************************)
EXTENDS Integers, Sequences, FiniteSets

CONSTANTS Employees,
          Amounts,   \* salaries
          Events,    \* outbox rows of the producers
          Kind,      \* Kind[v]: which of the four events v is
          Who,       \* Who[v]: the employee v is about
          Offered,   \* Offered[v]: the amount the payload carries, or None
          Workers,   \* concurrent deliveries
          None       \* no amount

Kinds == {"hire", "onboarding", "promotion", "offboarding"}
Absent == "no employee row"
ForReview == "zero, for manual review"
Entry == Amounts \cup {ForReview}

\* The id of a hired employee is derived from the hire.
ASSUME InboxAssumption ==
  /\ Kind \in [Events -> Kinds]
  /\ Who \in [Events -> Employees]
  /\ Offered \in [Events -> Amounts \cup {None}]
  /\ Amounts \cap {None, Absent, ForReview} = {}
  /\ None \notin {Absent, ForReview}
  /\ \A v, w \in Events :
       Kind[v] = "hire" /\ Kind[w] = "hire" /\ Who[v] = Who[w] => v = w

VARIABLES
  salary,   \* employee.employees: no row, base_salary NULL or an amount
  waiting,  \* events the relay has to deliver still (external)
  inbox,    \* inbox_consumed: events claimed for good
  changes,  \* compensation_changes: the rows each event left
  warned,   \* events a handler logged as skipped, for an operator to see
  call      \* where each worker is, with what it has read

vars == <<salary, waiting, inbox, changes, warned, call>>

Idle == [at |-> "idle"]
Down == [at |-> "down"]

Call ==
       {Idle, Down}
  \cup [at : {"claim", "look"}, event : Events, read : Amounts \cup {None}]
  \cup [at : {"write"}, event : Events, row : Entry \cup {None}]
  \cup [at : {"answer"}, event : Events]

TypeOK ==
  /\ salary \in [Employees -> Amounts \cup {None, Absent}]
  /\ waiting \subseteq Events
  /\ inbox \subseteq Events
  /\ changes \in [Events -> Seq(Entry)]
  /\ warned \subseteq Events
  /\ call \in [Workers -> Call]

Init ==
  /\ salary = [e \in Employees |-> Absent]
  /\ waiting = Events
  /\ inbox = {}
  /\ changes = [v \in Events |-> <<>>]
  /\ warned = {}
  /\ call = [w \in Workers |-> Idle]

Goto(w, step) == call' = [call EXCEPT ![w] = step]
At(w, label) == call[w].at = label
HasRows(e) == \E v \in Events : Who[v] = e /\ changes[v] # <<>>

-------------------------------------------------------------------------------
\* Plausible errors in the definitions below, put in their place by the
\* mutation runs only.
Always(v) == TRUE
InInbox(e) == \E v \in inbox : Who[v] = e
Salaried(e) == salary[e] \in Amounts
Unfiltered(e) == salary[e]

-------------------------------------------------------------------------------
(* The employee module (external) *)

AddEmployee(e) ==
  /\ salary[e] = Absent
  /\ \E s \in Amounts \cup {None} : salary' = [salary EXCEPT ![e] = s]
  /\ UNCHANGED <<waiting, inbox, changes, warned, call>>

\* HR records a starting salary, or another one.
SetSalary(e) ==
  /\ salary[e] # Absent
  /\ \E s \in Amounts : salary' = [salary EXCEPT ![e] = s]
  /\ UNCHANGED <<waiting, inbox, changes, warned, call>>

-------------------------------------------------------------------------------
(* Handling an event *)

\* What a handler knows of the amount when its transaction begins: the
\* payload's, except that an onboarding asks the employee row before it.
StartingSalary(e) == IF salary[e] = Absent THEN None ELSE salary[e]
Amount(v) ==
  IF Kind[v] = "onboarding" THEN StartingSalary(Who[v]) ELSE Offered[v]

Deliver(w, v) ==
  /\ At(w, "idle")
  /\ v \in waiting
  /\ Goto(w, [at |-> "claim", event |-> v, read |-> Amount(v)])
  /\ UNCHANGED <<salary, waiting, inbox, changes, warned>>

\* inbox::once inserts and finds the key free, or taken and committed.
FirstTime(v) == v \notin inbox

ClaimHeld(v) ==
  \E w \in Workers : call[w].at \in {"look", "write"} /\ call[w].event = v

Claim(w) ==
  LET v == call[w].event IN
  /\ At(w, "claim")
  /\ ~ClaimHeld(v)
  /\ IF FirstTime(v)
       THEN Goto(w, [call[w] EXCEPT !.at = "look"])
       ELSE Goto(w, [at |-> "answer", event |-> v])
  /\ UNCHANGED <<salary, waiting, inbox, changes, warned>>

\* SELECT EXISTS of compensation rows of the employee, as committed so far.
Compensated(e) == HasRows(e)

\* SELECT EXISTS of the employee.
Employed(e) == salary[e] # Absent

\* The row each kind of event is worth, or None for claim-but-skip.
Row(v, read) ==
  CASE Kind[v] = "onboarding" -> IF Compensated(Who[v]) THEN None ELSE read
    [] Kind[v] = "offboarding" -> IF read = None THEN ForReview ELSE read
    [] OTHER -> read

\* A hire with a salary to record needs its employee and is refused without:
\* the claim rolls back and the event stays with the relay.
Refused(v, read) == Kind[v] = "hire" /\ read # None /\ ~Employed(Who[v])

\* A first salary that is missing is logged; a promotion's is not.
Warns(v, read) ==
  /\ read = None
  /\ \/ Kind[v] = "hire"
     \/ Kind[v] = "onboarding" /\ ~Compensated(Who[v])

Look(w) ==
  LET v == call[w].event
      read == call[w].read
  IN
  /\ At(w, "look")
  /\ IF Refused(v, read)
       THEN Goto(w, Idle)
       ELSE Goto(w, [at |-> "write", event |-> v, row |-> Row(v, read)])
  /\ warned' = IF Warns(v, read) THEN warned \cup {v} ELSE warned
  /\ UNCHANGED <<salary, waiting, inbox, changes>>

\* The row, if any, and the claim commit together.
Commit(w) ==
  LET v == call[w].event
      row == call[w].row
  IN
  /\ At(w, "write")
  /\ changes' = IF row = None THEN changes
                ELSE [changes EXCEPT ![v] = Append(@, row)]
  /\ inbox' = inbox \cup {v}
  /\ Goto(w, [at |-> "answer", event |-> v])
  /\ UNCHANGED <<salary, waiting, warned>>

\* The handler's Ok reaches the relay.
Answer(w) ==
  /\ At(w, "answer")
  /\ waiting' = waiting \ {call[w].event}
  /\ Goto(w, Idle)
  /\ UNCHANGED <<salary, inbox, changes, warned>>

\* The process dies, a statement fails or the answer is lost: an open
\* transaction leaves nothing, and the relay delivers again when it can.
Crash(w) ==
  /\ call[w].at \notin {"idle", "down"}
  /\ Goto(w, Down)
  /\ UNCHANGED <<salary, waiting, inbox, changes, warned>>

Restart(w) ==
  /\ At(w, "down")
  /\ Goto(w, Idle)
  /\ UNCHANGED <<salary, waiting, inbox, changes, warned>>

Continue(w) ==
  \/ Claim(w) \/ Look(w) \/ Commit(w) \/ Answer(w) \/ Restart(w)

Next ==
  \/ \E e \in Employees : AddEmployee(e) \/ SetSalary(e)
  \/ \E w \in Workers :
       \/ \E v \in Events : Deliver(w, v)
       \/ Continue(w)
       \/ Crash(w)

Spec == Init /\ [][Next]_vars

(* Fairness.  The consumer registered before this one creates the employee   *)
(* of a hire in the end; a handler that runs goes on, and the time comes     *)
(* when none dies; the relay has not given up on an event by then and keeps  *)
(* delivering it until it is answered.                                       *)
FairSpec ==
  /\ Spec
  /\ \A e \in Employees : WF_vars(AddEmployee(e))
  /\ \A w \in Workers : WF_vars(Continue(w))
  /\ <>[][\A w \in Workers : ~Crash(w)]_vars
  /\ \A v \in Events : SF_vars(\E w \in Workers : Deliver(w, v))

-------------------------------------------------------------------------------
(* Properties *)

\* However often and to however many workers an event is delivered, it leaves
\* one row at most, and none before its claim has committed.
OneEffect ==
  \A v \in Events :
    /\ Len(changes[v]) <= 1
    /\ v \notin inbox => changes[v] = <<>>

\* A claimed event left its row, or its employee has others, or somebody was
\* told: only a promotion without a salary is skipped in silence.
SkipsAreVisible ==
  \A v \in inbox : changes[v] = <<>> =>
    \/ v \in warned
    \/ Kind[v] = "onboarding" /\ HasRows(Who[v])
    \/ Kind[v] = "promotion" /\ Offered[v] = None

\* Every event is consumed in the end, a hire that came before its employee
\* included.
AllConsumed == \A v \in Events : <>(v \in inbox)

\* onboarding_enrolled_handler.rs: a joiner who has rows "keeps it: completing
\* the onboarding adds no second initial row".
NoSecondInitialRow ==
  [][\A v \in Events :
       Kind[v] = "onboarding" /\ changes'[v] # changes[v] => ~HasRows(Who[v])]_vars

================================================================================
