-------------------------- MODULE PayScheduleProofs ---------------------------
(*****************************************************************************)
(* Theorems about PaySchedule for any items, runs, callers and changes, and  *)
(* any number of days: first of its full interleaving (Spec), then of what   *)
(* holds when changes of a structure are planned and withdrawn one at a time *)
(* and no slip is being added meanwhile (QuietSpec).                         *)
(*****************************************************************************)
EXTENDS PaySchedule, FiniteSums

-------------------------------------------------------------------------------
(* The operators *)

LEMMA InForceIsPay ==
  ASSUME NEW f \in Versions, NEW d \in Nat, DatesUpTo(f, d) # {}
  PROVE  InForce(f, d) \in Pay
<1>1. PICK D \in SUBSET (0..LastDay) : f \in [D -> Pay]
  BY DEF Versions
<1>2. DatesUpTo(f, d) \in SUBSET (0..LastDay)
  BY <1>1 DEF DatesUpTo
<1>3. Max(DatesUpTo(f, d)) \in DatesUpTo(f, d)
  BY <1>2, LastUpTo, ScheduleAssumption
<1> QED
  BY <1>1, <1>3 DEF InForce, DatesUpTo

\* What is due is due to components that have versions.
LEMMA DueIsTyped ==
  ASSUME NEW vs \in [Items -> Versions], NEW d \in Nat
  PROVE  /\ Due(vs, d) \in DueRows
         /\ \A i \in DOMAIN Due(vs, d) : i \in Items /\ DOMAIN vs[i] # {}
<1> DEFINE S == {i \in Items : DatesUpTo(vs[i], d) # {}}
<1>1. \A i \in S : InForce(vs[i], d) \in Pay
  BY InForceIsPay
<1>2. Due(vs, d) \in [S -> Pay]
  BY <1>1 DEF Due
<1>3. \A i \in S : DOMAIN vs[i] # {}
  BY DEF DatesUpTo
<1> QED
  BY <1>2, <1>3 DEF DueRows

LEMMA MovedIsTyped ==
  ASSUME NEW rows, NEW due \in DueRows
  PROVE  /\ Moved(rows, due) \in DueRows
         /\ DOMAIN Moved(rows, due) \subseteq DOMAIN due
<1>1. PICK S \in SUBSET Items : due \in [S -> Pay]
  BY DEF DueRows
<1> DEFINE M == {i \in S : rows[i] # due[i]}
<1>2. Moved(rows, due) = [i \in M |-> due[i]]
  BY <1>1 DEF Moved, Restrict
<1>3. Moved(rows, due) \in [M -> Pay] /\ M \in SUBSET Items
  BY <1>1, <1>2
<1> QED
  BY <1>1, <1>2, <1>3 DEF DueRows

LEMMA UpsertIsTyped ==
  ASSUME NEW f \in Versions, NEW d \in 0..LastDay, NEW value \in Pay
  PROVE  /\ Upsert(f, d, value) \in Versions
         /\ DOMAIN Upsert(f, d, value) = DOMAIN f \cup {d}
<1>1. PICK D \in SUBSET (0..LastDay) : f \in [D -> Pay]
  BY DEF Versions
<1>2. Upsert(f, d, value) \in [D \cup {d} -> Pay]
  BY <1>1 DEF Upsert
<1>3. D \cup {d} \in SUBSET (0..LastDay)
  OBVIOUS
<1> QED
  BY <1>1, <1>2, <1>3 DEF Versions

\* Applying moves no row but those due, and makes none appear or go.
LEMMA ApplyIsTyped ==
  ASSUME NEW rows \in [Items -> Pay \cup {Unborn, Gone}], NEW due \in DueRows
  PROVE  /\ Apply(rows, due) \in [Items -> Pay \cup {Unborn, Gone}]
         /\ \A i \in Items :
              /\ rows[i] \notin Pay => Apply(rows, due)[i] = rows[i]
              /\ i \notin DOMAIN due => Apply(rows, due)[i] = rows[i]
              /\ rows[i] \in Pay => Apply(rows, due)[i] \in Pay
  BY DEF Apply, DueRows

-------------------------------------------------------------------------------
(* Type correctness *)

\* Where a caller stands determines what it carries.
LEMMA CarriedByStep ==
  ASSUME TypeOK, NEW c \in Callers
  PROVE  /\ At(c, "plan") =>
              call[c] \in [at : {"plan"}, from : Days, sets : Change,
                           today : Days, versioned : SUBSET Items]
         /\ At(c, "check") =>
              call[c] \in [at : {"check"}, from : Days, sets : Change,
                           today : Days, versioned : SUBSET Items]
         /\ At(c, "write") =>
              call[c] \in [at : {"write"}, from : Days, sets : Change,
                           today : Days, versioned : SUBSET Items,
                           reached : SUBSET Runs]
         /\ At(c, "withdraw") => call[c] \in [at : {"withdraw"}, from : Days]
         /\ At(c, "slip") =>
              call[c] \in [at : {"slip"}, run : Runs, priced : [Items -> Pay]]
  BY DEF TypeOK, Call, At, Idle

\* A caller may move to any step that carries well-typed reads.
LEMMA GotoIsTyped ==
  ASSUME TypeOK, NEW c \in Callers, NEW step \in Call, Goto(c, step)
  PROVE  call' \in [Callers -> Call]
  BY DEF TypeOK, Goto

LEMMA ReturnIsTyped ==
  ASSUME TypeOK, NEW c \in Callers, Return(c)
  PROVE  call' \in [Callers -> Call]
  BY DEF TypeOK, Goto, Return, Call

LEMMA DaysAreDates == Days \subseteq 0..LastDay /\ Days \subseteq Nat
                      /\ Baseline \in 0..LastDay /\ Baseline \notin Days
  BY ScheduleAssumption DEF Days, Baseline

LEMMA InsertedIsTyped ==
  ASSUME TypeOK, NEW sets
  PROVE  Inserted(sets) \in [Items -> Pay \cup {Unborn, Gone}]
  BY DEF TypeOK, Inserted, Pay

\* A planned change keeps every version, adds that of its date to the items it
\* sets and leaves the others alone.
LEMMA PlannedIsTyped ==
  ASSUME TypeOK, NEW from \in Days, NEW sets \in Change,
         NEW versioned \in SUBSET Items,
         \A i \in DOMAIN sets : ~Refused(i, versioned)
  PROVE  /\ Planned(from, sets, versioned) \in [Items -> Versions]
         /\ \A i \in Items \ DOMAIN sets :
              Planned(from, sets, versioned)[i] = versions[i]
         /\ \A i \in DOMAIN sets :
              DOMAIN Planned(from, sets, versioned)[i] =
                DOMAIN versions[i] \cup {from}
                \cup (IF NeedsBaseline(i, versioned) THEN {Baseline} ELSE {})
<1>1. PICK S \in SUBSET Items : sets \in [S -> Pay]
  BY DEF Change
<1> DEFINE known(i) == IF NeedsBaseline(i, versioned)
                         THEN Upsert(versions[i], Baseline, row[i])
                         ELSE versions[i]
<1>2. ASSUME NEW i \in S
      PROVE  /\ known(i) \in Versions
             /\ DOMAIN known(i) = DOMAIN versions[i]
                  \cup (IF NeedsBaseline(i, versioned) THEN {Baseline} ELSE {})
  <2>1. versions[i] \in Versions
    BY <1>1 DEF TypeOK
  <2>2. CASE NeedsBaseline(i, versioned)
    <3>1. row[i] \in Pay
      BY <1>1, <2>2 DEF TypeOK, NeedsBaseline, Refused
    <3> QED
      BY <2>1, <2>2, <3>1, UpsertIsTyped, DaysAreDates
  <2>3. CASE ~NeedsBaseline(i, versioned)
    BY <2>1, <2>3
  <2> QED
    BY <2>2, <2>3
<1>3. ASSUME NEW i \in S
      PROVE  /\ Upsert(known(i), from, sets[i]) \in Versions
             /\ DOMAIN Upsert(known(i), from, sets[i]) =
                  DOMAIN known(i) \cup {from}
  <2>1. known(i) \in Versions /\ from \in 0..LastDay /\ sets[i] \in Pay
    BY <1>1, <1>2, DaysAreDates
  <2> HIDE DEF known
  <2> QED
    BY <2>1, UpsertIsTyped
<1>4. Planned(from, sets, versioned) =
        [i \in Items |-> IF i \in S THEN Upsert(known(i), from, sets[i])
                         ELSE versions[i]]
  BY <1>1 DEF Planned
<1> HIDE DEF known
<1>5. \A i \in Items : versions[i] \in Versions
  BY DEF TypeOK
<1>6. Planned(from, sets, versioned) \in [Items -> Versions]
  BY <1>3, <1>4, <1>5
<1>7. ASSUME NEW i \in S
      PROVE  DOMAIN Planned(from, sets, versioned)[i] =
               DOMAIN versions[i] \cup {from}
               \cup (IF NeedsBaseline(i, versioned) THEN {Baseline} ELSE {})
  <2>1. Planned(from, sets, versioned)[i] = Upsert(known(i), from, sets[i])
    BY <1>1, <1>4
  <2> QED
    BY <1>2, <1>3, <2>1
<1>8. \A i \in Items \ S : Planned(from, sets, versioned)[i] = versions[i]
  BY <1>4
<1> QED
  BY <1>1, <1>6, <1>7, <1>8

LEMMA InitTypeOK == Init => TypeOK
<1> SUFFICES ASSUME Init PROVE TypeOK
  OBVIOUS
<1>1. today \in Days /\ row \in [Items -> Pay \cup {Unborn, Gone}]
  BY ScheduleAssumption DEF Init, Days
<1>2. Empty \in [{} -> Pay] /\ Empty \in [{} -> [Items -> Pay]]
  BY DEF Empty
<1>3. Empty \in Versions /\ Empty \in DueRows
  BY <1>2 DEF Versions, DueRows
<1>4. slip \in UNION {[R -> [Items -> Pay]] : R \in SUBSET Runs}
  BY <1>2 DEF Init
<1>5. call \in [Callers -> Call]
  BY DEF Init, Call
<1> QED
  BY <1>1, <1>3, <1>4, <1>5 DEF Init, TypeOK

LEMMA NextTypeOK == TypeOK /\ [Next]_vars => TypeOK'
<1> SUFFICES ASSUME TypeOK, [Next]_vars
             PROVE  TypeOK'
  OBVIOUS
<1>1. CASE Tick
  BY <1>1, ScheduleAssumption DEF Tick, TypeOK, Days
<1>2. CASE BeginPass
  <2>1. today \in Nat /\ versions \in [Items -> Versions]
    BY DaysAreDates DEF TypeOK
  <2>2. pass' \in DueRows
    BY <1>2, <2>1, DueIsTyped, MovedIsTyped DEF BeginPass
  <2> QED
    BY <1>2, <2>2 DEF BeginPass, TypeOK
<1>3. CASE FinishPass
  <2>1. row' \in [Items -> Pay \cup {Unborn, Gone}]
    BY <1>3, ApplyIsTyped DEF FinishPass, TypeOK
  <2>2. pass' \in DueRows
    <3>1. Empty \in [{} -> Pay]
      BY DEF Empty
    <3>2. [{} -> Pay] \subseteq DueRows
      BY Zenon DEF DueRows
    <3> QED
      BY <1>3, <3>1, <3>2 DEF FinishPass
  <2> QED
    BY <1>3, <2>1, <2>2 DEF FinishPass, TypeOK
<1>4. ASSUME NEW c \in Callers, NEW o \in Offers, BeginPlan(c, o[1], o[2])
      PROVE  TypeOK'
  <2>1. o[1] \in Days /\ o[2] \in Change
    BY ScheduleAssumption
  <2>2. [at |-> "plan", from |-> o[1], sets |-> o[2], today |-> today,
         versioned |-> {i \in Items : HasVersions(i)}] \in Call
    BY <2>1 DEF Call, TypeOK
  <2> QED
    BY <1>4, <2>2, GotoIsTyped DEF BeginPlan, TypeOK
<1>5. ASSUME NEW c \in Callers, NEW from \in Days, BeginWithdraw(c, from)
      PROVE  TypeOK'
  <2>1. [at |-> "withdraw", from |-> from] \in Call
    BY DEF Call
  <2> QED
    BY <1>5, <2>1, GotoIsTyped DEF BeginWithdraw, TypeOK
<1>6. ASSUME NEW c \in Callers, NEW r \in Runs, BeginSlip(c, r)
      PROVE  TypeOK'
  <2>1. Reading(Start[r]) \in [Items -> Pay]
    <3>1. Start[r] \in Nat
      BY ScheduleAssumption, DaysAreDates
    <3>2. ASSUME NEW i \in Items PROVE AsOf(i, Start[r]) \in Pay
      <4>1. versions[i] \in Versions
        BY DEF TypeOK
      <4> QED
        BY <3>1, <4>1, InForceIsPay DEF AsOf, InForce, Exists, Pay
    <3> QED
      BY <3>2 DEF Reading
  <2>2. [at |-> "slip", run |-> r, priced |-> Reading(Start[r])] \in Call
    BY <2>1 DEF Call
  <2> QED
    BY <1>6, <2>2, GotoIsTyped DEF BeginSlip, TypeOK
<1>7. ASSUME NEW c \in Callers, LockComponents(c) PROVE TypeOK'
  <2>1. [call[c] EXCEPT !.at = "check"] \in Call
    BY <1>7, CarriedByStep DEF LockComponents, Call
  <2> QED
    BY <1>7, <2>1, GotoIsTyped DEF LockComponents, TypeOK
<1>8. ASSUME NEW c \in Callers, CheckRuns(c) PROVE TypeOK'
  <2>1. Reached(call[c].from) \in SUBSET Runs
    BY DEF TypeOK, Reached
  <2>2. [at |-> "write", from |-> call[c].from, sets |-> call[c].sets,
         today |-> call[c].today, versioned |-> call[c].versioned,
         reached |-> Reached(call[c].from)] \in Call
    BY <1>8, <2>1, CarriedByStep DEF CheckRuns, Call
  <2>3. call' \in [Callers -> Call]
    BY <1>8, <2>2, GotoIsTyped, ReturnIsTyped DEF CheckRuns
  <2> QED
    BY <1>8, <2>3 DEF CheckRuns, TypeOK
<1>9. ASSUME NEW c \in Callers, WritePlan(c) PROVE TypeOK'
  <2> DEFINE p == call[c]
  <2>1. /\ p.from \in Days /\ p.today \in Nat /\ p.sets \in Change
        /\ p.versioned \in SUBSET Items /\ p.reached \in SUBSET Runs
    BY <1>9, CarriedByStep, DaysAreDates DEF WritePlan
  <2>2. call' \in [Callers -> Call]
    BY <1>9, ReturnIsTyped DEF WritePlan
  <2>3. CASE \E i \in DOMAIN p.sets : Refused(i, p.versioned)
    BY <1>9, <2>2, <2>3 DEF WritePlan, TypeOK
  <2>4. CASE \A i \in DOMAIN p.sets : ~Refused(i, p.versioned)
    <3>1. /\ versions' = Planned(p.from, p.sets, p.versioned)
          /\ row' = IF p.from <= p.today
                      THEN Apply(Inserted(p.sets), Due(versions', p.today))
                      ELSE Inserted(p.sets)
          /\ named' = named \cup p.reached
      BY <1>9, <2>4 DEF WritePlan
    <3>2. versions' \in [Items -> Versions]
      BY <2>1, <2>4, <3>1, PlannedIsTyped
    <3>3. Due(versions', p.today) \in DueRows
      BY <2>1, <3>2, DueIsTyped
    <3>4. row' \in [Items -> Pay \cup {Unborn, Gone}]
      BY <3>1, <3>3, InsertedIsTyped, ApplyIsTyped
    <3> QED
      BY <1>9, <2>1, <2>2, <3>1, <3>2, <3>4 DEF WritePlan, TypeOK
  <2> QED
    BY <2>3, <2>4
<1>10. ASSUME NEW c \in Callers, Withdraw(c) PROVE TypeOK'
  <2>1. ASSUME NEW i \in Items, NEW D
        PROVE  Restrict(versions[i], DOMAIN versions[i] \ D) \in Versions
    <3>1. PICK E \in SUBSET (0..LastDay) : versions[i] \in [E -> Pay]
      BY DEF TypeOK, Versions
    <3>2. Restrict(versions[i], DOMAIN versions[i] \ D) \in [E \ D -> Pay]
      BY <3>1 DEF Restrict
    <3> QED
      BY <3>2 DEF Versions
  <2>2. versions' \in [Items -> Versions]
    BY <1>10, <2>1 DEF Withdraw
  <2>3. row' \in [Items -> Pay \cup {Unborn, Gone}]
    BY <1>10 DEF Withdraw, TypeOK
  <2> QED
    BY <1>10, <2>2, <2>3, ReturnIsTyped DEF Withdraw, TypeOK
<1>11. ASSUME NEW c \in Callers, NEW r \in Runs, CommitSlip(c, r)
       PROVE  TypeOK'
  <2>1. call[c].priced \in [Items -> Pay]
    BY <1>11, CarriedByStep DEF CommitSlip
  <2>2. PICK R \in SUBSET Runs : slip \in [R -> [Items -> Pay]]
    BY DEF TypeOK
  <2>3. slip' \in [R -> [Items -> Pay]] \/ slip' \in [R \cup {r} -> [Items -> Pay]]
    BY <1>11, <2>1, <2>2 DEF CommitSlip
  <2>4. slip' \in UNION {[Q -> [Items -> Pay]] : Q \in SUBSET Runs}
    BY <2>1, <2>3
  <2> QED
    BY <1>11, <2>4, ReturnIsTyped DEF CommitSlip, TypeOK
<1>12. ASSUME NEW r \in Runs, ProcessRun(r) PROVE TypeOK'
  BY <1>12 DEF ProcessRun, TypeOK
<1>13. ASSUME NEW r \in Runs, CancelRun(r) PROVE TypeOK'
  <2>1. PICK R \in SUBSET Runs : slip \in [R -> [Items -> Pay]]
    BY DEF TypeOK
  <2>2. Restrict(slip, DOMAIN slip \ {r}) \in [R \ {r} -> [Items -> Pay]]
    BY <2>1 DEF Restrict
  <2>3. slip' \in UNION {[Q -> [Items -> Pay]] : Q \in SUBSET Runs}
    BY <1>13, <2>1, <2>2 DEF CancelRun
  <2> QED
    BY <1>13, <2>3 DEF CancelRun, TypeOK
<1>14. ASSUME NEW c \in Callers, Abort(c) PROVE TypeOK'
  BY <1>14, ReturnIsTyped DEF Abort, TypeOK
<1>15. CASE UNCHANGED vars
  BY <1>15 DEF vars, TypeOK
<1> QED
  BY <1>1, <1>2, <1>3, <1>4, <1>5, <1>6, <1>7, <1>8, <1>9, <1>10, <1>11, <1>12,
     <1>13, <1>14, <1>15 DEF Next, Continue

\* Every reachable state has the declared types, whatever is planned, withdrawn,
\* applied, priced and aborted in any order.
THEOREM ScheduleTypeCorrect == Spec => []TypeOK
  BY InitTypeOK, NextTypeOK, PTL DEF Spec

-------------------------------------------------------------------------------
(* RunLife is implemented, whatever planners and passes do                   *)

\* The roster of every run, as RunLife sees it.
Holders == [r \in Runs |-> IF r \in DOMAIN slip THEN {"employee"} ELSE {}]

LEMMA LifeIsTables ==
  ASSUME UNCHANGED <<status, slip>> PROVE UNCHANGED Life!vars
  BY DEF Life!vars

LEMMA ScheduleLifeStep ==
  ASSUME NEW r \in Runs, Life!Step(r)
  PROVE  [Life!Next]_(Life!vars)
  BY DEF Life!Next

\* A priced slip is added once, whatever the run has come to since; a second one
\* is refused.
LEMMA SlipLives ==
  ASSUME TypeOK, NEW c \in Callers, NEW r \in Runs, CommitSlip(c, r)
  PROVE  [Life!Next]_(Life!vars)
<1>1. CASE r \in DOMAIN slip
  BY <1>1, LifeIsTables DEF CommitSlip
<1>2. CASE r \notin DOMAIN slip
  <2>1. DOMAIN slip' = DOMAIN slip \cup {r}
    BY <1>2 DEF CommitSlip
  <2>2. Holders' = [Holders EXCEPT ![r] = @ \cup {"employee"}]
    BY <1>2, <2>1 DEF Holders
  <2>3. status[r] # "absent" /\ "employee" \notin Holders[r]
    BY <1>2 DEF TypeOK, Holders
  <2>4. Life!AddSlip(r, "employee")
    BY <2>2, <2>3 DEF CommitSlip, Life!AddSlip, Holders
  <2> QED
    BY <2>4, ScheduleLifeStep DEF Life!Step
<1> QED
  BY <1>1, <1>2

\* Closing takes a slip; cancelling drops it of a draft only.
LEMMA RunsLive ==
  ASSUME TypeOK, NEW r \in Runs, ProcessRun(r) \/ CancelRun(r)
  PROVE  Life!Step(r)
<1>1. CASE ProcessRun(r)
  <2>1. Holders[r] # {} /\ Holders' = Holders
    BY <1>1 DEF ProcessRun, Holders
  <2> QED
    BY <1>1, <2>1 DEF ProcessRun, Holders, Life!Process, Life!Moves, Life!Step
<1>2. CASE CancelRun(r) /\ status[r] = "draft"
  <2>1. DOMAIN slip' = DOMAIN slip \ {r}
    BY <1>2 DEF CancelRun, Restrict
  <2>2. Holders' = [Holders EXCEPT ![r] = {}]
    BY <2>1 DEF Holders
  <2> QED
    BY <1>2, <2>2 DEF CancelRun, Holders, Life!CancelDraft, Life!Moves, Life!Step
<1>3. CASE CancelRun(r) /\ status[r] = "processed"
  <2>1. Holders' = Holders
    BY <1>3 DEF CancelRun, Holders
  <2> QED
    BY <1>3, <2>1
       DEF CancelRun, Holders, Life!CancelProcessed, Life!Moves, Life!Step
<1> QED
  BY <1>1, <1>2, <1>3 DEF CancelRun

\* The schedule's runs, where slips are priced on what planners leave behind and
\* land whenever they get there, are runs of RunLife.
THEOREM ScheduleLivesAsRunsDo == Spec => ImplementsLife
<1>1. Init => Life!Init
  BY DEF Init, Life!Init, Empty
<1>2. ASSUME TypeOK, [Next]_vars PROVE [Life!Next]_(Life!vars)
  <2>1. CASE UNCHANGED vars
    BY <2>1, LifeIsTables DEF vars
  <2>2. CASE Tick \/ BeginPass \/ FinishPass
    BY <2>2, LifeIsTables DEF Tick, BeginPass, FinishPass
  <2>3. ASSUME NEW c \in Callers,
               \/ \E o \in Offers : BeginPlan(c, o[1], o[2])
               \/ \E from \in Days : BeginWithdraw(c, from)
               \/ \E r \in Runs : BeginSlip(c, r)
               \/ Continue(c) \/ Abort(c)
        PROVE  UNCHANGED Life!vars
    BY <2>3, LifeIsTables
       DEF BeginPlan, BeginWithdraw, BeginSlip, Continue, LockComponents,
           CheckRuns, WritePlan, Withdraw, Abort
  <2>4. CASE \E c \in Callers, r \in Runs : CommitSlip(c, r)
    BY <1>2, <2>4, SlipLives
  <2>5. CASE \E r \in Runs : ProcessRun(r) \/ CancelRun(r)
    BY <1>2, <2>5, RunsLive, ScheduleLifeStep
  <2> QED
    BY <1>2, <2>1, <2>2, <2>3, <2>4, <2>5 DEF Next
<1> QED
  BY <1>1, <1>2, ScheduleTypeCorrect, PTL DEF Spec, ImplementsLife, Life!Spec

-------------------------------------------------------------------------------
(* Rows and versions *)

\* What planners and passes remember of has_versions holds until they use it,
\* unless the component is deleted meanwhile.
VersionedThen(i) == HasVersions(i) \/ row[i] = Gone

\* RowsAccountedFor is not inductive alone: a planner that skips the baseline
\* must be right that there is one, a pass must not touch a component that has
\* no versions, and only an added component may do without a baseline.
IInv ==
  /\ TypeOK
  /\ RowsAccountedFor
  /\ \A c \in Callers :
       call[c].at \in {"plan", "check", "write"} =>
         \A i \in call[c].versioned : VersionedThen(i)
  /\ \A i \in DOMAIN pass : VersionedThen(i)
  /\ \A i \in Items : row[i] = Unborn => Created[i] = Unborn

LEMMA InitIInv == Init => IInv
<1> SUFFICES ASSUME Init PROVE IInv
  OBVIOUS
<1>1. TypeOK
  BY InitTypeOK
<1>2. RowsAccountedFor
  BY DEF Init, RowsAccountedFor, HasVersions, Empty
<1> QED
  BY <1>1, <1>2 DEF Init, IInv, Idle, Empty

\* A step that leaves rows, versions and the pass alone may only move callers
\* who are right about has_versions.
LEMMA ReadOnlyStep ==
  ASSUME IInv, TypeOK', UNCHANGED <<row, versions, pass>>,
         \A c \in Callers :
           call'[c].at \in {"plan", "check", "write"} =>
             \A i \in call'[c].versioned : VersionedThen(i)
  PROVE  IInv'
  BY DEF IInv, RowsAccountedFor, HasVersions, Exists, VersionedThen

\* The case of one caller that moves on with what it has read, or returns.
LEMMA CallerStep ==
  ASSUME IInv, TypeOK', UNCHANGED <<row, versions, pass>>,
         NEW c \in Callers, NEW step, Goto(c, step),
         step.at \in {"plan", "check", "write"} =>
           \A i \in step.versioned : VersionedThen(i)
  PROVE  IInv'
<1>1. /\ call'[c] = step
      /\ \A b \in Callers \ {c} : call'[b] = call[b]
  BY DEF IInv, TypeOK, Goto
<1> QED
  BY <1>1, ReadOnlyStep DEF IInv

\* A step that writes rows or versions must keep them accounted for, keep what
\* was versioned, and bring back no id to the unborn.
LEMMA WriteStep ==
  ASSUME IInv, TypeOK', RowsAccountedFor', DOMAIN pass' \subseteq DOMAIN pass,
         \A i \in Items : VersionedThen(i) => VersionedThen(i)',
         \A i \in Items : row'[i] = Unborn => row[i] = Unborn,
         \A c \in Callers : call'[c] \in {Idle, call[c]}
  PROVE  IInv'
<1>1. \A c \in Callers :
        call'[c].at \in {"plan", "check", "write"} =>
          \A i \in call'[c].versioned : VersionedThen(i)'
  <2> SUFFICES ASSUME NEW c \in Callers,
                      call'[c].at \in {"plan", "check", "write"}
               PROVE  \A i \in call'[c].versioned : VersionedThen(i)'
    OBVIOUS
  <2>1. call'[c] = call[c]
    BY DEF Idle
  <2>2. call[c].versioned \subseteq Items
    BY <2>1, CarriedByStep DEF IInv, At
  <2> QED
    BY <2>1, <2>2 DEF IInv
<1>2. DOMAIN pass \subseteq Items
  BY DEF IInv, TypeOK, DueRows
<1> QED
  BY <1>1, <1>2 DEF IInv

\* apply_due moves components that have versions, which are never deleted ones.
LEMMA PassKeepsIInv == IInv /\ TypeOK' /\ (BeginPass \/ FinishPass) => IInv'
<1> SUFFICES ASSUME IInv, TypeOK', BeginPass \/ FinishPass
             PROVE  IInv'
  OBVIOUS
<1>1. CASE BeginPass
  <2>1. versions \in [Items -> Versions] /\ today \in Nat
    BY DaysAreDates DEF IInv, TypeOK
  <2>2. \A i \in DOMAIN pass' : VersionedThen(i)
    BY <1>1, <2>1, DueIsTyped, MovedIsTyped
    DEF BeginPass, VersionedThen, HasVersions
  <2> QED
    BY <1>1, <2>2 DEF BeginPass, IInv, RowsAccountedFor, HasVersions, Exists,
                     VersionedThen
<1>2. CASE FinishPass
  <2>1. \A i \in Items :
          /\ row[i] \notin Pay => row'[i] = row[i]
          /\ i \notin DOMAIN pass => row'[i] = row[i]
          /\ row[i] \in Pay => row'[i] \in Pay
    BY <1>2, ApplyIsTyped DEF FinishPass, IInv, TypeOK
  <2>2. \A i \in Items : row'[i] \in {Unborn, Gone} => row'[i] = row[i]
    BY <2>1, ScheduleAssumption DEF Pay, NotPaid, Unborn, Gone, IInv, TypeOK
  <2>3. Gone \notin Pay
    BY ScheduleAssumption DEF Pay, NotPaid, Gone
  <2>4. RowsAccountedFor'
    <3> SUFFICES ASSUME NEW i \in Items
                 PROVE  /\ HasVersions(i)' => Exists(i)' /\
                             (Created[i] # Unborn =>
                                Baseline \in DOMAIN versions'[i])
                        /\ Exists(i)' /\ ~HasVersions(i)' =>
                             row'[i] = Created[i]
      BY DEF RowsAccountedFor
    <3>1. versions' = versions
      BY <1>2 DEF FinishPass
    <3>2. i \in DOMAIN pass => HasVersions(i) \/ row[i] = Gone
      BY DEF IInv, VersionedThen
    <3> QED
      BY <2>1, <2>3, <3>1, <3>2
      DEF IInv, RowsAccountedFor, HasVersions, Exists
  <2>5. \A i \in Items : VersionedThen(i) => VersionedThen(i)'
    BY <1>2, <2>1, <2>3 DEF FinishPass, VersionedThen, HasVersions
  <2>6. DOMAIN pass' = {} /\ call' = call
    BY <1>2 DEF FinishPass, Empty
  <2> QED
    BY <2>2, <2>4, <2>5, <2>6, WriteStep
<1> QED
  BY <1>1, <1>2

\* A plan gives every existing item it sets its baseline, or finds it there.
LEMMA PlanKeepsIInv ==
  ASSUME IInv, TypeOK', NEW c \in Callers, WritePlan(c)
  PROVE  IInv'
<1> DEFINE p == call[c]
<1>1. /\ p.from \in Days /\ p.today \in Nat /\ p.sets \in Change
      /\ p.versioned \in SUBSET Items
  BY CarriedByStep, DaysAreDates DEF WritePlan, IInv
<1>2. \A b \in Callers : call'[b] \in {Idle, call[b]}
  BY DEF IInv, TypeOK, WritePlan, Return, Goto
<1>3. CASE \E i \in DOMAIN p.sets : Refused(i, p.versioned)
  <2>1. UNCHANGED <<row, versions, pass>>
    BY <1>3 DEF WritePlan
  <2> QED
    BY <2>1, CallerStep DEF WritePlan, Return, Idle
<1>4. CASE \A i \in DOMAIN p.sets : ~Refused(i, p.versioned)
  <2>1. /\ versions' = Planned(p.from, p.sets, p.versioned)
        /\ row' = IF p.from <= p.today
                    THEN Apply(Inserted(p.sets), Due(versions', p.today))
                    ELSE Inserted(p.sets)
        /\ pass' = pass
    BY <1>4 DEF WritePlan
  <2>2. /\ \A i \in Items \ DOMAIN p.sets : versions'[i] = versions[i]
        /\ \A i \in DOMAIN p.sets :
             DOMAIN versions'[i] =
               DOMAIN versions[i] \cup {p.from}
               \cup (IF NeedsBaseline(i, p.versioned) THEN {Baseline} ELSE {})
    BY <1>1, <1>4, <2>1, PlannedIsTyped DEF IInv
  <2>3. DOMAIN p.sets \subseteq Items
    BY <1>1 DEF Change
  <2>4. Unborn \notin Pay /\ Gone \notin Pay /\ NotPaid \in Pay
    BY ScheduleAssumption DEF Pay, NotPaid, Unborn, Gone
  <2>5. ASSUME NEW i \in Items
        PROVE  /\ Inserted(p.sets)[i] =
                    IF i \in DOMAIN p.sets /\ row[i] = Unborn THEN NotPaid
                    ELSE row[i]
               /\ row'[i] \notin Pay \/ DOMAIN versions'[i] = {} =>
                    row'[i] = Inserted(p.sets)[i]
               /\ Inserted(p.sets)[i] \in Pay => row'[i] \in Pay
    <3>1. versions' \in [Items -> Versions]
      BY DEF TypeOK
    <3>2. Inserted(p.sets) \in [Items -> Pay \cup {Unborn, Gone}]
      BY InsertedIsTyped DEF IInv
    <3>3. /\ Due(versions', p.today) \in DueRows
          /\ \A j \in DOMAIN Due(versions', p.today) : DOMAIN versions'[j] # {}
      BY <1>1, <3>1, DueIsTyped
    <3> QED
      BY <2>1, <3>2, <3>3, ApplyIsTyped DEF Inserted
  <2>6. ASSUME NEW i \in DOMAIN p.sets
        PROVE  row[i] \in Pay \cup {Unborn}
    BY <1>4, <2>3 DEF Refused, IInv, TypeOK
  <2>7. ASSUME NEW i \in Items
        PROVE  /\ HasVersions(i)' => Exists(i)' /\
                    (Created[i] # Unborn => Baseline \in DOMAIN versions'[i])
               /\ Exists(i)' /\ ~HasVersions(i)' => row'[i] = Created[i]
    <3>1. CASE i \in DOMAIN p.sets
      <4>1. Inserted(p.sets)[i] \in Pay
        BY <2>4, <2>5, <2>6, <3>1
      <4>2. HasVersions(i)'
        BY <2>2, <3>1 DEF HasVersions
      <4>3. Created[i] # Unborn => Baseline \in DOMAIN versions'[i]
        <5>1. CASE row[i] = Unborn
          BY <5>1 DEF IInv
        <5>2. CASE row[i] # Unborn /\ i \notin p.versioned
          BY <2>2, <3>1, <5>2 DEF NeedsBaseline
        <5>3. CASE row[i] # Unborn /\ i \in p.versioned
          <6>1. VersionedThen(i) /\ row[i] # Gone
            BY <2>4, <2>6, <3>1, <5>3 DEF IInv, WritePlan, At, Unborn, Gone
          <6> QED
            BY <2>2, <3>1, <6>1
            DEF IInv, RowsAccountedFor, VersionedThen, HasVersions
        <5> QED
          BY <5>1, <5>2, <5>3
      <4> QED
        BY <2>5, <4>1, <4>2, <4>3 DEF Exists
    <3>2. CASE i \notin DOMAIN p.sets
      <4>1. versions'[i] = versions[i] /\ Inserted(p.sets)[i] = row[i]
        BY <2>2, <2>5, <3>2
      <4> QED
        BY <2>5, <4>1 DEF IInv, RowsAccountedFor, HasVersions, Exists
    <3> QED
      BY <3>1, <3>2
  <2>8. \A i \in Items : VersionedThen(i) => VersionedThen(i)'
    <3> SUFFICES ASSUME NEW i \in Items, VersionedThen(i)
                 PROVE  VersionedThen(i)'
      OBVIOUS
    <3>1. CASE HasVersions(i)
      BY <2>2, <3>1 DEF HasVersions, VersionedThen
    <3>2. CASE row[i] = Gone
      <4>1. Inserted(p.sets)[i] = Gone
        BY <2>5, <3>2 DEF Gone, Unborn
      <4>2. i \notin DOMAIN p.sets
        BY <1>4, <3>2 DEF Refused
      <4>3. ~HasVersions(i)
        BY <2>4, <3>2 DEF IInv, RowsAccountedFor, Exists
      <4> QED
        BY <2>2, <2>5, <4>1, <4>2, <4>3 DEF HasVersions, VersionedThen
    <3> QED
      BY <3>1, <3>2 DEF VersionedThen
  <2>9. \A i \in Items : row'[i] = Unborn => row[i] = Unborn
    BY <2>4, <2>5
  <2>10. RowsAccountedFor'
    BY <2>7 DEF RowsAccountedFor
  <2> QED
    BY <1>2, <2>1, <2>8, <2>9, <2>10, WriteStep
<1> QED
  BY <1>3, <1>4

\* A withdrawal never takes a baseline, and deletes what it leaves bare.
LEMMA WithdrawKeepsIInv ==
  ASSUME IInv, TypeOK', NEW c \in Callers, Withdraw(c)
  PROVE  IInv'
<1> DEFINE from == call[c].from
<1>1. from \in Days /\ Baseline # from
  BY CarriedByStep, DaysAreDates DEF Withdraw, IInv
<1>2. \A i \in Items :
        /\ DOMAIN versions'[i] = DOMAIN versions[i] \ {from}
        /\ row'[i] = IF DOMAIN versions[i] = {from} THEN Gone ELSE row[i]
  BY DEF Withdraw, Restrict, OnlyPlanned
<1>3. Unborn # Gone /\ Gone \notin Pay
  BY ScheduleAssumption DEF Pay, NotPaid, Unborn, Gone
<1>4. \A i \in Items : VersionedThen(i) => VersionedThen(i)'
  BY <1>2 DEF VersionedThen, HasVersions
<1>5. RowsAccountedFor'
  BY <1>1, <1>2, <1>3 DEF IInv, RowsAccountedFor, HasVersions, Exists
<1>6. \A b \in Callers : call'[b] \in {Idle, call[b]}
  BY DEF IInv, TypeOK, Withdraw, Return, Goto
<1>7. DOMAIN pass' \subseteq DOMAIN pass
  BY DEF Withdraw
<1> QED
  BY <1>2, <1>3, <1>4, <1>5, <1>6, <1>7, WriteStep

LEMMA NextIInv == IInv /\ [Next]_vars => IInv'
<1> SUFFICES ASSUME IInv, [Next]_vars
             PROVE  IInv'
  OBVIOUS
<1>0. TypeOK'
  BY NextTypeOK DEF IInv
<1>1. CASE Tick
  BY <1>0, <1>1, ReadOnlyStep DEF Tick, IInv
<1>2. CASE BeginPass \/ FinishPass
  BY <1>0, <1>2, PassKeepsIInv
<1>3. ASSUME NEW c \in Callers, NEW o \in Offers, BeginPlan(c, o[1], o[2])
      PROVE  IInv'
  BY <1>0, <1>3, CallerStep DEF BeginPlan, VersionedThen
<1>4. ASSUME NEW c \in Callers, NEW from \in Days, BeginWithdraw(c, from)
      PROVE  IInv'
  BY <1>0, <1>4, CallerStep DEF BeginWithdraw
<1>5. ASSUME NEW c \in Callers, NEW r \in Runs,
             BeginSlip(c, r) \/ CommitSlip(c, r)
      PROVE  IInv'
  BY <1>0, <1>5, CallerStep DEF BeginSlip, CommitSlip, Return, Idle
<1>6. ASSUME NEW c \in Callers, LockComponents(c) PROVE IInv'
  <2> DEFINE step == [call[c] EXCEPT !.at = "check"]
  <2>1. step.versioned = call[c].versioned
    BY <1>6, CarriedByStep DEF IInv, LockComponents
  <2>2. \A i \in call[c].versioned : VersionedThen(i)
    BY <1>6 DEF IInv, LockComponents, At
  <2>3. UNCHANGED <<row, versions, pass>> /\ Goto(c, step)
    BY <1>6 DEF LockComponents
  <2> HIDE DEF step
  <2> QED
    BY <1>0, <2>1, <2>2, <2>3, CallerStep
<1>7. ASSUME NEW c \in Callers, CheckRuns(c) PROVE IInv'
  <2>1. \A i \in call[c].versioned : VersionedThen(i)
    BY <1>7 DEF IInv, CheckRuns, At
  <2> QED
    BY <1>0, <1>7, <2>1, CallerStep DEF CheckRuns, Return, Idle
<1>8. ASSUME NEW c \in Callers, WritePlan(c) PROVE IInv'
  BY <1>0, <1>8, PlanKeepsIInv
<1>9. ASSUME NEW c \in Callers, Withdraw(c) PROVE IInv'
  BY <1>0, <1>9, WithdrawKeepsIInv
<1>10. ASSUME NEW c \in Callers, Abort(c) PROVE IInv'
  BY <1>0, <1>10, CallerStep DEF Abort, Return, Idle
<1>11. ASSUME NEW r \in Runs, ProcessRun(r) \/ CancelRun(r) PROVE IInv'
  BY <1>0, <1>11, ReadOnlyStep DEF ProcessRun, CancelRun, IInv
<1>12. CASE UNCHANGED vars
  BY <1>0, <1>12, ReadOnlyStep DEF vars, IInv
<1> QED
  BY <1>1, <1>2, <1>3, <1>4, <1>5, <1>6, <1>7, <1>8, <1>9, <1>10, <1>11, <1>12
  DEF Next, Continue

\* However planners, withdrawers and passes interleave, and whatever they had
\* read before they got the locks: a component of the structure keeps a
\* baseline once it has versions, and none exists without a value to pay.
THEOREM ComponentsAccountedFor == Spec => []RowsAccountedFor
<1>1. IInv => RowsAccountedFor
  BY DEF IInv
<1> QED
  BY InitIInv, NextIInv, <1>1, PTL DEF Spec

-------------------------------------------------------------------------------
(* Reading as of a day *)

\* Two histories that agree up to a day say the same on it.
LEMMA SameUpTo ==
  ASSUME NEW f \in Versions, NEW g, NEW d \in Nat,
         DatesUpTo(f, d) = DatesUpTo(g, d),
         \A x \in DatesUpTo(f, d) : f[x] = g[x]
  PROVE  InForce(f, d) = InForce(g, d)
<1>1. CASE DatesUpTo(f, d) = {}
  BY <1>1 DEF InForce
<1>2. CASE DatesUpTo(f, d) # {}
  <2>1. PICK D \in SUBSET (0..LastDay) : f \in [D -> Pay]
    BY DEF Versions
  <2>2. DatesUpTo(f, d) \in SUBSET (0..LastDay)
    BY <2>1 DEF DatesUpTo
  <2>3. Max(DatesUpTo(f, d)) \in DatesUpTo(f, d)
    BY <1>2, <2>2, LastUpTo, ScheduleAssumption
  <2> QED
    BY <1>2, <2>3 DEF InForce
<1> QED
  BY <1>1, <1>2

\* A history of which only the baseline has come says the baseline.
LEMMA OnlyBaseline ==
  ASSUME NEW f, NEW d \in Nat, DatesUpTo(f, d) = {Baseline}
  PROVE  InForce(f, d) = f[Baseline]
<1>1. {Baseline} \in SUBSET (0..LastDay) /\ LastDay \in Nat
  BY ScheduleAssumption DEF Baseline
<1>2. Max({Baseline}) \in {Baseline}
  BY <1>1, LastUpTo
<1> QED
  BY <1>2 DEF InForce

\* The row counts only where there are no versions.
LEMMA SameVersions ==
  ASSUME NEW i \in Items, NEW d \in Days, versions'[i] = versions[i],
         ~HasVersions(i) => row'[i] = row[i]
  PROVE  AsOf(i, d)' = AsOf(i, d)
  BY DEF AsOf, HasVersions, Exists

\* The daily pass moves rows of components that have versions: no reading moves.
LEMMA PassReads ==
  ASSUME IInv, FinishPass, NEW i \in Items, NEW d \in Days
  PROVE  AsOf(i, d)' = AsOf(i, d)
<1>1. /\ row[i] \notin Pay => row'[i] = row[i]
      /\ i \notin DOMAIN pass => row'[i] = row[i]
  BY ApplyIsTyped DEF FinishPass, IInv, TypeOK
<1>2. Gone \notin Pay
  BY ScheduleAssumption DEF Pay, NotPaid, Gone
<1>3. ~HasVersions(i) => row'[i] = row[i]
  BY <1>1, <1>2 DEF IInv, VersionedThen
<1> QED
  BY <1>3, SameVersions DEF FinishPass

-------------------------------------------------------------------------------
(* The inductive invariant *)

\* With one planner at a time what it has read is still so when it writes: which
\* components have versions, that no run is reached but those it will name, and
\* that none of these is processed: CheckRuns saw to it, and they have waited.  A
\* slip being added was priced on what the structure still says.
UpToDate(c) ==
  /\ call[c].at \in {"plan", "check", "write"} =>
       call[c].versioned = {i \in Items : HasVersions(i)}
  /\ At(c, "write") =>
       /\ Reached(call[c].from) \subseteq call[c].reached
       /\ \A r \in call[c].reached : status[r] # "processed"
  /\ At(c, "slip") => call[c].priced = Reading(Start[call[c].run])

ProcessedHasSlip == \A r \in Runs : status[r] = "processed" => r \in DOMAIN slip

QuietInv ==
  /\ IInv
  /\ Quiet
  /\ \A c \in Callers : UpToDate(c)
  /\ ProcessedHasSlip
  /\ StaleSlipsAreNamed

LEMMA QuietInit == Init => QuietInv
<1> SUFFICES ASSUME Init PROVE QuietInv
  OBVIOUS
<1>1. IInv
  BY InitIInv
<1> QED
  BY <1>1
     DEF Init, QuietInv, Quiet, OnePlanner, UpToDate, ProcessedHasSlip,
         StaleSlipsAreNamed, At, Idle, Empty

-------------------------------------------------------------------------------
(* What a plan and a withdrawal do to the readings *)

\* A plan leaves alone what it does not set, what comes before it, and what it
\* sets to the value of a version of that date.
LEMMA PlanReads ==
  ASSUME QuietInv, NEW c \in Callers, WritePlan(c), TypeOK',
         NEW i \in Items, NEW d \in Days,
         \/ i \notin DOMAIN call[c].sets
         \/ d < call[c].from
         \/ /\ call[c].from \in DOMAIN versions[i]
            /\ versions'[i][call[c].from] = versions[i][call[c].from]
  PROVE  AsOf(i, d)' = AsOf(i, d)
<1> DEFINE p == call[c]
<1>1. /\ p.from \in Days /\ p.today \in Nat /\ p.sets \in Change
      /\ p.versioned = {j \in Items : HasVersions(j)}
      /\ d \in Nat /\ p.from \in Nat /\ p.from > Baseline /\ d > Baseline
  <2>1. p.versioned = {j \in Items : HasVersions(j)}
    BY DEF QuietInv, UpToDate, WritePlan, At
  <2> QED
    BY <2>1, CarriedByStep, DaysAreDates
       DEF WritePlan, QuietInv, IInv, Days, Baseline
<1>2. CASE \E j \in DOMAIN p.sets : Refused(j, p.versioned)
  BY <1>2, SameVersions DEF WritePlan
<1>3. CASE \A j \in DOMAIN p.sets : ~Refused(j, p.versioned)
  <2>1. /\ versions' = Planned(p.from, p.sets, p.versioned)
        /\ row' = IF p.from <= p.today
                    THEN Apply(Inserted(p.sets), Due(versions', p.today))
                    ELSE Inserted(p.sets)
    BY <1>3 DEF WritePlan
  <2>2. versions[i] \in Versions /\ versions'[i] \in Versions
    BY DEF QuietInv, IInv, TypeOK
  <2>3. CASE i \notin DOMAIN p.sets
    <3>1. versions'[i] = versions[i]
      BY <2>1, <2>3 DEF Planned
    <3>2. Inserted(p.sets)[i] = row[i]
      BY <2>3 DEF Inserted
    <3>3. ~HasVersions(i) => i \notin DOMAIN Due(versions', p.today)
      BY <3>1 DEF HasVersions, Due, DatesUpTo
    <3>4. ~HasVersions(i) => row'[i] = row[i]
      BY <2>1, <3>2, <3>3 DEF Apply
    <3> QED
      BY <3>1, <3>4, SameVersions
  <2>4. CASE i \in DOMAIN p.sets /\ HasVersions(i)
    <3>1. ~NeedsBaseline(i, p.versioned)
      BY <1>1, <2>4 DEF NeedsBaseline
    <3>2. versions'[i] = Upsert(versions[i], p.from, p.sets[i])
      BY <2>1, <2>4, <3>1 DEF Planned
    <3>3. /\ DOMAIN versions'[i] = DOMAIN versions[i] \cup {p.from}
          /\ \A x \in DOMAIN versions[i] :
               x # p.from => versions'[i][x] = versions[i][x]
      BY <3>2 DEF Upsert
    <3>4. /\ DatesUpTo(versions'[i], d) = DatesUpTo(versions[i], d)
          /\ \A x \in DatesUpTo(versions[i], d) :
               versions[i][x] = versions'[i][x]
      <4>1. CASE d < p.from
        BY <1>1, <3>3, <4>1 DEF DatesUpTo
      <4>2. CASE /\ p.from \in DOMAIN versions[i]
                 /\ versions'[i][p.from] = versions[i][p.from]
        BY <3>3, <4>2 DEF DatesUpTo
      <4> QED
        BY <2>4, <4>1, <4>2
    <3>5. InForce(versions[i], d) = InForce(versions'[i], d)
      BY <1>1, <2>2, <3>4, SameUpTo
    <3> QED
      BY <2>4, <3>3, <3>5 DEF AsOf, HasVersions
  <2>5. CASE i \in DOMAIN p.sets /\ ~HasVersions(i)
    <3>1. d < p.from
      BY <2>5 DEF HasVersions
    <3>2. i \notin p.versioned
      BY <1>1, <2>5
    <3>3. CASE row[i] = Unborn
      <4>1. versions'[i] = Upsert(versions[i], p.from, p.sets[i])
        BY <2>1, <2>5, <3>3 DEF Planned, NeedsBaseline
      <4>2. DOMAIN versions'[i] = {p.from}
        BY <2>5, <4>1 DEF Upsert, HasVersions
      <4>3. DatesUpTo(versions'[i], d) = {}
        BY <1>1, <3>1, <4>2 DEF DatesUpTo
      <4>4. Unborn \notin Pay
        BY ScheduleAssumption DEF Pay, NotPaid, Unborn
      <4> QED
        BY <2>5, <3>3, <4>2, <4>3, <4>4 DEF AsOf, HasVersions, Exists, InForce
    <3>4. CASE row[i] # Unborn
      <4>1. row[i] \in Pay
        BY <1>3, <2>5, <3>4 DEF Refused, QuietInv, IInv, TypeOK
      <4>2. versions'[i] =
              Upsert(Upsert(versions[i], Baseline, row[i]), p.from, p.sets[i])
        BY <2>1, <2>5, <3>2, <3>4 DEF Planned, NeedsBaseline
      <4>3. /\ DOMAIN versions'[i] = {Baseline, p.from}
            /\ versions'[i][Baseline] = row[i]
        BY <1>1, <2>5, <4>2 DEF Upsert, HasVersions
      <4>4. DatesUpTo(versions'[i], d) = {Baseline}
        BY <1>1, <3>1, <4>3 DEF DatesUpTo, Baseline
      <4>5. InForce(versions'[i], d) = row[i]
        BY <1>1, <4>3, <4>4, OnlyBaseline
      <4> QED
        BY <2>5, <4>1, <4>3, <4>5 DEF AsOf, HasVersions, Exists
    <3> QED
      BY <3>3, <3>4
  <2> QED
    BY <2>3, <2>4, <2>5
<1> QED
  BY <1>2, <1>3

\* A withdrawal leaves alone what comes before it, and every component that has
\* no version of its date.
LEMMA WithdrawReads ==
  ASSUME QuietInv, NEW c \in Callers, Withdraw(c), TypeOK',
         NEW i \in Items, NEW d \in Days,
         d < call[c].from \/ call[c].from \notin DOMAIN versions[i]
  PROVE  AsOf(i, d)' = AsOf(i, d)
<1> DEFINE from == call[c].from
<1>1. from \in Nat /\ d \in Nat
  BY CarriedByStep, DaysAreDates DEF Withdraw, QuietInv, IInv
<1>2. /\ DOMAIN versions'[i] = DOMAIN versions[i] \ {from}
      /\ \A x \in DOMAIN versions[i] \ {from} : versions'[i][x] = versions[i][x]
      /\ row'[i] = IF DOMAIN versions[i] = {from} THEN Gone ELSE row[i]
  BY DEF Withdraw, Restrict, OnlyPlanned
<1>3. DatesUpTo(versions'[i], d) = DatesUpTo(versions[i], d)
  BY <1>1, <1>2 DEF DatesUpTo
<1>4. versions[i] \in Versions
  BY DEF QuietInv, IInv, TypeOK
<1>5. InForce(versions[i], d) = InForce(versions'[i], d)
  BY <1>1, <1>2, <1>3, <1>4, SameUpTo DEF DatesUpTo
<1>6. CASE DOMAIN versions[i] = {from}
  <2>1. DatesUpTo(versions[i], d) = {}
    BY <1>1, <1>2, <1>3, <1>6 DEF DatesUpTo
  <2>2. Gone \notin Pay
    BY ScheduleAssumption DEF Pay, NotPaid, Gone
  <2> QED
    BY <1>2, <1>6, <2>1, <2>2 DEF AsOf, HasVersions, Exists, InForce
<1>7. CASE DOMAIN versions[i] # {from}
  BY <1>2, <1>5, <1>7 DEF AsOf, HasVersions, Exists
<1> QED
  BY <1>6, <1>7

\* No other step moves a reading.
LEMMA OthersRead ==
  ASSUME QuietInv, [Next]_vars,
         \A c \in Callers : ~WritePlan(c) /\ ~Withdraw(c)
  PROVE  \A i \in Items, d \in Days : AsOf(i, d)' = AsOf(i, d)
<1>1. CASE FinishPass
  BY <1>1, PassReads DEF QuietInv
<1>2. CASE UNCHANGED <<row, versions>>
  BY <1>2, SameVersions
<1> QED
  BY <1>1, <1>2
     DEF Next, Continue, vars, Tick, BeginPass, BeginPlan, BeginWithdraw,
         BeginSlip, CommitSlip, LockComponents, CheckRuns, Abort, ProcessRun,
         CancelRun

\* Readings that stand for every component stand for the structure.
LEMMA ReadingStands ==
  ASSUME NEW r \in Runs,
         \A i \in Items : AsOf(i, Start[r])' = AsOf(i, Start[r])
  PROVE  Reading(Start[r])' = Reading(Start[r])
  BY DEF Reading

-------------------------------------------------------------------------------
(* The steps *)

\* What the slips are on and the types allow of it.
LEMMA SlipsAreOfRuns ==
  ASSUME TypeOK
  PROVE  /\ DOMAIN slip \in SUBSET Runs
         /\ \A r \in Runs : Start[r] \in Days /\ Start[r] \in Nat
  BY ScheduleAssumption, DaysAreDates DEF TypeOK

\* A step that moves no reading and no slip.
LEMMA ReadStep ==
  ASSUME QuietInv, IInv', Quiet', UNCHANGED <<versions, status, slip, named>>,
         \A i \in Items, d \in Days : AsOf(i, d)' = AsOf(i, d),
         \A b \in Callers : call'[b] = call[b] \/ UpToDate(b)'
  PROVE  QuietInv'
<1>1. \A r \in Runs : Reading(Start[r])' = Reading(Start[r])
  BY ReadingStands, SlipsAreOfRuns DEF QuietInv, IInv
<1>2. \A b \in Callers : UpToDate(b)'
  <2> SUFFICES ASSUME NEW b \in Callers, call'[b] = call[b]
               PROVE  UpToDate(b)'
    OBVIOUS
  <2>1. At(b, "slip") => call[b].run \in Runs
    BY CarriedByStep DEF QuietInv, IInv
  <2> QED
    BY <1>1, <2>1 DEF QuietInv, UpToDate, At, HasVersions, Reached
<1>3. StaleSlipsAreNamed'
  BY <1>1, SlipsAreOfRuns DEF QuietInv, IInv, StaleSlipsAreNamed
<1> QED
  BY <1>2, <1>3 DEF QuietInv, ProcessedHasSlip

\* While a change is written or withdrawn nobody else carries anything.
LEMMA NobodyElse ==
  ASSUME QuietInv, NEW c \in Callers, At(c, "write") \/ At(c, "withdraw"),
         Return(c), NEW b \in Callers
  PROVE  UpToDate(b)'
<1>1. call' = [call EXCEPT ![c] = Idle] /\ call \in [Callers -> Call]
  BY DEF QuietInv, IInv, TypeOK, Return, Goto
<1>2. CASE b = c
  BY <1>1, <1>2 DEF UpToDate, At, Idle
<1>3. CASE b # c
  <2>1. call[b].at \notin {"plan", "check", "write", "withdraw", "slip"}
    BY <1>3 DEF QuietInv, Quiet, OnePlanner, At
  <2>2. call'[b] = call[b]
    BY <1>1, <1>3
  <2> QED
    BY <2>1, <2>2 DEF UpToDate, At
<1> QED
  BY <1>2, <1>3

\* A change moves the readings of slips it has reached, which it names.
LEMMA PlanStep ==
  ASSUME QuietInv, IInv', Quiet', NEW c \in Callers, WritePlan(c)
  PROVE  QuietInv'
<1> DEFINE p == call[c]
<1>1. \A b \in Callers : UpToDate(b)'
  BY NobodyElse DEF WritePlan
<1>2. /\ p.from \in Nat /\ Reached(p.from) \subseteq p.reached
      /\ named \subseteq named'
  BY CarriedByStep, DaysAreDates
     DEF QuietInv, IInv, UpToDate, WritePlan, At
<1>3. ASSUME NEW r \in DOMAIN slip, status[r] = "draft",
             slip[r] # Reading(Start[r])'
      PROVE  r \in named'
  <2>1. r \in Runs /\ Start[r] \in Days /\ Start[r] \in Nat
    BY SlipsAreOfRuns DEF QuietInv, IInv
  <2>2. CASE Reading(Start[r])' = Reading(Start[r])
    BY <1>2, <1>3, <2>2 DEF QuietInv, StaleSlipsAreNamed
  <2>3. CASE Reading(Start[r])' # Reading(Start[r])
    <3>1. PICK i \in Items : AsOf(i, Start[r])' # AsOf(i, Start[r])
      BY <2>1, <2>3, ReadingStands
    <3>2. ~(Start[r] < p.from)
      BY <2>1, <3>1, PlanReads DEF IInv
    <3>3. r \in Reached(p.from)
      BY <1>2, <1>3, <2>1, <3>2 DEF Reached
    <3>4. ~\E j \in DOMAIN p.sets : Refused(j, p.versioned)
      BY <2>1, <3>1, SameVersions DEF WritePlan
    <3>5. named' = named \cup p.reached
      BY <3>4 DEF WritePlan
    <3> QED
      BY <1>2, <3>3, <3>5
  <2> QED
    BY <2>2, <2>3
<1>4. UNCHANGED <<status, slip>>
  BY DEF WritePlan
<1> QED
  BY <1>1, <1>3, <1>4 DEF QuietInv, ProcessedHasSlip, StaleSlipsAreNamed

\* A withdrawal reaches no draft's slip.
LEMMA WithdrawStep ==
  ASSUME QuietInv, IInv', Quiet', NEW c \in Callers, Withdraw(c)
  PROVE  QuietInv'
<1>1. \A b \in Callers : UpToDate(b)'
  BY NobodyElse DEF Withdraw
<1>2. /\ call[c].from \in Nat
      /\ \A r \in Reached(call[c].from) : status[r] # "draft"
  BY CarriedByStep, DaysAreDates DEF QuietInv, Quiet, IInv, Withdraw
<1>3. ASSUME NEW r \in DOMAIN slip, status[r] = "draft"
      PROVE  Reading(Start[r])' = Reading(Start[r])
  <2>1. r \in Runs /\ Start[r] \in Days /\ Start[r] \in Nat
    BY SlipsAreOfRuns DEF QuietInv, IInv
  <2>2. Start[r] < call[c].from
    BY <1>2, <1>3, <2>1 DEF Reached
  <2>3. \A i \in Items : AsOf(i, Start[r])' = AsOf(i, Start[r])
    BY <2>1, <2>2, WithdrawReads DEF IInv
  <2> QED
    BY <2>1, <2>3, ReadingStands
<1>4. UNCHANGED <<status, slip, named>>
  BY DEF Withdraw
<1> QED
  BY <1>1, <1>3, <1>4 DEF QuietInv, ProcessedHasSlip, StaleSlipsAreNamed

\* Runs and slips move under unchanged readings: no step adds to what a change
\* being written has reached, and a slip goes in as the structure still reads.
LEMMA RunStep ==
  ASSUME QuietInv, IInv', Quiet', RunsWait, NEW r \in Runs,
         \/ ProcessRun(r)
         \/ CancelRun(r)
         \/ \E c \in Callers : CommitSlip(c, r)
  PROVE  QuietInv'
<1>1. /\ UNCHANGED <<row, versions, named>>
      /\ \A q \in Runs : Reading(Start[q])' = Reading(Start[q])
  BY DEF ProcessRun, CancelRun, CommitSlip, Reading, AsOf, HasVersions, Exists
<1>2. /\ DOMAIN slip \in SUBSET Runs
      /\ status \in [Runs -> {"draft", "processed", "cancelled"}]
  BY SlipsAreOfRuns DEF QuietInv, IInv, TypeOK
<1>3. ASSUME NEW b \in Callers, call'[b] = call[b],
             At(b, "write") =>
               /\ \A from \in Days : Reached(from)' \subseteq Reached(from)
               /\ \A q \in call[b].reached :
                    status'[q] = "processed" => status[q] = "processed"
      PROVE  UpToDate(b)'
  <2>1. /\ At(b, "slip") => call[b].run \in Runs
        /\ At(b, "write") => call[b].from \in Days
    BY CarriedByStep DEF QuietInv, IInv
  <2>2. UpToDate(b)
    BY DEF QuietInv
  <2> QED
    BY <1>1, <1>3, <2>1, <2>2 DEF UpToDate, At, HasVersions, Reached
<1>4. CASE ProcessRun(r)
  <2>1. \A from \in Days : Reached(from)' \subseteq Reached(from)
    BY <1>2, <1>4 DEF ProcessRun, Reached
  <2>2. \A b \in Callers : UpToDate(b)'
    BY <1>3, <1>4, <2>1 DEF ProcessRun, RunsWait
  <2> QED
    BY <1>1, <1>2, <1>4, <2>2
       DEF ProcessRun, QuietInv, ProcessedHasSlip, StaleSlipsAreNamed
<1>5. CASE CancelRun(r)
  <2>1. /\ DOMAIN slip' \subseteq DOMAIN slip
        /\ \A q \in DOMAIN slip \ {r} : q \in DOMAIN slip' /\ slip'[q] = slip[q]
        /\ status'[r] = "cancelled"
        /\ \A q \in Runs \ {r} : status'[q] = status[q]
    BY <1>2, <1>5 DEF CancelRun, Restrict
  <2>2. \A from \in Days : Reached(from)' \subseteq Reached(from)
    BY <1>2, <2>1 DEF Reached
  <2>3. \A b \in Callers : UpToDate(b)'
    BY <1>3, <1>5, <2>2 DEF CancelRun, RunsWait
  <2>4. ProcessedHasSlip'
    BY <2>1 DEF QuietInv, ProcessedHasSlip
  <2>5. StaleSlipsAreNamed'
    <3> SUFFICES ASSUME NEW q \in DOMAIN slip', status'[q] = "draft",
                        slip'[q] # Reading(Start[q])'
                 PROVE  q \in named'
      BY DEF StaleSlipsAreNamed
    <3>1. q \in DOMAIN slip \ {r} /\ q \in Runs
      BY <1>2, <2>1
    <3> QED
      BY <1>1, <2>1, <3>1 DEF QuietInv, StaleSlipsAreNamed
  <2> QED
    BY <2>3, <2>4, <2>5 DEF QuietInv
<1>6. ASSUME NEW c \in Callers, CommitSlip(c, r)
      PROVE  QuietInv'
  <2>1. /\ call' = [call EXCEPT ![c] = Idle] /\ call \in [Callers -> Call]
        /\ At(c, "slip") /\ call[c].run = r /\ status' = status
    BY <1>6 DEF QuietInv, IInv, TypeOK, CommitSlip, Return, Goto
  <2>2. call[c].priced = Reading(Start[r])
    BY <2>1 DEF QuietInv, UpToDate
  <2>3. \A b \in Callers : ~At(b, "write")
    BY <2>1 DEF QuietInv, Quiet, At
  <2>4. \A b \in Callers : UpToDate(b)'
    <3> TAKE b \in Callers
    <3>1. CASE b = c
      BY <2>1, <3>1 DEF UpToDate, At, Idle
    <3>2. CASE b # c
      BY <1>3, <2>1, <2>3, <3>2
    <3> QED
      BY <3>1, <3>2
  <2>5. \A q \in DOMAIN slip : q \in DOMAIN slip' /\ slip'[q] = slip[q]
    BY <1>6 DEF CommitSlip
  <2>6. \A q \in DOMAIN slip' \ DOMAIN slip :
          q \in Runs /\ slip'[q] = Reading(Start[q])
    BY <1>6, <2>2 DEF CommitSlip
  <2>7. StaleSlipsAreNamed'
    <3> SUFFICES ASSUME NEW q \in DOMAIN slip', status'[q] = "draft",
                        slip'[q] # Reading(Start[q])'
                 PROVE  q \in named'
      BY DEF StaleSlipsAreNamed
    <3>1. q \in DOMAIN slip
      BY <1>1, <2>6
    <3> QED
      BY <1>1, <1>2, <2>1, <2>5, <3>1 DEF QuietInv, StaleSlipsAreNamed
  <2>8. ProcessedHasSlip'
    BY <2>1, <2>5 DEF QuietInv, ProcessedHasSlip
  <2> QED
    BY <2>4, <2>7, <2>8 DEF QuietInv
<1> QED
  BY <1>4, <1>5, <1>6

LEMMA QuietStep == QuietInv /\ [Next /\ Quiet' /\ RunsWait]_vars => QuietInv'
<1> SUFFICES ASSUME QuietInv, [Next /\ Quiet' /\ RunsWait]_vars
             PROVE  QuietInv'
  OBVIOUS
<1>1. IInv' /\ [Next]_vars
  BY NextIInv DEF QuietInv
<1>2. Quiet' /\ RunsWait
  <2>1. CASE UNCHANGED vars
    BY <2>1 DEF vars, QuietInv, Quiet, RunsWait, OnePlanner, At, Reached
  <2> QED
    BY <2>1
<1>3. ASSUME NEW c \in Callers, WritePlan(c) PROVE QuietInv'
  BY <1>1, <1>2, <1>3, PlanStep
<1>4. ASSUME NEW c \in Callers, Withdraw(c) PROVE QuietInv'
  BY <1>1, <1>2, <1>4, WithdrawStep
<1>5. ASSUME NEW r \in Runs,
             \/ ProcessRun(r)
             \/ CancelRun(r)
             \/ \E c \in Callers : CommitSlip(c, r)
      PROVE  QuietInv'
  BY <1>1, <1>2, <1>5, RunStep
<1>6. ASSUME \A c \in Callers : ~WritePlan(c) /\ ~Withdraw(c),
             UNCHANGED <<versions, status, slip, named>>,
             \A b \in Callers : call'[b] = call[b] \/ UpToDate(b)'
      PROVE  QuietInv'
  BY <1>1, <1>2, <1>6, OthersRead, ReadStep
<1> HIDE DEF QuietInv
<1>7. call \in [Callers -> Call]
  BY DEF QuietInv, IInv, TypeOK
<1>8. CASE \A c \in Callers : ~WritePlan(c) /\ ~Withdraw(c)
  <2>1. CASE Tick \/ BeginPass \/ FinishPass \/ UNCHANGED vars
    BY <1>6, <1>8, <2>1 DEF Tick, BeginPass, FinishPass, vars
  <2>2. ASSUME NEW c \in Callers, NEW o \in Offers, BeginPlan(c, o[1], o[2])
        PROVE  QuietInv'
    <3>1. \A b \in Callers \ {c} : call'[b] = call[b]
      BY <1>7, <2>2 DEF BeginPlan, Goto
    <3>2. UpToDate(c)'
      BY <1>7, <2>2 DEF BeginPlan, Goto, UpToDate, At, HasVersions
    <3> QED
      BY <1>6, <1>8, <2>2, <3>1, <3>2 DEF BeginPlan
  <2>3. ASSUME NEW c \in Callers, NEW from \in Days, BeginWithdraw(c, from)
        PROVE  QuietInv'
    BY <1>6, <1>7, <1>8, <2>3 DEF BeginWithdraw, Goto, UpToDate, At
  <2>4. ASSUME NEW c \in Callers, NEW r \in Runs, BeginSlip(c, r)
        PROVE  QuietInv'
    <3>1. \A b \in Callers \ {c} : call'[b] = call[b]
      BY <1>7, <2>4 DEF BeginSlip, Goto
    <3>2. UpToDate(c)'
      BY <1>7, <2>4
         DEF BeginSlip, Goto, UpToDate, At, Reading, AsOf, HasVersions, Exists
    <3> QED
      BY <1>6, <1>8, <2>4, <3>1, <3>2 DEF BeginSlip
  <2>5. ASSUME NEW c \in Callers, LockComponents(c) PROVE QuietInv'
    <3>1. \A b \in Callers \ {c} : call'[b] = call[b]
      BY <1>7, <2>5 DEF LockComponents, Goto
    <3>2. /\ call'[c].at = "check"
          /\ call'[c].versioned = call[c].versioned
          /\ call[c].versioned = {i \in Items : HasVersions(i)}
      BY <1>7, <2>5, CarriedByStep
         DEF LockComponents, Goto, QuietInv, IInv, UpToDate, At
    <3>3. UpToDate(c)'
      BY <2>5, <3>2 DEF LockComponents, UpToDate, At, HasVersions
    <3> QED
      BY <1>6, <1>8, <2>5, <3>1, <3>3 DEF LockComponents
  <2>6. ASSUME NEW c \in Callers, CheckRuns(c) PROVE QuietInv'
    <3>1. \A b \in Callers \ {c} : call'[b] = call[b]
      BY <1>7, <2>6 DEF CheckRuns, Goto, Return
    <3>2. call[c].versioned = {i \in Items : HasVersions(i)}
      BY <2>6 DEF CheckRuns, QuietInv, UpToDate, At
    <3>3. UpToDate(c)'
      BY <1>7, <2>6, <3>2
         DEF CheckRuns, MayReach, Goto, Return, Idle, UpToDate, At, HasVersions,
             Reached
    <3> QED
      BY <1>6, <1>8, <2>6, <3>1, <3>3 DEF CheckRuns
  <2>7. ASSUME NEW c \in Callers, Abort(c) PROVE QuietInv'
    BY <1>6, <1>7, <1>8, <2>7 DEF Abort, Return, Goto, Idle, UpToDate, At
  <2> QED
    BY <1>1, <1>5, <1>8, <2>1, <2>2, <2>3, <2>4, <2>5, <2>6, <2>7
       DEF Next, Continue
<1> QED
  BY <1>3, <1>4, <1>8

\* As long as changes come one at a time and no slip is being added under them,
\* a draft's slip that the structure has moved away from was named to whoever
\* planned the change, however plans, withdrawals, passes and runs follow.
THEOREM StaleSlipsNamed == QuietSpec => []StaleSlipsAreNamed
<1>1. QuietInv => StaleSlipsAreNamed
  BY DEF QuietInv
<1> QED
  BY QuietInit, QuietStep, <1>1, PTL DEF QuietSpec

-------------------------------------------------------------------------------
(* What no step may do *)

\* A step that writes no version dated in or before a day leaves what the day
\* reads.
LEMMA EarlierStep ==
  ASSUME QuietInv, [Next]_vars, NEW i \in Items, NEW d \in Days,
         \A x \in 1..d :
           /\ x \in DOMAIN versions'[i] <=> x \in DOMAIN versions[i]
           /\ x \in DOMAIN versions[i] => versions'[i][x] = versions[i][x]
  PROVE  AsOf(i, d)' = AsOf(i, d)
<1>1. TypeOK'
  BY NextTypeOK DEF QuietInv, IInv
<1>2. d \in Nat
  BY DaysAreDates
<1>3. ASSUME NEW c \in Callers, WritePlan(c)
      PROVE  AsOf(i, d)' = AsOf(i, d)
  <2> DEFINE p == call[c]
  <2>1. /\ p.from \in Days /\ p.sets \in Change
        /\ p.versioned \in SUBSET Items
    BY <1>3, CarriedByStep DEF QuietInv, IInv, WritePlan
  <2>2. CASE \E j \in DOMAIN p.sets : Refused(j, p.versioned)
    BY <1>3, <2>2, SameVersions DEF WritePlan
  <2>3. CASE i \notin DOMAIN p.sets \/ d < p.from
    BY <1>1, <1>3, <2>3, PlanReads
  <2>4. CASE /\ \A j \in DOMAIN p.sets : ~Refused(j, p.versioned)
             /\ i \in DOMAIN p.sets
             /\ ~(d < p.from)
    <3>1. versions' = Planned(p.from, p.sets, p.versioned)
      BY <1>3, <2>4 DEF WritePlan
    <3>2. p.from \in DOMAIN versions'[i]
      BY <2>1, <2>4, <3>1, PlannedIsTyped DEF QuietInv, IInv
    <3>3. p.from \in 1..d
      BY <1>2, <2>1, <2>4 DEF Days
    <3> QED
      BY <1>1, <1>3, <3>2, <3>3, PlanReads
  <2> QED
    BY <2>2, <2>3, <2>4
<1>4. ASSUME NEW c \in Callers, Withdraw(c)
      PROVE  AsOf(i, d)' = AsOf(i, d)
  <2> DEFINE from == call[c].from
  <2>1. from \in Days
    BY <1>4, CarriedByStep DEF QuietInv, IInv, Withdraw
  <2>2. from \notin DOMAIN versions'[i]
    BY <1>4 DEF Withdraw, Restrict
  <2>3. d < from \/ from \in 1..d
    BY <1>2, <2>1 DEF Days
  <2> QED
    BY <1>1, <1>4, <2>2, <2>3, WithdrawReads
<1> QED
  BY <1>3, <1>4, OthersRead

\* A change that is written reaches no processed run: CheckRuns refuses it.
LEMMA FinalStep ==
  ASSUME QuietInv, [Next]_vars, NEW r \in Runs, status[r] = "processed",
         \A c \in Callers : ~Withdraw(c)
  PROVE  Reading(Start[r])' = Reading(Start[r])
<1>1. TypeOK'
  BY NextTypeOK DEF QuietInv, IInv
<1>2. /\ r \in DOMAIN slip
      /\ Start[r] \in Days /\ Start[r] \in Nat
  BY SlipsAreOfRuns DEF QuietInv, ProcessedHasSlip, IInv
<1>3. \A from \in Nat : ~(Start[r] < from) => r \in Reached(from)
  BY <1>2 DEF Reached
<1>4. ASSUME NEW c \in Callers, WritePlan(c)
      PROVE  Start[r] < call[c].from
  <2>1. call[c].from \in Nat
    BY <1>4, CarriedByStep, DaysAreDates DEF QuietInv, IInv, WritePlan
  <2>2. r \notin Reached(call[c].from)
    BY <1>4 DEF QuietInv, UpToDate, WritePlan
  <2> QED
    BY <1>3, <2>1, <2>2
<1>5. \A i \in Items : AsOf(i, Start[r])' = AsOf(i, Start[r])
  BY <1>1, <1>2, <1>4, OthersRead, PlanReads
<1> QED
  BY <1>5, ReadingStands

\* A period reads a component differently only if a version dated in or before
\* it was written or withdrawn: for any history and any number of days.
THEOREM EarlierPeriodsStand == QuietSpec => EarlierPeriodsKept
<1>1. QuietInv /\ [Next /\ Quiet' /\ RunsWait]_vars =>
        [\A i \in Items, d \in Days :
           (\A x \in 1..d :
              /\ x \in DOMAIN versions'[i] <=> x \in DOMAIN versions[i]
              /\ x \in DOMAIN versions[i] => versions'[i][x] = versions[i][x])
           => AsOf(i, d)' = AsOf(i, d)]_vars
  BY EarlierStep
<1> QED
  BY QuietInit, QuietStep, <1>1, PTL DEF QuietSpec, EarlierPeriodsKept

\* hook.yaml:144 (PAY-CHANGE-RUNS) holds of plans as long as nobody processes a
\* run between a plan's check and its commit: CheckRuns refuses what reaches a
\* processed run, so its reading moves by a withdrawal alone.
THEOREM FinalRunsStand == QuietSpec => FinalRunsKeepTheirReading
<1>1. QuietInv /\ [Next /\ Quiet' /\ RunsWait]_vars =>
        [\A r \in Runs :
           status[r] = "processed" /\ Reading(Start[r])' # Reading(Start[r])
             => \E c \in Callers : Withdraw(c)]_vars
  BY FinalStep
<1> QED
  BY QuietInit, QuietStep, <1>1, PTL DEF QuietSpec, FinalRunsKeepTheirReading
===============================================================================
