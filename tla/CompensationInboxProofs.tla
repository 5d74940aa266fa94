------------------------ MODULE CompensationInboxProofs ------------------------
(* The type invariant of CompensationInbox, that an event has one effect, and *)
(* that none is skipped in silence, for any employees, events and workers.    *)
EXTENDS CompensationInbox, TLAPS

\* A worker is inside the transaction of an event it has claimed.
Holds(w, v) == call[w].at \in {"look", "write"} /\ call[w].event = v

\* One transaction at a time holds the claim of an event, and only of one that
\* nobody has claimed for good.
ClaimsExclude ==
  \A w \in Workers, v \in Events : Holds(w, v) =>
    /\ v \notin inbox
    /\ \A x \in Workers : Holds(x, v) => x = w

IInv == TypeOK /\ ClaimsExclude /\ OneEffect

-------------------------------------------------------------------------------

LEMMA TypeInit == ASSUME Init PROVE TypeOK
  BY DEF Init, TypeOK, Call, Idle

LEMMA TypeStep == ASSUME TypeOK, [Next]_vars PROVE TypeOK'
<1> USE DEF TypeOK
<1>1. ASSUME NEW e \in Employees, AddEmployee(e) \/ SetSalary(e) PROVE TypeOK'
  <2>1. PICK s \in Amounts \cup {None} : salary' = [salary EXCEPT ![e] = s]
    BY <1>1 DEF AddEmployee, SetSalary
  <2>2. salary' \in [Employees -> Amounts \cup {None, Absent}]
    BY <2>1
  <2>3. UNCHANGED <<waiting, inbox, changes, warned, call>>
    BY <1>1 DEF AddEmployee, SetSalary
  <2> QED BY <2>2, <2>3
<1>2. ASSUME NEW w \in Workers, NEW v \in Events, Deliver(w, v) PROVE TypeOK'
  <2>1. Amount(v) \in Amounts \cup {None}
    BY InboxAssumption DEF Amount, StartingSalary
  <2>2. call' \in [Workers -> Call]
    BY <1>2, <2>1 DEF Deliver, Goto, Call
  <2> QED BY <1>2, <2>2 DEF Deliver
<1>3. ASSUME NEW w \in Workers, Claim(w) PROVE TypeOK'
  <2>1. PICK v \in Events, r \in Amounts \cup {None} :
           call[w] = [at |-> "claim", event |-> v, read |-> r]
    BY <1>3 DEF Claim, At, Call, Idle, Down
  <2>2. /\ [at |-> "look", event |-> v, read |-> r] \in Call
        /\ [at |-> "answer", event |-> v] \in Call
    BY DEF Call
  <2>3. call' \in [Workers -> Call]
    BY <1>3, <2>1, <2>2 DEF Claim, Goto
  <2> QED BY <1>3, <2>3 DEF Claim
<1>4. ASSUME NEW w \in Workers, Look(w) PROVE TypeOK'
  <2>1. PICK v \in Events, r \in Amounts \cup {None} :
           call[w] = [at |-> "look", event |-> v, read |-> r]
    BY <1>4 DEF Look, At, Call, Idle, Down
  <2>2. Row(v, r) \in Entry \cup {None}
    BY DEF Row, Entry
  <2>3. Idle \in Call /\ [at |-> "write", event |-> v, row |-> Row(v, r)] \in Call
    BY <2>2 DEF Call
  <2>4. call' \in [Workers -> Call] /\ warned' \subseteq Events
    BY <1>4, <2>1, <2>3 DEF Look, Goto
  <2> QED BY <1>4, <2>4 DEF Look
<1>5. ASSUME NEW w \in Workers, Commit(w) PROVE TypeOK'
  <2>1. PICK v \in Events, row \in Entry \cup {None} :
           call[w] = [at |-> "write", event |-> v, row |-> row]
    BY <1>5 DEF Commit, At, Call, Idle, Down
  <2>2. changes' \in [Events -> Seq(Entry)]
    BY <1>5, <2>1 DEF Commit
  <2> QED BY <1>5, <2>1, <2>2 DEF Commit, Goto, Call
<1>6. ASSUME NEW w \in Workers, Answer(w) \/ Restart(w) \/ Crash(w) PROVE TypeOK'
  BY <1>6 DEF Answer, Restart, Crash, Goto, Call
<1>7. CASE UNCHANGED vars
  BY <1>7 DEF vars
<1> QED BY <1>1, <1>2, <1>3, <1>4, <1>5, <1>6, <1>7 DEF Next, Continue

-------------------------------------------------------------------------------
(* How a step moves the claims. *)

\* A worker that takes a step to anywhere but a claim's transaction lets go,
\* and the others hold what they held.
LEMMA LetsGo ==
  ASSUME TypeOK, NEW w \in Workers, NEW step, Goto(w, step),
         step.at \notin {"look", "write"},
         NEW x \in Workers, NEW v \in Events, Holds(x, v)'
  PROVE  x # w /\ Holds(x, v)
  BY DEF TypeOK, Goto, Holds

\* A step within the transaction of an event keeps who holds what.
LEMMA Keeps ==
  ASSUME TypeOK, NEW w \in Workers, NEW step, Goto(w, step),
         step.event = call[w].event,
         NEW x \in Workers, NEW v \in Events, Holds(x, v)'
  PROVE  (x # w => Holds(x, v)) /\ (x = w => v = call[w].event)
  BY DEF TypeOK, Goto, Holds

\* Only Claim, Look and Commit disturb the claims or the rows: every other
\* step leaves both or lets a claim go.
LEMMA OnlyLetsGo ==
  ASSUME IInv, UNCHANGED <<inbox, changes>>,
         \A x \in Workers, v \in Events : Holds(x, v)' => Holds(x, v)
  PROVE  ClaimsExclude' /\ OneEffect'
  BY DEF IInv, ClaimsExclude, OneEffect

LEMMA EffectStep == ASSUME IInv, [Next]_vars PROVE ClaimsExclude' /\ OneEffect'
<1> USE DEF IInv
<1>1. ASSUME NEW e \in Employees, AddEmployee(e) \/ SetSalary(e)
      PROVE  ClaimsExclude' /\ OneEffect'
  BY <1>1, OnlyLetsGo DEF AddEmployee, SetSalary, Holds
<1>2. ASSUME NEW w \in Workers, NEW v \in Events, Deliver(w, v)
      PROVE  ClaimsExclude' /\ OneEffect'
  <2>1. \A x \in Workers, u \in Events : Holds(x, u)' => Holds(x, u)
    BY <1>2, LetsGo DEF Deliver
  <2> QED BY <1>2, <2>1, OnlyLetsGo DEF Deliver
<1>3. ASSUME NEW w \in Workers, Claim(w) PROVE ClaimsExclude' /\ OneEffect'
  <2> DEFINE v == call[w].event
  <2>1. UNCHANGED <<inbox, changes>> /\ ~ClaimHeld(v) /\ At(w, "claim")
    BY <1>3 DEF Claim
  <2>2. CASE FirstTime(v)
    <3>1. Goto(w, [call[w] EXCEPT !.at = "look"])
      BY <1>3, <2>2 DEF Claim
    <3>2. call[w] \in [at : {"claim", "look"}, event : Events,
                       read : Amounts \cup {None}]
      BY <2>1 DEF TypeOK, Call, Idle, Down, At
    <3>3. [call[w] EXCEPT !.at = "look"].event = v
      BY <3>2
    <3>4. \A x \in Workers, u \in Events : Holds(x, u)' =>
             (x # w => Holds(x, u)) /\ (x = w => u = v)
      BY <3>1, <3>3, Keeps
    <3>5. \A x \in Workers : ~Holds(x, v)
      BY <2>1 DEF ClaimHeld, Holds
    <3>6. ClaimsExclude'
      BY <2>1, <2>2, <3>4, <3>5 DEF ClaimsExclude, FirstTime
    <3> QED BY <2>1, <3>6 DEF OneEffect
  <2>3. CASE ~FirstTime(v)
    <3>1. Goto(w, [at |-> "answer", event |-> v])
      BY <1>3, <2>3 DEF Claim
    <3>2. \A x \in Workers, u \in Events : Holds(x, u)' => Holds(x, u)
      BY <3>1, LetsGo
    <3> QED BY <2>1, <3>2, OnlyLetsGo
  <2> QED BY <2>2, <2>3
<1>4. ASSUME NEW w \in Workers, Look(w) PROVE ClaimsExclude' /\ OneEffect'
  <2> DEFINE v == call[w].event
             r == call[w].read
  <2>1. UNCHANGED <<inbox, changes>> /\ At(w, "look")
    BY <1>4 DEF Look
  <2>2. CASE Refused(v, r)
    <3>1. Goto(w, Idle)
      BY <1>4, <2>2 DEF Look
    <3>2. \A x \in Workers, u \in Events : Holds(x, u)' => Holds(x, u)
      BY <3>1, LetsGo DEF Idle
    <3> QED BY <2>1, <3>2, OnlyLetsGo
  <2>3. CASE ~Refused(v, r)
    <3>1. Goto(w, [at |-> "write", event |-> v, row |-> Row(v, r)])
      BY <1>4, <2>3 DEF Look
    <3>2. \A x \in Workers, u \in Events : Holds(x, u)' =>
             (x # w => Holds(x, u)) /\ (x = w => u = v)
      BY <3>1, Keeps
    <3>3. Holds(w, v)
      BY <2>1 DEF Holds, At
    <3>4. \A x \in Workers, u \in Events : Holds(x, u)' => Holds(x, u)
      BY <3>2, <3>3
    <3> QED BY <2>1, <3>4, OnlyLetsGo
  <2> QED BY <2>2, <2>3
<1>5. ASSUME NEW w \in Workers, Commit(w) PROVE ClaimsExclude' /\ OneEffect'
  <2>1. PICK v \in Events, row \in Entry \cup {None} :
           call[w] = [at |-> "write", event |-> v, row |-> row]
    BY <1>5 DEF Commit, At, TypeOK, Call, Idle, Down
  <2>2. Holds(w, v)
    BY <2>1 DEF Holds
  <2>3. inbox' = inbox \cup {v} /\ Goto(w, [at |-> "answer", event |-> v])
    BY <1>5, <2>1 DEF Commit
  <2>4. \A x \in Workers, u \in Events : Holds(x, u)' => x # w /\ Holds(x, u)
    BY <2>3, LetsGo
  <2>5. ClaimsExclude'
    BY <2>2, <2>3, <2>4 DEF ClaimsExclude
  <2>6. v \notin inbox /\ changes[v] = <<>>
    BY <2>2 DEF ClaimsExclude, OneEffect
  <2>7. \/ changes' = changes
        \/ changes' = [changes EXCEPT ![v] = Append(@, row)] /\ row \in Entry
    BY <1>5, <2>1 DEF Commit
  <2>8. Len(<<>>) = 0 /\ \A y \in Entry : Len(Append(<<>>, y)) = 1
    OBVIOUS
  <2>9. ASSUME NEW u \in Events
        PROVE  Len(changes'[u]) <= 1 /\ (u \notin inbox' => changes'[u] = <<>>)
    <3>1. CASE u = v
      <4>1. changes'[v] = <<>> \/ (changes'[v] = Append(<<>>, row) /\ row \in Entry)
        BY <2>6, <2>7 DEF TypeOK
      <4>2. Len(changes'[v]) = 0 \/ Len(changes'[v]) = 1
        BY <2>8, <4>1, Zenon
      <4>3. \A n : n = 0 \/ n = 1 => n <= 1
        OBVIOUS
      <4>4. Len(changes'[v]) <= 1
        BY <4>2, <4>3, Zenon
      <4> QED BY <2>3, <3>1, <4>4
    <3>2. CASE u # v
      BY <2>3, <2>7, <3>2 DEF OneEffect, TypeOK
    <3> QED BY <3>1, <3>2
  <2>10. OneEffect'
    BY <2>9 DEF OneEffect
  <2> QED BY <2>5, <2>10
<1>6. ASSUME NEW w \in Workers, Answer(w) \/ Restart(w) \/ Crash(w)
      PROVE  ClaimsExclude' /\ OneEffect'
  <2>1. Goto(w, Idle) \/ Goto(w, Down)
    BY <1>6 DEF Answer, Restart, Crash
  <2>2. \A x \in Workers, u \in Events : Holds(x, u)' => Holds(x, u)
    BY <2>1, LetsGo DEF Idle, Down
  <2> QED BY <1>6, <2>2, OnlyLetsGo DEF Answer, Restart, Crash
<1>7. CASE UNCHANGED vars
  BY <1>7, OnlyLetsGo DEF vars, Holds
<1> QED BY <1>1, <1>2, <1>3, <1>4, <1>5, <1>6, <1>7 DEF Next, Continue

-------------------------------------------------------------------------------
(* Theorems *)

\* Every reachable state of the consumers has the declared types.
THEOREM InboxTypeCorrect == Spec => []TypeOK
<1>1. Init => TypeOK
  BY TypeInit
<1>2. TypeOK /\ [Next]_vars => TypeOK'
  BY TypeStep
<1> QED BY <1>1, <1>2, PTL DEF Spec

\* An event leaves one compensation row at most, and none before its claim has
\* committed, however often and to however many workers it is delivered and
\* wherever they die.
THEOREM EventsHaveOneEffect == Spec => []OneEffect
<1>1. Init => IInv
  <2> SUFFICES ASSUME Init PROVE IInv
    OBVIOUS
  <2>1. ClaimsExclude /\ OneEffect
    BY DEF Init, ClaimsExclude, OneEffect, Holds, Idle
  <2> QED BY <2>1, TypeInit DEF IInv
<1>2. IInv /\ [Next]_vars => IInv'
  BY TypeStep, EffectStep DEF IInv
<1>3. IInv => OneEffect
  BY DEF IInv
<1> QED BY <1>1, <1>2, <1>3, PTL DEF Spec

-------------------------------------------------------------------------------
(* No skip is silent. *)

\* Why an event may be consumed without a row of its own.
Excused(v) ==
  \/ v \in warned
  \/ Kind[v] = "onboarding" /\ HasRows(Who[v])
  \/ Kind[v] = "promotion" /\ Offered[v] = None

\* What a worker carries: the payload's amount, unless an onboarding asked for
\* it, and where it has decided to leave no row, a reason that lasts.
CarriesReason ==
  \A w \in Workers :
    /\ /\ At(w, "claim") \/ At(w, "look")
       /\ Kind[call[w].event] # "onboarding"
       => call[w].read = Offered[call[w].event]
    /\ At(w, "write") /\ call[w].row = None => Excused(call[w].event)

SkipInv == TypeOK /\ CarriesReason /\ SkipsAreVisible

\* A sequence something was appended to is not empty.
LEMMA AppendNotEmpty ==
  ASSUME NEW S, NEW q \in Seq(S), NEW x \in S
  PROVE  Append(q, x) # <<>>
<1>1. Len(Append(q, x)) = Len(q) + 1 /\ Len(q) \in Nat
  OBVIOUS
<1>2. Len(<<>>) = 0
  OBVIOUS
<1>3. \A n \in Nat : n + 1 # 0
  OBVIOUS
<1> QED BY <1>1, <1>2, <1>3, Zenon

\* No step takes back a warning or a row.
LEMMA NothingTakenBack ==
  ASSUME TypeOK, [Next]_vars
  PROVE  /\ warned \subseteq warned'
         /\ \A v \in Events : changes[v] # <<>> => changes'[v] # <<>>
<1>1. ASSUME NEW w \in Workers, Commit(w)
      PROVE  /\ warned \subseteq warned'
             /\ \A v \in Events : changes[v] # <<>> => changes'[v] # <<>>
  <2>1. PICK u \in Events, row \in Entry \cup {None} :
           call[w] = [at |-> "write", event |-> u, row |-> row]
    BY <1>1 DEF Commit, At, TypeOK, Call, Idle, Down
  <2>2. \A q \in Seq(Entry), x \in Entry : Append(q, x) # <<>>
    BY AppendNotEmpty
  <2>3. ASSUME NEW v \in Events, changes[v] # <<>> PROVE changes'[v] # <<>>
    <3>1. CASE row = None
      BY <1>1, <2>1, <2>3, <3>1 DEF Commit
    <3>2. CASE row # None
      <4>1. changes' = [changes EXCEPT ![u] = Append(changes[u], row)]
        BY <1>1, <2>1, <3>2 DEF Commit
      <4>2. changes[u] \in Seq(Entry) /\ row \in Entry
        BY <3>2 DEF TypeOK
      <4>3. Append(changes[u], row) # <<>>
        BY <2>2, <4>2
      <4> QED BY <2>3, <4>1, <4>3 DEF TypeOK
    <3> QED BY <3>1, <3>2
  <2> QED BY <1>1, <2>3 DEF Commit
<1>2. ASSUME NEW w \in Workers, Look(w)
      PROVE  /\ warned \subseteq warned'
             /\ \A v \in Events : changes[v] # <<>> => changes'[v] # <<>>
  BY <1>2 DEF Look
<1>3. CASE UNCHANGED <<changes, warned>>
  BY <1>3
<1> QED
  BY <1>1, <1>2, <1>3
     DEF Next, Continue, vars, AddEmployee, SetSalary, Deliver, Claim, Answer,
         Restart, Crash

\* So an excuse stays one.
LEMMA ExcusesLast ==
  ASSUME TypeOK, [Next]_vars, NEW v \in Events, Excused(v)
  PROVE  Excused(v)'
  BY NothingTakenBack DEF Excused, HasRows

\* What CarriesReason says of one worker.
Carries(w) ==
  /\ /\ At(w, "claim") \/ At(w, "look")
     /\ Kind[call[w].event] # "onboarding"
     => call[w].read = Offered[call[w].event]
  /\ At(w, "write") /\ call[w].row = None => Excused(call[w].event)

\* A worker the step does not move carries what it carried.
LEMMA OthersCarry ==
  ASSUME SkipInv, [Next]_vars, NEW x \in Workers, call'[x] = call[x]
  PROVE  Carries(x)'
<1>1. Carries(x)
  BY DEF SkipInv, CarriesReason, Carries
<1>2. CASE At(x, "write") /\ call[x].row = None
  <2>1. PICK v \in Events : call[x].event = v
    BY <1>2 DEF SkipInv, TypeOK, Call, Idle, Down, At
  <2>2. Excused(v)'
    BY <1>1, <1>2, <2>1, ExcusesLast DEF Carries, SkipInv
  <2>3. call'[x].event = v /\ call'[x].at = "write"
    BY <1>2, <2>1 DEF At
  <2>4. At(x, "write")' /\ ~At(x, "claim")' /\ ~At(x, "look")'
    BY <2>3 DEF At
  <2> QED BY <2>2, <2>3, <2>4 DEF Carries
<1>3. CASE ~(At(x, "write") /\ call[x].row = None)
  BY <1>1, <1>3 DEF Carries, At
<1> QED BY <1>2, <1>3

\* The worker that moves carries a reason when it has moved.
LEMMA MoverCarries ==
  ASSUME SkipInv, NEW w \in Workers, [Next]_vars,
         \/ Continue(w) \/ Crash(w) \/ \E v \in Events : Deliver(w, v)
  PROVE  Carries(w)'
<1> USE DEF SkipInv
<1>1. ASSUME NEW v \in Events, Deliver(w, v) PROVE Carries(w)'
  <2>1. call'[w] = [at |-> "claim", event |-> v, read |-> Amount(v)]
    BY <1>1 DEF Deliver, Goto, TypeOK
  <2>2. Kind[v] # "onboarding" => Amount(v) = Offered[v]
    BY DEF Amount
  <2> QED BY <2>1, <2>2 DEF Carries, At
<1>2. ASSUME Claim(w) PROVE Carries(w)'
  <2>1. PICK v \in Events, r \in Amounts \cup {None} :
           call[w] = [at |-> "claim", event |-> v, read |-> r]
    BY <1>2 DEF Claim, At, TypeOK, Call, Idle, Down
  <2>2. Kind[v] # "onboarding" => r = Offered[v]
    BY <2>1 DEF CarriesReason, At
  <2>3. \/ call'[w] = [at |-> "look", event |-> v, read |-> r]
        \/ call'[w] = [at |-> "answer", event |-> v]
    BY <1>2, <2>1 DEF Claim, Goto, TypeOK
  <2> QED BY <2>2, <2>3 DEF Carries, At
<1>3. ASSUME Look(w) PROVE Carries(w)'
  <2>1. PICK v \in Events, r \in Amounts \cup {None} :
           call[w] = [at |-> "look", event |-> v, read |-> r]
    BY <1>3 DEF Look, At, TypeOK, Call, Idle, Down
  <2>2. Kind[v] # "onboarding" => r = Offered[v]
    BY <2>1 DEF CarriesReason, At
  <2>3. \/ call'[w] = Idle
        \/ call'[w] = [at |-> "write", event |-> v, row |-> Row(v, r)]
    BY <1>3, <2>1 DEF Look, Goto, TypeOK
  <2>4. ASSUME Row(v, r) = None PROVE Excused(v)'
    <3>1. /\ changes' = changes
          /\ warned' = IF Warns(v, r) THEN warned \cup {v} ELSE warned
      BY <1>3, <2>1 DEF Look
    <3>2. Kind[v] \in Kinds
      BY InboxAssumption
    <3>3. CASE Kind[v] = "onboarding"
      <4>1. HasRows(Who[v]) \/ r = None
        BY <2>4, <3>3 DEF Row, Compensated
      <4>2. HasRows(Who[v]) => HasRows(Who[v])'
        BY <3>1 DEF HasRows
      <4>3. HasRows(Who[v]) \/ Warns(v, r)
        BY <4>1, <3>3 DEF Warns, Compensated
      <4> QED BY <3>1, <3>3, <4>2, <4>3 DEF Excused
    <3>4. CASE Kind[v] = "hire"
      <4>1. Warns(v, r)
        BY <2>4, <3>4 DEF Row, Warns
      <4> QED BY <3>1, <4>1 DEF Excused
    <3>5. CASE Kind[v] = "promotion"
      BY <2>2, <2>4, <3>5 DEF Row, Excused
    <3>6. CASE Kind[v] = "offboarding"
      BY <2>4, <3>6, InboxAssumption DEF Row
    <3> QED BY <3>2, <3>3, <3>4, <3>5, <3>6 DEF Kinds
  <2> QED BY <2>3, <2>4 DEF Carries, At, Idle
<1>4. ASSUME Commit(w) \/ Answer(w) \/ Restart(w) \/ Crash(w) PROVE Carries(w)'
  <2>1. call'[w].at \in {"answer", "idle", "down"}
    BY <1>4 DEF Commit, Answer, Restart, Crash, Goto, Idle, Down, TypeOK
  <2> QED BY <2>1 DEF Carries, At
<1> QED BY <1>1, <1>2, <1>3, <1>4 DEF Continue

LEMMA ReasonStep == ASSUME SkipInv, [Next]_vars PROVE CarriesReason'
<1>1. SUFFICES ASSUME NEW x \in Workers PROVE Carries(x)'
  BY DEF CarriesReason, Carries
<1>2. CASE call'[x] = call[x]
  BY <1>2, OthersCarry
<1>3. CASE call'[x] # call[x]
  <2>1. PICK w \in Workers :
           Continue(w) \/ Crash(w) \/ \E v \in Events : Deliver(w, v)
    BY <1>3 DEF Next, vars, AddEmployee, SetSalary
  <2>2. \A y \in Workers : y # w => call'[y] = call[y]
    BY <2>1 DEF SkipInv, TypeOK, Continue, Deliver, Claim, Look, Commit, Answer,
                Restart, Crash, Goto
  <2>3. x = w
    BY <1>3, <2>2
  <2> QED BY <2>1, <2>3, MoverCarries
<1> QED BY <1>2, <1>3

LEMMA SkipStep == ASSUME SkipInv, [Next]_vars PROVE SkipsAreVisible'
<1>1. SUFFICES ASSUME NEW v \in Events, v \in inbox', changes'[v] = <<>>
               PROVE  Excused(v)'
  <2>1. TypeOK'
    BY TypeStep DEF SkipInv
  <2> QED BY <2>1 DEF SkipsAreVisible, Excused, TypeOK
<1>2. changes[v] = <<>>
  BY <1>1, NothingTakenBack DEF SkipInv
<1>3. CASE v \in inbox
  <2>1. Excused(v)
    BY <1>2, <1>3 DEF SkipInv, SkipsAreVisible, Excused
  <2> QED BY <2>1, ExcusesLast DEF SkipInv
<1>4. CASE v \notin inbox
  <2>1. PICK w \in Workers : Commit(w)
    BY <1>1, <1>4 DEF Next, vars, AddEmployee, SetSalary, Deliver, Continue,
                      Claim, Look, Answer, Restart, Crash
  <2>2. PICK u \in Events, row \in Entry \cup {None} :
           call[w] = [at |-> "write", event |-> u, row |-> row]
    BY <2>1 DEF Commit, At, SkipInv, TypeOK, Call, Idle, Down
  <2>3. u = v
    BY <1>1, <1>4, <2>1, <2>2 DEF Commit
  <2>4. row = None
    <3>1. SUFFICES ASSUME row # None PROVE FALSE
      OBVIOUS
    <3>2. changes' = [changes EXCEPT ![v] = Append(changes[v], row)]
      BY <2>1, <2>2, <2>3, <3>1 DEF Commit
    <3>3. changes[v] \in Seq(Entry) /\ row \in Entry
      BY <3>1 DEF SkipInv, TypeOK
    <3>4. \A q \in Seq(Entry), y \in Entry : Append(q, y) # <<>>
      BY AppendNotEmpty
    <3>5. changes'[v] = Append(changes[v], row)
      BY <3>2 DEF SkipInv, TypeOK
    <3> QED BY <1>1, <3>3, <3>4, <3>5
  <2>5. Excused(v)
    BY <2>2, <2>3, <2>4 DEF SkipInv, CarriesReason, At
  <2> QED BY <2>5, ExcusesLast DEF SkipInv
<1> QED BY <1>3, <1>4

\* An event that was consumed without a row was logged, or its employee has
\* rows of other events, or it is a promotion without a salary.
THEOREM SkipsVisible == Spec => []SkipsAreVisible
<1>1. Init => SkipInv
  <2> SUFFICES ASSUME Init PROVE SkipInv
    OBVIOUS
  <2>1. CarriesReason /\ SkipsAreVisible
    BY DEF Init, CarriesReason, SkipsAreVisible, At, Idle
  <2> QED BY <2>1, TypeInit DEF SkipInv
<1>2. SkipInv /\ [Next]_vars => SkipInv'
  BY TypeStep, ReasonStep, SkipStep DEF SkipInv
<1>3. SkipInv => SkipsAreVisible
  BY DEF SkipInv
<1> QED BY <1>1, <1>2, <1>3, PTL DEF Spec

================================================================================
