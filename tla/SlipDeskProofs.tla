---------------------------- MODULE SlipDeskProofs -----------------------------
(*****************************************************************************)
(* What SlipDesk guarantees for any employees, orders, worlds, laws and      *)
(* structures, and however much others commit between two statements: first  *)
(* what was read when, then what a computed slip pays and withholds (the     *)
(* calculations against their definitions by units, and the slips on file).  *)
(*****************************************************************************)
EXTENDS SlipDesk, FiniteSums

-------------------------------------------------------------------------------
(* The order of the five tables *)

\* What has been read of the law before the next table.
ReadSoFar ==
  {{}, {"brackets"}, {"brackets", "ptkp"}, {"brackets", "ptkp", "ter"},
   {"brackets", "ptkp", "ter", "bpjs"}}

\* The parts of the law are read one after the other, overtime last.
LEMMA TablesInOrder ==
  ASSUME NEW S \in ReadSoFar, NEW t, t = ReadOrder[Cardinality(S) + 1]
  PROVE  /\ t \in Tables
         /\ t = "overtime" => S \cup {t} = Tables
         /\ t # "overtime" => S \cup {t} \in ReadSoFar
<1>1. IsFiniteSet({}) /\ Cardinality({}) = 0
  BY FS_EmptySet
<1>2. /\ IsFiniteSet({"brackets"}) /\ Cardinality({"brackets"}) = 1
  BY FS_Singleton
<1> DEFINE P == {"brackets", "ptkp"}
           T == {"brackets", "ptkp", "ter"}
           B == {"brackets", "ptkp", "ter", "bpjs"}
<1>3. IsFiniteSet(P) /\ Cardinality(P) = 2
  <2>1. P = {"brackets"} \cup {"ptkp"}
    OBVIOUS
  <2> HIDE DEF P
  <2> QED
    BY <1>2, <2>1, FS_AddElement
<1>4. IsFiniteSet(T) /\ Cardinality(T) = 3
  <2>1. T = P \cup {"ter"} /\ "ter" \notin P
    OBVIOUS
  <2> HIDE DEF P, T
  <2> QED
    BY <1>3, <2>1, FS_AddElement
<1>5. IsFiniteSet(B) /\ Cardinality(B) = 4
  <2>1. B = T \cup {"bpjs"} /\ "bpjs" \notin T
    OBVIOUS
  <2> HIDE DEF T, B
  <2> QED
    BY <1>4, <2>1, FS_AddElement
<1>6. \/ S = {} /\ t = "brackets"
      \/ S = {"brackets"} /\ t = "ptkp"
      \/ S = P /\ t = "ter"
      \/ S = T /\ t = "bpjs"
      \/ S = B /\ t = "overtime"
  BY <1>1, <1>2, <1>3, <1>4, <1>5 DEF ReadSoFar, ReadOrder
<1> QED
  BY <1>6 DEF ReadSoFar, Tables

-------------------------------------------------------------------------------
(* The inductive invariant *)

FromRecheck == {"recheck", "price", "insert"}
FromAssemble == FromRecheck \cup {"assemble"}
FromHours == FromAssemble \cup {"hours"}
FromApproval == FromHours \cup {"approval"}
FromClock == FromApproval \cup {"clock"}
FromBase == FromClock \cup {"base"}
FromFacts == FromBase \cup {"facts"}
FromLaw == FromFacts \cup {"law"}

\* The tables are well-formed.
DeskTyped ==
  /\ {"from", "to", "month"} \subseteq DOMAIN run
  /\ AsOf \in Nat
  /\ DOMAIN law = Tables
  /\ \A t \in Tables : DOMAIN law[t] \subseteq Nat

\* cfg is one set of table t, and only what since lists has replaced it.
ReadsAs(t, cfg) ==
  \E d \in DOMAIN law[t] :
    /\ d <= AsOf
    /\ cfg \in Readings(t, law[t][d])
    /\ \A x \in DOMAIN law[t] : x \in d + 1..AsOf => <<t, x>> \in since

\* What a request holds is what the tables say, unless it has been disturbed;
\* what it has worked out is worked out from what it holds.
Found(r) == Vouching(approvals, r.order.employee, Window)

LawOK(r) ==
  "seen" \in DOMAIN r /\ \A t \in DOMAIN r.seen : ReadsAs(t, r.seen[t])
AllLaw(r) ==
  DOMAIN r.seen = Tables /\ r.seen = [t \in Tables |-> r.seen[t]]
InOK(r) ==
  /\ "in" \in DOMAIN r
  /\ ~Disturbed => r.in = FactsOf(facts[r.order.employee], run)
BaseOK(r) ==
  /\ "base" \in DOMAIN r
  /\ ~Disturbed => r.base = BaseOf(structure)
ClockOK(r) ==
  /\ "clock" \in DOMAIN r
  /\ ~Disturbed => r.clock = ClockStretches(minutes[r.order.employee], Window)
ApprovalOK(r) ==
  /\ "approval" \in DOMAIN r
  /\ ~Disturbed =>
       r.approval = IF Found(r) = {} THEN NoRef ELSE LatestOf(Found(r)).id
HoursOK(r) ==
  /\ "hours" \in DOMAIN r
  /\ ~Disturbed =>
       r.hours = IF Found(r) = {} THEN <<>>
                 ELSE ApprovedStretches(sheet[r.order.employee].claimed,
                        sheet[r.order.employee].authorised, Window)
StatutoryOK(r) == "statutory" \in DOMAIN r /\ r.statutory = Statutory(r)
SlipOK(r) == "slip" \in DOMAIN r /\ (~Disturbed => r.slip = SlipOf(r))

DeskInv ==
  /\ DeskTyped
  /\ "at" \in DOMAIN req
  /\ \/ At("idle") /\ since = {}
     \/ (At("run") \/ req.at \in FromLaw) /\ "order" \in DOMAIN req
  /\ req.at \in FromLaw => LawOK(req)
  /\ At("law") => DOMAIN req.seen \in ReadSoFar
  /\ req.at \in FromFacts => AllLaw(req)
  /\ req.at \in FromBase => InOK(req)
  /\ req.at \in FromClock => BaseOK(req)
  /\ req.at \in FromApproval => ClockOK(req)
  /\ req.at \in FromHours => ApprovalOK(req)
  /\ At("hours") /\ ~Disturbed => Found(req) # {}
  /\ req.at \in FromAssemble => HoursOK(req)
  /\ req.at \in FromRecheck => StatutoryOK(req)
  /\ At("insert") => SlipOK(req)

\* An interval of days.
LEMMA Days ==
  ASSUME NEW a \in Nat, NEW b \in Int
  PROVE  a..b \subseteq Nat /\ IsFiniteSet(a..b)
<1>1. a..b \subseteq Nat
  OBVIOUS
<1>2. IsFiniteSet(a..b)
  BY FS_Interval
<1> QED
  BY <1>1, <1>2

\* A run's window is some days.
LEMMA WindowIsDays ==
  ASSUME NEW r, r.month \in Nat, {r.from, r.to} \subseteq Nat \cup {NoOne}
  PROVE  RunWindow(r) \in SUBSET Nat /\ IsFiniteSet(RunWindow(r))
<1> DEFINE m == r.month * MonthDays
<1>1. m \in Nat /\ MonthDays \in Nat
  BY MonthAssumption
<1> HIDE DEF m
<1>2. m..(m + MonthDays - 1) \subseteq Nat /\ IsFiniteSet(m..(m + MonthDays - 1))
  BY <1>1, Days
<1>3. Month(r.month) = m..(m + MonthDays - 1)
  BY DEF Month, m
<1>4. ASSUME r.from # NoOne, r.to # NoOne
      PROVE  r.from..r.to \subseteq Nat /\ IsFiniteSet(r.from..r.to)
  <2>1. r.from \in Nat /\ r.to \in Nat
    BY <1>4
  <2> QED
    BY <2>1, Days
<1>5. CASE r.from # NoOne /\ r.to # NoOne
  BY <1>4, <1>5 DEF RunWindow
<1>6. CASE ~(r.from # NoOne /\ r.to # NoOne)
  <2>1. RunWindow(r) = Month(r.month)
    BY <1>6 DEF RunWindow
  <2> QED
    BY <1>2, <1>3, <2>1
<1> QED
  BY <1>5, <1>6

\* The invariant, at first and after each step.
LEMMA DeskInit == Init => DeskInv
<1> SUFFICES ASSUME Init PROVE DeskInv
  OBVIOUS
<1>1. DeskTyped
  <2>1. /\ {"from", "to", "month"} \subseteq DOMAIN run
        /\ run.month \in Nat /\ {run.from, run.to} \subseteq Nat \cup {NoOne}
        /\ Window # {} /\ DOMAIN law = Tables
        /\ \A t \in Tables : DOMAIN law[t] \subseteq Nat
    <3>1. PICK w \in Worlds : run = w.run /\ law = w.law
      BY DEF Init
    <3>2. WorldTyped(w)
      BY DeskAssumption
    <3> QED
      BY <3>1, <3>2 DEF WorldTyped, Window
  <2>2. Window \in SUBSET Nat
    BY <2>1, WindowIsDays DEF Window
  <2>3. AsOf \in Nat
    BY <2>1, <2>2, FirstIsMin DEF AsOf
  <2> QED
    BY <2>1, <2>3 DEF DeskTyped
<1> QED
  BY <1>1
     DEF Init, DeskInv, At, Idle, FromLaw, FromFacts, FromBase, FromClock,
         FromApproval, FromHours, FromAssemble, FromRecheck

\* A request that ends, or has not read anything yet.
LEMMA DoneStep ==
  ASSUME DeskTyped', "at" \in DOMAIN req',
         \/ req'.at = "idle" /\ since' = {}
         \/ req'.at = "run" /\ "order" \in DOMAIN req'
  PROVE  DeskInv'
  BY DEF DeskInv, At, FromLaw, FromFacts, FromBase, FromClock, FromApproval,
         FromHours, FromAssemble, FromRecheck

-------------------------------------------------------------------------------
(* The statements of a request *)

\* A statement adds what it found and keeps the rest.
LEMMA SeenKeeps ==
  ASSUME "at" \in DOMAIN req, NEW label, NEW found, Then(label, found),
         "at" \notin DOMAIN found
  PROVE  /\ DOMAIN req' = DOMAIN req \cup DOMAIN found
         /\ req'.at = label
         /\ \A f \in DOMAIN req : f # "at" /\ f \notin DOMAIN found =>
              req'[f] = req[f]
         /\ \A f \in DOMAIN found : req'[f] = found[f]
  BY DEF Then, With

\* What is held is held on to, in tables that stand.
LEMMA HeldStays ==
  ASSUME UNCHANGED <<tables, since>>, "order" \in DOMAIN req,
         NEW found, DOMAIN req \subseteq DOMAIN req',
         \A f \in DOMAIN req : f # "at" /\ f \notin DOMAIN found =>
           req'[f] = req[f],
         "order" \notin DOMAIN found
  PROVE  /\ "order" \in DOMAIN req' /\ req'.order = req.order
         /\ LawOK(req) /\ "seen" \notin DOMAIN found => LawOK(req)'
         /\ AllLaw(req) /\ "seen" \in DOMAIN req \ DOMAIN found => AllLaw(req)'
         /\ InOK(req) /\ "in" \notin DOMAIN found => InOK(req)'
         /\ BaseOK(req) /\ "base" \notin DOMAIN found => BaseOK(req)'
         /\ ClockOK(req) /\ "clock" \notin DOMAIN found => ClockOK(req)'
         /\ ApprovalOK(req) /\ "approval" \notin DOMAIN found =>
              ApprovalOK(req)'
         /\ HoursOK(req) /\ "hours" \notin DOMAIN found => HoursOK(req)'
         /\ Found(req)' = Found(req)
         /\ Disturbed' <=> Disturbed
         /\ DeskTyped => DeskTyped'
<1>1. /\ UNCHANGED <<run, law, facts, structure, minutes, sheet, approvals>>
      /\ AsOf' = AsOf /\ Window' = Window
      /\ Disturbed' <=> Disturbed
  BY DEF tables, AsOf, Window, Disturbed
<1>2. req'.order = req.order
  OBVIOUS
<1>3. LawOK(req) /\ "seen" \notin DOMAIN found => LawOK(req)'
  BY <1>1 DEF LawOK, ReadsAs
<1>4. AllLaw(req) /\ "seen" \in DOMAIN req \ DOMAIN found => AllLaw(req)'
  BY DEF AllLaw
<1>5. InOK(req) /\ "in" \notin DOMAIN found => InOK(req)'
  BY <1>1, <1>2 DEF InOK
<1>6. BaseOK(req) /\ "base" \notin DOMAIN found => BaseOK(req)'
  BY <1>1 DEF BaseOK
<1>7. ClockOK(req) /\ "clock" \notin DOMAIN found => ClockOK(req)'
  BY <1>1, <1>2 DEF ClockOK
<1>8. ApprovalOK(req) /\ "approval" \notin DOMAIN found => ApprovalOK(req)'
  BY <1>1, <1>2 DEF ApprovalOK, Found
<1>9. HoursOK(req) /\ "hours" \notin DOMAIN found => HoursOK(req)'
  BY <1>1, <1>2 DEF HoursOK, Found
<1>10. DeskTyped => DeskTyped'
  BY <1>1 DEF DeskTyped
<1>11. Found(req)' = Found(req)
  BY <1>1, <1>2 DEF Found
<1> QED
  BY <1>1, <1>2, <1>3, <1>4, <1>5, <1>6, <1>7, <1>8, <1>9, <1>10, <1>11

\* Every statement leaves the tables it reads alone.
LEMMA ReadsKeep == Reads => UNCHANGED <<tables, since>>
  BY DEF Reads

LEMMA RefuseStep ==
  ASSUME DeskInv, Refuse, UNCHANGED tables
  PROVE  DeskInv'
<1>1. DeskTyped'
  BY DEF DeskInv, DeskTyped, tables, AsOf, Window
<1>2. req'.at = "idle" /\ since' = {} /\ "at" \in DOMAIN req'
  BY DEF Refuse, Idle
<1> QED
  BY <1>1, <1>2, DoneStep

LEMMA BeginStep ==
  ASSUME DeskInv, NEW kind, NEW o, Begin(kind, o)
  PROVE  DeskInv'
<1>1. DeskTyped'
  BY DEF Begin, DeskInv, DeskTyped, tables, AsOf, Window
<1>2. req'.at = "run" /\ "order" \in DOMAIN req' /\ "at" \in DOMAIN req'
  BY DEF Begin
<1> QED
  BY <1>1, <1>2, DoneStep

\* What a statement that is answered leads to, given what it found.
LEMMA AnsweredStep ==
  ASSUME DeskInv, ~At("idle"), NEW label, NEW found, Then(label, found), Reads,
         "at" \notin DOMAIN found, "order" \notin DOMAIN found
  PROVE  /\ DeskTyped' /\ "at" \in DOMAIN req' /\ req'.at = label
         /\ DOMAIN req' = DOMAIN req \cup DOMAIN found
         /\ \A f \in DOMAIN req : f # "at" /\ f \notin DOMAIN found =>
              req'[f] = req[f]
         /\ \A f \in DOMAIN found : req'[f] = found[f]
         /\ "order" \in DOMAIN req' /\ req'.order = req.order
         /\ LawOK(req) /\ "seen" \notin DOMAIN found => LawOK(req)'
         /\ AllLaw(req) /\ "seen" \in DOMAIN req \ DOMAIN found => AllLaw(req)'
         /\ InOK(req) /\ "in" \notin DOMAIN found => InOK(req)'
         /\ BaseOK(req) /\ "base" \notin DOMAIN found => BaseOK(req)'
         /\ ClockOK(req) /\ "clock" \notin DOMAIN found => ClockOK(req)'
         /\ ApprovalOK(req) /\ "approval" \notin DOMAIN found =>
              ApprovalOK(req)'
         /\ HoursOK(req) /\ "hours" \notin DOMAIN found => HoursOK(req)'
         /\ Found(req)' = Found(req)
         /\ Disturbed' <=> Disturbed
         /\ UNCHANGED <<tables, since>>
<1>1. /\ DOMAIN req' = DOMAIN req \cup DOMAIN found
      /\ req'.at = label
      /\ \A f \in DOMAIN req : f # "at" /\ f \notin DOMAIN found =>
           req'[f] = req[f]
      /\ \A f \in DOMAIN found : req'[f] = found[f]
  BY SeenKeeps DEF DeskInv
<1>2. "order" \in DOMAIN req /\ "at" \in DOMAIN req /\ DeskTyped
  BY DEF DeskInv
<1>3. DOMAIN req \subseteq DOMAIN req' /\ UNCHANGED <<tables, since>>
  BY <1>1, ReadsKeep
<1> QED
  BY <1>1, <1>2, <1>3, HeldStays DEF At

\* A table is read under the last of its dates that has come.
LEMMA TableStep ==
  ASSUME DeskInv, ReadLaw
  PROVE  DeskInv'
<1> DEFINE t == NextTable
           rows == RowsInForce(law[t], AsOf)
           label == IF t = "overtime" THEN "facts" ELSE "law"
<1>1. /\ At("law") /\ DOMAIN req.seen \in ReadSoFar /\ LawOK(req)
      /\ DeskTyped
  BY DEF ReadLaw, DeskInv, At, FromLaw
<1>2. /\ t \in Tables
      /\ t = "overtime" => DOMAIN req.seen \cup {t} = Tables
      /\ t # "overtime" => DOMAIN req.seen \cup {t} \in ReadSoFar
  BY <1>1, TablesInOrder DEF NextTable
<1> HIDE DEF t
<1>3. CASE Refuse /\ UNCHANGED <<tables, slips, stamp>>
  BY <1>3, RefuseStep
<1>4. ASSUME DatesInForce(law[t], AsOf) # {},
             NEW cfg \in Readings(t, rows),
             Then(label, [seen |-> With(req.seen, Just(t, cfg))]), Reads
      PROVE  DeskInv'
  <2> DEFINE D == DatesInForce(law[t], AsOf)
             d == Max(D)
             found == [seen |-> With(req.seen, Just(t, cfg))]
  <2>1. D \in SUBSET (0..AsOf) /\ AsOf \in Nat
    BY <1>1, <1>2 DEF DeskTyped, DatesInForce
  <2>2. d \in D /\ \A x \in D : x <= d
    <3> HIDE DEF D
    <3> QED
      BY <1>4, <2>1, LastUpTo DEF D
  <2>3. ReadsAs(t, cfg)
    <3>1. d \in DOMAIN law[t] /\ d <= AsOf /\ d \in Nat
      BY <2>1, <2>2 DEF DatesInForce
    <3>2. cfg \in Readings(t, law[t][d])
      BY <1>4 DEF RowsInForce
    <3>3. \A x \in DOMAIN law[t] : x \notin d + 1..AsOf
      <4> SUFFICES ASSUME NEW x \in DOMAIN law[t], x \in d + 1..AsOf
                   PROVE  FALSE
        OBVIOUS
      <4>1. x \in D
        BY <2>1, <3>1 DEF DatesInForce
      <4> HIDE DEF d
      <4> QED
        BY <2>1, <2>2, <3>1, <4>1
    <3> HIDE DEF d
    <3> QED
      BY <3>1, <3>2, <3>3 DEF ReadsAs
  <2>4. /\ "at" \notin DOMAIN found /\ "order" \notin DOMAIN found
        /\ DOMAIN found = {"seen"} /\ found.seen = With(req.seen, Just(t, cfg))
    OBVIOUS
  <2>5. ~At("idle") /\ Then(label, found)
    BY <1>1, <1>4 DEF At
  <2> HIDE DEF found, label
  <2>6. /\ DeskTyped' /\ "at" \in DOMAIN req' /\ req'.at = label
        /\ "order" \in DOMAIN req' /\ "seen" \in DOMAIN req'
        /\ req'.seen = With(req.seen, Just(t, cfg))
        /\ UNCHANGED <<tables, since>>
    BY <1>4, <2>4, <2>5, AnsweredStep
  <2>7. /\ DOMAIN req'.seen = DOMAIN req.seen \cup {t}
        /\ req'.seen = [x \in DOMAIN req.seen \cup {t} |->
                          IF x \in {t} THEN cfg ELSE req.seen[x]]
        /\ \A x \in DOMAIN req'.seen :
             req'.seen[x] = IF x = t THEN cfg ELSE req.seen[x]
    BY <2>6 DEF With, Just
  <2>8. LawOK(req)'
    <3>1. \A x \in DOMAIN req'.seen : ReadsAs(x, req'.seen[x])
      BY <1>1, <2>3, <2>7 DEF LawOK
    <3>2. law' = law /\ since' = since /\ AsOf' = AsOf
      BY <2>6 DEF tables, AsOf, Window
    <3> QED
      BY <2>6, <3>1, <3>2 DEF LawOK, ReadsAs
  <2>9. CASE t = "overtime"
    <3>1. req'.at = "facts"
      BY <2>6, <2>9 DEF label
    <3>2. AllLaw(req)'
      BY <1>2, <2>7, <2>9 DEF AllLaw
    <3> QED
      BY <2>6, <2>8, <3>1, <3>2
         DEF DeskInv, At, FromLaw, FromFacts, FromBase, FromClock, FromApproval,
             FromHours, FromAssemble, FromRecheck
  <2>10. CASE t # "overtime"
    <3>1. req'.at = "law"
      BY <2>6, <2>10 DEF label
    <3> QED
      BY <1>2, <2>6, <2>7, <2>8, <2>10, <3>1
         DEF DeskInv, At, FromLaw, FromFacts, FromBase, FromClock, FromApproval,
             FromHours, FromAssemble, FromRecheck
  <2> QED
    BY <2>9, <2>10
<1>5. \/ Refuse /\ UNCHANGED <<tables, slips, stamp>>
      \/ /\ DatesInForce(law[t], AsOf) # {}
         /\ \E cfg \in Readings(t, rows) :
              Then(label, [seen |-> With(req.seen, Just(t, cfg))])
         /\ Reads
  BY DEF ReadLaw, t
<1> QED
  BY <1>3, <1>4, <1>5

\* What a request has worked out, it keeps with what it was worked out from.
LEMMA WorkStays ==
  ASSUME DeskInv, req.at \in FromRecheck, req'.order = req.order,
         DOMAIN req \subseteq DOMAIN req',
         \A f \in DOMAIN req : f \notin {"at", "slip"} => req'[f] = req[f]
  PROVE  StatutoryOK(req)'
<1>1. /\ "seen" \in DOMAIN req /\ "in" \in DOMAIN req /\ "base" \in DOMAIN req
      /\ "clock" \in DOMAIN req /\ "approval" \in DOMAIN req
      /\ "hours" \in DOMAIN req /\ StatutoryOK(req)
  BY DEF DeskInv, FromRecheck, FromAssemble, FromHours, FromApproval, FromClock,
         FromBase, FromFacts, FromLaw, LawOK, InOK, BaseOK, ClockOK, ApprovalOK,
         HoursOK
<1>2. /\ req'.seen = req.seen /\ req'.in = req.in /\ req'.base = req.base
      /\ req'.clock = req.clock /\ req'.approval = req.approval
      /\ req'.hours = req.hours
  BY <1>1
<1>3. "statutory" \in DOMAIN req' /\ req'.statutory = req.statutory
  BY <1>1 DEF StatutoryOK
<1>4. Statutory(req)' = Statutory(req)
  BY <1>2 DEF Statutory
<1> QED
  BY <1>1, <1>3, <1>4 DEF StatutoryOK

LEMMA RunStep ==
  ASSUME DeskInv, ReadRun
  PROVE  DeskInv'
<1> DEFINE found == [seen |-> <<>>]
<1>1. CASE Then("law", found) /\ Reads
  <2>1. /\ "at" \notin DOMAIN found /\ "order" \notin DOMAIN found
        /\ DOMAIN found = {"seen"} /\ found.seen = <<>> /\ ~At("idle")
    BY DEF ReadRun, At
  <2> HIDE DEF found
  <2>2. /\ DeskTyped' /\ "at" \in DOMAIN req' /\ req'.at = "law"
        /\ "order" \in DOMAIN req' /\ "seen" \in DOMAIN req'
        /\ req'.seen = <<>>
    BY <1>1, <2>1, AnsweredStep
  <2>3. DOMAIN req'.seen = {}
    BY <2>2
  <2>4. LawOK(req)'
    BY <2>2, <2>3 DEF LawOK
  <2> QED
    BY <2>2, <2>3, <2>4
       DEF DeskInv, At, ReadSoFar, FromLaw, FromFacts, FromBase, FromClock,
           FromApproval, FromHours, FromAssemble, FromRecheck
<1>2. CASE Refuse /\ UNCHANGED <<tables, slips, stamp>>
  BY <1>2, RefuseStep
<1> QED
  BY <1>1, <1>2 DEF ReadRun

LEMMA FactsStep ==
  ASSUME DeskInv, ReadFacts
  PROVE  DeskInv'
<1> DEFINE found == [in |-> FactsOf(facts[req.order.employee], run)]
<1>1. CASE Then("base", found) /\ Reads
  <2>1. /\ "at" \notin DOMAIN found /\ "order" \notin DOMAIN found
        /\ "seen" \notin DOMAIN found /\ "in" \in DOMAIN found
        /\ found.in = FactsOf(facts[req.order.employee], run)
        /\ ~At("idle") /\ LawOK(req) /\ AllLaw(req) /\ "seen" \in DOMAIN req
    BY DEF ReadFacts, At, DeskInv, FromLaw, FromFacts, LawOK
  <2> HIDE DEF found
  <2>2. /\ DeskTyped' /\ "at" \in DOMAIN req' /\ req'.at = "base"
        /\ "order" \in DOMAIN req' /\ req'.order = req.order
        /\ LawOK(req)' /\ AllLaw(req)'
        /\ "in" \in DOMAIN req' /\ req'.in = found.in
        /\ UNCHANGED <<tables, since>>
    BY <1>1, <2>1, AnsweredStep
  <2>3. InOK(req)'
    BY <2>1, <2>2 DEF InOK, tables
  <2> QED
    BY <2>2, <2>3
       DEF DeskInv, At, FromLaw, FromFacts, FromBase, FromClock, FromApproval,
           FromHours, FromAssemble, FromRecheck
<1>2. CASE Refuse /\ UNCHANGED <<tables, slips, stamp>>
  BY <1>2, RefuseStep
<1> QED
  BY <1>1, <1>2 DEF ReadFacts

LEMMA BaseStep ==
  ASSUME DeskInv, ReadBase
  PROVE  DeskInv'
<1> DEFINE found == [base |-> BaseOf(structure)]
<1>1. CASE Then("clock", found) /\ Reads
  <2>1. /\ "at" \notin DOMAIN found /\ "order" \notin DOMAIN found
        /\ "seen" \notin DOMAIN found /\ "in" \notin DOMAIN found
        /\ "base" \in DOMAIN found
        /\ found.base = BaseOf(structure)
        /\ ~At("idle") /\ LawOK(req) /\ AllLaw(req) /\ "seen" \in DOMAIN req
        /\ InOK(req)
    BY DEF ReadBase, At, DeskInv, FromLaw, FromFacts, FromBase, LawOK
  <2> HIDE DEF found
  <2>2. /\ DeskTyped' /\ "at" \in DOMAIN req' /\ req'.at = "clock"
        /\ "order" \in DOMAIN req' /\ LawOK(req)' /\ AllLaw(req)' /\ InOK(req)'
        /\ "base" \in DOMAIN req' /\ req'.base = found.base
        /\ UNCHANGED <<tables, since>>
    BY <1>1, <2>1, AnsweredStep
  <2>3. BaseOK(req)'
    BY <2>1, <2>2 DEF BaseOK, tables
  <2> QED
    BY <2>2, <2>3
       DEF DeskInv, At, FromLaw, FromFacts, FromBase, FromClock, FromApproval,
           FromHours, FromAssemble, FromRecheck
<1>2. CASE Refuse /\ UNCHANGED <<tables, slips, stamp>>
  BY <1>2, RefuseStep
<1> QED
  BY <1>1, <1>2 DEF ReadBase

LEMMA ClockStep ==
  ASSUME DeskInv, ReadClock
  PROVE  DeskInv'
<1> DEFINE found ==
      [clock |-> ClockStretches(minutes[req.order.employee], Window)]
<1>1. CASE Then("approval", found) /\ Reads
  <2>1. /\ "at" \notin DOMAIN found /\ "order" \notin DOMAIN found
        /\ "seen" \notin DOMAIN found /\ "in" \notin DOMAIN found
        /\ "base" \notin DOMAIN found /\ "clock" \in DOMAIN found
        /\ found.clock = ClockStretches(minutes[req.order.employee], Window)
        /\ ~At("idle") /\ LawOK(req) /\ AllLaw(req) /\ "seen" \in DOMAIN req
        /\ InOK(req) /\ BaseOK(req)
    BY DEF ReadClock, At, DeskInv, FromLaw, FromFacts, FromBase, FromClock, LawOK
  <2> HIDE DEF found
  <2>2. /\ DeskTyped' /\ "at" \in DOMAIN req' /\ req'.at = "approval"
        /\ "order" \in DOMAIN req' /\ req'.order = req.order
        /\ LawOK(req)' /\ AllLaw(req)' /\ InOK(req)' /\ BaseOK(req)'
        /\ "clock" \in DOMAIN req' /\ req'.clock = found.clock
        /\ UNCHANGED <<tables, since>>
    BY <1>1, <2>1, AnsweredStep
  <2>3. ClockOK(req)'
    BY <2>1, <2>2 DEF ClockOK, tables, Window
  <2> QED
    BY <2>2, <2>3
       DEF DeskInv, At, FromLaw, FromFacts, FromBase, FromClock, FromApproval,
           FromHours, FromAssemble, FromRecheck
<1>2. CASE Refuse /\ UNCHANGED <<tables, slips, stamp>>
  BY <1>2, RefuseStep
<1> QED
  BY <1>1, <1>2 DEF ReadClock

\* With an approval the hours are still to be read; with none they are none.
LEMMA ApprovalStep ==
  ASSUME DeskInv, ReadApproval
  PROVE  DeskInv'
<1> DEFINE none == [approval |-> NoRef, hours |-> <<>>]
           one == [approval |-> LatestOf(Found(req)).id]
<1>1. /\ ~At("idle") /\ LawOK(req) /\ AllLaw(req) /\ "seen" \in DOMAIN req
      /\ InOK(req) /\ BaseOK(req) /\ ClockOK(req) /\ Reads
  BY DEF ReadApproval, At, DeskInv, FromLaw, FromFacts, FromBase, FromClock,
         FromApproval, LawOK
<1>2. CASE Found(req) = {} /\ Then("assemble", none)
  <2>1. /\ "approval" \in DOMAIN none /\ "hours" \in DOMAIN none
        /\ "at" \notin DOMAIN none /\ "order" \notin DOMAIN none
        /\ "seen" \notin DOMAIN none /\ "in" \notin DOMAIN none
        /\ "base" \notin DOMAIN none /\ "clock" \notin DOMAIN none
        /\ none.approval = NoRef /\ none.hours = <<>>
    OBVIOUS
  <2> HIDE DEF none
  <2>2. /\ DeskTyped' /\ "at" \in DOMAIN req' /\ req'.at = "assemble"
        /\ "order" \in DOMAIN req' /\ req'.order = req.order
        /\ LawOK(req)' /\ AllLaw(req)' /\ InOK(req)' /\ BaseOK(req)'
        /\ ClockOK(req)' /\ Found(req)' = {}
        /\ "approval" \in DOMAIN req' /\ req'.approval = NoRef
        /\ "hours" \in DOMAIN req' /\ req'.hours = <<>>
    BY <1>1, <1>2, <2>1, AnsweredStep
  <2>3. ApprovalOK(req)' /\ HoursOK(req)'
    BY <2>2 DEF ApprovalOK, HoursOK
  <2> QED
    BY <2>2, <2>3
       DEF DeskInv, At, FromLaw, FromFacts, FromBase, FromClock, FromApproval,
           FromHours, FromAssemble, FromRecheck
<1>3. CASE Found(req) # {} /\ Then("hours", one)
  <2>1. /\ "approval" \in DOMAIN one /\ one.approval = LatestOf(Found(req)).id
        /\ "at" \notin DOMAIN one /\ "order" \notin DOMAIN one
        /\ "seen" \notin DOMAIN one /\ "in" \notin DOMAIN one
        /\ "base" \notin DOMAIN one /\ "clock" \notin DOMAIN one
    OBVIOUS
  <2> HIDE DEF one
  <2>2. /\ DeskTyped' /\ "at" \in DOMAIN req' /\ req'.at = "hours"
        /\ "order" \in DOMAIN req' /\ req'.order = req.order
        /\ LawOK(req)' /\ AllLaw(req)' /\ InOK(req)' /\ BaseOK(req)'
        /\ ClockOK(req)' /\ Found(req)' = Found(req)
        /\ "approval" \in DOMAIN req'
        /\ req'.approval = LatestOf(Found(req)).id
    BY <1>1, <1>3, <2>1, AnsweredStep
  <2>3. ApprovalOK(req)'
    BY <1>3, <2>2 DEF ApprovalOK
  <2> QED
    BY <1>3, <2>2, <2>3
       DEF DeskInv, At, FromLaw, FromFacts, FromBase, FromClock, FromApproval,
           FromHours, FromAssemble, FromRecheck
<1> QED
  BY <1>2, <1>3 DEF ReadApproval, Found

LEMMA HoursStep ==
  ASSUME DeskInv, ReadHours
  PROVE  DeskInv'
<1> DEFINE found ==
      [hours |-> ApprovedStretches(sheet[req.order.employee].claimed,
                   sheet[req.order.employee].authorised, Window)]
<1>1. CASE Then("assemble", found) /\ Reads
  <2>1. /\ "hours" \in DOMAIN found
        /\ "at" \notin DOMAIN found /\ "order" \notin DOMAIN found
        /\ "seen" \notin DOMAIN found /\ "in" \notin DOMAIN found
        /\ "base" \notin DOMAIN found /\ "clock" \notin DOMAIN found
        /\ "approval" \notin DOMAIN found
        /\ found.hours = ApprovedStretches(sheet[req.order.employee].claimed,
                           sheet[req.order.employee].authorised, Window)
        /\ ~At("idle") /\ LawOK(req) /\ AllLaw(req) /\ "seen" \in DOMAIN req
        /\ InOK(req) /\ BaseOK(req) /\ ClockOK(req) /\ ApprovalOK(req)
        /\ ~Disturbed => Found(req) # {}
    BY DEF ReadHours, At, DeskInv, FromLaw, FromFacts, FromBase, FromClock,
           FromApproval, FromHours, LawOK
  <2> HIDE DEF found
  <2>2. /\ DeskTyped' /\ "at" \in DOMAIN req' /\ req'.at = "assemble"
        /\ "order" \in DOMAIN req' /\ req'.order = req.order
        /\ LawOK(req)' /\ AllLaw(req)' /\ InOK(req)' /\ BaseOK(req)'
        /\ ClockOK(req)' /\ ApprovalOK(req)'
        /\ "hours" \in DOMAIN req' /\ req'.hours = found.hours
        /\ Found(req)' = Found(req) /\ (Disturbed' <=> Disturbed)
        /\ UNCHANGED <<tables, since>>
    BY <1>1, <2>1, AnsweredStep
  <2>3. HoursOK(req)'
    BY <2>1, <2>2 DEF HoursOK, tables, Window
  <2> QED
    BY <2>2, <2>3
       DEF DeskInv, At, FromLaw, FromFacts, FromBase, FromClock, FromApproval,
           FromHours, FromAssemble, FromRecheck
<1>2. CASE Refuse /\ UNCHANGED <<tables, slips, stamp>>
  BY <1>2, RefuseStep
<1> QED
  BY <1>1, <1>2 DEF ReadHours

\* From here on nothing is read but the run's status and the structure.
LEMMA WorkStep ==
  ASSUME DeskInv, req.at \in FromAssemble, NEW label, NEW found,
         Then(label, found), Reads,
         DOMAIN found \subseteq {"statutory", "slip"}
  PROVE  /\ DeskTyped' /\ "at" \in DOMAIN req' /\ req'.at = label
         /\ "order" \in DOMAIN req' /\ req'.order = req.order
         /\ DOMAIN req' = DOMAIN req \cup DOMAIN found
         /\ \A f \in DOMAIN req : f # "at" /\ f \notin DOMAIN found =>
              req'[f] = req[f]
         /\ \A f \in DOMAIN found : req'[f] = found[f]
         /\ LawOK(req)' /\ AllLaw(req)' /\ InOK(req)' /\ BaseOK(req)'
         /\ ClockOK(req)' /\ ApprovalOK(req)' /\ HoursOK(req)'
         /\ (Disturbed' <=> Disturbed) /\ UNCHANGED <<tables, since>>
<1>1. /\ ~At("idle") /\ LawOK(req) /\ AllLaw(req) /\ "seen" \in DOMAIN req
      /\ InOK(req) /\ BaseOK(req) /\ ClockOK(req) /\ ApprovalOK(req)
      /\ HoursOK(req)
  BY DEF At, DeskInv, FromLaw, FromFacts, FromBase, FromClock, FromApproval,
         FromHours, FromAssemble, FromRecheck, LawOK
<1>2. /\ "at" \notin DOMAIN found /\ "order" \notin DOMAIN found
      /\ "seen" \notin DOMAIN found /\ "in" \notin DOMAIN found
      /\ "base" \notin DOMAIN found /\ "clock" \notin DOMAIN found
      /\ "approval" \notin DOMAIN found /\ "hours" \notin DOMAIN found
  OBVIOUS
<1> QED
  BY <1>1, <1>2, AnsweredStep

LEMMA AssembleStep ==
  ASSUME DeskInv, Assemble
  PROVE  DeskInv'
<1> DEFINE label == IF req.kind = "save" THEN "recheck" ELSE "price"
           found == [statutory |-> Statutory(req)]
<1>1. CASE Then(label, found) /\ Reads
  <2>1. /\ req.at \in FromAssemble /\ DOMAIN found = {"statutory"}
        /\ found.statutory = Statutory(req)
        /\ "seen" \in DOMAIN req /\ "in" \in DOMAIN req
        /\ "base" \in DOMAIN req /\ "clock" \in DOMAIN req
        /\ "approval" \in DOMAIN req /\ "hours" \in DOMAIN req
    BY DEF Assemble, At, DeskInv, FromAssemble, FromHours, FromApproval,
           FromClock, FromBase, FromFacts, FromLaw, LawOK, InOK, BaseOK,
           ClockOK, ApprovalOK, HoursOK
  <2> HIDE DEF found
  <2>2. req'.at \in {"recheck", "price"} /\ label \in {"recheck", "price"}
    BY <1>1, <2>1, WorkStep
  <2> HIDE DEF label
  <2>3. /\ DeskTyped' /\ "at" \in DOMAIN req'
        /\ "order" \in DOMAIN req' /\ req'.order = req.order
        /\ LawOK(req)' /\ AllLaw(req)' /\ InOK(req)' /\ BaseOK(req)'
        /\ ClockOK(req)' /\ ApprovalOK(req)' /\ HoursOK(req)'
    BY <1>1, <2>1, WorkStep
  <2>4. /\ "statutory" \in DOMAIN req' /\ req'.statutory = Statutory(req)
        /\ req'.seen = req.seen /\ req'.in = req.in /\ req'.base = req.base
        /\ req'.clock = req.clock /\ req'.approval = req.approval
        /\ req'.hours = req.hours
    BY <1>1, <2>1, WorkStep, ZenonT(60)
  <2>5. StatutoryOK(req)'
    BY <2>3, <2>4 DEF StatutoryOK, Statutory
  <2> QED
    BY <2>2, <2>3, <2>5
       DEF DeskInv, At, FromLaw, FromFacts, FromBase, FromClock, FromApproval,
           FromHours, FromAssemble, FromRecheck
<1>2. CASE Refuse /\ UNCHANGED <<tables, slips, stamp>>
  BY <1>2, RefuseStep
<1> QED
  BY <1>1, <1>2 DEF Assemble

LEMMA RecheckStep ==
  ASSUME DeskInv, Recheck
  PROVE  DeskInv'
<1>1. CASE Then("price", <<>>) /\ Reads
  <2>1. req.at \in FromRecheck /\ req.at \in FromAssemble /\ DOMAIN <<>> = {}
    BY DEF Recheck, At, FromAssemble, FromRecheck
  <2> DEFINE found == <<>>
  <2> HIDE DEF found
  <2>2. DOMAIN found = {}
    BY <2>1 DEF found
  <2>3. Then("price", found) /\ Reads
    BY <1>1 DEF found
  <2>4. /\ DeskTyped' /\ "at" \in DOMAIN req' /\ req'.at = "price"
        /\ "order" \in DOMAIN req' /\ req'.order = req.order
        /\ LawOK(req)' /\ AllLaw(req)' /\ InOK(req)' /\ BaseOK(req)'
        /\ ClockOK(req)' /\ ApprovalOK(req)' /\ HoursOK(req)'
        /\ DOMAIN req \subseteq DOMAIN req'
        /\ \A f \in DOMAIN req : f \notin {"at", "slip"} => req'[f] = req[f]
    BY <2>1, <2>2, <2>3, WorkStep
  <2>5. StatutoryOK(req)'
    BY <2>1, <2>4, WorkStays
  <2> QED
    BY <2>4, <2>5
       DEF DeskInv, At, FromLaw, FromFacts, FromBase, FromClock, FromApproval,
           FromHours, FromAssemble, FromRecheck
<1>2. CASE Refuse /\ UNCHANGED <<tables, slips, stamp>>
  BY <1>2, RefuseStep
<1> QED
  BY <1>1, <1>2 DEF Recheck

\* A preview ends; a save takes along the slip of the structure as it stands.
LEMMA PriceStep ==
  ASSUME DeskInv, Price, UNCHANGED commits
  PROVE  DeskInv'
<1> DEFINE found == [slip |-> SlipOf(req)]
<1>1. CASE Then("insert", found) /\ UNCHANGED <<quoted, since>>
  <2>1. /\ req.at \in FromRecheck /\ req.at \in FromAssemble
        /\ DOMAIN found = {"slip"} /\ found.slip = SlipOf(req)
    BY DEF Price, At, FromAssemble, FromRecheck
  <2> HIDE DEF found
  <2>2. Reads
    BY <1>1 DEF Price, Reads
  <2>3. /\ DeskTyped' /\ "at" \in DOMAIN req' /\ req'.at = "insert"
        /\ "order" \in DOMAIN req' /\ req'.order = req.order
        /\ LawOK(req)' /\ AllLaw(req)' /\ InOK(req)' /\ BaseOK(req)'
        /\ ClockOK(req)' /\ ApprovalOK(req)' /\ HoursOK(req)'
        /\ DOMAIN req \subseteq DOMAIN req'
        /\ \A f \in DOMAIN req : f \notin {"at", "slip"} => req'[f] = req[f]
        /\ "slip" \in DOMAIN req' /\ req'.slip = SlipOf(req)
        /\ UNCHANGED <<tables, since>>
    BY <1>1, <2>1, <2>2, WorkStep
  <2>4. StatutoryOK(req)'
    BY <2>1, <2>3, WorkStays
  <2>5. /\ req'.statutory = req.statutory /\ req'.in = req.in
        /\ req'.clock = req.clock
    BY <2>1, <2>3
       DEF DeskInv, FromRecheck, FromAssemble, FromHours, FromApproval,
           FromClock, FromBase, FromFacts, FromLaw, StatutoryOK, InOK, ClockOK
  <2>6. SlipOK(req)'
    BY <2>3, <2>5 DEF SlipOK, SlipOf, tables
  <2> QED
    BY <2>3, <2>4, <2>6
       DEF DeskInv, At, FromLaw, FromFacts, FromBase, FromClock, FromApproval,
           FromHours, FromAssemble, FromRecheck
<1>2. CASE req' = Idle /\ since' = {}
  <2>1. DeskTyped'
    BY DEF Price, DeskInv, DeskTyped, tables, AsOf, Window
  <2> QED
    BY <1>2, <2>1, DoneStep DEF Idle
<1> QED
  BY <1>1, <1>2 DEF Price, Refuse

LEMMA InsertStep ==
  ASSUME DeskInv, Insert
  PROVE  DeskInv'
  BY RefuseStep DEF Insert

-------------------------------------------------------------------------------
(* What others commit *)

\* Between two requests nothing is held that could grow stale.
LEMMA IdleCommit ==
  ASSUME DeskInv, NEW x, Commits(x), At("idle"), DeskTyped'
  PROVE  DeskInv'
<1>1. req'.at = "idle" /\ "at" \in DOMAIN req' /\ since' = {}
  BY DEF Commits, DeskInv, At
<1> QED
  BY <1>1, DoneStep

\* A commit outside the law disturbs a request, and leaves the law it holds.
LEMMA OtherCommit ==
  ASSUME DeskInv, NEW w, w \notin Tables, Commits(<<w>>), DeskTyped',
         law' = law, AsOf' = AsOf
  PROVE  DeskInv'
<1>1. CASE At("idle")
  BY <1>1, IdleCommit
<1>2. CASE ~At("idle")
  <2>1. req' = req /\ since' = since \cup {<<w>>}
    BY <1>2 DEF Commits
  <2>2. Disturbed'
    BY <2>1 DEF Disturbed
  <2>3. LawOK(req) => LawOK(req)'
    BY <2>1 DEF LawOK, ReadsAs
  <2>4. AllLaw(req) => AllLaw(req)'
    BY <2>1 DEF AllLaw
  <2>5. /\ InOK(req) => InOK(req)'
        /\ BaseOK(req) => BaseOK(req)'
        /\ ClockOK(req) => ClockOK(req)'
        /\ ApprovalOK(req) => ApprovalOK(req)'
        /\ HoursOK(req) => HoursOK(req)'
        /\ SlipOK(req) => SlipOK(req)'
    BY <2>1, <2>2 DEF InOK, BaseOK, ClockOK, ApprovalOK, HoursOK, SlipOK
  <2>6. StatutoryOK(req) => StatutoryOK(req)'
    BY <2>1 DEF StatutoryOK, Statutory
  <2> QED
    BY <1>2, <2>1, <2>2, <2>3, <2>4, <2>5, <2>6 DEF DeskInv, At
<1> QED
  BY <1>1, <1>2

LEMMA StructureCommit ==
  ASSUME DeskInv, NEW s, ChangeStructure(s)
  PROVE  DeskInv'
<1>1. DeskTyped' /\ law' = law /\ AsOf' = AsOf
  BY DEF ChangeStructure, DeskInv, DeskTyped, AsOf, Window
<1> QED
  BY <1>1, OtherCommit DEF ChangeStructure, Tables

LEMMA ReviewCommit ==
  ASSUME DeskInv, NEW a, Review(a)
  PROVE  DeskInv'
<1>1. DeskTyped' /\ law' = law /\ AsOf' = AsOf
  BY DEF Review, DeskInv, DeskTyped, AsOf, Window
<1> QED
  BY <1>1, OtherCommit DEF Review, Tables

LEMMA DismissCommit ==
  ASSUME DeskInv, NEW e, Dismiss(e)
  PROVE  DeskInv'
<1>1. DeskTyped' /\ law' = law /\ AsOf' = AsOf
  BY DEF Dismiss, DeskInv, DeskTyped, AsOf, Window
<1> QED
  BY <1>1, OtherCommit DEF Dismiss, Tables

LEMMA HoursCommit ==
  ASSUME DeskInv, NEW e, NEW d, CorrectHours(e, d)
  PROVE  DeskInv'
<1>1. DeskTyped' /\ law' = law /\ AsOf' = AsOf
  BY DEF CorrectHours, DeskInv, DeskTyped, AsOf, Window
<1> QED
  BY <1>1, OtherCommit DEF CorrectHours, Tables

\* The run keeps its period when it leaves draft.
LEMMA CloseCommit ==
  ASSUME DeskInv, CloseRun
  PROVE  DeskInv'
<1>1. /\ run' = [run EXCEPT !.status = "closed"] /\ law' = law
      /\ {"from", "to", "month"} \subseteq DOMAIN run /\ DeskTyped
  BY DEF CloseRun, DeskInv, DeskTyped
<1>2. /\ DOMAIN run' = DOMAIN run /\ run'.from = run.from /\ run'.to = run.to
      /\ run'.month = run.month
  BY <1>1
<1>3. AsOf' = AsOf
  BY <1>2 DEF AsOf, Window, RunWindow
<1>4. DeskTyped'
  BY <1>1, <1>2, <1>3 DEF DeskTyped
<1> QED
  BY <1>1, <1>3, <1>4, OtherCommit DEF CloseRun, Tables

\* A new set replaces none of its table; what a request read of the law stays,
\* and since lists the set if it is in force on the period's first day.
LEMMA LawCommit ==
  ASSUME DeskInv, NEW t \in Tables, NEW d \in Nat, NEW rows,
         PublishLaw(t, d, rows)
  PROVE  DeskInv'
<1>1. /\ DeskTyped /\ d \notin DOMAIN law[t] /\ Commits(<<t, d>>)
      /\ UNCHANGED <<run, facts, structure, minutes, sheet, approvals>>
      /\ law' = [law EXCEPT ![t] = With(@, Just(d, rows))]
      /\ AsOf' = AsOf /\ Window' = Window
  BY DEF PublishLaw, DeskInv, AsOf, Window
<1>2. /\ DOMAIN law' = Tables
      /\ law'[t] = With(law[t], Just(d, rows))
      /\ \A u \in Tables \ {t} : law'[u] = law[u]
  BY <1>1 DEF DeskTyped
<1>3. /\ DOMAIN law'[t] = DOMAIN law[t] \cup {d}
      /\ \A x \in DOMAIN law[t] : law'[t][x] = law[t][x]
  BY <1>1, <1>2 DEF With, Just
<1>4. DeskTyped'
  BY <1>1, <1>2, <1>3 DEF DeskTyped
<1>5. CASE At("idle")
  BY <1>1, <1>4, <1>5, IdleCommit
<1>6. CASE ~At("idle")
  <2>1. req' = req /\ since' = since \cup {<<t, d>>}
    BY <1>1, <1>6 DEF Commits
  <2>2. ~Disturbed' => ~Disturbed
    BY <1>1, <2>1 DEF Disturbed
  <2>3. ASSUME NEW u \in Tables, NEW cfg, ReadsAs(u, cfg)
        PROVE  /\ \E x \in DOMAIN law'[u] :
                    /\ x <= AsOf'
                    /\ cfg \in Readings(u, law'[u][x])
                    /\ \A y \in DOMAIN law'[u] :
                         y \in x + 1..AsOf' => <<u, y>> \in since'
    <3>1. PICK x \in DOMAIN law[u] :
            /\ x <= AsOf
            /\ cfg \in Readings(u, law[u][x])
            /\ \A y \in DOMAIN law[u] : y \in x + 1..AsOf => <<u, y>> \in since
      BY <2>3 DEF ReadsAs
    <3>2. x \in DOMAIN law'[u] /\ law'[u][x] = law[u][x]
      BY <1>2, <1>3, <3>1
    <3>3. \A y \in DOMAIN law'[u] : y \in DOMAIN law[u] \/ <<u, y>> \in since'
      BY <1>2, <1>3, <2>1
    <3> QED
      BY <1>1, <2>1, <3>1, <3>2, <3>3
  <2>4. req.at \in FromLaw => DOMAIN req.seen \subseteq Tables
    BY DEF DeskInv, At, ReadSoFar, Tables, AllLaw, FromLaw
  <2>5. req.at \in FromLaw => LawOK(req)'
    BY <2>1, <2>3, <2>4 DEF DeskInv, LawOK, ReadsAs
  <2>6. AllLaw(req) => AllLaw(req)'
    BY <2>1 DEF AllLaw
  <2>7. StatutoryOK(req) => StatutoryOK(req)'
    BY <2>1 DEF StatutoryOK, Statutory
  <2>8. Found(req)' = Found(req)
    BY <1>1, <2>1 DEF Found
  <2>9. /\ InOK(req) => InOK(req)'
        /\ BaseOK(req) => BaseOK(req)'
        /\ ClockOK(req) => ClockOK(req)'
        /\ ApprovalOK(req) => ApprovalOK(req)'
        /\ HoursOK(req) => HoursOK(req)'
    BY <1>1, <2>1, <2>2, <2>8 DEF InOK, BaseOK, ClockOK, ApprovalOK, HoursOK
  <2>10. SlipOK(req) => SlipOK(req)'
    BY <1>1, <2>1, <2>2 DEF SlipOK, SlipOf
  <2> QED
    BY <1>4, <1>6, <2>1, <2>2, <2>5, <2>6, <2>7, <2>8, <2>9, <2>10
       DEF DeskInv, At
<1> QED
  BY <1>5, <1>6

-------------------------------------------------------------------------------
(* The theorems *)

LEMMA DeskNext == DeskInv /\ [Next]_vars => DeskInv'
<1> SUFFICES ASSUME DeskInv, [Next]_vars PROVE DeskInv'
  OBVIOUS
<1>1. ASSUME NEW kind, NEW o, Begin(kind, o) PROVE DeskInv'
  BY <1>1, BeginStep
<1>2. CASE Step /\ UNCHANGED commits
  BY <1>2, RunStep, TableStep, FactsStep, BaseStep, ClockStep, ApprovalStep,
     HoursStep, AssembleStep, RecheckStep, PriceStep, InsertStep DEF Step
<1>3. CASE Others
  <2>1. ASSUME NEW x \in LawOffers, PublishLaw(x[1], x[2], x[3]) PROVE DeskInv'
    BY <2>1, LawCommit, DeskAssumption
  <2> QED
    BY <1>3, <2>1, StructureCommit, ReviewCommit, DismissCommit, HoursCommit,
       CloseCommit DEF Others
<1>4. CASE UNCHANGED vars
  <2>1. req' = req /\ UNCHANGED <<tables, since>>
    BY <1>4 DEF vars
  <2>2. /\ UNCHANGED <<run, law, facts, structure, minutes, sheet, approvals>>
        /\ AsOf' = AsOf /\ Window' = Window /\ (Disturbed' <=> Disturbed)
    BY <2>1 DEF tables, AsOf, Window, Disturbed
  <2>3. /\ DeskTyped => DeskTyped'
        /\ LawOK(req) => LawOK(req)'
        /\ AllLaw(req) => AllLaw(req)'
        /\ Found(req)' = Found(req)
    BY <2>1, <2>2 DEF DeskTyped, LawOK, ReadsAs, AllLaw, Found
  <2>4. /\ InOK(req) => InOK(req)'
        /\ BaseOK(req) => BaseOK(req)'
        /\ ClockOK(req) => ClockOK(req)'
        /\ ApprovalOK(req) => ApprovalOK(req)'
        /\ HoursOK(req) => HoursOK(req)'
    BY <2>1, <2>2, <2>3 DEF InOK, BaseOK, ClockOK, ApprovalOK, HoursOK
  <2>5. /\ StatutoryOK(req) => StatutoryOK(req)'
        /\ SlipOK(req) => SlipOK(req)'
    BY <2>1, <2>2 DEF StatutoryOK, Statutory, SlipOK, SlipOf
  <2> QED
    BY <2>1, <2>2, <2>3, <2>4, <2>5 DEF DeskInv, At
<1> QED
  BY <1>1, <1>2, <1>3, <1>4 DEF Next

LEMMA DeskInvariance == Spec => []DeskInv
  BY DeskInit, DeskNext, PTL DEF Spec

\* statutory_params_repository.rs:53: whatever law is published between the
\* five reads, each part a request holds is one whole set that was in force on
\* the period's first day when it was read.
THEOREM LawInForce == Spec => []LawSeenWasInForce
<1>1. DeskInv => LawSeenWasInForce
  BY DEF DeskInv, LawSeenWasInForce, LawOK, ReadsAs, At
<1> QED
  BY <1>1, DeskInvariance, PTL

\* Every table but that of the BPJS rates reads in one way.
LEMMA OneWay ==
  ASSUME NEW t \in Tables \ {"bpjs"}, NEW rows
  PROVE  \E r : Readings(t, rows) = {r}
  BY DEF Readings, Tables

\* The rows in force are those of the last date that has come.
LEMMA RowsNowAre ==
  ASSUME DeskTyped, NEW t \in Tables, NEW d \in DOMAIN law[t], d <= AsOf,
         \A x \in DOMAIN law[t] : x <= AsOf => x <= d
  PROVE  RowsNow(t) = law[t][d]
<1> DEFINE InForce == CHOOSE y \in DOMAIN law[t] :
                        /\ y <= AsOf
                        /\ \A x \in DOMAIN law[t] : x <= AsOf => x <= y
<1>1. DOMAIN law[t] \subseteq Nat
  BY DEF DeskTyped
<1>2. InForce = d
  BY <1>1
<1>3. RowsNow(t) = law[t][InForce]
  BY DEF RowsNow
<1> HIDE DEF InForce
<1> QED
  BY <1>2, <1>3

\* What a request that nothing disturbed holds of a table is what is in force.
LEMMA HeldIsInForce ==
  ASSUME DeskInv, req.at \in FromFacts, ~Disturbed, NEW t \in Tables
  PROVE  /\ req.seen[t] \in Readings(t, RowsNow(t))
         /\ \E d \in DOMAIN law[t] : d <= AsOf
<1>1. DeskTyped /\ LawOK(req) /\ AllLaw(req)
  BY DEF DeskInv, FromLaw
<1>2. PICK d \in DOMAIN law[t] :
        /\ d <= AsOf
        /\ req.seen[t] \in Readings(t, law[t][d])
        /\ \A x \in DOMAIN law[t] : x \in d + 1..AsOf => <<t, x>> \in since
  BY <1>1 DEF LawOK, AllLaw, ReadsAs
<1>3. \A x \in DOMAIN law[t] : x <= AsOf => x <= d
  <2> SUFFICES ASSUME NEW x \in DOMAIN law[t], x <= AsOf, ~(x <= d)
               PROVE  FALSE
    OBVIOUS
  <2>1. x \in Nat /\ d \in Nat /\ AsOf \in Nat
    BY <1>1 DEF DeskTyped
  <2>2. <<t, x>> \in since
    BY <1>2, <2>1
  <2> QED
    BY <2>2 DEF Disturbed
<1> QED
  BY <1>1, <1>2, <1>3, RowsNowAre

\* What nothing disturbed is priced as the tables stand.
LEMMA PricedIsCurrent ==
  ASSUME DeskInv, req.at \in {"price", "insert"}, ~Disturbed
  PROVE  SlipOf(req) \in CurrentSlips(req.order)
<1>1. /\ LawOK(req) /\ AllLaw(req) /\ InOK(req) /\ BaseOK(req)
      /\ ClockOK(req) /\ ApprovalOK(req) /\ HoursOK(req) /\ StatutoryOK(req)
      /\ req.at \in FromFacts
  BY DEF DeskInv, FromLaw, FromFacts, FromBase, FromClock, FromApproval,
         FromHours, FromAssemble, FromRecheck
<1>2. \A t \in Tables : req.seen[t] \in Readings(t, RowsNow(t))
  BY <1>1, HeldIsInForce
<1>3. ASSUME NEW t \in Tables \ {"bpjs"}
      PROVE  req.seen[t] = SomeReading(t, RowsNow(t))
  <2> DEFINE rows == RowsNow(t)
  <2>1. req.seen[t] \in Readings(t, rows)
    BY <1>2
  <2> HIDE DEF rows
  <2>2. PICK r : Readings(t, rows) = {r}
    BY OneWay
  <2> QED
    BY <2>1, <2>2 DEF SomeReading, rows
<1> DEFINE b == req.seen["bpjs"]
<1>4. b \in Readings("bpjs", RowsNow("bpjs"))
  BY <1>2 DEF Tables
<1>5. req.seen = LawNow(b)
  <2>1. req.seen = [t \in Tables |-> req.seen[t]]
    BY <1>1 DEF AllLaw
  <2> QED
    BY <1>3, <2>1 DEF LawNow
<1>6. /\ req.statutory = Statutory(req)
      /\ req.in = FactsOf(facts[req.order.employee], run)
      /\ req.base = BaseOf(structure)
      /\ req.clock = ClockStretches(minutes[req.order.employee], Window)
      /\ req.approval = IF Found(req) = {} THEN NoRef
                        ELSE LatestOf(Found(req)).id
      /\ req.hours = IF Found(req) = {} THEN <<>>
                     ELSE ApprovedStretches(sheet[req.order.employee].claimed,
                            sheet[req.order.employee].authorised, Window)
  BY <1>1 DEF StatutoryOK, InOK, BaseOK, ClockOK, ApprovalOK, HoursOK
<1> DEFINE o == req.order
           in == FactsOf(facts[o.employee], run)
           clock == ClockStretches(minutes[o.employee], Window)
           approval == IF Found(req) = {} THEN NoRef ELSE LatestOf(Found(req)).id
           hours == IF Found(req) = {} THEN <<>>
                    ELSE ApprovedStretches(sheet[o.employee].claimed,
                           sheet[o.employee].authorised, Window)
           Slip(x) ==
             Noted(Priced(structure,
                          StatutoryLines(in, BaseOf(structure), clock,
                                         approval, hours, o.risk, LawNow(x)),
                          o.working, o.unpaid),
                   clock, in)
<1>7. CurrentSlips(o) = {Slip(x) : x \in Readings("bpjs", RowsNow("bpjs"))}
  BY Zenon DEF CurrentSlips, Found
<1>8. SlipOf(req) = Slip(b)
  BY <1>5, <1>6 DEF SlipOf, Statutory
<1> HIDE DEF Slip, b
<1> QED
  BY <1>4, <1>7, <1>8

\* A save that nothing disturbed holds a slip of the tables as they stand.
LEMMA SlipIsCurrent ==
  ASSUME DeskInv, At("insert"), ~Disturbed
  PROVE  req.slip \in CurrentSlips(req.order)
<1>1. req.slip = SlipOf(req)
  BY DEF DeskInv, At, SlipOK
<1> QED
  BY <1>1, PricedIsCurrent DEF At

\* payroll_write_service.rs:674: a slip saved while nothing it was read from
\* changed is the slip of the tables as they stand together, for any tables.
THEOREM OneReading == Spec => UndisturbedSlipIsOneReading
<1> DEFINE Saved == \A e \in DOMAIN slips' \ DOMAIN slips :
                     ~Disturbed => slips'[e] \in CurrentSlips(req.order)
<1>1. ASSUME DeskInv, Next PROVE Saved
  <2>1. CASE Insert
    <3>1. CASE req.order.employee \in DOMAIN slips
      BY <2>1, <3>1 DEF Insert
    <3>2. CASE req.order.employee \notin DOMAIN slips
      <4>1. slips' = With(slips, Just(req.order.employee, req.slip))
        BY <2>1, <3>2 DEF Insert
      <4>2. /\ DOMAIN slips' = DOMAIN slips \cup {req.order.employee}
            /\ slips'[req.order.employee] = req.slip
        BY <4>1 DEF With, Just
      <4>3. At("insert")
        BY <2>1 DEF Insert
      <4> QED
        BY <1>1, <4>2, <4>3, SlipIsCurrent
    <3> QED
      BY <3>1, <3>2
  <2>2. CASE ~Insert
    <3>1. slips' = slips
      BY <1>1, <2>2
         DEF Next, Begin, Step, Others, ReadRun, ReadLaw, ReadFacts, ReadBase,
             ReadClock, ReadApproval, ReadHours, Assemble, Recheck, Price, Reads,
             PublishLaw, ChangeStructure, Review, Dismiss, CorrectHours,
             CloseRun, Commits
    <3> QED
      BY <3>1
  <2> QED
    BY <2>1, <2>2
<1>2. DeskInv /\ [Next]_vars => [Saved]_vars
  BY <1>1
<1> QED
  BY <1>2, DeskInvariance, PTL DEF Spec, UndisturbedSlipIsOneReading

-------------------------------------------------------------------------------
(* Rounding *)

\* What the provers do not know of products.
LEMMA TimesMonotone ==
  ASSUME NEW a \in Int, NEW b \in Int, NEW c \in Nat, a <= b
  PROVE  a * c <= b * c /\ c * a <= c * b
  OBVIOUS

LEMMA TimesIsInt ==
  ASSUME NEW a \in Int, NEW b \in Int
  PROVE  a * b \in Int /\ (a \in Nat /\ b \in Nat => a * b \in Nat)
         /\ (a \in Nat \ {0} /\ b \in Nat \ {0} => a * b \in Nat \ {0})
  OBVIOUS

\* money() rounds to the nearest unit ...
LEMMA MoneyIsNearest ==
  ASSUME NEW n \in Int, NEW d \in Nat \ {0}
  PROVE  Money(n, d) \in Int /\ Nearest(Money(n, d), n, d)
<1> DEFINE k == 2 * n + d
           e == 2 * d
<1>1. k \in Int /\ e \in Nat /\ e # 0
  OBVIOUS
<1>2. k \div e \in Int /\ e * (k \div e) <= k /\ k < e * ((k \div e) + 1)
  <2> HIDE DEF k, e
  <2> QED
    BY <1>1
<1> QED
  BY <1>2 DEF Money, Nearest

\* ... and there is one such.
LEMMA NearestIsOne ==
  ASSUME NEW n \in Int, NEW d \in Nat \ {0}, NEW m \in Int, NEW k \in Int,
         Nearest(m, n, d), Nearest(k, n, d)
  PROVE  m = k
<1>1. 2 * d * m < 2 * d * (k + 1) /\ 2 * d * k < 2 * d * (m + 1)
  BY DEF Nearest
<1>2. ASSUME m < k PROVE FALSE
  <2>1. (2 * d) * (m + 1) <= (2 * d) * k
    <3>1. m + 1 <= k /\ 2 * d \in Nat
      BY <1>2
    <3> QED
      BY <3>1, TimesMonotone
  <2> QED
    BY <1>1, <2>1
<1>3. ASSUME k < m PROVE FALSE
  <2>1. (2 * d) * (k + 1) <= (2 * d) * m
    <3>1. k + 1 <= m /\ 2 * d \in Nat
      BY <1>3
    <3> QED
      BY <3>1, TimesMonotone
  <2> QED
    BY <1>1, <2>1
<1> QED
  BY <1>2, <1>3

\* A part is no more than the whole.
LEMMA MoneyBounds ==
  ASSUME NEW n \in Nat, NEW d \in Nat \ {0}
  PROVE  Money(n, d) \in 0..n
<1>1. Money(n, d) \in Int /\ 2 * d * Money(n, d) <= 2 * n + d
      /\ 2 * n + d < 2 * d * (Money(n, d) + 1)
  BY MoneyIsNearest DEF Nearest
<1> DEFINE m == Money(n, d)
<1> HIDE DEF m
<1>2. ASSUME m < 0 PROVE FALSE
  <2>1. (2 * d) * (m + 1) <= (2 * d) * 0
    <3>1. m + 1 <= 0 /\ 2 * d \in Nat /\ m + 1 \in Int
      BY <1>1, <1>2 DEF m
    <3> QED
      BY <3>1, TimesMonotone
  <2> QED
    BY <1>1, <2>1 DEF m
<1>3. ASSUME m > n PROVE FALSE
  <2>1. (2 * d) * (n + 1) <= (2 * d) * m
    <3>1. n + 1 <= m /\ 2 * d \in Nat /\ m \in Int
      BY <1>1, <1>3 DEF m
    <3> QED
      BY <3>1, TimesMonotone
  <2>2. (2 * d) * (n + 1) <= 2 * n + d
    BY <1>1, <2>1 DEF m
  <2>3. n <= d * n
    <3>1. 1 <= d
      OBVIOUS
    <3> QED
      BY <3>1, TimesMonotone
  <2>4. (2 * d) * (n + 1) = 2 * (d * n) + 2 * d
    OBVIOUS
  <2> QED
    BY <2>2, <2>3, <2>4
<1> QED
  BY <1>1, <1>2, <1>3 DEF m

\* A share of pay.
LEMMA ShareIsNat ==
  ASSUME NEW a \in Nat, NEW r \in Nat, NEW d \in Nat \ {0}
  PROVE  Money(a * r, d) \in Nat
<1> DEFINE n == a * r
<1>1. n \in Nat
  BY TimesIsInt
<1> HIDE DEF n
<1>2. Money(n, d) \in Nat
  BY <1>1, MoneyBounds
<1> QED
  BY <1>2 DEF n

\* A part n / d of an amount, though its quotient is rounded to P parts first.
LEMMA PartIsClose ==
  ASSUME NEW a \in Nat, NEW n \in Nat, NEW d \in Nat \ {0}, NEW P \in Nat \ {0},
         n <= d, a * d < P
  PROVE  LET m == Money(a * Money(n * P, d), P)
         IN  m \in 0..a /\ 2 * (m * d - a * n) \in -d..d
<1> DEFINE q == Money(n * P, d)
           m == Money(a * q, P)
<1>1. n * P \in Nat
  OBVIOUS
<1>2. q \in Nat /\ 2 * d * q <= 2 * (n * P) + d /\ 2 * (n * P) + d < 2 * d * (q + 1)
  BY <1>1, MoneyIsNearest, MoneyBounds DEF Nearest
<1>3. q <= P
  <2> SUFFICES ASSUME q > P PROVE FALSE
    BY <1>2
  <2> HIDE DEF q
  <2>1. (2 * d) * (P + 1) <= (2 * d) * q
    <3>1. P + 1 <= q /\ 2 * d \in Nat
      BY <1>2
    <3> QED
      BY <1>2, <3>1, TimesMonotone
  <2>2. n * P <= d * P
    BY TimesMonotone
  <2>3. (2 * d) * (P + 1) = 2 * (d * P) + 2 * d
    OBVIOUS
  <2> QED
    BY <1>2, <2>1, <2>2, <2>3
<1>4. a * q \in Nat
  BY <1>2
<1>5. m \in Nat /\ 2 * P * m <= 2 * (a * q) + P /\ 2 * (a * q) + P < 2 * P * (m + 1)
  <2> DEFINE k == a * q
  <2>1. k \in Nat
    BY <1>4
  <2> HIDE DEF k, q
  <2>2. Money(k, P) \in 0..k /\ Nearest(Money(k, P), k, P)
    BY <2>1, MoneyIsNearest, MoneyBounds
  <2> QED
    BY <2>1, <2>2 DEF Nearest, k
<1> HIDE DEF m, q
<1>6. m <= a
  <2> SUFFICES ASSUME m > a PROVE FALSE
    BY <1>5
  <2>1. (2 * P) * (a + 1) <= (2 * P) * m
    <3>1. a + 1 <= m /\ 2 * P \in Nat
      BY <1>5
    <3> QED
      BY <1>5, <3>1, TimesMonotone
  <2>2. a * q <= a * P
    BY <1>2, <1>3, TimesMonotone
  <2>3. (2 * P) * (a + 1) = 2 * (a * P) + 2 * P /\ 2 * P * m = (2 * P) * m /\ a * P \in Nat
    BY <1>5
  <2>4. (2 * P) * m <= 2 * (a * q) + P
    BY <1>5, <2>3
  <2> DEFINE aq == a * q
             aP == a * P
             Pm == (2 * P) * m
             Pa == (2 * P) * (a + 1)
  <2>5. /\ Pa <= Pm /\ aq <= aP /\ Pa = 2 * aP + 2 * P /\ Pm <= 2 * aq + P
        /\ aP \in Int /\ aq \in Int /\ Pm \in Int
    BY <1>4, <1>5, <2>1, <2>2, <2>3, <2>4
  <2> HIDE DEF aq, aP, Pm, Pa
  <2> QED
    BY <2>5
\* d times the second rounding, a times the first.
<1>7. /\ (2 * P * m) * d <= (2 * (a * q) + P) * d
      /\ (2 * (a * q) + P) * d <= (2 * P * (m + 1)) * d
  <2>1. 2 * P * m \in Int /\ 2 * (a * q) + P \in Int /\ 2 * P * (m + 1) \in Int
    BY <1>2, <1>5
  <2> QED
    BY <1>5, <2>1, TimesMonotone
<1>8. /\ a * (2 * d * q) <= a * (2 * (n * P) + d)
      /\ a * (2 * (n * P) + d) <= a * (2 * d * (q + 1))
  <2>1. 2 * d * q \in Int /\ 2 * (n * P) + d \in Int /\ 2 * d * (q + 1) \in Int
    BY <1>2
  <2> QED
    BY <1>2, <2>1, TimesMonotone
<1> DEFINE x == m * d - a * n
           aq == (a * q) * d
           np == (a * n) * P
           md == (m * d) * P
           ad == a * d
           Pd == P * d
<1>9. /\ (2 * P * m) * d = 2 * md /\ (2 * (a * q) + P) * d = 2 * aq + Pd
      /\ (2 * P * (m + 1)) * d = 2 * md + 2 * Pd
      /\ a * (2 * d * q) = 2 * aq /\ a * (2 * (n * P) + d) = 2 * np + ad
      /\ a * (2 * d * (q + 1)) = 2 * aq + 2 * ad
  BY <1>2, <1>5
<1>10. /\ md - np = x * P /\ x \in Int
       /\ md \in Int /\ np \in Int /\ aq \in Int /\ ad \in Int /\ Pd \in Int
  BY <1>2, <1>5
<1>11. 2 * (x * P) <= Pd + ad /\ 2 * (x * P) >= -(Pd + ad)
  <2> HIDE DEF x, aq, np, md, ad, Pd
  <2> QED
    BY <1>7, <1>8, <1>9, <1>10
<1>12. ad < P
  OBVIOUS
<1> HIDE DEF x, ad
<1>13. ASSUME 2 * x > d PROVE FALSE
  <2>1. (d + 1) * P <= (2 * x) * P
    BY <1>10, <1>13, TimesMonotone
  <2>2. (d + 1) * P = Pd + P
    OBVIOUS
  <2>3. (2 * x) * P = 2 * (x * P)
    BY <1>10
  <2> HIDE DEF Pd
  <2> QED
    BY <1>10, <1>11, <1>12, <2>1, <2>2, <2>3
<1>14. ASSUME 2 * x < -d PROVE FALSE
  <2>1. (2 * x) * P <= (-d - 1) * P
    BY <1>10, <1>14, TimesMonotone
  <2>2. (-d - 1) * P = -Pd - P
    OBVIOUS
  <2>3. (2 * x) * P = 2 * (x * P)
    BY <1>10
  <2> HIDE DEF Pd
  <2> QED
    BY <1>10, <1>11, <1>12, <2>1, <2>2, <2>3
<1>15. m \in 0..a
  BY <1>5, <1>6
<1>16. 2 * x \in -d..d
  BY <1>10, <1>13, <1>14
<1> QED
  BY <1>15, <1>16 DEF x, m, q

-------------------------------------------------------------------------------
(* The law *)

\* A rate there is a row for is that row's.
LEMMA RateIsOfARow ==
  ASSUME NEW rows, RowsTyped("bpjs", rows, Open), NEW c, NEW side,
         \E r \in rows : r.component = c /\ r.side = side
  PROVE  RateOf(rows, c, side) \in Nat
<1>1. \A r \in rows : r.rate \in Nat
  BY DEF RowsTyped
<1> QED
  BY <1>1 DEF RateOf

\* A cap, where there is one, is a row's.
LEMMA CapIsOfARow ==
  ASSUME NEW rows, RowsTyped("bpjs", rows, Open), NEW c,
         NEW cap \in CapsOf(rows, c) \ {NoCap}
  PROVE  cap \in Nat
<1>1. \A r \in rows : r.cap \in Nat \cup {NoCap}
  BY DEF RowsTyped
<1> QED
  BY <1>1 DEF CapsOf, RowsOf

\* The risk classes have components of their own.
LEMMA JkkIsNoOther ==
  ASSUME NEW c \in RiskClasses
  PROVE  JkkComponent[c] \notin {"kes", "jht", "jp", "jkm"}
<1>1. c \in 1..5
  BY RiskAssumption
<1>2. c = 1 \/ c = 2 \/ c = 3 \/ c = 4 \/ c = 5
  BY <1>1
<1> QED
  BY <1>2 DEF JkkComponent

\* A complete set is read as a configuration.
LEMMA BpjsReadsTyped ==
  ASSUME NEW rows, RowsTyped("bpjs", rows, Open), BpjsComplete(rows),
         NEW cfg \in BpjsConfigs(rows)
  PROVE  IsConfig("bpjs", cfg, Open)
<1>1. PICK k \in CapsOf(rows, "kes") \ {NoCap}, j \in CapsOf(rows, "jp") \ {NoCap} :
        cfg = BpjsConfig(rows, k, j)
  BY DEF BpjsConfigs
<1>2. k \in Nat /\ j \in Nat
  BY CapIsOfARow
<1>3. ASSUME NEW c \in {"kes", "jht", "jp"}, NEW side \in {"employee", "employer"}
      PROVE  RateOf(rows, c, side) \in Nat
  <2>1. side \in SidesOf(rows, c)
    BY DEF BpjsComplete
  <2> QED
    BY <2>1, RateIsOfARow DEF SidesOf, RowsOf
<1>4. RateOf(rows, "jkm", "employer") \in Nat
  <2>1. "employer" \in SidesOf(rows, "jkm")
    BY DEF BpjsComplete
  <2> QED
    BY <2>1, RateIsOfARow DEF SidesOf, RowsOf
<1>5. ASSUME NEW c \in RiskClasses, RowsOf(rows, JkkComponent[c]) # {}
      PROVE  RateOf(rows, JkkComponent[c], "employer") \in Nat
  <2>1. PICK r \in rows : r.component = JkkComponent[c]
    BY <1>5 DEF RowsOf
  <2>2. r.side = "employer"
    BY <2>1, JkkIsNoOther DEF BpjsComplete
  <2> QED
    BY <2>1, <2>2, RateIsOfARow
<1> DEFINE jkk == {x \in RiskClasses : RowsOf(rows, JkkComponent[x]) # {}}
<1>6. /\ cfg.kes = [employee |-> RateOf(rows, "kes", "employee"),
                    employer |-> RateOf(rows, "kes", "employer"), cap |-> k]
      /\ cfg.jht = [employee |-> RateOf(rows, "jht", "employee"),
                    employer |-> RateOf(rows, "jht", "employer")]
      /\ cfg.jp = [employee |-> RateOf(rows, "jp", "employee"),
                   employer |-> RateOf(rows, "jp", "employer"), cap |-> j]
      /\ cfg.jkk = [c \in jkk |-> RateOf(rows, JkkComponent[c], "employer")]
      /\ cfg.jkm = RateOf(rows, "jkm", "employer")
  BY <1>1 DEF BpjsConfig
<1>7. /\ cfg.jht \in [employee : Nat, employer : Nat]
      /\ cfg.kes \in [employee : Nat, employer : Nat, cap : Nat]
      /\ cfg.jp \in [employee : Nat, employer : Nat, cap : Nat]
      /\ cfg.jkm \in Nat
  BY <1>2, <1>3, <1>4, <1>6
<1>8. DOMAIN cfg.jkk \subseteq RiskClasses /\ \A c \in DOMAIN cfg.jkk : cfg.jkk[c] \in Nat
  BY <1>5, <1>6
<1> QED
  BY <1>7, <1>8 DEF IsConfig

\* What loading makes of the rows in force, when they are complete.
LEMMA ReadingIsConfig ==
  ASSUME NEW t \in Tables, NEW rows, RowsTyped(t, rows, Open),
         Complete(t, rows, Open), NEW cfg \in Readings(t, rows)
  PROVE  IsConfig(t, cfg, Open)
<1>1. CASE t = "brackets"
  BY <1>1 DEF RowsTyped, Readings, IsConfig
<1>2. CASE t = "ptkp"
  <2>1. cfg = rows /\ DOMAIN rows = Tiers /\ rows \in [DOMAIN rows -> Nat]
    BY <1>2 DEF RowsTyped, Readings, Complete, PtkpComplete
  <2> QED
    BY <1>2, <2>1 DEF IsConfig
<1>3. CASE t = "ter"
  <2>1. cfg = rows /\ DOMAIN rows = Categories
        /\ rows \in [DOMAIN rows -> Seq([lower : Int, rate : Nat])]
    BY <1>3 DEF RowsTyped, Readings, Complete, TerComplete
  <2> QED
    BY <1>3, <2>1 DEF IsConfig
<1>4. CASE t = "bpjs"
  BY <1>4, BpjsReadsTyped DEF Readings, Complete
<1>5. CASE t = "overtime"
  BY <1>5 DEF RowsTyped, Readings, Complete, OvertimeComplete, IsConfig
<1> QED
  BY <1>1, <1>2, <1>3, <1>4, <1>5 DEF Tables

-------------------------------------------------------------------------------
(* The tax by brackets *)

\* What bracket b taxes of an income.
SliceOf(taxable, b) == IF taxable > b.lower THEN SliceIn(taxable, b) ELSE 0

\* One more unit of income is one more unit of the bracket it lies in.
LEMMA SliceGrows ==
  ASSUME NEW b \in [lower : Nat, upper : Int \cup {Open}, rate : Nat],
         b.upper = Open \/ b.upper > b.lower, NEW T \in Nat
  PROVE  /\ SliceOf(T, b) \in Nat /\ SliceOf(T + 1, b) \in Nat
         /\ SliceOf(T + 1, b) * b.rate = SliceOf(T, b) * b.rate + UnitRate(T + 1, b)
         /\ UnitRate(T + 1, b) \in Nat
<1>1. b.lower \in Nat /\ b.rate \in Nat /\ (b.upper \in Int \/ b.upper = Open)
  OBVIOUS
<1>2. SliceOf(T, b) \in Nat /\ SliceOf(T + 1, b) \in Nat
  BY <1>1 DEF SliceOf, SliceIn, Capped
<1>3. CASE T + 1 > b.lower /\ (b.upper = Open \/ T + 1 <= b.upper)
  <2>1. SliceOf(T + 1, b) = SliceOf(T, b) + 1
    BY <1>1, <1>3 DEF SliceOf, SliceIn, Capped
  <2>2. UnitRate(T + 1, b) = b.rate
    BY <1>3 DEF UnitRate
  <2>3. (SliceOf(T, b) + 1) * b.rate = SliceOf(T, b) * b.rate + b.rate
    BY <1>1, <1>2
  <2> QED
    BY <1>1, <1>2, <2>1, <2>2, <2>3
<1>4. CASE ~(T + 1 > b.lower /\ (b.upper = Open \/ T + 1 <= b.upper))
  <2>1. SliceOf(T + 1, b) = SliceOf(T, b)
    BY <1>1, <1>4 DEF SliceOf, SliceIn, Capped
  <2>2. UnitRate(T + 1, b) = 0
    BY <1>4 DEF UnitRate
  <2>3. SliceOf(T, b) * b.rate \in Nat
    BY <1>1, <1>2
  <2> QED
    BY <1>1, <1>2, <2>1, <2>2, <2>3
<1> QED
  BY <1>3, <1>4

\* The brackets that open at nothing and ascend, as the docs have them.
GoodBrackets(brackets) ==
  /\ brackets \in Seq([lower : Int, upper : Int \cup {Open}, rate : Nat])
  /\ \A i \in DOMAIN brackets :
       brackets[i].upper = Open \/ brackets[i].upper > brackets[i].lower
  /\ brackets # <<>> /\ brackets[1].lower = 0
  /\ Ascending(brackets)

\* What slicing needs of the brackets.
LEMMA BracketsAreNat ==
  ASSUME NEW brackets, GoodBrackets(brackets)
  PROVE  /\ IsFiniteSet(DOMAIN brackets)
         /\ \A i \in DOMAIN brackets :
              /\ brackets[i] \in [lower : Nat, upper : Int \cup {Open}, rate : Nat]
              /\ brackets[i].upper = Open \/ brackets[i].upper > brackets[i].lower
<1>1. /\ Len(brackets) \in Nat /\ DOMAIN brackets = 1..Len(brackets)
      /\ 1 \in DOMAIN brackets /\ brackets[1].lower = 0
  BY DEF GoodBrackets
<1>2. IsFiniteSet(DOMAIN brackets)
  BY <1>1, FS_Interval
<1>3. ASSUME NEW i \in DOMAIN brackets
      PROVE  brackets[i] \in [lower : Nat, upper : Int \cup {Open}, rate : Nat]
  <2>1. brackets[i] \in [lower : Int, upper : Int \cup {Open}, rate : Nat]
    <3>1. brackets \in Seq([lower : Int, upper : Int \cup {Open}, rate : Nat])
      BY DEF GoodBrackets
    <3>2. i \in 1..Len(brackets)
      BY <1>1
    <3> QED
      BY <3>1, <3>2, ElementOfSeq
  <2>2. CASE i = 1
    BY <1>1, <2>1, <2>2
  <2>3. CASE i # 1
    <3>1. 1 < i
      BY <1>1, <2>3
    <3>2. brackets[1].lower < brackets[i].lower
      BY <1>1, <3>1 DEF GoodBrackets, Ascending
    <3> QED
      BY <1>1, <2>1, <3>2
  <2> QED
    BY <2>2, <2>3
<1> QED
  BY <1>2, <1>3 DEF GoodBrackets

\* The walk that stops at the first bracket above the income misses none.
LEMMA WalkIsWhole ==
  ASSUME NEW brackets, GoodBrackets(brackets), NEW T \in Nat
  PROVE  ProgressiveTax(T, brackets)
           = SumFunction([i \in DOMAIN brackets |->
                            SliceOf(T, brackets[i]) * brackets[i].rate])
<1> DEFINE D == DOMAIN brackets
           V == Visited(T, brackets)
           f == [i \in D |-> SliceOf(T, brackets[i]) * brackets[i].rate]
<1>0. Len(brackets) \in Nat /\ D = 1..Len(brackets)
  BY DEF GoodBrackets
<1>1. /\ IsFiniteSet(D)
      /\ \A i \in D :
           /\ brackets[i] \in [lower : Nat, upper : Int \cup {Open}, rate : Nat]
           /\ brackets[i].upper = Open \/ brackets[i].upper > brackets[i].lower
  BY BracketsAreNat
<1>2. \A i \in D : SliceOf(T, brackets[i]) \in Nat /\ brackets[i].rate \in Nat
  BY <1>1, SliceGrows
<1>3. f \in [D -> Int]
  BY <1>2
<1>4. V = {i \in D : T > brackets[i].lower}
  <2>1. ASSUME NEW i \in D, NEW j \in 1..i, T > brackets[i].lower
        PROVE  T > brackets[j].lower
    <3>1. j \in D /\ (j < i \/ j = i)
      BY <1>0
    <3>2. j < i => brackets[j].lower < brackets[i].lower
      BY <3>1 DEF GoodBrackets, Ascending
    <3>3. brackets[i].lower \in Nat /\ brackets[j].lower \in Nat
      BY <1>1, <3>1
    <3> QED
      BY <2>1, <3>1, <3>2, <3>3
  <2>2. \A i \in D : i \in 1..i
    BY <1>0
  <2> QED
    BY <2>1, <2>2 DEF Visited
<1>5. V \in SUBSET D /\ \A i \in D \ V : f[i] = 0
  <2>1. ASSUME NEW i \in D \ V PROVE f[i] = 0
    <3>1. SliceOf(T, brackets[i]) = 0 /\ brackets[i].rate \in Nat
      BY <1>2, <1>4 DEF SliceOf
    <3> QED
      BY <3>1
  <2> QED
    BY <1>4, <2>1
<1>6. [i \in V |-> SliceIn(T, brackets[i]) * brackets[i].rate] = Restrict(f, V)
  BY <1>4 DEF Restrict, SliceOf
<1>7. SumFunction(f) = SumFunction(Restrict(f, V))
  <2> HIDE DEF D, f, V
  <2> QED
    BY <1>1, <1>3, <1>5, SumSelected
<1> QED
  BY <1>6, <1>7 DEF ProgressiveTax

\* statutory_calcs.rs:658: the tax by slices is the tax unit by unit.
LEMMA TaxPerUnit ==
  ASSUME NEW brackets, GoodBrackets(brackets), NEW taxable \in Nat
  PROVE  ProgressiveTax(taxable, brackets) = PerUnitTax(taxable, brackets)
<1> DEFINE D == DOMAIN brackets
           F(T) == [i \in D |-> SliceOf(T, brackets[i]) * brackets[i].rate]
           U(u) == [i \in D |-> UnitRate(u, brackets[i])]
           P(T) == [u \in 1..T |-> SumFunction(U(u))]
           G == {T \in Nat : SumFunction(F(T)) = SumFunction(P(T))}
<1>1. /\ IsFiniteSet(D)
      /\ \A i \in D :
           /\ brackets[i] \in [lower : Nat, upper : Int \cup {Open}, rate : Nat]
           /\ brackets[i].upper = Open \/ brackets[i].upper > brackets[i].lower
  BY BracketsAreNat
<1>2. ASSUME NEW T \in Nat
      PROVE  /\ F(T) \in [D -> Int] /\ F(T + 1) \in [D -> Int] /\ U(T + 1) \in [D -> Int]
             /\ F(T + 1) = [i \in D |-> F(T)[i] + U(T + 1)[i]]
  <2>1. \A i \in D :
          /\ SliceOf(T, brackets[i]) \in Nat /\ SliceOf(T + 1, brackets[i]) \in Nat
          /\ SliceOf(T + 1, brackets[i]) * brackets[i].rate
               = SliceOf(T, brackets[i]) * brackets[i].rate + UnitRate(T + 1, brackets[i])
          /\ UnitRate(T + 1, brackets[i]) \in Nat /\ brackets[i].rate \in Nat
    BY <1>1, SliceGrows
  <2>2. F(T + 1) = [i \in D |-> F(T)[i] + U(T + 1)[i]]
    BY <2>1
  <2>3. F(T) \in [D -> Int] /\ F(T + 1) \in [D -> Int] /\ U(T + 1) \in [D -> Int]
    BY <2>1
  <2> QED
    BY <2>2, <2>3
<1>3. \A u \in Nat \ {0} : U(u) \in [D -> Int] /\ SumFunction(U(u)) \in Int
  <2>1. ASSUME NEW u \in Nat \ {0} PROVE U(u) \in [D -> Int] /\ SumFunction(U(u)) \in Int
    <3>1. u - 1 \in Nat /\ (u - 1) + 1 = u
      OBVIOUS
    <3> HIDE DEF U
    <3>2. U(u) \in [D -> Int]
      BY <1>2, <3>1
    <3> QED
      BY <1>1, <3>2, SumIsInt
  <2> QED
    BY <2>1
<1>4. 0 \in G
  <2>1. \A i \in D : SliceOf(0, brackets[i]) = 0 /\ brackets[i].rate \in Nat
    BY <1>1 DEF SliceOf
  <2>2. F(0) \in [D -> Int] /\ {} \in SUBSET D /\ \A i \in D \ {} : F(0)[i] = 0
    BY <2>1
  <2>3. SumFunction(F(0)) = SumFunction(Restrict(F(0), {}))
    <3> HIDE DEF F, D
    <3> QED
      BY <1>1, <2>2, SumSelected
  <2>4. SumFunction(Restrict(F(0), {})) = 0 /\ SumFunction(P(0)) = 0
    BY SumEmpty DEF Restrict
  <2> HIDE DEF F, P
  <2> QED
    BY <2>3, <2>4
<1>5. ASSUME NEW T \in G PROVE T + 1 \in G
  <2>1. SumFunction(F(T + 1)) = SumFunction(F(T)) + SumFunction(U(T + 1))
    <3>1. T \in Nat
      OBVIOUS
    <3> HIDE DEF F, U, D, G
    <3>2. /\ F(T) \in [D -> Int] /\ U(T + 1) \in [D -> Int]
          /\ F(T + 1) = [i \in D |-> F(T)[i] + U(T + 1)[i]]
      BY <1>2, <3>1
    <3>3. SumFunction([i \in D |-> F(T)[i] + U(T + 1)[i]])
            = SumFunction(F(T)) + SumFunction(U(T + 1))
      BY <1>1, <3>2, SumPlus
    <3> QED
      BY <3>2, <3>3
  <2>2. SumFunction(P(T + 1)) = SumFunction(P(T)) + SumFunction(U(T + 1))
    <3>1. P(T + 1) \in [1..(T + 1) -> Int]
      <4> HIDE DEF U
      <4> QED
        BY <1>3
    <3>2. P(T + 1)[T + 1] = SumFunction(U(T + 1))
      OBVIOUS
    <3>3. P(T) = [u \in 1..T |-> P(T + 1)[u]]
      <4> HIDE DEF U
      <4> QED
        OBVIOUS
    <3> HIDE DEF P, U, F
    <3> QED
      BY <3>1, <3>2, <3>3, SumUpTo
  <2>3. SumFunction(F(T)) = SumFunction(P(T)) /\ T \in Nat
    OBVIOUS
  <2> HIDE DEF F, U, P
  <2> QED
    BY <2>1, <2>2, <2>3
<1>6. G = Nat
  <2>1. G \in SUBSET Nat
    OBVIOUS
  <2> HIDE DEF G
  <2> QED
    BY <1>4, <1>5, <2>1, NumbersGrow
<1>7. SumFunction(F(taxable)) = SumFunction(P(taxable))
  BY <1>6
<1> QED
  BY <1>7, WalkIsWhole, Zenon DEF PerUnitTax

\* A fraction in its lowest terms, near the same numbers.
LEMMA NearestHalved ==
  ASSUME NEW n \in Int, NEW d \in Nat \ {0}, NEW m \in Int, Nearest(m, n * 2, d * 2)
  PROVE  Nearest(m, n, d)
<1> DEFINE k == d * m
<1>1. k \in Int /\ 2 * (d * 2) * m = 4 * k /\ 2 * (d * 2) * (m + 1) = 4 * k + 4 * d
      /\ 2 * d * m = 2 * k /\ 2 * d * (m + 1) = 2 * k + 2 * d
  OBVIOUS
<1> HIDE DEF k
<1> QED
  BY <1>1 DEF Nearest

\* How much higher the tax is without NPWP, in fifths.
Extra(npwp) == IF npwp THEN 5 ELSE 6

\* The tax worked out unit by unit is a number.
LEMMA PerUnitTaxIsNat ==
  ASSUME NEW brackets, GoodBrackets(brackets), NEW taxable \in Int
  PROVE  PerUnitTax(taxable, brackets) \in Nat
<1> DEFINE D == DOMAIN brackets
           U(u) == [i \in D |-> UnitRate(u, brackets[i])]
           f == [u \in 1..taxable |-> SumFunction(U(u))]
<1>1. /\ IsFiniteSet(D)
      /\ \A i \in D : brackets[i] \in [lower : Nat, upper : Int \cup {Open}, rate : Nat]
  BY BracketsAreNat
<1>2. ASSUME NEW u \in 1..taxable PROVE SumFunction(U(u)) \in Nat
  <2>1. U(u) \in [D -> Nat] /\ U(u) \in [D -> Int]
    BY <1>1 DEF UnitRate
  <2> HIDE DEF U, D
  <2> QED
    BY <1>1, <2>1, SumIsInt
<1>3. f \in [1..taxable -> Nat] /\ f \in [1..taxable -> Int]
  <2> HIDE DEF U
  <2> QED
    BY <1>2
<1>4. IsFiniteSet(1..taxable)
  BY FS_Interval
<1>5. SumFunction(f) \in Nat
  <2> HIDE DEF f
  <2> QED
    BY <1>3, <1>4, SumIsInt
<1> QED
  BY <1>5, Zenon DEF PerUnitTax

\* What is withheld by the brackets.
LEMMA BracketsWithhold ==
  ASSUME NEW law0, NEW tier, NEW npwp, NEW gross \in Nat,
         GoodBrackets(law0.brackets), law0.ptkp[tier] \in Nat
  PROVE  /\ Pph21(tier, npwp, gross, law0) \in Nat
         /\ Nearest(Pph21(tier, npwp, gross, law0),
                    PerUnitTax(12 * gross - law0.ptkp[tier], law0.brackets)
                      * Extra(npwp),
                    RateUnit * 12 * 5)
<1> DEFINE T == Taxable(gross, law0.ptkp[tier])
           tax == PerUnitTax(T, law0.brackets)
<1>1. T \in Nat /\ 1..T = 1..(12 * gross - law0.ptkp[tier])
  BY DEF Taxable
<1>2. PerUnitTax(12 * gross - law0.ptkp[tier], law0.brackets) = tax
  <2> HIDE DEF T
  <2> QED
    BY <1>1 DEF PerUnitTax
<1>3. tax \in Nat /\ ProgressiveTax(T, law0.brackets) = tax
  <2> HIDE DEF T
  <2> QED
    BY <1>1, TaxPerUnit, PerUnitTaxIsNat
<1> DEFINE n == tax * Extra(npwp)
           d == RateUnit * 12 * 5
<1>4. n \in Nat /\ d \in Nat \ {0} /\ n * 2 \in Nat /\ d * 2 \in Nat \ {0}
  <2> HIDE DEF tax
  <2> QED
    BY <1>3, UnitsAssumption DEF Extra
<1>5. Pph21(tier, npwp, gross, law0) = Money(n * 2, d * 2)
  <2>1. tax * Surtax(npwp) = n * 2
    <3> HIDE DEF tax
    <3> QED
      BY <1>3 DEF Extra, Surtax
  <2>2. RateUnit * 10 * 12 = d * 2
    BY UnitsAssumption
  <2> HIDE DEF n, d, tax, T
  <2> QED
    BY <1>3, <2>1, <2>2 DEF Pph21, T
<1> HIDE DEF n, d, tax
<1>6. Money(n * 2, d * 2) \in Nat /\ Nearest(Money(n * 2, d * 2), n * 2, d * 2)
  BY <1>4, MoneyIsNearest, MoneyBounds
<1>7. Nearest(Money(n * 2, d * 2), n, d)
  BY <1>4, <1>6, NearestHalved
<1> QED
  BY <1>2, <1>5, <1>6, <1>7 DEF n, d

-------------------------------------------------------------------------------
(* The tax by the effective rate *)

\* The base of a monthly rate is a number.
LEMMA TerBaseIsNat ==
  ASSUME NEW bpjs, IsConfig("bpjs", bpjs, Open), NEW gross \in Nat
  PROVE  TerBase(gross, bpjs) \in Nat
<1>1. /\ bpjs.jht.employee \in Nat /\ bpjs.jp.employee \in Nat /\ bpjs.jp.cap \in Nat
  BY DEF IsConfig
<1>2. /\ gross * bpjs.jht.employee \in Nat
      /\ Capped(gross, bpjs.jp.cap) * bpjs.jp.employee \in Nat
      /\ gross * RateUnit \in Nat
  BY <1>1, UnitsAssumption DEF Capped
<1> DEFINE share == gross * bpjs.jht.employee
                      + Capped(gross, bpjs.jp.cap) * bpjs.jp.employee
<1>3. share \in Nat
  BY <1>2
<1> HIDE DEF share
<1>4. TerBase(gross, bpjs) =
        IF gross * RateUnit > share THEN gross * RateUnit - share ELSE 0
  BY Zenon DEF TerBase, share
<1> QED
  BY <1>2, <1>3, <1>4

\* The last band the walk reaches is the highest one below the base.
LEMMA LastReachedIsHighest ==
  ASSUME NEW bands \in Seq([lower : Int, rate : Nat]), Ascending(bands),
         NEW base \in Nat, BandsReached(base, bands) # {}
  PROVE  /\ bands[Max(BandsReached(base, bands))].rate = EffectiveRate(base, bands)
         /\ EffectiveRate(base, bands) \in Nat
<1> DEFINE R == BandsReached(base, bands)
           below == {i \in DOMAIN bands : bands[i].lower * RateUnit <= base}
<1>1. Len(bands) \in Nat /\ DOMAIN bands = 1..Len(bands)
  OBVIOUS
<1>2. \A i \in DOMAIN bands : bands[i] \in [lower : Int, rate : Nat]
  BY <1>1, ElementOfSeq
<1>3. R = below
  <2>1. ASSUME NEW i \in DOMAIN bands, NEW j \in 1..i, bands[i].lower * RateUnit <= base
        PROVE  j \in DOMAIN bands /\ base >= bands[j].lower * RateUnit
    <3>1. j \in DOMAIN bands /\ (j < i \/ j = i)
      BY <1>1
    <3>2. j < i => bands[j].lower < bands[i].lower
      BY <3>1 DEF Ascending
    <3>3. bands[i].lower \in Int /\ bands[j].lower \in Int /\ RateUnit \in Nat
      BY <1>2, <3>1, UnitsAssumption
    <3>4. bands[j].lower <= bands[i].lower
      BY <3>1, <3>2, <3>3, SMTT(40)
    <3>5. bands[j].lower * RateUnit <= bands[i].lower * RateUnit
      BY <3>3, <3>4, TimesMonotone
    <3>6. bands[j].lower * RateUnit \in Int /\ bands[i].lower * RateUnit \in Int
      <4>1. RateUnit \in Int
        BY <3>3
      <4> QED
        BY <3>3, <4>1, TimesIsInt
    <3> QED
      BY <2>1, <3>1, <3>5, <3>6, SMTT(40)
  <2>2. \A i \in DOMAIN bands : i \in 1..i /\ bands[i].lower * RateUnit \in Int
    BY <1>1, <1>2, UnitsAssumption
  <2> QED
    BY <2>1, <2>2 DEF BandsReached
<1>4. R \in SUBSET (0..Len(bands))
  BY <1>1 DEF BandsReached
<1> DEFINE m == Max(R)
<1>5. m \in R /\ \A x \in R : x <= m
  <2> HIDE DEF R
  <2> QED
    BY <1>1, <1>4, LastUpTo DEF R
<1> HIDE DEF m, R
<1>6. \A j \in below : bands[j].lower <= bands[m].lower
  <2> SUFFICES ASSUME NEW j \in below PROVE bands[j].lower <= bands[m].lower
    OBVIOUS
  <2>1. j <= m /\ m \in DOMAIN bands /\ j \in DOMAIN bands
    BY <1>3, <1>5
  <2>2. j < m \/ j = m
    BY <1>1, <2>1
  <2> QED
    BY <1>2, <2>1, <2>2 DEF Ascending
<1>7. ASSUME NEW i \in below, \A j \in below : bands[j].lower <= bands[i].lower
      PROVE  i = m
  <2>1. i <= m /\ m \in DOMAIN bands /\ i \in DOMAIN bands /\ m \in below
    BY <1>3, <1>5
  <2>2. bands[m].lower <= bands[i].lower
    BY <1>7, <2>1
  <2>3. i < m => bands[i].lower < bands[m].lower
    BY <2>1 DEF Ascending
  <2> QED
    BY <1>1, <1>2, <2>1, <2>2, <2>3
<1>8. (CHOOSE i \in below : \A j \in below : bands[j].lower <= bands[i].lower) = m
  BY <1>3, <1>5, <1>6, <1>7
<1>9. EffectiveRate(base, bands) = bands[m].rate
  BY <1>8, Zenon DEF EffectiveRate
<1> QED
  BY <1>2, <1>3, <1>5, <1>9 DEF m, R

\* What is withheld by the effective rate.
LEMMA TerWithholds ==
  ASSUME NEW law0, NEW ter, NEW npwp, NEW gross \in Nat,
         IsConfig("bpjs", law0.bpjs, Open),
         law0.ter[ter] \in Seq([lower : Int, rate : Nat]), Ascending(law0.ter[ter]),
         HasTerRate(ter, gross, law0)
  PROVE  /\ Pph21Ter(ter, npwp, gross, law0) \in Nat
         /\ Nearest(Pph21Ter(ter, npwp, gross, law0),
                    TerBase(gross, law0.bpjs)
                      * EffectiveRate(TerBase(gross, law0.bpjs), law0.ter[ter])
                      * Extra(npwp),
                    RateUnit * RateUnit * 5)
<1> DEFINE base == TerBase(gross, law0.bpjs)
           rate == EffectiveRate(base, law0.ter[ter])
<1>1. base \in Nat
  BY TerBaseIsNat
<1>2. BandsReached(base, law0.ter[ter]) # {}
  BY DEF HasTerRate
<1>3. rate \in Nat /\ law0.ter[ter][Max(BandsReached(base, law0.ter[ter]))].rate = rate
  <2> HIDE DEF base
  <2> QED
    BY <1>1, <1>2, LastReachedIsHighest
<1> DEFINE n == base * rate * Extra(npwp)
           d == RateUnit * RateUnit * 5
<1> HIDE DEF base, rate
<1>4. n \in Nat /\ d \in Nat \ {0} /\ n * 2 \in Nat /\ d * 2 \in Nat \ {0}
  <2> DEFINE b == base * rate
             r == RateUnit * RateUnit
  <2>1. RateUnit \in Nat \ {0} /\ RateUnit \in Int
    BY UnitsAssumption
  <2>2. b \in Nat /\ r \in Nat \ {0}
    BY <1>1, <1>3, <2>1, TimesIsInt
  <2> HIDE DEF b, r
  <2>3. b * Extra(npwp) \in Nat /\ r * 5 \in Nat \ {0}
    BY <2>2 DEF Extra
  <2>4. n = b * Extra(npwp) /\ d = r * 5
    BY DEF b, r
  <2> HIDE DEF n, d
  <2> QED
    BY <2>3, <2>4
<1>5. Pph21Ter(ter, npwp, gross, law0) = Money(n * 2, d * 2)
  <2>1. base * rate * Surtax(npwp) = n * 2
    BY <1>1, <1>3 DEF Extra, Surtax
  <2>2. RateUnit * RateUnit * 10 = d * 2
    BY UnitsAssumption
  <2>3. Pph21Ter(ter, npwp, gross, law0)
          = Money(base * rate * Surtax(npwp), RateUnit * RateUnit * 10)
    BY <1>3, Zenon DEF Pph21Ter, base
  <2> HIDE DEF n, d
  <2> QED
    BY <2>1, <2>2, <2>3
<1> HIDE DEF n, d
<1>6. Money(n * 2, d * 2) \in Nat /\ Nearest(Money(n * 2, d * 2), n * 2, d * 2)
  BY <1>4, MoneyIsNearest, MoneyBounds
<1>7. Nearest(Money(n * 2, d * 2), n, d)
  BY <1>4, <1>6, NearestHalved
<1> QED
  BY <1>5, <1>6, <1>7 DEF n, d, base, rate

-------------------------------------------------------------------------------
(* Overtime *)

\* How much of the h-th hour lies before the end of T units.
Reached(h, T) ==
  IF T >= h * HourUnit THEN HourUnit
  ELSE IF T <= (h - 1) * HourUnit THEN 0 ELSE T - (h - 1) * HourUnit

\* Where in its hour a unit of overtime is.
LEMMA UnitInItsHour ==
  ASSUME NEW u \in Nat \ {0}
  PROVE  /\ HourOf(u) \in Nat \ {0}
         /\ (HourOf(u) - 1) * HourUnit < u /\ u <= HourOf(u) * HourUnit
<1> DEFINE H == HourUnit
           n == u + H - 1
           k == n \div H
<1>1. H \in Nat \ {0}
  BY UnitsAssumption
<1> HIDE DEF H
<1>2. n \in Nat /\ n = u + H - 1
  BY <1>1
<1>3. k \in Nat /\ H * k <= n /\ n < H * (k + 1)
  <2> HIDE DEF n
  <2> QED
    BY <1>1, <1>2
<1> HIDE DEF k, n
<1> DEFINE p == k * H
<1>4. /\ p \in Nat /\ H * k = p /\ H * (k + 1) = p + H /\ (k - 1) * H = p - H
      /\ (k = 0 => p = 0)
  BY <1>1, <1>3
<1> HIDE DEF p
<1>5. k # 0 /\ p - H < u /\ u <= p
  BY <1>1, <1>2, <1>3, <1>4
<1> QED
  BY <1>3, <1>4, <1>5 DEF HourOf, H, k, n, p

\* One more unit is one more of the hour it lies in.
LEMMA HourGrows ==
  ASSUME NEW h \in Nat \ {0}, NEW T \in Nat
  PROVE  /\ Reached(h, T) \in Nat
         /\ Reached(h, T + 1) = Reached(h, T) + (IF HourOf(T + 1) = h THEN 1 ELSE 0)
<1> DEFINE H == HourUnit
           k == HourOf(T + 1)
           a == h * H
           b == k * H
           c == (h - 1) * H
<1>1. H \in Nat \ {0}
  BY UnitsAssumption
<1>2. k \in Nat \ {0} /\ (k - 1) * H < T + 1 /\ T + 1 <= k * H
  BY UnitInItsHour
<1> HIDE DEF H, k
<1>3. /\ a \in Nat /\ b \in Nat /\ (h - 1) * H = a - H /\ (k - 1) * H = b - H
  BY <1>1, <1>2
<1>4. a >= H
  <2>1. 1 * H <= h * H
    BY <1>1, TimesMonotone
  <2> QED
    BY <1>1, <2>1
<1>5. h < k => a + H <= b
  <2> SUFFICES ASSUME h < k PROVE a + H <= b
    OBVIOUS
  <2>1. (h + 1) * H <= k * H
    <3>1. h + 1 <= k /\ h + 1 \in Int /\ k \in Int /\ H \in Nat
      BY <1>1, <1>2
    <3> QED
      BY <3>1, TimesMonotone
  <2>2. (h + 1) * H = a + H
    BY <1>1
  <2> QED
    BY <2>1, <2>2
<1>6. k < h => b + H <= a
  <2> SUFFICES ASSUME k < h PROVE b + H <= a
    OBVIOUS
  <2>1. (k + 1) * H <= h * H
    <3>1. k + 1 <= h /\ k + 1 \in Int /\ h \in Int /\ H \in Nat
      BY <1>1, <1>2
    <3> QED
      BY <3>1, TimesMonotone
  <2>2. (k + 1) * H = b + H
    BY <1>1, <1>2
  <2> QED
    BY <2>1, <2>2
<1>7. h = k => a = b
  OBVIOUS
<1>8. b - H < T + 1 /\ T + 1 <= b
  BY <1>2, <1>3
<1>9. \A t \in Nat :
        Reached(h, t) = IF t >= a THEN H ELSE IF t <= c THEN 0 ELSE t - c
  BY DEF Reached, H
<1>10. c = a - H
  BY <1>3
<1> HIDE DEF a, b, c
<1> QED
  BY <1>1, <1>2, <1>3, <1>10, <1>4, <1>5, <1>6, <1>7, <1>8, <1>9 DEF k

\* The hours asked for are those of the units, each by the part worked.
LEMMA HoursOfUnits ==
  ASSUME NEW N \in Nat
  PROVE  /\ HoursPriced(N) \in SUBSET (Nat \ {0}) /\ IsFiniteSet(HoursPriced(N))
         /\ \A u \in 1..N : HourOf(u) \in HoursPriced(N)
         /\ \A h \in HoursPriced(N) : Worked(h, N) = Reached(h, N)
<1> DEFINE H == HourUnit
           w == N \div H
           r == N % H
           p == w * H
<1>1. H \in Nat \ {0}
  BY UnitsAssumption
<1> HIDE DEF H
<1>2. w \in Nat /\ r \in 0..(H - 1) /\ N = p + r /\ p \in Nat
  BY <1>1
<1> HIDE DEF w, r
<1>3. HoursPriced(N) = 1..(w + (IF r > 0 THEN 1 ELSE 0))
  BY DEF HoursPriced, WholeHours, H, w, r
<1>4. HoursPriced(N) \in SUBSET (Nat \ {0})
  BY <1>2, <1>3
<1>5. IsFiniteSet(HoursPriced(N))
  <2> DEFINE k == w + (IF r > 0 THEN 1 ELSE 0)
  <2>1. 1 \in Int /\ k \in Int
    BY <1>2
  <2> HIDE DEF k
  <2>2. IsFiniteSet(1..k)
    BY <2>1, FS_Interval
  <2> QED
    BY <1>3, <2>2 DEF k
<1>6. ASSUME NEW u \in 1..N PROVE HourOf(u) \in HoursPriced(N)
  <2> DEFINE h == HourOf(u)
  <2>1. h \in Nat \ {0} /\ (h - 1) * H < u
    BY UnitInItsHour DEF H
  <2> HIDE DEF h
  <2>2. ASSUME h > w + 1 \/ (h > w /\ r = 0) PROVE FALSE
    <3>1. r = 0 => w * H <= (h - 1) * H
      <4>1. w <= h - 1 /\ w \in Int /\ h - 1 \in Int /\ H \in Nat
        BY <1>1, <1>2, <2>1, <2>2
      <4> QED
        BY <4>1, TimesMonotone
    <3>2. r # 0 => (w + 1) * H <= (h - 1) * H
      <4> SUFFICES ASSUME r # 0 PROVE (w + 1) * H <= (h - 1) * H
        OBVIOUS
      <4>1. w + 1 <= h - 1 /\ w + 1 \in Int /\ h - 1 \in Int /\ H \in Nat
        BY <1>1, <1>2, <2>1, <2>2
      <4> QED
        BY <4>1, TimesMonotone
    <3>3. (w + 1) * H = p + H
      BY <1>1, <1>2
    <3> DEFINE q == (h - 1) * H
    <3>4. q \in Int
      BY <1>1, <2>1
    <3> HIDE DEF p, q
    <3> QED
      BY <1>1, <1>2, <2>1, <3>1, <3>2, <3>3, <3>4 DEF p, q
  <2> QED
    BY <1>2, <1>3, <2>1, <2>2 DEF h
<1>7. ASSUME NEW h \in HoursPriced(N) PROVE Worked(h, N) = Reached(h, N)
  <2>1. h \in Nat \ {0} /\ h <= w + 1 /\ (r = 0 => h <= w)
    BY <1>2, <1>3
  <2>2. Worked(h, N) = IF h <= w THEN H ELSE r
    BY DEF Worked, WholeHours, w, r, H
  <2>3. CASE h <= w
    <3>1. h * H <= p
      BY <1>1, <1>2, <2>1, <2>3, TimesMonotone
    <3>2. h * H \in Nat
      BY <1>1, <2>1
    <3>3. N >= h * H
      <4> HIDE DEF p
      <4> QED
        BY <1>2, <3>1, <3>2
    <3> QED
      BY <2>2, <2>3, <3>3 DEF Reached, H
  <2>4. CASE ~(h <= w)
    <3>1. h = w + 1 /\ r > 0
      BY <1>2, <2>1, <2>4
    <3>2. h * H = p + H /\ (h - 1) * H = p
      BY <1>1, <1>2, <3>1
    <3>3. ~(N >= h * H) /\ ~(N <= (h - 1) * H) /\ N - (h - 1) * H = r
      <4> HIDE DEF p
      <4> QED
        BY <1>1, <1>2, <3>1, <3>2
    <3> QED
      BY <2>2, <2>4, <3>3 DEF Reached, H
  <2> QED
    BY <2>3, <2>4
<1> QED
  BY <1>4, <1>5, <1>6, <1>7

\* Priced hour by hour, priced unit by unit.
LEMMA HoursByUnit ==
  ASSUME NEW N \in Nat, NEW M \in [HoursPriced(N) -> Nat]
  PROVE  SumFunction([h \in HoursPriced(N) |-> M[h] * Worked(h, N)])
           = SumFunction([u \in 1..N |-> M[HourOf(u)]])
<1> DEFINE D == HoursPriced(N)
           F(T) == [h \in D |-> M[h] * Reached(h, T)]
           P(T) == [u \in 1..T |-> M[HourOf(u)]]
           One(u) == [h \in D |-> IF h = HourOf(u) THEN M[HourOf(u)] ELSE 0]
           G == {T \in Nat : T <= N => SumFunction(F(T)) = SumFunction(P(T))}
<1>1. /\ D \in SUBSET (Nat \ {0}) /\ IsFiniteSet(D)
      /\ \A u \in 1..N : HourOf(u) \in D
      /\ \A h \in D : Worked(h, N) = Reached(h, N)
  BY HoursOfUnits
<1> HIDE DEF D
<1>2. M \in [D -> Nat]
  BY DEF D
<1>3. 0 \in G
  <2>1. \A h \in D : Reached(h, 0) = 0
    <3> SUFFICES ASSUME NEW h \in D PROVE Reached(h, 0) = 0
      OBVIOUS
    <3>1. h \in Nat \ {0} /\ HourUnit \in Nat \ {0}
      BY <1>1, UnitsAssumption
    <3>2. 0 <= (h - 1) * HourUnit /\ ~(0 >= h * HourUnit)
      BY <3>1, TimesIsInt
    <3> QED
      BY <3>2 DEF Reached
  <2>2. F(0) \in [D -> Int] /\ {} \in SUBSET D /\ \A h \in D \ {} : F(0)[h] = 0
    BY <1>2, <2>1
  <2>3. SumFunction(F(0)) = SumFunction(Restrict(F(0), {}))
    <3> HIDE DEF F
    <3> QED
      BY <1>1, <2>2, SumSelected
  <2>4. SumFunction(Restrict(F(0), {})) = 0 /\ SumFunction(P(0)) = 0
    BY SumEmpty DEF Restrict
  <2> HIDE DEF F, P
  <2> QED
    BY <2>3, <2>4
<1>4. ASSUME NEW T \in G PROVE T + 1 \in G
  <2>0. T \in Nat /\ (T <= N => SumFunction(F(T)) = SumFunction(P(T)))
    OBVIOUS
  <2> SUFFICES ASSUME T + 1 <= N
               PROVE  SumFunction(F(T + 1)) = SumFunction(P(T + 1))
    <3> HIDE DEF F, P
    <3> QED
      BY <2>0
  <2>1. SumFunction(F(T)) = SumFunction(P(T)) /\ T \in Nat
    <3> HIDE DEF F, P
    <3> QED
      BY <2>0
  <2> HIDE DEF G
  <2>2. HourOf(T + 1) \in D /\ M[HourOf(T + 1)] \in Nat
    BY <1>1, <1>2, <2>1
  <2>3. \A h \in D :
          /\ Reached(h, T) \in Nat
          /\ Reached(h, T + 1) = Reached(h, T) + (IF HourOf(T + 1) = h THEN 1 ELSE 0)
    BY <1>1, <2>1, HourGrows
  <2>4. \A h \in D : M[h] * Reached(h, T + 1)
                       = M[h] * Reached(h, T)
                           + (IF h = HourOf(T + 1) THEN M[HourOf(T + 1)] ELSE 0)
    <3> SUFFICES ASSUME NEW h \in D
                 PROVE  M[h] * Reached(h, T + 1)
                          = M[h] * Reached(h, T)
                              + (IF h = HourOf(T + 1) THEN M[HourOf(T + 1)] ELSE 0)
      OBVIOUS
    <3>1. M[h] \in Nat /\ Reached(h, T) \in Nat
      BY <1>2, <2>3
    <3> DEFINE m == M[h]
               x == Reached(h, T)
    <3>2. m * (x + 1) = m * x + m /\ m * (x + 0) = m * x + 0
      <4> HIDE DEF m, x
      <4> QED
        BY <3>1 DEF m, x
    <3> QED
      BY <2>3, <3>2
  <2>5. /\ F(T) \in [D -> Int] /\ One(T + 1) \in [D -> Int]
        /\ F(T + 1) = [h \in D |-> F(T)[h] + One(T + 1)[h]]
    <3>1. \A h \in D : M[h] * Reached(h, T) \in Int
      BY <1>2, <2>3, TimesIsInt
    <3>2. F(T) \in [D -> Int] /\ One(T + 1) \in [D -> Int]
      BY <2>2, <3>1
    <3> QED
      BY <2>4, <3>2
  <2>6. SumFunction(One(T + 1)) = M[HourOf(T + 1)]
    <3> DEFINE k == HourOf(T + 1)
               o == One(T + 1)
    <3>1. k \in D /\ o \in [D -> Int] /\ o[k] = M[k] /\ \A h \in D \ {k} : o[h] = 0
      BY <2>2, <2>5
    <3> HIDE DEF k, o, G, F, P, One
    <3>2. IsFiniteSet(D)
      BY <1>1
    <3>3. SumFunction(o) = o[k]
      BY ONLY <3>1, <3>2, SumOfOne
    <3> QED
      BY <3>1, <3>3 DEF k, o
  <2> DEFINE f == F(T)
             g == One(T + 1)
  <2>7. SumFunction(F(T + 1)) = SumFunction(f) + SumFunction(g)
    <3> HIDE DEF F, One, P
    <3>1. SumFunction([h \in D |-> f[h] + g[h]]) = SumFunction(f) + SumFunction(g)
      <4>1. f \in [D -> Int] /\ g \in [D -> Int]
        BY <2>5
      <4> HIDE DEF f, g
      <4> QED
        BY <1>1, <4>1, SumPlus, ZenonT(60)
    <3> QED
      BY <2>5, <3>1
  <2>8. SumFunction(P(T + 1)) = SumFunction(P(T)) + M[HourOf(T + 1)]
    <3>1. P(T + 1) \in [1..(T + 1) -> Int]
      <4>1. \A u \in 1..(T + 1) : u \in 1..N
        BY <2>1
      <4> QED
        BY <1>1, <1>2, <4>1
    <3>2. P(T + 1)[T + 1] = M[HourOf(T + 1)] /\ P(T) = [u \in 1..T |-> P(T + 1)[u]]
      BY <2>1
    <3> HIDE DEF P
    <3> QED
      BY <2>1, <3>1, <3>2, SumUpTo
  <2> HIDE DEF F, P, One
  <2> QED
    BY <2>1, <2>6, <2>7, <2>8
<1>5. N \in G
  <2>1. G \in SUBSET Nat
    OBVIOUS
  <2> HIDE DEF G
  <2>2. G = Nat
    BY <1>3, <1>4, <2>1, NumbersGrow
  <2> QED
    BY <2>2
<1>6. [h \in HoursPriced(N) |-> M[h] * Worked(h, N)] = F(N)
  BY <1>1 DEF D
<1>7. SumFunction(F(N)) = SumFunction(P(N))
  <2> HIDE DEF F, P
  <2> QED
    BY <1>5
<1> QED
  BY <1>6, <1>7

BandRows == [from : Nat, to : Nat \cup {Open}, multiplier : Nat]

\* An hour with a band has a multiplier.
LEMMA MultiplierIsNat ==
  ASSUME NEW bands \in Seq(BandRows), NEW h, BandsOf(h, bands) # {}
  PROVE  MultiplierFor(h, bands) \in Nat
<1> DEFINE B == BandsOf(h, bands)
<1>1. Len(bands) \in Nat /\ DOMAIN bands = 1..Len(bands)
  BY LenProperties
<1>2. B \in SUBSET Nat /\ B # {} /\ B \subseteq DOMAIN bands
  BY <1>1 DEF BandsOf
<1>3. \A j \in DOMAIN bands : bands[j] \in BandRows
  BY <1>1, ElementOfSeq
<1> HIDE DEF B
<1>4. Min(B) \in B
  BY <1>2, FirstIsMin
<1>5. bands[Min(B)].multiplier \in Nat
  BY <1>2, <1>3, <1>4 DEF BandRows
<1> QED
  BY <1>5 DEF MultiplierFor, B

\* Where no hour has two bands, the first of its bands is the one it lies in.
LEMMA OneBand ==
  ASSUME NEW bands \in Seq(BandRows), Apart(bands, Open), NEW h \in Nat,
         BandsOf(h, bands) # {}
  PROVE  /\ MultiplierFor(h, bands) \in Nat
         /\ \A u : HourOf(u) = h =>
              UnitMultiplier(u, bands) = MultiplierFor(h, bands)
<1> DEFINE B == BandsOf(h, bands)
           In(j) == h \in bands[j].from..(IF bands[j].to = Open THEN h ELSE bands[j].to)
<1>1. Len(bands) \in Nat /\ DOMAIN bands = 1..Len(bands)
  BY LenProperties
<1>2. \A j \in DOMAIN bands : bands[j] \in BandRows
  BY <1>1, ElementOfSeq
<1>3. \A j \in DOMAIN bands : j \in B <=> In(j)
  BY <1>2, SMTT(40) DEF BandsOf, BandRows
<1>4. PICK i \in B : TRUE
  OBVIOUS
<1>5. ASSUME NEW j \in B PROVE j = i
  <2>1. ASSUME NEW x \in B, NEW y \in B, x < y PROVE FALSE
    <3>1. x \in DOMAIN bands /\ y \in DOMAIN bands
      BY DEF BandsOf
    <3>2. bands[x].to # Open /\ bands[x].to < bands[y].from
      BY <2>1, <3>1 DEF Apart
    <3>3. h <= bands[x].to /\ h >= bands[y].from
      BY <3>2 DEF BandsOf
    <3>4. bands[x].to \in Nat /\ bands[y].from \in Nat
      BY <1>2, <3>1, <3>2 DEF BandRows
    <3> QED
      BY <3>2, <3>3, <3>4
  <2>2. i \in Nat /\ j \in Nat
    BY <1>1 DEF BandsOf
  <2> QED
    BY <1>4, <2>1, <2>2
<1>6. i \in DOMAIN bands /\ B = {i}
  BY <1>4, <1>5 DEF BandsOf
<1> HIDE DEF B
<1>7. Min(B) = i
  <2>1. B \in SUBSET Nat /\ B # {}
    BY <1>1, <1>6
  <2> QED
    BY <1>6, <2>1, FirstIsMin
<1>8. MultiplierFor(h, bands) = bands[i].multiplier
  BY <1>7 DEF MultiplierFor, B
<1>9. (CHOOSE j \in DOMAIN bands : In(j)) = i
  <2>1. \A j \in DOMAIN bands : In(j) <=> j = i
    BY <1>3, <1>6
  <2> HIDE DEF In
  <2> QED
    BY <1>6, <2>1
<1>10. ASSUME NEW u, HourOf(u) = h
       PROVE  UnitMultiplier(u, bands) = bands[i].multiplier
  <2>1. UnitMultiplier(u, bands) = bands[CHOOSE j \in DOMAIN bands : In(j)].multiplier
    BY <1>10, Zenon DEF UnitMultiplier
  <2> QED
    BY <1>9, <2>1
<1>11. bands[i].multiplier \in Nat
  BY <1>2, <1>6 DEF BandRows
<1> QED
  BY <1>8, <1>10, <1>11

HourlyUnits == HoursPerMonth * 10 * HourUnit

\* An hour of a month is divided by some units.
LEMMA HourlyUnitsAreSome == HourlyUnits \in Nat \ {0}
<1> DEFINE a == HoursPerMonth * 10
<1>1. a \in Nat \ {0} /\ HourUnit \in Nat \ {0}
  BY UnitsAssumption
<1> HIDE DEF a
<1>2. a * HourUnit \in Nat \ {0}
  BY <1>1, TimesIsInt
<1> QED
  BY <1>2 DEF HourlyUnits, a

\* A day's stretch is paid unit by unit.
LEMMA StretchByUnit ==
  ASSUME NEW n \in Nat \ {0}, NEW base \in Nat \ {0}, NEW bands \in Seq(BandRows),
         Apart(bands, Open), OvertimePriceable(n, base, bands)
  PROVE  LET pay == base * SumFunction([u \in 1..n |-> UnitMultiplier(u, bands)])
         IN  /\ OvertimePay(n, base, bands)
                  = CHOOSE m \in 0..pay : Nearest(m, pay, HourlyUnits)
             /\ OvertimePay(n, base, bands) \in Nat
<1> DEFINE H == HoursPriced(n)
           M == [h \in H |-> MultiplierFor(h, bands)]
           hourly == [h \in H |-> MultiplierFor(h, bands) * Worked(h, n)]
           byUnit == [u \in 1..n |-> UnitMultiplier(u, bands)]
           pay == base * SumFunction(byUnit)
<1>1. /\ H \in SUBSET (Nat \ {0}) /\ \A u \in 1..n : HourOf(u) \in H
  BY HoursOfUnits
<1>2. \A h \in H : BandsOf(h, bands) # {}
  BY DEF OvertimePriceable
<1>3. M \in [H -> Nat] /\ \A u \in 1..n : UnitMultiplier(u, bands) = M[HourOf(u)]
  <2>1. \A h \in H : /\ MultiplierFor(h, bands) \in Nat
                     /\ \A u : HourOf(u) = h =>
                          UnitMultiplier(u, bands) = MultiplierFor(h, bands)
    BY <1>1, <1>2, OneBand
  <2> HIDE DEF H
  <2> QED
    BY <1>1, <2>1
<1>4. SumFunction(hourly) = SumFunction(byUnit)
  <2>1. hourly = [h \in H |-> M[h] * Worked(h, n)]
    OBVIOUS
  <2>2. byUnit = [u \in 1..n |-> M[HourOf(u)]]
    BY <1>3
  <2>3. SumFunction([h \in H |-> M[h] * Worked(h, n)])
          = SumFunction([u \in 1..n |-> M[HourOf(u)]])
    <3>1. n \in Nat
      OBVIOUS
    <3> HIDE DEF M
    <3> QED
      BY <1>3, <3>1, HoursByUnit
  <2> HIDE DEF hourly, byUnit
  <2> QED
    BY <2>1, <2>2, <2>3
<1>5. SumFunction(byUnit) \in Nat
  <2>1. byUnit \in [1..n -> Nat] /\ byUnit \in [1..n -> Int]
    <3>1. \A u \in 1..n : M[HourOf(u)] \in Nat
      <4> HIDE DEF M, H
      <4> QED
        BY <1>1, <1>3
    <3>2. \A u \in 1..n : UnitMultiplier(u, bands) \in Nat
      <4> HIDE DEF M
      <4> QED
        BY <1>3, <3>1
    <3> QED
      BY <3>2
  <2>2. IsFiniteSet(1..n)
    BY FS_Interval
  <2> HIDE DEF byUnit
  <2> QED
    BY <2>1, <2>2, SumIsInt
<1>6. OvertimePay(n, base, bands) = Money(base * SumFunction(hourly), HourlyUnits)
  BY DEF OvertimePay, HourlyUnits
<1>7. pay \in Nat
  <2> HIDE DEF byUnit
  <2> QED
    BY <1>5, TimesIsInt
<1>8. OvertimePay(n, base, bands) = Money(pay, HourlyUnits)
  <2> HIDE DEF hourly, byUnit
  <2> QED
    BY <1>4, <1>6
<1> HIDE DEF pay
<1>9. /\ Money(pay, HourlyUnits) \in 0..pay
      /\ Nearest(Money(pay, HourlyUnits), pay, HourlyUnits)
  <2>1. pay \in Int /\ pay \in Nat
    BY <1>7
  <2> QED
    BY <2>1, HourlyUnitsAreSome, MoneyIsNearest, MoneyBounds
<1>10. \A m \in 0..pay : Nearest(m, pay, HourlyUnits) => m = Money(pay, HourlyUnits)
  <2> SUFFICES ASSUME NEW m \in 0..pay, Nearest(m, pay, HourlyUnits)
               PROVE  m = Money(pay, HourlyUnits)
    OBVIOUS
  <2>1. m \in Int /\ Money(pay, HourlyUnits) \in Int /\ pay \in Int
    BY <1>7, <1>9
  <2> QED
    BY <1>9, <2>1, HourlyUnitsAreSome, NearestIsOne
<1>11. (CHOOSE m \in 0..pay : Nearest(m, pay, HourlyUnits)) = Money(pay, HourlyUnits)
  BY <1>9, <1>10
<1> QED
  BY <1>7, <1>8, <1>9, <1>11 DEF pay

\* The stretches a request works with: some hours of some days.
IsStretches(stretches) ==
  /\ IsFiniteSet(DOMAIN stretches)
  /\ stretches = [d \in DOMAIN stretches |-> stretches[d]]
  /\ \A d \in DOMAIN stretches : stretches[d] \in Nat \ {0}

\* One stretch that can be priced pays a number.
LEMMA StretchIsNat ==
  ASSUME NEW n \in Nat \ {0}, NEW base \in Nat \ {0}, NEW bands \in Seq(BandRows),
         OvertimePriceable(n, base, bands)
  PROVE  OvertimePay(n, base, bands) \in Nat
<1> DEFINE H == HoursPriced(n)
           f == [h \in H |-> MultiplierFor(h, bands) * Worked(h, n)]
<1>1. /\ IsFiniteSet(H) /\ H \in SUBSET (Nat \ {0})
      /\ \A h \in H : Worked(h, n) = Reached(h, n)
  BY HoursOfUnits
<1>2. ASSUME NEW h \in H PROVE MultiplierFor(h, bands) * Worked(h, n) \in Nat
  <2>1. MultiplierFor(h, bands) \in Nat
    BY MultiplierIsNat DEF OvertimePriceable
  <2>2. Worked(h, n) \in Nat
    <3>1. h \in Nat \ {0} /\ n \in Nat
      BY <1>1
    <3>2. Reached(h, n) \in Nat
      BY <3>1, HourGrows
    <3> QED
      BY <1>1, <3>2
  <2> QED
    BY <2>1, <2>2, TimesIsInt
<1>3. f \in [H -> Nat] /\ f \in [H -> Int]
  <2> HIDE DEF H
  <2> QED
    BY <1>2
<1> DEFINE hours == SumFunction(f)
<1>4. hours \in Nat
  <2> HIDE DEF f, H
  <2> QED
    BY <1>1, <1>3, SumIsInt
<1>5. OvertimePay(n, base, bands) = Money(base * hours, HourlyUnits)
  BY DEF OvertimePay, HourlyUnits
<1> HIDE DEF hours
<1> QED
  BY <1>4, <1>5, HourlyUnitsAreSome, ShareIsNat

\* And so do several.
LEMMA StretchesPayIsNat ==
  ASSUME NEW stretches, IsStretches(stretches), NEW base \in Nat \ {0},
         NEW bands \in Seq(BandRows), StretchesPriceable(stretches, base, bands)
  PROVE  StretchesPay(stretches, base, bands) \in Nat
<1> DEFINE D == DOMAIN stretches
           f == [d \in D |-> OvertimePay(stretches[d], base, bands)]
<1>1. ASSUME NEW d \in D PROVE OvertimePay(stretches[d], base, bands) \in Nat
  <2>1. stretches[d] \in Nat \ {0} /\ OvertimePriceable(stretches[d], base, bands)
    BY DEF IsStretches, StretchesPriceable
  <2> QED
    BY <2>1, StretchIsNat
<1>2. IsFiniteSet(D)
  BY DEF IsStretches
<1>3. f \in [D -> Nat] /\ f \in [D -> Int]
  <2> HIDE DEF D
  <2> QED
    BY <1>1
<1>4. StretchesPay(stretches, base, bands) = SumFunction(f)
  BY Zenon DEF StretchesPay
<1> HIDE DEF f
<1> QED
  BY <1>2, <1>3, <1>4, SumIsInt

\* What several stretches pay is their units summed, but for the fractions.
LEMMA StretchesByUnit ==
  ASSUME NEW stretches, IsStretches(stretches), NEW base \in Nat \ {0},
         NEW bands \in Seq(BandRows), Apart(bands, Open),
         StretchesPriceable(stretches, base, bands)
  PROVE  SumsTo(StretchesPay(stretches, base, bands),
                PerUnitOvertime(stretches, base, bands), HourlyUnits)
<1> DEFINE D == DOMAIN stretches
           pays == PerUnitOvertime(stretches, base, bands)
           f == [d \in D |-> OvertimePay(stretches[d], base, bands)]
           g == [x \in DOMAIN pays |->
                   CHOOSE m \in 0..pays[x] : Nearest(m, pays[x], HourlyUnits)]
<1>1. DOMAIN pays = D
  BY DEF PerUnitOvertime
<1>2. ASSUME NEW d \in D
      PROVE  f[d] = g[d] /\ f[d] \in Nat
  <2>1. stretches[d] \in Nat \ {0} /\ OvertimePriceable(stretches[d], base, bands)
    BY DEF IsStretches, StretchesPriceable
  <2>2. pays[d] = base * SumFunction([u \in 1..stretches[d] |-> UnitMultiplier(u, bands)])
    BY DEF PerUnitOvertime
  <2>3. /\ OvertimePay(stretches[d], base, bands)
             = CHOOSE m \in 0..pays[d] : Nearest(m, pays[d], HourlyUnits)
        /\ OvertimePay(stretches[d], base, bands) \in Nat
    <3> HIDE DEF pays
    <3> QED
      BY <2>1, <2>2, StretchByUnit, ZenonT(60)
  <2> HIDE DEF pays
  <2> QED
    BY <1>1, <2>3
<1>3. f = g
  <2>1. DOMAIN f = D /\ DOMAIN g = D
    BY <1>1
  <2>2. f = [d \in D |-> f[d]] /\ g = [d \in D |-> g[d]]
    BY <1>1
  <2> HIDE DEF f, g
  <2> QED
    BY <1>2, <2>2
<1>5. StretchesPay(stretches, base, bands) = SumFunction(f)
  BY Zenon DEF StretchesPay
<1>6. SumsTo(SumFunction(g), pays, HourlyUnits)
  BY Zenon DEF SumsTo
<1> HIDE DEF f, g, pays
<1> QED
  BY <1>3, <1>5, <1>6 DEF pays

-------------------------------------------------------------------------------
(* Lines by name *)

LinesOn(refs) ==
  [name : LineNames, ct : {"earning", "deduction"}, amount : Nat, ref : refs]
Pieces == [name : StatutoryNames, ct : {"earning", "deduction"}, amount : Nat]

\* What a name has in two sequences of lines is what it has in each.
LEMMA AmountConcat ==
  ASSUME NEW S, \A x \in S : x.amount \in Nat, NEW s \in Seq(S), NEW t \in Seq(S),
         NEW name
  PROVE  /\ LineAmount(s \o t, name) = LineAmount(s, name) + LineAmount(t, name)
         /\ LineAmount(s, name) \in Nat /\ LineAmount(t, name) \in Nat
         /\ s \o t \in Seq(S)
<1> DEFINE A(q) == [i \in DOMAIN q |-> IF q[i].name = name THEN q[i].amount ELSE 0]
<1>1. ASSUME NEW q \in Seq(S)
      PROVE  /\ A(q) \in [1..Len(q) -> Nat] /\ A(q) \in Seq(Int)
             /\ Len(q) \in Nat /\ DOMAIN q = 1..Len(q) /\ Len(A(q)) = Len(q)
  <2>1. Len(q) \in Nat /\ DOMAIN q = 1..Len(q)
    BY LenProperties
  <2>2. \A i \in DOMAIN q : q[i].amount \in Nat
    BY <2>1, ElementOfSeq
  <2>3. A(q) \in [1..Len(q) -> Nat]
    BY <2>1, <2>2
  <2> DEFINE f == A(q)
             n == Len(q)
  <2> HIDE DEF f, n
  <2>4. f \in Seq(Int) /\ Len(f) = n
    <3>1. n \in Nat /\ f \in [1..n -> Int]
      BY <2>1, <2>3 DEF f, n
    <3> QED
      BY ONLY <3>1
  <2> QED
    BY <2>1, <2>3, <2>4 DEF f, n
<1>2. ASSUME NEW q \in Seq(S) PROVE SumFunction(A(q)) \in Nat
  <2> HIDE DEF A
  <2>1. A(q) \in [1..Len(q) -> Nat] /\ A(q) \in [1..Len(q) -> Int]
    BY <1>1
  <2>2. IsFiniteSet(1..Len(q))
    BY <1>1, FS_Interval
  <2> QED
    BY <2>1, <2>2, SumIsInt
<1>3. /\ s \o t \in Seq(S) /\ Len(s \o t) = Len(s) + Len(t)
      /\ \A i \in 1..(Len(s) + Len(t)) :
           (s \o t)[i] = IF i <= Len(s) THEN s[i] ELSE t[i - Len(s)]
  BY ConcatProperties
<1>4. A(s \o t) = A(s) \o A(t)
  <2> DEFINE m == Len(s)
             n == Len(t)
  <2>1. m \in Nat /\ n \in Nat /\ DOMAIN s = 1..m /\ DOMAIN t = 1..n
        /\ DOMAIN (s \o t) = 1..(m + n)
    BY <1>1, <1>3
  <2>2. /\ A(s) \o A(t) \in Seq(Int) /\ Len(A(s) \o A(t)) = m + n
        /\ \A i \in 1..(m + n) :
             (A(s) \o A(t))[i] = IF i <= m THEN A(s)[i] ELSE A(t)[i - m]
    <3>1. A(s) \in Seq(Int) /\ A(t) \in Seq(Int) /\ Len(A(s)) = m /\ Len(A(t)) = n
      BY <1>1
    <3> HIDE DEF A, m, n
    <3> QED
      BY <3>1, ConcatProperties
  <2>3. A(s) \o A(t) = [i \in 1..(m + n) |-> (A(s) \o A(t))[i]]
    <3> HIDE DEF A, m, n
    <3> QED
      BY <2>2, LenProperties
  <2>4. \A i \in 1..(m + n) : A(s \o t)[i] = (A(s) \o A(t))[i]
    <3> SUFFICES ASSUME NEW i \in 1..(m + n)
                 PROVE  A(s \o t)[i] = IF i <= m THEN A(s)[i] ELSE A(t)[i - m]
      <4> HIDE DEF A, m, n
      <4> QED
        BY <2>2
    <3> DEFINE st == s \o t
    <3>1. st[i] = (IF i <= m THEN s[i] ELSE t[i - m]) /\ i \in DOMAIN st
      BY <1>3, <2>1
    <3>2. (i <= m => i \in DOMAIN s) /\ (~(i <= m) => i - m \in DOMAIN t)
      <4> HIDE DEF m, n
      <4> QED
        BY <2>1
    <3> HIDE DEF m, n, st
    <3>3. A(st)[i] = IF st[i].name = name THEN st[i].amount ELSE 0
      BY <3>1
    <3>4. /\ i <= m => A(s)[i] = IF s[i].name = name THEN s[i].amount ELSE 0
          /\ ~(i <= m) => A(t)[i - m] = IF t[i - m].name = name THEN t[i - m].amount ELSE 0
      BY <3>2
    <3> QED
      BY <3>1, <3>3, <3>4 DEF st
  <2>5. A(s \o t) = [i \in 1..(m + n) |-> A(s \o t)[i]]
    <3> DEFINE st == s \o t
    <3>1. DOMAIN st = 1..(m + n)
      BY <2>1
    <3> HIDE DEF st, m, n
    <3>2. A(st) = [i \in 1..(m + n) |-> A(st)[i]]
      BY <3>1
    <3> QED
      BY <3>2 DEF st
  <2> HIDE DEF A, m, n
  <2> QED
    BY <2>3, <2>4, <2>5
<1>5. SumFunction(A(s) \o A(t)) = SumFunction(A(s)) + SumFunction(A(t))
  <2>1. A(s) \in Seq(Int) /\ A(t) \in Seq(Int)
    BY <1>1
  <2> HIDE DEF A
  <2> QED
    BY <2>1, SumConcat
<1>6. \A q : LineAmount(q, name) = SumFunction(A(q))
  BY Zenon DEF LineAmount
<1> HIDE DEF A
<1> QED
  BY <1>2, <1>3, <1>4, <1>5, <1>6

\* The amount under a name: of no line, ...
LEMMA NoLines ==
  ASSUME NEW name
  PROVE  LineAmount(<<>>, name) = 0
<1>1. LineAmount(<<>>, name)
        = SumFunction([i \in DOMAIN <<>> |->
                         IF <<>>[i].name = name THEN <<>>[i].amount ELSE 0])
  BY Zenon DEF LineAmount
<1> QED
  BY <1>1, SumEmpty

\* ... of one, ...
LEMMA AmountOfOne ==
  ASSUME NEW l, l.amount \in Int, NEW name
  PROVE  LineAmount(<<l>>, name) = IF l.name = name THEN l.amount ELSE 0
<1> DEFINE f == [i \in DOMAIN <<l>> |->
                   IF <<l>>[i].name = name THEN <<l>>[i].amount ELSE 0]
<1>1. LineAmount(<<l>>, name) = SumFunction(f)
  BY Zenon DEF LineAmount
<1>2. /\ f \in [{1} -> Int] /\ f[1] = IF l.name = name THEN l.amount ELSE 0
      /\ \A y \in {1} \ {1} : f[y] = 0 /\ 1 \in {1}
  <2>1. DOMAIN <<l>> = {1} /\ <<l>>[1] = l
    OBVIOUS
  <2> QED
    BY <2>1
<1>3. IsFiniteSet({1})
  BY FS_Singleton
<1> HIDE DEF f
<1>4. SumFunction(f) = f[1]
  BY <1>2, <1>3, SumOfOne
<1> QED
  BY <1>1, <1>2, <1>4

\* ... of one sequence after another.
LEMMA PiecesConcat ==
  ASSUME NEW s \in Seq(Pieces), NEW t \in Seq(Pieces)
  PROVE  /\ s \o t \in Seq(Pieces)
         /\ \A name : LineAmount(s \o t, name) = LineAmount(s, name) + LineAmount(t, name)
<1>1. \A x \in Pieces : x.amount \in Nat
  BY DEF Pieces
<1>2. \A name :
        /\ LineAmount(s \o t, name) = LineAmount(s, name) + LineAmount(t, name)
        /\ s \o t \in Seq(Pieces)
  BY <1>1, AmountConcat
<1> QED
  BY <1>2

\* A statutory component is left out only when it is nothing.
LEMMA IfAnyAmount ==
  ASSUME NEW name \in StatutoryNames, NEW ct \in {"earning", "deduction"}, NEW a \in Nat,
         NEW other
  PROVE  /\ IfAny(Component(name, ct, a)) \in Seq(Pieces)
         /\ LineAmount(IfAny(Component(name, ct, a)), other)
              = IF name = other THEN a ELSE 0
<1> DEFINE c == Component(name, ct, a)
<1>1. c \in Pieces /\ c.name = name /\ c.amount = a
  BY DEF Component, Pieces
<1> HIDE DEF c
<1>2. CASE a > 0
  <2>1. IfAny(c) = <<c>>
    BY <1>1, <1>2 DEF IfAny
  <2>2. LineAmount(<<c>>, other) = IF c.name = other THEN c.amount ELSE 0
    BY <1>1, AmountOfOne
  <2>3. <<c>> \in Seq(Pieces)
    BY <1>1
  <2> QED
    BY <1>1, <2>1, <2>2, <2>3 DEF c
<1>3. CASE ~(a > 0)
  <2>1. IfAny(c) = <<>> /\ a = 0
    BY <1>1, <1>3 DEF IfAny
  <2>2. <<>> \in Seq(Pieces)
    OBVIOUS
  <2> QED
    BY <2>1, <2>2, NoLines DEF c
<1> QED
  BY <1>2, <1>3

\* A thirteenth pay for some of the months is a number.
LEMMA ThrIsNat ==
  ASSUME NEW monthly \in Nat, NEW months \in Int
  PROVE  Thr(monthly, months) \in Nat
<1>1. Money(monthly, 1) \in Nat
  BY MoneyBounds
<1>2. ASSUME months \in Nat PROVE Part(monthly, months, 12) \in Nat
  <2>1. PartUnit \in Nat \ {0}
    BY UnitsAssumption
  <2> DEFINE q == Money(months * PartUnit, 12)
  <2>2. q \in Nat
    BY <1>2, <2>1, ShareIsNat
  <2> HIDE DEF q
  <2>3. Money(monthly * q, PartUnit) \in Nat
    BY <2>1, <2>2, ShareIsNat
  <2> QED
    BY <2>3 DEF Part, q
<1>3. CASE months >= 12
  BY <1>1, <1>3 DEF Thr
<1>4. CASE months \in 1..11
  <2>1. months \in Nat /\ ~(months >= 12)
    BY <1>4
  <2> QED
    BY <1>2, <1>4, <2>1 DEF Thr
<1>5. CASE ~(months >= 12) /\ months \notin 1..11
  BY <1>5 DEF Thr
<1> QED
  BY <1>3, <1>4, <1>5

\* What BPJS takes of a pay is a number.
LEMMA SharesAreNat ==
  ASSUME NEW bpjs, IsConfig("bpjs", bpjs, Open), NEW gross \in Nat, NEW risk
  PROVE  /\ BpjsKesehatan(gross, bpjs).employee \in Nat
         /\ BpjsKetenagakerjaan(gross, risk, bpjs).employee \in Nat
<1>1. /\ bpjs.kes.employee \in Nat /\ bpjs.kes.cap \in Nat
      /\ bpjs.jht.employee \in Nat
      /\ bpjs.jp.employee \in Nat /\ bpjs.jp.cap \in Nat
  BY DEF IsConfig
<1>2. RateUnit \in Nat \ {0}
  BY UnitsAssumption
<1>3. Capped(gross, bpjs.kes.cap) \in Nat /\ Capped(gross, bpjs.jp.cap) \in Nat
  BY <1>1 DEF Capped
<1>4. /\ Money(Capped(gross, bpjs.kes.cap) * bpjs.kes.employee, RateUnit) \in Nat
      /\ Money(Capped(gross, bpjs.jp.cap) * bpjs.jp.employee, RateUnit) \in Nat
      /\ Money(gross * bpjs.jht.employee, RateUnit) \in Nat
  BY <1>1, <1>2, <1>3, ShareIsNat
<1>5. BpjsKesehatan(gross, bpjs).employee
        = Money(Capped(gross, bpjs.kes.cap) * bpjs.kes.employee, RateUnit)
  BY DEF BpjsKesehatan
<1>6. BpjsKetenagakerjaan(gross, risk, bpjs).employee
        = Money(gross * bpjs.jht.employee, RateUnit)
            + Money(Capped(gross, bpjs.jp.cap) * bpjs.jp.employee, RateUnit)
  BY DEF BpjsKetenagakerjaan
<1> QED
  BY <1>4, <1>5, <1>6

\* The components of nothing left out, the tax is what is withheld.
LEMMA ComputedAmounts ==
  ASSUME NEW in, in.months \in Int, NEW gross \in Nat, NEW risk, NEW law0,
         IsConfig("bpjs", law0.bpjs, Open), Withholding(in, gross, law0) \in Nat
  PROVE  LET C == ComputeStatutory(in, gross, risk, law0)
         IN  /\ C \in Seq(Pieces)
             /\ LineAmount(C, "PPh_21") = Withholding(in, gross, law0)
             /\ LineAmount(C, "Lembur_Overtime") = 0
             /\ LineAmount(C, "Lembur_disetujui") = 0
<1> DEFINE thr == Thr(gross, in.months)
           tax == Withholding(in, gross, law0)
           kes == BpjsKesehatan(gross, law0.bpjs).employee
           ktk == BpjsKetenagakerjaan(gross, risk, law0.bpjs).employee
           p1 == IfAny(Component("THR", "earning", thr))
           p2 == IfAny(Component("PPh_21", "deduction", tax))
           p3 == IfAny(Component("BPJS_Kesehatan", "deduction", kes))
           p4 == IfAny(Component("BPJS_Ketenagakerjaan", "deduction", ktk))
<1>1. thr \in Nat /\ kes \in Nat /\ ktk \in Nat
  BY ThrIsNat, SharesAreNat
<1>2. ComputeStatutory(in, gross, risk, law0) = p1 \o p2 \o p3 \o p4
  BY Zenon DEF ComputeStatutory
<1> HIDE DEF thr, tax, kes, ktk
<1>3. /\ tax \in Nat
      /\ {"THR", "PPh_21", "BPJS_Kesehatan", "BPJS_Ketenagakerjaan"}
           \subseteq StatutoryNames
  BY DEF tax, StatutoryNames
<1>4. /\ p1 \in Seq(Pieces) /\ \A n : LineAmount(p1, n) = IF "THR" = n THEN thr ELSE 0
      /\ p2 \in Seq(Pieces) /\ \A n : LineAmount(p2, n) = IF "PPh_21" = n THEN tax ELSE 0
  <2>1. "THR" \in StatutoryNames /\ "PPh_21" \in StatutoryNames
    BY <1>3
  <2>2. p1 \in Seq(Pieces) /\ \A n : LineAmount(p1, n) = IF "THR" = n THEN thr ELSE 0
    BY <1>1, <2>1, IfAnyAmount
  <2>3. p2 \in Seq(Pieces) /\ \A n : LineAmount(p2, n) = IF "PPh_21" = n THEN tax ELSE 0
    BY <1>3, <2>1, IfAnyAmount
  <2> QED
    BY <2>2, <2>3
<1>5. /\ p3 \in Seq(Pieces)
      /\ \A n : LineAmount(p3, n) = IF "BPJS_Kesehatan" = n THEN kes ELSE 0
      /\ p4 \in Seq(Pieces)
      /\ \A n : LineAmount(p4, n) = IF "BPJS_Ketenagakerjaan" = n THEN ktk ELSE 0
  <2>1. "BPJS_Kesehatan" \in StatutoryNames /\ "BPJS_Ketenagakerjaan" \in StatutoryNames
    BY <1>3
  <2>2. /\ p3 \in Seq(Pieces)
        /\ \A n : LineAmount(p3, n) = IF "BPJS_Kesehatan" = n THEN kes ELSE 0
    BY <1>1, <2>1, IfAnyAmount
  <2>3. /\ p4 \in Seq(Pieces)
        /\ \A n : LineAmount(p4, n) = IF "BPJS_Ketenagakerjaan" = n THEN ktk ELSE 0
    BY <1>1, <2>1, IfAnyAmount
  <2> QED
    BY <2>2, <2>3
<1> HIDE DEF p1, p2, p3, p4
<1>6. /\ p1 \o p2 \o p3 \o p4 \in Seq(Pieces)
      /\ \A n : LineAmount(p1 \o p2 \o p3 \o p4, n)
                  = LineAmount(p1, n) + LineAmount(p2, n) + LineAmount(p3, n)
                      + LineAmount(p4, n)
  <2>0. p1 \in Seq(Pieces) /\ p2 \in Seq(Pieces) /\ p3 \in Seq(Pieces) /\ p4 \in Seq(Pieces)
    BY <1>4, <1>5
  <2> DEFINE q == p1 \o p2
             r == q \o p3
  <2>1. /\ q \in Seq(Pieces)
        /\ \A n : LineAmount(q, n) = LineAmount(p1, n) + LineAmount(p2, n)
    BY <2>0, PiecesConcat
  <2> HIDE DEF q
  <2>2. /\ r \in Seq(Pieces)
        /\ \A n : LineAmount(r, n) = LineAmount(q, n) + LineAmount(p3, n)
    BY <2>0, <2>1, PiecesConcat
  <2> HIDE DEF r
  <2>3. /\ r \o p4 \in Seq(Pieces)
        /\ \A n : LineAmount(r \o p4, n) = LineAmount(r, n) + LineAmount(p4, n)
    BY <2>0, <2>2, PiecesConcat
  <2> QED
    BY <2>1, <2>2, <2>3 DEF q, r
<1> DEFINE C == p1 \o p2 \o p3 \o p4
<1> HIDE DEF C
<1>7. \A n : LineAmount(C, n)
               = (IF "THR" = n THEN thr ELSE 0) + (IF "PPh_21" = n THEN tax ELSE 0)
                   + (IF "BPJS_Kesehatan" = n THEN kes ELSE 0)
                   + (IF "BPJS_Ketenagakerjaan" = n THEN ktk ELSE 0)
  BY <1>4, <1>5, <1>6 DEF C
<1>8. LineAmount(C, "PPh_21") = tax
  <2>1. LineAmount(C, "PPh_21") = 0 + tax + 0 + 0
    BY <1>7
  <2> QED
    BY <1>3, <2>1
<1>9. LineAmount(C, "Lembur_Overtime") = 0
  <2>1. LineAmount(C, "Lembur_Overtime") = 0 + 0 + 0 + 0
    BY <1>7
  <2> QED
    BY <2>1
<1>10. LineAmount(C, "Lembur_disetujui") = 0
  <2>1. LineAmount(C, "Lembur_disetujui") = 0 + 0 + 0 + 0
    BY <1>7
  <2> QED
    BY <2>1
<1> QED
  BY <1>2, <1>6, <1>8, <1>9, <1>10 DEF C, tax

\* The lines of an overtime leg: one with the days' pay, or none for no hours.
LEMMA OvertimeLeg ==
  ASSUME NEW stretches, IsStretches(stretches), NEW base, NEW bands,
         NEW pay \in Nat, pay = StretchesPay(stretches, base, bands),
         NEW name \in StatutoryNames, NEW R, NEW ref \in R, NEW other
  PROVE  /\ OvertimeLines(name, stretches, ref, base, bands) \in Seq(LinesOn(R))
         /\ LineAmount(OvertimeLines(name, stretches, ref, base, bands), other)
              = IF name = other THEN pay ELSE 0
         /\ HoursOf(stretches) \in Nat
<1> DEFINE l == [Line(name, "earning", pay) EXCEPT !.ref = ref]
<1>2. HoursOf(stretches) \in Nat /\ (HoursOf(stretches) > 0 <=> DOMAIN stretches # {})
  <2>1. /\ IsFiniteSet(DOMAIN stretches)
        /\ stretches \in [DOMAIN stretches -> Nat \ {0}]
    <3>1. stretches = [d \in DOMAIN stretches |-> stretches[d]]
      BY DEF IsStretches
    <3> QED
      BY <3>1 DEF IsStretches
  <2> QED
    BY <2>1, SumAboveNothing DEF HoursOf
<1>3. DOMAIN stretches = {} => pay = 0
  <2> DEFINE f == [d \in DOMAIN stretches |-> OvertimePay(stretches[d], base, bands)]
  <2>1. pay = SumFunction(f) /\ DOMAIN f = DOMAIN stretches
    BY Zenon DEF StretchesPay
  <2> HIDE DEF f
  <2> QED
    BY <2>1, SumEmpty
<1>4. OvertimeLines(name, stretches, ref, base, bands)
        = IF HoursOf(stretches) > 0 THEN <<l>> ELSE <<>>
  <2>1. l = [Line(name, "earning", StretchesPay(stretches, base, bands)) EXCEPT !.ref = ref]
    OBVIOUS
  <2> HIDE DEF l
  <2> QED
    BY <2>1, Zenon DEF OvertimeLines
<1>5. l \in LinesOn(R) /\ l.name = name /\ l.amount = pay
  BY DEF LinesOn, LineNames, Line
<1> HIDE DEF l
<1>6. CASE HoursOf(stretches) > 0
  <2>1. <<l>> \in Seq(LinesOn(R))
    BY <1>5
  <2>2. LineAmount(<<l>>, other) = IF name = other THEN pay ELSE 0
    BY <1>5, AmountOfOne
  <2> QED
    BY <1>2, <1>4, <1>6, <2>1, <2>2
<1>7. CASE ~(HoursOf(stretches) > 0)
  <2>1. pay = 0 /\ OvertimeLines(name, stretches, ref, base, bands) = <<>>
    BY <1>2, <1>3, <1>4, <1>7
  <2>2. <<>> \in Seq(LinesOn(R))
    OBVIOUS
  <2> QED
    BY <1>2, <2>1, <2>2, NoLines
<1> QED
  BY <1>6, <1>7

\* The lines have an amount under one name only.
Only(lines, name, amount) ==
  \A n : LineAmount(lines, n) = IF name = n THEN amount ELSE 0

\* The leg of the approved hours is left out when no approval vouches for any.
LEMMA ApprovedLeg ==
  ASSUME NEW stretches, IsStretches(stretches), NEW base, NEW bands,
         NEW pay \in Nat, pay = StretchesPay(stretches, base, bands),
         NEW name \in StatutoryNames, NEW R, NEW ref \in R,
         ref = NoRef => stretches = <<>>, NEW L,
         L = IF ref = NoRef THEN <<>>
             ELSE OvertimeLines(name, stretches, ref, base, bands)
  PROVE  L \in Seq(LinesOn(R)) /\ Only(L, name, pay)
<1>1. CASE ref = NoRef
  <2>1. DOMAIN stretches = {} /\ <<>> \in Seq(LinesOn(R))
    BY <1>1
  <2>2. pay = 0
    <3> DEFINE f == [d \in DOMAIN stretches |-> OvertimePay(stretches[d], base, bands)]
    <3>1. pay = SumFunction(f)
          /\ DOMAIN f = DOMAIN stretches
      BY Zenon DEF StretchesPay
    <3> HIDE DEF f
    <3> QED
      BY <2>1, <3>1, SumEmpty
  <2> QED
    BY <1>1, <2>1, <2>2, NoLines DEF Only
<1>2. CASE ref # NoRef
  <2>1. ASSUME NEW n
        PROVE  /\ OvertimeLines(name, stretches, ref, base, bands) \in Seq(LinesOn(R))
               /\ LineAmount(OvertimeLines(name, stretches, ref, base, bands), n)
                    = IF name = n THEN pay ELSE 0
    BY ONLY IsStretches(stretches), pay \in Nat, name \in StatutoryNames, ref \in R,
            pay = StretchesPay(stretches, base, bands), OvertimeLeg, SMTT(40)
  <2> QED
    BY <1>2, <2>1 DEF Only
<1> QED
  BY <1>1, <1>2

-------------------------------------------------------------------------------
(* What is withheld *)

\* A part of the law, as a request may have read it.
ReadFrom(t, cfg) ==
  \E rows \in SetsOf(t) : Complete(t, rows, Open) /\ cfg \in Readings(t, rows)

\* What a request has read of the law can be computed with ...
LEMMA ReadIsConfig ==
  ASSUME NEW t \in Tables, NEW cfg, ReadFrom(t, cfg)
  PROVE  IsConfig(t, cfg, Open)
<1>1. PICK rows \in SetsOf(t) : Complete(t, rows, Open) /\ cfg \in Readings(t, rows)
  BY DEF ReadFrom
<1>2. RowsTyped(t, rows, Open)
  BY DeskAssumption
<1> QED
  BY <1>1, <1>2, ReadingIsConfig

\* The whole of it.
LawRead(seen) == \A t \in Tables : ReadFrom(t, seen[t])

\* Its brackets and bands.
LEMMA BracketsRead ==
  ASSUME NEW law0, LawRead(law0)
  PROVE  /\ law0.brackets \in Seq([lower : Int, upper : Int \cup {Open}, rate : Nat])
         /\ \A i \in DOMAIN law0.brackets :
              \/ law0.brackets[i].upper = Open
              \/ law0.brackets[i].upper > law0.brackets[i].lower
         /\ LawIsSorted => GoodBrackets(law0.brackets)
<1>1. PICK rows \in SetsOf("brackets") :
        Complete("brackets", rows, Open) /\ law0["brackets"] \in Readings("brackets", rows)
  BY DEF LawRead, ReadFrom, Tables
<1>2. RowsTyped("brackets", rows, Open)
  BY DeskAssumption DEF Tables
<1>3. law0.brackets = rows
  BY <1>1 DEF Readings
<1>4. /\ rows \in Seq([lower : Int, upper : Int \cup {Open}, rate : Nat])
      /\ \A i \in DOMAIN rows : rows[i].upper = Open \/ rows[i].upper > rows[i].lower
  BY <1>2 DEF RowsTyped
<1>5. rows # <<>> /\ rows[1].lower = 0
  BY <1>1 DEF Complete, BracketsComplete
<1>6. LawIsSorted => Ascending(rows)
  BY DEF LawIsSorted
<1> QED
  BY <1>3, <1>4, <1>5, <1>6 DEF GoodBrackets

\* ... table by table.
LEMMA TablesRead ==
  ASSUME NEW law0, LawRead(law0)
  PROVE  /\ law0.ptkp \in [Tiers -> Nat]
         /\ law0.ter \in [Categories -> Seq([lower : Int, rate : Nat])]
         /\ \A c \in Categories :
              /\ law0.ter[c] # <<>> /\ law0.ter[c][1].lower = 0
              /\ LawIsSorted => Ascending(law0.ter[c])
         /\ IsConfig("bpjs", law0.bpjs, Open)
         /\ law0.overtime \in Seq(BandRows)
         /\ HoursHaveOneBand => Apart(law0.overtime, Open)
<1>1. ASSUME NEW t \in Tables
      PROVE  ReadFrom(t, law0[t]) /\ IsConfig(t, law0[t], Open)
  BY ReadIsConfig DEF LawRead
<1>2. /\ law0.ptkp \in [Tiers -> Nat]
      /\ law0.ter \in [Categories -> Seq([lower : Int, rate : Nat])]
      /\ IsConfig("bpjs", law0.bpjs, Open)
      /\ law0.overtime \in Seq(BandRows)
  BY <1>1 DEF IsConfig, BandRows, Tables
<1>3. \A c \in Categories : /\ law0.ter[c] # <<>> /\ law0.ter[c][1].lower = 0
                            /\ LawIsSorted => Ascending(law0.ter[c])
  <2>1. PICK rows \in SetsOf("ter") :
          Complete("ter", rows, Open) /\ law0["ter"] \in Readings("ter", rows)
    BY <1>1 DEF ReadFrom, Tables
  <2>2. law0.ter = rows /\ TerComplete(rows)
    BY <2>1 DEF Readings, Complete
  <2> QED
    BY <2>2 DEF TerComplete, LawIsSorted
<1>4. HoursHaveOneBand => Apart(law0.overtime, Open)
  <2>1. PICK rows \in SetsOf("overtime") :
          /\ Complete("overtime", rows, Open)
          /\ law0["overtime"] \in Readings("overtime", rows)
    BY <1>1 DEF ReadFrom, Tables
  <2>2. law0.overtime = rows["workday"] /\ "workday" \in DOMAIN rows
    BY <2>1 DEF Readings, Complete, OvertimeComplete
  <2> QED
    BY <2>2 DEF HoursHaveOneBand
<1> QED
  BY <1>2, <1>3, <1>4

\* The tax by the brackets is some money, in whatever order they stand.
LEMMA ProgressiveIsNat ==
  ASSUME NEW brackets \in Seq([lower : Int, upper : Int \cup {Open}, rate : Nat]),
         \A i \in DOMAIN brackets :
           brackets[i].upper = Open \/ brackets[i].upper > brackets[i].lower,
         NEW T \in Nat
  PROVE  ProgressiveTax(T, brackets) \in Nat
<1> DEFINE V == Visited(T, brackets)
           f == [i \in V |-> SliceIn(T, brackets[i]) * brackets[i].rate]
<1>1. Len(brackets) \in Nat /\ DOMAIN brackets = 1..Len(brackets)
  BY LenProperties
<1>2. IsFiniteSet(V)
  <2>1. IsFiniteSet(1..Len(brackets))
    <3> DEFINE n == Len(brackets)
    <3>1. n \in Int /\ 1 \in Int
      BY <1>1
    <3> HIDE DEF n
    <3>2. IsFiniteSet(1..n)
      BY <3>1, FS_Interval
    <3> QED
      BY <3>2 DEF n
  <2>2. V \subseteq 1..Len(brackets)
    BY <1>1 DEF Visited
  <2> QED
    BY <2>1, <2>2, FS_Subset
<1>3. ASSUME NEW i \in V PROVE SliceIn(T, brackets[i]) * brackets[i].rate \in Nat
  <2>1. i \in DOMAIN brackets /\ i \in 1..i
    BY <1>1 DEF Visited
  <2>2. T > brackets[i].lower
    BY <2>1 DEF Visited
  <2>3. brackets[i] \in [lower : Int, upper : Int \cup {Open}, rate : Nat]
    BY <1>1, <2>1, ElementOfSeq
  <2>4. SliceIn(T, brackets[i]) \in Nat /\ brackets[i].rate \in Nat
    <3> DEFINE b == brackets[i]
    <3>1. /\ b.lower \in Int /\ b.rate \in Nat /\ b.upper \in Int \cup {Open}
          /\ b.upper = Open \/ b.upper > b.lower
          /\ T > b.lower
      BY <2>1, <2>2, <2>3
    <3> HIDE DEF b
    <3>2. SliceIn(T, b) \in Nat
      BY <3>1 DEF SliceIn, Capped
    <3> QED
      BY <3>1, <3>2 DEF b
  <2> QED
    BY <2>4, TimesIsInt
<1>4. f \in [V -> Nat] /\ f \in [V -> Int]
  <2> HIDE DEF V
  <2> QED
    BY <1>3
<1>5. ProgressiveTax(T, brackets) = SumFunction(f)
  BY Zenon DEF ProgressiveTax
<1> HIDE DEF f, V
<1> QED
  BY <1>2, <1>4, <1>5, SumIsInt

\* What a refusal does not stop can be withheld.
LEMMA WithholdingIsNat ==
  ASSUME NEW law0, LawRead(law0), NEW in, in.tier \in Tiers,
         in.ter \in Categories \cup {"brackets"}, NEW gross \in Nat, NEW risk,
         Computable(in, gross, risk, law0)
  PROVE  Withholding(in, gross, law0) \in Nat
<1>1. RateUnit \in Nat \ {0} /\ RateUnit * 10 * 12 \in Nat \ {0}
      /\ RateUnit * RateUnit * 10 \in Nat \ {0}
  <2> DEFINE r == RateUnit * RateUnit
  <2>1. RateUnit \in Nat \ {0}
    BY UnitsAssumption
  <2>2. r \in Nat \ {0}
    BY <2>1, TimesIsInt
  <2> HIDE DEF r
  <2>3. r * 10 \in Nat \ {0} /\ RateUnit * 10 * 12 \in Nat \ {0}
    BY <2>1, <2>2
  <2> QED
    BY <2>1, <2>3 DEF r
<1>2. Surtax(in.npwp) \in Nat
  BY DEF Surtax
<1>3. CASE in.ter = "brackets"
  <2> DEFINE T == Taxable(gross, law0.ptkp[in.tier])
             tax == ProgressiveTax(T, law0.brackets)
  <2>1. law0.ptkp[in.tier] \in Nat
    BY TablesRead
  <2>2. T \in Nat
    BY <2>1 DEF Taxable
  <2>3. tax \in Nat
    <3> HIDE DEF T
    <3> QED
      BY <2>2, BracketsRead, ProgressiveIsNat
  <2> HIDE DEF tax
  <2>4. Money(tax * Surtax(in.npwp), RateUnit * 10 * 12) \in Nat
    BY <1>1, <1>2, <2>3, ShareIsNat
  <2> QED
    BY <1>3, <2>4 DEF Withholding, Pph21, tax
<1>4. CASE in.ter # "brackets"
  <2> DEFINE base == TerBase(gross, law0.bpjs)
             bands == law0.ter[in.ter]
             R == BandsReached(base, bands)
             rate == bands[Max(R)].rate
  <2>1. in.ter \in Categories /\ HasTerRate(in.ter, gross, law0)
    BY <1>4 DEF Computable
  <2>2. bands \in Seq([lower : Int, rate : Nat])
    BY <2>1, TablesRead
  <2>3. base \in Nat
    BY TablesRead, TerBaseIsNat
  <2>4. Len(bands) \in Nat /\ DOMAIN bands = 1..Len(bands)
    <3> HIDE DEF bands
    <3> QED
      BY <2>2, LenProperties
  <2>5. R # {} /\ R \in SUBSET (0..Len(bands)) /\ R \subseteq DOMAIN bands
    BY <2>1, <2>4 DEF HasTerRate, BandsReached
  <2>6. Max(R) \in R
    <3> HIDE DEF R, bands
    <3> QED
      BY <2>4, <2>5, LastUpTo
  <2>7. rate \in Nat
    <3> HIDE DEF R, bands
    <3>1. bands[Max(R)] \in [lower : Int, rate : Nat]
      BY <2>2, <2>4, <2>5, <2>6, ElementOfSeq
    <3> QED
      BY <3>1
  <2>8. Pph21Ter(in.ter, in.npwp, gross, law0)
          = Money(base * rate * Surtax(in.npwp), RateUnit * RateUnit * 10)
    BY Zenon DEF Pph21Ter
  <2> HIDE DEF base, rate
  <2>9. base * rate \in Nat
    BY <2>3, <2>7, TimesIsInt
  <2>10. Money((base * rate) * Surtax(in.npwp), RateUnit * RateUnit * 10) \in Nat
    BY <1>1, <1>2, <2>9, ShareIsNat
  <2> QED
    BY <1>4, <2>8, <2>10 DEF Withholding
<1> QED
  BY <1>3, <1>4

-------------------------------------------------------------------------------
(* The statutory lines *)

\* Lines with their references after one another.
LEMMA LinesConcat ==
  ASSUME NEW R, NEW s \in Seq(LinesOn(R)), NEW t \in Seq(LinesOn(R))
  PROVE  /\ s \o t \in Seq(LinesOn(R))
         /\ \A name : /\ LineAmount(s \o t, name)
                           = LineAmount(s, name) + LineAmount(t, name)
                      /\ LineAmount(s, name) \in Nat /\ LineAmount(t, name) \in Nat
<1>1. \A x \in LinesOn(R) : x.amount \in Nat
  BY DEF LinesOn
<1>2. \A name :
        /\ LineAmount(s \o t, name) = LineAmount(s, name) + LineAmount(t, name)
        /\ LineAmount(s, name) \in Nat /\ LineAmount(t, name) \in Nat
        /\ s \o t \in Seq(LinesOn(R))
  BY <1>1, AmountConcat
<1> QED
  BY <1>2

\* A computed component becomes a line of its name.
LEMMA PiecesAsLines ==
  ASSUME NEW R, NoRef \in R, NEW C \in Seq(Pieces)
  PROVE  LET L == [i \in DOMAIN C |-> LET c == C[i] IN Line(c.name, c.ct, c.amount)]
         IN  /\ L \in Seq(LinesOn(R))
             /\ \A name : LineAmount(L, name) = LineAmount(C, name)
<1> DEFINE L == [i \in DOMAIN C |-> LET c == C[i] IN Line(c.name, c.ct, c.amount)]
<1>1. Len(C) \in Nat /\ DOMAIN C = 1..Len(C)
  BY LenProperties
<1>2. \A i \in DOMAIN C : C[i] \in Pieces
  BY <1>1, ElementOfSeq
<1>3. \A i \in DOMAIN C :
        L[i] \in LinesOn(R) /\ L[i].name = C[i].name /\ L[i].amount = C[i].amount
  BY <1>2 DEF Line, LinesOn, Pieces, LineNames
<1>4. DOMAIN L = DOMAIN C /\ L = [i \in 1..Len(C) |-> L[i]]
  BY <1>1
<1> HIDE DEF L
<1>5. L \in Seq(LinesOn(R))
  BY <1>1, <1>3, <1>4
<1>6. ASSUME NEW name PROVE LineAmount(L, name) = LineAmount(C, name)
  <2>1. [i \in DOMAIN L |-> IF L[i].name = name THEN L[i].amount ELSE 0]
          = [i \in DOMAIN C |-> IF C[i].name = name THEN C[i].amount ELSE 0]
    BY <1>3, <1>4
  <2> QED
    BY <2>1, Zenon DEF LineAmount
<1> QED
  BY <1>5, <1>6 DEF L

\* What a computed slip gets besides its structure.
LEMMA StatutoryLinesAre ==
  ASSUME NEW in, in.months \in Int, NEW base \in Nat, NEW risk, NEW law0,
         IsConfig("bpjs", law0.bpjs, Open), Withholding(in, base, law0) \in Nat,
         NEW clock, IsStretches(clock),
         StretchesPay(clock, base, law0.overtime) \in Nat,
         NEW hours, IsStretches(hours),
         StretchesPay(hours, base, law0.overtime) \in Nat,
         NEW approval, approval = NoRef => hours = <<>>
  PROVE  LET L == StatutoryLines(in, base, clock, approval, hours, risk, law0)
         IN  /\ L \in Seq(LinesOn({NoRef, approval}))
             /\ LineAmount(L, "PPh_21") = Withholding(in, base, law0)
             /\ LineAmount(L, "Lembur_Overtime")
                  = StretchesPay(clock, base, law0.overtime)
             /\ LineAmount(L, "Lembur_disetujui")
                  = StretchesPay(hours, base, law0.overtime)
<1> DEFINE R == {NoRef, approval}
           C == ComputeStatutory(in, base, risk, law0)
           l1 == OvertimeLines("Lembur_Overtime", clock, NoRef, base, law0.overtime)
           l2 == IF approval = NoRef THEN <<>>
                 ELSE OvertimeLines("Lembur_disetujui", hours, approval, base,
                                    law0.overtime)
           l3 == [i \in DOMAIN C |-> LET c == C[i] IN Line(c.name, c.ct, c.amount)]
           tax == Withholding(in, base, law0)
           pay1 == StretchesPay(clock, base, law0.overtime)
           pay2 == StretchesPay(hours, base, law0.overtime)
<1>0. tax \in Nat /\ pay1 \in Nat /\ pay2 \in Nat
  OBVIOUS
<1>1. StatutoryLines(in, base, clock, approval, hours, risk, law0) = l1 \o l2 \o l3
  BY Zenon DEF StatutoryLines
<1>2. /\ l1 \in Seq(LinesOn(R))
      /\ \A n : LineAmount(l1, n) = IF "Lembur_Overtime" = n THEN pay1 ELSE 0
  <2>1. /\ "Lembur_Overtime" \in StatutoryNames /\ NoRef \in R
        /\ IsStretches(clock) /\ StretchesPay(clock, base, law0.overtime) \in Nat
    BY DEF StatutoryNames
  <2> DEFINE name == "Lembur_Overtime"
             bands == law0.overtime
             pay == StretchesPay(clock, base, law0.overtime)
  <2> HIDE DEF R, name, bands, pay
  <2>2. /\ name \in StatutoryNames /\ NoRef \in R
        /\ pay \in Nat /\ pay = StretchesPay(clock, base, bands)
    BY <2>1 DEF name, bands, pay
  <2>3. \A n : /\ OvertimeLines(name, clock, NoRef, base, bands) \in Seq(LinesOn(R))
              /\ LineAmount(OvertimeLines(name, clock, NoRef, base, bands), n)
                   = IF name = n THEN pay ELSE 0
    BY <2>2, OvertimeLeg
  <2> QED
    BY <2>3 DEF name, bands, pay
<1>3. /\ l2 \in Seq(LinesOn(R))
      /\ \A n : LineAmount(l2, n) = IF "Lembur_disetujui" = n THEN pay2 ELSE 0
  <2>1. /\ "Lembur_disetujui" \in StatutoryNames /\ approval \in R
        /\ IsStretches(hours) /\ StretchesPay(hours, base, law0.overtime) \in Nat
    BY DEF StatutoryNames
  <2> DEFINE name == "Lembur_disetujui"
             bands == law0.overtime
             pay == StretchesPay(hours, base, law0.overtime)
  <2> HIDE DEF R, name, bands, pay
  <2>2. /\ name \in StatutoryNames /\ approval \in R
        /\ pay \in Nat /\ pay = StretchesPay(hours, base, bands)
    BY <2>1 DEF name, bands, pay
  <2> DEFINE l == IF approval = NoRef THEN <<>>
                  ELSE OvertimeLines(name, hours, approval, base, bands)
  <2>3. l = l2
    BY DEF name, bands
  <2> HIDE DEF l, l2
  <2>4. l = IF approval = NoRef THEN <<>>
            ELSE OvertimeLines(name, hours, approval, base, bands)
    BY DEF l
  <2>5. l \in Seq(LinesOn(R)) /\ Only(l, name, pay)
    BY <2>2, <2>4, ApprovedLeg
  <2> QED
    BY <2>3, <2>5 DEF name, pay, Only
<1>4. /\ C \in Seq(Pieces) /\ LineAmount(C, "PPh_21") = tax
      /\ LineAmount(C, "Lembur_Overtime") = 0 /\ LineAmount(C, "Lembur_disetujui") = 0
  BY ComputedAmounts
<1>5. l3 \in Seq(LinesOn(R)) /\ \A n : LineAmount(l3, n) = LineAmount(C, n)
  <2>1. NoRef \in R
    OBVIOUS
  <2> HIDE DEF C, R
  <2> QED
    BY <1>4, <2>1, PiecesAsLines
<1> HIDE DEF R, C, l1, l2, l3, tax, pay1, pay2
<1> DEFINE q == l1 \o l2
<1>6. /\ q \in Seq(LinesOn(R))
      /\ \A n : LineAmount(q, n) = LineAmount(l1, n) + LineAmount(l2, n)
  BY <1>2, <1>3, LinesConcat
<1> HIDE DEF q
<1> DEFINE r == q \o l3
<1>7. /\ r \in Seq(LinesOn(R))
      /\ \A n : LineAmount(r, n) = LineAmount(q, n) + LineAmount(l3, n)
  BY <1>5, <1>6, LinesConcat
<1> HIDE DEF r
<1>8. \A n : LineAmount(r, n) = (IF "Lembur_Overtime" = n THEN pay1 ELSE 0)
                                  + (IF "Lembur_disetujui" = n THEN pay2 ELSE 0)
                                  + LineAmount(C, n)
  BY <1>2, <1>3, <1>5, <1>6, <1>7
<1>9. /\ LineAmount(r, "PPh_21") = tax /\ LineAmount(r, "Lembur_Overtime") = pay1
      /\ LineAmount(r, "Lembur_disetujui") = pay2
  BY <1>0, <1>4, <1>8, SMTT(40)
<1> QED
  BY <1>1, <1>7, <1>9 DEF r, q, R, tax, pay1, pay2

-------------------------------------------------------------------------------
(* The priced slip *)

\* A prorated amount is a number.
LEMMA PartIsNat ==
  ASSUME NEW a \in Nat, NEW n \in Nat, NEW d \in Nat \ {0}
  PROVE  Part(a, n, d) \in Nat
<1> DEFINE q == Money(n * PartUnit, d)
<1>1. PartUnit \in Nat \ {0}
  BY UnitsAssumption
<1>2. q \in Nat
  BY <1>1, ShareIsNat
<1> HIDE DEF q
<1>3. Money(a * q, PartUnit) \in Nat
  BY <1>1, <1>2, ShareIsNat
<1> QED
  BY <1>3 DEF Part, q

\* The days paid are some of those of the period.
LEMMA PaidDays ==
  ASSUME NEW working \in Int, NEW unpaid \in Int, working > 0
  PROVE  /\ UnpaidDays(unpaid, working) \in 0..working
         /\ working - UnpaidDays(unpaid, working) \in 0..working
  BY DEF UnpaidDays

\* What a component comes to.
LEMMA ComponentPays ==
  ASSUME NEW comp \in Components, comp.name \in LineNames, NEW R, NoRef \in R,
         NEW working \in Nat \ {0}, NEW paid \in 0..working
  PROVE  LET l == ComponentLine(comp, paid, working)
         IN  /\ l \in LinesOn(R) /\ l.name = comp.name
             /\ comp.ct = "deduction" => l.amount = comp.amount
             /\ comp.ct # "deduction" /\ comp.amount * working < PartUnit =>
                  /\ l.amount \in 0..comp.amount
                  /\ 2 * (l.amount * working - comp.amount * paid)
                       \in -working..working
<1> DEFINE a == comp.amount
           p == Part(a, paid, working)
<1>1. a \in Nat /\ comp.ct \in {"earning", "deduction"} /\ paid \in Nat
  BY DEF Components
<1>2. p \in Nat
  BY <1>1, PartIsNat
<1>3. a * working < PartUnit =>
        p \in 0..a /\ 2 * (p * working - a * paid) \in -working..working
  <2> SUFFICES ASSUME a * working < PartUnit
               PROVE  p \in 0..a /\ 2 * (p * working - a * paid) \in -working..working
    OBVIOUS
  <2>1. PartUnit \in Nat \ {0} /\ paid <= working
    BY UnitsAssumption
  <2>2. p = Money(a * Money(paid * PartUnit, working), PartUnit)
    BY DEF Part
  <2> HIDE DEF a, p
  <2> QED
    BY <1>1, <2>1, <2>2, PartIsClose
<1> HIDE DEF p
<1>4. CASE comp.ct = "earning"
  <2>1. ComponentLine(comp, paid, working)
          = [name |-> comp.name, ct |-> comp.ct, amount |-> p, ref |-> NoRef]
    BY <1>4 DEF ComponentLine, Line, p
  <2> QED
    BY <1>1, <1>2, <1>3, <1>4, <2>1 DEF LinesOn
<1>5. CASE comp.ct = "deduction"
  <2>1. ComponentLine(comp, paid, working)
          = [name |-> comp.name, ct |-> comp.ct, amount |-> a, ref |-> NoRef]
    BY <1>5 DEF ComponentLine, Line
  <2> QED
    BY <1>1, <1>5, <2>1 DEF LinesOn
<1> QED
  BY <1>1, <1>4, <1>5

\* The lines: those of the structure, then the statutory ones.
LEMMA PricedLinesAre ==
  ASSUME NEW c \in Structures, NEW R, NoRef \in R, NEW L \in Seq(LinesOn(R)),
         NEW working \in Int, NEW unpaid \in Int, working > 0
  PROVE  LET all == PricedLines(c, L, working, unpaid)
         IN  /\ all \in Seq(LinesOn(R))
             /\ Len(c) \in Nat /\ Len(c) <= Len(all)
             /\ \A i \in DOMAIN c :
                  /\ c[i] \in Components
                  /\ all[i] = ComponentLine(c[i], working - UnpaidDays(unpaid, working),
                                            working)
<1> DEFINE paid == working - UnpaidDays(unpaid, working)
           own == [i \in DOMAIN c |-> ComponentLine(c[i], paid, working)]
<1>1. paid \in 0..working /\ working \in Nat \ {0}
  <2>1. paid \in 0..working
    BY PaidDays
  <2> HIDE DEF paid
  <2> QED
    BY <2>1
<1>2. c \in Seq(Components)
  BY DeskAssumption
<1>3. Len(c) \in Nat /\ DOMAIN c = 1..Len(c) /\ \A i \in DOMAIN c : c[i] \in Components
  BY <1>2, LenProperties, ElementOfSeq
<1>4. \A i \in DOMAIN c : own[i] \in LinesOn(R)
  <2> SUFFICES ASSUME NEW i \in DOMAIN c
               PROVE  ComponentLine(c[i], paid, working) \in LinesOn(R)
    OBVIOUS
  <2>1. c[i] \in Components /\ c[i].name \in LineNames
    BY <1>3 DEF LineNames
  <2> HIDE DEF paid
  <2> QED
    BY <1>1, <2>1, ComponentPays
<1>5. own \in Seq(LinesOn(R)) /\ Len(own) = Len(c)
  <2>1. own = [i \in 1..Len(c) |-> own[i]]
    BY <1>3
  <2> HIDE DEF own
  <2> QED
    BY <1>3, <1>4, <2>1
<1>6. /\ own \o L \in Seq(LinesOn(R)) /\ Len(own \o L) = Len(c) + Len(L)
      /\ \A i \in 1..Len(c) : (own \o L)[i] = own[i]
      /\ Len(L) \in Nat
  <2>1. Len(L) \in Nat
    BY LenProperties
  <2> HIDE DEF own
  <2>2. /\ own \o L \in Seq(LinesOn(R)) /\ Len(own \o L) = Len(own) + Len(L)
        /\ \A i \in 1..(Len(own) + Len(L)) :
             (own \o L)[i] = IF i <= Len(own) THEN own[i] ELSE L[i - Len(own)]
    BY <1>5, ConcatProperties
  <2>3. \A i \in 1..Len(c) : i \in 1..(Len(own) + Len(L)) /\ i <= Len(own)
    BY <1>3, <1>5, <2>1
  <2> QED
    BY <1>5, <2>1, <2>2, <2>3
<1>7. PricedLines(c, L, working, unpaid) = own \o L
  BY Zenon DEF PricedLines
<1>8. \A i \in DOMAIN c : own[i] = ComponentLine(c[i], paid, working)
  OBVIOUS
<1> HIDE DEF own, paid
<1>9. Len(c) <= Len(own \o L)
  BY <1>3, <1>6
<1>10. \A i \in DOMAIN c : (own \o L)[i] = ComponentLine(c[i], paid, working)
  BY <1>3, <1>6, <1>8
<1> QED
  BY <1>3, <1>6, <1>7, <1>9, <1>10 DEF paid

\* The amounts of one kind of line.
SumOf(lines, ct) ==
  SumFunction([i \in DOMAIN lines |-> IF lines[i].ct = ct THEN lines[i].amount ELSE 0])

\* A total over the lines of one kind.
LEMMA TotalsByKind ==
  ASSUME NEW R, NEW lines \in Seq(LinesOn(R))
  PROVE  /\ Total(lines, Earnings(lines)) = SumOf(lines, "earning")
         /\ Total(lines, Deductions(lines)) = SumOf(lines, "deduction")
         /\ SumOf(lines, "earning") \in Nat /\ SumOf(lines, "deduction") \in Nat
<1> DEFINE D == DOMAIN lines
           f(ct) == [i \in D |-> IF lines[i].ct = ct THEN lines[i].amount ELSE 0]
           T(ct) == {i \in D : lines[i].ct = ct}
<1>1. Len(lines) \in Nat /\ D = 1..Len(lines)
  BY LenProperties
<1>2. \A i \in D : lines[i].amount \in Nat /\ lines[i].ct \in {"earning", "deduction"}
  <2>1. \A i \in D : lines[i] \in LinesOn(R)
    BY <1>1, ElementOfSeq
  <2> QED
    BY <2>1 DEF LinesOn
<1>3. IsFiniteSet(D)
  <2> DEFINE n == Len(lines)
  <2>1. 1 \in Int /\ n \in Int
    BY <1>1
  <2> HIDE DEF n
  <2>2. IsFiniteSet(1..n)
    BY <2>1, FS_Interval
  <2> QED
    BY <1>1, <2>2 DEF n
<1>4. ASSUME NEW ct
      PROVE  /\ SumFunction(f(ct)) \in Nat
             /\ SumFunction(f(ct)) = SumFunction([i \in T(ct) |-> lines[i].amount])
  <2> HIDE DEF D
  <2>1. /\ f(ct) \in [D -> Nat] /\ f(ct) \in [D -> Int]
        /\ T(ct) \in SUBSET D /\ \A i \in D \ T(ct) : f(ct)[i] = 0
    BY <1>2
  <2>2. Restrict(f(ct), T(ct)) = [i \in T(ct) |-> lines[i].amount]
    BY DEF Restrict
  <2> DEFINE g == f(ct)
             U == T(ct)
  <2>3. SumFunction(g) \in Nat /\ SumFunction(g) = SumFunction(Restrict(g, U))
    <3>1. /\ g \in [D -> Nat] /\ g \in [D -> Int] /\ U \in SUBSET D
          /\ \A i \in D \ U : g[i] = 0
      BY <2>1
    <3> HIDE DEF g, U
    <3> QED
      BY <1>3, <3>1, SumIsInt, SumSelected
  <2> QED
    BY <2>2, <2>3
<1>5. Earnings(lines) = T("earning") /\ Deductions(lines) = T("deduction")
  BY <1>2 DEF Earnings, Deductions
<1>6. \A ct : SumOf(lines, ct) = SumFunction(f(ct))
  BY Zenon DEF SumOf
<1>7. \A ct : Total(lines, T(ct)) = SumFunction([i \in T(ct) |-> lines[i].amount])
  BY Zenon DEF Total
<1> HIDE DEF f, T
<1> QED
  BY <1>4, <1>5, <1>6, <1>7

-------------------------------------------------------------------------------
(* The slip a request makes *)

\* What a slip is, with ref for the approval behind its approved hours.
SlipMade(s, ref) ==
  /\ s.lines \in Seq(LinesOn({NoRef, ref}))
  /\ {s.gross, s.deductions, s.overtime} \subseteq Nat
  /\ s.net >= 0 /\ s.gross = s.deductions + s.net
  /\ s.gross = SumOf(s.lines, "earning") /\ s.deductions = SumOf(s.lines, "deduction")
  /\ QuotientsSuffice =>
       \E c \in Structures :
         /\ Len(c) <= Len(s.lines)
         /\ \A i \in DOMAIN c :
              /\ s.lines[i].name = c[i].name
              /\ IF c[i].ct = "deduction" THEN s.lines[i].amount = c[i].amount
                 ELSE /\ s.lines[i].amount \in 0..c[i].amount
                      /\ 2 * (s.lines[i].amount * s.working
                                - c[i].amount * (s.working - s.unpaid))
                           \in -s.working..s.working

-------------------------------------------------------------------------------
(* The inductive invariant: what DeskInv says of where a request's data are    *)
(* from, and here what they are                                                *)

\* The tables as a world, and every set of the law one that may come in.
TablesNow == [run |-> run, law |-> law, facts |-> facts, structure |-> structure,
        minutes |-> minutes, sheet |-> sheet, approvals |-> approvals]
LawsTyped ==
  WorldTyped(TablesNow) /\ \A t \in Tables : \A d \in DOMAIN law[t] : law[t][d] \in SetsOf(t)

Ids == {a.id : a \in approvals}
OwnedBy(id, e) == id \in Ids /\ \A a \in approvals : a.id = id => a.employee = e

LawHeld(r) == \A t \in DOMAIN r.seen : ReadFrom(t, r.seen[t])
InHeld(r) == r.in.months \in Int
BaseHeld(r) == r.base \in Nat \ {0}
ClockHeld(r) ==
  IsStretches(r.clock) /\ StretchesPriceable(r.clock, r.base, r.seen.overtime)
HoursHeld(r) ==
  \/ r.approval = NoRef /\ r.hours = <<>>
  \/ /\ OwnedBy(r.approval, r.order.employee)
     /\ IsStretches(r.hours) /\ StretchesPriceable(r.hours, r.base, r.seen.overtime)
WorkHeld(r) ==
  /\ KnownTier(r.in) /\ KnownMethod(r.in)
  /\ Computable(r.in, r.base, r.order.risk, r.seen)
SlipHeld(r) ==
  \E c \in Structures :
    /\ Priceable(c, r.statutory, r.order.working)
    /\ r.slip = Noted(Priced(c, r.statutory, r.order.working, r.order.unpaid),
                      r.clock, r.in)
    /\ r.slip.net >= 0

ReqPays ==
  /\ ~At("idle") => req.order \in Orders
  /\ "seen" \in DOMAIN req => req.at \in FromLaw /\ LawHeld(req)
  /\ "statutory" \in DOMAIN req => req.at \in FromRecheck
  /\ req.at \in FromBase => InHeld(req)
  /\ req.at \in FromClock => BaseHeld(req)
  /\ req.at \in FromApproval => ClockHeld(req)
  /\ At("hours") => OwnedBy(req.approval, req.order.employee)
  /\ req.at \in FromAssemble => HoursHeld(req)
  /\ req.at \in FromRecheck => WorkHeld(req)
  /\ At("insert") => SlipHeld(req)

SlipsPay ==
  /\ DOMAIN slips \subseteq Employees
  /\ \A e \in DOMAIN slips :
       \E ref \in {NoRef} \cup Ids :
         /\ SlipMade(slips[e], ref)
         /\ ref # NoRef => OwnedBy(ref, e) /\ stamp # NoOne
  /\ stamp # NoOne => \A a \in approvals : a.id = stamp => a.employee \in DOMAIN slips

PayInv == LawsTyped /\ ReqPays /\ SlipsPay

-------------------------------------------------------------------------------
(* What pricing makes *)

\* What is noted on a slip leaves its amounts alone.
LEMMA NotedKeeps ==
  ASSUME NEW p, DOMAIN p = {"lines", "working", "gross", "deductions", "net", "unpaid"},
         NEW clock, NEW in
  PROVE  LET s == Noted(p, clock, in)
         IN  /\ s.lines = p.lines /\ s.working = p.working /\ s.gross = p.gross
             /\ s.deductions = p.deductions /\ s.net = p.net /\ s.unpaid = p.unpaid
             /\ s.overtime = HoursOf(clock)
<1> DEFINE g == [overtime |-> HoursOf(clock),
                 method |-> IF in.ter = "brackets" THEN "npwp_brackets" ELSE in.ter]
<1>1. DOMAIN g = {"overtime", "method"} /\ g.overtime = HoursOf(clock)
  OBVIOUS
<1>2. Noted(p, clock, in) = With(p, g)
  BY Zenon DEF Noted
<1> HIDE DEF g
<1> QED
  BY <1>1, <1>2 DEF With

\* payroll_write_service.rs:590: any slip that is priced has the lines of its
\* structure, paid for the days that count, and adds up.
LEMMA PricingMakes ==
  ASSUME NEW ref, NEW c \in Structures, NEW L \in Seq(LinesOn({NoRef, ref})),
         NEW o \in Orders, Priceable(c, L, o.working),
         NEW clock, IsStretches(clock), NEW in,
         NEW s, s = Noted(Priced(c, L, o.working, o.unpaid), clock, in), s.net >= 0
  PROVE  SlipMade(s, ref)
<1> DEFINE working == o.working
           unpaid == o.unpaid
           p == Priced(c, L, working, unpaid)
           lines == PricedLines(c, L, working, unpaid)
           R == {NoRef, ref}
           n == UnpaidDays(unpaid, working)
           paid == working - n
<1>0. working \in Int /\ unpaid \in Int /\ Priceable(c, L, working)
  BY DeskAssumption
<1> HIDE DEF working, unpaid
<1>1. /\ p.lines = lines /\ p.working = working /\ p.unpaid = n
      /\ p.gross = Total(lines, Earnings(lines))
      /\ p.deductions = Total(lines, Deductions(lines))
      /\ p.net = p.gross - p.deductions
      /\ DOMAIN p = {"lines", "working", "gross", "deductions", "net", "unpaid"}
  BY DEF Priced
<1>2. /\ s.lines = p.lines /\ s.working = p.working /\ s.gross = p.gross
      /\ s.deductions = p.deductions /\ s.net = p.net /\ s.unpaid = p.unpaid
      /\ s.overtime = HoursOf(clock)
  <2> HIDE DEF p
  <2> QED
    BY <1>1, NotedKeeps DEF p, working, unpaid
<1>3. working > 0 /\ NoRef \in R
  BY <1>0 DEF Priceable
<1>4. /\ lines \in Seq(LinesOn(R))
      /\ Len(c) \in Nat /\ Len(c) <= Len(lines)
      /\ \A i \in DOMAIN c :
           c[i] \in Components /\ lines[i] = ComponentLine(c[i], paid, working)
  <2> HIDE DEF R, paid, lines
  <2> QED
    BY <1>0, <1>3, PricedLinesAre DEF R, paid, lines
<1>5. HoursOf(clock) \in Nat
  <2>1. IsFiniteSet(DOMAIN clock) /\ clock \in [DOMAIN clock -> Nat \ {0}]
    <3>1. clock = [d \in DOMAIN clock |-> clock[d]]
      BY DEF IsStretches
    <3> QED
      BY <3>1 DEF IsStretches
  <2> QED
    BY <2>1, SumAboveNothing DEF HoursOf
<1>6. paid \in 0..working /\ working \in Nat \ {0}
  <2>1. paid \in 0..working
    BY <1>0, <1>3, PaidDays
  <2> HIDE DEF paid
  <2> QED
    BY <1>0, <1>3, <2>1
<1>7. n \in Int /\ paid = working - n
  <2>1. n \in 0..working
    BY <1>0, <1>3, PaidDays
  <2> HIDE DEF n
  <2> QED
    BY <1>0, <2>1 DEF paid
<1> HIDE DEF p, lines, R, n, paid
<1>8. /\ Total(lines, Earnings(lines)) = SumOf(lines, "earning")
      /\ Total(lines, Deductions(lines)) = SumOf(lines, "deduction")
      /\ SumOf(lines, "earning") \in Nat /\ SumOf(lines, "deduction") \in Nat
  BY <1>4, TotalsByKind
<1>9. /\ s.gross = SumOf(lines, "earning") /\ s.deductions = SumOf(lines, "deduction")
      /\ s.gross \in Nat /\ s.deductions \in Nat /\ s.overtime \in Nat
      /\ s.gross = s.deductions + s.net
  BY <1>1, <1>2, <1>5, <1>8
<1>10. ASSUME QuotientsSuffice, NEW i \in DOMAIN c,
              c[i].amount * working < PartUnit
       PROVE  /\ lines[i].name = c[i].name
              /\ IF c[i].ct = "deduction" THEN lines[i].amount = c[i].amount
                 ELSE /\ lines[i].amount \in 0..c[i].amount
                      /\ 2 * (lines[i].amount * working - c[i].amount * paid)
                           \in -working..working
  <2> DEFINE comp == c[i]
  <2>1. comp \in Components /\ comp.name \in LineNames
    BY <1>4 DEF LineNames
  <2>2. lines[i] = ComponentLine(comp, paid, working) /\ comp.amount * working < PartUnit
    BY <1>4, <1>10
  <2> HIDE DEF comp
  <2>3. LET l == ComponentLine(comp, paid, working)
        IN  /\ l.name = comp.name
            /\ comp.ct = "deduction" => l.amount = comp.amount
            /\ comp.ct # "deduction" =>
                 /\ l.amount \in 0..comp.amount
                 /\ 2 * (l.amount * working - comp.amount * paid) \in -working..working
    BY <1>3, <1>6, <2>1, <2>2, ComponentPays
  <2> QED
    BY <2>2, <2>3 DEF comp
<1>11. ASSUME QuotientsSuffice, NEW i \in DOMAIN c
       PROVE  c[i].amount * working < PartUnit
  BY <1>11 DEF QuotientsSuffice, working
<1>12. ASSUME QuotientsSuffice
       PROVE  /\ Len(c) <= Len(s.lines)
              /\ \A i \in DOMAIN c :
                   /\ s.lines[i].name = c[i].name
                   /\ IF c[i].ct = "deduction" THEN s.lines[i].amount = c[i].amount
                      ELSE /\ s.lines[i].amount \in 0..c[i].amount
                           /\ 2 * (s.lines[i].amount * s.working
                                     - c[i].amount * (s.working - s.unpaid))
                                \in -s.working..s.working
  <2>1. /\ s.lines = lines /\ s.working = working /\ s.working - s.unpaid = paid
        /\ Len(c) <= Len(lines)
    BY <1>1, <1>2, <1>4, <1>7
  <2>2. \A i \in DOMAIN c :
          /\ lines[i].name = c[i].name
          /\ IF c[i].ct = "deduction" THEN lines[i].amount = c[i].amount
             ELSE /\ lines[i].amount \in 0..c[i].amount
                  /\ 2 * (lines[i].amount * working - c[i].amount * paid)
                       \in -working..working
    BY <1>10, <1>11, <1>12
  <2> QED
    BY <2>1, <2>2
<1>13. s.lines \in Seq(LinesOn(R)) /\ s.lines = lines
  BY <1>1, <1>2, <1>4
<1> QED
  BY <1>9, <1>12, <1>13 DEF SlipMade, R

\* No hours pay nothing.
LEMMA NoStretches ==
  ASSUME NEW base, NEW bands
  PROVE  /\ IsStretches(<<>>) /\ StretchesPriceable(<<>>, base, bands)
         /\ StretchesPay(<<>>, base, bands) = 0
<1>1. DOMAIN <<>> = {} /\ <<>> = [d \in {} |-> 0]
  OBVIOUS
<1>2. IsStretches(<<>>) /\ StretchesPriceable(<<>>, base, bands)
  BY <1>1, FS_EmptySet DEF IsStretches, StretchesPriceable
<1> DEFINE f == [d \in DOMAIN <<>> |-> OvertimePay(<<>>[d], base, bands)]
<1>3. StretchesPay(<<>>, base, bands) = SumFunction(f) /\ DOMAIN f = {}
  BY <1>1, Zenon DEF StretchesPay
<1> HIDE DEF f
<1> QED
  BY <1>2, <1>3, SumEmpty

\* An approval on file has an id.
LEMMA OwnedIsNoBlank ==
  ASSUME LawsTyped, NEW id, NEW e, OwnedBy(id, e)
  PROVE  id \notin {NoOne, NoRef}
  BY DEF LawsTyped, WorldTyped, TablesNow, OwnedBy, Ids

\* Whatever a request holds when it has everything, its statutory lines are
\* typed, and pay and withhold what the calculations say.
LEMMA AssembledLines ==
  ASSUME LawsTyped, NEW r, LawRead(r.seen), InHeld(r), BaseHeld(r), ClockHeld(r),
         HoursHeld(r), WorkHeld(r)
  PROVE  /\ Statutory(r) \in Seq(LinesOn({NoRef, r.approval}))
         /\ LineAmount(Statutory(r), "PPh_21") = Withholding(r.in, r.base, r.seen)
         /\ LineAmount(Statutory(r), "Lembur_Overtime")
              = StretchesPay(r.clock, r.base, r.seen.overtime)
         /\ LineAmount(Statutory(r), "Lembur_disetujui")
              = StretchesPay(r.hours, r.base, r.seen.overtime)
         /\ IsStretches(r.hours)
         /\ StretchesPriceable(r.hours, r.base, r.seen.overtime)
<1> DEFINE law0 == r.seen
           bands == law0.overtime
<1>1. IsConfig("bpjs", law0.bpjs, Open) /\ bands \in Seq(BandRows)
  <2> HIDE DEF law0
  <2> QED
    BY TablesRead DEF law0
<1>2. r.in.months \in Int /\ r.base \in Nat \ {0} /\ r.base \in Nat
  BY DEF InHeld, BaseHeld
<1>3. Withholding(r.in, r.base, law0) \in Nat
  <2>1. /\ r.in.tier \in Tiers /\ r.in.ter \in Categories \cup {"brackets"}
        /\ Computable(r.in, r.base, r.order.risk, law0)
    BY DEF WorkHeld, KnownTier, KnownMethod
  <2>2. LawRead(law0)
    OBVIOUS
  <2> HIDE DEF law0
  <2> QED
    BY <1>2, <2>1, <2>2, WithholdingIsNat
<1>4. IsStretches(r.clock) /\ StretchesPay(r.clock, r.base, bands) \in Nat
  <2>1. IsStretches(r.clock) /\ StretchesPriceable(r.clock, r.base, bands)
    BY DEF ClockHeld
  <2> HIDE DEF bands
  <2> QED
    BY <1>1, <1>2, <2>1, StretchesPayIsNat
<1>5. /\ IsStretches(r.hours) /\ StretchesPriceable(r.hours, r.base, bands)
      /\ r.approval = NoRef => r.hours = <<>>
  <2>1. CASE r.approval = NoRef /\ r.hours = <<>>
    BY <2>1, NoStretches
  <2>2. CASE /\ OwnedBy(r.approval, r.order.employee)
             /\ IsStretches(r.hours) /\ StretchesPriceable(r.hours, r.base, bands)
    BY <2>2, OwnedIsNoBlank
  <2> QED
    BY <2>1, <2>2 DEF HoursHeld
<1>6. StretchesPay(r.hours, r.base, bands) \in Nat
  <2> HIDE DEF bands
  <2> QED
    BY <1>1, <1>2, <1>5, StretchesPayIsNat
<1> DEFINE base == r.base
           in == r.in
           clock == r.clock
           hours == r.hours
           approval == r.approval
           risk == r.order.risk
           L == StatutoryLines(in, base, clock, approval, hours, risk, law0)
<1>7. Statutory(r) = L
  BY DEF Statutory
<1>8. /\ in.months \in Int /\ base \in Nat
      /\ IsConfig("bpjs", law0.bpjs, Open) /\ Withholding(in, base, law0) \in Nat
      /\ IsStretches(clock) /\ StretchesPay(clock, base, law0.overtime) \in Nat
      /\ IsStretches(hours) /\ StretchesPay(hours, base, law0.overtime) \in Nat
      /\ approval = NoRef => hours = <<>>
  BY <1>1, <1>2, <1>3, <1>4, <1>5, <1>6
<1> HIDE DEF base, in, clock, hours, approval, risk, law0
<1>9. /\ L \in Seq(LinesOn({NoRef, approval}))
      /\ LineAmount(L, "PPh_21") = Withholding(in, base, law0)
      /\ LineAmount(L, "Lembur_Overtime") = StretchesPay(clock, base, law0.overtime)
      /\ LineAmount(L, "Lembur_disetujui") = StretchesPay(hours, base, law0.overtime)
  BY ONLY <1>8, StatutoryLinesAre, SMTT(40)
<1> QED
  BY <1>5, <1>7, <1>9 DEF base, in, clock, hours, approval, law0

-------------------------------------------------------------------------------
(* The tables stay what they are *)

\* The desk's tables have their types at first ...
LEMMA TablesInit == Init => LawsTyped
<1> SUFFICES ASSUME Init PROVE LawsTyped
  OBVIOUS
<1>1. PICK w \in Worlds :
        /\ run = w.run /\ law = w.law /\ facts = w.facts
        /\ structure = w.structure /\ minutes = w.minutes /\ sheet = w.sheet
        /\ approvals = w.approvals
  BY DEF Init
<1>2. WorldTyped(w)
  BY DeskAssumption
<1>3. WorldTyped(TablesNow)
  BY <1>1, <1>2 DEF WorldTyped, TablesNow
<1>4. ASSUME NEW t \in Tables, NEW d \in DOMAIN law[t]
      PROVE  law[t][d] \in SetsOf(t)
  <2> DEFINE S(v) == {v.law[t][x] : x \in DOMAIN v.law[t]}
  <2>1. law[t][d] \in S(w)
    BY <1>1
  <2>2. S(w) \subseteq SetsOf(t)
    BY Zenon DEF SetsOf
  <2> QED
    BY <2>1, <2>2
<1> QED
  BY <1>3, <1>4 DEF LawsTyped

\* The parts of LawsTyped.
RunTyped ==
  /\ {"status", "from", "to", "month", "expense"} \subseteq DOMAIN run
  /\ run.status \in {"draft", "closed"}
  /\ run.month \in Nat /\ {run.from, run.to} \subseteq Nat \cup {NoOne}
  /\ RunWindow(run) # {}
FactsTyped ==
  \A e \in Employees :
    e \in DOMAIN facts /\ (facts[e] # NoOne => facts[e].joined \in Int \cup {NoOne})
MinutesTyped == \A e \in Employees : e \in DOMAIN minutes /\ PerDay(minutes[e], run)
SheetTyped ==
  \A e \in Employees :
    /\ e \in DOMAIN sheet /\ {"claimed", "authorised"} \subseteq DOMAIN sheet[e]
    /\ PerDay(sheet[e].claimed, run) /\ PerDay(sheet[e].authorised, run)
ApprovalsTyped ==
  /\ IsFiniteSet(approvals)
  /\ \A a \in approvals :
       /\ {"id", "employee", "month", "status"} \subseteq DOMAIN a
       /\ a.id \notin {NoOne, NoRef} /\ a.month \in Nat
       /\ \A b \in approvals : b.id = a.id => b.employee = a.employee
LawTyped ==
  /\ DOMAIN law = Tables
  /\ \A t \in Tables :
       DOMAIN law[t] \subseteq Nat /\ \A d \in DOMAIN law[t] : law[t][d] \in SetsOf(t)

\* ... each of them ...
LEMMA TablesByPart ==
  LawsTyped <=> /\ RunTyped /\ structure \in Structures /\ FactsTyped /\ MinutesTyped
                  /\ SheetTyped /\ ApprovalsTyped /\ LawTyped
<1>1. /\ TablesNow.run = run /\ TablesNow.law = law /\ TablesNow.facts = facts
      /\ TablesNow.structure = structure /\ TablesNow.minutes = minutes /\ TablesNow.sheet = sheet
      /\ TablesNow.approvals = approvals
  BY DEF TablesNow
<1> QED
  BY <1>1 DEF LawsTyped, WorldTyped, RunTyped, FactsTyped, MinutesTyped,
       SheetTyped,
     ApprovalsTyped, LawTyped

\* ... when nothing changes them ...
LEMMA TablesStand == LawsTyped /\ UNCHANGED tables => LawsTyped'
  BY DEF LawsTyped, TablesNow, tables

\* ... or the law changes ...
LEMMA OfferedIsASet ==
  ASSUME NEW offer \in LawOffers
  PROVE  offer[3] \in SetsOf(offer[1])
<1>1. offer[3] \in Offered(offer[1])
  BY DEF Offered
<1>2. \A t : Offered(t) \subseteq SetsOf(t)
  BY DEF SetsOf
<1> QED
  BY <1>1, <1>2

\* ... or anything else somebody commits.
LEMMA TablesOthers ==
  ASSUME LawsTyped, Others
  PROVE  LawsTyped' /\ Ids \subseteq Ids'
         /\ \A a \in approvals' : \E b \in approvals :
              b.id = a.id /\ b.employee = a.employee
<1>0. /\ RunTyped /\ structure \in Structures /\ FactsTyped /\ MinutesTyped
      /\ SheetTyped /\ ApprovalsTyped /\ LawTyped
  BY TablesByPart
<1> DEFINE Goal == /\ LawsTyped' /\ Ids \subseteq Ids'
                   /\ \A a \in approvals' : \E b \in approvals :
                        b.id = a.id /\ b.employee = a.employee
<1>a. ASSUME UNCHANGED approvals PROVE Ids' = Ids /\ ApprovalsTyped'
               /\ \A a \in approvals' : \E b \in approvals :
                    b.id = a.id /\ b.employee = a.employee
  BY <1>0, <1>a DEF Ids, ApprovalsTyped
<1>b. UNCHANGED run => RunTyped'
  BY <1>0 DEF RunTyped
<1>c. UNCHANGED <<run, minutes>> => MinutesTyped'
  BY <1>0 DEF MinutesTyped
<1>d. UNCHANGED <<run, sheet>> => SheetTyped'
  BY <1>0 DEF SheetTyped
<1>e. UNCHANGED facts => FactsTyped'
  BY <1>0 DEF FactsTyped
<1>f. UNCHANGED law => LawTyped'
  BY <1>0 DEF LawTyped
<1>g. ASSUME RunTyped', structure' \in Structures, FactsTyped', MinutesTyped',
             SheetTyped', ApprovalsTyped', LawTyped'
      PROVE  LawsTyped'
  <2>1. /\ TablesNow'.run = run' /\ TablesNow'.law = law' /\ TablesNow'.facts = facts'
        /\ TablesNow'.structure = structure' /\ TablesNow'.minutes = minutes' /\ TablesNow'.sheet = sheet'
        /\ TablesNow'.approvals = approvals'
    BY DEF TablesNow
  <2> QED
    BY <1>g, <2>1 DEF LawsTyped, WorldTyped, RunTyped, FactsTyped, MinutesTyped,
       SheetTyped,
       ApprovalsTyped, LawTyped
<1>1. ASSUME NEW x \in LawOffers, PublishLaw(x[1], x[2], x[3]) PROVE Goal
  <2>1. x[1] \in Tables /\ x[2] \in Nat
    BY DeskAssumption
  <2>2. x[3] \in SetsOf(x[1])
    BY OfferedIsASet
  <2> DEFINE t == x[1]
             d == x[2]
             rows == x[3]
  <2>3. law' = [law EXCEPT ![t] = With(law[t], Just(d, rows))]
    BY <1>1 DEF PublishLaw
  <2> HIDE DEF t, d, rows
  <2>4. /\ DOMAIN law' = Tables /\ law'[t] = With(law[t], Just(d, rows))
        /\ \A u \in Tables \ {t} : law'[u] = law[u]
    BY <1>0, <2>1, <2>3 DEF LawTyped, t
  <2>5. /\ DOMAIN law'[t] = DOMAIN law[t] \cup {d}
        /\ \A y \in DOMAIN law'[t] : law'[t][y] = IF y = d THEN rows ELSE law[t][y]
    BY <2>4 DEF With, Just
  <2>6. LawTyped'
    BY <1>0, <2>1, <2>2, <2>4, <2>5 DEF LawTyped, t, d, rows
  <2> QED
    BY <1>0, <1>1, <1>a, <1>b, <1>c, <1>d, <1>e, <1>g, <2>6 DEF PublishLaw
<1>2. ASSUME NEW s \in Structures, ChangeStructure(s) PROVE Goal
  BY <1>2, <1>a, <1>b, <1>c, <1>d, <1>e, <1>f, <1>g DEF ChangeStructure
<1>3. ASSUME NEW a \in approvals, Review(a) PROVE Goal
  <2> DEFINE b == [a EXCEPT !.status = IF @ = "approved" THEN "pending" ELSE "approved"]
  <2>1. /\ b.id = a.id /\ b.employee = a.employee /\ b.month = a.month
        /\ DOMAIN b = DOMAIN a
    BY <1>0 DEF ApprovalsTyped
  <2>2. approvals' = (approvals \ {a}) \cup {b}
    BY <1>3 DEF Review
  <2> HIDE DEF b
  <2>3. IsFiniteSet(approvals')
    <3>1. IsFiniteSet(approvals \ {a})
      BY <1>0, FS_RemoveElement DEF ApprovalsTyped
    <3> QED
      BY <2>2, <3>1, FS_AddElement
  <2>4. ApprovalsTyped'
    BY <1>0, <2>1, <2>2, <2>3 DEF ApprovalsTyped
  <2>5. \A c \in approvals' : \E q \in approvals : q.id = c.id /\ q.employee = c.employee
    BY <2>1, <2>2
  <2>6. Ids \subseteq Ids'
    <3>1. \A q \in approvals : \E c \in approvals' : c.id = q.id
      BY <2>1, <2>2
    <3> QED
      BY <3>1 DEF Ids
  <2> QED
    BY <1>0, <1>3, <1>b, <1>c, <1>d, <1>e, <1>f, <1>g, <2>4, <2>5, <2>6 DEF Review
<1>4. ASSUME NEW e \in Employees, Dismiss(e) PROVE Goal
  <2>1. facts' = [facts EXCEPT ![e] = NoOne]
    BY <1>4 DEF Dismiss
  <2>2. FactsTyped'
    BY <1>0, <2>1 DEF FactsTyped
  <2> QED
    BY <1>0, <1>4, <1>a, <1>b, <1>c, <1>d, <1>f, <1>g, <2>2 DEF Dismiss
<1>5. ASSUME NEW e \in Employees, NEW d \in DOMAIN sheet[e].claimed, CorrectHours(e, d)
      PROVE  Goal
  <2>1. sheet' = [sheet EXCEPT ![e].claimed[d] = 0] /\ run' = run
    BY <1>5 DEF CorrectHours
  <2>2. /\ DOMAIN sheet' = DOMAIN sheet
        /\ \A x \in DOMAIN sheet : x # e => sheet'[x] = sheet[x]
        /\ DOMAIN sheet'[e] = DOMAIN sheet[e]
        /\ sheet'[e].authorised = sheet[e].authorised
        /\ DOMAIN sheet'[e].claimed = DOMAIN sheet[e].claimed
        /\ \A x \in DOMAIN sheet[e].claimed :
             sheet'[e].claimed[x] = IF x = d THEN 0 ELSE sheet[e].claimed[x]
    BY <1>0, <2>1 DEF SheetTyped
  <2>3. PerDay(sheet[e].claimed, run) => PerDay(sheet'[e].claimed, run')
    BY <2>1, <2>2 DEF PerDay
  <2>4. SheetTyped'
    BY <1>0, <2>1, <2>2, <2>3 DEF SheetTyped
  <2> QED
    BY <1>0, <1>5, <1>a, <1>b, <1>c, <1>e, <1>f, <1>g, <2>4 DEF CorrectHours
<1>6. CASE CloseRun
  <2>1. run' = [run EXCEPT !.status = "closed"]
    BY <1>6 DEF CloseRun
  <2>2. /\ DOMAIN run' = DOMAIN run /\ run'.status = "closed" /\ run'.month = run.month
        /\ run'.from = run.from /\ run'.to = run.to
    BY <1>0, <2>1 DEF RunTyped
  <2>3. RunWindow(run') = RunWindow(run)
    BY <2>2 DEF RunWindow
  <2>4. RunTyped'
    BY <1>0, <2>2, <2>3 DEF RunTyped
  <2>5. UNCHANGED <<minutes, sheet>>
    BY <1>6 DEF CloseRun
  <2>6. \A f : PerDay(f, run') <=> PerDay(f, run)
    BY <2>3 DEF PerDay
  <2>7. MinutesTyped' /\ SheetTyped'
    BY <1>0, <2>5, <2>6 DEF MinutesTyped, SheetTyped
  <2> QED
    BY <1>0, <1>6, <1>a, <1>e, <1>f, <1>g, <2>4, <2>7 DEF CloseRun
<1> QED
  BY <1>1, <1>2, <1>3, <1>4, <1>5, <1>6 DEF Others

-------------------------------------------------------------------------------
(* What a request finds in typed tables *)

\* What overtime is paid on is a number.
LEMMA BaseIsNat ==
  ASSUME NEW c \in Structures
  PROVE  BaseOf(c) \in Nat
<1> DEFINE E == Earnings(c)
           f == [i \in E |-> c[i].amount]
<1>1. c \in Seq(Components) /\ Len(c) \in Nat /\ DOMAIN c = 1..Len(c)
  BY DeskAssumption, LenProperties
<1>2. \A i \in DOMAIN c : c[i].amount \in Nat
  <2>1. \A i \in DOMAIN c : c[i] \in Components
    BY <1>1, ElementOfSeq
  <2> QED
    BY <2>1 DEF Components
<1>3. IsFiniteSet(E)
  <2> DEFINE n == Len(c)
  <2>1. 1 \in Int /\ n \in Int
    BY <1>1
  <2> HIDE DEF n
  <2>2. IsFiniteSet(1..n)
    BY <2>1, FS_Interval
  <2>3. E \subseteq 1..n
    BY <1>1 DEF Earnings, n
  <2> HIDE DEF E
  <2> QED
    BY <2>2, <2>3, FS_Subset
<1>4. f \in [E -> Nat] /\ f \in [E -> Int]
  BY <1>2 DEF Earnings
<1>5. BaseOf(c) = SumFunction(f)
  BY Zenon DEF BaseOf, Total
<1> HIDE DEF E, f
<1> QED
  BY <1>3, <1>4, <1>5, SumIsInt

\* A run has some days.
LEMMA WindowTyped ==
  ASSUME RunTyped
  PROVE  Window \in SUBSET Nat /\ IsFiniteSet(Window) /\ Window # {}
  BY WindowIsDays DEF RunTyped, Window

\* Stretches off the clock, ...
LEMMA ClockIsStretches ==
  ASSUME RunTyped, MinutesTyped, NEW e \in Employees
  PROVE  IsStretches(ClockStretches(minutes[e], Window))
<1> DEFINE D == {x \in Window : minutes[e][x] > 0}
           s == [d \in D |-> minutes[e][d]]
<1>1. IsFiniteSet(D)
  BY WindowTyped, FS_Subset
<1>2. \A d \in D : minutes[e][d] \in Nat \ {0}
  BY DEF MinutesTyped, PerDay, Window
<1>3. ClockStretches(minutes[e], Window) = s
  BY DEF ClockStretches
<1> QED
  BY <1>1, <1>2, <1>3 DEF IsStretches

\* ... and off the sheet.
LEMMA SheetIsStretches ==
  ASSUME RunTyped, SheetTyped, NEW e \in Employees
  PROVE  IsStretches(ApprovedStretches(sheet[e].claimed, sheet[e].authorised, Window))
<1> DEFINE c == sheet[e].claimed
           a == sheet[e].authorised
           paid(d) == IF c[d] > a[d] THEN a[d] ELSE c[d]
           D == {x \in Window : paid(x) > 0}
           s == [d \in D |-> paid(d)]
<1>1. IsFiniteSet(D)
  BY WindowTyped, FS_Subset
<1>2. \A d \in Window : c[d] \in Int /\ a[d] \in Int
  BY DEF SheetTyped, PerDay, Window
<1>3. \A d \in D : paid(d) \in Nat \ {0}
  BY <1>2
<1>4. ApprovedStretches(c, a, Window) = s
  BY DEF ApprovedStretches
<1> HIDE DEF c, a, paid
<1> QED
  BY <1>1, <1>3, <1>4 DEF IsStretches, c, a

\* An approval found for an employee is his.
LEMMA FoundIsOwned ==
  ASSUME ApprovalsTyped, NEW e, NEW window, Vouching(approvals, e, window) # {}
  PROVE  OwnedBy(LatestOf(Vouching(approvals, e, window)).id, e)
<1> DEFINE F == Vouching(approvals, e, window)
           M == {a.month : a \in F}
<1>1. F \subseteq approvals /\ F # {} /\ \A a \in F : a.employee = e
  BY DEF Vouching
<1> HIDE DEF F
<1>2. IsFiniteSet(F)
  BY <1>1, FS_Subset DEF ApprovalsTyped
<1>3. IsFiniteSet(M)
  <2> DEFINE f == [a \in F |-> a.month]
  <2>1. f \in Surjection(F, M)
    BY DEF Surjection
  <2> HIDE DEF M, f
  <2> QED
    BY <1>2, <2>1, FS_Surjection
<1>4. M \in SUBSET Int /\ M # {}
  BY <1>1 DEF ApprovalsTyped
<1>5. PICK m \in M : \A x \in M : x <= m
  <2> HIDE DEF M
  <2> QED
    BY <1>3, <1>4, FiniteHasLast
<1>6. \E a \in F : \A b \in F : b.month <= a.month
  BY <1>5
<1>7. LatestOf(F) \in F
  BY <1>6 DEF LatestOf
<1> DEFINE l == LatestOf(F)
<1>8. l \in approvals /\ l.employee = e
  BY <1>1, <1>7
<1> HIDE DEF l
<1> QED
  BY <1>8 DEF ApprovalsTyped, OwnedBy, Ids, l, F

-------------------------------------------------------------------------------
(* The statements of a request keep the invariant *)

\* The fields of f in a request stay those of the one before.
Same(K) == \A f \in K : f \in DOMAIN req /\ f \in DOMAIN req' /\ req'[f] = req[f]

\* What a request holds it keeps while it reads on.
LEMMA HeldPays ==
  ASSUME UNCHANGED approvals
  PROVE  /\ \A id, e : OwnedBy(id, e)' <=> OwnedBy(id, e)
         /\ Same({"seen"}) => (LawHeld(req) => LawHeld(req)')
         /\ Same({"in"}) => (InHeld(req) => InHeld(req)')
         /\ Same({"base"}) => (BaseHeld(req) => BaseHeld(req)')
         /\ Same({"clock", "base", "seen"}) => (ClockHeld(req) => ClockHeld(req)')
         /\ Same({"approval", "hours", "order", "base", "seen"}) =>
              (HoursHeld(req) => HoursHeld(req)')
         /\ Same({"in", "base", "order", "seen"}) => (WorkHeld(req) => WorkHeld(req)')
<1>1. \A id, e : OwnedBy(id, e)' <=> OwnedBy(id, e)
  BY DEF OwnedBy, Ids
<1>2. Same({"seen"}) => (LawHeld(req) => LawHeld(req)')
  BY DEF Same, LawHeld
<1>3. /\ Same({"in"}) => (InHeld(req) => InHeld(req)')
      /\ Same({"base"}) => (BaseHeld(req) => BaseHeld(req)')
  BY DEF Same, InHeld, BaseHeld
<1>4. Same({"clock", "base", "seen"}) => (ClockHeld(req) => ClockHeld(req)')
  BY DEF Same, ClockHeld
<1>5. Same({"approval", "hours", "order", "base", "seen"}) =>
        (HoursHeld(req) => HoursHeld(req)')
  BY <1>1 DEF Same, HoursHeld
<1>6. Same({"in", "base", "order", "seen"}) => (WorkHeld(req) => WorkHeld(req)')
  BY DEF Same, WorkHeld, KnownTier, KnownMethod
<1> QED
  BY <1>1, <1>2, <1>3, <1>4, <1>5, <1>6

\* What has been read where, in one place.
LEMMA HeldSoFar ==
  ASSUME DeskInv, PayInv
  PROVE  /\ "at" \in DOMAIN req
         /\ ~At("idle") => "order" \in DOMAIN req /\ req.order \in Orders
                           /\ req.order.employee \in Employees
         /\ req.at \in FromLaw => "seen" \in DOMAIN req /\ LawHeld(req)
         /\ req.at \in FromFacts => LawRead(req.seen)
         /\ req.at \in FromBase => "in" \in DOMAIN req /\ InHeld(req)
         /\ req.at \in FromClock => "base" \in DOMAIN req /\ BaseHeld(req)
         /\ req.at \in FromApproval => "clock" \in DOMAIN req /\ ClockHeld(req)
         /\ req.at \in FromHours => "approval" \in DOMAIN req
         /\ req.at \in FromAssemble => "hours" \in DOMAIN req /\ HoursHeld(req)
         /\ req.at \in FromRecheck => /\ "statutory" \in DOMAIN req /\ WorkHeld(req)
                                      /\ req.statutory = Statutory(req)
<1>1. /\ "at" \in DOMAIN req
      /\ ~At("idle") => "order" \in DOMAIN req
      /\ req.at \in FromLaw => "seen" \in DOMAIN req
      /\ req.at \in FromFacts => DOMAIN req.seen = Tables
  BY DEF DeskInv, At, LawOK, AllLaw
<1>2. /\ req.at \in FromBase => "in" \in DOMAIN req
      /\ req.at \in FromClock => "base" \in DOMAIN req
      /\ req.at \in FromApproval => "clock" \in DOMAIN req
      /\ req.at \in FromHours => "approval" \in DOMAIN req
      /\ req.at \in FromAssemble => "hours" \in DOMAIN req
      /\ req.at \in FromRecheck =>
           "statutory" \in DOMAIN req /\ req.statutory = Statutory(req)
  BY DEF DeskInv, InOK, BaseOK, ClockOK, ApprovalOK, HoursOK, StatutoryOK
<1>3. ReqPays
  BY DEF PayInv
<1>4. ~At("idle") => req.order \in Orders /\ req.order.employee \in Employees
  BY <1>3, DeskAssumption DEF ReqPays
<1>5. req.at \in FromLaw => LawHeld(req)
  BY <1>1, <1>3 DEF ReqPays
<1>6. req.at \in FromFacts => LawRead(req.seen)
  BY <1>1, <1>5 DEF LawHeld, LawRead, FromLaw
<1> QED
  BY <1>1, <1>2, <1>3, <1>4, <1>5, <1>6 DEF ReqPays

\* A request that ends, or that has not read anything yet.
LEMMA DonePays ==
  ASSUME LawsTyped', SlipsPay',
         \/ req' = Idle
         \/ /\ req'.at = "run" /\ req'.order \in Orders
            /\ "seen" \notin DOMAIN req' /\ "statutory" \notin DOMAIN req'
  PROVE  PayInv'
  BY DEF PayInv, ReqPays, Idle, At, FromLaw, FromFacts, FromBase, FromClock,
         FromApproval, FromHours, FromAssemble, FromRecheck

\* Slips pay what they paid while nobody touches them.
LEMMA SlipsStand ==
  ASSUME SlipsPay, UNCHANGED <<slips, stamp, approvals>>
  PROVE  SlipsPay'
  BY DEF SlipsPay, OwnedBy, Ids

\* One lemma for each step of a request and of the others.
LEMMA RefusePays ==
  ASSUME PayInv, req' = Idle, UNCHANGED <<tables, slips, stamp>>
  PROVE  PayInv'
  BY DonePays, SlipsStand, TablesStand DEF PayInv, tables

LEMMA BeginPays ==
  ASSUME PayInv, NEW kind, NEW o \in Orders, Begin(kind, o)
  PROVE  PayInv'
<1>1. LawsTyped' /\ SlipsPay'
  BY SlipsStand, TablesStand DEF PayInv, Begin, tables
<1>2. /\ req'.at = "run" /\ req'.order \in Orders
      /\ "seen" \notin DOMAIN req' /\ "statutory" \notin DOMAIN req'
  BY DEF Begin
<1> QED
  BY <1>1, <1>2, DonePays

\* A statement that is answered adds what it found, and keeps the rest.
LEMMA AnsweredPays ==
  ASSUME DeskInv, PayInv, ~At("idle"), NEW label, NEW found, Then(label, found),
         UNCHANGED <<tables, slips, stamp>>,
         "at" \notin DOMAIN found, "order" \notin DOMAIN found
  PROVE  /\ LawsTyped' /\ SlipsPay' /\ UNCHANGED approvals
         /\ DOMAIN req' = DOMAIN req \cup DOMAIN found
         /\ req'.at = label
         /\ \A f \in DOMAIN req : f # "at" /\ f \notin DOMAIN found => req'[f] = req[f]
         /\ \A f \in DOMAIN found : req'[f] = found[f]
         /\ req'.order = req.order /\ req'.order \in Orders
         /\ req.at \in FromLaw /\ "seen" \notin DOMAIN found => LawHeld(req)'
         /\ req.at \in FromBase /\ "in" \notin DOMAIN found => InHeld(req)'
         /\ req.at \in FromClock /\ "base" \notin DOMAIN found => BaseHeld(req)'
         /\ req.at \in FromApproval /\ DOMAIN found \cap {"clock", "base", "seen"} = {}
              => ClockHeld(req)'
         /\ req.at \in FromAssemble
            /\ DOMAIN found \cap {"approval", "hours", "base", "seen"} = {}
              => HoursHeld(req)'
         /\ req.at \in FromRecheck /\ DOMAIN found \cap {"in", "base", "seen"} = {}
              => WorkHeld(req)'
<1>1. /\ DOMAIN req' = DOMAIN req \cup DOMAIN found
      /\ req'.at = label
      /\ \A f \in DOMAIN req : f # "at" /\ f \notin DOMAIN found => req'[f] = req[f]
      /\ \A f \in DOMAIN found : req'[f] = found[f]
  BY HeldSoFar, SeenKeeps
<1>2. ASSUME NEW K \in SUBSET DOMAIN req, "at" \notin K, K \cap DOMAIN found = {}
      PROVE  Same(K)
  BY <1>1, <1>2 DEF Same
<1>3. req'.order = req.order /\ req'.order \in Orders
  BY <1>1, HeldSoFar
<1>4. LawsTyped' /\ SlipsPay' /\ UNCHANGED approvals
  BY SlipsStand, TablesStand DEF PayInv, tables
<1>5. /\ req.at \in FromLaw /\ "seen" \notin DOMAIN found => LawHeld(req)'
      /\ req.at \in FromBase /\ "in" \notin DOMAIN found => InHeld(req)'
      /\ req.at \in FromClock /\ "base" \notin DOMAIN found => BaseHeld(req)'
  BY <1>2, <1>4, HeldSoFar, HeldPays
<1>6. req.at \in FromApproval /\ DOMAIN found \cap {"clock", "base", "seen"} = {}
        => ClockHeld(req)'
  <2> SUFFICES ASSUME req.at \in FromApproval,
                      DOMAIN found \cap {"clock", "base", "seen"} = {}
               PROVE  ClockHeld(req)'
    OBVIOUS
  <2>1. {"clock", "base", "seen"} \subseteq DOMAIN req /\ ClockHeld(req)
    BY HeldSoFar DEF FromLaw, FromFacts, FromBase, FromClock
  <2>2. Same({"clock", "base", "seen"})
    BY <1>2, <2>1
  <2> QED
    BY <1>4, <2>1, <2>2, HeldPays
<1>7. req.at \in FromAssemble
      /\ DOMAIN found \cap {"approval", "hours", "base", "seen"} = {}
        => HoursHeld(req)'
  <2> SUFFICES ASSUME req.at \in FromAssemble,
                      DOMAIN found \cap {"approval", "hours", "base", "seen"} = {}
               PROVE  HoursHeld(req)'
    OBVIOUS
  <2>1. {"approval", "hours", "order", "base", "seen"} \subseteq DOMAIN req
        /\ HoursHeld(req)
    BY HeldSoFar
       DEF FromLaw, FromFacts, FromBase, FromClock, FromApproval, FromHours, At
  <2>2. Same({"approval", "hours", "order", "base", "seen"})
    BY <1>2, <2>1
  <2> QED
    BY <1>4, <2>1, <2>2, HeldPays
<1>8. req.at \in FromRecheck /\ DOMAIN found \cap {"in", "base", "seen"} = {}
        => WorkHeld(req)'
  <2> SUFFICES ASSUME req.at \in FromRecheck, DOMAIN found \cap {"in", "base", "seen"} = {}
               PROVE  WorkHeld(req)'
    OBVIOUS
  <2>1. {"in", "base", "order", "seen"} \subseteq DOMAIN req /\ WorkHeld(req)
    BY HeldSoFar
       DEF FromLaw, FromFacts, FromBase, FromClock, FromApproval, FromHours,
           FromAssemble, At
  <2>2. Same({"in", "base", "order", "seen"})
    BY <1>2, <2>1
  <2> QED
    BY <1>4, <2>1, <2>2, HeldPays
<1> QED
  BY <1>1, <1>3, <1>4, <1>5, <1>6, <1>7, <1>8

LEMMA RunPays ==
  ASSUME DeskInv, PayInv, ReadRun
  PROVE  PayInv'
<1> DEFINE found == [seen |-> <<>>]
<1>1. CASE Then("law", found) /\ Reads
  <2>1. /\ "at" \notin DOMAIN found /\ "order" \notin DOMAIN found
        /\ DOMAIN found = {"seen"} /\ found.seen = <<>> /\ ~At("idle")
        /\ "statutory" \notin DOMAIN req
    BY DEF ReadRun, At, PayInv, ReqPays, FromRecheck
  <2> HIDE DEF found
  <2>2. UNCHANGED <<tables, slips, stamp>>
    BY <1>1 DEF Reads
  <2>3. /\ LawsTyped' /\ SlipsPay' /\ DOMAIN req' = DOMAIN req \cup {"seen"}
        /\ req'.at = "law" /\ req'.seen = <<>> /\ req'.order \in Orders
    BY <1>1, <2>1, <2>2, AnsweredPays
  <2>4. LawHeld(req)'
    BY <2>3 DEF LawHeld
  <2> QED
    BY <2>1, <2>3, <2>4
       DEF PayInv, ReqPays, At, FromLaw, FromFacts, FromBase, FromClock,
           FromApproval, FromHours, FromAssemble, FromRecheck
<1>2. CASE Refuse /\ UNCHANGED <<tables, slips, stamp>>
  BY <1>2, RefusePays DEF Refuse
<1> QED
  BY <1>1, <1>2 DEF ReadRun

LEMMA LawPays ==
  ASSUME DeskInv, PayInv, ReadLaw
  PROVE  PayInv'
<1> DEFINE t == NextTable
           rows == RowsInForce(law[t], AsOf)
           label == IF t = "overtime" THEN "facts" ELSE "law"
<1>1. /\ At("law") /\ DOMAIN req.seen \in ReadSoFar /\ DeskTyped /\ LawHeld(req)
      /\ "statutory" \notin DOMAIN req /\ LawTyped
  BY HeldSoFar, TablesByPart
     DEF ReadLaw, DeskInv, PayInv, ReqPays, At, FromLaw, FromRecheck
<1>2. t \in Tables
  BY <1>1, TablesInOrder DEF NextTable
<1> HIDE DEF t
<1>3. CASE Refuse /\ UNCHANGED <<tables, slips, stamp>>
  BY <1>3, RefusePays DEF Refuse
<1>4. ASSUME DatesInForce(law[t], AsOf) # {}, Complete(t, rows, Open),
             NEW cfg \in Readings(t, rows),
             Then(label, [seen |-> With(req.seen, Just(t, cfg))]), Reads
      PROVE  PayInv'
  <2> DEFINE D == DatesInForce(law[t], AsOf)
             d == Max(D)
             found == [seen |-> With(req.seen, Just(t, cfg))]
  <2>1. D \in SUBSET (0..AsOf) /\ AsOf \in Nat /\ D \subseteq DOMAIN law[t]
    BY <1>1, <1>2 DEF DeskTyped, DatesInForce
  <2>2. d \in D
    <3> HIDE DEF D
    <3> QED
      BY <1>4, <2>1, LastUpTo DEF D
  <2>3. rows \in SetsOf(t)
    BY <1>1, <1>2, <2>1, <2>2 DEF RowsInForce, LawTyped
  <2>4. ReadFrom(t, cfg)
    BY <1>4, <2>3 DEF ReadFrom
  <2>5. /\ "at" \notin DOMAIN found /\ "order" \notin DOMAIN found
        /\ DOMAIN found = {"seen"} /\ found.seen = With(req.seen, Just(t, cfg))
    OBVIOUS
  <2>6. ~At("idle") /\ Then(label, found) /\ UNCHANGED <<tables, slips, stamp>>
    BY <1>1, <1>4 DEF At, Reads
  <2> HIDE DEF found
  <2>7. /\ LawsTyped' /\ SlipsPay' /\ DOMAIN req' = DOMAIN req \cup {"seen"}
        /\ req'.at = label /\ req'.seen = With(req.seen, Just(t, cfg))
        /\ req'.order \in Orders
    BY <2>5, <2>6, AnsweredPays
  <2>8. \A x \in DOMAIN req'.seen : ReadFrom(x, req'.seen[x])
    BY <1>1, <2>4, <2>7 DEF With, Just, LawHeld
  <2>9. LawHeld(req)'
    BY <2>8 DEF LawHeld
  <2> QED
    BY <1>1, <2>7, <2>9
       DEF PayInv, ReqPays, At, FromLaw, FromFacts, FromBase, FromClock,
           FromApproval, FromHours, FromAssemble, FromRecheck
<1> QED
  BY <1>3, <1>4 DEF ReadLaw, t

LEMMA FactsPays ==
  ASSUME DeskInv, PayInv, ReadFacts
  PROVE  PayInv'
<1> DEFINE e == req.order.employee
           f == facts[e]
           found == [in |-> FactsOf(f, run)]
<1>1. CASE f # NoOne /\ Then("base", found) /\ Reads
  <2>1. /\ "at" \notin DOMAIN found /\ "order" \notin DOMAIN found
        /\ DOMAIN found = {"in"} /\ found.in = FactsOf(f, run) /\ At("facts")
        /\ "statutory" \notin DOMAIN req
    BY DEF ReadFacts, At, PayInv, ReqPays, FromRecheck
  <2>2. ~At("idle") /\ req.at \in FromLaw /\ e \in Employees
    BY <2>1, HeldSoFar DEF At, FromLaw, FromFacts
  <2>3. RunTyped /\ FactsTyped
    BY TablesByPart DEF PayInv
  <2>4. found.in.months \in Int
    BY <1>1, <2>1, <2>2, <2>3, MonthAssumption DEF FactsOf, RunTyped, FactsTyped
  <2> HIDE DEF found
  <2>5. UNCHANGED <<tables, slips, stamp>>
    BY <1>1 DEF Reads
  <2>6. /\ LawsTyped' /\ SlipsPay' /\ UNCHANGED approvals
        /\ DOMAIN req' = DOMAIN req \cup {"in"}
        /\ req'.at = "base" /\ req'.in = found.in /\ req'.order \in Orders
        /\ LawHeld(req)'
    BY <1>1, <2>1, <2>2, <2>5, AnsweredPays
  <2>7. LawHeld(req)' /\ InHeld(req)'
    BY <2>4, <2>6 DEF InHeld
  <2> QED
    BY <2>1, <2>6, <2>7
       DEF PayInv, ReqPays, At, FromLaw, FromFacts, FromBase, FromClock,
           FromApproval, FromHours, FromAssemble, FromRecheck
<1>2. CASE Refuse /\ UNCHANGED <<tables, slips, stamp>>
  BY <1>2, RefusePays DEF Refuse
<1> QED
  BY <1>1, <1>2 DEF ReadFacts

LEMMA BasePays ==
  ASSUME DeskInv, PayInv, ReadBase
  PROVE  PayInv'
<1> DEFINE found == [base |-> BaseOf(structure)]
<1>1. CASE BaseOf(structure) > 0 /\ Then("clock", found) /\ Reads
  <2>1. /\ "at" \notin DOMAIN found /\ "order" \notin DOMAIN found
        /\ DOMAIN found = {"base"} /\ found.base = BaseOf(structure) /\ At("base")
        /\ "statutory" \notin DOMAIN req
    BY DEF ReadBase, At, PayInv, ReqPays, FromRecheck
  <2>2. ~At("idle") /\ req.at \in FromLaw /\ req.at \in FromBase
    BY <2>1 DEF At, FromLaw, FromFacts, FromBase
  <2>3. BaseOf(structure) \in Nat
    BY TablesByPart, BaseIsNat DEF PayInv
  <2>4. found.base \in Nat \ {0}
    BY <1>1, <2>1, <2>3
  <2> HIDE DEF found
  <2>5. UNCHANGED <<tables, slips, stamp>>
    BY <1>1 DEF Reads
  <2>6. /\ LawsTyped' /\ SlipsPay' /\ UNCHANGED approvals
        /\ DOMAIN req' = DOMAIN req \cup {"base"}
        /\ req'.at = "clock" /\ req'.base = found.base /\ req'.order \in Orders
        /\ LawHeld(req)' /\ InHeld(req)'
    BY <1>1, <2>1, <2>2, <2>5, AnsweredPays
  <2>7. BaseHeld(req)'
    BY <2>4, <2>6 DEF BaseHeld
  <2> QED
    BY <2>1, <2>6, <2>7
       DEF PayInv, ReqPays, At, FromLaw, FromFacts, FromBase, FromClock,
           FromApproval, FromHours, FromAssemble, FromRecheck
<1>2. CASE Refuse /\ UNCHANGED <<tables, slips, stamp>>
  BY <1>2, RefusePays DEF Refuse
<1> QED
  BY <1>1, <1>2 DEF ReadBase

LEMMA ClockPays ==
  ASSUME DeskInv, PayInv, ReadClock
  PROVE  PayInv'
<1> DEFINE hours == ClockStretches(minutes[req.order.employee], Window)
           found == [clock |-> hours]
<1>1. CASE StretchesPriceable(hours, req.base, req.seen.overtime)
           /\ Then("approval", found) /\ Reads
  <2>1. /\ "at" \notin DOMAIN found /\ "order" \notin DOMAIN found
        /\ DOMAIN found = {"clock"} /\ found.clock = hours /\ At("clock")
        /\ "statutory" \notin DOMAIN req
    BY DEF ReadClock, At, PayInv, ReqPays, FromRecheck
  <2>2. /\ ~At("idle") /\ req.at \in FromLaw /\ req.at \in FromBase
        /\ req.at \in FromClock
    BY <2>1 DEF At, FromLaw, FromFacts, FromBase, FromClock
  <2>3. /\ req.order.employee \in Employees
        /\ {"base", "seen"} \subseteq DOMAIN req
    BY <2>2, HeldSoFar
  <2>4. IsStretches(hours)
    BY <2>3, TablesByPart, ClockIsStretches DEF PayInv
  <2> HIDE DEF found, hours
  <2>5. UNCHANGED <<tables, slips, stamp>>
    BY <1>1 DEF Reads
  <2>6. /\ LawsTyped' /\ SlipsPay' /\ UNCHANGED approvals
        /\ DOMAIN req' = DOMAIN req \cup {"clock"}
        /\ req'.at = "approval" /\ req'.clock = hours /\ req'.order \in Orders
        /\ req'.base = req.base /\ req'.seen = req.seen
        /\ LawHeld(req)' /\ InHeld(req)' /\ BaseHeld(req)'
    BY <1>1, <2>1, <2>2, <2>3, <2>5, AnsweredPays
  <2>7. ClockHeld(req)'
    BY <1>1, <2>4, <2>6 DEF ClockHeld
  <2> QED
    BY <2>1, <2>6, <2>7
       DEF PayInv, ReqPays, At, FromLaw, FromFacts, FromBase, FromClock,
           FromApproval, FromHours, FromAssemble, FromRecheck
<1>2. CASE Refuse /\ UNCHANGED <<tables, slips, stamp>>
  BY <1>2, RefusePays DEF Refuse
<1> QED
  BY <1>1, <1>2 DEF ReadClock

LEMMA ApprovalPays ==
  ASSUME DeskInv, PayInv, ReadApproval
  PROVE  PayInv'
<1> DEFINE e == req.order.employee
           F == Vouching(approvals, e, Window)
<1>1. /\ At("approval") /\ ~At("idle") /\ req.at \in FromLaw /\ req.at \in FromBase
      /\ req.at \in FromClock /\ req.at \in FromApproval
      /\ "statutory" \notin DOMAIN req /\ UNCHANGED <<tables, slips, stamp>>
  BY DEF ReadApproval, Reads, At, PayInv, ReqPays, FromLaw, FromFacts, FromBase,
         FromClock, FromApproval, FromRecheck, FromAssemble, FromHours
<1>2. CASE F = {} /\ Then("assemble", [approval |-> NoRef, hours |-> <<>>])
  <2> DEFINE found == [approval |-> NoRef, hours |-> <<>>]
  <2>1. /\ DOMAIN found = {"approval", "hours"} /\ found.approval = NoRef
        /\ found.hours = <<>> /\ Then("assemble", found)
    BY <1>2
  <2> HIDE DEF found
  <2>2. /\ LawsTyped' /\ SlipsPay' /\ UNCHANGED approvals
        /\ DOMAIN req' = DOMAIN req \cup {"approval", "hours"}
        /\ req'.at = "assemble" /\ req'.approval = NoRef /\ req'.hours = <<>>
        /\ req'.order \in Orders
        /\ LawHeld(req)' /\ InHeld(req)' /\ BaseHeld(req)' /\ ClockHeld(req)'
    BY <1>1, <2>1, AnsweredPays
  <2>3. HoursHeld(req)'
    BY <2>2 DEF HoursHeld
  <2> QED
    BY <1>1, <2>2, <2>3
       DEF PayInv, ReqPays, At, FromLaw, FromFacts, FromBase, FromClock,
           FromApproval, FromHours, FromAssemble, FromRecheck
<1>3. CASE F # {} /\ Then("hours", [approval |-> LatestOf(F).id])
  <2> DEFINE found == [approval |-> LatestOf(F).id]
  <2>1. /\ DOMAIN found = {"approval"} /\ found.approval = LatestOf(F).id
        /\ Then("hours", found)
    BY <1>3
  <2>2. OwnedBy(found.approval, e)
    BY <1>3, <2>1, TablesByPart, FoundIsOwned DEF PayInv
  <2> HIDE DEF found
  <2>3. /\ LawsTyped' /\ SlipsPay' /\ UNCHANGED approvals
        /\ DOMAIN req' = DOMAIN req \cup {"approval"}
        /\ req'.at = "hours" /\ req'.approval = found.approval
        /\ req'.order \in Orders /\ req'.order = req.order
        /\ LawHeld(req)' /\ InHeld(req)' /\ BaseHeld(req)' /\ ClockHeld(req)'
    BY <1>1, <2>1, AnsweredPays
  <2>4. OwnedBy(req.approval, req.order.employee)'
    BY <2>2, <2>3 DEF OwnedBy, Ids
  <2> QED
    BY <1>1, <2>3, <2>4
       DEF PayInv, ReqPays, At, FromLaw, FromFacts, FromBase, FromClock,
           FromApproval, FromHours, FromAssemble, FromRecheck
<1> QED
  BY <1>2, <1>3 DEF ReadApproval

LEMMA HoursPays ==
  ASSUME DeskInv, PayInv, ReadHours
  PROVE  PayInv'
<1> DEFINE e == req.order.employee
           hours == ApprovedStretches(sheet[e].claimed, sheet[e].authorised, Window)
           found == [hours |-> hours]
<1>1. CASE StretchesPriceable(hours, req.base, req.seen.overtime)
           /\ Then("assemble", found) /\ Reads
  <2>1. /\ "at" \notin DOMAIN found /\ "order" \notin DOMAIN found
        /\ DOMAIN found = {"hours"} /\ found.hours = hours /\ At("hours")
        /\ "statutory" \notin DOMAIN req /\ OwnedBy(req.approval, req.order.employee)
    BY DEF ReadHours, At, PayInv, ReqPays, FromRecheck
  <2>2. /\ ~At("idle") /\ req.at \in FromLaw /\ req.at \in FromBase
        /\ req.at \in FromClock /\ req.at \in FromApproval /\ req.at \in FromHours
    BY <2>1
       DEF At, FromLaw, FromFacts, FromBase, FromClock, FromApproval, FromHours
  <2>3. e \in Employees /\ {"base", "seen", "approval"} \subseteq DOMAIN req
    BY <2>2, HeldSoFar
  <2>4. IsStretches(hours)
    BY <2>3, TablesByPart, SheetIsStretches DEF PayInv
  <2> HIDE DEF found, hours
  <2>5. UNCHANGED <<tables, slips, stamp>>
    BY <1>1 DEF Reads
  <2>6. /\ LawsTyped' /\ SlipsPay' /\ UNCHANGED approvals
        /\ DOMAIN req' = DOMAIN req \cup {"hours"}
        /\ req'.at = "assemble" /\ req'.hours = hours /\ req'.order \in Orders
        /\ req'.base = req.base /\ req'.seen = req.seen
        /\ req'.approval = req.approval /\ req'.order = req.order
        /\ LawHeld(req)' /\ InHeld(req)' /\ BaseHeld(req)' /\ ClockHeld(req)'
    BY <1>1, <2>1, <2>2, <2>3, <2>5, AnsweredPays
  <2>7. HoursHeld(req)'
    BY <1>1, <2>1, <2>4, <2>6 DEF HoursHeld, OwnedBy, Ids
  <2> QED
    BY <2>1, <2>6, <2>7
       DEF PayInv, ReqPays, At, FromLaw, FromFacts, FromBase, FromClock,
           FromApproval, FromHours, FromAssemble, FromRecheck
<1>2. CASE Refuse /\ UNCHANGED <<tables, slips, stamp>>
  BY <1>2, RefusePays DEF Refuse
<1> QED
  BY <1>1, <1>2 DEF ReadHours

LEMMA AssemblePays ==
  ASSUME DeskInv, PayInv, Assemble
  PROVE  PayInv'
<1> DEFINE label == IF req.kind = "save" THEN "recheck" ELSE "price"
           found == [statutory |-> Statutory(req)]
<1>1. CASE /\ KnownTier(req.in) /\ KnownMethod(req.in)
           /\ Computable(req.in, req.base, req.order.risk, req.seen)
           /\ Then(label, found) /\ Reads
  <2>1. /\ DOMAIN found = {"statutory"} /\ At("assemble") /\ WorkHeld(req)
    BY <1>1 DEF Assemble, WorkHeld
  <2>2. /\ ~At("idle") /\ req.at \in FromLaw /\ req.at \in FromBase
        /\ req.at \in FromClock /\ req.at \in FromApproval /\ req.at \in FromHours
        /\ req.at \in FromAssemble
    BY <2>1
       DEF At, FromLaw, FromFacts, FromBase, FromClock, FromApproval, FromHours,
           FromAssemble
  <2>3. {"in", "base", "order", "seen"} \subseteq DOMAIN req
    BY <2>2, HeldSoFar
  <2> HIDE DEF found
  <2>4. UNCHANGED <<tables, slips, stamp>>
    BY <1>1 DEF Reads
  <2>5. /\ LawsTyped' /\ SlipsPay' /\ UNCHANGED approvals
        /\ req'.at = label /\ req'.order \in Orders
        /\ req'.in = req.in /\ req'.base = req.base /\ req'.order = req.order
        /\ req'.seen = req.seen
        /\ LawHeld(req)' /\ InHeld(req)' /\ BaseHeld(req)' /\ ClockHeld(req)'
        /\ HoursHeld(req)'
    BY <1>1, <2>1, <2>2, <2>3, <2>4, AnsweredPays, ZenonT(60)
  <2>6. WorkHeld(req)'
    BY <2>1, <2>5 DEF WorkHeld, KnownTier, KnownMethod
  <2> QED
    BY <2>5, <2>6
       DEF PayInv, ReqPays, At, FromLaw, FromFacts, FromBase, FromClock,
           FromApproval, FromHours, FromAssemble, FromRecheck
<1>2. CASE Refuse /\ UNCHANGED <<tables, slips, stamp>>
  BY <1>2, RefusePays DEF Refuse
<1> QED
  BY <1>1, <1>2 DEF Assemble

\* With everything assembled, a statement takes nothing back.
LEMMA WorkPays ==
  ASSUME DeskInv, PayInv, req.at \in FromRecheck, NEW label \in {"price", "insert"},
         NEW found, Then(label, found), UNCHANGED <<tables, slips, stamp>>,
         DOMAIN found \subseteq {"slip"}, label = "insert" => SlipHeld(req)'
  PROVE  PayInv'
<1>1. /\ ~At("idle") /\ req.at \in FromLaw /\ req.at \in FromBase
      /\ req.at \in FromClock /\ req.at \in FromApproval /\ req.at \in FromAssemble
  BY DEF At, FromLaw, FromFacts, FromBase, FromClock, FromApproval, FromHours,
         FromAssemble, FromRecheck
<1>2. /\ LawsTyped' /\ SlipsPay' /\ req'.at = label /\ req'.order \in Orders
      /\ LawHeld(req)' /\ InHeld(req)' /\ BaseHeld(req)' /\ ClockHeld(req)'
      /\ HoursHeld(req)' /\ WorkHeld(req)'
  BY <1>1, AnsweredPays
<1> QED
  BY <1>2
     DEF PayInv, ReqPays, At, FromLaw, FromFacts, FromBase, FromClock,
         FromApproval, FromHours, FromAssemble, FromRecheck

LEMMA RecheckPays ==
  ASSUME DeskInv, PayInv, Recheck
  PROVE  PayInv'
<1>1. CASE Then("price", <<>>) /\ Reads
  <2>1. req.at \in FromRecheck /\ UNCHANGED <<tables, slips, stamp>>
    BY <1>1 DEF Recheck, At, FromRecheck, Reads
  <2>2. DOMAIN <<>> \subseteq {"slip"}
    OBVIOUS
  <2> QED
    BY <1>1, <2>1, <2>2, WorkPays
<1>2. CASE Refuse /\ UNCHANGED <<tables, slips, stamp>>
  BY <1>2, RefusePays DEF Refuse
<1> QED
  BY <1>1, <1>2 DEF Recheck

LEMMA PricePays ==
  ASSUME DeskInv, PayInv, Price
  PROVE  PayInv'
<1> DEFINE o == req.order
           found == [slip |-> SlipOf(req)]
<1>1. CASE /\ Priceable(structure, req.statutory, o.working) /\ SlipOf(req).net >= 0
           /\ Then("insert", found)
  <2>1. /\ req.at \in FromRecheck /\ UNCHANGED <<tables, slips, stamp>>
        /\ ~At("idle") /\ req.at \in FromLaw /\ req.at \in FromBase
        /\ req.at \in FromClock /\ req.at \in FromApproval
    BY DEF Price, At, FromRecheck, FromLaw, FromFacts, FromBase, FromClock,
           FromApproval, FromHours, FromAssemble
  <2>2. /\ DOMAIN found = {"slip"} /\ found.slip = SlipOf(req)
    OBVIOUS
  <2>3. {"in", "clock", "order", "statutory"} \subseteq DOMAIN req
    BY <2>1, HeldSoFar
  <2> HIDE DEF found
  <2>4. /\ req'.slip = SlipOf(req) /\ req'.in = req.in /\ req'.clock = req.clock
        /\ req'.order = req.order /\ req'.statutory = req.statutory
    BY <1>1, <2>1, <2>2, <2>3, AnsweredPays
  <2>5. structure \in Structures
    BY TablesByPart DEF PayInv
  <2>6. SlipHeld(req)'
    BY <1>1, <2>4, <2>5 DEF SlipHeld, SlipOf
  <2> QED
    BY <1>1, <2>1, <2>2, <2>6, WorkPays
<1>2. CASE req' = Idle
  BY <1>2, RefusePays DEF Price
<1> QED
  BY <1>1, <1>2 DEF Price, Refuse

\* payroll_write_service.rs:590, :567: what is saved is a slip as it should be,
\* on the approval whose hours it pays, and the stamp goes with it.
LEMMA InsertPays ==
  ASSUME DeskInv, PayInv, Insert
  PROVE  PayInv'
<1> DEFINE e == req.order.employee
           a == req.approval
           s == req.slip
<1>1. /\ At("insert") /\ req' = Idle /\ UNCHANGED tables /\ ~At("idle")
      /\ req.at \in FromAssemble /\ req.at \in FromFacts /\ req.at \in FromBase
      /\ req.at \in FromClock /\ req.at \in FromApproval /\ req.at \in FromRecheck
  BY DEF Insert, Refuse, At, FromFacts, FromBase, FromClock, FromApproval,
         FromHours, FromAssemble, FromRecheck
<1>2. LawsTyped' /\ UNCHANGED approvals
  BY <1>1, TablesStand DEF PayInv, tables
<1>3. CASE e \in DOMAIN slips
  BY <1>1, <1>3, RefusePays DEF Insert
<1>4. CASE e \notin DOMAIN slips
  <2>1. slips' = With(slips, Just(e, s)) /\ stamp' = IF a = NoRef THEN stamp ELSE a
    BY <1>4 DEF Insert
  <2>2. /\ DOMAIN slips' = DOMAIN slips \cup {e} /\ slips'[e] = s
        /\ \A x \in DOMAIN slips : slips'[x] = slips[x]
    BY <1>4, <2>1 DEF With, Just
  <2>3. /\ e \in Employees /\ req.order \in Orders /\ LawRead(req.seen) /\ InHeld(req)
        /\ BaseHeld(req) /\ ClockHeld(req) /\ HoursHeld(req) /\ WorkHeld(req)
        /\ req.statutory = Statutory(req) /\ LawsTyped
    BY <1>1, HeldSoFar DEF PayInv
  <2>4. a = NoRef \/ (OwnedBy(a, e) /\ a \notin {NoOne, NoRef})
    BY <2>3, OwnedIsNoBlank DEF HoursHeld
  <2>5. req.statutory \in Seq(LinesOn({NoRef, a}))
    BY <2>3, AssembledLines
  <2>6. IsStretches(req.clock)
    BY <2>3 DEF ClockHeld
  <2>7. SlipMade(s, a)
    <3>1. PICK c \in Structures :
            /\ Priceable(c, req.statutory, req.order.working)
            /\ s = Noted(Priced(c, req.statutory, req.order.working,
                                req.order.unpaid), req.clock, req.in)
            /\ s.net >= 0
      BY <1>1 DEF PayInv, ReqPays, SlipHeld
    <3> DEFINE L == req.statutory
               o == req.order
               clock == req.clock
               in == req.in
    <3>2. /\ L \in Seq(LinesOn({NoRef, a})) /\ o \in Orders
          /\ Priceable(c, L, o.working) /\ IsStretches(clock)
          /\ s = Noted(Priced(c, L, o.working, o.unpaid), clock, in) /\ s.net >= 0
      BY <2>3, <2>5, <2>6, <3>1
    <3> HIDE DEF L, o, clock, in, s, a
    <3> QED
      BY <3>2, PricingMakes
  <2> HIDE DEF e, a, s
  <2>8. /\ a # NoRef => stamp' # NoOne /\ stamp' = a
        /\ stamp # NoOne => stamp' # NoOne
        /\ stamp' = a \/ stamp' = stamp
        /\ a = NoRef => stamp' = stamp
    BY <2>1, <2>4
  <2>9. \A id, x : OwnedBy(id, x)' <=> OwnedBy(id, x)
    BY <1>2 DEF OwnedBy, Ids
  <2>10. SlipsPay /\ Ids' = Ids
    BY <1>2 DEF PayInv, Ids
  <2>11. ASSUME NEW x \in DOMAIN slips'
         PROVE  \E ref \in {NoRef} \cup Ids' :
                  /\ SlipMade(slips'[x], ref)
                  /\ ref # NoRef => OwnedBy(ref, x)' /\ stamp' # NoOne
    <3>1. CASE x = e
      <4>1. a \in {NoRef} \cup Ids
        BY <2>4 DEF OwnedBy
      <4> QED
        BY <2>2, <2>4, <2>7, <2>8, <2>9, <2>10, <3>1, <4>1
    <3>2. CASE x # e
      <4>1. PICK ref \in {NoRef} \cup Ids :
              /\ SlipMade(slips[x], ref)
              /\ ref # NoRef => OwnedBy(ref, x) /\ stamp # NoOne
        BY <2>2, <2>10, <3>2 DEF SlipsPay
      <4> QED
        BY <2>2, <2>8, <2>9, <2>10, <3>2, <4>1
    <3> QED
      BY <3>1, <3>2
  <2>12. stamp' # NoOne => \A b \in approvals' :
           b.id = stamp' => b.employee \in DOMAIN slips'
    BY <1>2, <2>2, <2>4, <2>8, <2>10 DEF SlipsPay, OwnedBy
  <2>13. DOMAIN slips' \subseteq Employees
    BY <2>2, <2>3, <2>10 DEF SlipsPay, e
  <2>14. SlipsPay'
    BY <2>11, <2>12, <2>13 DEF SlipsPay
  <2> QED
    BY <1>1, <1>2, <2>14, DonePays
<1> QED
  BY <1>3, <1>4

\* What others commit leaves the slips, and approvals whose they are.
LEMMA OthersPay ==
  ASSUME PayInv, Others
  PROVE  PayInv'
<1>1. UNCHANGED <<slips, stamp, req>>
  BY DEF Others, PublishLaw, ChangeStructure, Review, Dismiss, CorrectHours, CloseRun,
         Commits
<1>2. /\ LawsTyped' /\ Ids \subseteq Ids'
      /\ \A a \in approvals' :
           \E b \in approvals : b.id = a.id /\ b.employee = a.employee
  BY TablesOthers DEF PayInv
<1>3. \A id, e : OwnedBy(id, e) => OwnedBy(id, e)'
  BY <1>2 DEF OwnedBy
<1>4. ReqPays'
  <2>1. /\ (LawHeld(req) => LawHeld(req)')
        /\ (InHeld(req) => InHeld(req)') /\ (BaseHeld(req) => BaseHeld(req)')
        /\ (ClockHeld(req) => ClockHeld(req)') /\ (WorkHeld(req) => WorkHeld(req)')
    BY <1>1 DEF LawHeld, InHeld, BaseHeld, ClockHeld, WorkHeld, KnownTier, KnownMethod
  <2>2. HoursHeld(req) => HoursHeld(req)'
    BY <1>1, <1>3 DEF HoursHeld
  <2>3. (SlipHeld(req) => SlipHeld(req)')
    BY <1>1 DEF SlipHeld
  <2> QED
    BY <1>1, <1>3, <2>1, <2>2, <2>3 DEF PayInv, ReqPays, At
<1>5. SlipsPay'
  <2>1. SlipsPay
    BY DEF PayInv
  <2>2. ASSUME NEW e \in DOMAIN slips
        PROVE  \E ref \in {NoRef} \cup Ids' :
                 /\ SlipMade(slips[e], ref)
                 /\ ref # NoRef => OwnedBy(ref, e)' /\ stamp # NoOne
    BY <1>2, <1>3, <2>1 DEF SlipsPay
  <2>3. stamp # NoOne => \A a \in approvals' : a.id = stamp => a.employee \in DOMAIN slips
    BY <1>2, <2>1 DEF SlipsPay
  <2> QED
    BY <1>1, <2>1, <2>2, <2>3 DEF SlipsPay
<1> QED
  BY <1>2, <1>4, <1>5 DEF PayInv

LEMMA StutterPays ==
  ASSUME PayInv, UNCHANGED vars
  PROVE  PayInv'
<1>1. UNCHANGED <<tables, slips, stamp, req, approvals>>
  BY DEF vars, tables
<1>2. LawsTyped' /\ SlipsPay'
  BY <1>1, TablesStand, SlipsStand DEF PayInv
<1>3. \A id, e : OwnedBy(id, e) => OwnedBy(id, e)'
  BY <1>1 DEF OwnedBy, Ids
<1>4. /\ (LawHeld(req) => LawHeld(req)')
      /\ (InHeld(req) => InHeld(req)') /\ (BaseHeld(req) => BaseHeld(req)')
      /\ (ClockHeld(req) => ClockHeld(req)') /\ (WorkHeld(req) => WorkHeld(req)')
      /\ (SlipHeld(req) => SlipHeld(req)')
  BY <1>1 DEF LawHeld, InHeld, BaseHeld, ClockHeld, WorkHeld, KnownTier, KnownMethod,
              SlipHeld
<1>5. HoursHeld(req) => HoursHeld(req)'
  BY <1>1, <1>3 DEF HoursHeld
<1> QED
  BY <1>1, <1>2, <1>3, <1>4, <1>5 DEF PayInv, ReqPays, At

LEMMA PayInit == Init => PayInv
<1> SUFFICES ASSUME Init PROVE PayInv
  OBVIOUS
<1>1. LawsTyped
  BY TablesInit
<1>2. req = Idle /\ slips = <<>> /\ stamp = NoOne
  BY DEF Init
<1>3. DOMAIN slips = {}
  BY <1>2
<1>4. ReqPays
  BY <1>2 DEF ReqPays, Idle, At, FromLaw, FromFacts, FromBase, FromClock,
              FromApproval, FromHours, FromAssemble, FromRecheck
<1>5. SlipsPay
  BY <1>2, <1>3 DEF SlipsPay
<1> QED
  BY <1>1, <1>4, <1>5 DEF PayInv

LEMMA PayNext == DeskInv /\ PayInv /\ [Next]_vars => PayInv'
<1> SUFFICES ASSUME DeskInv, PayInv, [Next]_vars PROVE PayInv'
  OBVIOUS
<1>1. ASSUME NEW kind, NEW o \in Orders, Begin(kind, o) PROVE PayInv'
  BY <1>1, BeginPays
<1>2. CASE Step
  BY <1>2, RunPays, LawPays, FactsPays, BasePays, ClockPays, ApprovalPays, HoursPays,
     AssemblePays, RecheckPays, PricePays, InsertPays DEF Step
<1>3. CASE Others
  BY <1>3, OthersPay
<1>4. CASE UNCHANGED vars
  BY <1>4, StutterPays
<1> QED
  BY <1>1, <1>2, <1>3, <1>4 DEF Next

LEMMA PayInvariance == Spec => [](DeskInv /\ PayInv)
<1>1. Init => DeskInv /\ PayInv
  BY DeskInit, PayInit
<1>2. DeskInv /\ PayInv /\ [Next]_vars => (DeskInv /\ PayInv)'
  BY DeskNext, PayNext
<1> QED
  BY <1>1, <1>2, PTL DEF Spec

-------------------------------------------------------------------------------
(* The theorems *)

\* payroll_write_service.rs:567: hours a slip pays on an approval are vouched
\* for by that employee's own approval, and the run's stamp is the approval of
\* someone with a slip in it, whatever is reviewed in between.
THEOREM VouchedFor == Spec => []RunIsVouchedFor
<1>1. ASSUME PayInv PROVE RunIsVouchedFor
  <2> DEFINE Owners(id) == {a.employee : a \in {x \in approvals : x.id = id}}
  <2>1. SlipsPay
    BY <1>1 DEF PayInv
  <2>2. ASSUME NEW id, NEW e, OwnedBy(id, e) PROVE Owners(id) = {e}
    BY <2>2 DEF OwnedBy, Ids
  <2>3. ASSUME NEW e \in DOMAIN slips, NEW i \in DOMAIN slips[e].lines,
               slips[e].lines[i].ref # NoRef
        PROVE  Owners(slips[e].lines[i].ref) = {e} /\ stamp # NoOne
    <3> DEFINE L == slips[e].lines
    <3>1. PICK ref \in {NoRef} \cup Ids :
            /\ SlipMade(slips[e], ref)
            /\ ref # NoRef => OwnedBy(ref, e) /\ stamp # NoOne
      BY <2>1 DEF SlipsPay
    <3>2. L \in Seq(LinesOn({NoRef, ref})) /\ i \in DOMAIN L
      BY <2>3, <3>1 DEF SlipMade
    <3> HIDE DEF L
    <3>3. L[i] \in LinesOn({NoRef, ref})
      BY <3>2, ElementOfSeq
    <3>4. L[i].ref \in {NoRef, ref}
      BY <3>3 DEF LinesOn
    <3> HIDE DEF Owners
    <3> QED
      BY <2>2, <2>3, <3>1, <3>4 DEF L
  <2>4. stamp # NoOne => Owners(stamp) \subseteq DOMAIN slips
    BY <2>1 DEF SlipsPay
  <2> HIDE DEF Owners
  <2> QED
    BY <2>3, <2>4 DEF RunIsVouchedFor, Owners
<1> QED
  BY <1>1, PayInvariance, PTL

\* What a request with its statutory lines holds.
LEMMA AssembledHolds ==
  ASSUME DeskInv, PayInv, Assembled
  PROVE  /\ LawsTyped /\ LawRead(req.seen) /\ InHeld(req) /\ BaseHeld(req)
         /\ ClockHeld(req) /\ HoursHeld(req) /\ WorkHeld(req)
         /\ req.statutory = Statutory(req)
<1>1. /\ req.at \in FromAssemble /\ req.at \in FromFacts /\ req.at \in FromBase
      /\ req.at \in FromClock /\ req.at \in FromApproval /\ req.at \in FromRecheck
  BY DEF Assembled, PayInv, ReqPays, FromFacts, FromBase, FromClock, FromApproval,
         FromHours, FromAssemble, FromRecheck
<1> QED
  BY <1>1, HeldSoFar DEF PayInv

\* statutory_calcs.rs:658, :725: whatever the facts and whichever laws were
\* published, the tax withheld is what taxing the year unit by unit gives, or
\* the base at its effective rate, if the tables are sorted as they are seeded.
THEOREM TaxByUnit ==
  ASSUME LawIsSorted
  PROVE  Spec => []TaxIsPerUnit
<1>1. ASSUME DeskInv, PayInv, Assembled PROVE TaxIsPerUnit
  <2> DEFINE in == req.in
             law0 == req.seen
             gross == req.base
             tax == LineAmount(req.statutory, "PPh_21")
  <2>1. tax = Withholding(in, gross, law0)
    BY <1>1, AssembledHolds, AssembledLines
  <2>2. /\ LawRead(law0) /\ gross \in Nat /\ in.tier \in Tiers
        /\ in.ter \in Categories \cup {"brackets"}
        /\ Computable(in, gross, req.order.risk, law0)
    BY <1>1, AssembledHolds DEF WorkHeld, KnownTier, KnownMethod, BaseHeld
  <2>3. (IF in.npwp THEN 5 ELSE 6) = Extra(in.npwp)
    BY DEF Extra
  <2> HIDE DEF in, law0, gross, tax
  <2>4. CASE in.ter = "brackets"
    <3>1. GoodBrackets(law0.brackets) /\ law0.ptkp[in.tier] \in Nat
      BY <2>2, BracketsRead, TablesRead
    <3> DEFINE tier == in.tier
               npwp == in.npwp
    <3>2. law0.ptkp[tier] \in Nat
      BY <3>1
    <3> HIDE DEF tier, npwp
    <3>3. Nearest(Pph21(tier, npwp, gross, law0),
                  PerUnitTax(12 * gross - law0.ptkp[tier], law0.brackets)
                    * Extra(npwp),
                  RateUnit * 12 * 5)
      BY <2>2, <3>1, <3>2, BracketsWithhold
    <3>4. tax = Pph21(tier, npwp, gross, law0)
      BY <2>1, <2>4 DEF Withholding, tier, npwp
    <3>5. Nearest(tax,
                  PerUnitTax(12 * gross - law0.ptkp[in.tier], law0.brackets)
                    * (IF in.npwp THEN 5 ELSE 6),
                  RateUnit * 12 * 5)
      BY <2>3, <3>3, <3>4 DEF tier, npwp
    <3> QED
      BY <2>4, <3>5 DEF TaxIsPerUnit, in, law0, gross, tax
  <2>5. CASE in.ter # "brackets"
    <3> DEFINE ter == in.ter
               npwp == in.npwp
    <3>1. /\ IsConfig("bpjs", law0.bpjs, Open)
          /\ law0.ter[ter] \in Seq([lower : Int, rate : Nat])
          /\ Ascending(law0.ter[ter]) /\ HasTerRate(ter, gross, law0)
      BY <2>2, <2>5, TablesRead DEF Computable
    <3> HIDE DEF ter, npwp
    <3>2. Nearest(Pph21Ter(ter, npwp, gross, law0),
                  TerBase(gross, law0.bpjs)
                    * EffectiveRate(TerBase(gross, law0.bpjs), law0.ter[ter])
                    * Extra(npwp),
                  RateUnit * RateUnit * 5)
      BY <2>2, <3>1, TerWithholds
    <3>3. tax = Pph21Ter(ter, npwp, gross, law0)
      BY <2>1, <2>5 DEF Withholding, ter, npwp
    <3>4. Nearest(tax,
                  TerBase(gross, law0.bpjs)
                    * EffectiveRate(TerBase(gross, law0.bpjs), law0.ter[in.ter])
                    * (IF in.npwp THEN 5 ELSE 6),
                  RateUnit * RateUnit * 5)
      BY <2>3, <3>2, <3>3 DEF ter, npwp
    <3> QED
      BY <2>5, <3>4 DEF TaxIsPerUnit, in, law0, gross, tax
  <2> QED
    BY <2>4, <2>5
<1>2. DeskInv /\ PayInv => TaxIsPerUnit
  BY <1>1 DEF TaxIsPerUnit
<1> QED
  BY <1>2, PayInvariance, PTL

\* statutory_calcs.rs:880, payroll_write_service.rs:730: whatever hours the
\* clock and the approved timesheet have, the lines pay each unit of each day
\* at the multiplier of its hour, if the bands give every hour one.
THEOREM OvertimeByHour ==
  ASSUME HoursHaveOneBand
  PROVE  Spec => []OvertimeIsPerHour
<1>1. ASSUME DeskInv, PayInv, Assembled PROVE OvertimeIsPerHour
  <2> DEFINE base == req.base
             bands == req.seen.overtime
             L == req.statutory
  <2>1. /\ LineAmount(L, "Lembur_Overtime") = StretchesPay(req.clock, base, bands)
        /\ LineAmount(L, "Lembur_disetujui") = StretchesPay(req.hours, base, bands)
        /\ IsStretches(req.hours) /\ StretchesPriceable(req.hours, base, bands)
    BY <1>1, AssembledHolds, AssembledLines
  <2>2. IsStretches(req.clock) /\ StretchesPriceable(req.clock, base, bands)
    BY <1>1, AssembledHolds DEF ClockHeld
  <2>3. base \in Nat \ {0} /\ bands \in Seq(BandRows) /\ Apart(bands, Open)
    BY <1>1, AssembledHolds, TablesRead DEF BaseHeld
  <2> DEFINE clock == req.clock
             hours == req.hours
  <2>4. IsStretches(clock) /\ StretchesPriceable(clock, base, bands)
        /\ IsStretches(hours) /\ StretchesPriceable(hours, base, bands)
    BY <2>1, <2>2
  <2> HIDE DEF base, bands, clock, hours
  <2>5. /\ SumsTo(StretchesPay(clock, base, bands),
                  PerUnitOvertime(clock, base, bands), HourlyUnits)
        /\ SumsTo(StretchesPay(hours, base, bands),
                  PerUnitOvertime(hours, base, bands), HourlyUnits)
    BY <2>3, <2>4, StretchesByUnit
  <2>6. /\ SumsTo(LineAmount(L, "Lembur_Overtime"),
                  PerUnitOvertime(clock, base, bands), HourlyUnits)
        /\ SumsTo(LineAmount(L, "Lembur_disetujui"),
                  PerUnitOvertime(hours, base, bands), HourlyUnits)
    BY <2>1, <2>5 DEF clock, hours
  <2> QED
    BY <2>6 DEF OvertimeIsPerHour, HourlyUnits, base, bands, clock, hours
<1>2. DeskInv /\ PayInv => OvertimeIsPerHour
  BY <1>1 DEF OvertimeIsPerHour
<1> QED
  BY <1>2, PayInvariance, PTL

\* statutory_params_repository.rs:146, :178: what a request was given as the law
\* computes the tax of any tier and category, for any tables; nothing but a
\* risk class without a rate is found out afterwards.
THEOREM LawComputes == Spec => []LoadedLawComputes
<1>1. ASSUME DeskInv, PayInv, At("assemble"), req.order.risk \in DOMAIN req.seen.bpjs.jkk,
             NEW tier \in Tiers, NEW ter \in Categories \cup {"brackets"}
      PROVE  Computable([tier |-> tier, ter |-> ter], req.base, req.order.risk, req.seen)
  <2> DEFINE law0 == req.seen
             base == req.base
  <2>1. req.at \in FromFacts /\ req.at \in FromClock
    BY <1>1 DEF At, FromFacts, FromBase, FromClock, FromApproval, FromHours, FromAssemble
  <2>2. LawRead(law0) /\ base \in Nat
    BY <1>1, <2>1, HeldSoFar DEF BaseHeld
  <2> HIDE DEF law0, base
  <2>3. /\ law0.ptkp \in [Tiers -> Nat]
        /\ law0.ter \in [Categories -> Seq([lower : Int, rate : Nat])]
        /\ IsConfig("bpjs", law0.bpjs, Open)
        /\ \A c \in Categories : law0.ter[c] # <<>> /\ law0.ter[c][1].lower = 0
    BY <2>2, TablesRead
  <2>4. tier \in DOMAIN law0.ptkp
    BY <2>3
  <2>5. CASE ter \in Categories
    <3> DEFINE bands == law0.ter[ter]
               wage == TerBase(base, law0.bpjs)
    <3>1. bands \in Seq([lower : Int, rate : Nat]) /\ bands # <<>> /\ bands[1].lower = 0
      BY <2>3, <2>5
    <3>2. wage \in Nat
      BY <2>2, <2>3, TerBaseIsNat
    <3> HIDE DEF bands, wage
    <3>3. 1 \in DOMAIN bands
      BY <3>1, LenProperties, EmptySeq
    <3>4. 1 \in BandsReached(wage, bands)
      BY <3>1, <3>2, <3>3, UnitsAssumption DEF BandsReached
    <3>5. HasTerRate(ter, base, law0)
      BY <2>3, <2>5, <3>4 DEF HasTerRate, bands, wage
    <3> QED
      BY <1>1, <2>4, <3>5 DEF Computable, law0, base
  <2>6. CASE ter = "brackets"
    BY <1>1, <2>4, <2>6 DEF Computable, law0, base
  <2> QED
    BY <2>5, <2>6
<1>2. DeskInv /\ PayInv => LoadedLawComputes
  BY <1>1 DEF LoadedLawComputes
<1> QED
  BY <1>2, PayInvariance, PTL

\* payroll_write_service.rs:590: every slip on file adds up, and pays of each
\* earning of its structure the part of the days that were paid, while the
\* digits of a quotient outnumber those of an amount.
THEOREM SlipAdds ==
  ASSUME QuotientsSuffice
  PROVE  Spec => []SlipAddsUp
<1>1. ASSUME PayInv, NEW e \in DOMAIN slips
      PROVE  \E ref \in {NoRef} \cup Ids : SlipMade(slips[e], ref)
  BY <1>1 DEF PayInv, SlipsPay
<1>2. ASSUME PayInv PROVE SlipAddsUp
  BY <1>1, <1>2 DEF SlipAddsUp, SlipMade, SumOf
<1> QED
  BY <1>2, PayInvariance, PTL

\* The types of what is on file and of what a request holds; above all the law
\* it holds is a configuration, whatever sets were published.
THEOREM DeskTypes == Spec => []TypeOK
<1>1. ASSUME DeskInv, PayInv PROVE TypeOK
  <2>1. run.status \in {"draft", "closed"} /\ DOMAIN law = Tables
    BY <1>1, TablesByPart DEF PayInv, RunTyped, LawTyped
  <2>2. SlipsPay /\ DOMAIN slips \subseteq Employees
    BY <1>1 DEF PayInv, SlipsPay
  <2>3. ASSUME NEW e \in DOMAIN slips
        PROVE  /\ \A i \in DOMAIN slips[e].lines : slips[e].lines[i] \in Lines
               /\ {slips[e].gross, slips[e].deductions, slips[e].overtime} \subseteq Nat
    <3> DEFINE L == slips[e].lines
    <3>1. PICK ref \in {NoRef} \cup Ids : SlipMade(slips[e], ref)
      BY <2>2 DEF SlipsPay
    <3>2. L \in Seq(LinesOn({NoRef, ref}))
          /\ {slips[e].gross, slips[e].deductions, slips[e].overtime} \subseteq Nat
      BY <3>1 DEF SlipMade
    <3>3. LinesOn({NoRef, ref}) \subseteq Lines
      BY DEF LinesOn, Lines, Ids
    <3> HIDE DEF L
    <3>4. \A i \in DOMAIN L : L[i] \in LinesOn({NoRef, ref})
      BY <3>2, ElementOfSeq
    <3> QED
      BY <3>2, <3>3, <3>4 DEF L
  <2>4. req.at \in {"idle", "run", "law", "facts", "base", "clock", "approval",
                    "hours", "assemble", "recheck", "price", "insert"}
    BY <1>1
       DEF DeskInv, At, FromLaw, FromFacts, FromBase, FromClock, FromApproval,
           FromHours, FromAssemble, FromRecheck
  <2>5. ASSUME "seen" \in DOMAIN req, NEW t \in DOMAIN req.seen
        PROVE  IsConfig(t, req.seen[t], Open)
    <3>1. req.at \in FromLaw /\ LawHeld(req)
      BY <1>1, <2>5 DEF PayInv, ReqPays
    <3>2. DOMAIN req.seen \subseteq Tables
      BY <1>1, <3>1 DEF DeskInv, FromLaw, At, AllLaw, ReadSoFar, Tables
    <3> QED
      BY <2>5, <3>1, <3>2, ReadIsConfig DEF LawHeld
  <2> QED
    BY <2>1, <2>2, <2>3, <2>4, <2>5 DEF TypeOK
<1>2. DeskInv /\ PayInv => TypeOK
  BY <1>1
<1> QED
  BY <1>2, PayInvariance, PTL

-------------------------------------------------------------------------------
(* A save after a preview *)

\* What a preview answered is, until something it read changes, the slip of
\* the tables as they stand, and a request that keeps it asks for the same.
LawStarted == \A t \in Tables : \E d \in DOMAIN law[t] : d <= AsOf
QuoteInv ==
  /\ quoted # {} => LawStarted
  /\ \A q \in quoted : /\ ~At("idle") => q.order = req.order
                       /\ ~Disturbed => q.slip \in CurrentSlips(q.order)

\* payroll_write_service.rs:674: the slip of the tables needs of the law the
\* rows in force, and no others.
LEMMA CurrentStays ==
  ASSUME UNCHANGED <<run, facts, structure, minutes, sheet, approvals>>,
         \A t \in Tables : RowsNow(t)' = RowsNow(t), NEW o
  PROVE  CurrentSlips(o)' = CurrentSlips(o)
<1> DEFINE found == Vouching(approvals, o.employee, Window)
           in == FactsOf(facts[o.employee], run)
           clock == ClockStretches(minutes[o.employee], Window)
           approval == IF found = {} THEN NoRef ELSE LatestOf(found).id
           hours == IF found = {} THEN <<>>
                    ELSE ApprovedStretches(sheet[o.employee].claimed,
                           sheet[o.employee].authorised, Window)
           Slip(x) ==
             Noted(Priced(structure,
                          StatutoryLines(in, BaseOf(structure), clock,
                                         approval, hours, o.risk, LawNow(x)),
                          o.working, o.unpaid),
                   clock, in)
           B == Readings("bpjs", RowsNow("bpjs"))
<1>1. CurrentSlips(o) = {Slip(x) : x \in B}
  BY Zenon DEF CurrentSlips
<1>2. CurrentSlips(o)' = {Slip(x)' : x \in B'}
  BY Zenon DEF CurrentSlips
<1>3. B' = B
  BY DEF Tables
<1>4. ASSUME NEW x PROVE Slip(x)' = Slip(x)
  <2>1. LawNow(x)' = LawNow(x)
    BY DEF LawNow
  <2>2. Window' = Window
    BY DEF Window
  <2>3. in' = in /\ clock' = clock /\ found' = found
    BY <2>2
  <2>4. approval' = approval /\ hours' = hours
    BY <2>2, <2>3
  <2> HIDE DEF in, clock, approval, hours
  <2> QED
    BY <2>1, <2>3, <2>4
<1> HIDE DEF Slip, B
<1> QED
  BY <1>1, <1>2, <1>3, <1>4

\* A set of a later day leaves the rows in force.
LEMMA RowsNowStay ==
  ASSUME DeskTyped, DeskTyped', LawStarted, AsOf' = AsOf, NEW u \in Tables, NEW d \in Nat,
         NEW rows, d > AsOf, law' = [law EXCEPT ![u] = With(@, Just(d, rows))],
         NEW t \in Tables
  PROVE  RowsNow(t)' = RowsNow(t)
<1> DEFINE D == {x \in DOMAIN law[t] : x <= AsOf}
<1>1. AsOf \in Nat /\ DOMAIN law[t] \subseteq Nat /\ DOMAIN law = Tables
  BY DEF DeskTyped
<1>2. D \in SUBSET (0..AsOf) /\ D # {}
  BY <1>1 DEF LawStarted
<1>3. PICK l \in D : \A x \in D : x <= l
  <2>1. Max(D) \in D /\ \A x \in D : x <= Max(D)
    <3> HIDE DEF D
    <3> QED
      BY <1>1, <1>2, LastUpTo
  <2> QED
    BY <2>1
<1>4. RowsNow(t) = law[t][l]
  BY <1>3, RowsNowAre
<1>5. /\ DOMAIN law'[t] \subseteq DOMAIN law[t] \cup {d}
      /\ DOMAIN law[t] \subseteq DOMAIN law'[t]
      /\ l # d => law'[t][l] = law[t][l]
  BY <1>1, <1>3 DEF With, Just
<1>6. l # d
  BY <1>1, <1>3
<1>7. l \in DOMAIN law'[t] /\ l <= AsOf' /\ \A x \in DOMAIN law'[t] : x <= AsOf' => x <= l
  BY <1>1, <1>3, <1>5
<1>8. RowsNow(t)' = law'[t][l]
  <2> DEFINE InForce == CHOOSE y \in DOMAIN law'[t] :
                          /\ y <= AsOf'
                          /\ \A x \in DOMAIN law'[t] : x <= AsOf' => x <= y
  <2>1. DOMAIN law'[t] \subseteq Nat
    BY DEF DeskTyped
  <2>2. InForce = l
    BY <1>7, <2>1
  <2>3. RowsNow(t)' = law'[t][InForce]
    BY DEF RowsNow
  <2> HIDE DEF InForce
  <2> QED
    BY <2>2, <2>3
<1> QED
  BY <1>4, <1>5, <1>6, <1>8

\* With the tables as they were, what was answered stands.
LEMMA QuotesStand ==
  ASSUME QuoteInv, UNCHANGED tables, Disturbed' <=> Disturbed, quoted' \subseteq quoted,
         req'.at # "idle" => \A q \in quoted' : q.order = req'.order
  PROVE  QuoteInv'
<1>1. UNCHANGED <<run, law, facts, structure, minutes, sheet, approvals>>
  BY DEF tables
<1>2. /\ AsOf' = AsOf /\ \A t \in Tables : RowsNow(t)' = RowsNow(t)
  BY <1>1 DEF AsOf, Window, RowsNow
<1>3. \A o : CurrentSlips(o)' = CurrentSlips(o)
  BY <1>1, <1>2, CurrentStays
<1>4. LawStarted => LawStarted'
  BY <1>1, <1>2 DEF LawStarted
<1> QED
  BY <1>3, <1>4 DEF QuoteInv, At

\* Without a preview's answer there is nothing to say.
LEMMA NoQuotes == quoted' = {} => QuoteInv'
  BY DEF QuoteInv

\* A step that reads on keeps the quote.
LEMMA AnsweredQuotes ==
  ASSUME DeskInv, QuoteInv, ~At("idle"), NEW label, NEW found, Then(label, found),
         UNCHANGED <<tables, quoted, since>>,
         "at" \notin DOMAIN found, "order" \notin DOMAIN found
  PROVE  QuoteInv'
<1>1. "at" \in DOMAIN req /\ "order" \in DOMAIN req
  BY DEF DeskInv
<1>2. req'.order = req.order
  BY <1>1, SeenKeeps
<1>3. \A q \in quoted' : q.order = req'.order
  BY <1>2 DEF QuoteInv
<1>4. Disturbed' <=> Disturbed
  BY DEF Disturbed, tables, AsOf, Window
<1> QED
  BY <1>3, <1>4, QuotesStand

\* A preview answers what the tables have, if nothing changed meanwhile.
LEMMA PreviewQuotes ==
  ASSUME DeskInv, At("price"), req' = Idle, UNCHANGED tables, since' = {},
         quoted' = IF since = {} THEN {[order |-> req.order, slip |-> SlipOf(req)]}
                   ELSE {}
  PROVE  QuoteInv'
<1>1. CASE since # {}
  BY <1>1, NoQuotes
<1>2. CASE since = {}
  <2>1. ~Disturbed /\ req.at \in FromFacts /\ req.at \in {"price", "insert"}
    BY <1>2 DEF Disturbed, At, FromFacts, FromBase, FromClock, FromApproval, FromHours,
                FromAssemble, FromRecheck
  <2>2. SlipOf(req) \in CurrentSlips(req.order) /\ LawStarted
    BY <2>1, PricedIsCurrent, HeldIsInForce DEF LawStarted
  <2>3. UNCHANGED <<run, law, facts, structure, minutes, sheet, approvals>>
    BY DEF tables
  <2>4. AsOf' = AsOf /\ \A t \in Tables : RowsNow(t)' = RowsNow(t)
    BY <2>3 DEF AsOf, Window, RowsNow
  <2>5. \A o : CurrentSlips(o)' = CurrentSlips(o)
    BY <2>3, <2>4, CurrentStays
  <2>6. LawStarted' /\ At("idle")'
    BY <2>2, <2>3, <2>4 DEF LawStarted, At, Idle
  <2>7. \A q \in quoted' : q.order = req.order /\ q.slip = SlipOf(req)
    BY <1>2
  <2> QED
    BY <2>2, <2>5, <2>6, <2>7 DEF QuoteInv
<1> QED
  BY <1>1, <1>2

LEMMA StepQuotes ==
  ASSUME DeskInv, QuoteInv, Step
  PROVE  QuoteInv'
<1>1. ~At("idle") /\ (Refuse => QuoteInv')
  BY NoQuotes DEF Step, ReadRun, ReadLaw, ReadFacts, ReadBase, ReadClock, ReadApproval,
     ReadHours, Assemble, Recheck, Price, Insert, At, Refuse
<1>2. ASSUME NEW label, NEW found, Then(label, found), Reads,
             "at" \notin DOMAIN found, "order" \notin DOMAIN found
      PROVE  QuoteInv'
  BY <1>1, <1>2, AnsweredQuotes DEF Reads
<1>3. CASE ReadRun
  BY <1>1, <1>2, <1>3 DEF ReadRun
<1>4. CASE ReadLaw
  <2> DEFINE found(cfg) == [seen |-> With(req.seen, Just(NextTable, cfg))]
             label == IF NextTable = "overtime" THEN "facts" ELSE "law"
  <2>1. Refuse \/ \E cfg : Then(label, found(cfg)) /\ Reads
    BY <1>4 DEF ReadLaw
  <2>2. \A cfg : DOMAIN found(cfg) = {"seen"}
    OBVIOUS
  <2> HIDE DEF found, label
  <2> QED
    BY <1>1, <1>2, <2>1, <2>2
<1>5. CASE ReadFacts
  BY <1>1, <1>2, <1>5 DEF ReadFacts
<1>6. CASE ReadBase
  BY <1>1, <1>2, <1>6 DEF ReadBase
<1>7. CASE ReadClock
  BY <1>1, <1>2, <1>7 DEF ReadClock
<1>8. CASE ReadApproval
  <2> DEFINE F == Vouching(approvals, req.order.employee, Window)
             none == [approval |-> NoRef, hours |-> <<>>]
             one == [approval |-> LatestOf(F).id]
  <2>1. Reads /\ (Then("assemble", none) \/ Then("hours", one))
    BY <1>8 DEF ReadApproval
  <2>2. DOMAIN none = {"approval", "hours"} /\ DOMAIN one = {"approval"}
    OBVIOUS
  <2> HIDE DEF none, one
  <2> QED
    BY <1>2, <2>1, <2>2
<1>9. CASE ReadHours
  BY <1>1, <1>2, <1>9 DEF ReadHours
<1>10. CASE Assemble
  BY <1>1, <1>2, <1>10 DEF Assemble
<1>11. CASE Recheck
  BY <1>1, <1>2, <1>11 DEF Recheck
<1>12. CASE Price
  <2>1. At("price") /\ UNCHANGED <<tables, slips, stamp>>
    BY <1>12 DEF Price
  <2>2. CASE Then("insert", [slip |-> SlipOf(req)]) /\ UNCHANGED <<quoted, since>>
    BY <1>1, <2>1, <2>2, AnsweredQuotes
  <2>3. CASE Refuse
    BY <1>1, <2>3
  <2> QED
    BY <1>12, <2>1, <2>2, <2>3, PreviewQuotes DEF Price
<1>13. CASE Insert
  BY <1>1, <1>13 DEF Insert
<1> QED
  BY <1>3, <1>4, <1>5, <1>6, <1>7, <1>8, <1>9, <1>10, <1>11, <1>12, <1>13 DEF Step

\* A preview forgets the answer before it; a save keeps the one it follows.
LEMMA BeginQuotes ==
  ASSUME DeskInv, QuoteInv, NEW kind, NEW o, Begin(kind, o)
  PROVE  QuoteInv'
<1>1. /\ UNCHANGED <<tables, since>> /\ quoted' \subseteq quoted
      /\ \A q \in quoted' : q.order = o
      /\ req'.order = o
  BY DEF Begin
<1>2. Disturbed' <=> Disturbed
  BY <1>1 DEF Disturbed, tables, AsOf, Window
<1> QED
  BY <1>1, <1>2, QuotesStand

LEMMA OthersQuotes ==
  ASSUME DeskInv, DeskInv', QuoteInv, Others
  PROVE  QuoteInv'
<1>1. DeskTyped /\ DeskTyped'
  BY DEF DeskInv
<1>2. ASSUME NEW x, Commits(x), AsOf' = AsOf,
             LawStarted => LawStarted',
             ~Disturbed' => \A o : CurrentSlips(o)' = CurrentSlips(o)
      PROVE  QuoteInv'
  <2>1. CASE At("idle")
    BY <1>2, <2>1, NoQuotes DEF Commits
  <2>2. CASE ~At("idle")
    <3>1. quoted' = quoted /\ since' = since \cup {x} /\ req' = req
      BY <1>2, <2>2 DEF Commits
    <3>2. ~Disturbed' => ~Disturbed
      BY <1>2, <3>1 DEF Disturbed
    <3> QED
      BY <1>2, <3>1, <3>2 DEF QuoteInv, At
  <2> QED
    BY <2>1, <2>2
<1>3. ASSUME NEW w, w \notin Tables, Commits(<<w>>), AsOf' = AsOf, law' = law
      PROVE  QuoteInv'
  <2>1. LawStarted => LawStarted'
    BY <1>3 DEF LawStarted
  <2>2. CASE At("idle")
    BY <1>3, <2>2, NoQuotes DEF Commits
  <2>3. CASE ~At("idle")
    <3>1. <<w>> \in since'
      BY <1>3, <2>3 DEF Commits
    <3>2. Disturbed'
      BY <1>3, <3>1 DEF Disturbed
    <3> QED
      BY <1>2, <1>3, <2>1, <3>2
  <2> QED
    BY <2>2, <2>3
<1>4. ASSUME NEW x \in LawOffers, PublishLaw(x[1], x[2], x[3]) PROVE QuoteInv'
  <2> DEFINE t == x[1]
             d == x[2]
             rows == x[3]
  <2>1. /\ t \in Tables /\ d \in Nat /\ Commits(<<t, d>>)
        /\ UNCHANGED <<run, facts, structure, minutes, sheet, approvals>>
        /\ law' = [law EXCEPT ![t] = With(@, Just(d, rows))]
    BY <1>4, DeskAssumption DEF PublishLaw
  <2> HIDE DEF t, d, rows
  <2>2. AsOf' = AsOf /\ AsOf \in Nat
    BY <1>1, <2>1 DEF AsOf, Window, DeskTyped
  <2>3. LawStarted => LawStarted'
    <3>1. \A u \in Tables : DOMAIN law[u] \subseteq DOMAIN law'[u]
      BY <1>1, <2>1 DEF DeskTyped, With, Just
    <3> QED
      BY <2>2, <3>1 DEF LawStarted
  <2>4. CASE At("idle")
    BY <2>1, <2>4, NoQuotes DEF Commits
  <2>5. CASE ~At("idle")
    <3>1. quoted' = quoted /\ since' = since \cup {<<t, d>>} /\ req' = req
      BY <2>1, <2>5 DEF Commits
    <3>2. CASE d <= AsOf \/ quoted = {}
      <4>1. Disturbed' \/ quoted = {}
        BY <2>1, <2>2, <3>1, <3>2 DEF Disturbed
      <4> QED
        BY <1>2, <2>1, <2>2, <2>3, <3>1, <4>1, NoQuotes
    <3>3. CASE d > AsOf /\ quoted # {}
      <4>1. \A u \in Tables : RowsNow(u)' = RowsNow(u)
        BY <1>1, <2>1, <2>2, <3>3, RowsNowStay DEF QuoteInv
      <4>2. \A o : CurrentSlips(o)' = CurrentSlips(o)
        BY <2>1, <4>1, CurrentStays
      <4> QED
        BY <1>2, <2>1, <2>2, <2>3, <4>2
    <3> QED
      BY <2>1, <2>2, <3>2, <3>3
  <2> QED
    BY <2>4, <2>5
<1>5. ASSUME UNCHANGED run PROVE AsOf' = AsOf
  BY <1>5 DEF AsOf, Window
<1>6. ASSUME NEW s, ChangeStructure(s) PROVE QuoteInv'
  BY <1>3, <1>5, <1>6 DEF ChangeStructure, Tables
<1>7. ASSUME NEW a, Review(a) PROVE QuoteInv'
  BY <1>3, <1>5, <1>7 DEF Review, Tables
<1>8. ASSUME NEW e, Dismiss(e) PROVE QuoteInv'
  BY <1>3, <1>5, <1>8 DEF Dismiss, Tables
<1>9. ASSUME NEW e, NEW d, CorrectHours(e, d) PROVE QuoteInv'
  BY <1>3, <1>5, <1>9 DEF CorrectHours, Tables
<1>10. CASE CloseRun
  <2>1. /\ run' = [run EXCEPT !.status = "closed"]
        /\ {"from", "to", "month"} \subseteq DOMAIN run
    BY <1>1, <1>10 DEF CloseRun, DeskTyped
  <2>2. run'.from = run.from /\ run'.to = run.to /\ run'.month = run.month
    BY <2>1
  <2>3. AsOf' = AsOf
    BY <2>2 DEF AsOf, Window, RunWindow
  <2> QED
    BY <1>3, <1>10, <2>3 DEF CloseRun, Tables
<1> QED
  BY <1>4, <1>6, <1>7, <1>8, <1>9, <1>10 DEF Others

\* Both sides capped alike, a set of the BPJS rates reads in one way.
LEMMA CapsReadOnce ==
  ASSUME OneCap, NEW rows \in SetsOf("bpjs"), NEW b \in Readings("bpjs", rows),
         NEW c \in Readings("bpjs", rows)
  PROVE  b = c
<1>1. PICK k \in CapsOf(rows, "kes"), j \in CapsOf(rows, "jp") :
        b = BpjsConfig(rows, k, j)
  BY DEF Readings, BpjsConfigs
<1>2. PICK m \in CapsOf(rows, "kes"), n \in CapsOf(rows, "jp") :
        c = BpjsConfig(rows, m, n)
  BY DEF Readings, BpjsConfigs
<1>3. k = m /\ j = n
  BY DEF OneCap, CappedAlike, CapsOf, RowsOf
<1> QED
  BY <1>1, <1>2, <1>3

\* ... and the tables then have one slip for an order.
LEMMA CurrentIsOne ==
  ASSUME OneCap, DeskTyped, LawsTyped, LawStarted, NEW o,
         NEW s \in CurrentSlips(o), NEW p \in CurrentSlips(o)
  PROVE  s = p
<1> DEFINE D == {x \in DOMAIN law["bpjs"] : x <= AsOf}
           rows == RowsNow("bpjs")
<1>1. /\ AsOf \in Nat /\ DOMAIN law["bpjs"] \subseteq Nat /\ "bpjs" \in Tables /\ LawTyped
  BY TablesByPart DEF DeskTyped, Tables
<1>2. D \in SUBSET (0..AsOf) /\ D # {}
  BY <1>1 DEF LawStarted
<1>3. PICK l \in D : \A x \in D : x <= l
  <2>1. Max(D) \in D /\ \A x \in D : x <= Max(D)
    <3> HIDE DEF D
    <3> QED
      BY <1>1, <1>2, LastUpTo
  <2> QED
    BY <2>1
<1>4. rows = law["bpjs"][l]
  BY <1>1, <1>3, RowsNowAre
<1>5. rows \in SetsOf("bpjs")
  BY <1>1, <1>3, <1>4 DEF LawTyped
<1> HIDE DEF rows
<1>6. PICK b \in Readings("bpjs", rows) : TRUE
  BY DEF CurrentSlips, rows
<1> QED
  BY <1>5, CapsReadOnce DEF CurrentSlips, rows

LEMMA QuoteInvariance == Spec => [](DeskInv /\ PayInv /\ QuoteInv)
<1>1. Init => QuoteInv
  BY DEF Init, QuoteInv
<1>2. ASSUME DeskInv, DeskInv', QuoteInv, [Next]_vars PROVE QuoteInv'
  <2>1. CASE UNCHANGED vars
    <3>1. UNCHANGED <<tables, quoted, req, since>>
      BY <2>1 DEF vars
    <3>2. Disturbed' <=> Disturbed
      BY <3>1 DEF Disturbed, tables, AsOf, Window
    <3>3. req'.at # "idle" => \A q \in quoted' : q.order = req'.order
      BY <1>2, <3>1 DEF QuoteInv, At
    <3> QED
      BY <1>2, <3>1, <3>2, <3>3, QuotesStand
  <2> QED
    BY <1>2, <2>1, BeginQuotes, StepQuotes, OthersQuotes DEF Next
<1> QED
  BY <1>1, <1>2, PayInvariance, PTL DEF Spec

\* payroll_write_service.rs:579: whatever laws of a later day are published in
\* between, a save nothing disturbed writes what its preview showed, if the
\* sides of a BPJS component are capped alike.
THEOREM PreviewSaved ==
  ASSUME OneCap
  PROVE  Spec => PreviewIsTheSlip
<1> DEFINE Shown == \A e \in DOMAIN slips' \ DOMAIN slips :
                     ~Disturbed => \A q \in quoted : slips'[e] = q.slip
<1>1. ASSUME DeskInv, PayInv, QuoteInv, Next PROVE Shown
  <2>1. CASE Insert
    <3> DEFINE x == req.order.employee
    <3>1. x \notin DOMAIN slips => slips' = With(slips, Just(x, req.slip))
      BY <2>1 DEF Insert
    <3>2. x \in DOMAIN slips => slips' = slips
      BY <2>1 DEF Insert
    <3>3. \A e \in DOMAIN slips' \ DOMAIN slips : slips'[e] = req.slip
      BY <3>1, <3>2 DEF With, Just
    <3>4. At("insert") /\ ~At("idle") /\ DeskTyped /\ LawsTyped
      BY <1>1, <2>1 DEF Insert, At, DeskInv, PayInv
    <3>5. ASSUME ~Disturbed, NEW q \in quoted PROVE req.slip = q.slip
      <4>1. req.slip \in CurrentSlips(req.order)
        BY <1>1, <3>4, <3>5, SlipIsCurrent
      <4>2. q.slip \in CurrentSlips(req.order) /\ LawStarted
        BY <1>1, <3>4, <3>5 DEF QuoteInv
      <4> QED
        BY <3>4, <4>1, <4>2, CurrentIsOne
    <3> QED
      BY <3>3, <3>5
  <2>2. CASE ~Insert
    <3>1. slips' = slips
      BY <1>1, <2>2
         DEF Next, Begin, Step, Others, ReadRun, ReadLaw, ReadFacts, ReadBase,
             ReadClock, ReadApproval, ReadHours, Assemble, Recheck, Price, Reads,
             PublishLaw, ChangeStructure, Review, Dismiss, CorrectHours,
             CloseRun, Commits
    <3> QED
      BY <3>1
  <2> QED
    BY <2>1, <2>2
<1>2. DeskInv /\ PayInv /\ QuoteInv /\ [Next]_vars => [Shown]_vars
  BY <1>1
<1> QED
  BY <1>2, QuoteInvariance, PTL DEF Spec, PreviewIsTheSlip

===============================================================================
