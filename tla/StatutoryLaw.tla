----------------------------- MODULE StatutoryLaw ------------------------------
(***************************************************************************)
(* The statutory parameter tables and their reading as of a date           *)
(* (statutory_params_repository.rs).                                       *)
(*                                                                         *)
(* A table is a function from effective_from to the rows of that date, as  *)
(* the reading query returns them:                                         *)
(*   brackets  a sequence of [lower, upper, rate], by seq                  *)
(*   ptkp      a function from tiers to annual amounts                     *)
(*   ter       a function from categories to sequences of [lower, rate]    *)
(*   bpjs      a set of [component, side, rate, cap]                       *)
(*   overtime  a function from kinds of day to sequences of                *)
(*             [from, to, multiplier], by hour                             *)
(***************************************************************************)
EXTENDS Integers, Sequences, FiniteSetsExt

CONSTANTS
  Tiers,        \* the PTKP tiers (tk0 .. k3 in the code)
  Categories,   \* the TER categories (ter_a .. ter_c)
  RiskClasses,  \* the JKK risk classes 1..5 the tables have components for
  NoCap         \* wage_cap IS NULL

ASSUME RiskAssumption == RiskClasses \subseteq 1..5

Tables == {"brackets", "ptkp", "ter", "bpjs", "overtime"}

\* The order resolve_as_of reads them in.
ReadOrder == <<"brackets", "ptkp", "ter", "bpjs", "overtime">>

-------------------------------------------------------------------------------
\* Plausible errors in the definitions below, put in their place by the
\* mutation runs only.
LatestOfAll(table, asOf) == DOMAIN table
BeforeThen(table, asOf) == {d \in DOMAIN table : d < asOf}
SomeTiers(rows) == DOMAIN rows # {}

-------------------------------------------------------------------------------
(* Which rows apply *)

\* The dates the period may read; effective_at takes the greatest.
DatesInForce(table, asOf) == {d \in DOMAIN table : d <= asOf}
RowsInForce(table, asOf) == table[Max(DatesInForce(table, asOf))]

\* What the types, keys and checks of the columns admit under one date.
RowsTyped(t, rows, open) ==
  CASE t = "brackets" ->
         /\ rows \in Seq([lower : Int, upper : Int \cup {open}, rate : Nat])
         /\ \A i \in DOMAIN rows :
              rows[i].upper = open \/ rows[i].upper > rows[i].lower
    [] t = "ptkp" ->
         DOMAIN rows \subseteq Tiers /\ rows \in [DOMAIN rows -> Nat]
    [] t = "ter" ->
         /\ DOMAIN rows \subseteq Categories
         /\ rows \in [DOMAIN rows -> Seq([lower : Int, rate : Nat])]
    [] t = "bpjs" ->
         rows \subseteq [component : STRING, side : {"employee", "employer"},
                         rate : Nat, cap : Nat \cup {NoCap}]
    [] t = "overtime" ->
         /\ DOMAIN rows \subseteq {"workday", "rest_day"}
         /\ rows \in [DOMAIN rows -> Seq([from : Nat, to : Nat \cup {open},
                                         multiplier : Nat])]

-------------------------------------------------------------------------------
(* What counts as a complete set *)

\* Opens at no income and closes open-ended; the middle is not looked at.
BracketsComplete(rows, open) ==
  /\ rows # <<>>
  /\ rows[1].lower = 0
  /\ rows[Len(rows)].upper = open

PtkpComplete(rows) == Tiers \subseteq DOMAIN rows

TerComplete(rows) ==
  \A c \in Categories :
    c \in DOMAIN rows /\ rows[c] # <<>> /\ rows[c][1].lower = 0

RowsOf(rows, component) == {r \in rows : r.component = component}
SidesOf(rows, component) == {r.side : r \in RowsOf(rows, component)}

\* The risk class is the part of the component's name after "jkk_".
JkkComponent == <<"jkk_1", "jkk_2", "jkk_3", "jkk_4", "jkk_5">>
JkkComponents == {JkkComponent[c] : c \in RiskClasses}

\* Both sides of the shared components, JKM, a cap where the law has one, and
\* nothing else but JKK rows, of which none is asked for.
BpjsComplete(rows) ==
  /\ \A c \in {"kes", "jht", "jp"} :
       SidesOf(rows, c) = {"employee", "employer"}
  /\ SidesOf(rows, "jkm") = {"employer"}
  /\ \A r \in rows :
       \/ r.component \in {"kes", "jht", "jp", "jkm"}
       \/ r.component \in JkkComponents /\ r.side = "employer"

\* Any one band of a working day, and no day but the two kinds.
OvertimeComplete(rows) ==
  /\ "workday" \in DOMAIN rows /\ rows["workday"] # <<>>
  /\ DOMAIN rows \subseteq {"workday", "rest_day"}

Complete(t, rows, open) ==
  CASE t = "brackets" -> BracketsComplete(rows, open)
    [] t = "ptkp"     -> PtkpComplete(rows)
    [] t = "ter"      -> TerComplete(rows)
    [] t = "bpjs"     -> BpjsComplete(rows)
    [] t = "overtime" -> OvertimeComplete(rows)

-------------------------------------------------------------------------------
(* What the calculations get *)

\* StatutoryConfig, part by part.
IsConfig(t, cfg, open) ==
  CASE t = "brackets" -> cfg \in Seq([lower : Int, upper : Int \cup {open},
                                      rate : Nat])
    [] t = "ptkp"     -> cfg \in [Tiers -> Nat]
    [] t = "ter"      -> cfg \in [Categories -> Seq([lower : Int, rate : Nat])]
    [] t = "overtime" -> cfg \in Seq([from : Nat, to : Nat \cup {open},
                                      multiplier : Nat])
    [] t = "bpjs"     ->
         /\ cfg.jht \in [employee : Nat, employer : Nat] /\ cfg.jkm \in Nat
         /\ {cfg.kes, cfg.jp} \subseteq [employee : Nat, employer : Nat, cap : Nat]
         /\ DOMAIN cfg.jkk \subseteq RiskClasses
         /\ \A c \in DOMAIN cfg.jkk : cfg.jkk[c] \in Nat

RateOf(rows, component, side) ==
  (CHOOSE r \in rows : r.component = component /\ r.side = side).rate

\* Each row of a capped component overwrites the cap of the row before it, and
\* the query states no order: either row's cap may be the one that stays.
CapsOf(rows, component) == {r.cap : r \in RowsOf(rows, component)}

BpjsConfig(rows, kesCap, jpCap) ==
  [kes |-> [employee |-> RateOf(rows, "kes", "employee"),
            employer |-> RateOf(rows, "kes", "employer"),
            cap      |-> kesCap],
   jht |-> [employee |-> RateOf(rows, "jht", "employee"),
            employer |-> RateOf(rows, "jht", "employer")],
   jp  |-> [employee |-> RateOf(rows, "jp", "employee"),
            employer |-> RateOf(rows, "jp", "employer"),
            cap      |-> jpCap],
   jkk |-> [c \in {x \in RiskClasses : RowsOf(rows, JkkComponent[x]) # {}} |->
              RateOf(rows, JkkComponent[c], "employer")],
   jkm |-> RateOf(rows, "jkm", "employer")]

BpjsConfigs(rows) ==
  {BpjsConfig(rows, k, j) : k \in CapsOf(rows, "kes") \ {NoCap},
                            j \in CapsOf(rows, "jp") \ {NoCap}}

\* The configurations a complete set may be read as: one, but for the caps.
Readings(t, rows) ==
  CASE t = "bpjs"     -> BpjsConfigs(rows)
    [] t = "overtime" -> {rows["workday"]}
    [] OTHER          -> {rows}

-------------------------------------------------------------------------------
(* What is said of a set and no check enforces *)

\* statutory_calcs.rs:656, :744: brackets and bands are sorted ascending.
Ascending(bands) ==
  \A i, j \in DOMAIN bands : i < j => bands[i].lower < bands[j].lower

\* statutory_calcs.rs:298: bands of consecutive hours, of which none has two.
Apart(bands, open) ==
  \A i, j \in DOMAIN bands :
    i < j => bands[i].to # open /\ bands[i].to < bands[j].from

\* 20260818100000_statutory_params.up.sql:150: both sides of a component are
\* capped alike.
CappedAlike(rows) ==
  \A r, s \in rows : r.component = s.component => r.cap = s.cap

===============================================================================
