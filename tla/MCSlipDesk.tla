------------------------------ MODULE MCSlipDesk ------------------------------
(* A run of January (month 12, days 24 and 25), or of the cut-off days 23 and *)
(* 24; months have two days, money is small, a rate is in twentieths.        *)
EXTENDS SlipDesk, TLC

CONSTANTS ann, bob, annJan, annNov, bobJan, hike

MCTiers == {"tk", "k"} \X (0..3)

Ptkp(zero, step) ==
  [t \in MCTiers |-> zero + step * (t[2] + (IF t[1] = "k" THEN 1 ELSE 0))]

Bracket(l, u, r) == [lower |-> l, upper |-> u, rate |-> r]
Band(f, t, m) == [from |-> f, to |-> t, multiplier |-> m]
Bpjs(c, s, r, cap) == [component |-> c, side |-> s, rate |-> r, cap |-> cap]

OldBpjs ==
  {Bpjs("kes", "employee", 1, 12), Bpjs("kes", "employer", 2, 12),
   Bpjs("jht", "employee", 1, NoCap), Bpjs("jht", "employer", 2, NoCap),
   Bpjs("jp", "employee", 1, 15), Bpjs("jp", "employer", 2, 15),
   Bpjs("jkm", "employer", 1, NoCap), Bpjs("jkk_1", "employer", 1, NoCap)}

OldLaw ==
  [t \in Tables |-> 0 :> (
     CASE t = "brackets" -> <<Bracket(0, 60, 1), Bracket(60, Open, 3)>>
       [] t = "ptkp"     -> Ptkp(60, 12)
       [] t = "ter"      -> [c \in Categories |->
                               <<[lower |-> 0, rate |-> 0],
                                 [lower |-> 9, rate |-> 1],
                                 [lower |-> 18, rate |-> 3]>>]
       [] t = "bpjs"     -> OldBpjs
       [] t = "overtime" -> ("rest_day" :> <<Band(1, Open, 30)>> @@
                             "workday" :> <<Band(1, 1, 15), Band(2, Open, 20)>>))]

\* A higher relief before, on and after the first day; a lone correction of
\* the brackets; brackets with a gap; a rate added to BPJS without the rest;
\* overtime with nothing for the second hour.
MCLawOffers ==
  {<<"ptkp", d, Ptkp(84, 12)>> : d \in {23, 24, 25}}
  \cup {<<"ptkp", 24, [t \in {x \in MCTiers : x[1] = "tk"} |-> 80]>>,
        <<"brackets", 23, <<Bracket(60, Open, 4)>> >>,
        <<"brackets", 24, <<Bracket(0, 40, 1), Bracket(100, Open, 4)>> >>,
        <<"bpjs", 23, {Bpjs("jht", "employee", 2, NoCap)}>>,
        <<"overtime", 24, "workday" :> <<Band(1, 1, 16)>> >>}

Basic(v) == [name |-> "Basic", ct |-> "earning", amount |-> v]
Meal == [name |-> "Meal", ct |-> "earning", amount |-> 5]
Loan == [name |-> "Loan", ct |-> "deduction", amount |-> 3]
MCStructures == {<<Basic(15), Meal, Loan>>, <<Basic(18), Loan>>, <<Loan>>}

Hours(f) == [d \in 23..26 |-> IF d \in DOMAIN f THEN f[d] ELSE 0]
None0 == Hours(<<>>)

Fact == [override |-> NoOne, spouse |-> FALSE, children |-> 0, npwp |-> TRUE,
         ter |-> NoOne, joined |-> NoOne]

World ==
  [run |-> [status |-> "draft", month |-> 12, from |-> NoOne, to |-> NoOne,
            expense |-> hike],
   law |-> OldLaw,
   facts |-> (ann :> Fact @@ bob :> [Fact EXCEPT !.npwp = FALSE]),
   structure |-> <<Basic(15), Meal, Loan>>,
   minutes |-> (ann :> Hours(24 :> 3 @@ 25 :> 2 @@ 23 :> -1) @@ bob :> None0),
   sheet |-> (ann :> [claimed |-> Hours(24 :> 5 @@ 25 :> 2),
                      authorised |-> Hours(24 :> 3)]
              @@ bob :> [claimed |-> Hours(25 :> 4), authorised |-> Hours(25 :> 3)]),
   approvals |-> {[id |-> annJan, employee |-> ann, month |-> 12,
                   status |-> "pending"],
                  [id |-> bobJan, employee |-> bob, month |-> 12,
                   status |-> "approved"]}]

\* The world, and one difference at a time.
MCWorlds ==
  {World,
   [World EXCEPT !.facts[ann].ter = "ter_a", !.facts[ann].npwp = FALSE],
   [World EXCEPT !.facts[ann].spouse = TRUE, !.facts[ann].children = 4,
                 !.facts[ann].joined = 5],
   [World EXCEPT !.run.from = 23, !.run.to = 24,
                 !.facts[ann].joined = 0, !.facts[ann].override = <<"k", 0>>],
   [World EXCEPT !.approvals = {[id |-> annNov, employee |-> ann, month |-> 22,
                                 status |-> "approved"]}]}

Order(e, w, u) == [employee |-> e, working |-> w, unpaid |-> u, risk |-> 1]
MCOrders ==
  {Order(ann, 6, 1), Order(bob, 4, -1), Order(bob, 4, 5),
   [Order(bob, 4, 0) EXCEPT !.risk = 2]}

===============================================================================
