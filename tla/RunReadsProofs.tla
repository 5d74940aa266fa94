---------------------------- MODULE RunReadsProofs -----------------------------
(*****************************************************************************)
(* What RunReads guarantees for any runs, periods, people, slips, worlds and *)
(* requests, and however much others commit between two statements.          *)
(*****************************************************************************)
EXTENDS RunReads, FiniteSums, TLAPS

-------------------------------------------------------------------------------
(* The latest run before another *)

\* If there is a final run of an earlier period, there is a latest one.
LEMMA LatestExists ==
  ASSUME ReadsAssumption, NEW id \in Runs, Earlier(id) # {}
  PROVE  PreviousRuns(id) # {}
<1> DEFINE S == {Period[p] : p \in Earlier(id)}
<1>1. \A p \in Runs : Period[p] \in Nat
  BY DEF ReadsAssumption
<1>2. S \subseteq 0..Period[id] /\ S # {}
  BY <1>1 DEF Earlier
<1>3. PICK m \in S : \A x \in S : x <= m
  <2> HIDE DEF S
  <2> QED
    BY <1>1, <1>2, LastUpTo
<1>4. PICK p \in Earlier(id) : m = Period[p]
  OBVIOUS
<1>5. \A q \in Earlier(id) : Period[q] <= Period[p]
  BY <1>3, <1>4
<1> QED
  BY <1>4, <1>5 DEF PreviousRuns

-------------------------------------------------------------------------------
(* What the statements add up to *)

\* The slips of r are of finitely many people and of finitely many lines.
Countable(r) ==
  /\ IsFiniteSet(DOMAIN slipsOf[r])
  /\ \A e \in DOMAIN slipsOf[r] : slipsOf[r][e] \in Seq(SlipLines)

LinesOfOne(r, e) == {<<e, i>> : i \in DOMAIN slipsOf[r][e]}

\* A line among those of its run: its slip, its place and what it says.
LEMMA LineIsOfASlip ==
  ASSUME NEW r, Countable(r), NEW x \in LinesOf(r)
  PROVE  /\ x[1] \in DOMAIN slipsOf[r] /\ x[2] \in DOMAIN slipsOf[r][x[1]]
         /\ x = <<x[1], x[2]>>
         /\ LineAt(r, x) \in SlipLines /\ LineAt(r, x).amount \in Nat
<1>1. PICK e \in DOMAIN slipsOf[r] : x \in {<<e, i>> : i \in DOMAIN slipsOf[r][e]}
  BY DEF LinesOf
<1>2. PICK i \in DOMAIN slipsOf[r][e] : x = <<e, i>>
  BY <1>1
<1>3. x[1] = e /\ x[2] = i
  BY <1>2
<1>4. slipsOf[r][e] \in Seq(SlipLines)
  BY DEF Countable
<1>5. slipsOf[r][e][i] \in SlipLines
  BY <1>4
<1> QED
  BY <1>2, <1>3, <1>5 DEF LineAt, SlipLines

\* A run has finitely many lines.
LEMMA LinesAreFinite ==
  ASSUME NEW r, Countable(r)
  PROVE  /\ IsFiniteSet(LinesOf(r))
         /\ \A e \in DOMAIN slipsOf[r] :
              /\ IsFiniteSet(DOMAIN slipsOf[r][e])
              /\ IsFiniteSet(LinesOfOne(r, e))
<1>1. ASSUME NEW e \in DOMAIN slipsOf[r]
      PROVE  IsFiniteSet(DOMAIN slipsOf[r][e]) /\ IsFiniteSet(LinesOfOne(r, e))
  <2> DEFINE s == slipsOf[r][e]
             f == [i \in DOMAIN s |-> <<e, i>>]
  <2>1. s \in Seq(SlipLines)
    BY DEF Countable
  <2>2. IsFiniteSet(DOMAIN s)
    <3> DEFINE n == Len(s)
    <3>1. DOMAIN s = 1..n /\ n \in Nat
      BY <2>1
    <3> HIDE DEF n
    <3>2. IsFiniteSet(1..n)
      BY <3>1, FS_Interval
    <3> QED
      BY <3>1, <3>2
  <2>3. IsFiniteSet({f[i] : i \in DOMAIN s})
    <3> HIDE DEF f
    <3> QED
      BY <2>2, FiniteImage
  <2>4. {f[i] : i \in DOMAIN s} = LinesOfOne(r, e)
    BY DEF LinesOfOne
  <2> QED
    BY <2>2, <2>3, <2>4
<1> DEFINE D == [e \in DOMAIN slipsOf[r] |-> LinesOfOne(r, e)]
           W == {D[e] : e \in DOMAIN slipsOf[r]}
<1>2. IsFiniteSet(W)
  <2> HIDE DEF D
  <2> QED
    BY FiniteImage DEF Countable
<1>3. \A T \in W : IsFiniteSet(T)
  BY <1>1
<1>4. UNION W = LinesOf(r)
  BY ZenonT(60) DEF LinesOf, LinesOfOne
<1>5. IsFiniteSet(UNION W)
  <2> HIDE DEF W
  <2> QED
    BY <1>2, <1>3, FS_UNION
<1> QED
  BY <1>1, <1>4, <1>5

\* What of each line is of a kind.
AmountAs(r, ct) ==
  [x \in LinesOf(r) |->
     IF LineAt(r, x).ct = ct THEN LineAt(r, x).amount ELSE 0]

\* Each with a number for its amount, whatever it is summed for.
LEMMA AmountsAreNumbers ==
  ASSUME NEW r, Countable(r), NEW ct
  PROVE  AmountAs(r, ct) \in [LinesOf(r) -> Int]
<1>1. \A x \in LinesOf(r) : LineAt(r, x).amount \in Int
  BY LineIsOfASlip
<1> QED
  BY <1>1 DEF AmountAs

\* What one slip pays is the sum over its lines among those of its run.
LEMMA PaidOverLines ==
  ASSUME NEW r, Countable(r), NEW ct, NEW e \in DOMAIN slipsOf[r]
  PROVE  /\ SumFunction(Restrict(AmountAs(r, ct),
                                 {x \in LinesOf(r) : x[1] = e}))
              = Paid(slipsOf[r][e], ct)
         /\ Paid(slipsOf[r][e], ct) \in Int
<1> DEFINE s == slipsOf[r][e]
           S == DOMAIN s
           T == LinesOfOne(r, e)
           f == [i \in S |-> IF s[i].ct = ct THEN s[i].amount ELSE 0]
           g == Restrict(AmountAs(r, ct), T)
           key == [i \in S |-> <<e, i>>]
<1>1. {x \in LinesOf(r) : x[1] = e} = T
  <2>1. ASSUME NEW x \in LinesOf(r), x[1] = e PROVE x \in T
    BY <2>1, LineIsOfASlip DEF LinesOfOne
  <2>2. ASSUME NEW x \in T PROVE x \in LinesOf(r) /\ x[1] = e
    BY DEF LinesOfOne, LinesOf
  <2> QED
    BY <2>1, <2>2
<1>2. IsFiniteSet(S) /\ IsFiniteSet(T)
  BY LinesAreFinite
<1>3. T \subseteq LinesOf(r)
  BY <1>1
<1>4. g \in [T -> Int]
  BY <1>3, AmountsAreNumbers DEF Restrict
<1>5. /\ key \in [S -> T]
      /\ \A x, y \in S : key[x] = key[y] => x = y
      /\ \A t \in T : \E x \in S : key[x] = t
  BY DEF LinesOfOne
<1>6. ASSUME NEW i \in S PROVE f[i] \in Int /\ g[key[i]] = f[i]
  <2>1. /\ key[i] = <<e, i>> /\ key[i] \in T /\ key[i] \in LinesOf(r)
        /\ key[i][1] = e /\ key[i][2] = i
    BY <1>3, <1>5
  <2>2. LineAt(r, key[i]) = s[i] /\ s[i].amount \in Int
    <3>1. LineAt(r, key[i]) = s[i]
      BY <2>1 DEF LineAt
    <3>2. LineAt(r, key[i]).amount \in Nat
      <4> HIDE DEF key
      <4> QED
        BY <2>1, LineIsOfASlip
    <3> QED
      BY <3>1, <3>2
  <2>3. g[key[i]] = AmountAs(r, ct)[key[i]]
    <3> HIDE DEF key, T
    <3> QED
      BY <2>1 DEF Restrict
  <2>4. AmountAs(r, ct)[key[i]] = IF s[i].ct = ct THEN s[i].amount ELSE 0
    <3> HIDE DEF key
    <3> QED
      BY <2>1, <2>2 DEF AmountAs
  <2> QED
    BY <2>2, <2>3, <2>4
<1>7. f \in [S -> Int]
  BY <1>6
<1>8. SumFunction(f) = SumFunction(g) /\ SumFunction(f) \in Int
  <2> HIDE DEF f, g, key, S, T
  <2> QED
    BY <1>2, <1>4, <1>5, <1>6, <1>7, SumRenamed, SumIsInt
<1>9. Paid(s, ct) = SumFunction(f)
  BY DEF Paid
<1> HIDE DEF T, f
<1> QED
  BY <1>1, <1>8, <1>9

\* What the slips of a run pay is the sum over all its lines.
LEMMA TotalOverLines ==
  ASSUME NEW r, Countable(r), NEW ct
  PROVE  /\ SumFunction([e \in DOMAIN slipsOf[r] |-> Paid(slipsOf[r][e], ct)])
              = SumFunction(AmountAs(r, ct))
         /\ SumFunction(AmountAs(r, ct)) \in Int
<1> DEFINE S == LinesOf(r)
           T == DOMAIN slipsOf[r]
           f == AmountAs(r, ct)
           key == [x \in S |-> x[1]]
<1>1. IsFiniteSet(S) /\ IsFiniteSet(T) /\ f \in [S -> Int]
  BY LinesAreFinite, AmountsAreNumbers DEF Countable
<1>2. key \in [S -> T]
  BY LineIsOfASlip
<1>3. SumFunction(f)
        = SumFunction([t \in T |-> SumFunction(Restrict(f, {x \in S : key[x] = t}))])
  <2> HIDE DEF S, T, f, key
  <2> QED
    BY <1>1, <1>2, SumByKey
<1>4. ASSUME NEW t \in T
      PROVE  SumFunction(Restrict(f, {x \in S : key[x] = t})) = Paid(slipsOf[r][t], ct)
  <2>1. {x \in S : key[x] = t} = {x \in S : x[1] = t}
    OBVIOUS
  <2> HIDE DEF key
  <2> QED
    BY <2>1, PaidOverLines
<1>5. SumFunction(f) \in Int
  <2> HIDE DEF f, S
  <2> QED
    BY <1>1, SumIsInt
<1>6. [t \in T |-> SumFunction(Restrict(f, {x \in S : key[x] = t}))]
        = [t \in T |-> Paid(slipsOf[r][t], ct)]
  <2> HIDE DEF key, S, f
  <2> QED
    BY <1>4
<1> QED
  BY <1>3, <1>5, <1>6

\* Each component takes the lines of its name and kind, and every line has one:
\* what components of a kind amount to is what lines of that kind do.
LEMMA ComponentsTakeLines ==
  ASSUME NEW r, Countable(r), NEW ct, NEW K, IsFiniteSet(K),
         NEW entry \in [LinesOf(r) -> K],
         \A c \in K : \A x \in LinesOf(r) :
           entry[x] = c <=> LineAt(r, x).name = c.name /\ LineAt(r, x).ct = c.ct
  PROVE  /\ \A c \in K : AmountOf(r, c) \in Int
         /\ SumFunction([c \in K |-> IF c.ct = ct THEN AmountOf(r, c) ELSE 0])
              = SumFunction(AmountAs(r, ct))
<1> DEFINE S == LinesOf(r)
           f == AmountAs(r, ct)
           Of(c) == {x \in S : entry[x] = c}
           g == [c \in K |-> SumFunction(Restrict(f, Of(c)))]
<1>1. IsFiniteSet(S) /\ f \in [S -> Int]
  BY LinesAreFinite, AmountsAreNumbers
<1>2. SumFunction(f) = SumFunction(g)
  <2>1. entry \in [S -> K]
    OBVIOUS
  <2> HIDE DEF S, f
  <2>2. SumFunction(f)
          = SumFunction([c \in K |->
              SumFunction(Restrict(f, {x \in S : entry[x] = c}))])
    BY <1>1, <2>1, SumByKey
  <2> QED
    BY <2>2
<1>3. ASSUME NEW c \in K
      PROVE  /\ AmountOf(r, c) \in Int
             /\ g[c] = IF c.ct = ct THEN AmountOf(r, c) ELSE 0
  <2> DEFINE h == [x \in S |->
                     IF LineAt(r, x).name = c.name /\ LineAt(r, x).ct = c.ct
                       THEN LineAt(r, x).amount ELSE 0]
             T == Of(c)
  <2>1. h \in [S -> Int]
    <3>1. \A x \in S : LineAt(r, x).amount \in Int
      BY LineIsOfASlip
    <3> HIDE DEF S
    <3> QED
      BY <3>1
  <2>2. AmountOf(r, c) = SumFunction(h)
    BY DEF AmountOf
  <2>3. SumFunction(h) \in Int
    <3> HIDE DEF h, S
    <3> QED
      BY <1>1, <2>1, SumIsInt
  <2>4. T \in SUBSET S /\ IsFiniteSet(T)
    <3>1. T \in SUBSET S
      OBVIOUS
    <3> HIDE DEF T, S
    <3> QED
      BY <1>1, <3>1, FS_Subset
  <2>5. \A x \in S : x \in T <=> LineAt(r, x).name = c.name /\ LineAt(r, x).ct = c.ct
    OBVIOUS
  <2>6. \A x \in S \ T : h[x] = 0
    BY <2>5
  <2>7. SumFunction(h) = SumFunction(Restrict(h, T))
    <3> HIDE DEF h, S, T
    <3> QED
      BY <1>1, <2>1, <2>4, <2>6, SumSelected
  <2>8. CASE c.ct = ct
    <3>1. \A x \in T : h[x] = f[x]
      BY <2>4, <2>5, <2>8 DEF AmountAs
    <3>2. Restrict(h, T) = Restrict(f, T)
      <4> HIDE DEF h, f, T
      <4> QED
        BY <3>1 DEF Restrict
    <3> QED
      BY <2>2, <2>3, <2>7, <2>8, <3>2
  <2>9. CASE c.ct # ct
    <3>1. \A x \in T : f[x] = 0
      BY <2>4, <2>5, <2>9 DEF AmountAs
    <3> DEFINE k == Restrict(f, T)
    <3>2. k \in [T -> Int] /\ \A x \in T : k[x] = 0
      <4> HIDE DEF f, T
      <4> QED
        BY <3>1 DEF Restrict
    <3>3. SumFunction(k) = 0
      <4> HIDE DEF k, T
      <4> QED
        BY <2>4, <3>2, SumOfZeros
    <3> QED
      BY <2>2, <2>3, <2>9, <3>3
  <2> QED
    BY <2>8, <2>9
<1>4. g = [c \in K |-> IF c.ct = ct THEN AmountOf(r, c) ELSE 0]
  <2>1. g \in [K -> Int] /\ \A c \in K : g[c] = IF c.ct = ct THEN AmountOf(r, c) ELSE 0
    BY <1>3
  <2> QED
    BY <2>1
<1> QED
  BY <1>2, <1>3, <1>4

\* What components and people of two runs differ by is what their totals do.
LEMMA ComparisonOfTables ==
  ASSUME NEW id, NEW prev, Countable(id), Countable(prev), NEW ct
  PROVE  SumFunction([c \in ComponentsOf(id, prev) |->
                        IF c.ct = ct THEN c.current - c.previous ELSE 0])
           = SumFunction([e \in DOMAIN slipsOf[id] |-> Paid(slipsOf[id][e], ct)])
             - SumFunction([e \in DOMAIN slipsOf[prev] |-> Paid(slipsOf[prev][e], ct)])
<1> DEFINE K == ComponentsOf(id, prev)
           entry(l) == [name |-> l.name, ct |-> l.ct, current |-> AmountOf(id, l),
                        previous |-> AmountOf(prev, l)]
           C(r) == {LineAt(r, x) : x \in LinesOf(r)}
<1>1. K = {entry(c) : c \in C(id) \cup C(prev)}
  BY DEF ComponentsOf
<1>2. IsFiniteSet(K)
  <2>1. ASSUME NEW r \in {id, prev} PROVE IsFiniteSet(C(r))
    <3> DEFINE f == [x \in LinesOf(r) |-> LineAt(r, x)]
    <3>1. IsFiniteSet({f[x] : x \in LinesOf(r)})
      <4> HIDE DEF f
      <4> QED
        BY LinesAreFinite, FiniteImage
    <3> QED
      BY <3>1
  <2> DEFINE D == C(id) \cup C(prev)
             g == [c \in D |-> entry(c)]
  <2>2. IsFiniteSet(D)
    <3> HIDE DEF C
    <3> QED
      BY <2>1, FS_Union
  <2>3. IsFiniteSet({g[c] : c \in D})
    <3> HIDE DEF g, D
    <3> QED
      BY <2>2, FiniteImage
  <2> QED
    BY <1>1, <2>3
<1>3. ASSUME NEW c \in K
      PROVE  c.current = AmountOf(id, c) /\ c.previous = AmountOf(prev, c)
             /\ c = entry(c)
  <2>1. PICK l \in C(id) \cup C(prev) : c = entry(l)
    BY <1>1
  <2>2. c.name = l.name /\ c.ct = l.ct /\ c.current = AmountOf(id, l)
        /\ c.previous = AmountOf(prev, l)
    BY <2>1
  <2>3. AmountOf(id, c) = AmountOf(id, l) /\ AmountOf(prev, c) = AmountOf(prev, l)
    BY <2>2 DEF AmountOf
  <2> QED
    BY <2>1, <2>2, <2>3
<1>4. ASSUME NEW l, NEW c \in K, l.name = c.name, l.ct = c.ct
      PROVE  entry(l) = c
  <2>1. AmountOf(id, c) = AmountOf(id, l) /\ AmountOf(prev, c) = AmountOf(prev, l)
    BY <1>4 DEF AmountOf
  <2> QED
    BY <1>3, <1>4, <2>1
<1>5. ASSUME NEW r \in {id, prev}
      PROVE  /\ \A c \in K : AmountOf(r, c) \in Int
             /\ SumFunction([c \in K |-> IF c.ct = ct THEN AmountOf(r, c) ELSE 0])
                  = SumFunction([e \in DOMAIN slipsOf[r] |-> Paid(slipsOf[r][e], ct)])
             /\ SumFunction([c \in K |-> IF c.ct = ct THEN AmountOf(r, c) ELSE 0])
                  \in Int
  <2> DEFINE h == [x \in LinesOf(r) |-> entry(LineAt(r, x))]
  <2>1. h \in [LinesOf(r) -> K]
    BY <1>1
  <2>2. ASSUME NEW c \in K, NEW x \in LinesOf(r)
        PROVE  h[x] = c <=> LineAt(r, x).name = c.name /\ LineAt(r, x).ct = c.ct
    <3>1. h[x] = entry(LineAt(r, x))
      OBVIOUS
    <3>2. entry(LineAt(r, x)) = c =>
            LineAt(r, x).name = c.name /\ LineAt(r, x).ct = c.ct
      OBVIOUS
    <3> QED
      BY <1>4, <3>1, <3>2
  <2> HIDE DEF h, K
  <2>3. Countable(r)
    OBVIOUS
  <2>4. /\ \A c \in K : AmountOf(r, c) \in Int
        /\ SumFunction([c \in K |-> IF c.ct = ct THEN AmountOf(r, c) ELSE 0])
             = SumFunction(AmountAs(r, ct))
    BY <1>2, <2>1, <2>2, <2>3, ComponentsTakeLines
  <2> QED
    BY <2>3, <2>4, TotalOverLines
<1> DEFINE now == [c \in K |-> IF c.ct = ct THEN AmountOf(id, c) ELSE 0]
           was == [c \in K |-> IF c.ct = ct THEN AmountOf(prev, c) ELSE 0]
           back == [c \in K |-> (-1) * was[c]]
<1>6. now \in [K -> Int] /\ was \in [K -> Int] /\ back \in [K -> Int]
  <2> HIDE DEF K
  <2> QED
    BY <1>5
<1>7. SumFunction(back) = (-1) * SumFunction(was)
  <2> HIDE DEF K, was
  <2> QED
    BY <1>2, <1>6, SumTimes
<1>8. SumFunction([c \in K |-> now[c] + back[c]])
        = SumFunction(now) + SumFunction(back)
  <2> HIDE DEF K, now, back
  <2> QED
    BY <1>2, <1>6, SumPlus
<1>9. [c \in K |-> now[c] + back[c]]
        = [c \in K |-> IF c.ct = ct THEN c.current - c.previous ELSE 0]
  <2>1. ASSUME NEW c \in K
        PROVE  now[c] + back[c] = IF c.ct = ct THEN c.current - c.previous ELSE 0
    <3> HIDE DEF K
    <3> QED
      BY <1>3, <1>5
  <2> HIDE DEF now, back, K
  <2> QED
    BY <2>1
<1> HIDE DEF K
<1>10. SumFunction(was) \in Int /\ SumFunction(now) \in Int
  BY <1>5
<1>11. SumFunction(now) + SumFunction(back) = SumFunction(now) - SumFunction(was)
  <2> HIDE DEF now, back, was
  <2> QED
    BY <1>7, <1>10
<1> QED
  BY <1>5, <1>8, <1>9, <1>11 DEF K

\* Who joined less who left is the difference of the headcounts, and only who
\* stayed can have changed.
LEMMA MovementOfTables ==
  ASSUME NEW id, NEW prev, Countable(id), Countable(prev)
  PROVE  LET m == Movement(id, prev)
         IN  /\ m.joined - m.left = TotalsOf(id).headcount - TotalsOf(prev).headcount
             /\ m.changed <= TotalsOf(id).headcount - m.joined
<1> DEFINE S == DOMAIN slipsOf[id]
           T == DOMAIN slipsOf[prev]
           U == {e \in Both(id, prev) : 10 * AbsOf(GrossIn(id, e) - GrossIn(prev, e))
                                          > AbsOf(GrossIn(prev, e))}
<1>1. IsFiniteSet(S) /\ IsFiniteSet(T)
  BY DEF Countable
<1>2. U \in SUBSET (S \cap T)
  BY DEF Both
<1>3. Movement(id, prev) = [joined |-> Cardinality(S \ T), left |-> Cardinality(T \ S),
                            changed |-> Cardinality(U)]
  BY DEF Movement
<1>4. TotalsOf(id).headcount = Cardinality(S) /\ TotalsOf(prev).headcount = Cardinality(T)
  BY DEF TotalsOf
<1> HIDE DEF S, T, U
<1>5. /\ Cardinality(S \ T) = Cardinality(S) - Cardinality(S \cap T)
      /\ Cardinality(T \ S) = Cardinality(T) - Cardinality(T \cap S)
      /\ S \cap T = T \cap S
  BY <1>1, FS_Difference
<1>6. /\ Cardinality(S) \in Nat /\ Cardinality(T) \in Nat
      /\ Cardinality(S \cap T) \in Nat /\ Cardinality(U) \in Nat
      /\ Cardinality(U) <= Cardinality(S \cap T)
  <2>1. IsFiniteSet(S \cap T)
    BY <1>1, FS_Intersection
  <2>2. IsFiniteSet(U) /\ Cardinality(U) <= Cardinality(S \cap T)
    BY <1>2, <2>1, FS_Subset
  <2> QED
    BY <1>1, <2>1, <2>2, FS_CardinalityType
<1> QED
  BY <1>3, <1>4, <1>5, <1>6

-------------------------------------------------------------------------------
(* Pages of an order *)

\* Whoever comes first of two has the lower place, and the places are as many
\* as the people: each is somebody's.
LEMMA PlacesAreTaken ==
  ASSUME NEW P, IsFiniteSet(P), NEW place,
         \A p \in P : p.change \in Int /\ p.employee \in Int,
         \A p, q \in P : p.employee = q.employee => p = q,
         place = [p \in P |-> Cardinality({q \in P : ComesFirst(q, p)}) + 1]
  PROVE  /\ Cardinality(P) \in Nat
         /\ \A p \in P : place[p] \in 1..Cardinality(P)
         /\ \A n \in 1..Cardinality(P) : \E p \in P : place[p] = n
         /\ \A p, q \in P : place[p] = place[q] => p = q
         /\ \A p, q \in P : place[p] < place[q] => ComesFirst(p, q)
<1> DEFINE n == Cardinality(P)
           Before(p) == {q \in P : ComesFirst(q, p)}
<1>1. n \in Nat
  BY FS_CardinalityType
<1>2. \A p \in P : ~ComesFirst(p, p)
  BY DEF ComesFirst, AbsOf
<1>3. \A p, q, r \in P : ComesFirst(p, q) /\ ComesFirst(q, r) => ComesFirst(p, r)
  BY DEF ComesFirst, AbsOf
<1>4. \A p, q \in P : p # q => ComesFirst(p, q) \/ ComesFirst(q, p)
  BY DEF ComesFirst, AbsOf
<1>5. ASSUME NEW p \in P
      PROVE  /\ IsFiniteSet(Before(p)) /\ Cardinality(Before(p)) \in Nat
             /\ place[p] = Cardinality(Before(p)) + 1
             /\ place[p] \in 1..n
  <2>1. Before(p) \in SUBSET (P \ {p})
    BY <1>2
  <2>2. IsFiniteSet(P \ {p}) /\ Cardinality(P \ {p}) = n - 1
    BY FS_RemoveElement
  <2>3. place[p] = Cardinality(Before(p)) + 1
    OBVIOUS
  <2> HIDE DEF Before, n
  <2>4. IsFiniteSet(Before(p)) /\ Cardinality(Before(p)) <= n - 1
    BY <2>1, <2>2, FS_Subset
  <2>5. Cardinality(Before(p)) \in Nat
    BY <2>4, FS_CardinalityType
  <2> QED
    BY <1>1, <2>3, <2>4, <2>5
<1> HIDE DEF n, Before
<1>0. \A p \in P : place[p] \in Int
  BY ONLY <1>1, <1>5
<1>6. ASSUME NEW p \in P, NEW q \in P, ComesFirst(p, q)
      PROVE  place[p] < place[q]
  <2>1. Before(p) \cup {p} \in SUBSET Before(q) /\ p \notin Before(p)
    BY <1>2, <1>3, <1>6 DEF Before
  <2>2. Cardinality(Before(p) \cup {p}) = Cardinality(Before(p)) + 1
    BY <1>5, <2>1, FS_AddElement
  <2>3. Cardinality(Before(p) \cup {p}) <= Cardinality(Before(q))
    BY <1>5, <2>1, FS_Subset
  <2> QED
    BY <1>5, <2>2, <2>3
<1>7. ASSUME NEW p \in P, NEW q \in P, place[p] = place[q] PROVE p = q
  <2>1. ~(place[p] < place[q]) /\ ~(place[q] < place[p])
    BY ONLY <1>0, <1>7
  <2> QED
    BY ONLY <1>4, <1>6, <2>1
<1>8. ASSUME NEW p \in P, NEW q \in P, place[p] < place[q] PROVE ComesFirst(p, q)
  <2>1. ~(place[q] < place[p]) /\ p # q
    BY ONLY <1>0, <1>8
  <2> QED
    BY ONLY <1>4, <1>6, <2>1
<1>9. place \in Injection(P, 1..n)
  <2>1. place \in [P -> 1..n]
    <3>1. \A p \in P : Cardinality({q \in P : ComesFirst(q, p)}) + 1 \in 1..n
      BY <1>5 DEF Before
    <3> QED
      BY <3>1
  <2>2. \A p, q \in P : place[p] = place[q] => p = q
    BY <1>7
  <2>3. Injection(P, 1..n)
          = {f \in [P -> 1..n] : \A p, q \in P : f[p] = f[q] => p = q}
    BY Zenon DEF Injection, IsInjective
  <2> QED
    BY ONLY <2>1, <2>2, <2>3
<1>10. IsFiniteSet(1..n) /\ Cardinality(1..n) = n
  BY <1>1, FS_Interval
<1>11. place \in Surjection(P, 1..n)
  <2>1. Cardinality(P) = Cardinality(1..n)
    BY <1>10 DEF n
  <2> QED
    BY ONLY <1>9, <1>10, <2>1, FS_Injection
<1> QED
  BY <1>1, <1>5, <1>7, <1>8, <1>11 DEF Surjection, n

\* Counting goes from page to page: every number is on one.
LEMMA PagesReachAll ==
  ASSUME NEW size \in Nat \ {0}, NEW n \in Nat
  PROVE  \E k \in 1..(n + 1) : \E i \in 1..size : (k - 1) * size + i = n + 1
<1> DEFINE G == {m \in Nat : \E k \in 1..(m + 1) : \E i \in 1..size :
                               (k - 1) * size + i = m + 1}
<1>1. 0 \in G
  <2>1. 1 \in 1..(0 + 1) /\ 1 \in 1..size
    OBVIOUS
  <2>2. (1 - 1) * size + 1 = 0 + 1
    OBVIOUS
  <2> QED
    BY <2>1, <2>2
<1>2. ASSUME NEW m \in G PROVE m + 1 \in G
  <2>0. m + 1 \in Nat
    OBVIOUS
  <2>1. PICK k \in 1..(m + 1), i \in 1..size : (k - 1) * size + i = m + 1
    OBVIOUS
  <2>2. CASE i < size
    <3>1. i + 1 \in 1..size /\ k \in 1..(m + 1 + 1)
      BY <2>2
    <3> DEFINE a == (k - 1) * size
    <3>2. a \in Int
      OBVIOUS
    <3>3. a + (i + 1) = m + 1 + 1
      <4>1. a + i = m + 1
        BY <2>1
      <4> HIDE DEF a
      <4> QED
        BY <3>2, <4>1
    <3>4. \E j \in 1..size : (k - 1) * size + j = m + 1 + 1
      BY <3>1, <3>3
    <3>5. \E l \in 1..(m + 1 + 1) : \E j \in 1..size : (l - 1) * size + j = m + 1 + 1
      BY <3>1, <3>4
    <3> QED
      BY <2>0, <3>5, Zenon
  <2>3. CASE i = size
    <3>1. k + 1 \in 1..(m + 1 + 1) /\ 1 \in 1..size
      OBVIOUS
    <3>2. ((k + 1) - 1) * size = (k - 1) * size + size
      OBVIOUS
    <3> DEFINE a == (k - 1) * size
               b == ((k + 1) - 1) * size
    <3>3. a \in Int /\ b = a + size /\ a + size = m + 1
      BY <2>1, <2>3, <3>2
    <3>4. b + 1 = m + 1 + 1
      <4> HIDE DEF a, b
      <4> QED
        BY <3>3
    <3>5. \E j \in 1..size : ((k + 1) - 1) * size + j = m + 1 + 1
      BY <3>1, <3>4
    <3>6. \E l \in 1..(m + 1 + 1) : \E j \in 1..size : (l - 1) * size + j = m + 1 + 1
      <4> DEFINE On(l) == \E j \in 1..size : (l - 1) * size + j = m + 1 + 1
      <4>1. On(k + 1)
        BY <3>5
      <4> HIDE DEF On
      <4>2. \E l \in 1..(m + 1 + 1) : On(l)
        BY <3>1, <4>1
      <4> QED
        BY <4>2 DEF On
    <3> QED
      BY <2>0, <3>6, Zenon
  <2> QED
    BY <2>2, <2>3
<1>3. G = Nat
  <2> HIDE DEF G
  <2>1. G \in SUBSET Nat
    BY DEF G
  <2> QED
    BY <1>1, <1>2, <2>1, NumbersGrow
<1>4. n \in G
  BY <1>3
<1> QED
  BY <1>4

\* What is on a later page is numbered higher.
LEMMA PagesAreInOrder ==
  ASSUME NEW size \in Nat \ {0}, NEW k \in Nat, NEW l \in Nat, k < l,
         NEW i \in 1..size, NEW j \in 1..size
  PROVE  (k - 1) * size + i < (l - 1) * size + j
<1> DEFINE a == (k - 1) * size
           b == (l - k) * size
<1>1. (l - 1) * size = a + b /\ a \in Int /\ b \in Int
  OBVIOUS
<1>2. b >= size
  <2>1. PICK d \in Nat : l - k = d + 1
    OBVIOUS
  <2>2. b = d * size + size /\ d * size \in Nat
    BY <2>1
  <2> QED
    BY <2>2
<1> HIDE DEF a, b
<1>3. a + i < a + b + j
  BY <1>1, <1>2
<1> QED
  BY <1>1, <1>3 DEF a

\* The order has everyone of either run once, whoever comes first before the
\* others.
LEMMA RankedIsOrder ==
  ASSUME NEW id, NEW prev, NEW all, all = Everyone(id, prev),
         IsFiniteSet(all), all \subseteq Int,
         \A e \in all : GrossIn(id, e) \in Int /\ GrossIn(prev, e) \in Int
  PROVE  LET R == Ranked(id, prev)
         IN  /\ DOMAIN R = 1..Cardinality(all) /\ Len(R) = Cardinality(all)
             /\ \A m \in 1..Cardinality(all) :
                  /\ R[m].employee \in all
                  /\ R[m].change = GrossIn(id, R[m].employee)
                                     - GrossIn(prev, R[m].employee)
             /\ \A e \in all : \E m \in 1..Cardinality(all) : R[m].employee = e
             /\ \A l, m \in 1..Cardinality(all) :
                  /\ R[l].employee = R[m].employee => l = m
                  /\ l < m => ComesFirst(R[l], R[m])
<1> DEFINE P == {PersonChange(id, prev, e) : e \in Everyone(id, prev)}
           place == [p \in P |-> Cardinality({q \in P : ComesFirst(q, p)}) + 1]
           f == [e \in all |-> PersonChange(id, prev, e)]
           n == Cardinality(all)
           R == [m \in 1..Cardinality(P) |-> CHOOSE p \in P : place[p] = m]
<1>1. \A e \in all : /\ f[e] \in P /\ f[e].employee = e
                     /\ f[e].change = GrossIn(id, e) - GrossIn(prev, e)
  BY DEF PersonChange
<1>2. \A p \in P : \E e \in all : f[e] = p
  OBVIOUS
<1>3. IsFiniteSet(P) /\ Cardinality(P) = n
  <2>1. f \in [all -> P]
    OBVIOUS
  <2> HIDE DEF f, P
  <2>2. f \in Surjection(all, P) /\ f \in Injection(all, P)
    BY <1>1, <1>2, <2>1 DEF Surjection, Injection, IsInjective
  <2> QED
    BY <2>2, FS_Surjection
<1>4. /\ \A p \in P : p.employee \in all /\ p.change \in Int /\ p.employee \in Int
                      /\ p.change = GrossIn(id, p.employee) - GrossIn(prev, p.employee)
      /\ \A p, q \in P : p.employee = q.employee => p = q
  <2> HIDE DEF f, P
  <2> QED
    BY <1>1, <1>2
<1>5. Ranked(id, prev) = R
  BY Zenon DEF Ranked
<1>6. place = [p \in P |-> Cardinality({q \in P : ComesFirst(q, p)}) + 1]
  OBVIOUS
<1> HIDE DEF P, place
<1>7. /\ n \in Nat
      /\ \A p \in P : place[p] \in 1..n
      /\ \A m \in 1..n : \E p \in P : place[p] = m
      /\ \A p, q \in P : place[p] = place[q] => p = q
      /\ \A p, q \in P : place[p] < place[q] => ComesFirst(p, q)
  <2>1. \A p \in P : p.change \in Int /\ p.employee \in Int
    BY ONLY <1>4
  <2>2. \A p, q \in P : p.employee = q.employee => p = q
    BY ONLY <1>4
  <2>3. IsFiniteSet(P) /\ n = Cardinality(P)
    BY ONLY <1>3
  <2> HIDE DEF n, R, f
  <2> QED
    BY ONLY <1>6, <2>1, <2>2, <2>3, PlacesAreTaken
<1>8. DOMAIN R = 1..n /\ Len(R) = n
  BY <1>3, <1>7
<1>9. \A m \in 1..n : R[m] \in P /\ place[R[m]] = m
  BY <1>3, <1>7
<1> HIDE DEF R
<1>10. ASSUME NEW e \in all PROVE \E m \in 1..n : R[m].employee = e
  <2>1. f[e] \in P /\ f[e].employee = e
    BY <1>1
  <2>2. place[f[e]] \in 1..n
    BY <1>7, <2>1
  <2>3. R[place[f[e]]] = f[e]
    BY <1>7, <1>9, <2>1, <2>2
  <2> QED
    BY <2>1, <2>2, <2>3
<1>11. \A l, m \in 1..n : R[l].employee = R[m].employee => l = m
  BY ONLY <1>4, <1>9
<1>12. \A l, m \in 1..n : l < m => ComesFirst(R[l], R[m])
  BY <1>7, <1>9
<1> HIDE DEF n, f
<1> QED
  BY <1>4, <1>5, <1>8, <1>9, <1>10, <1>11, <1>12 DEF n

\* The first n pages of an order, and the places on them.
PagesOf(R, n, limit) ==
  [k \in 1..n |-> Page(R, limit, (k - 1) * PageSize(limit))]
PlacesOn(pages, size) ==
  {x \in (DOMAIN pages) \X (1..size) : x[2] \in DOMAIN pages[x[1]]}

\* The places on n pages are n, and R's in the order of the pages.
Partition(pages, places, R, n) ==
  /\ IsFiniteSet(places) /\ Cardinality(places) = n
  /\ \E at \in [places -> 1..n] :
       /\ \A x \in places : pages[x[1]][x[2]] = R[at[x]]
       /\ \A x, y \in places :
            /\ at[x] = at[y] => x = y
            /\ x[1] < y[1] \/ (x[1] = y[1] /\ x[2] < y[2]) => at[x] < at[y]
       /\ \A m \in 1..n : \E x \in places : at[x] = m

\* One page after the other of R: together they have each place of it once.
LEMMA PagesPartition ==
  ASSUME MaxPage \in Nat \ {0}, NEW n \in Nat, NEW R, Len(R) = n,
         NEW limit \in Int
  PROVE  Partition(PagesOf(R, n, limit),
                   PlacesOn(PagesOf(R, n, limit), PageSize(limit)), R, n)
<1> DEFINE size == PageSize(limit)
           pages == PagesOf(R, n, limit)
           places == PlacesOn(pages, size)
           at == [x \in places |-> (x[1] - 1) * size + x[2]]
<1>0. /\ pages = [k \in 1..n |-> Page(R, limit, (k - 1) * size)]
      /\ places = {x \in (DOMAIN pages) \X (1..size) : x[2] \in DOMAIN pages[x[1]]}
  BY Zenon DEF PagesOf, PlacesOn
<1>1. size \in Nat \ {0}
  BY DEF PageSize
<1> HIDE DEF size, pages, places
<1>2. ASSUME NEW k \in 1..n, NEW i \in 1..size
      PROVE  /\ i \in DOMAIN pages[k] <=> (k - 1) * size + i <= n
             /\ i \in DOMAIN pages[k] => pages[k][i] = R[(k - 1) * size + i]
  <2> DEFINE a == (k - 1) * size
  <2>1. a \in Nat
    <3>1. k - 1 \in Nat
      OBVIOUS
    <3> QED
      BY <1>1, <3>1
  <2>2. pages[k] = Page(R, limit, a)
    BY <1>0
  <2> HIDE DEF a
  <2>3. PageStart(a) = a
    BY <2>1 DEF PageStart
  <2>4. Page(R, limit, a)
          = [j \in 1..(IF size < n - a THEN size ELSE n - a) |-> R[a + j]]
    BY <2>3 DEF Page, size
  <2>5. i \in 1..(IF size < n - a THEN size ELSE n - a) <=> a + i <= n
    BY <1>1, <2>1
  <2>6. /\ i \in DOMAIN pages[k] <=> a + i <= n
        /\ i \in DOMAIN pages[k] => pages[k][i] = R[a + i]
    BY <2>2, <2>4, <2>5
  <2> QED
    BY <2>6 DEF a
<1>3. \A x \in places : /\ x[1] \in 1..n /\ x[2] \in 1..size
                        /\ x = <<x[1], x[2]>> /\ x[2] \in DOMAIN pages[x[1]]
  BY <1>0
<1>4. ASSUME NEW k \in 1..n, NEW i \in 1..size, (k - 1) * size + i <= n
      PROVE  <<k, i>> \in places /\ at[<<k, i>>] = (k - 1) * size + i
  <2>1. i \in DOMAIN pages[k]
    BY <1>2, <1>4
  <2>2. <<k, i>> \in places
    BY <1>0, <2>1
  <2> QED
    BY <2>2
<1>5. \A x \in places : /\ at[x] = (x[1] - 1) * size + x[2]
                        /\ at[x] \in 1..n
                        /\ pages[x[1]][x[2]] = R[at[x]]
  <2> SUFFICES ASSUME NEW x \in places
               PROVE  /\ at[x] = (x[1] - 1) * size + x[2]
                      /\ at[x] \in 1..n
                      /\ pages[x[1]][x[2]] = R[at[x]]
    OBVIOUS
  <2>1. /\ (x[1] - 1) * size + x[2] <= n
        /\ pages[x[1]][x[2]] = R[(x[1] - 1) * size + x[2]]
    BY <1>2, <1>3
  <2>2. (x[1] - 1) * size \in Nat
    <3>1. x[1] - 1 \in Nat
      BY <1>3
    <3> QED
      BY <1>1, <3>1
  <2> DEFINE a == (x[1] - 1) * size
  <2>3. at[x] = a + x[2]
    OBVIOUS
  <2>4. a + x[2] \in 1..n
    <3>1. a \in Nat /\ x[2] \in 1..size /\ a + x[2] <= n
      BY <1>3, <2>1, <2>2
    <3> HIDE DEF a
    <3> QED
      BY <1>1, <3>1
  <2> QED
    BY <2>1, <2>3, <2>4
<1>6. ASSUME NEW x \in places, NEW y \in places,
             x[1] < y[1] \/ (x[1] = y[1] /\ x[2] < y[2])
      PROVE  at[x] < at[y]
  <2>1. CASE x[1] < y[1]
    <3> DEFINE k == x[1]
               l == y[1]
               i == x[2]
               j == y[2]
    <3>1. at[x] = (k - 1) * size + i /\ at[y] = (l - 1) * size + j
      BY <1>5
    <3>2. k \in Nat /\ l \in Nat /\ k < l /\ i \in 1..size /\ j \in 1..size
      BY <1>3, <2>1
    <3> HIDE DEF k, l, i, j, at
    <3>3. (k - 1) * size + i < (l - 1) * size + j
      BY ONLY <1>1, <3>2, PagesAreInOrder
    <3> QED
      BY <3>1, <3>3
  <2>2. CASE x[1] = y[1] /\ x[2] < y[2]
    <3> DEFINE a == (x[1] - 1) * size
    <3>1. at[x] = a + x[2] /\ at[y] = a + y[2] /\ a \in Int
      BY <1>1, <1>3, <1>5, <2>2
    <3> HIDE DEF a, at
    <3>2. x[2] \in Int /\ y[2] \in Int
      BY <1>1, <1>3
    <3> QED
      BY <2>2, <3>1, <3>2
  <2> QED
    BY <1>6, <2>1, <2>2
<1> HIDE DEF at
<1>7. ASSUME NEW x \in places, NEW y \in places, at[x] = at[y] PROVE x = y
  <2>1. ~(at[x] < at[y]) /\ ~(at[y] < at[x])
    <3>1. at[x] \in Int
      BY <1>5
    <3> QED
      BY ONLY <1>7, <3>1
  <2>2. x[1] \in Int /\ y[1] \in Int /\ x[2] \in Int /\ y[2] \in Int
    BY <1>1, <1>3
  <2>3. x[1] = y[1] /\ x[2] = y[2]
    BY ONLY <1>6, <2>1, <2>2
  <2> QED
    BY <1>3, <2>3
<1>8. ASSUME NEW m \in 1..n PROVE \E x \in places : at[x] = m
  <2>1. m - 1 \in Nat /\ (m - 1) + 1 = m
    OBVIOUS
  <2> DEFINE p == m - 1
  <2>2. p \in Nat /\ p + 1 = m
    BY <2>1
  <2> HIDE DEF p
  <2>3. \E k \in 1..(p + 1) : \E i \in 1..size : (k - 1) * size + i = p + 1
    BY ONLY <1>1, <2>2, PagesReachAll
  <2>4. PICK k \in 1..m, i \in 1..size : (k - 1) * size + i = m
    BY <2>2, <2>3, Zenon
  <2>5. k \in 1..n /\ (k - 1) * size + i <= n
    BY <2>4
  <2> QED
    BY <1>4, <2>4, <2>5
<1>9. at \in [places -> 1..n]
  BY <1>5 DEF at
<1>10. IsFiniteSet(places) /\ Cardinality(places) = n
  <2>1. IsFiniteSet(1..n) /\ Cardinality(1..n) = n
    BY FS_Interval
  <2>2. at \in Injection(places, 1..n) /\ at \in Surjection(places, 1..n)
    BY ONLY <1>7, <1>8, <1>9 DEF Injection, IsInjective, Surjection
  <2> QED
    BY ONLY <2>1, <2>2, FS_Injection
<1>11. /\ \A x, y \in places :
            /\ at[x] = at[y] => x = y
            /\ x[1] < y[1] \/ (x[1] = y[1] /\ x[2] < y[2]) => at[x] < at[y]
       /\ \A m \in 1..n : \E x \in places : at[x] = m
       /\ \A x \in places : pages[x[1]][x[2]] = R[at[x]]
  BY ONLY <1>5, <1>6, <1>7, <1>8
<1> QED
  BY <1>9, <1>10, <1>11, Zenon DEF size, pages, places, Partition

-------------------------------------------------------------------------------
(* The inductive invariant *)

\* prev is a run of a period before id's, final unless s says it was cancelled,
\* and no run that was final before what s says of it is of a later one; without
\* prev there was none.
Latest(prev, id, s) ==
  LET before == {p \in Earlier(id) : <<p, "processed">> \notin s}
  IN  IF prev = Nobody THEN before = {}
      ELSE /\ prev \in Runs /\ Period[prev] < Period[id]
           /\ prev \in Earlier(id) \/ <<prev, "cancelled">> \in s
           /\ \A p \in before : Period[p] <= Period[prev]

\* A comparison keeps its request, and the run it found stays the latest of
\* those that were final when it began and still are.
ReadingHolds ==
  /\ "at" \in DOMAIN read
  /\ ~ReadAt("idle") =>
       /\ "request" \in DOMAIN read
       /\ read.request \in Requests
  /\ ReadAt("totals") \/ ReadAt("movement") \/ ReadAt("components") \/ ReadAt("people") =>
       /\ "prev" \in DOMAIN read
       /\ Latest(read.prev, read.request.id, sinceRead)

AnswerHolds == \A a \in answer : Latest(a.prev, a.request.id, a.since)

ReadsInv ==
  /\ TablesTyped(runs, slipsOf)
  /\ ReadingHolds
  /\ AnswerHolds
  /\ \A p \in payslips : p.run \in Runs
  /\ PayslipsStand

\* The invariant of what is read, at first and after each step.
LEMMA ReadsInit ==
  ASSUME ReadsAssumption, ReadInit
  PROVE  ReadsInv
  BY DEF ReadsAssumption, ReadInit, ReadsInv, ReadingHolds, AnswerHolds,
         PayslipsStand, ReadAt, NoRead

-------------------------------------------------------------------------------
(* The statements of a comparison *)

\* A statement adds what it found and keeps the rest.
LEMMA ThenKeeps ==
  ASSUME ReadingHolds, NEW label, NEW found, ReadOn(label, found),
         "at" \notin DOMAIN found, "request" \notin DOMAIN found
  PROVE  /\ read'.at = label /\ "at" \in DOMAIN read'
         /\ "request" \in DOMAIN read =>
              "request" \in DOMAIN read' /\ read'.request = read.request
         /\ "prev" \in DOMAIN read /\ "prev" \notin DOMAIN found =>
              "prev" \in DOMAIN read' /\ read'.prev = read.prev
         /\ "prev" \in DOMAIN found =>
              "prev" \in DOMAIN read' /\ read'.prev = found.prev
  BY DEF ReadOn, Merged, ReadingHolds

\* A statement that leaves the tables and answers alone.
LEMMA ReadStep ==
  ASSUME ReadsInv, OnlyReads, ReadingHolds', AnswerHolds'
  PROVE  ReadsInv'
  BY DEF ReadsInv, OnlyReads, readTables, PayslipsStand

\* The last statement answers with what was read.
LEMMA AnswerStep ==
  ASSUME ReadsInv, UNCHANGED <<readTables, payslips>>,
         ReadAt("totals") \/ ReadAt("people"),
         NEW a, Answer(a), "since" \in DOMAIN a, a.since = sinceRead,
         "prev" \notin DOMAIN a, "request" \notin DOMAIN a
  PROVE  ReadsInv'
<1>1. /\ "prev" \in DOMAIN read /\ "request" \in DOMAIN read
      /\ Latest(read.prev, read.request.id, sinceRead)
  BY DEF ReadsInv, ReadingHolds, ReadAt
<1>2. /\ Merged(read, a).prev = read.prev
      /\ Merged(read, a).request = read.request
      /\ Merged(read, a).since = sinceRead
  BY <1>1 DEF Merged
<1>3. AnswerHolds'
  BY <1>1, <1>2 DEF Answer, AnswerHolds, Latest, Earlier, readTables
<1>4. ReadingHolds'
  BY DEF Answer, NoRead, ReadingHolds, ReadAt
<1> QED
  BY <1>3, <1>4 DEF ReadsInv, readTables, PayslipsStand

LEMMA ComparisonStep ==
  ASSUME ReadsAssumption, ReadsInv,
         \/ \E q \in Requests : ReadHeader(q)
         \/ ReadPrevious \/ ReadTotals
         \/ ReadMovement \/ ReadComponents \/ ReadPeople
  PROVE  ReadsInv'
<1>0. ReadingHolds /\ AnswerHolds
  BY DEF ReadsInv
<1>1. ASSUME NEW q \in Requests, ReadHeader(q) PROVE ReadsInv'
  <2>1. ReadingHolds' /\ AnswerHolds'
    BY <1>1 DEF ReadHeader, ReadingHolds, AnswerHolds, ReadAt
  <2> QED
    BY <1>1, <2>1, ReadStep DEF ReadHeader
<1>2. CASE ReadPrevious
  <2> DEFINE id == read.request.id
  <2>1. /\ "request" \in DOMAIN read /\ read.request \in Requests /\ id \in Runs
    BY <1>0, <1>2 DEF ReadPrevious, ReadingHolds, ReadAt, ReadsAssumption
  <2>2. \A q \in Runs : Period[q] \in Nat
    BY DEF ReadsAssumption
  <2>3. PICK prev : /\ ReadOn("totals", [prev |-> prev])
                    /\ \/ prev = Nobody /\ PreviousRuns(id) = {}
                       \/ prev \in PreviousRuns(id)
    BY <1>2 DEF ReadPrevious
  <2>4. Latest(prev, id, sinceRead)
    <3>1. CASE prev = Nobody /\ PreviousRuns(id) = {}
      BY <2>1, <3>1, LatestExists DEF Latest
    <3>2. CASE prev \in PreviousRuns(id)
      BY <3>2 DEF Latest, PreviousRuns, Earlier, ReadsAssumption
    <3> QED
      BY <2>3, <3>1, <3>2
  <2>5. /\ read'.at = "totals" /\ "at" \in DOMAIN read'
        /\ "request" \in DOMAIN read' /\ read'.request = read.request
        /\ "prev" \in DOMAIN read' /\ read'.prev = prev
    <3> DEFINE found == [prev |-> prev]
    <3>1. /\ "prev" \in DOMAIN found /\ found.prev = prev
          /\ "at" \notin DOMAIN found /\ "request" \notin DOMAIN found
      OBVIOUS
    <3>2. ReadOn("totals", found)
      BY <2>3
    <3> HIDE DEF found
    <3> QED
      BY <1>0, <2>1, <3>1, <3>2, ThenKeeps
  <2>6. ReadingHolds' /\ AnswerHolds'
    BY <1>0, <1>2, <2>1, <2>3, <2>4, <2>5
       DEF ReadPrevious, OnlyReads, readTables, ReadOn, ReadingHolds, AnswerHolds, ReadAt,
           Latest, Earlier
  <2> QED
    BY <1>2, <2>6, ReadStep DEF ReadPrevious
<1>3. ASSUME NEW label \in {"movement", "components", "people"}, NEW found,
             ReadAt("totals") \/ ReadAt("movement") \/ ReadAt("components"),
             ReadOn(label, found), OnlyReads, "at" \notin DOMAIN found,
             "request" \notin DOMAIN found, "prev" \notin DOMAIN found
      PROVE  ReadsInv'
  <2>1. /\ read'.at = label /\ "at" \in DOMAIN read'
        /\ "request" \in DOMAIN read' /\ read'.request = read.request
        /\ "prev" \in DOMAIN read' /\ read'.prev = read.prev
        /\ read.request \in Requests
        /\ Latest(read.prev, read.request.id, sinceRead)
    BY <1>0, <1>3, ThenKeeps DEF ReadingHolds, ReadAt
  <2>2. ReadingHolds' /\ AnswerHolds'
    BY <1>0, <1>3, <2>1
       DEF OnlyReads, readTables, ReadOn, ReadingHolds, AnswerHolds, ReadAt, Latest, Earlier
  <2> QED
    BY <1>3, <2>2, ReadStep
<1>4. CASE ReadTotals
  <2> DEFINE id == read.request.id
             short == [current |-> TotalsOf(id), since |-> sinceRead]
             found == [current |-> TotalsOf(id), previous |-> TotalsOf(read.prev)]
  <2>1. /\ "since" \in DOMAIN short /\ short.since = sinceRead
        /\ "prev" \notin DOMAIN short /\ "request" \notin DOMAIN short
        /\ "at" \notin DOMAIN found /\ "request" \notin DOMAIN found
        /\ "prev" \notin DOMAIN found
    OBVIOUS
  <2>2. /\ ReadAt("totals")
        /\ \/ Answer(short) /\ UNCHANGED <<readTables, payslips>>
           \/ ReadOn("movement", found) /\ OnlyReads
    BY <1>4 DEF ReadTotals
  <2> HIDE DEF short, found
  <2> QED
    BY <1>3, <2>1, <2>2, AnswerStep
<1>5. CASE ReadMovement
  <2> DEFINE found == [movement |-> Movement(read.request.id, read.prev)]
  <2>1. /\ "at" \notin DOMAIN found /\ "request" \notin DOMAIN found
        /\ "prev" \notin DOMAIN found
    OBVIOUS
  <2>2. ReadAt("movement") /\ ReadOn("components", found) /\ OnlyReads
    BY <1>5 DEF ReadMovement
  <2> HIDE DEF found
  <2> QED
    BY <1>3, <2>1, <2>2
<1>6. CASE ReadComponents
  <2> DEFINE found == [components |-> ComponentsOf(read.request.id, read.prev)]
  <2>1. /\ "at" \notin DOMAIN found /\ "request" \notin DOMAIN found
        /\ "prev" \notin DOMAIN found
    OBVIOUS
  <2>2. ReadAt("components") /\ ReadOn("people", found) /\ OnlyReads
    BY <1>6 DEF ReadComponents
  <2> HIDE DEF found
  <2> QED
    BY <1>3, <2>1, <2>2
<1>7. CASE ReadPeople
  <2> DEFINE q == read.request
             full == [people |-> Page(Ranked(q.id, read.prev), q.limit, q.offset),
                      since  |-> sinceRead]
  <2>1. /\ "since" \in DOMAIN full /\ full.since = sinceRead
        /\ "prev" \notin DOMAIN full /\ "request" \notin DOMAIN full
    OBVIOUS
  <2>2. ReadAt("people") /\ Answer(full) /\ UNCHANGED <<readTables, payslips>>
    BY <1>7 DEF ReadPeople
  <2> HIDE DEF full
  <2> QED
    BY <2>1, <2>2, AnswerStep
<1> QED
  BY <1>1, <1>2, <1>4, <1>5, <1>6, <1>7

-------------------------------------------------------------------------------
(* What others commit *)

\* A run that becomes final, or that is so no more, is listed in since, so what a
\* comparison has found stays the latest; no answer outlives a commit.
LEMMA CommitStep ==
  ASSUME ReadsInv, NEW r \in Runs, NEW event, OthersCommit(r, event),
         TablesTyped(runs, slipsOf)', PayslipsStand',
         \A p \in Runs : \/ runs'[p] = runs[p]
                         \/ runs[p] = "processed" /\ runs'[p] = "posted"
                         \/ runs'[p] \notin {"processed", "posted"}
                            /\ runs[p] \notin {"processed", "posted"}
                         \/ p = r /\ runs[p] = "draft" /\ event = "processed"
                         \/ p = r /\ runs'[p] = "cancelled" /\ event = "cancelled"
  PROVE  ReadsInv'
<1>1. AnswerHolds' /\ read' = read /\ payslips' = payslips
  BY DEF OthersCommit, AnswerHolds
<1>2. ASSUME ~ReadAt("idle"), NEW id, NEW prev, Latest(prev, id, sinceRead)
      PROVE  Latest(prev, id, sinceRead)'
  <2>1. sinceRead' = sinceRead \cup {<<r, event>>}
    BY <1>2 DEF OthersCommit
  <2>2. \A p \in Earlier(id) \ Earlier(id)' : p = r /\ event = "cancelled"
    BY DEF Earlier
  <2>3. \A p \in Earlier(id)' \ Earlier(id) : p = r /\ event = "processed"
    BY DEF Earlier
  <2> QED
    BY <1>2, <2>1, <2>2, <2>3 DEF Latest
<1>3. ReadingHolds'
  BY <1>1, <1>2 DEF ReadsInv, ReadingHolds, ReadAt
<1> QED
  BY <1>1, <1>3 DEF ReadsInv

\* A run moves on; its slips stay, or go with a draft.
LEMMA MoveStep ==
  ASSUME ReadsInv, NEW r \in Runs, NEW from, NEW to, Move(r, from, to),
         DOMAIN slipsOf' = Runs,
         \A q \in Runs \ {r} : slipsOf'[q] = slipsOf[q],
         slipsOf'[r] = slipsOf[r] \/ DOMAIN slipsOf'[r] = {},
         \/ from = "absent" /\ to = "draft"
         \/ from = "draft" /\ to \in {"processed", "cancelled"}
         \/ from = "processed" /\ to \in {"posted", "cancelled"}
  PROVE  ReadsInv'
<1>1. runs' = [runs EXCEPT ![r] = to] /\ runs[r] = from /\ runs \in [Runs -> Statuses]
  BY DEF Move, ReadsInv, TablesTyped
<1>2. TablesTyped(runs, slipsOf)'
  BY <1>1, FS_EmptySet DEF ReadsInv, TablesTyped, Statuses
<1>3. PayslipsStand'
  <2> SUFFICES ASSUME NEW p \in payslips
               PROVE  /\ runs'[p.run] = "posted"
                      /\ slipsOf'[p.run] = slipsOf[p.run]
    BY DEF ReadsInv, PayslipsStand, Move, OthersCommit
  <2>1. runs[p.run] = "posted"
    BY DEF ReadsInv, PayslipsStand
  <2>2. p.run # r
    BY <1>1, <2>1
  <2>3. p.run \in Runs
    BY DEF ReadsInv
  <2> QED
    BY <1>1, <2>1, <2>2, <2>3 DEF ReadsInv, TablesTyped
<1>4. OthersCommit(r, to)
  BY DEF Move
<1>5. \A p \in Runs :
        \/ runs'[p] = runs[p]
        \/ runs[p] = "processed" /\ runs'[p] = "posted"
        \/ runs'[p] \notin {"processed", "posted"}
           /\ runs[p] \notin {"processed", "posted"}
        \/ p = r /\ runs[p] = "draft" /\ to = "processed"
        \/ p = r /\ runs'[p] = "cancelled" /\ to = "cancelled"
  BY <1>1
<1> QED
  BY <1>2, <1>3, <1>4, <1>5, CommitStep

\* A slip comes to a run, whatever its status; those it has stay.
LEMMA SlipStep ==
  ASSUME ReadsInv, NEW r \in Runs, NEW e \in People, NEW s \in Slips,
         AddSlip(r, e, s)
  PROVE  ReadsInv'
<1>1. /\ e \notin DOMAIN slipsOf[r] /\ runs' = runs /\ DOMAIN slipsOf = Runs
      /\ slipsOf' = [slipsOf EXCEPT ![r] = Merged(slipsOf[r], [x \in {e} |-> s])]
      /\ payslips' = payslips
  BY DEF AddSlip, OthersCommit, ReadsInv, TablesTyped
<1>2. /\ DOMAIN slipsOf' = Runs
      /\ \A q \in Runs \ {r} : slipsOf'[q] = slipsOf[q]
      /\ DOMAIN slipsOf'[r] = DOMAIN slipsOf[r] \cup {e}
      /\ slipsOf'[r][e] = s
      /\ \A x \in DOMAIN slipsOf[r] \ {e} : slipsOf'[r][x] = slipsOf[r][x]
  BY <1>1 DEF Merged
<1>3. TablesTyped(runs, slipsOf)'
  <2>1. IsFiniteSet(DOMAIN slipsOf'[r])
    BY <1>2, FS_AddElement DEF ReadsInv, TablesTyped
  <2> QED
    BY <1>1, <1>2, <2>1 DEF ReadsInv, TablesTyped
<1>4. PayslipsStand'
  <2>1. ASSUME NEW p \in payslips
        PROVE  /\ p.employee \in DOMAIN slipsOf'[p.run]
               /\ slipsOf'[p.run][p.employee] = slipsOf[p.run][p.employee]
    <3>1. p.run \in Runs /\ p.employee \in DOMAIN slipsOf[p.run]
      BY DEF ReadsInv, PayslipsStand
    <3> QED
      BY <1>1, <1>2, <3>1
  <2> QED
    BY <1>1, <2>1 DEF ReadsInv, PayslipsStand
<1>5. OthersCommit(r, "slip")
  BY DEF AddSlip
<1> QED
  BY <1>1, <1>3, <1>4, <1>5, CommitStep

\* A payslip takes every line of its slip, and a slip has lines.
LEMMA RenderStep ==
  ASSUME ReadsAssumption, ReadsInv, NEW r \in Runs, NEW e \in People,
         Render(r, e)
  PROVE  ReadsInv'
<1> DEFINE s == slipsOf[r][e]
<1>1. /\ e \in DOMAIN slipsOf[r] /\ runs[r] = "posted"
      /\ UNCHANGED <<runs, slipsOf, read, answer, sinceRead>>
  BY DEF Render, Published, readTables
<1>2. s \in Seq(SlipLines) /\ s # <<>>
  BY <1>1 DEF ReadsInv, TablesTyped, ReadsAssumption
<1>3. /\ PayslipTables(s).earnings = <<>>
      /\ PayslipTables(s).deductions = s
  BY <1>2 DEF PayslipTables
<1>4. PayslipTables(s).earnings \o PayslipTables(s).deductions = s
  BY <1>2, <1>3
<1>5. payslips' =
        {[run |-> r, employee |-> e, gross |-> Gross(s),
          deductions |-> Deducted(s), tables |-> PayslipTables(s)]}
  BY DEF Render
<1>6. ASSUME NEW p \in payslips'
      PROVE  /\ p.run = r /\ p.employee = e /\ p.tables = PayslipTables(s)
             /\ p.gross = Gross(s) /\ p.deductions = Deducted(s)
  BY <1>5
<1> HIDE DEF s
<1>7. PayslipsStand' /\ \A p \in payslips' : p.run \in Runs
  <2>1. slipsOf'[r][e] = s
    BY <1>1 DEF s
  <2> QED
    BY <1>1, <1>4, <1>6, <2>1 DEF PayslipsStand, Gross, Deducted
<1>8. ReadingHolds' /\ AnswerHolds'
  BY <1>1
     DEF ReadsInv, ReadingHolds, AnswerHolds, ReadAt, Latest, Earlier
<1> QED
  BY <1>1, <1>8, <1>7 DEF ReadsInv

LEMMA ReadsNext ==
  ASSUME ReadsAssumption, ReadsInv, [ReadNext]_readVars
  PROVE  ReadsInv'
<1>0. DOMAIN slipsOf = Runs
  BY DEF ReadsInv, TablesTyped
<1>1. ASSUME NEW r \in Runs, Process(r) PROVE ReadsInv'
  BY <1>0, <1>1, MoveStep DEF Process
<1>2. ASSUME NEW r \in Runs, Post(r) PROVE ReadsInv'
  BY <1>0, <1>2, MoveStep DEF Post
<1>3. ASSUME NEW r \in Runs, CancelDraft(r) PROVE ReadsInv'
  <2>1. /\ DOMAIN slipsOf' = Runs
        /\ \A q \in Runs \ {r} : slipsOf'[q] = slipsOf[q]
        /\ DOMAIN slipsOf'[r] = {}
    BY <1>0, <1>3 DEF CancelDraft
  <2> QED
    BY <1>3, <2>1, MoveStep DEF CancelDraft
<1>4. ASSUME NEW r \in Runs, OpenRun(r) \/ CancelProcessed(r) PROVE ReadsInv'
  BY <1>0, <1>4, MoveStep DEF OpenRun, CancelProcessed
<1>5. CASE UNCHANGED readVars
  BY <1>5
     DEF readVars, readTables, ReadsInv, ReadingHolds, AnswerHolds, PayslipsStand, ReadAt,
         Latest, Earlier
<1> QED
  BY <1>1, <1>2, <1>3, <1>4, <1>5, ComparisonStep, SlipStep, RenderStep DEF ReadNext

-------------------------------------------------------------------------------
(* The invariant of the figures *)

\* What an undisturbed comparison has read is what the tables still give.
Comparing == ReadAt("movement") \/ ReadAt("components") \/ ReadAt("people")

ReadingAgrees ==
  /\ read.at \in {"idle", "previous", "totals", "movement", "components", "people"}
  /\ "people" \notin DOMAIN read
  /\ Comparing => read.prev # Nobody
  /\ sinceRead = {} /\ Comparing =>
       /\ "current" \in DOMAIN read /\ read.current = TotalsOf(read.request.id)
       /\ "previous" \in DOMAIN read /\ read.previous = TotalsOf(read.prev)
  /\ sinceRead = {} /\ (ReadAt("components") \/ ReadAt("people")) =>
       /\ "movement" \in DOMAIN read
       /\ read.movement = Movement(read.request.id, read.prev)
  /\ sinceRead = {} /\ ReadAt("people") =>
       /\ "components" \in DOMAIN read
       /\ read.components = ComponentsOf(read.request.id, read.prev)

\* And so is what an answer says, until something is committed.
AnswerAgrees ==
  \A a \in answer : Full(a) /\ a.since = {} =>
    LET id == a.request.id
    IN  /\ a.request \in Requests /\ a.prev \in Runs
        /\ a.current = TotalsOf(id) /\ a.previous = TotalsOf(a.prev)
        /\ a.movement = Movement(id, a.prev)
        /\ a.components = ComponentsOf(id, a.prev)
        /\ a.people = Page(Ranked(id, a.prev), a.request.limit, a.request.offset)

FiguresInv == ReadingAgrees /\ AnswerAgrees

\* Undisturbed tables give the same figures again.
LEMMA FiguresStay ==
  ASSUME UNCHANGED readTables
  PROVE  /\ \A r : TotalsOf(r)' = TotalsOf(r)
         /\ \A id, prev : Movement(id, prev)' = Movement(id, prev)
         /\ \A id, prev : ComponentsOf(id, prev)' = ComponentsOf(id, prev)
         /\ \A id, prev : Ranked(id, prev)' = Ranked(id, prev)
<1>1. runs' = runs /\ slipsOf' = slipsOf
  BY DEF readTables
<1> QED
  BY <1>1
     DEF TotalsOf, Movement, Both, GrossIn, ComponentsOf, AmountOf, LinesOf, LineAt,
         Ranked, PersonChange, Everyone

\* A statement keeps every field it does not find.
LEMMA ThenAdds ==
  ASSUME NEW label, NEW found, ReadOn(label, found), "at" \in DOMAIN read,
         "at" \notin DOMAIN found
  PROVE  /\ read'.at = label
         /\ DOMAIN read' = DOMAIN read \cup DOMAIN found
         /\ \A k \in DOMAIN found : read'[k] = found[k]
         /\ \A k \in DOMAIN read \ DOMAIN found : k # "at" => read'[k] = read[k]
  BY DEF ReadOn, Merged

\* An answer stays what undisturbed tables give.
LEMMA AnswersStay ==
  ASSUME AnswerAgrees, UNCHANGED <<readTables, answer>>
  PROVE  AnswerAgrees'
<1>1. /\ \A r : TotalsOf(r)' = TotalsOf(r)
      /\ \A id, prev : Movement(id, prev)' = Movement(id, prev)
      /\ \A id, prev : ComponentsOf(id, prev)' = ComponentsOf(id, prev)
      /\ \A id, prev : Ranked(id, prev)' = Ranked(id, prev)
  BY FiguresStay
<1> QED
  BY <1>1 DEF AnswerAgrees

\* The people are read last: an undisturbed answer is what the tables give.
LEMMA AnswerIsWhole ==
  ASSUME ReadsAssumption, ReadsInv, FiguresInv, ReadPeople
  PROVE  AnswerAgrees'
<1> DEFINE q == read.request
           id == q.id
           prev == read.prev
           a == [people |-> Page(Ranked(id, prev), q.limit, q.offset),
                 since  |-> sinceRead]
           full == Merged(read, a)
<1>1. answer' = {full} /\ UNCHANGED readTables /\ ReadAt("people")
  BY DEF ReadPeople, Answer
<1>2. /\ DOMAIN a = {"people", "since"} /\ a.since = sinceRead
      /\ a.people = Page(Ranked(id, prev), q.limit, q.offset)
  OBVIOUS
<1>3. /\ q \in Requests /\ prev \in Runs
      /\ "request" \in DOMAIN read /\ "prev" \in DOMAIN read
  BY <1>1
     DEF ReadsInv, ReadingHolds, FiguresInv, ReadingAgrees, Comparing, ReadAt, Latest,
         Earlier
<1>4. sinceRead = {} =>
        /\ "current" \in DOMAIN read /\ read.current = TotalsOf(id)
        /\ "previous" \in DOMAIN read /\ read.previous = TotalsOf(prev)
        /\ "movement" \in DOMAIN read /\ read.movement = Movement(id, prev)
        /\ "components" \in DOMAIN read /\ read.components = ComponentsOf(id, prev)
  BY <1>1 DEF FiguresInv, ReadingAgrees, Comparing, ReadAt
<1> HIDE DEF a
<1>5. /\ full.since = sinceRead /\ full.request = q /\ full.prev = prev
      /\ full.people = Page(Ranked(id, prev), q.limit, q.offset)
      /\ sinceRead = {} => /\ full.current = TotalsOf(id)
                       /\ full.previous = TotalsOf(prev)
                       /\ full.movement = Movement(id, prev)
                       /\ full.components = ComponentsOf(id, prev)
  <2> HIDE DEF id
  <2> QED
    BY <1>2, <1>3, <1>4 DEF Merged
<1> HIDE DEF full
<1> QED
  BY <1>1, <1>3, <1>5, FiguresStay DEF AnswerAgrees

\* A statement before the last adds its figures, and answers nothing.
LEMMA StatementAgrees ==
  ASSUME ReadsInv, FiguresInv, OnlyReads, NEW label, NEW found, ReadOn(label, found),
         \/ ReadAt("previous") /\ label = "totals" /\ DOMAIN found = {"prev"}
         \/ /\ ReadAt("totals") /\ label = "movement" /\ read.prev # Nobody
            /\ DOMAIN found = {"current", "previous"}
            /\ found.current = TotalsOf(read.request.id)
            /\ found.previous = TotalsOf(read.prev)
         \/ /\ ReadAt("movement") /\ label = "components"
            /\ DOMAIN found = {"movement"}
            /\ found.movement = Movement(read.request.id, read.prev)
         \/ /\ ReadAt("components") /\ label = "people"
            /\ DOMAIN found = {"components"}
            /\ found.components = ComponentsOf(read.request.id, read.prev)
  PROVE  FiguresInv'
<1>1. /\ "at" \in DOMAIN read /\ "request" \in DOMAIN read
      /\ ~ReadAt("previous") => "prev" \in DOMAIN read
  BY DEF ReadsInv, ReadingHolds, ReadAt
<1>2. /\ read'.at = label
      /\ DOMAIN read' = DOMAIN read \cup DOMAIN found
      /\ \A k \in DOMAIN found : read'[k] = found[k]
      /\ \A k \in DOMAIN read \ DOMAIN found : k # "at" => read'[k] = read[k]
  BY <1>1, ThenAdds
<1>3. /\ \A r : TotalsOf(r)' = TotalsOf(r)
      /\ \A id, prev : Movement(id, prev)' = Movement(id, prev)
      /\ \A id, prev : ComponentsOf(id, prev)' = ComponentsOf(id, prev)
      /\ sinceRead' = sinceRead
  BY FiguresStay DEF OnlyReads
<1>4. /\ read'.request = read.request
      /\ ~ReadAt("previous") => read'.prev = read.prev
  BY <1>1, <1>2
<1>5. ReadingAgrees'
  <2>1. CASE label = "totals"
    BY <1>2, <2>1 DEF FiguresInv, ReadingAgrees, Comparing, ReadAt
  <2>2. CASE label = "movement"
    BY <1>2, <1>3, <1>4, <2>2 DEF FiguresInv, ReadingAgrees, Comparing, ReadAt
  <2>3. CASE label = "components"
    BY <1>2, <1>3, <1>4, <2>3 DEF FiguresInv, ReadingAgrees, Comparing, ReadAt
  <2>4. CASE label = "people"
    BY <1>2, <1>3, <1>4, <2>4 DEF FiguresInv, ReadingAgrees, Comparing, ReadAt
  <2> QED
    BY <2>1, <2>2, <2>3, <2>4
<1>6. AnswerAgrees'
  BY AnswersStay DEF FiguresInv, OnlyReads, ReadOn
<1> QED
  BY <1>5, <1>6 DEF FiguresInv

\* The invariant of the figures, at first and after each step.
LEMMA FiguresInit ==
  ASSUME ReadInit
  PROVE  FiguresInv
BY DEF ReadInit, NoRead, FiguresInv, ReadingAgrees, Comparing, ReadAt, AnswerAgrees

\* Nothing committed while a comparison is read goes unnoticed by it.
LEMMA CommitAgrees ==
  ASSUME FiguresInv, NEW r, NEW event, OthersCommit(r, event)
  PROVE  FiguresInv'
<1>1. read' = read /\ answer' = {}
  BY DEF OthersCommit
<1>2. sinceRead' = {} => ReadAt("idle")
  BY DEF OthersCommit
<1>3. ReadingAgrees'
  BY <1>1, <1>2 DEF FiguresInv, ReadingAgrees, Comparing, ReadAt
<1> QED
  BY <1>1, <1>3 DEF FiguresInv, AnswerAgrees

\* A step that leaves the comparison and the tables alone.
LEMMA OthersAgree ==
  ASSUME FiguresInv, UNCHANGED <<readTables, read, answer, sinceRead>>
  PROVE  FiguresInv'
<1>1. /\ \A r : TotalsOf(r)' = TotalsOf(r)
      /\ \A id, prev : Movement(id, prev)' = Movement(id, prev)
      /\ \A id, prev : ComponentsOf(id, prev)' = ComponentsOf(id, prev)
  BY FiguresStay
<1>2. ReadingAgrees'
  BY <1>1 DEF FiguresInv, ReadingAgrees, Comparing, ReadAt
<1>3. AnswerAgrees'
  BY AnswersStay DEF FiguresInv
<1> QED
  BY <1>2, <1>3 DEF FiguresInv

LEMMA ComparisonAgrees ==
  ASSUME ReadsAssumption, ReadsInv, FiguresInv,
         \/ \E q \in Requests : ReadHeader(q)
         \/ ReadPrevious \/ ReadTotals
         \/ ReadMovement \/ ReadComponents \/ ReadPeople
  PROVE  FiguresInv'
<1>1. ASSUME NEW q \in Requests, ReadHeader(q) PROVE FiguresInv'
  BY <1>1 DEF ReadHeader, FiguresInv, ReadingAgrees, Comparing, ReadAt, AnswerAgrees
<1>2. CASE ReadPrevious
  <2>1. PICK prev : ReadOn("totals", [prev |-> prev])
    BY <1>2 DEF ReadPrevious
  <2> DEFINE found == [prev |-> prev]
  <2>2. DOMAIN found = {"prev"}
    OBVIOUS
  <2>3. ReadOn("totals", found) /\ ReadAt("previous") /\ OnlyReads
    BY <1>2, <2>1 DEF ReadPrevious
  <2> HIDE DEF found
  <2> QED
    BY <2>2, <2>3, StatementAgrees
<1>3. CASE ReadTotals
  <2> DEFINE id == read.request.id
             short == [current |-> TotalsOf(id), since |-> sinceRead]
             found == [current |-> TotalsOf(id), previous |-> TotalsOf(read.prev)]
  <2>1. CASE read.prev = Nobody
    <3>1. Answer(short)
      BY <1>3, <2>1 DEF ReadTotals
    <3>2. "people" \notin DOMAIN short
      OBVIOUS
    <3> HIDE DEF short
    <3>3. "people" \notin DOMAIN Merged(read, short)
      BY <3>2 DEF Merged, FiguresInv, ReadingAgrees
    <3> QED
      BY <3>1, <3>3
         DEF Answer, FiguresInv, ReadingAgrees, Comparing, ReadAt, NoRead,
             AnswerAgrees, Full
  <2>2. CASE read.prev # Nobody
    <3>1. ReadOn("movement", found) /\ OnlyReads /\ ReadAt("totals")
      BY <1>3, <2>2 DEF ReadTotals
    <3>2. /\ DOMAIN found = {"current", "previous"}
          /\ found.current = TotalsOf(read.request.id)
          /\ found.previous = TotalsOf(read.prev)
      OBVIOUS
    <3> HIDE DEF found
    <3> QED
      BY <2>2, <3>1, <3>2, StatementAgrees
  <2> QED
    BY <2>1, <2>2
<1>4. CASE ReadMovement
  <2> DEFINE found == [movement |-> Movement(read.request.id, read.prev)]
  <2>1. ReadOn("components", found) /\ OnlyReads /\ ReadAt("movement")
    BY <1>4 DEF ReadMovement
  <2>2. /\ DOMAIN found = {"movement"}
        /\ found.movement = Movement(read.request.id, read.prev)
    OBVIOUS
  <2> HIDE DEF found
  <2> QED
    BY <2>1, <2>2, StatementAgrees
<1>5. CASE ReadComponents
  <2> DEFINE found == [components |-> ComponentsOf(read.request.id, read.prev)]
  <2>1. ReadOn("people", found) /\ OnlyReads /\ ReadAt("components")
    BY <1>5 DEF ReadComponents
  <2>2. /\ DOMAIN found = {"components"}
        /\ found.components = ComponentsOf(read.request.id, read.prev)
    OBVIOUS
  <2> HIDE DEF found
  <2> QED
    BY <2>1, <2>2, StatementAgrees
<1>6. CASE ReadPeople
  <2>1. AnswerAgrees'
    BY <1>6, AnswerIsWhole
  <2>2. read' = NoRead
    BY <1>6 DEF ReadPeople, Answer
  <2> QED
    BY <2>1, <2>2 DEF FiguresInv, ReadingAgrees, Comparing, ReadAt, NoRead
<1> QED
  BY <1>1, <1>2, <1>3, <1>4, <1>5, <1>6

LEMMA FiguresNext ==
  ASSUME ReadsAssumption, ReadsInv, FiguresInv, [ReadNext]_readVars
  PROVE  FiguresInv'
<1>1. ASSUME NEW r \in Runs, NEW e \in People, Render(r, e) PROVE FiguresInv'
  BY <1>1, OthersAgree DEF Render
<1>2. ASSUME NEW r \in Runs, NEW e \in People, NEW s \in Slips, AddSlip(r, e, s)
      PROVE  FiguresInv'
  BY <1>2, CommitAgrees DEF AddSlip
<1>3. ASSUME NEW r \in Runs,
             OpenRun(r) \/ Process(r) \/ Post(r) \/ CancelDraft(r) \/ CancelProcessed(r)
      PROVE  FiguresInv'
  BY <1>3, CommitAgrees DEF OpenRun, Process, Post, CancelDraft, CancelProcessed, Move
<1>4. CASE UNCHANGED readVars
  BY <1>4, OthersAgree DEF readVars
<1> QED
  BY <1>1, <1>2, <1>3, <1>4, ComparisonAgrees DEF ReadNext

-------------------------------------------------------------------------------
(* What an answer says of the tables *)

\* Every run has slips that can be summed.
LEMMA RunsAreCountable ==
  ASSUME ReadsAssumption, ReadsInv, NEW r \in Runs
  PROVE  Countable(r) /\ DOMAIN slipsOf[r] \subseteq Int
<1>1. /\ IsFiniteSet(DOMAIN slipsOf[r]) /\ DOMAIN slipsOf[r] \subseteq People
      /\ \A e \in DOMAIN slipsOf[r] : slipsOf[r][e] \in Slips
  BY DEF ReadsInv, TablesTyped
<1>2. People \subseteq Int /\ \A s \in Slips : s \in Seq(SlipLines)
  BY DEF ReadsAssumption
<1> QED
  BY <1>1, <1>2 DEF Countable

\* What an answer agrees on makes its figures add up ...
LEMMA AnswersAdd ==
  ASSUME ReadsAssumption, ReadsInv, AnswerAgrees
  PROVE  ComparisonAddsUp
<1> SUFFICES ASSUME NEW a \in answer, Full(a) /\ a.since = {}
             PROVE  /\ a.movement.joined - a.movement.left
                         = a.current.headcount - a.previous.headcount
                    /\ ChangeOf(a, "earning") = a.current.gross - a.previous.gross
                    /\ ChangeOf(a, "deduction")
                         = a.current.deductions - a.previous.deductions
                    /\ a.movement.changed <= a.current.headcount - a.movement.joined
  BY DEF ComparisonAddsUp
<1> DEFINE id == a.request.id
           prev == a.prev
<1>1. /\ a.request \in Requests /\ prev \in Runs
      /\ a.current = TotalsOf(id) /\ a.previous = TotalsOf(prev)
      /\ a.movement = Movement(id, prev) /\ a.components = ComponentsOf(id, prev)
  BY DEF AnswerAgrees
<1>2. id \in Runs
  BY <1>1 DEF ReadsAssumption
<1> HIDE DEF id, prev
<1>3. Countable(id) /\ Countable(prev)
  BY <1>1, <1>2, RunsAreCountable
<1>4. ASSUME NEW ct
      PROVE  ChangeOf(a, ct)
               = SumFunction([e \in DOMAIN slipsOf[id] |-> Paid(slipsOf[id][e], ct)])
                 - SumFunction([e \in DOMAIN slipsOf[prev] |-> Paid(slipsOf[prev][e], ct)])
  <2>1. ChangeOf(a, ct)
          = SumFunction([c \in ComponentsOf(id, prev) |->
                           IF c.ct = ct THEN c.current - c.previous ELSE 0])
    BY <1>1, Zenon DEF ChangeOf
  <2> QED
    BY <1>3, <2>1, ComparisonOfTables
<1>5. \A r : /\ TotalsOf(r).gross
                  = SumFunction([e \in DOMAIN slipsOf[r] |->
                                  Paid(slipsOf[r][e], "earning")])
             /\ TotalsOf(r).deductions
                  = SumFunction([e \in DOMAIN slipsOf[r] |->
                                  Paid(slipsOf[r][e], "deduction")])
  BY DEF TotalsOf, Gross, Deducted
<1>6. /\ a.movement.joined - a.movement.left
           = a.current.headcount - a.previous.headcount
      /\ a.movement.changed <= a.current.headcount - a.movement.joined
  BY <1>1, <1>3, MovementOfTables
<1> QED
  BY <1>1, <1>4, <1>5, <1>6

\* Over everyone of either run, what they earn in one is what its slips pay.
LEMMA GrossOfEveryone ==
  ASSUME NEW r, Countable(r), NEW all, IsFiniteSet(all), DOMAIN slipsOf[r] \subseteq all
  PROVE  /\ \A e : GrossIn(r, e) \in Int
         /\ SumFunction([e \in all |-> GrossIn(r, e)]) = TotalsOf(r).gross
<1> DEFINE T == DOMAIN slipsOf[r]
           f == [e \in all |-> GrossIn(r, e)]
<1>1. \A e \in T : Gross(slipsOf[r][e]) \in Int
  BY PaidOverLines DEF Gross
<1>2. \A e : GrossIn(r, e) \in Int /\ (e \in T => GrossIn(r, e) = Gross(slipsOf[r][e]))
             /\ (e \notin T => GrossIn(r, e) = 0)
  BY <1>1 DEF GrossIn
<1>3. f \in [all -> Int] /\ \A e \in all \ T : f[e] = 0
  BY <1>2
<1>4. Restrict(f, T) = [e \in T |-> Gross(slipsOf[r][e])]
  BY <1>2 DEF Restrict
<1>5. SumFunction(f) = SumFunction(Restrict(f, T))
  <2> HIDE DEF f, T
  <2>1. T \in SUBSET all
    BY DEF T
  <2> QED
    BY <1>3, <2>1, SumSelected
<1>6. TotalsOf(r).gross = SumFunction([e \in T |-> Gross(slipsOf[r][e])])
  BY DEF TotalsOf
<1> QED
  BY <1>2, <1>4, <1>5, <1>6

\* ... and its pages complete.
LEMMA AnswersPage ==
  ASSUME ReadsAssumption, ReadsInv, AnswerAgrees
  PROVE  PagesCoverEveryone
<1> SUFFICES ASSUME NEW a \in answer, Full(a) /\ a.since = {}
             PROVE
    LET q      == a.request
        all    == DOMAIN slipsOf[q.id] \cup DOMAIN slipsOf[a.prev]
        size   == PageSize(q.limit)
        pages  == [k \in 1..Cardinality(all) |->
                     Page(Ranked(q.id, a.prev), q.limit, (k - 1) * size)]
        places == {x \in (DOMAIN pages) \X (1..size) : x[2] \in DOMAIN pages[x[1]]}
        row    == [x \in places |-> pages[x[1]][x[2]]]
    IN  /\ {row[x].employee : x \in places} = all
        /\ Cardinality(places) = Cardinality(all)
        /\ \A x, y \in places :
             x[1] < y[1] \/ (x[1] = y[1] /\ x[2] < y[2])
               => AbsOf(row[x].change) >= AbsOf(row[y].change)
        /\ SumFunction([x \in places |-> row[x].change])
             = a.current.gross - a.previous.gross
        /\ Len(a.people) <= MaxPage
  BY Zenon DEF PagesCoverEveryone
<1> DEFINE q == a.request
           id == q.id
           prev == a.prev
           all == DOMAIN slipsOf[id] \cup DOMAIN slipsOf[prev]
           n == Cardinality(all)
           size == PageSize(q.limit)
           R == Ranked(id, prev)
           pages == [k \in 1..n |-> Page(R, q.limit, (k - 1) * size)]
           places == {x \in (DOMAIN pages) \X (1..size) : x[2] \in DOMAIN pages[x[1]]}
           row == [x \in places |-> pages[x[1]][x[2]]]
<1>1. /\ q \in Requests /\ prev \in Runs
      /\ a.current = TotalsOf(id) /\ a.previous = TotalsOf(prev)
      /\ a.people = Page(R, q.limit, q.offset)
  BY DEF AnswerAgrees
<1>2. id \in Runs /\ q.limit \in Int /\ q.offset \in Int /\ MaxPage \in Nat \ {0}
  BY <1>1 DEF ReadsAssumption
<1> HIDE DEF id, prev, q
<1>3. Countable(id) /\ Countable(prev) /\ all \subseteq Int
  BY <1>1, <1>2, RunsAreCountable
<1>4. IsFiniteSet(all)
  BY <1>3, FS_Union DEF Countable
<1>5. n \in Nat
  BY <1>4, FS_CardinalityType
<1>6. all = Everyone(id, prev) /\ DOMAIN slipsOf[id] \subseteq all
      /\ DOMAIN slipsOf[prev] \subseteq all
  BY DEF Everyone
<1> HIDE DEF all
<1>7. /\ \A e : GrossIn(id, e) \in Int /\ GrossIn(prev, e) \in Int
      /\ SumFunction([e \in all |-> GrossIn(id, e)]) = a.current.gross
      /\ SumFunction([e \in all |-> GrossIn(prev, e)]) = a.previous.gross
  BY <1>1, <1>3, <1>4, <1>6, GrossOfEveryone
<1>8. /\ Len(R) = n
      /\ \A m \in 1..n : /\ R[m].employee \in all
                         /\ R[m].change = GrossIn(id, R[m].employee)
                                            - GrossIn(prev, R[m].employee)
      /\ \A e \in all : \E m \in 1..n : R[m].employee = e
      /\ \A l, m \in 1..n : /\ R[l].employee = R[m].employee => l = m
                            /\ l < m => ComesFirst(R[l], R[m])
  BY <1>3, <1>4, <1>6, <1>7, RankedIsOrder
<1> HIDE DEF n, R
<1>9. size \in Nat \ {0} /\ size <= MaxPage
  BY <1>2 DEF PageSize
<1>10. Partition(pages, places, R, n)
  <2> DEFINE limit == q.limit
  <2>1. limit \in Int /\ MaxPage \in Nat \ {0} /\ n \in Nat /\ Len(R) = n
    BY <1>2, <1>5, <1>8
  <2>2. pages = PagesOf(R, n, limit) /\ places = PlacesOn(pages, PageSize(limit))
    BY Zenon DEF PagesOf, PlacesOn
  <2> HIDE DEF pages, places, limit
  <2>3. Partition(PagesOf(R, n, limit),
                  PlacesOn(PagesOf(R, n, limit), PageSize(limit)), R, n)
    BY ONLY <2>1, PagesPartition
  <2> QED
    BY ONLY <2>2, <2>3
<1> HIDE DEF places, pages
<1> PICK at \in [places -> 1..n] :
      /\ \A x \in places : pages[x[1]][x[2]] = R[at[x]]
      /\ \A x, y \in places :
           /\ at[x] = at[y] => x = y
           /\ x[1] < y[1] \/ (x[1] = y[1] /\ x[2] < y[2]) => at[x] < at[y]
      /\ \A m \in 1..n : \E x \in places : at[x] = m
  BY <1>10, Zenon DEF Partition
<1>11. IsFiniteSet(places) /\ Cardinality(places) = n
  BY <1>10, Zenon DEF Partition
<1>12. \A x \in places : row[x] = R[at[x]]
  OBVIOUS
<1> HIDE DEF row
<1>13. {row[x].employee : x \in places} = all
  <2>1. ASSUME NEW x \in places PROVE row[x].employee \in all
    BY <1>8, <1>10, <1>12
  <2>2. ASSUME NEW e \in all PROVE \E x \in places : row[x].employee = e
    <3>1. PICK m \in 1..n : R[m].employee = e
      BY <1>8
    <3>2. PICK x \in places : at[x] = m
      BY <1>10
    <3> QED
      BY <1>12, <3>1, <3>2
  <2> QED
    BY <2>1, <2>2
<1>14. ASSUME NEW x \in places, NEW y \in places,
              x[1] < y[1] \/ (x[1] = y[1] /\ x[2] < y[2])
       PROVE  AbsOf(row[x].change) >= AbsOf(row[y].change)
  <2>1. at[x] < at[y] /\ at[x] \in 1..n /\ at[y] \in 1..n
    BY <1>10, <1>14
  <2>2. ComesFirst(row[x], row[y])
    BY <1>8, <1>12, <2>1
  <2>3. row[x].change \in Int /\ row[y].change \in Int
    BY <1>7, <1>8, <1>12, <2>1
  <2> QED
    BY ONLY <2>2, <2>3 DEF ComesFirst, AbsOf
<1>15. SumFunction([x \in places |-> row[x].change])
         = a.current.gross - a.previous.gross
  <2> DEFINE f == [x \in places |-> row[x].change]
             now == [e \in all |-> GrossIn(id, e)]
             was == [e \in all |-> GrossIn(prev, e)]
             back == [e \in all |-> (-1) * was[e]]
             g == [e \in all |-> now[e] + back[e]]
             key == [x \in places |-> row[x].employee]
  <2>1. now \in [all -> Int] /\ was \in [all -> Int] /\ back \in [all -> Int]
        /\ g \in [all -> Int]
    BY <1>7
  <2>2. \A e \in all : g[e] = GrossIn(id, e) - GrossIn(prev, e)
    BY <1>7
  <2>3. ASSUME NEW x \in places
        PROVE  /\ key[x] \in all /\ f[x] = g[key[x]] /\ f[x] \in Int
    <3>1. key[x] = R[at[x]].employee /\ f[x] = R[at[x]].change /\ at[x] \in 1..n
      BY <1>10, <1>12
    <3> HIDE DEF key, f, g
    <3> QED
      BY <1>7, <1>8, <2>2, <3>1, SMTT(40)
  <2>4. f \in [places -> Int] /\ key \in [places -> all]
    BY <2>3
  <2>5. ASSUME NEW x \in places, NEW y \in places, key[x] = key[y] PROVE x = y
    <3>1. R[at[x]].employee = R[at[y]].employee
      BY <1>12, <2>5
    <3>2. at[x] \in 1..n /\ at[y] \in 1..n
      BY <1>10
    <3>3. at[x] = at[y]
      BY <1>8, <3>1, <3>2
    <3> QED
      BY <1>10, <3>3
  <2>6. \A e \in all : \E x \in places : key[x] = e
    BY <1>13
  <2>7. SumFunction(f) = SumFunction(g)
    <3> HIDE DEF f, g, key
    <3>1. \A x, y \in places : key[x] = key[y] => x = y
      BY <2>5
    <3>2. \A x \in places : g[key[x]] = f[x]
      BY <2>3
    <3>3. IsFiniteSet(places)
      BY <1>11
    <3> QED
      BY ONLY <1>4, <2>1, <2>4, <2>6, <3>1, <3>2, <3>3, SumRenamed
  <2>8. SumFunction(g) = SumFunction(now) + SumFunction(back)
    <3>1. now \in [all -> Int] /\ back \in [all -> Int]
      BY ONLY <2>1
    <3> HIDE DEF now, back
    <3> QED
      BY ONLY <1>4, <3>1, SumPlus
  <2>9. SumFunction(back) = (-1) * SumFunction(was)
    <3>1. was \in [all -> Int]
      BY ONLY <2>1
    <3> HIDE DEF was
    <3> QED
      BY ONLY <1>4, <3>1, SumTimes
  <2>10. SumFunction(was) \in Int /\ SumFunction(now) \in Int
    <3> HIDE DEF was, now
    <3> QED
      BY <1>4, <2>1, SumIsInt
  <2>11. SumFunction(now) = a.current.gross /\ SumFunction(was) = a.previous.gross
    BY <1>7
  <2> HIDE DEF f, g, now, was, back
  <2>12. SumFunction(f) = a.current.gross - a.previous.gross
    BY <2>7, <2>8, <2>9, <2>10, <2>11
  <2> QED
    BY <2>12 DEF f
<1>16. Len(a.people) <= MaxPage
  <2> DEFINE left == Len(R) - PageStart(q.offset)
             k == IF size < left THEN size ELSE left
  <2>1. a.people = [i \in 1..k |-> R[PageStart(q.offset) + i]]
    BY <1>1, Zenon DEF Page
  <2>2. k \in Int /\ k <= size
    BY <1>2, <1>5, <1>8, <1>9 DEF PageStart
  <2> HIDE DEF k
  <2>3. Len(a.people) = IF k < 0 THEN 0 ELSE k
    <3>1. CASE k >= 0
      <4>1. DOMAIN a.people = 1..k /\ k \in Nat
        BY <2>1, <2>2, <3>1
      <4> QED
        BY <2>1, <2>2, <3>1, <4>1
    <3>2. CASE k < 0
      <4>1. 1..k = {} /\ 1..0 = {}
        BY <2>2, <3>2
      <4>2. a.people = [i \in 1..0 |-> R[PageStart(q.offset) + i]]
        BY <2>1, <4>1
      <4> QED
        BY <3>2, <4>2
    <3> QED
      BY <2>2, <3>1, <3>2
  <2> HIDE DEF size
  <2> QED
    BY <1>2, <1>9, <2>2, <2>3
<1> QED
  BY <1>11, <1>13, <1>14, <1>15, <1>16, Zenon
     DEF pages, all, n, id, prev, q, R, places, row

-------------------------------------------------------------------------------
\* Whatever is opened, processed, posted, cancelled and added between its
\* statements, a comparison is with a run of an earlier period that is final
\* unless it was cancelled meanwhile, and only one processed meanwhile can be a
\* later one.
THEOREM LatestIsFinal == ASSUME ReadsAssumption PROVE ReadSpec => []PreviousWasLatest
<1>1. ReadsInv => PreviousWasLatest
  BY DEF ReadsInv, AnswerHolds, Latest, Earlier, PreviousWasLatest
<1>2. ReadInit => ReadsInv
  BY ReadsInit
<1>3. ReadsInv /\ [ReadNext]_readVars => ReadsInv'
  BY ReadsNext
<1> QED
  BY <1>1, <1>2, <1>3, PTL DEF ReadSpec

\* A payslip handed out stays that of a posted run and of a slip on file, line
\* by line, whatever is committed afterwards.
THEOREM PayslipsAreFinal == ASSUME ReadsAssumption PROVE ReadSpec => []PayslipsStand
<1>1. ReadsInv => PayslipsStand
  BY DEF ReadsInv
<1>2. ReadInit => ReadsInv
  BY ReadsInit
<1>3. ReadsInv /\ [ReadNext]_readVars => ReadsInv'
  BY ReadsNext
<1> QED
  BY <1>1, <1>2, <1>3, PTL DEF ReadSpec

\* A comparison nothing disturbed tells one story in five ways: who joined less
\* who left is the difference of the headcounts, what the components moved is
\* the difference of gross and of deductions, and no more people changed than
\* are in both runs.
THEOREM FiguresAgree == ASSUME ReadsAssumption PROVE ReadSpec => []ComparisonAddsUp
<1>1. ReadsInv /\ FiguresInv => ComparisonAddsUp
  BY AnswersAdd DEF FiguresInv
<1>2. ReadInit => ReadsInv /\ FiguresInv
  BY ReadsInit, FiguresInit
<1>3. ReadsInv /\ FiguresInv /\ [ReadNext]_readVars => (ReadsInv /\ FiguresInv)'
  BY ReadsNext, FiguresNext
<1> QED
  BY <1>1, <1>2, <1>3, PTL DEF ReadSpec

\* Runs keep to their statuses and slips to their people, and a payslip states
\* amounts of rupiah, never less than none.
THEOREM ReadsTypes == ASSUME ReadsAssumption PROVE ReadSpec => []ReadTypeOK
<1>1. ASSUME ReadsInv, FiguresInv PROVE ReadTypeOK
  <2>1. ASSUME NEW p \in payslips PROVE {p.gross, p.deductions} \subseteq Nat
    <3> DEFINE s == slipsOf[p.run][p.employee]
    <3>1. p.gross = Gross(s) /\ p.deductions = Deducted(s)
      BY <1>1 DEF ReadsInv, PayslipsStand
    <3>2. s \in Seq(SlipLines)
      <4>1. p.run \in Runs /\ p.employee \in DOMAIN slipsOf[p.run]
        BY <1>1 DEF ReadsInv, PayslipsStand
      <4> QED
        BY <1>1, <4>1 DEF ReadsInv, TablesTyped, ReadsAssumption
    <3> HIDE DEF s
    <3>3. ASSUME NEW ct PROVE Paid(s, ct) \in Nat
      <4> DEFINE n == Len(s)
                 f == [i \in DOMAIN s |-> IF s[i].ct = ct THEN s[i].amount ELSE 0]
      <4>1. n \in Nat /\ DOMAIN s = 1..n
        BY <3>2
      <4>2. ASSUME NEW i \in DOMAIN s PROVE s[i].amount \in Nat
        <5>1. s[i] \in SlipLines
          BY <3>2
        <5> QED
          BY <5>1 DEF SlipLines
      <4>3. f \in [DOMAIN s -> Int] /\ f \in [DOMAIN s -> Nat]
        BY <4>2
      <4>4. Paid(s, ct) = SumFunction(f)
        BY DEF Paid
      <4> HIDE DEF f, n
      <4>5. IsFiniteSet(DOMAIN s)
        BY <4>1, FS_Interval
      <4> QED
        BY <4>3, <4>4, <4>5, SumIsInt
    <3> QED
      BY <3>1, <3>3 DEF Gross, Deducted
  <2> QED
    BY <1>1, <2>1 DEF ReadsInv, FiguresInv, ReadingAgrees, ReadTypeOK
<1>2. ReadInit => ReadsInv /\ FiguresInv
  BY ReadsInit, FiguresInit
<1>3. ReadsInv /\ FiguresInv /\ [ReadNext]_readVars => (ReadsInv /\ FiguresInv)'
  BY ReadsNext, FiguresNext
<1> QED
  BY <1>1, <1>2, <1>3, PTL DEF ReadSpec

\* One page after the other, everyone of either run is on exactly one of them,
\* nobody later changed more than somebody earlier, and the pages together move
\* by the difference of gross.
THEOREM PagesComplete == ASSUME ReadsAssumption PROVE ReadSpec => []PagesCoverEveryone
<1>1. ReadsInv /\ FiguresInv => PagesCoverEveryone
  BY AnswersPage DEF FiguresInv
<1>2. ReadInit => ReadsInv /\ FiguresInv
  BY ReadsInit, FiguresInit
<1>3. ReadsInv /\ FiguresInv /\ [ReadNext]_readVars => (ReadsInv /\ FiguresInv)'
  BY ReadsNext, FiguresNext
<1> QED
  BY <1>1, <1>2, <1>3, PTL DEF ReadSpec

-------------------------------------------------------------------------------
(* What others commit is the life of RunLife: nothing else, and all of it    *)

\* The roster seen through the slips.
LEMMA RosterOf ==
  ASSUME NEW r \in Runs, NEW S, DOMAIN slipsOf'[r] = S,
         \A q \in Runs \ {r} : slipsOf'[q] = slipsOf[q]
  PROVE  [q \in Runs |-> DOMAIN slipsOf'[q]]
           = [[q \in Runs |-> DOMAIN slipsOf[q]] EXCEPT ![r] = S]
  OBVIOUS

LEMMA ReadsLifeStep ==
  ASSUME NEW r \in Runs, Life!Step(r)
  PROVE  [Life!Next]_(Life!vars)
  BY DEF Life!Next

LEMMA OthersLive ==
  ASSUME ReadsInv, NEW r \in Runs,
         \/ OpenRun(r) \/ Process(r) \/ Post(r) \/ CancelDraft(r) \/ CancelProcessed(r)
         \/ \E e \in People, s \in Slips : AddSlip(r, e, s)
  PROVE  Life!Step(r)
<1>1. DOMAIN slipsOf = Runs
  BY DEF ReadsInv, TablesTyped
<1>2. CASE OpenRun(r)
  BY <1>2 DEF OpenRun, Move, Life!Create, Life!Moves, Life!Step
<1>3. CASE Process(r)
  BY <1>3 DEF Process, Move, Life!Process, Life!Moves, Life!Step
<1>4. CASE Post(r)
  BY <1>4 DEF Post, Move, Life!Post, Life!Moves, Life!Step
<1>5. CASE CancelProcessed(r)
  BY <1>5 DEF CancelProcessed, Move, Life!CancelProcessed, Life!Moves, Life!Step
<1>6. CASE CancelDraft(r)
  <2>1. /\ DOMAIN slipsOf'[r] = {}
        /\ \A q \in Runs \ {r} : slipsOf'[q] = slipsOf[q]
    BY <1>1, <1>6 DEF CancelDraft
  <2>2. [q \in Runs |-> DOMAIN slipsOf'[q]]
          = [[q \in Runs |-> DOMAIN slipsOf[q]] EXCEPT ![r] = {}]
    BY <2>1, RosterOf
  <2> QED
    BY <1>6, <2>2 DEF CancelDraft, Move, Life!CancelDraft, Life!Moves, Life!Step
<1>7. ASSUME NEW e \in People, NEW s \in Slips, AddSlip(r, e, s)
      PROVE  Life!Step(r)
  <2>1. /\ DOMAIN slipsOf'[r] = DOMAIN slipsOf[r] \cup {e}
        /\ \A q \in Runs \ {r} : slipsOf'[q] = slipsOf[q]
    BY <1>1, <1>7 DEF AddSlip, Merged
  <2>2. [q \in Runs |-> DOMAIN slipsOf'[q]]
          = [[q \in Runs |-> DOMAIN slipsOf[q]]
               EXCEPT ![r] = DOMAIN slipsOf[r] \cup {e}]
    BY <2>1, RosterOf
  <2> QED
    BY <1>7, <2>2 DEF AddSlip, Life!AddSlip, Life!Step
<1> QED
  BY <1>2, <1>3, <1>4, <1>5, <1>6, <1>7

\* What others commit between the statements of a comparison, or while a payslip
\* is rendered, is what RunLife lets a run go through.
THEOREM OthersOnlyLive ==
  ASSUME ReadsAssumption PROVE ReadSpec => [][Life!Next]_(Life!vars)
<1>1. ReadInit => ReadsInv
  BY ReadsInit
<1>2. ReadsInv /\ [ReadNext]_readVars => ReadsInv'
  BY ReadsNext
<1>3. ASSUME ReadsInv, [ReadNext]_readVars PROVE [Life!Next]_(Life!vars)
  <2>1. CASE UNCHANGED readTables
    BY <2>1 DEF readTables, Life!vars
  <2>2. CASE UNCHANGED readVars
    BY <2>1, <2>2 DEF readVars
  <2>3. CASE \/ \E q \in Requests : ReadHeader(q)
             \/ ReadPrevious \/ ReadTotals
             \/ ReadMovement \/ ReadComponents \/ ReadPeople
    BY <2>1, <2>3
       DEF ReadHeader, ReadPrevious, ReadTotals, ReadMovement, ReadComponents,
           ReadPeople, OnlyReads
  <2>4. CASE \E r \in Runs, e \in People : Render(r, e)
    BY <2>1, <2>4 DEF Render
  <2>5. CASE \E r \in Runs :
               \/ OpenRun(r) \/ Process(r) \/ Post(r)
               \/ CancelDraft(r) \/ CancelProcessed(r)
               \/ \E e \in People, s \in Slips : AddSlip(r, e, s)
    BY <1>3, <2>5, OthersLive, ReadsLifeStep
  <2> QED
    BY <1>3, <2>2, <2>3, <2>4, <2>5 DEF ReadNext
<1> QED
  BY <1>1, <1>2, <1>3, PTL DEF ReadSpec

\* A table of slips is a function of runs, and of the people of each.
IsTable(of) == of = [q \in Runs |-> [e \in DOMAIN of[q] |-> of[q][e]]]

\* What a step brought r to, as a comparison notes it.
CameTo(r) == IF runs'[r] = runs[r] THEN "slip" ELSE runs'[r]

\* Slips of the same people that stay the same are the same slips.
LEMMA SlipsStay ==
  ASSUME IsTable(slipsOf), IsTable(slipsOf)',
         \A q \in Runs : DOMAIN slipsOf'[q] = DOMAIN slipsOf[q],
         \A q \in Runs : \A e \in DOMAIN slipsOf[q] \cap DOMAIN slipsOf'[q] :
           slipsOf'[q][e] = slipsOf[q][e]
  PROVE  slipsOf' = slipsOf
<1>1. \A q \in Runs : slipsOf'[q] = slipsOf[q]
  <2> SUFFICES ASSUME NEW q \in Runs PROVE slipsOf'[q] = slipsOf[q]
    OBVIOUS
  <2>1. /\ slipsOf[q] = [e \in DOMAIN slipsOf[q] |-> slipsOf[q][e]]
        /\ slipsOf'[q] = [e \in DOMAIN slipsOf'[q] |-> slipsOf'[q][e]]
    BY DEF IsTable
  <2> QED
    BY <2>1
<1> QED
  BY <1>1 DEF IsTable

\* The table of which only the slips of r have changed.
LEMMA OneTableEntry ==
  ASSUME IsTable(slipsOf), IsTable(slipsOf)', NEW r \in Runs,
         \A q \in Runs \ {r} : DOMAIN slipsOf'[q] = DOMAIN slipsOf[q],
         \A q \in Runs : \A e \in DOMAIN slipsOf[q] \cap DOMAIN slipsOf'[q] :
           slipsOf'[q][e] = slipsOf[q][e]
  PROVE  slipsOf' = [slipsOf EXCEPT ![r] = slipsOf'[r]]
<1>1. ASSUME NEW q \in Runs \ {r} PROVE slipsOf'[q] = slipsOf[q]
  <2>1. /\ slipsOf[q] = [e \in DOMAIN slipsOf[q] |-> slipsOf[q][e]]
        /\ slipsOf'[q] = [e \in DOMAIN slipsOf'[q] |-> slipsOf'[q][e]]
    BY DEF IsTable
  <2> QED
    BY <2>1
<1> QED
  BY <1>1 DEF IsTable

\* A table of nobody is the empty sequence.
LEMMA NoSlips ==
  ASSUME NEW of, of = [e \in {} |-> of[e]]
  PROVE  of = <<>>
<1> DEFINE none == [e \in {} |-> of[e]]
<1>1. none \in [1..0 -> {}]
  OBVIOUS
<1>2. none \in Seq({})
  BY <1>1
<1>3. Len(none) = 0
  BY <1>1, <1>2
<1>4. of = none
  OBVIOUS
<1> HIDE DEF none
<1>5. none = <<>>
  BY <1>2, <1>3
<1> QED
  BY <1>4, <1>5

\* Every step of a run's life that leaves the slips on file as they are may come
\* between two statements of a comparison: RunReads excludes none of them, so
\* what its theorems say holds beside PayrollRun, whose verbs keep to RunLife.
THEOREM LifeMayGoOn ==
  ASSUME TablesTyped(runs, slipsOf), TablesTyped(runs, slipsOf)',
         IsTable(slipsOf), IsTable(slipsOf)',
         NEW r \in Runs, Life!Step(r), OthersCommit(r, CameTo(r)),
         \A q \in Runs : \A e \in DOMAIN slipsOf[q] \cap DOMAIN slipsOf'[q] :
           slipsOf'[q][e] = slipsOf[q][e]
  PROVE  ReadNext
<1> DEFINE roster == [q \in Runs |-> DOMAIN slipsOf[q]]
           later == [q \in Runs |-> DOMAIN slipsOf'[q]]
<1>1. ASSUME later = roster PROVE slipsOf' = slipsOf
  <2>1. \A q \in Runs : later[q] = DOMAIN slipsOf'[q] /\ roster[q] = DOMAIN slipsOf[q]
    OBVIOUS
  <2>2. \A q \in Runs : DOMAIN slipsOf'[q] = DOMAIN slipsOf[q]
    BY <1>1, <2>1
  <2> QED
    BY <2>2, SlipsStay
<1>2. ASSUME NEW from, NEW to, from # to, Life!Moves(r, from, to)
      PROVE  Move(r, from, to)
  <2>1. runs[r] = from /\ runs' = [runs EXCEPT ![r] = to]
    BY <1>2 DEF Life!Moves
  <2>2. runs'[r] = to
    BY <2>1 DEF TablesTyped
  <2> QED
    BY <1>2, <2>1, <2>2 DEF Move, CameTo
<1>3. CASE Life!Create(r)
  <2>1. OpenRun(r)
    BY <1>1, <1>2, <1>3 DEF Life!Create, OpenRun
  <2> QED
    BY <2>1 DEF ReadNext
<1>4. CASE Life!Process(r)
  <2>1. DOMAIN slipsOf[r] # {}
    BY <1>4 DEF Life!Process
  <2>2. Process(r)
    BY <1>1, <1>2, <1>4, <2>1 DEF Life!Process, Process
  <2> QED
    BY <2>2 DEF ReadNext
<1>5. CASE Life!Post(r)
  <2>1. Post(r)
    BY <1>1, <1>2, <1>5 DEF Life!Post, Post
  <2> QED
    BY <2>1 DEF ReadNext
<1>6. CASE Life!CancelProcessed(r)
  <2>1. CancelProcessed(r)
    BY <1>1, <1>2, <1>6 DEF Life!CancelProcessed, CancelProcessed
  <2> QED
    BY <2>1 DEF ReadNext
<1>7. CASE Life!CancelDraft(r)
  <2>1. later = [roster EXCEPT ![r] = {}]
    BY <1>7 DEF Life!CancelDraft
  <2>2. /\ DOMAIN slipsOf'[r] = {}
        /\ \A q \in Runs \ {r} : DOMAIN slipsOf'[q] = DOMAIN slipsOf[q]
    <3>1. \A q \in Runs : later[q] = DOMAIN slipsOf'[q] /\ roster[q] = DOMAIN slipsOf[q]
      OBVIOUS
    <3>2. later[r] = {} /\ \A q \in Runs \ {r} : later[q] = roster[q]
      BY <2>1
    <3> QED
      BY <3>1, <3>2
  <2>3. slipsOf'[r] = <<>>
    <3>1. slipsOf'[r] = [e \in {} |-> slipsOf'[r][e]]
      BY <2>2 DEF IsTable
    <3> QED
      BY <3>1, NoSlips
  <2>4. slipsOf' = [slipsOf EXCEPT ![r] = <<>>]
    BY <2>2, <2>3, OneTableEntry
  <2>5. CancelDraft(r)
    BY <1>2, <1>7, <2>4 DEF Life!CancelDraft, CancelDraft
  <2> QED
    BY <2>5 DEF ReadNext
<1>8. ASSUME NEW e \in People, Life!AddSlip(r, e) PROVE ReadNext
  <2>1. /\ runs[r] # "absent" /\ runs' = runs
        /\ e \notin DOMAIN slipsOf[r]
        /\ later = [roster EXCEPT ![r] = DOMAIN slipsOf[r] \cup {e}]
    BY <1>8 DEF Life!AddSlip
  <2>2. /\ DOMAIN slipsOf'[r] = DOMAIN slipsOf[r] \cup {e}
        /\ \A q \in Runs \ {r} : DOMAIN slipsOf'[q] = DOMAIN slipsOf[q]
    <3>1. \A q \in Runs : later[q] = DOMAIN slipsOf'[q] /\ roster[q] = DOMAIN slipsOf[q]
      OBVIOUS
    <3>2. /\ later[r] = DOMAIN slipsOf[r] \cup {e}
          /\ \A q \in Runs \ {r} : later[q] = roster[q]
      BY <2>1
    <3> QED
      BY <3>1, <3>2
  <2> DEFINE s == slipsOf'[r][e]
  <2>3. s \in Slips
    BY <2>2 DEF TablesTyped
  <2>4. slipsOf' = [slipsOf EXCEPT ![r] = Merged(slipsOf[r], [x \in {e} |-> s])]
    <3> DEFINE old == slipsOf[r]
               new == slipsOf'[r]
               one == [x \in {e} |-> s]
    <3>1. /\ DOMAIN new = DOMAIN old \cup {e} /\ e \notin DOMAIN old
          /\ \A x \in DOMAIN old : new[x] = old[x]
          /\ new = [x \in DOMAIN new |-> new[x]]
      BY <2>1, <2>2 DEF IsTable
    <3>2. DOMAIN one = {e} /\ one[e] = new[e]
      OBVIOUS
    <3> HIDE DEF old, new, one
    <3>3. new = Merged(old, one)
      BY <3>1, <3>2 DEF Merged
    <3> QED
      BY <2>2, <3>3, OneTableEntry DEF old, new, one
  <2>5. AddSlip(r, e, s)
    BY <2>1, <2>4 DEF AddSlip, CameTo
  <2> QED
    BY <2>3, <2>5 DEF ReadNext
<1> QED
  BY <1>3, <1>4, <1>5, <1>6, <1>7, <1>8 DEF Life!Step

===============================================================================
