------------------------------ MODULE FiniteSums ------------------------------
(*****************************************************************************)
(* Facts about sums over finite sets and along sequences (SumFunction), folds, *)
(* least and latest elements, which the other proofs cite.  The operators are *)
(* those of the community modules; the induction is over the finite subsets of *)
(* a set, taken at a smallest one where a statement would fail.              *)
(*****************************************************************************)
EXTENDS Integers, Sequences, FiniteSetsExt, Functions, FiniteSetTheorems,
        SequenceTheorems, WellFoundedInduction, TLAPS

\* Some set of a collection of subsets of a finite set has no smaller one in it.
LEMMA SmallestSubset ==
  ASSUME NEW S, IsFiniteSet(S), NEW B \in SUBSET SUBSET S, B # {}
  PROVE  \E T \in B : \A U \in SUBSET T : U # T => U \notin B
<1>1. IsWellFoundedOn(StrictSubsetOrdering(S), SUBSET S)
  BY FS_StrictSubsetOrderingWellFounded, FS_FiniteSubsetsOfFinite
<1>2. PICK T \in B : \A U \in B : ~(<<U, T>> \in StrictSubsetOrdering(S))
  BY <1>1, WFMin
<1>3. ASSUME NEW U \in SUBSET T, U # T, U \in B PROVE FALSE
  BY <1>2, <1>3 DEF StrictSubsetOrdering
<1> QED
  BY <1>3

\* Numbers have a least one.
LEMMA LeastNumber ==
  ASSUME NEW B \in SUBSET Nat, B # {}
  PROVE  \E m \in B : \A n \in B : m <= n
<1>1. PICK m \in B : \A y \in B : ~(<<y, m>> \in OpToRel(<, Nat))
  BY NatLessThanWellFounded, WFMin
<1>2. ASSUME NEW n \in B PROVE m <= n
  <2>1. n \in Nat /\ m \in Nat
    OBVIOUS
  <2>2. <<n, m>> \in Nat \X Nat /\ <<n, m>>[1] = n /\ <<n, m>>[2] = m
    BY <2>1
  <2>3. ~(n < m)
    BY <1>1, <2>2 DEF OpToRel
  <2> QED
    BY <2>1, <2>3
<1> QED
  BY <1>2

Picked(s) == CHOOSE x \in s : TRUE
Walk(f, T, h) ==
  h = [s \in SUBSET T |->
         IF s = {} THEN 0 ELSE f[Picked(s)] + h[s \ {Picked(s)}]]
SumWalked(f, T) == CHOOSE h : Walk(f, T, h)

\* The community module's sum is the end of such a walk.
LEMMA SumIsWalked ==
  ASSUME NEW f
  PROVE  SumFunction(f) = SumWalked(f, DOMAIN f)[DOMAIN f]
  BY Zenon DEF SumFunction, SumFunctionOnSet, FoldFunctionOnSet, MapThenFoldSet,
     SumWalked, Walk, Picked

\* One step of a walk.
LEMMA WalkValue ==
  ASSUME NEW f, NEW T, NEW h, Walk(f, T, h), NEW s \in SUBSET T
  PROVE  /\ s = {} => h[s] = 0
         /\ s # {} => /\ Picked(s) \in s
                      /\ s \ {Picked(s)} \in SUBSET T
                      /\ s \ {Picked(s)} # s
                      /\ h[s] = f[Picked(s)] + h[s \ {Picked(s)}]
<1>1. h[s] = IF s = {} THEN 0 ELSE f[Picked(s)] + h[s \ {Picked(s)}]
  BY Zenon DEF Walk
<1>2. s # {} => Picked(s) \in s
  BY DEF Picked
<1> QED
  BY <1>1, <1>2

\* Two walks over sets that share a subset agree on it.
LEMMA WalksAgree ==
  ASSUME NEW f, NEW g, NEW T, NEW U, NEW h, NEW k, NEW S \in SUBSET (T \cap U),
         IsFiniteSet(S),
         Walk(f, T, h), Walk(g, U, k), \A x \in S : f[x] = g[x]
  PROVE  h[S] = k[S]
<1> SUFFICES ASSUME h[S] # k[S] PROVE FALSE
  OBVIOUS
<1> DEFINE B == {s \in SUBSET S : h[s] # k[s]}
<1>1. PICK s \in B : \A r \in SUBSET s : r # s => r \notin B
  <2>1. B \in SUBSET SUBSET S /\ B # {}
    OBVIOUS
  <2> HIDE DEF B
  <2> QED
    BY <2>1, SmallestSubset
<1>2. s # {}
  BY WalkValue, SMTT(40)
<1>3. /\ Picked(s) \in s /\ s \ {Picked(s)} # s
      /\ h[s] = f[Picked(s)] + h[s \ {Picked(s)}]
      /\ k[s] = g[Picked(s)] + k[s \ {Picked(s)}]
  <2>1. s \in SUBSET T /\ s \in SUBSET U
    OBVIOUS
  <2> HIDE DEF B
  <2> QED
    BY <1>2, <2>1, WalkValue
<1>4. h[s \ {Picked(s)}] = k[s \ {Picked(s)}]
  BY <1>1, <1>3
<1>5. f[Picked(s)] = g[Picked(s)]
  BY <1>3
<1> QED
  BY <1>3, <1>4, <1>5

\* Over a finite set there is a walk.
LEMMA WalkExists ==
  ASSUME NEW f, NEW S, IsFiniteSet(S)
  PROVE  Walk(f, S, SumWalked(f, S))
<1> SUFFICES ASSUME ~\E h : Walk(f, S, h) PROVE FALSE
  BY Zenon DEF SumWalked
<1> DEFINE B == {T \in SUBSET S : ~\E h : Walk(f, T, h)}
<1>1. PICK T \in B : \A U \in SUBSET T : U # T => U \notin B
  <2>1. B \in SUBSET SUBSET S /\ B # {}
    OBVIOUS
  <2> HIDE DEF B
  <2> QED
    BY <2>1, SmallestSubset
<1>2. \A U \in SUBSET T : U # T => Walk(f, U, SumWalked(f, U))
  <2> SUFFICES ASSUME NEW U \in SUBSET T, U # T PROVE Walk(f, U, SumWalked(f, U))
    OBVIOUS
  <2>1. \E h : Walk(f, U, h)
    BY <1>1
  <2> QED
    BY <2>1, Zenon DEF SumWalked
<1>3. IsFiniteSet(T) /\ \A s \in SUBSET T : IsFiniteSet(s)
  BY FS_Subset
<1> DEFINE at(s) == SumWalked(f, s)[s]
           h == [s \in SUBSET T |->
                   IF s = {} THEN 0
                   ELSE IF s = T THEN f[Picked(s)] + at(s \ {Picked(s)})
                   ELSE at(s)]
<1>4. ASSUME NEW s \in SUBSET T
      PROVE  h[s] = IF s = {} THEN 0
                    ELSE f[Picked(s)] + h[s \ {Picked(s)}]
  <2>1. CASE s = {}
    BY <2>1
  <2>2. CASE s # {}
    <3> DEFINE r == s \ {Picked(s)}
    <3>1. Picked(s) \in s /\ r \in SUBSET T /\ r # T /\ r \in SUBSET s /\ r # s
      BY <2>2 DEF Picked
    <3>2. Walk(f, r, SumWalked(f, r))
      BY <1>2, <3>1
    <3>3. h[r] = at(r)
      <4>1. r = {} => at(r) = 0
        <5> HIDE DEF r
        <5> QED
          BY <3>2, WalkValue
      <4> HIDE DEF at, r
      <4> QED
        BY <3>1, <4>1
    <3>4. CASE s = T
      <4> HIDE DEF at
      <4>1. h[s] = f[Picked(s)] + at(r)
        BY <2>2, <3>4
      <4> QED
        BY <2>2, <3>3, <4>1
    <3>5. CASE s # T
      <4>1. Walk(f, s, SumWalked(f, s))
        BY <1>2, <3>5
      <4>2. PICK a : a = SumWalked(f, s)
        OBVIOUS
      <4>3. Walk(f, s, a) /\ s \in SUBSET s
        BY <4>1, <4>2
      <4>4. a[s] = f[Picked(s)] + a[s \ {Picked(s)}]
        BY ONLY <2>2, <4>3, WalkValue, SMTT(40)
      <4>5. a[r] = at(r)
        <5>1. r \in SUBSET (s \cap r) /\ IsFiniteSet(r)
          BY <1>3, <3>1
        <5>2. PICK c : c = SumWalked(f, r)
          OBVIOUS
        <5>3. Walk(f, r, c)
          BY <3>2, <5>2
        <5> HIDE DEF r
        <5>4. a[r] = c[r]
          BY ONLY <4>3, <5>1, <5>3, WalksAgree
        <5> QED
          BY <5>2, <5>4
      <4>6. at(s) = f[Picked(s)] + at(r)
        BY <4>2, <4>4, <4>5
      <4> HIDE DEF at
      <4> QED
        BY <2>2, <3>3, <3>5, <4>6
    <3> QED
      BY <3>4, <3>5
  <2> QED
    BY <2>1, <2>2
<1>5. h = [s \in SUBSET T |-> h[s]]
  BY Zenon
<1>6. Walk(f, T, h)
  <2> HIDE DEF h
  <2> QED
    BY <1>4, <1>5 DEF Walk
<1> QED
  BY <1>6, <1>1

-------------------------------------------------------------------------------
Dropping(f, x) == [y \in DOMAIN f \ {x} |-> f[y]]

\* Nothing sums to nothing.
LEMMA SumEmpty ==
  ASSUME NEW f, DOMAIN f = {}
  PROVE  SumFunction(f) = 0
<1>1. IsFiniteSet({})
  BY FS_EmptySet
<1>2. Walk(f, {}, SumWalked(f, {}))
  BY <1>1, WalkExists
<1>3. SumWalked(f, {})[{}] = 0
  BY <1>2, WalkValue
<1> QED
  BY <1>3, SumIsWalked

\* A sum is any one term and the sum of the rest: the one the fold takes first.
LEMMA SumPicked ==
  ASSUME NEW f, IsFiniteSet(DOMAIN f), DOMAIN f # {}
  PROVE  LET x == Picked(DOMAIN f)
         IN  x \in DOMAIN f /\ SumFunction(f) = f[x] + SumFunction(Dropping(f, x))
<1> DEFINE S == DOMAIN f
           x == Picked(S)
           g == Dropping(f, x)
<1>1. Walk(f, S, SumWalked(f, S))
  BY WalkExists
<1>2. x \in S /\ SumWalked(f, S)[S] = f[x] + SumWalked(f, S)[S \ {x}]
  <2>1. S \in SUBSET S /\ S # {}
    OBVIOUS
  <2>2. PICK h : h = SumWalked(f, S)
    OBVIOUS
  <2>3. Walk(f, S, h)
    BY <1>1, <2>2
  <2> HIDE DEF S
  <2>4. Picked(S) \in S /\ h[S] = f[Picked(S)] + h[S \ {Picked(S)}]
    BY ONLY <2>1, <2>3, WalkValue
  <2> QED
    BY <2>2, <2>4
<1>3. DOMAIN g = S \ {x} /\ IsFiniteSet(S \ {x}) /\ \A y \in S \ {x} : f[y] = g[y]
  BY FS_Subset DEF Dropping
<1> HIDE DEF S, x, g
<1>4. Walk(g, S \ {x}, SumWalked(g, S \ {x}))
  BY <1>3, WalkExists
<1>5. SumWalked(f, S)[S \ {x}] = SumWalked(g, S \ {x})[S \ {x}]
  <2>1. PICK r : r = S \ {x}
    OBVIOUS
  <2>2. PICK h, k : h = SumWalked(f, S) /\ k = SumWalked(g, r)
    OBVIOUS
  <2>3. /\ r \in SUBSET (S \cap r) /\ IsFiniteSet(r)
        /\ \A y \in r : f[y] = g[y]
        /\ Walk(f, S, h) /\ Walk(g, r, k)
    BY <1>1, <1>3, <1>4, <2>1, <2>2
  <2>4. h[r] = k[r]
    BY ONLY <2>3, WalksAgree
  <2> QED
    BY <2>1, <2>2, <2>4
<1>6. SumFunction(f) = SumWalked(f, S)[S] /\ SumFunction(g) = SumWalked(g, S \ {x})[S \ {x}]
  BY <1>3, SumIsWalked DEF S
<1> QED
  BY <1>2, <1>5, <1>6 DEF S, x, g

\* A sum of integers is one, of numbers a number.
LEMMA SumIsInt ==
  ASSUME NEW S, IsFiniteSet(S), NEW f \in [S -> Int]
  PROVE  /\ SumFunction(f) \in Int
         /\ f \in [S -> Nat] => SumFunction(f) \in Nat
<1> SUFFICES ASSUME ~(/\ SumFunction(f) \in Int
                      /\ f \in [S -> Nat] => SumFunction(f) \in Nat)
             PROVE  FALSE
  OBVIOUS
<1> DEFINE OK(U) == /\ SumFunction([y \in U |-> f[y]]) \in Int
                    /\ f \in [S -> Nat] => SumFunction([y \in U |-> f[y]]) \in Nat
           B == {U \in SUBSET S : ~OK(U)}
<1>1. PICK U \in B : \A V \in SUBSET U : V # U => V \notin B
  <2>1. f = [y \in S |-> f[y]]
    OBVIOUS
  <2>2. B \in SUBSET SUBSET S /\ B # {}
    BY <2>1
  <2> HIDE DEF B
  <2> QED
    BY <2>2, SmallestSubset
<1> DEFINE g == [y \in U |-> f[y]]
           x == Picked(U)
<1>2. U # {}
  BY SumEmpty, SMTT(40)
<1>3. x \in U /\ SumFunction(g) = f[x] + SumFunction(Dropping(g, x))
  <2>1. IsFiniteSet(U) /\ DOMAIN g = U
    BY FS_Subset
  <2>2. \A y \in U : g[y] = f[y]
    OBVIOUS
  <2> HIDE DEF g, B
  <2> QED
    BY <1>2, <2>1, <2>2, SumPicked
<1>4. Dropping(g, x) = [y \in U \ {x} |-> f[y]]
  BY DEF Dropping
<1>5. OK(U \ {x})
  <2>1. U \ {x} \in SUBSET U /\ U \ {x} # U /\ U \ {x} \in SUBSET S
    BY <1>3
  <2> HIDE DEF OK, x
  <2> QED
    BY <1>1, <2>1
<1>6. f[x] \in Int /\ (f \in [S -> Nat] => f[x] \in Nat)
  BY <1>3
<1>7. OK(U)
  <2> HIDE DEF x, g
  <2> QED
  BY <1>3, <1>4, <1>5, <1>6 DEF g
<1> QED
  BY <1>7

\* Induction over finite sets, for a set of good subsets.
LEMMA GrowingSubsets ==
  ASSUME NEW S, IsFiniteSet(S), NEW G \in SUBSET SUBSET S, {} \in G,
         \A U \in G : \A x \in S \ U : U \cup {x} \in G
  PROVE  S \in G
<1> SUFFICES ASSUME S \notin G PROVE FALSE
  OBVIOUS
<1> DEFINE B == (SUBSET S) \ G
<1>1. PICK T \in B : \A U \in SUBSET T : U # T => U \notin B
  <2>1. B \in SUBSET SUBSET S /\ B # {}
    OBVIOUS
  <2> HIDE DEF B
  <2> QED
    BY <2>1, SmallestSubset
<1>2. PICK x \in T : TRUE
  OBVIOUS
<1>3. T \ {x} \in G /\ x \in S \ (T \ {x}) /\ (T \ {x}) \cup {x} = T
  BY <1>1
<1> QED
  BY <1>3

\* A sum may be taken apart at any point of its domain.
LEMMA SumWithout ==
  ASSUME NEW S, IsFiniteSet(S), NEW f \in [S -> Int], NEW x \in S
  PROVE  SumFunction(f) = f[x] + SumFunction(Restrict(f, S \ {x}))
<1> DEFINE Sub(U) == SumFunction([y \in U |-> f[y]])
           OK(U) == \A z \in U : Sub(U) = f[z] + Sub(U \ {z})
           B == {U \in SUBSET S : ~OK(U)}
<1>1. ASSUME NEW U \in SUBSET S, U # {}
      PROVE  /\ Picked(U) \in U
             /\ Sub(U) = f[Picked(U)] + Sub(U \ {Picked(U)})
  <2> DEFINE g == [y \in U |-> f[y]]
  <2>1. IsFiniteSet(U) /\ DOMAIN g = U
    BY FS_Subset
  <2>2. Dropping(g, Picked(U)) = [y \in U \ {Picked(U)} |-> f[y]]
    BY DEF Dropping
  <2>3. \A y \in U : g[y] = f[y]
    OBVIOUS
  <2> HIDE DEF g
  <2>4. /\ Picked(U) \in U
        /\ SumFunction(g) = f[Picked(U)] + SumFunction(Dropping(g, Picked(U)))
    BY <1>1, <2>1, <2>3, SumPicked
  <2> QED
    BY <2>2, <2>4 DEF g
<1>2. ASSUME NEW U \in SUBSET S PROVE Sub(U) \in Int
  <2>1. IsFiniteSet(U) /\ [y \in U |-> f[y]] \in [U -> Int]
    BY FS_Subset
  <2> QED
    BY <2>1, SumIsInt
<1> HIDE DEF Sub
<1>3. B = {}
  <2> SUFFICES ASSUME B # {} PROVE FALSE
    OBVIOUS
  <2>1. PICK U \in B : \A V \in SUBSET U : V # U => V \notin B
    <3>1. B \in SUBSET SUBSET S
      OBVIOUS
    <3> HIDE DEF B
    <3> QED
      BY <3>1, SmallestSubset
  <2>2. PICK z \in U : Sub(U) # f[z] + Sub(U \ {z})
    OBVIOUS
  <2> DEFINE p == Picked(U)
  <2>3. p \in U /\ Sub(U) = f[p] + Sub(U \ {p})
    BY <1>1
  <2> HIDE DEF p
  <2>4. p # z
    BY <2>2, <2>3
  <2>5. U \ {p} \notin B /\ U \ {z} \notin B /\ z \in U \ {p} /\ p \in U \ {z}
    BY <2>1, <2>3, <2>4
  <2>6. Sub(U \ {p}) = f[z] + Sub((U \ {p}) \ {z})
    BY <2>5
  <2>7. Sub(U \ {z}) = f[p] + Sub((U \ {z}) \ {p})
    BY <2>5
  <2>8. (U \ {p}) \ {z} = (U \ {z}) \ {p} /\ Sub((U \ {p}) \ {z}) \in Int
    BY <1>2
  <2>9. f[p] \in Int /\ f[z] \in Int
    BY <2>3
  <2> HIDE DEF OK, B
  <2>10. Sub(U) = f[p] + (f[z] + Sub((U \ {p}) \ {z}))
    BY <2>3, <2>6
  <2>11. Sub(U) # f[z] + (f[p] + Sub((U \ {p}) \ {z}))
    BY <2>2, <2>7, <2>8
  <2> QED
    BY <2>8, <2>9, <2>10, <2>11
<1>4. Sub(S) = f[x] + Sub(S \ {x})
  BY <1>3
<1>5. f = [y \in S |-> f[y]]
  OBVIOUS
<1> QED
  BY <1>4, <1>5 DEF Sub, Restrict

\* Sums add term by term.
LEMMA SumPlus ==
  ASSUME NEW S, IsFiniteSet(S), NEW f \in [S -> Int], NEW g \in [S -> Int]
  PROVE  SumFunction([x \in S |-> f[x] + g[x]]) = SumFunction(f) + SumFunction(g)
<1> DEFINE Both(U) == [x \in U |-> f[x] + g[x]]
           F(U) == Restrict(f, U)
           H(U) == Restrict(g, U)
           G == {U \in SUBSET S :
                    SumFunction(Both(U)) = SumFunction(F(U)) + SumFunction(H(U))}
<1>1. {} \in G
  BY SumEmpty DEF Restrict
<1>2. ASSUME NEW U \in G, NEW x \in S \ U PROVE U \cup {x} \in G
  <2> DEFINE V == U \cup {x}
  <2>1. IsFiniteSet(V) /\ IsFiniteSet(U) /\ x \in V /\ V \ {x} = U
    BY FS_Subset
  <2>2. /\ Both(V) \in [V -> Int] /\ Both(V)[x] = f[x] + g[x]
        /\ Restrict(Both(V), U) = Both(U)
        /\ F(V) \in [V -> Int] /\ F(V)[x] = f[x] /\ Restrict(F(V), U) = F(U)
        /\ H(V) \in [V -> Int] /\ H(V)[x] = g[x] /\ Restrict(H(V), U) = H(U)
        /\ F(U) \in [U -> Int] /\ H(U) \in [U -> Int]
    BY DEF Restrict
  <2>3. SumFunction(Both(U)) = SumFunction(F(U)) + SumFunction(H(U))
    OBVIOUS
  <2>4. f[x] \in Int /\ g[x] \in Int /\ V \in SUBSET S
    OBVIOUS
  <2> HIDE DEF Both, F, H, V
  <2>5. SumFunction(F(U)) \in Int /\ SumFunction(H(U)) \in Int
    BY <2>1, <2>2, SumIsInt
  <2>6. /\ SumFunction(Both(V)) = f[x] + g[x] + SumFunction(Both(U))
        /\ SumFunction(F(V)) = f[x] + SumFunction(F(U))
        /\ SumFunction(H(V)) = g[x] + SumFunction(H(U))
    BY <2>1, <2>2, SumWithout
  <2>7. SumFunction(Both(V)) = SumFunction(F(V)) + SumFunction(H(V))
    BY <2>3, <2>4, <2>5, <2>6
  <2> QED
    BY <2>4, <2>7 DEF V
<1>3. S \in G
  <2>1. G \in SUBSET SUBSET S
    OBVIOUS
  <2> HIDE DEF G
  <2> QED
    BY <1>1, <1>2, <2>1, GrowingSubsets
<1>4. F(S) = f /\ H(S) = g
  BY DEF Restrict
<1> QED
  BY <1>3, <1>4

\* Induction, as a property of sets.
LEMMA NumbersGrow ==
  ASSUME NEW G \in SUBSET Nat, 0 \in G, \A n \in G : n + 1 \in G
  PROVE  G = Nat
<1> SUFFICES ASSUME Nat \ G # {} PROVE FALSE
  OBVIOUS
<1>1. PICK m \in Nat \ G : \A n \in Nat \ G : m <= n
  BY LeastNumber
<1>2. m - 1 \in Nat
  OBVIOUS
<1>3. m - 1 \in G
  BY <1>1, <1>2
<1>4. (m - 1) + 1 \in G
  BY <1>3
<1> QED
  BY <1>4

\* What is not selected adds nothing.
LEMMA SumSelected ==
  ASSUME NEW S, IsFiniteSet(S), NEW T \in SUBSET S, NEW f \in [S -> Int],
         \A x \in S \ T : f[x] = 0
  PROVE  SumFunction(f) = SumFunction(Restrict(f, T))
<1> DEFINE F(U) == Restrict(f, U)
           G == {U \in SUBSET S : SumFunction(F(U)) = SumFunction(F(U \cap T))}
<1>1. {} \in G
  <2>1. {} \cap T = {}
    OBVIOUS
  <2> QED
    BY <2>1
<1>2. ASSUME NEW U \in G, NEW x \in S \ U PROVE U \cup {x} \in G
  <2> DEFINE V == U \cup {x}
  <2>1. IsFiniteSet(V) /\ IsFiniteSet(V \cap T) /\ IsFiniteSet(U) /\ x \in V /\ V \ {x} = U
    BY FS_Subset
  <2>2. /\ F(V) \in [V -> Int] /\ F(V)[x] = f[x] /\ Restrict(F(V), U) = F(U)
        /\ F(U) \in [U -> Int]
    BY DEF Restrict
  <2>3. SumFunction(F(U)) = SumFunction(F(U \cap T))
    OBVIOUS
  <2>4. f[x] \in Int /\ V \in SUBSET S
    OBVIOUS
  <2>5. /\ F(V \cap T) \in [V \cap T -> Int]
        /\ x \in T => /\ x \in V \cap T /\ (V \cap T) \ {x} = U \cap T
                      /\ F(V \cap T)[x] = f[x]
                      /\ Restrict(F(V \cap T), U \cap T) = F(U \cap T)
        /\ x \notin T => V \cap T = U \cap T /\ f[x] = 0
    BY DEF Restrict
  <2> HIDE DEF F, V, G
  <2>6. SumFunction(F(U)) \in Int
    BY <2>1, <2>2, SumIsInt
  <2>7. SumFunction(F(V)) = f[x] + SumFunction(F(U))
    BY <2>1, <2>2, SumWithout
  <2>8. x \in T => SumFunction(F(V \cap T)) = f[x] + SumFunction(F(U \cap T))
    <3> SUFFICES ASSUME x \in T
                 PROVE  SumFunction(F(V \cap T)) = f[x] + SumFunction(F(U \cap T))
      OBVIOUS
    <3> DEFINE W == V \cap T
    <3>1. IsFiniteSet(W) /\ x \in W /\ W \ {x} = U \cap T
      BY <2>1, <2>5
    <3>2. /\ F(W) \in [W -> Int] /\ F(W)[x] = f[x]
          /\ Restrict(F(W), W \ {x}) = F(U \cap T)
      BY <2>5
    <3> HIDE DEF W
    <3>3. SumFunction(F(W)) = F(W)[x] + SumFunction(Restrict(F(W), W \ {x}))
      BY <3>1, <3>2, SumWithout
    <3> QED
      BY <3>2, <3>3 DEF W
  <2>9. SumFunction(F(V)) = SumFunction(F(V \cap T))
    BY <2>3, <2>4, <2>5, <2>6, <2>7, <2>8
  <2> QED
    BY <2>4, <2>9 DEF V, G
<1>3. S \in G
  <2>1. G \in SUBSET SUBSET S
    OBVIOUS
  <2> HIDE DEF G
  <2> QED
    BY <1>1, <1>2, <2>1, GrowingSubsets
<1>4. F(S) = f /\ S \cap T = T
  BY DEF Restrict
<1> QED
  BY <1>3, <1>4

\* A sum of one term.
LEMMA SumOfOne ==
  ASSUME NEW S, IsFiniteSet(S), NEW f \in [S -> Int], NEW x \in S,
         \A y \in S \ {x} : f[y] = 0
  PROVE  SumFunction(f) = f[x]
<1> DEFINE g == Restrict(f, {x})
<1>1. {x} \in SUBSET S /\ IsFiniteSet({x})
  BY FS_Singleton
<1>2. /\ g \in [{x} -> Int] /\ g[x] = f[x] /\ DOMAIN Restrict(g, {x} \ {x}) = {}
      /\ f[x] \in Int
  BY DEF Restrict
<1>3. SumFunction(f) = SumFunction(g)
  BY <1>1, SumSelected
<1>4. SumFunction(g) = f[x] + SumFunction(Restrict(g, {x} \ {x}))
  <2> HIDE DEF g
  <2> QED
    BY <1>1, <1>2, SumWithout
<1>5. SumFunction(Restrict(g, {x} \ {x})) = 0
  BY <1>2, SumEmpty
<1> QED
  BY <1>2, <1>3, <1>4, <1>5

\* Terms above nothing sum to nothing only when there are none.
LEMMA SumAboveNothing ==
  ASSUME NEW S, IsFiniteSet(S), NEW f \in [S -> Nat \ {0}]
  PROVE  SumFunction(f) \in Nat /\ (SumFunction(f) > 0 <=> S # {})
<1>1. f \in [S -> Int] /\ f \in [S -> Nat]
  OBVIOUS
<1>2. SumFunction(f) \in Nat
  BY <1>1, SumIsInt
<1>3. CASE S = {}
  <2>1. SumFunction(f) = 0
    BY <1>3, SumEmpty
  <2> QED
    BY <1>3, <2>1
<1>4. ASSUME NEW x \in S PROVE SumFunction(f) > 0
  <2> DEFINE r == Restrict(f, S \ {x})
  <2>1. r \in [S \ {x} -> Nat] /\ r \in [S \ {x} -> Int] /\ f[x] \in Nat \ {0}
    BY DEF Restrict
  <2>2. IsFiniteSet(S \ {x})
    BY FS_Subset
  <2>3. SumFunction(f) = f[x] + SumFunction(r)
    BY <1>1, SumWithout
  <2> HIDE DEF r
  <2>4. SumFunction(r) \in Nat
    BY <2>1, <2>2, SumIsInt
  <2> QED
    BY <2>1, <2>3, <2>4
<1> QED
  BY <1>2, <1>3, <1>4

\* A common factor comes out of a sum.
LEMMA SumTimes ==
  ASSUME NEW S, IsFiniteSet(S), NEW f \in [S -> Int], NEW c \in Int
  PROVE  SumFunction([x \in S |-> c * f[x]]) = c * SumFunction(f)
<1> DEFINE C(U) == [x \in U |-> c * f[x]]
           F(U) == Restrict(f, U)
           G == {U \in SUBSET S : SumFunction(C(U)) = c * SumFunction(F(U))}
<1>1. {} \in G
  <2>1. SumFunction(C({})) = 0 /\ SumFunction(F({})) = 0
    BY SumEmpty DEF Restrict
  <2> QED
    BY <2>1
<1>2. ASSUME NEW U \in G, NEW x \in S \ U PROVE U \cup {x} \in G
  <2> DEFINE V == U \cup {x}
  <2>1. IsFiniteSet(V) /\ IsFiniteSet(U) /\ x \in V /\ V \ {x} = U
    BY FS_Subset
  <2>2. /\ F(V) \in [V -> Int] /\ F(V)[x] = f[x] /\ Restrict(F(V), U) = F(U)
        /\ F(U) \in [U -> Int]
        /\ C(V) \in [V -> Int] /\ C(V)[x] = c * f[x] /\ Restrict(C(V), U) = C(U)
    BY DEF Restrict
  <2>3. SumFunction(C(U)) = c * SumFunction(F(U))
    OBVIOUS
  <2>4. f[x] \in Int /\ V \in SUBSET S
    OBVIOUS
  <2> HIDE DEF F, V, G, C
  <2>6. SumFunction(F(U)) \in Int
    BY <2>1, <2>2, SumIsInt
  <2>7. SumFunction(F(V)) = f[x] + SumFunction(F(U))
    BY <2>1, <2>2, SumWithout
  <2>8. SumFunction(C(V)) = c * f[x] + SumFunction(C(U))
    BY <2>1, <2>2, SumWithout
  <2>9. c * (f[x] + SumFunction(F(U))) = c * f[x] + c * SumFunction(F(U))
    BY <2>4, <2>6
  <2>10. SumFunction(C(V)) = c * SumFunction(F(V))
    BY <2>3, <2>7, <2>8, <2>9
  <2> QED
    BY <2>4, <2>10 DEF V, G
<1>3. S \in G
  <2>1. G \in SUBSET SUBSET S
    OBVIOUS
  <2> HIDE DEF G
  <2> QED
    BY <1>1, <1>2, <2>1, GrowingSubsets
<1>4. F(S) = f
  BY DEF Restrict
<1> QED
  BY <1>3, <1>4

\* A sum, key by key.
LEMMA SumByKey ==
  ASSUME NEW S, IsFiniteSet(S), NEW T, IsFiniteSet(T), NEW f \in [S -> Int],
         NEW key \in [S -> T]
  PROVE  SumFunction(f)
           = SumFunction([t \in T |->
               SumFunction(Restrict(f, {x \in S : key[x] = t}))])
<1> DEFINE F(U) == Restrict(f, U)
           At(U, t) == {x \in U : key[x] = t}
           K(U) == [t \in T |-> SumFunction(F(At(U, t)))]
           G == {U \in SUBSET S : SumFunction(F(U)) = SumFunction(K(U))}
<1>0. ASSUME NEW U \in SUBSET S
      PROVE  K(U) \in [T -> Int] /\ SumFunction(K(U)) \in Int
  <2>1. ASSUME NEW t \in T PROVE SumFunction(F(At(U, t))) \in Int
    <3>1. IsFiniteSet(At(U, t)) /\ F(At(U, t)) \in [At(U, t) -> Int]
      BY FS_Subset DEF Restrict
    <3> HIDE DEF F, At
    <3> QED
      BY <3>1, SumIsInt
  <2>2. K(U) \in [T -> Int]
    <3> HIDE DEF F, At
    <3> QED
      BY <2>1
  <2> HIDE DEF K
  <2> QED
    BY <2>2, SumIsInt
<1>1. {} \in G
  <2>1. \A t \in T : At({}, t) = {}
    OBVIOUS
  <2>2. SumFunction(F({})) = 0
    BY SumEmpty DEF Restrict
  <2>3. K({}) = [t \in T |-> 0]
    <3> HIDE DEF F, At
    <3> QED
      BY <2>1, <2>2
  <2>4. SumFunction([t \in T |-> 0]) = 0
    <3>1. SumFunction([t \in T |-> 0]) = SumFunction(Restrict([t \in T |-> 0], {}))
      <4>1. [t \in T |-> 0] \in [T -> Int] /\ {} \in SUBSET T
        OBVIOUS
      <4>2. \A t \in T \ {} : [x \in T |-> 0][t] = 0
        OBVIOUS
      <4> DEFINE z == [t \in T |-> 0]
      <4> HIDE DEF z
      <4> QED
        BY <4>1, <4>2, SumSelected DEF z
    <3> QED
      BY <3>1, SumEmpty DEF Restrict
  <2> HIDE DEF F, K
  <2> QED
    BY <2>2, <2>3, <2>4
<1>2. ASSUME NEW U \in G, NEW x \in S \ U PROVE U \cup {x} \in G
  <2> DEFINE V == U \cup {x}
             k == key[x]
  <2>1. IsFiniteSet(V) /\ IsFiniteSet(U) /\ x \in V /\ V \ {x} = U /\ V \in SUBSET S
        /\ k \in T /\ U \in SUBSET S
    BY FS_Subset
  <2>2. /\ F(V) \in [V -> Int] /\ F(V)[x] = f[x] /\ Restrict(F(V), U) = F(U)
        /\ F(U) \in [U -> Int]
    BY DEF Restrict
  <2>3. SumFunction(F(U)) = SumFunction(K(U)) /\ f[x] \in Int
    OBVIOUS
  <2>4. /\ At(V, k) \ {x} = At(U, k) /\ x \in At(V, k)
        /\ \A t \in T \ {k} : At(V, t) = At(U, t)
        /\ IsFiniteSet(At(V, k))
    BY FS_Subset
  <2>5. /\ F(At(V, k)) \in [At(V, k) -> Int] /\ F(At(V, k))[x] = f[x]
        /\ Restrict(F(At(V, k)), At(U, k)) = F(At(U, k))
    BY DEF Restrict
  <2> HIDE DEF F, V, At, k, G
  <2>6. SumFunction(F(At(V, k))) = f[x] + SumFunction(F(At(U, k)))
    BY <2>4, <2>5, SumWithout
  <2>7. Restrict(K(V), T \ {k}) = Restrict(K(U), T \ {k})
    BY <2>4 DEF Restrict
  <2>8. K(V)[k] = f[x] + K(U)[k]
    BY <2>1, <2>6
  <2>9. SumFunction(F(V)) = f[x] + SumFunction(F(U))
    BY <2>1, <2>2, SumWithout
  <2>10. /\ SumFunction(K(V)) \in Int /\ SumFunction(K(U)) \in Int
         /\ K(U) \in [T -> Int] /\ K(V) \in [T -> Int]
    BY <1>0, <2>1
  <2> HIDE DEF K
  <2>11. /\ SumFunction(K(V)) = K(V)[k] + SumFunction(Restrict(K(V), T \ {k}))
         /\ SumFunction(K(U)) = K(U)[k] + SumFunction(Restrict(K(U), T \ {k}))
    BY <2>1, <2>10, SumWithout
  <2>12. SumFunction(Restrict(K(U), T \ {k})) \in Int
    <3>1. IsFiniteSet(T \ {k}) /\ Restrict(K(U), T \ {k}) \in [T \ {k} -> Int]
      BY <2>10, FS_Subset DEF Restrict
    <3> QED
      BY <3>1, SumIsInt
  <2>13. K(U)[k] \in Int
    BY <2>1, <2>10
  <2>14. SumFunction(F(V)) = SumFunction(K(V))
    BY <2>3, <2>7, <2>8, <2>9, <2>11, <2>12, <2>13
  <2> QED
    BY <2>1, <2>14 DEF V, G
<1>3. S \in G
  <2>1. G \in SUBSET SUBSET S
    OBVIOUS
  <2> HIDE DEF G
  <2> QED
    BY <1>1, <1>2, <2>1, GrowingSubsets
<1>4. F(S) = f
  BY DEF Restrict
<1> QED
  BY <1>3, <1>4
-------------------------------------------------------------------------------
(* Sequences *)

\* The last term of a sum.
LEMMA SumUpTo ==
  ASSUME NEW n \in Nat, NEW f \in [1..(n + 1) -> Int]
  PROVE  SumFunction(f) = SumFunction([i \in 1..n |-> f[i]]) + f[n + 1]
<1>1. /\ IsFiniteSet(1..(n + 1)) /\ n + 1 \in 1..(n + 1)
      /\ (1..(n + 1)) \ {n + 1} = 1..n
  <2>1. IsFiniteSet(1..(n + 1))
    BY FS_Interval
  <2> QED
    BY <2>1
<1>2. SumFunction(f) = f[n + 1] + SumFunction(Restrict(f, 1..n))
  BY <1>1, SumWithout
<1>3. Restrict(f, 1..n) = [i \in 1..n |-> f[i]]
  BY DEF Restrict
<1>4. SumFunction([i \in 1..n |-> f[i]]) \in Int /\ f[n + 1] \in Int
  <2>1. IsFiniteSet(1..n) /\ [i \in 1..n |-> f[i]] \in [1..n -> Int]
    BY FS_Interval
  <2> QED
    BY <1>1, <2>1, SumIsInt
<1> QED
  BY <1>2, <1>3, <1>4

\* A sequence is finite, so it has a sum.
LEMMA SumOfSequence ==
  ASSUME NEW s \in Seq(Int)
  PROVE  SumFunction(s) \in Int
<1>1. IsFiniteSet(1..Len(s)) /\ s \in [1..Len(s) -> Int]
  BY FS_Interval
<1> QED
  BY <1>1, SumIsInt

\* A concatenation grows with its second part.
LEMMA ConcatLengthens ==
  ASSUME NEW s \in Seq(Int), NEW n \in Nat, NEW u \in [1..(n + 1) -> Int]
  PROVE  LET v == [i \in 1..n |-> u[i]]
             k == Len(s) + n
         IN  /\ k \in Nat /\ s \o u \in [1..(k + 1) -> Int]
             /\ (s \o u)[k + 1] = u[n + 1]
             /\ s \o v = [i \in 1..k |-> (s \o u)[i]]
<1> DEFINE v == [i \in 1..n |-> u[i]]
           k == Len(s) + n
<1>1. u \in Seq(Int) /\ Len(u) = n + 1 /\ v \in Seq(Int) /\ Len(v) = n
  OBVIOUS
<1>2. Len(s) \in Nat
  BY LenProperties
<1>3. /\ s \o u \in Seq(Int) /\ Len(s \o u) = k + 1
      /\ s \o v \in Seq(Int) /\ Len(s \o v) = k
  <2>1. Len(s \o u) = Len(s) + Len(u) /\ s \o u \in Seq(Int)
    BY <1>1, ConcatProperties
  <2>2. Len(s \o v) = Len(s) + Len(v) /\ s \o v \in Seq(Int)
    BY <1>1, ConcatProperties
  <2> QED
    BY <1>1, <1>2, <2>1, <2>2
<1>4. (s \o u)[k + 1] = u[n + 1]
  BY <1>1, <1>2
<1>5. \A i \in 1..k : (s \o v)[i] = (s \o u)[i]
  BY <1>1, <1>2
<1>6. s \o u \in [1..(k + 1) -> Int] /\ s \o v \in [1..k -> Int]
  BY <1>3, LenProperties
<1> QED
  BY <1>2, <1>4, <1>5, <1>6, SMTT(40)

\* The sum of two sequences one after the other.
LEMMA SumConcat ==
  ASSUME NEW s \in Seq(Int), NEW t \in Seq(Int)
  PROVE  SumFunction(s \o t) = SumFunction(s) + SumFunction(t)
<1> DEFINE G == {n \in Nat : \A u \in [1..n -> Int] :
                   SumFunction(s \o u) = SumFunction(s) + SumFunction(u)}
<1>1. 0 \in G
  <2> SUFFICES ASSUME NEW u \in [1..0 -> Int]
               PROVE  SumFunction(s \o u) = SumFunction(s) + SumFunction(u)
    OBVIOUS
  <2>1. DOMAIN u = {} /\ s \o u = s
    <3>1. u = <<>>
      OBVIOUS
    <3> QED
      BY <3>1
  <2> QED
    BY <2>1, SumEmpty, SumOfSequence
<1>2. ASSUME NEW n \in G PROVE n + 1 \in G
  <2> SUFFICES ASSUME NEW u \in [1..(n + 1) -> Int]
               PROVE  SumFunction(s \o u) = SumFunction(s) + SumFunction(u)
    OBVIOUS
  <2> DEFINE v == [i \in 1..n |-> u[i]]
             k == Len(s) + n
  <2>1. SumFunction(s \o v) = SumFunction(s) + SumFunction(v)
    <3>1. v \in [1..n -> Int]
      OBVIOUS
    <3> HIDE DEF v
    <3> QED
      BY <3>1
  <2>2. SumFunction(u) = SumFunction(v) + u[n + 1]
    BY SumUpTo
  <2>3. /\ k \in Nat /\ s \o u \in [1..(k + 1) -> Int] /\ (s \o u)[k + 1] = u[n + 1]
        /\ s \o v = [i \in 1..k |-> (s \o u)[i]]
    <3>1. n \in Nat
      OBVIOUS
    <3> QED
      BY <3>1, ConcatLengthens, Zenon
  <2>4. SumFunction(s \o u) = SumFunction(s \o v) + u[n + 1]
    <3> HIDE DEF v, k
    <3> QED
      BY <2>3, SumUpTo
  <2>5. SumFunction(s) \in Int /\ SumFunction(v) \in Int /\ u[n + 1] \in Int
    BY SumOfSequence
  <2> HIDE DEF v
  <2> QED
    BY <2>1, <2>2, <2>4, <2>5
<1>3. G = Nat
  <2> HIDE DEF G
  <2>1. G \subseteq Nat
    BY DEF G
  <2> QED
    BY <1>1, <1>2, <2>1, NumbersGrow
<1>4. t \in [1..Len(t) -> Int] /\ Len(t) \in Nat
  OBVIOUS
<1> QED
  BY <1>3, <1>4

-------------------------------------------------------------------------------
(* The last of a set of numbers *)

\* A finite set of integers has a largest ...
LEMMA FiniteHasLast ==
  ASSUME NEW S \in SUBSET Int, IsFiniteSet(S), S # {}
  PROVE  \E m \in S : \A x \in S : x <= m
<1> DEFINE G == {U \in SUBSET S : U = {} \/ \E m \in U : \A x \in U : x <= m}
<1>1. ASSUME NEW U \in G, NEW x \in S \ U PROVE U \cup {x} \in G
  <2>1. CASE U = {}
    BY <2>1
  <2>2. CASE U # {}
    <3>1. PICK m \in U : \A y \in U : y <= m
      BY <2>2
    <3>2. CASE x <= m
      BY <3>1, <3>2
    <3>3. CASE ~(x <= m)
      <4>1. \A y \in U : y \in Int /\ m \in Int /\ x \in Int
        OBVIOUS
      <4>2. \A y \in U \cup {x} : y <= x
        BY <3>1, <3>3, <4>1
      <4> QED
        BY <4>2
    <3> QED
      BY <3>2, <3>3
  <2> QED
    BY <2>1, <2>2
<1>2. S \in G
  <2>1. G \in SUBSET SUBSET S /\ {} \in G
    OBVIOUS
  <2> HIDE DEF G
  <2> QED
    BY <1>1, <2>1, GrowingSubsets
<1> QED
  BY <1>2

\* ... which Max of the community modules is.
LEMMA LastIsMax ==
  ASSUME NEW S \in SUBSET Int, IsFiniteSet(S), S # {}
  PROVE  /\ Max(S) \in S
         /\ \A x \in S : x <= Max(S)
<1>1. PICK m \in S : \A x \in S : x <= m
  BY FiniteHasLast
<1>2. \A x \in S : m >= x
  BY <1>1
<1>3. /\ Max(S) \in S
      /\ \A x \in S : Max(S) >= x
  BY <1>2 DEF Max
<1> QED
  BY <1>3

\* Likewise of numbers up to some n.
LEMMA LastUpTo ==
  ASSUME NEW n \in Nat, NEW S \in SUBSET (0..n), S # {}
  PROVE  /\ Max(S) \in S
         /\ \A x \in S : x <= Max(S)
<1>1. IsFiniteSet(0..n)
  BY FS_Interval
<1>2. IsFiniteSet(S)
  BY <1>1, FS_Subset
<1>3. S \in SUBSET Int
  OBVIOUS
<1> QED
  BY <1>2, <1>3, LastIsMax

\* Numbers have a least, which Min of the community modules is.
LEMMA FirstIsMin ==
  ASSUME NEW S \in SUBSET Nat, S # {}
  PROVE  /\ Min(S) \in S
         /\ \A x \in S : Min(S) <= x
<1>1. PICK m \in S : \A x \in S : m <= x
  BY LeastNumber
<1> QED
  BY <1>1 DEF Min
\* What a function takes on a finite set are finitely many values.
LEMMA FiniteImage ==
  ASSUME NEW S, IsFiniteSet(S), NEW f
  PROVE  IsFiniteSet({f[x] : x \in S})
<1> DEFINE T == {f[x] : x \in S}
           g == [x \in S |-> f[x]]
<1>1. g \in Surjection(S, T)
  BY DEF Surjection
<1> HIDE DEF g
<1> QED
  BY <1>1, FS_Surjection

\* Zeros sum to zero.
LEMMA SumOfZeros ==
  ASSUME NEW S, IsFiniteSet(S), NEW f \in [S -> Int], \A x \in S : f[x] = 0
  PROVE  SumFunction(f) = 0
<1>1. SumFunction(f) = SumFunction(Restrict(f, {}))
  BY SumSelected
<1>2. DOMAIN Restrict(f, {}) = {}
  BY DEF Restrict
<1> QED
  BY <1>1, <1>2, SumEmpty

\* A sum does not depend on what its terms are called.
LEMMA SumRenamed ==
  ASSUME NEW S, IsFiniteSet(S), NEW T, IsFiniteSet(T),
         NEW f \in [S -> Int], NEW g \in [T -> Int], NEW key \in [S -> T],
         \A x, y \in S : key[x] = key[y] => x = y,
         \A t \in T : \E x \in S : key[x] = t,
         \A x \in S : g[key[x]] = f[x]
  PROVE  SumFunction(f) = SumFunction(g)
<1> DEFINE At(t) == {x \in S : key[x] = t}
           h == [t \in T |-> SumFunction(Restrict(f, At(t)))]
<1>1. SumFunction(f) = SumFunction(h)
  BY SumByKey
<1>2. ASSUME NEW t \in T PROVE SumFunction(Restrict(f, At(t))) = g[t]
  <2>1. PICK x \in S : key[x] = t
    OBVIOUS
  <2>2. At(t) = {x}
    BY <2>1
  <2> DEFINE k == Restrict(f, {x})
  <2>3. k \in [{x} -> Int] /\ k[x] = g[t]
    BY <2>1 DEF Restrict
  <2>4. IsFiniteSet({x})
    BY FS_Singleton
  <2> HIDE DEF k
  <2>5. SumFunction(k) = k[x]
    BY <2>3, <2>4, SumOfOne
  <2> QED
    BY <2>2, <2>3, <2>5 DEF k
<1>3. h = g
  <2> HIDE DEF At
  <2> QED
    BY <1>2
<1> QED
  BY <1>1, <1>3

===============================================================================
