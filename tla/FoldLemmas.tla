----------------------------- MODULE FoldLemmas ------------------------------
(***************************************************************************)
(* Folds, sums and powers.  The community modules define a fold as the choice of a          *)
(* recursive function over the subsets of a finite set.  Induction is by   *)
(* the smallest counterexample: inclusion is well-founded.                 *)
(***************************************************************************)
EXTENDS SequencesExt, FunctionTheorems, FiniteSetTheorems, WellFoundedInduction, TLAPS

(* A non-empty set of subsets of a finite set has a smallest member.       *)
LEMMA SmallestSubset ==
    ASSUME NEW S, IsFiniteSet(S), NEW T, T \subseteq SUBSET S, T # {}
    PROVE  \E t \in T : \A u \in T : u \subseteq t => u = t
<1>1. IsWellFoundedOn(StrictSubsetOrdering(S), SUBSET S)
  BY FS_StrictSubsetOrderingWellFounded, FS_FiniteSubsetsOfFinite, Zenon
<1>2. PICK t \in T : \A u \in T : <<u, t>> \notin StrictSubsetOrdering(S)
  BY <1>1, WFMin, Zenon
<1>3. \A u \in T : u \subseteq t => u = t
  BY <1>2 DEF StrictSubsetOrdering
<1> QED
  BY <1>3

(* A non-empty set of numbers has a least.                                 *)
LEMMA LeastNumber ==
    ASSUME NEW T \in SUBSET Nat, T # {}
    PROVE  \E m \in T : \A k \in T : m <= k
<1>1. IsWellFoundedOn({ss \in Nat \X Nat : ss[1] < ss[2]}, Nat)
  BY NatLessThanWellFounded, Zenon DEF OpToRel
<1>2. PICK m \in T : \A k \in T : <<k, m>> \notin {ss \in Nat \X Nat : ss[1] < ss[2]}
  BY <1>1, WFMin, Zenon
<1>3. \A k \in T : k \in Nat /\ m \in Nat /\ ~ (k < m)
  BY <1>2
<1> QED
  BY <1>3

(* A non-empty set of positions of a list has a greatest.                  *)
LEMMA GreatestPosition ==
    ASSUME NEW n \in Nat, NEW s, s \subseteq 1..n, s # {}
    PROVE  Max(s) \in s /\ \A y \in s : Max(s) >= y
<1> DEFINE T == {n - y : y \in s}
<1>1. IsWellFoundedOn({ss \in Nat \X Nat : ss[1] < ss[2]}, Nat)
  BY NatLessThanWellFounded, Zenon DEF OpToRel
<1>2. \A y \in s : y \in Int /\ n - y \in Nat
  OBVIOUS
<1>a. T \subseteq Nat /\ T # {}
  BY <1>2
<1>3. PICK m \in T : \A k \in T : <<k, m>> \notin {ss \in Nat \X Nat : ss[1] < ss[2]}
  <2> HIDE DEF T
  <2> QED
    BY <1>1, <1>a, WFMin, Zenon
<1>4. PICK x \in s : m = n - x
  BY <1>3
<1>5. ASSUME NEW y \in s PROVE x >= y
  <2>1. n - y \in T /\ n - y \in Nat /\ m \in Nat
    BY <1>2, <1>4
  <2>2. ~ (n - y < m)
    BY <1>3, <2>1
  <2> QED
    BY <1>2, <1>4, <2>1, <2>2
<1> QED
  BY <1>5 DEF Max

(* A recursion over the subsets of S takes chosen[s] out of s, and by step  *)
(* makes of it and of the value for the rest the value for s.              *)
IsRecursion(S, chosen, V, base, step) ==
    /\ IsFiniteSet(S)
    /\ \A s \in SUBSET S : s # {} => chosen[s] \in s
    /\ base \in V
    /\ \A x \in S, v \in V : step[<<x, v>>] \in V

Solves(g, S, chosen, V, base, step) ==
    /\ g \in [SUBSET S -> V]
    /\ \A s \in SUBSET S :
          g[s] = IF s = {} THEN base ELSE step[<<chosen[s], g[s \ {chosen[s]}]>>]

(* Such a recursion over a finite set has a solution. A CHOOSE of a        *)
(* recursive function, like those of the folds, is therefore one.          *)
LEMMA RecursionExists ==
    ASSUME NEW S, NEW chosen, NEW V, NEW base, NEW step,
           IsRecursion(S, chosen, V, base, step)
    PROVE  \E g : Solves(g, S, chosen, V, base, step)
<1> USE DEF IsRecursion, Solves
<1> DEFINE Rest(s) == s \ {chosen[s]}
           Good(g, s) ==
               /\ g \in [SUBSET s -> V]
               /\ \A t \in SUBSET s :
                     g[t] = IF t = {} THEN base ELSE step[<<chosen[t], g[Rest(t)]>>]
<1>1. ASSUME NEW s, NEW t, NEW g, NEW h, s \subseteq S, t \subseteq s, Good(g, s), Good(h, t)
      PROVE  \A u \in SUBSET t : g[u] = h[u]
  <2> DEFINE Bad == {u \in SUBSET t : g[u] # h[u]}
  <2>1. SUFFICES ASSUME Bad # {} PROVE FALSE
    OBVIOUS
  <2>2. IsFiniteSet(t)
    BY <1>1, FS_Subset
  <2>3. PICK u \in Bad : \A w \in Bad : w \subseteq u => w = u
    <3>1. Bad \subseteq SUBSET t
      OBVIOUS
    <3> HIDE DEF Bad
    <3> QED
      BY <2>1, <2>2, <3>1, SmallestSubset
  <2>4. u # {} => Rest(u) \notin Bad /\ Rest(u) \in SUBSET t /\ Rest(u) \in SUBSET s
    BY <1>1, <2>3
  <2>5. u # {} => g[Rest(u)] = h[Rest(u)]
    BY <2>4
  <2> QED
    BY <1>1, <2>3, <2>5
<1>2. \A s \in SUBSET S : \E g : Good(g, s)
  <2> DEFINE Bad == {s \in SUBSET S : ~ \E g : Good(g, s)}
  <2>1. SUFFICES ASSUME Bad # {} PROVE FALSE
    OBVIOUS
  <2>2. PICK s \in Bad : \A w \in Bad : w \subseteq s => w = s
    <3>1. Bad \subseteq SUBSET S
      OBVIOUS
    <3> HIDE DEF Bad
    <3> QED
      BY <2>1, <3>1, SmallestSubset
  <2> DEFINE Of(t) == CHOOSE g : Good(g, t)
             g == [t \in SUBSET s |-> IF t = {} THEN base
                                      ELSE step[<<chosen[t], Of(Rest(t))[Rest(t)]>>]]
  <2>3. \A t \in SUBSET s : t # s => Good(Of(t), t)
    <3> SUFFICES ASSUME NEW t \in SUBSET s, t # s
                 PROVE  Good(Of(t), t)
      OBVIOUS
    <3>1. \E h : Good(h, t)
      BY <2>2
    <3> HIDE DEF Good
    <3> QED
      BY <3>1
  <2>4. \A t \in SUBSET s : t # {} => Rest(t) \in SUBSET s /\ Rest(t) # s
    BY <2>2
  <2>5. \A t \in SUBSET s : t # s => Of(t)[t] = g[t]
    <3> SUFFICES ASSUME NEW t \in SUBSET s, t # s
                 PROVE  Of(t)[t] = g[t]
      OBVIOUS
    <3>1. CASE t = {}
      BY <2>3, <3>1
    <3>2. CASE t # {}
      <4>1. Good(Of(t), t) /\ Good(Of(Rest(t)), Rest(t))
        BY <2>3, <2>4, <3>2
      <4>2. Of(t)[Rest(t)] = Of(Rest(t))[Rest(t)]
        <5>1. t \subseteq S /\ Rest(t) \subseteq t /\ Rest(t) \in SUBSET Rest(t)
          BY <2>2
        <5> HIDE DEF Good, Rest, Of
        <5> QED
          BY <1>1, <4>1, <5>1
      <4>3. Of(t)[t] = step[<<chosen[t], Of(t)[Rest(t)]>>]
        BY <4>1, <3>2
      <4>4. g[t] = step[<<chosen[t], Of(Rest(t))[Rest(t)]>>]
        BY <3>2
      <4> QED
        BY <4>2, <4>3, <4>4
    <3> QED
      BY <3>1, <3>2
  <2>6. Good(g, s)
    <3>1. ASSUME NEW t \in SUBSET s, t # {}
          PROVE  /\ Of(Rest(t))[Rest(t)] = g[Rest(t)]
                 /\ Of(Rest(t))[Rest(t)] \in V
                 /\ chosen[t] \in S
      <4>1. Rest(t) \in SUBSET s /\ Rest(t) # s
        BY <2>4, <3>1
      <4>2. Good(Of(Rest(t)), Rest(t))
        BY <2>3, <4>1
      <4>3. Of(Rest(t)) \in [SUBSET Rest(t) -> V]
        <5> HIDE DEF Of, Rest
        <5> QED
          BY <4>2
      <4>4. Of(Rest(t))[Rest(t)] \in V
        <5> HIDE DEF Of, Rest
        <5> QED
          BY <4>3
      <4>5. Of(Rest(t))[Rest(t)] = g[Rest(t)]
        <5> HIDE DEF Of, Rest, g
        <5> QED
          BY <2>5, <4>1
      <4>6. chosen[t] \in S
        BY <2>2, <3>1
      <4> QED
        BY <4>4, <4>5, <4>6
    <3>2. \A t \in SUBSET s : g[t] = IF t = {} THEN base
                                       ELSE step[<<chosen[t], Of(Rest(t))[Rest(t)]>>]
      OBVIOUS
    <3>3. g = [t \in SUBSET s |-> g[t]]
      OBVIOUS
    <3>4. \A t \in SUBSET s : g[t] \in V
      <4> HIDE DEF g, Of, Rest
      <4> QED
        BY <3>1, <3>2
    <3> HIDE DEF g, Of, Rest
    <3>5. g \in [SUBSET s -> V]
      BY <3>3, <3>4
    <3> QED
      BY <3>1, <3>2, <3>5
  <2> HIDE DEF Good, g
  <2> QED
    BY <2>2, <2>6
<1> QED
  BY <1>2

-----------------------------------------------------------------------------
(* Sums                                                                    *)

(* The sums of a function over the subsets of its domain.                  *)
SumsTo(g, f) ==
    /\ g \in [SUBSET DOMAIN f -> Nat]
    /\ SumFunction(f) = g[DOMAIN f]
    /\ \A s \in SUBSET DOMAIN f :
          /\ s = {} => g[s] = 0
          /\ s # {} => \E x \in s : g[s] = f[x] + g[s \ {x}]

(* The sum of a finite function takes its elements one by one.             *)
LEMMA SumUnfolds ==
    ASSUME NEW S, IsFiniteSet(S), NEW f \in [S -> Nat]
    PROVE  \E g : SumsTo(g, f)
<1> DEFINE chosen == [s \in SUBSET S |-> CHOOSE x \in s : TRUE]
           step == [p \in S \X Nat |-> f[p[1]] + p[2]]
           Unfolds(g) == g = [s \in SUBSET S |->
                                 IF s = {} THEN 0
                                 ELSE f[CHOOSE x \in s : TRUE] + g[s \ {CHOOSE x \in s : TRUE}]]
<1>1. \A s \in SUBSET S : s # {} => chosen[s] \in s /\ chosen[s] = CHOOSE x \in s : TRUE
  OBVIOUS
<1>2. PICK g : Solves(g, S, chosen, Nat, 0, step)
  <2>1. \A x \in S, v \in Nat : step[<<x, v>>] \in Nat
    OBVIOUS
  <2> HIDE DEF chosen, step
  <2>2. IsRecursion(S, chosen, Nat, 0, step)
    BY <1>1, <2>1 DEF IsRecursion
  <2> QED
    BY <2>2, RecursionExists
<1> USE DEF Solves
<1>3. ASSUME NEW s \in SUBSET S, s # {}
      PROVE  step[<<chosen[s], g[s \ {chosen[s]}]>>]
                = f[CHOOSE x \in s : TRUE] + g[s \ {CHOOSE x \in s : TRUE}]
  <2> DEFINE x == CHOOSE x \in s : TRUE
  <2>1. x \in S /\ chosen[s] = x
    BY <1>1, <1>3
  <2>2. g[s \ {x}] \in Nat
    BY <1>2, <2>1
  <2> HIDE DEF x, chosen
  <2>3. step[<<x, g[s \ {x}]>>] = f[x] + g[s \ {x}]
    BY <2>1, <2>2
  <2> QED
    BY <2>1, <2>3 DEF x
<1> HIDE DEF step, chosen
<1>4. Unfolds(g)
  <2>1. g = [s \in SUBSET S |-> g[s]]
    BY <1>2
  <2> QED
    BY <1>2, <1>3, <2>1
<1> DEFINE h == CHOOSE h : Unfolds(h)
<1>5. SumFunction(f) = h[S]
  <2>1. DOMAIN f = S
    OBVIOUS
  <2> QED
    BY <2>1, Zenon DEF SumFunction, SumFunctionOnSet, FoldFunctionOnSet, MapThenFoldSet
<1>6. Unfolds(h)
  <2> HIDE DEF Unfolds
  <2> QED
    BY <1>4
<1> HIDE DEF h
<1>7. \A s \in SUBSET S : h[s] \in Nat
  <2> DEFINE Bad == {s \in SUBSET S : h[s] \notin Nat}
  <2>1. SUFFICES ASSUME Bad # {} PROVE FALSE
    OBVIOUS
  <2>2. PICK s \in Bad : \A w \in Bad : w \subseteq s => w = s
    <3>1. Bad \subseteq SUBSET S
      OBVIOUS
    <3> HIDE DEF Bad
    <3> QED
      BY <2>1, <3>1, SmallestSubset
  <2> DEFINE x == CHOOSE x \in s : TRUE
  <2>3. s \in SUBSET S /\ s # {} /\ x \in s
    BY <1>6
  <2>4. s \ {x} \in SUBSET S /\ s \ {x} \notin Bad
    <3> HIDE DEF Bad, x
    <3> QED
      BY <2>2, <2>3
  <2>5. h[s] = f[x] + h[s \ {x}]
    BY <1>6, <2>3
  <2> HIDE DEF x
  <2> QED
    BY <2>3, <2>4, <2>5
<1>8. SumsTo(h, f)
  <2>1. h \in [SUBSET S -> Nat]
    BY <1>6, <1>7
  <2>2. ASSUME NEW s \in SUBSET S, s # {}
        PROVE  \E x \in s : h[s] = f[x] + h[s \ {x}]
    BY <1>6, <2>2
  <2>3. h[{}] = 0
    BY <1>6
  <2> QED
    BY <1>5, <2>1, <2>2, <2>3 DEF SumsTo
<1> QED
  BY <1>8

(* A sum is no less than each summand, nor than the number of summands     *)
(* that are not zero.                                                      *)
LEMMA SumAtLeast ==
    ASSUME NEW S, IsFiniteSet(S), NEW f \in [S -> Nat]
    PROVE  /\ SumFunction(f) \in Nat
           /\ \A x \in S : f[x] <= SumFunction(f)
           /\ \A T \in SUBSET S : (\A x \in T : f[x] >= 1) => Cardinality(T) <= SumFunction(f)
<1>1. PICK g : SumsTo(g, f)
  BY SumUnfolds
<1>2. g \in [SUBSET S -> Nat] /\ SumFunction(f) = g[S]
  BY <1>1 DEF SumsTo
<1>3. ASSUME NEW s \in SUBSET S, s # {}
      PROVE  \E x \in s : g[s] = f[x] + g[s \ {x}] /\ f[x] \in Nat /\ g[s \ {x}] \in Nat
  <2>1. PICK x \in s : g[s] = f[x] + g[s \ {x}]
    BY <1>1, <1>3 DEF SumsTo
  <2>2. f[x] \in Nat /\ g[s \ {x}] \in Nat
    BY <1>2
  <2> QED
    BY <2>1, <2>2
<1>4. \A s \in SUBSET S : \A y \in s : f[y] <= g[s]
  <2> DEFINE Bad == {s \in SUBSET S : ~ \A y \in s : f[y] <= g[s]}
  <2>1. SUFFICES ASSUME Bad # {} PROVE FALSE
    OBVIOUS
  <2>2. PICK s \in Bad : \A w \in Bad : w \subseteq s => w = s
    <3>1. Bad \subseteq SUBSET S
      OBVIOUS
    <3> HIDE DEF Bad
    <3> QED
      BY <2>1, <3>1, SmallestSubset
  <2>3. s \in SUBSET S
    OBVIOUS
  <2>4. PICK y \in s : ~ (f[y] <= g[s])
    OBVIOUS
  <2>5. PICK x \in s : g[s] = f[x] + g[s \ {x}] /\ f[x] \in Nat /\ g[s \ {x}] \in Nat
    BY <1>3, <2>3
  <2>6. s \ {x} \in SUBSET S /\ s \ {x} \notin Bad
    <3> HIDE DEF Bad
    <3> QED
      BY <2>2, <2>3, <2>5
  <2>7. y # x => f[y] <= g[s \ {x}]
    BY <2>6
  <2>8. f[y] \in Nat
    BY <2>3
  <2> QED
    BY <2>4, <2>5, <2>7, <2>8
<1>5. ASSUME NEW T \in SUBSET S, \A x \in T : f[x] >= 1
      PROVE  \A s \in SUBSET S : Cardinality(T \cap s) <= g[s]
  <2> DEFINE Bad == {s \in SUBSET S : ~ (Cardinality(T \cap s) <= g[s])}
  <2>1. SUFFICES ASSUME Bad # {} PROVE FALSE
    OBVIOUS
  <2>2. PICK s \in Bad : \A w \in Bad : w \subseteq s => w = s
    <3>1. Bad \subseteq SUBSET S
      OBVIOUS
    <3> HIDE DEF Bad
    <3> QED
      BY <2>1, <3>1, SmallestSubset
  <2>3. s \in SUBSET S /\ ~ (Cardinality(T \cap s) <= g[s])
    OBVIOUS
  <2>4. s # {}
    <3>1. ASSUME s = {} PROVE FALSE
      <4>1. Cardinality(T \cap s) = 0
        BY <3>1, FS_EmptySet
      <4>2. g[s] \in Nat
        BY <1>2, <2>3
      <4> QED
        BY <2>3, <4>1, <4>2
    <3> QED
      BY <3>1
  <2>5. PICK x \in s : g[s] = f[x] + g[s \ {x}] /\ f[x] \in Nat /\ g[s \ {x}] \in Nat
    BY <1>3, <2>3, <2>4
  <2>6. s \ {x} \in SUBSET S /\ s \ {x} \notin Bad
    <3> HIDE DEF Bad
    <3> QED
      BY <2>2, <2>3, <2>5
  <2>7. Cardinality(T \cap (s \ {x})) <= g[s \ {x}]
    BY <2>6
  <2>8. IsFiniteSet(T \cap s) /\ (T \cap s) \ {x} = T \cap (s \ {x})
    BY <2>3, FS_Subset
  <2>9. Cardinality(T \cap s) \in Nat /\ Cardinality(T \cap (s \ {x})) \in Nat
    BY <2>8, FS_CardinalityType, FS_RemoveElement
  <2>10. Cardinality(T \cap (s \ {x})) =
            IF x \in T \cap s THEN Cardinality(T \cap s) - 1 ELSE Cardinality(T \cap s)
    BY <2>8, FS_RemoveElement
  <2>11. x \in T \cap s => f[x] >= 1
    BY <1>5
  <2> QED
    BY <2>3, <2>5, <2>7, <2>9, <2>10, <2>11
<1>6. \A T \in SUBSET S : T \cap S = T
  OBVIOUS
<1>7. S \in SUBSET S
  OBVIOUS
<1>8. ASSUME NEW T \in SUBSET S, \A x \in T : f[x] >= 1
      PROVE  Cardinality(T) <= SumFunction(f)
  <2>1. Cardinality(T \cap S) <= g[S]
    BY <1>5, <1>7, <1>8
  <2> QED
    BY <1>2, <1>6, <2>1
<1> QED
  BY <1>2, <1>4, <1>7, <1>8

-----------------------------------------------------------------------------
(* Powers of two                                                           *)

(* A power of two counts the subsets of a set.                             *)
LEMMA PowerCounts ==
    ASSUME NEW n \in Nat
    PROVE  /\ IsFiniteSet(SUBSET (1..n)) /\ 2^n = Cardinality(SUBSET (1..n))
           /\ 2^n \in Nat \ {0}
<1>1. IsFiniteSet(1..n) /\ Cardinality(1..n) = n
  BY FS_Interval
<1>2. IsFiniteSet(SUBSET (1..n)) /\ Cardinality(SUBSET (1..n)) = 2^n
  BY <1>1, FS_SUBSET
<1>3. Cardinality(SUBSET (1..n)) \in Nat
  BY <1>2, FS_CardinalityType
<1>4. Cardinality(SUBSET (1..n)) # 0
  BY <1>2, FS_EmptySet
<1> QED
  BY <1>2, <1>3, <1>4

(* The sets with n + 1 are as many as those without.                       *)
LEMMA PowerDoubles ==
    ASSUME NEW n \in Nat
    PROVE  2^(n + 1) = 2 * 2^n
<1> DEFINE A == SUBSET (1..n)
           With(s) == s \cup {n + 1}
           B == {With(s) : s \in A}
           f == [s \in A |-> With(s)]
<1>1. n + 1 \in Nat /\ n + 1 \notin 1..n /\ 1..(n + 1) = (1..n) \cup {n + 1}
  OBVIOUS
<1>2. IsFiniteSet(A) /\ Cardinality(A) = 2^n /\ Cardinality(SUBSET (1..(n + 1))) = 2^(n + 1)
      /\ 2^n \in Nat
  BY <1>1, PowerCounts
<1>3. IsFiniteSet(B) /\ Cardinality(B) = Cardinality(A)
  <2>1. \A s, t \in A : With(s) = With(t) => s = t
    BY <1>1
  <2>2. f \in Bijection(A, B)
    <3> HIDE DEF A, With
    <3> QED
      BY <2>1 DEF Bijection, Injection, Surjection, IsInjective
  <2> QED
    BY <1>2, <2>2, FS_Bijection DEF ExistsBijection
<1>4. A \cap B = {} /\ A \cup B = SUBSET (1..(n + 1))
  <2>1. \A s \in A : n + 1 \notin s
    BY <1>1
  <2>2. \A s \in B : n + 1 \in s
    OBVIOUS
  <2>3. ASSUME NEW s \in SUBSET (1..(n + 1))
        PROVE  s \in A \cup B
    <3>1. CASE n + 1 \in s
      <4>1. s \ {n + 1} \in A /\ s = With(s \ {n + 1})
        BY <1>1, <3>1
      <4> QED
        BY <4>1
    <3>2. CASE n + 1 \notin s
      BY <1>1, <3>2
    <3> QED
      BY <3>1, <3>2
  <2>4. A \cup B \subseteq SUBSET (1..(n + 1))
    BY <1>1
  <2> QED
    BY <2>1, <2>2, <2>3, <2>4
<1>5. Cardinality(A \cap B) = 0
  BY <1>4, FS_EmptySet
<1> HIDE DEF A, B
<1>6. Cardinality(A \cup B) = Cardinality(A) + Cardinality(B) - Cardinality(A \cap B)
  BY <1>2, <1>3, FS_Union
<1> DEFINE p == 2^n
           q == 2^(n + 1)
<1>7. p \in Nat /\ q = p + p - 0
  <2>1. q = Cardinality(A \cup B) /\ p = Cardinality(A) /\ p = Cardinality(B) /\ p \in Nat
    BY <1>2, <1>3, <1>4
  <2> HIDE DEF p, q
  <2> QED
    BY <1>5, <1>6, <2>1
<1>8. q = 2 * p
  <2> HIDE DEF p, q
  <2> QED
    BY <1>7
<1> QED
  BY <1>8

(* A name for the power, so that the provers need not look into it.       *)
Pow(n) == 2^n

(* The powers of two unfold one by one.                                    *)
LEMMA PowerFacts ==
    /\ Pow(0) = 1 /\ Pow(1) = 2
    /\ \A n \in Nat : Pow(n) \in Nat \ {0} /\ Pow(n + 1) = 2 * Pow(n)
<1>1. Pow(0) = 1 /\ Pow(1) = 2
  BY DEF Pow
<1>2. ASSUME NEW n \in Nat PROVE Pow(n) \in Nat \ {0} /\ Pow(n + 1) = 2 * Pow(n)
  BY PowerCounts, PowerDoubles DEF Pow
<1> QED
  BY <1>1, <1>2

(* A power of a sum is the product of the powers.                          *)
LEMMA PowerOfSum ==
    ASSUME NEW a \in Nat, NEW b \in Nat
    PROVE  Pow(a + b) = Pow(a) * Pow(b)
<1> DEFINE Bad == {k \in Nat : Pow(a + k) # Pow(a) * Pow(k)}
<1>1. SUFFICES ASSUME Bad # {} PROVE FALSE
  OBVIOUS
<1>2. PICK m \in Bad : \A k \in Bad : m <= k
  <2>1. Bad \in SUBSET Nat
    OBVIOUS
  <2> HIDE DEF Bad
  <2> QED
    BY <1>1, <2>1, LeastNumber
<1>3. m \in Nat /\ Pow(a + m) # Pow(a) * Pow(m)
  OBVIOUS
<1>4. m # 0
  <2>1. Pow(a) \in Nat /\ Pow(0) = 1 /\ a + 0 = a
    BY PowerFacts
  <2>2. Pow(a + 0) = Pow(a) * Pow(0)
    BY <2>1
  <2> QED
    BY <1>3, <2>2
<1> DEFINE k == m - 1
<1>5. k \in Nat /\ k + 1 = m /\ ~ (m <= k) /\ a + k \in Nat /\ (a + k) + 1 = a + m
  BY <1>3, <1>4
<1>6. Pow(a + k) = Pow(a) * Pow(k)
  <2>1. k \notin Bad
    <3> HIDE DEF Bad
    <3> QED
      BY <1>2, <1>5
  <2> QED
    BY <1>5, <2>1
<1>7. Pow(a + m) = 2 * Pow(a + k) /\ Pow(m) = 2 * Pow(k)
  BY <1>5, PowerFacts
<1>8. Pow(a) \in Nat /\ Pow(k) \in Nat
  BY <1>5, PowerFacts
<1> HIDE DEF k
<1>9. 2 * (Pow(a) * Pow(k)) = Pow(a) * (2 * Pow(k))
  BY <1>8
<1> QED
  BY <1>3, <1>6, <1>7, <1>9
=============================================================================
