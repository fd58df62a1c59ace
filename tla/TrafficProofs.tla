------------------------------ MODULE TrafficProofs -----------------------------
(***************************************************************************)
(* Proofs about what the networking pages show of traffic, for all values  *)
(* of the constants of MCControlPlane: rates (NetworkMetrics), the totals  *)
(* the flow exporter is scraped for (FlowExporter), an app's panel         *)
(* (FlowClasses) and the graph (NetworkGraph).  The first section has the  *)
(* facts about sums they need.                                             *)
(***************************************************************************)
EXTENDS MCControlPlane, Sequences, FiniteSetTheorems, WellFoundedInduction, TLAPS

\* No step changes which component the behaviour is of.
LEMMA PartIsKept == [Next]_vars => part' = part
  BY DEF Next, vars

-----------------------------------------------------------------------------
(* Sums of a function's values over a finite set.                          *)

\* A set of sets that has the empty one, and with a set also the one with one more element, has S.
LEMMA SetsGrow ==
  ASSUME NEW S, IsFiniteSet(S), NEW Good, {} \in Good,
         \A T \in SUBSET S : \A x \in S \ T : T \in Good => T \cup {x} \in Good
  PROVE  S \in Good
<1> DEFINE Bad == {T \in FiniteSubsetsOf(S) : T \notin Good}
<1>1. SUFFICES ASSUME S \notin Good PROVE FALSE
  OBVIOUS
<1>2. S \in Bad /\ Bad \subseteq FiniteSubsetsOf(S)
  BY <1>1 DEF FiniteSubsetsOf
<1>3. PICK T \in Bad : \A U \in Bad : ~(<<U, T>> \in StrictSubsetOrdering(S))
  BY <1>2, FS_StrictSubsetOrderingWellFounded, WFMin
<1>4. T \in SUBSET S /\ IsFiniteSet(T) /\ T \notin Good
  BY <1>3 DEF FiniteSubsetsOf
<1>5. PICK x \in T : TRUE
  BY <1>4
<1>6. T \ {x} \in SUBSET S /\ x \in S \ (T \ {x}) /\ T = (T \ {x}) \cup {x} /\ T \ {x} # T
  BY <1>4, <1>5
<1>7. IsFiniteSet(T \ {x})
  BY <1>4, FS_Subset
<1>8. <<T \ {x}, T>> \in StrictSubsetOrdering(S)
  BY <1>4, <1>6 DEF StrictSubsetOrdering
<1>9. T \ {x} \in Good
  BY <1>3, <1>6, <1>7, <1>8 DEF FiniteSubsetsOf
<1> QED
  BY <1>4, <1>6, <1>9

\* A set with 0 and the successor of each of its numbers has them all.
LEMMA AllNumbers ==
  ASSUME NEW S, 0 \in S, \A n \in Nat : n \in S => n + 1 \in S
  PROVE  Nat \subseteq S
<1> SUFFICES ASSUME Nat \ S # {} PROVE FALSE
  OBVIOUS
<1>1. PICK n \in Nat \ S : \A m \in Nat \ S : ~(<<m, n>> \in OpToRel(<, Nat))
  BY NatLessThanWellFounded, WFMin
<1>2. n # 0 /\ n - 1 \in Nat /\ n - 1 < n
  OBVIOUS
<1>3. <<n - 1, n>> \in OpToRel(<, Nat)
  BY <1>2 DEF OpToRel
<1>4. n - 1 \in S
  BY <1>1, <1>2, <1>3
<1>5. (n - 1) + 1 \in S /\ (n - 1) + 1 = n
  BY <1>2, <1>4
<1> QED
  BY <1>5

\* The sums of a function over the subsets of S, as the fold defines them.
Adds(f, S, g) ==
  g = [s \in SUBSET S |-> IF s = {} THEN 0
         ELSE f[CHOOSE x \in s : TRUE] + g[s \ {CHOOSE x \in s : TRUE}]]

LEMMA SumIsFold ==
  ASSUME NEW f, NEW S
  PROVE  SumFunctionOnSet(f, S) = (CHOOSE g : Adds(f, S, g))[S]
  BY DEF SumFunctionOnSet, FoldFunctionOnSet, MapThenFoldSet, Adds

\* There are such sums, of integers.
LEMMA SumsThereAre ==
  ASSUME NEW S, IsFiniteSet(S), NEW f, \A x \in S : f[x] \in Int
  PROVE  \E g : Adds(f, S, g) /\ g \in [SUBSET S -> Int]
<1> DEFINE Pick(s) == CHOOSE x \in s : TRUE
           Small(n) == {s \in SUBSET S : Cardinality(s) <= n}
           Upto(n, g) == \A s \in Small(n) :
             /\ g[s] \in Int
             /\ g[s] = IF s = {} THEN 0 ELSE f[Pick(s)] + g[s \ {Pick(s)}]
           Good == {n \in Nat : \E g : Upto(n, g)}
<1>1. ASSUME NEW s \in SUBSET S, s # {}
      PROVE  /\ Pick(s) \in s /\ f[Pick(s)] \in Int /\ s \ {Pick(s)} \in SUBSET S
             /\ Cardinality(s) \in Nat
             /\ Cardinality(s \ {Pick(s)}) = Cardinality(s) - 1
  <2>1. Pick(s) \in s
    BY <1>1
  <2>2. IsFiniteSet(s)
    BY FS_Subset
  <2> HIDE DEF Pick
  <2> QED
    BY <2>1, <2>2, FS_RemoveElement, FS_CardinalityType
<1>2. \A s \in SUBSET S : Cardinality(s) \in Nat /\ (Cardinality(s) = 0 <=> s = {})
  BY FS_Subset, FS_CardinalityType, FS_EmptySet
<1>3. 0 \in Good
  <2>1. Upto(0, [s \in SUBSET S |-> 0])
    BY <1>2
  <2> QED
    BY <2>1
<1>4. ASSUME NEW n \in Nat, n \in Good PROVE n + 1 \in Good
  <2>1. PICK g : Upto(n, g)
    BY <1>4
  <2> DEFINE h == [s \in SUBSET S |-> IF Cardinality(s) <= n THEN g[s]
                                     ELSE f[Pick(s)] + g[s \ {Pick(s)}]]
  <2>2. ASSUME NEW s \in Small(n + 1)
        PROVE  h[s] \in Int /\ h[s] = IF s = {} THEN 0 ELSE f[Pick(s)] + h[s \ {Pick(s)}]
    <3> HIDE DEF Pick
    <3>0. s \in SUBSET S
      OBVIOUS
    <3>1. CASE s = {}
      <4>1. Cardinality(s) <= n /\ s \in Small(n)
        BY <1>2, <3>0, <3>1
      <4> QED
        BY <2>1, <3>1, <4>1
    <3>2. CASE s # {} /\ Cardinality(s) <= n
      <4>1. s \in Small(n) /\ Cardinality(s \ {Pick(s)}) <= n /\ s \ {Pick(s)} \in SUBSET S
        BY <1>1, <3>0, <3>2
      <4>2. h[s] = g[s] /\ h[s \ {Pick(s)}] = g[s \ {Pick(s)}]
        BY <3>0, <3>2, <4>1
      <4> QED
        BY <2>1, <3>2, <4>1, <4>2
    <3>3. CASE s # {} /\ ~(Cardinality(s) <= n)
      <4>1. /\ Cardinality(s \ {Pick(s)}) <= n /\ s \ {Pick(s)} \in SUBSET S
            /\ f[Pick(s)] \in Int
        BY <1>1, <3>0, <3>3
      <4>2. h[s] = f[Pick(s)] + g[s \ {Pick(s)}] /\ h[s \ {Pick(s)}] = g[s \ {Pick(s)}]
        BY <3>0, <3>3, <4>1
      <4>3. g[s \ {Pick(s)}] \in Int
        BY <2>1, <4>1
      <4> QED
        BY <3>3, <4>1, <4>2, <4>3
    <3> QED
      BY <3>1, <3>2, <3>3
  <2>3. Upto(n + 1, h)
    BY <2>2
  <2> HIDE DEF Upto, h
  <2> QED
    BY <2>3
<1>5. Nat \subseteq Good
  BY <1>3, <1>4, AllNumbers
<1>6. Cardinality(S) \in Nat
  BY FS_CardinalityType
<1>7. PICK g : Upto(Cardinality(S), g)
  BY <1>5, <1>6
<1>8. SUBSET S = Small(Cardinality(S))
  BY FS_Subset, <1>2
<1> DEFINE a == [s \in SUBSET S |-> g[s]]
<1>9. a \in [SUBSET S -> Int]
  BY <1>7, <1>8
<1>10. \A s \in SUBSET S : a[s] = IF s = {} THEN 0 ELSE f[Pick(s)] + a[s \ {Pick(s)}]
  <2> TAKE s \in SUBSET S
  <2>1. s # {} => s \ {Pick(s)} \in SUBSET S
    OBVIOUS
  <2> HIDE DEF Pick
  <2> QED
    BY <2>1, <1>7, <1>8
<1>11. Adds(f, S, a)
  BY <1>10, Zenon DEF Adds
<1> QED
  BY <1>9, <1>11

OneByOne(f, S, g) == \A u \in SUBSET S : \A x \in u : g[u] = f[x] + g[u \ {x}]

\* The elements may be added in any order.
LEMMA AnyOrder ==
  ASSUME NEW S, IsFiniteSet(S), NEW f, \A x \in S : f[x] \in Int,
         NEW g \in [SUBSET S -> Int], Adds(f, S, g)
  PROVE  OneByOne(f, S, g)
<1> DEFINE Pick(s) == CHOOSE x \in s : TRUE
           Says(u) == \A x \in u : g[u] = f[x] + g[u \ {x}]
           Bad == {u \in FiniteSubsetsOf(S) : ~Says(u)}
<1>1. ASSUME NEW s \in SUBSET S, s # {}
      PROVE  Pick(s) \in s /\ g[s] = f[Pick(s)] + g[s \ {Pick(s)}]
  <2>1. Pick(s) \in s
    BY <1>1
  <2>2. g[s] = f[Pick(s)] + g[s \ {Pick(s)}]
    BY <1>1, Zenon DEF Adds
  <2> QED
    BY <2>1, <2>2
<1> HIDE DEF Pick
<1>2. FiniteSubsetsOf(S) = SUBSET S
  BY FS_Subset DEF FiniteSubsetsOf
<1>3. ASSUME NEW v \in Bad PROVE FALSE
  <2>1. PICK u \in Bad : \A w \in Bad : ~(<<w, u>> \in StrictSubsetOrdering(S))
    BY <1>3, FS_StrictSubsetOrderingWellFounded, WFMin
  <2>2. u \in SUBSET S /\ ~Says(u)
    BY <2>1, <1>2
  <2>3. PICK x \in u : g[u] # f[x] + g[u \ {x}]
    BY <2>2
  <2>4. PICK p \in u : g[u] = f[p] + g[u \ {p}]
    BY <2>2, <2>3, <1>1
  <2>5. p # x
    BY <2>3, <2>4
  <2>6. ASSUME NEW y \in u PROVE Says(u \ {y})
    <3>1. u \ {y} \in SUBSET S /\ <<u \ {y}, u>> \in StrictSubsetOrdering(S)
      BY <2>2 DEF StrictSubsetOrdering
    <3> HIDE DEF Says
    <3> QED
      BY <3>1, <2>1, <1>2
  <2>7. /\ g[u \ {p}] = f[x] + g[(u \ {p}) \ {x}]
        /\ g[u \ {x}] = f[p] + g[(u \ {x}) \ {p}]
    BY <2>5, <2>6
  <2>8. (u \ {p}) \ {x} = (u \ {x}) \ {p}
    OBVIOUS
  <2>9. f[x] \in Int /\ f[p] \in Int /\ g[(u \ {x}) \ {p}] \in Int
    BY <2>2
  <2> DEFINE rest == g[(u \ {x}) \ {p}]
  <2>10. g[u] = f[p] + (f[x] + rest) /\ g[u \ {x}] = f[p] + rest /\ rest \in Int
    BY <2>4, <2>7, <2>8, <2>9
  <2> QED
    BY <2>3, <2>9, <2>10
<1> QED
  BY <1>2, <1>3 DEF OneByOne

\* The sum of f over S, whose elements are numbers.
Sum(f, S) == SumFunctionOnSet(f, S)
Sums(f, S) == IsFiniteSet(S) /\ \A x \in S : f[x] \in Int

\* g has the sum of f over every subset of S.
SumOver(f, S, g) ==
  /\ g \in [SUBSET S -> Int] /\ g[{}] = 0
  /\ \A T \in SUBSET S : Sum(f, T) = g[T]
  /\ \A T \in SUBSET S : \A x \in T : g[T] = f[x] + g[T \ {x}]

\* A sum over a set and over its subsets are parts of one fold.
LEMMA SumOfSubset ==
  ASSUME NEW S, NEW f, Sums(f, S)
  PROVE  \E g : SumOver(f, S, g)
<1>1. PICK g : Adds(f, S, g) /\ g \in [SUBSET S -> Int]
  BY SumsThereAre, Zenon DEF Sums
<1>2. \A T \in SUBSET S : \A x \in T : g[T] = f[x] + g[T \ {x}]
  <2>1. IsFiniteSet(S) /\ \A x \in S : f[x] \in Int
    BY DEF Sums
  <2> HIDE DEF Sums
  <2>2. OneByOne(f, S, g)
    BY <1>1, <2>1, AnyOrder, Zenon
  <2> QED
    BY <2>2 DEF OneByOne
<1>3. g[{}] = 0
  BY <1>1, Zenon DEF Adds
<1>4. ASSUME NEW T \in SUBSET S PROVE Sum(f, T) = g[T]
  <2>1. IsFiniteSet(T) /\ \A x \in T : f[x] \in Int
    BY FS_Subset DEF Sums
  <2> DEFINE h == CHOOSE h : Adds(f, T, h)
  <2>2. Adds(f, T, h)
    BY <2>1, SumsThereAre
  <2>3. Sum(f, T) = h[T]
    BY SumIsFold DEF Sum
  <2> HIDE DEF h
  <2>4. h = [s \in SUBSET T |-> h[s]] /\ h[{}] = 0
    BY <2>2, Zenon DEF Adds
  <2>5. ASSUME NEW s \in SUBSET T, s # {}
        PROVE  \E x \in s : h[s] = f[x] + h[s \ {x}]
    <3>1. (CHOOSE x \in s : TRUE) \in s
      BY <2>5
    <3>2. h[s] = f[CHOOSE x \in s : TRUE] + h[s \ {CHOOSE x \in s : TRUE}]
      BY <2>2, <2>5, Zenon DEF Adds
    <3> QED
      BY <3>1, <3>2, Zenon
  <2> DEFINE Bad == {s \in FiniteSubsetsOf(T) : h[s] # g[s]}
  <2>6. FiniteSubsetsOf(T) = SUBSET T
    BY <2>1, FS_Subset DEF FiniteSubsetsOf
  <2>7. ASSUME NEW s \in Bad PROVE FALSE
    <3>1. PICK u \in Bad : \A w \in Bad : ~(<<w, u>> \in StrictSubsetOrdering(T))
      BY <2>7, FS_StrictSubsetOrderingWellFounded, WFMin
    <3>2. u \in SUBSET T /\ h[u] # g[u]
      BY <3>1, <2>6
    <3>3. PICK x \in u : h[u] = f[x] + h[u \ {x}]
      BY <3>2, <2>4, <1>3, <2>5
    <3>4. u \ {x} \in SUBSET T /\ <<u \ {x}, u>> \in StrictSubsetOrdering(T)
      BY <3>2, <3>3 DEF StrictSubsetOrdering
    <3>5. h[u \ {x}] = g[u \ {x}]
      BY <3>4, <3>1, <2>6
    <3>6. u \in SUBSET S
      BY <3>2
    <3> QED
      BY <3>2, <3>3, <3>5, <3>6, <1>2
  <2> QED
    BY <2>3, <2>6, <2>7
<1>5. SumOver(f, S, g)
  BY <1>1, <1>2, <1>3, <1>4 DEF SumOver
<1> QED
  BY <1>5

LEMMA SumType == ASSUME NEW S, NEW f, Sums(f, S) PROVE Sum(f, S) \in Int
<1>1. PICK g : SumOver(f, S, g)
  BY SumOfSubset, Zenon
<1> QED
  BY <1>1 DEF SumOver

LEMMA SumEmpty == ASSUME NEW f PROVE Sum(f, {}) = 0
<1>1. Sums(f, {})
  BY FS_EmptySet DEF Sums
<1>2. PICK g : SumOver(f, {}, g)
  BY <1>1, SumOfSubset, Zenon
<1> QED
  BY <1>2 DEF SumOver

LEMMA SumSplit ==
  ASSUME NEW S, NEW f, Sums(f, S), NEW x \in S
  PROVE  Sum(f, S) = f[x] + Sum(f, S \ {x}) /\ Sum(f, S \ {x}) \in Int
<1>1. PICK g : SumOver(f, S, g)
  BY SumOfSubset, Zenon
<1>2. S \in SUBSET S /\ S \ {x} \in SUBSET S
  OBVIOUS
<1> QED
  BY <1>1, <1>2 DEF SumOver

\* One more element adds its number.
Grows(f, T, x) == /\ Sum(f, T \cup {x}) = f[x] + Sum(f, T)
                  /\ Sum(f, T) \in Int /\ Sum(f, T \cup {x}) \in Int /\ f[x] \in Int

LEMMA SumGrows ==
  ASSUME NEW S, NEW f, Sums(f, S), NEW T, T \subseteq S, NEW x \in S, x \notin T
  PROVE  Grows(f, T, x)
<1>1. Sums(f, T) /\ Sums(f, T \cup {x})
  BY FS_Subset DEF Sums
<1>2. (T \cup {x}) \ {x} = T
  OBVIOUS
<1> QED
  BY <1>1, <1>2, SumSplit, SumType DEF Sums, Grows

LEMMA SumLeq ==
  ASSUME NEW S, NEW f, NEW g, Sums(f, S), Sums(g, S), \A x \in S : f[x] <= g[x]
  PROVE  Sum(f, S) <= Sum(g, S)
<1> DEFINE Good == {T \in SUBSET S : Sum(f, T) <= Sum(g, T)}
<1>1. {} \in Good
  BY SumEmpty
<1>2. ASSUME NEW T \in SUBSET S, NEW x \in S \ T, T \in Good PROVE T \cup {x} \in Good
  <2>1. Grows(f, T, x) /\ Grows(g, T, x)
    BY SumGrows
  <2> QED
    BY <1>2, <2>1 DEF Grows
<1> HIDE DEF Good
<1>3. S \in Good
  BY <1>1, <1>2, SetsGrow DEF Sums
<1> QED
  BY <1>3 DEF Good

LEMMA SumSame ==
  ASSUME NEW S, NEW f, NEW g, Sums(f, S), \A x \in S : f[x] = g[x]
  PROVE  Sum(f, S) = Sum(g, S) /\ Sums(g, S)
<1>1. Sums(g, S)
  BY DEF Sums
<1>2. /\ \A x \in S : f[x] <= g[x] /\ g[x] <= f[x]
      /\ Sum(f, S) \in Int /\ Sum(g, S) \in Int
  BY <1>1, SumType DEF Sums
<1> QED
  BY <1>1, <1>2, SumLeq

LEMMA SumNat ==
  ASSUME NEW S, NEW f, IsFiniteSet(S), \A x \in S : f[x] \in Nat
  PROVE  Sum(f, S) \in Nat /\ Sums(f, S)
<1> DEFINE Good == {T \in SUBSET S : Sum(f, T) \in Nat}
<1>0. Sums(f, S)
  BY DEF Sums
<1>1. {} \in Good
  BY SumEmpty
<1>2. ASSUME NEW T \in SUBSET S, NEW x \in S \ T, T \in Good PROVE T \cup {x} \in Good
  <2>1. Sum(f, T \cup {x}) = f[x] + Sum(f, T) /\ f[x] \in Nat /\ Sum(f, T) \in Nat
    BY <1>0, <1>2, SumGrows DEF Grows
  <2> QED
    BY <2>1
<1> HIDE DEF Good
<1>3. S \in Good
  BY <1>1, <1>2, SetsGrow
<1> QED
  BY <1>0, <1>3 DEF Good

LEMMA SumPlus ==
  ASSUME NEW S, NEW f, NEW g, NEW h, Sums(f, S), Sums(g, S), \A x \in S : h[x] = f[x] + g[x]
  PROVE  Sum(h, S) = Sum(f, S) + Sum(g, S) /\ Sums(h, S)
<1> DEFINE Good == {T \in SUBSET S : Sum(h, T) = Sum(f, T) + Sum(g, T)}
<1>0. Sums(h, S)
  BY DEF Sums
<1>1. {} \in Good
  BY SumEmpty
<1>2. ASSUME NEW T \in SUBSET S, NEW x \in S \ T, T \in Good PROVE T \cup {x} \in Good
  <2>1. Sum(h, T) = Sum(f, T) + Sum(g, T) /\ h[x] = f[x] + g[x]
    BY <1>2
  <2>2. T \subseteq S /\ x \in S /\ x \notin T
    OBVIOUS
  <2>3. Grows(h, T, x) /\ Grows(f, T, x) /\ Grows(g, T, x)
    BY <1>0, <2>2, SumGrows, Zenon
  <2>4. Sum(h, T \cup {x}) = Sum(f, T \cup {x}) + Sum(g, T \cup {x})
    BY <2>1, <2>3 DEF Grows
  <2> QED
    BY <2>4
<1> HIDE DEF Good
<1>3. S \in Good
  BY <1>1, <1>2, SetsGrow DEF Sums
<1> QED
  BY <1>0, <1>3 DEF Good

\* Two sets without an element in common.
LEMMA SumUnion ==
  ASSUME NEW S, NEW T, NEW f, Sums(f, S), Sums(f, T), S \cap T = {}
  PROVE  Sum(f, S \cup T) = Sum(f, S) + Sum(f, T) /\ Sums(f, S \cup T)
<1> DEFINE Good == {U \in SUBSET T : Sum(f, S \cup U) = Sum(f, S) + Sum(f, U)}
<1>0. Sums(f, S \cup T)
  BY FS_Union DEF Sums
<1>1. {} \in Good
  <2>1. S \cup {} = S
    OBVIOUS
  <2> QED
    BY <2>1, SumEmpty, SumType
<1>2. ASSUME NEW U \in SUBSET T, NEW x \in T \ U, U \in Good PROVE U \cup {x} \in Good
  <2>1. Sum(f, S \cup U) = Sum(f, S) + Sum(f, U)
    BY <1>2
  <2>2. Grows(f, U, x)
    BY SumGrows
  <2>3. S \cup U \subseteq S \cup T /\ x \in S \cup T /\ x \notin S \cup U
    OBVIOUS
  <2>4. Grows(f, S \cup U, x)
    BY <1>0, <2>3, SumGrows, Zenon
  <2>5. (S \cup U) \cup {x} = S \cup (U \cup {x}) /\ Sum(f, S) \in Int
    BY SumType
  <2>6. Sum(f, S \cup (U \cup {x})) = Sum(f, S) + Sum(f, U \cup {x})
    <3>1. Sum(f, S \cup (U \cup {x})) = f[x] + Sum(f, S \cup U)
      BY <2>4, <2>5, Zenon DEF Grows
    <3> QED
      BY <2>1, <2>2, <2>5, <3>1 DEF Grows
  <2> QED
    BY <2>6
<1> HIDE DEF Good
<1>3. T \in Good
  BY <1>1, <1>2, SetsGrow DEF Sums
<1> QED
  BY <1>0, <1>3 DEF Good

\* A sum over more elements is no less.
LEMMA SumOfMore ==
  ASSUME NEW S, NEW T, NEW f, IsFiniteSet(T), S \subseteq T, \A x \in T : f[x] \in Nat
  PROVE  /\ Sum(f, S) <= Sum(f, T) /\ Sum(f, S) \in Nat /\ Sum(f, T) \in Nat
         /\ Sums(f, S) /\ Sums(f, T)
<1>1. IsFiniteSet(S) /\ IsFiniteSet(T \ S) /\ S \cap (T \ S) = {} /\ S \cup (T \ S) = T
  BY FS_Subset
<1>2. /\ Sum(f, S) \in Nat /\ Sums(f, S) /\ Sum(f, T) \in Nat /\ Sums(f, T)
      /\ Sum(f, T \ S) \in Nat /\ Sums(f, T \ S)
  BY <1>1, SumNat
<1>3. Sum(f, T) = Sum(f, S) + Sum(f, T \ S)
  BY <1>1, <1>2, SumUnion
<1> QED
  BY <1>2, <1>3

\* What is summed up over parts without an element in common is the sum of them all.
LEMMA SumOfSums ==
  ASSUME NEW E, IsFiniteSet(E), NEW C, NEW f, NEW F, NEW S, Sums(f, S),
         \A e \in E : C[e] \subseteq S /\ F[e] = Sum(f, C[e]),
         \A d, e \in E : d # e => C[d] \cap C[e] = {}
  PROVE  Sum(F, E) = Sum(f, UNION {C[e] : e \in E}) /\ Sums(F, E)
<1> DEFINE All(D) == UNION {C[e] : e \in D}
           Good == {D \in SUBSET E : Sum(F, D) = Sum(f, All(D))}
<1>0. \A U \in SUBSET S : Sums(f, U)
  BY FS_Subset DEF Sums
<1>1. Sums(F, E)
  BY <1>0, SumType DEF Sums
<1>2. {} \in Good
  <2>1. All({}) = {}
    OBVIOUS
  <2> QED
    BY <2>1, SumEmpty
<1>3. ASSUME NEW D \in SUBSET E, NEW x \in E \ D, D \in Good PROVE D \cup {x} \in Good
  <2>1. /\ All(D) \subseteq S /\ C[x] \subseteq S /\ C[x] \cap All(D) = {}
        /\ All(D \cup {x}) = C[x] \cup All(D)
    OBVIOUS
  <2>2. Sum(F, D) = Sum(f, All(D))
    BY <1>3
  <2> HIDE DEF All
  <2>3. Sum(f, C[x] \cup All(D)) = Sum(f, C[x]) + Sum(f, All(D))
    BY <1>0, <2>1, SumUnion
  <2>4. Sum(F, D \cup {x}) = F[x] + Sum(F, D)
    BY <1>1, SumGrows DEF Grows
  <2>5. Sum(F, D \cup {x}) = Sum(f, All(D \cup {x}))
    BY <2>1, <2>2, <2>3, <2>4
  <2> QED
    BY <2>5
<1> HIDE DEF Good
<1>4. E \in Good
  BY <1>2, <1>3, SetsGrow
<1> QED
  BY <1>1, <1>4 DEF Good

\* One value is replaced.
LEMMA SumChange ==
  ASSUME NEW S, NEW f, NEW g, Sums(f, S), NEW m \in S, g[m] \in Int,
         \A x \in S \ {m} : g[x] = f[x]
  PROVE  Sum(g, S) = Sum(f, S) + g[m] - f[m] /\ Sums(g, S) /\ Sum(f, S) \in Int
<1>1. Sums(g, S) /\ Sums(f, S \ {m})
  BY FS_Subset DEF Sums
<1>2. Sum(f, S \ {m}) = Sum(g, S \ {m})
  BY <1>1, SumSame
<1>3. /\ Sum(f, S) = f[m] + Sum(f, S \ {m}) /\ Sum(f, S \ {m}) \in Int
      /\ Sum(g, S) = g[m] + Sum(g, S \ {m})
  BY <1>1, SumSplit
<1>4. f[m] \in Int
  BY DEF Sums
<1> QED
  BY <1>1, <1>2, <1>3, <1>4

LEMMA SumZero ==
  ASSUME NEW S, IsFiniteSet(S), NEW f, \A x \in S : f[x] = 0 PROVE Sum(f, S) = 0
<1>1. Sums(f, S) /\ \A x \in S : f[x] = f[x] + f[x]
  BY DEF Sums
<1>2. Sum(f, S) \in Int /\ Sum(f, S) = Sum(f, S) + Sum(f, S)
  BY <1>1, SumPlus, SumType
<1>3. \A n \in Int : n = n + n => n = 0
  OBVIOUS
<1> QED
  BY <1>2, <1>3, Zenon

-----------------------------------------------------------------------------
(* NetworkMetrics.                                                         *)

LEMMA NetSums ==
  ASSUME NEW f, NEW S PROVE Net!SumFunctionOnSet(f, S) = Sum(f, S)
  BY DEF Sum, SumFunctionOnSet, FoldFunctionOnSet, MapThenFoldSet, Net!SumFunctionOnSet,
    Net!FoldFunctionOnSet, Net!MapThenFoldSet

\* What the Pods of n count, as a sum over the machines.
Counts(counter, n) == [m \in Machines |-> counter[m][n]]
Within(bytes, moved, read) ==
  /\ read.total \in Nat /\ read.moved \in 0 .. moved /\ read.partial \in BOOLEAN
  /\ read.partial \/ bytes - read.total <= moved - read.moved

LEMMA PodBytesAre == \A n \in Namespaces : Net!PodBytes(n) = Sum(Counts(v1, n), v3[n])
  BY NetSums DEF Net!PodBytes, Counts

LEMMA BoundsAre ==
  ASSUME NEW n, NEW read PROVE Net!Bounds(n, read) <=> Within(Net!PodBytes(n), v2[n], read)
  BY DEF Net!Bounds, Within

\* The counters of any machines add up to a number.
LEMMA CountsAdd ==
  ASSUME v1 \in [Machines -> [Namespaces -> Nat]], NEW n \in Namespaces, NEW S, S \subseteq Machines
  PROVE  Sum(Counts(v1, n), S) \in Nat /\ Sums(Counts(v1, n), S)
<1>1. IsFiniteSet(S)
  <2>1. IsFiniteSet(Machines)
    BY NetMachinesAssumption DEF Net!MachinesAssumption, Net!IsFiniteSet, IsFiniteSet
  <2> QED
    BY <2>1, FS_Subset
<1>2. \A m \in S : Counts(v1, n)[m] \in Nat
  BY DEF Counts
<1> QED
  BY <1>1, <1>2, SumNat, Zenon

\* A byte: one counter has it, and it was moved.  A Pod that is replaced: its counter is gone.
LEMMA BytesMove ==
  ASSUME Net!MetricsInv, NEW m \in Machines, NEW n \in Namespaces,
         \/ Net!Transfer(m, n) \/ \E there \in BOOLEAN : Net!Replace(m, n, there)
  PROVE  /\ v1' \in [Machines -> [Namespaces -> Nat]] /\ v2' \in [Namespaces -> Nat]
         /\ v3' \in [Namespaces -> SUBSET Machines]
         /\ \A k \in Namespaces :
              /\ Net!PodBytes(k) \in Nat /\ Net!PodBytes(k)' \in Nat
              /\ Net!PodBytes(k)' - Net!PodBytes(k) <= v2'[k] - v2[k] /\ v2[k] <= v2'[k]
<1>0. /\ v1 \in [Machines -> [Namespaces -> Nat]] /\ v2 \in [Namespaces -> Nat]
      /\ v3 \in [Namespaces -> SUBSET Machines]
  BY DEF Net!MetricsInv
<1> DEFINE Typed == /\ v1' \in [Machines -> [Namespaces -> Nat]] /\ v2' \in [Namespaces -> Nat]
                    /\ v3' \in [Namespaces -> SUBSET Machines]
                    /\ \A k \in Namespaces : v2[k] <= v2'[k]
<1>1. Typed
  <2>1. CASE Net!Transfer(m, n)
    <3>1. v1[m] \in [Namespaces -> Nat] /\ v1[m][n] + 1 \in Nat
      BY <1>0
    <3>2. /\ v1' = [v1 EXCEPT ![m] = [v1[m] EXCEPT ![n] = v1[m][n] + 1]]
          /\ v2' = [v2 EXCEPT ![n] = v2[n] + 1] /\ v3' = v3
      BY <2>1 DEF Net!Transfer
    <3>3. [v1[m] EXCEPT ![n] = v1[m][n] + 1] \in [Namespaces -> Nat]
      BY <3>1
    <3> QED
      BY <1>0, <3>2, <3>3
  <2>2. ASSUME NEW there \in BOOLEAN, Net!Replace(m, n, there) PROVE Typed
    <3>1. /\ v1' = [v1 EXCEPT ![m] = [v1[m] EXCEPT ![n] = 0]] /\ v2' = v2
          /\ v3' = [v3 EXCEPT ![n] = IF there THEN @ \cup {m} ELSE @ \ {m}]
      BY <2>2 DEF Net!Replace
    <3>2. [v1[m] EXCEPT ![n] = 0] \in [Namespaces -> Nat] /\ v3[n] \in SUBSET Machines
      BY <1>0
    <3> QED
      BY <1>0, <3>1, <3>2
  <2> QED
    BY <2>1, <2>2
<1>2. ASSUME NEW k \in Namespaces
      PROVE  /\ Net!PodBytes(k) \in Nat /\ Net!PodBytes(k)' \in Nat
             /\ Net!PodBytes(k)' - Net!PodBytes(k) <= v2'[k] - v2[k]
  <2> DEFINE f == Counts(v1, k)
             g == Counts(v1', k)
             S == v3[k]
             T == v3'[k]
  <2>1. Net!PodBytes(k) = Sum(f, S) /\ Net!PodBytes(k)' = Sum(g, T)
    BY NetSums DEF Net!PodBytes, Counts
  <2>2. S \subseteq Machines /\ T \subseteq Machines
    BY <1>0, <1>1
  <2>3. /\ \A x \in Machines : f[x] = v1[x][k] /\ g[x] = v1'[x][k] /\ f[x] \in Nat /\ g[x] \in Nat
    BY <1>0, <1>1 DEF Counts
  <2>4. IsFiniteSet(Machines)
    BY NetMachinesAssumption DEF Net!MachinesAssumption, Net!IsFiniteSet, IsFiniteSet
  <2> HIDE DEF f, g, S, T
  <2>5. /\ Sum(f, S) \in Nat /\ Sums(f, S) /\ Sum(g, T) \in Nat /\ Sums(g, T)
        /\ IsFiniteSet(S) /\ IsFiniteSet(T)
    BY <2>2, <2>3, <2>4, SumNat, FS_Subset
  <2>6. CASE k # n
    <3>1. S = T /\ v2'[k] = v2[k] /\ \A x \in Machines : g[x] = f[x]
      BY <1>0, <2>3, <2>6 DEF Net!Transfer, Net!Replace, S, T
    <3>2. Sum(f, S) = Sum(g, S)
      BY <2>2, <2>5, <3>1, SumSame
    <3> QED
      BY <1>0, <2>1, <2>5, <3>1, <3>2
  <2>7. CASE k = n /\ Net!Transfer(m, n)
    <3>1. /\ S = T /\ m \in S /\ v2'[k] = v2[k] + 1 /\ g[m] = f[m] + 1
          /\ \A x \in S \ {m} : g[x] = f[x]
      BY <1>0, <2>2, <2>3, <2>7 DEF Net!Transfer, S, T
    <3>2. Sum(g, S) = Sum(f, S) + g[m] - f[m]
      BY <2>2, <2>3, <2>5, <3>1, SumChange
    <3> QED
      BY <1>0, <2>1, <2>2, <2>3, <2>5, <3>1, <3>2
  <2>8. CASE k = n /\ \E there \in BOOLEAN : Net!Replace(m, n, there)
    <3>1. /\ T \subseteq S \cup {m} /\ S \ {m} = (S \cup {m}) \ {m}
          /\ v2'[k] = v2[k] /\ g[m] = 0 /\ \A x \in S \ {m} : g[x] = f[x]
      BY <1>0, <2>2, <2>3, <2>8 DEF Net!Replace, S, T
    <3>2. IsFiniteSet(S \cup {m}) /\ IsFiniteSet(S \ {m}) /\ S \cup {m} \subseteq Machines
      BY <2>2, <2>4, FS_Subset
    <3>3. Sum(g, T) <= Sum(g, S \cup {m}) /\ Sums(g, S \cup {m})
      BY <2>3, <3>1, <3>2, SumOfMore
    <3>4. Sum(g, S \cup {m}) = Sum(g, S \ {m})
      <4>1. Sum(g, S \cup {m}) = g[m] + Sum(g, (S \cup {m}) \ {m})
            /\ Sum(g, (S \cup {m}) \ {m}) \in Int
        BY <3>3, SumSplit
      <4>2. Sum(g, (S \cup {m}) \ {m}) = Sum(g, S \ {m}) /\ g[m] = 0
        BY <3>1, Zenon
      <4> QED
        BY <4>1, <4>2
    <3>5. /\ Sum(g, S \ {m}) = Sum(f, S \ {m}) /\ Sum(f, S \ {m}) \in Nat
          /\ Sum(f, S \ {m}) <= Sum(f, S)
      <4>1. Sum(f, S \ {m}) <= Sum(f, S) /\ Sums(f, S \ {m}) /\ Sum(f, S \ {m}) \in Nat
        BY <2>2, <2>3, <2>5, SumOfMore
      <4>2. \A x \in S \ {m} : f[x] = g[x]
        BY <3>1
      <4>3. Sum(f, S \ {m}) = Sum(g, S \ {m})
        BY <4>1, <4>2, SumSame, Zenon
      <4> QED
        BY <4>1, <4>3
    <3>6. Sum(g, T) <= Sum(f, S)
      BY <2>5, <3>3, <3>4, <3>5
    <3> QED
      BY <1>0, <2>1, <2>5, <3>1, <3>6
  <2> QED
    BY <2>6, <2>7, <2>8
<1> QED
  BY <1>1, <1>2

\* No traffic, no reading.
LEMMA MetricsInitially == Net!Init => Net!MetricsInv
  BY DEF Net!Init, Net!MetricsInv, Net!RatesAreReal

\* What was read stays within its bounds while bytes are moved and Pods replaced.
LEMMA MetricsMove ==
  ASSUME Net!MetricsInv, NEW m \in Machines, NEW n \in Namespaces,
         \/ Net!Transfer(m, n) \/ \E there \in BOOLEAN : Net!Replace(m, n, there)
  PROVE  Net!MetricsInv'
<1>1. /\ v1' \in [Machines -> [Namespaces -> Nat]] /\ v2' \in [Namespaces -> Nat]
      /\ v3' \in [Namespaces -> SUBSET Machines]
      /\ UNCHANGED <<v4, v5, v6>> /\ v2 \in [Namespaces -> Nat]
  BY BytesMove DEF Net!Transfer, Net!Replace, Net!cached, Net!MetricsInv
<1>2. ASSUME NEW k \in Namespaces, NEW read, Within(Net!PodBytes(k), v2[k], read)
      PROVE  Within(Net!PodBytes(k)', v2'[k], read)
  <2>1. /\ Net!PodBytes(k) \in Nat /\ Net!PodBytes(k)' \in Nat /\ v2[k] \in Nat /\ v2'[k] \in Nat
        /\ Net!PodBytes(k)' - Net!PodBytes(k) <= v2'[k] - v2[k] /\ v2[k] <= v2'[k]
    BY <1>1, BytesMove
  <2> DEFINE b == Net!PodBytes(k)
             c == Net!PodBytes(k)'
  <2> HIDE DEF b, c
  <2> QED
    BY <1>2, <2>1 DEF Within, b, c
<1>3. \A k \in Namespaces : v5[k] # Absent => Within(Net!PodBytes(k), v2[k], v5[k])
  BY BoundsAre DEF Net!MetricsInv
<1>4. v4 # Absent => \A k \in DOMAIN v4.totals :
        k \in Namespaces /\ Within(Net!PodBytes(k), v2[k], v4.totals[k])
  BY BoundsAre DEF Net!MetricsInv
<1>5. \A k \in Namespaces : v5'[k] # Absent => Net!Bounds(k, v5[k])'
  <2>1. \A k \in Namespaces : v5[k] # Absent => Within(Net!PodBytes(k)', v2'[k], v5[k])
    BY <1>2, <1>3
  <2> QED
    BY <1>1, <2>1 DEF Net!Bounds, Within
<1>6. v4' # Absent => \A k \in DOMAIN v4'.totals : Net!Bounds(k, v4.totals[k])'
  <2>1. v4 # Absent => \A k \in DOMAIN v4.totals : Within(Net!PodBytes(k)', v2'[k], v4.totals[k])
    BY <1>2, <1>4
  <2> QED
    BY <1>1, <2>1 DEF Net!Bounds, Within
<1> QED
  BY <1>1, <1>5, <1>6 DEF Net!MetricsInv, Net!RatesAreReal

\* A reading, late as it may be, is of the counters of one moment.
LEMMA MetricsFetched == Net!MetricsInv /\ Net!Fetch => Net!MetricsInv'
<1> SUFFICES ASSUME Net!MetricsInv, Net!Fetch PROVE Net!MetricsInv'
  OBVIOUS
<1>1. PICK answered \in SUBSET Machines :
        v4' = [totals |-> Net!Aggregate(answered), heard |-> Net!Subscribers # {}]
  BY DEF Net!Fetch
<1>2. /\ UNCHANGED <<v1, v2, v3, v5, v6>> /\ v1 \in [Machines -> [Namespaces -> Nat]]
      /\ v2 \in [Namespaces -> Nat] /\ v3 \in [Namespaces -> SUBSET Machines]
  BY DEF Net!Fetch, Net!counters, Net!MetricsInv
<1>3. ASSUME NEW n \in Namespaces, v3[n] \cap answered # {}
      PROVE  /\ Within(Net!PodBytes(n), v2[n], Net!Aggregate(answered)[n])
             /\ v5[n] # Absent =>
                  /\ v5[n].moved <= Net!Aggregate(answered)[n].moved
                  /\ v5[n].partial \/ Net!Aggregate(answered)[n].total - v5[n].total
                                      <= Net!Aggregate(answered)[n].moved - v5[n].moved
  <2> DEFINE f == Counts(v1, n)
             S == v3[n]
             A == S \cap answered
             now == [total |-> Sum(f, A), moved |-> v2[n], partial |-> ~(S \subseteq answered)]
  <2>1. Net!Aggregate(answered)[n] = now
    BY <1>3, NetSums DEF Net!Aggregate, Counts
  <2>2. Net!PodBytes(n) = Sum(f, S)
    BY PodBytesAre
  <2>3. S \subseteq Machines /\ A \subseteq S /\ \A x \in S : f[x] \in Nat
    BY <1>2 DEF Counts
  <2>4. IsFiniteSet(S)
    BY <2>3, NetMachinesAssumption, FS_Subset DEF Net!MachinesAssumption, Net!IsFiniteSet, IsFiniteSet
  <2> HIDE DEF f, S, A
  <2>5. Sum(f, A) <= Sum(f, S) /\ Sum(f, A) \in Nat /\ Sum(f, S) \in Nat
    BY <2>3, <2>4, SumOfMore
  <2>6. S \subseteq answered => Sum(f, A) = Sum(f, S)
    <3>1. S \subseteq answered => A = S
      BY DEF A
    <3> QED
      BY <3>1
  <2>7. Within(Sum(f, S), v2[n], now)
    <3>1. /\ now.total = Sum(f, A) /\ now.moved = v2[n] /\ v2[n] \in Nat
          /\ now.partial \in BOOLEAN /\ (S \subseteq answered \/ now.partial)
      BY <1>2
    <3> HIDE DEF now
    <3>2. S \subseteq answered => Sum(f, S) - now.total <= v2[n] - now.moved
      BY <2>5, <2>6, <3>1
    <3> QED
      BY <2>5, <3>1, <3>2 DEF Within
  <2>8. v5[n] # Absent => Within(Sum(f, S), v2[n], v5[n])
    BY <2>2, BoundsAre DEF Net!MetricsInv
  <2>9. v5[n] # Absent =>
          /\ v5[n].moved <= now.moved
          /\ v5[n].partial \/ now.total - v5[n].total <= now.moved - v5[n].moved
    BY <1>2, <2>5, <2>8 DEF Within
  <2> QED
    BY <2>1, <2>2, <2>7, <2>9
<1>4. /\ v4'.totals = Net!Aggregate(answered)
      /\ DOMAIN v4'.totals = {n \in Namespaces : v3[n] \cap answered # {}}
  BY <1>1 DEF Net!Aggregate
<1>5. \A n \in DOMAIN v4'.totals : Net!Bounds(n, v4.totals[n])'
  <2>1. \A n \in DOMAIN v4'.totals : Within(Net!PodBytes(n), v2[n], v4'.totals[n])
    BY <1>3, <1>4
  <2>2. \A n \in DOMAIN v4'.totals : Net!PodBytes(n)' = Net!PodBytes(n)
    BY <1>2 DEF Net!PodBytes
  <2> QED
    BY <1>2, <2>1, <2>2 DEF Net!Bounds, Within
<1>6. \A n \in Namespaces : v5'[n] # Absent => Net!Bounds(n, v5[n])'
  BY <1>2 DEF Net!MetricsInv, Net!Bounds, Net!PodBytes
<1> QED
  BY <1>2, <1>3, <1>4, <1>5, <1>6 DEF Net!MetricsInv, Net!RatesAreReal

\* A rate is of two readings, and they are within each other's bounds.
LEMMA MetricsPublished == Net!MetricsInv /\ Net!Publish => Net!MetricsInv'
<1> SUFFICES ASSUME Net!MetricsInv, Net!Publish PROVE Net!MetricsInv'
  OBVIOUS
<1> DEFINE read == DOMAIN v4.totals
           Row == [bytes : Nat, moved : Nat, partial : BOOLEAN]
           Real(s) == s.bytes <= s.moved \/ s.partial
<1>1. PICK close \in BOOLEAN :
        /\ v6' = [n \in Namespaces |->
                    IF n \in read THEN Net!AddSample(v6[n], Net!Sample(n, close)) ELSE v6[n]]
        /\ v5' = [n \in Namespaces |->
                    IF n \notin read THEN v5[n]
                    ELSE [total |-> v4.totals[n].total, moved |-> v4.totals[n].moved,
                          partial |-> v4.totals[n].partial, fresh |-> TRUE]]
  BY DEF Net!Publish
<1>2. /\ v4 # Absent /\ v4' = Absent /\ UNCHANGED <<v1, v2, v3>> /\ read \subseteq Namespaces
      /\ v1 \in [Machines -> [Namespaces -> Nat]]
      /\ v2 \in [Namespaces -> Nat] /\ v3 \in [Namespaces -> SUBSET Machines]
  BY DEF Net!Publish, Net!counters, Net!MetricsInv
<1>3. \A n \in read :
        /\ Within(Net!PodBytes(n), v2[n], v4.totals[n])
        /\ v5[n] # Absent =>
             /\ v5[n].moved <= v4.totals[n].moved
             /\ v5[n].partial \/ v4.totals[n].total - v5[n].total <= v4.totals[n].moved - v5[n].moved
  BY <1>2, BoundsAre DEF Net!MetricsInv
<1>4. \A n \in Namespaces : v5[n] # Absent => Within(Net!PodBytes(n), v2[n], v5[n])
  BY BoundsAre DEF Net!MetricsInv
<1>5. ASSUME NEW n \in read PROVE Net!Sample(n, close) \in Row /\ Real(Net!Sample(n, close))
  <2> DEFINE now == v4.totals[n]
             known == v5[n] # Absent /\ v5[n].fresh
             s == Net!Sample(n, close)
  <2>1. now.total \in Nat /\ now.moved \in Nat
    BY <1>2, <1>3 DEF Within
  <2>2. CASE ~known
    <3>1. s = [bytes |-> 0, moved |-> 0, partial |-> FALSE]
      BY <2>2 DEF Net!Sample
    <3> QED
      BY <3>1
  <2>3. CASE known
    <3>1. /\ v5[n].total \in Nat /\ v5[n].moved \in Nat /\ v5[n].partial \in BOOLEAN
          /\ v5[n].moved <= now.moved
          /\ v5[n].partial \/ now.total - v5[n].total <= now.moved - v5[n].moved
      BY <1>2, <1>3, <1>4, <2>3 DEF Within
    <3>2. s = [bytes |-> Net!RateFromDelta(now.total, v5[n].total, close),
               moved |-> now.moved - v5[n].moved, partial |-> v5[n].partial]
      <4>1. (known /\ v5[n].partial) = v5[n].partial
        BY <2>3, <3>1
      <4> QED
        BY <2>3, <4>1 DEF Net!Sample
    <3> DEFINE rate == Net!RateFromDelta(now.total, v5[n].total, close)
    <3>3. rate = 0 \/ (rate = now.total - v5[n].total /\ now.total >= v5[n].total)
      BY DEF Net!RateFromDelta
    <3> HIDE DEF rate
    <3>4. rate \in Nat /\ (rate <= now.moved - v5[n].moved \/ v5[n].partial)
      BY <2>1, <3>1, <3>3
    <3>5. now.moved - v5[n].moved \in Nat
      BY <2>1, <3>1
    <3>6. s = [bytes |-> rate, moved |-> now.moved - v5[n].moved, partial |-> v5[n].partial]
      BY <3>2 DEF rate
    <3>7. s \in Row
      BY <3>1, <3>4, <3>5, <3>6
    <3>8. Real(s)
      BY <3>4, <3>6
    <3> QED
      BY <3>7, <3>8
  <2> QED
    BY <2>2, <2>3
<1>6. \A n \in Namespaces : v6[n] \in Seq(Row) /\ \A i \in DOMAIN v6[n] : Real(v6[n][i])
  BY DEF Net!MetricsInv, Net!RatesAreReal
<1>7. ASSUME NEW n \in Namespaces
      PROVE  v6'[n] \in Seq(Row) /\ \A i \in DOMAIN v6'[n] : Real(v6'[n][i])
  <2>1. CASE n \notin read
    BY <1>1, <1>6, <2>1
  <2>2. CASE n \in read
    <3> DEFINE w == v6[n]
               s == Net!Sample(n, close)
               all == Append(w, s)
    <3>1. w \in Seq(Row) /\ s \in Row /\ Real(s) /\ \A i \in DOMAIN w : Real(w[i])
      BY <1>5, <1>6, <2>2
    <3> HIDE DEF w, s, Real, Row
    <3>2. all \in Seq(Row) /\ all # << >> /\ \A i \in DOMAIN all : Real(all[i])
      BY <3>1
    <3> HIDE DEF all
    <3>3. Tail(all) \in Seq(Row) /\ \A i \in DOMAIN Tail(all) : Real(Tail(all)[i])
      BY <3>2
    <3>4. v6'[n] = all \/ v6'[n] = Tail(all)
      BY <1>1, <2>2 DEF Net!AddSample, w, s, all
    <3> QED
      BY <3>2, <3>3, <3>4
  <2> QED
    BY <2>1, <2>2
<1>8. ASSUME NEW n \in Namespaces, v5'[n] # Absent PROVE Net!Bounds(n, v5[n])'
  <2>1. Within(Net!PodBytes(n), v2[n], v5'[n])
    <3>1. CASE n \notin read
      BY <1>1, <1>4, <1>8, <3>1
    <3>2. CASE n \in read
      BY <1>1, <1>3, <3>2 DEF Within
    <3> QED
      BY <3>1, <3>2
  <2>2. Net!PodBytes(n)' = Net!PodBytes(n) /\ v2' = v2
    BY <1>2 DEF Net!PodBytes
  <2> QED
    BY <2>1, <2>2 DEF Net!Bounds, Within
<1>9. DOMAIN v5' = Namespaces /\ DOMAIN v6' = Namespaces
  BY <1>1
<1> QED
  BY <1>2, <1>7, <1>8, <1>9 DEF Net!MetricsInv, Net!RatesAreReal

LEMMA MetricsKept == Net!MetricsInv /\ [Net!Next]_(Net!metricsVars) => Net!MetricsInv'
<1> SUFFICES ASSUME Net!MetricsInv, [Net!Next]_(Net!metricsVars) PROVE Net!MetricsInv'
  OBVIOUS
<1>1. ASSUME UNCHANGED <<v1, v2, v3, v4, v5, v6>> PROVE Net!MetricsInv'
  BY <1>1 DEF Net!MetricsInv, Net!Bounds, Net!PodBytes, Net!RatesAreReal
<1>2. CASE UNCHANGED Net!metricsVars
  BY <1>1, <1>2 DEF Net!metricsVars
<1>3. ASSUME NEW n \in Namespaces, Net!AgeOut(n) PROVE Net!MetricsInv'
  <2>1. /\ v5' = [v5 EXCEPT ![n] = [v5[n] EXCEPT !.fresh = FALSE]]
        /\ UNCHANGED <<v1, v2, v3, v4, v6>> /\ v5[n] # Absent /\ DOMAIN v5 = Namespaces
    BY <1>3 DEF Net!AgeOut, Net!counters, Net!MetricsInv
  <2>2. \A k \in Namespaces : v5'[k] # Absent =>
          /\ v5[k] # Absent /\ v5'[k].total = v5[k].total /\ v5'[k].moved = v5[k].moved
          /\ v5'[k].partial = v5[k].partial
    BY <2>1
  <2>3. \A k \in Namespaces : v5'[k] # Absent => Net!Bounds(k, v5[k])'
    BY <2>1, <2>2 DEF Net!MetricsInv, Net!Bounds, Net!PodBytes
  <2>4. v4' # Absent => \A k \in DOMAIN v4'.totals : Net!Bounds(k, v4.totals[k])'
    BY <2>1 DEF Net!MetricsInv, Net!Bounds, Net!PodBytes
  <2> QED
    BY <2>1, <2>2, <2>3, <2>4 DEF Net!MetricsInv, Net!RatesAreReal
<1>4. ASSUME NEW p \in Pages,
             Net!Connect(p) \/ Net!Forward(p) \/ Net!Lagged(p) \/ Net!Disconnect(p) \/ Net!Poll(p)
      PROVE  Net!MetricsInv'
  BY <1>1, <1>4 DEF Net!Connect, Net!Forward, Net!Lagged, Net!Disconnect, Net!Poll, Net!counters,
    Net!cached
<1> QED
  BY <1>2, <1>3, <1>4, MetricsMove, MetricsFetched, MetricsPublished DEF Net!Next

-----------------------------------------------------------------------------
(* FlowExporter: v1 is the table, v2 what was sent, v3 the dump, v4 what   *)
(* was folded last, v5 the counters, v6 what was scraped, v7 what is seen. *)

LEMMA FloSums ==
  ASSUME NEW f, NEW S PROVE Flo!SumFunctionOnSet(f, S) = Sum(f, S)
  BY DEF Sum, SumFunctionOnSet, FoldFunctionOnSet, MapThenFoldSet, Flo!SumFunctionOnSet,
    Flo!FoldFunctionOnSet, Flo!MapThenFoldSet

LEMMA ConnectionsFinite == IsFiniteSet(Tuples)
  BY FloConnectionsAssumption DEF Flo!ConnectionsAssumption, Flo!IsFiniteSet, IsFiniteSet

LEMMA AddedIs ==
  ASSUME NEW b \in Nat, NEW n \in Nat
  PROVE  /\ Flo!Added(b, n) \in Nat /\ Flo!Added(b, 0) = 0 /\ Flo!Added(n, n) = 0
         /\ \A more \in Nat : Flo!Added(b, n + more) <= Flo!Added(b, n) + more
  BY DEF Flo!Added

\* The account of a connection: so much is counted, the last fold and the dump had so much,
\* the table has so much and so much was sent.
Covered(n, first, p, dumped, d, t, s) ==
  /\ n + (IF first THEN 0 ELSE Flo!Added(p, t)) <= s
  /\ dumped => n + (IF first THEN 0 ELSE Flo!Added(p, d)) + Flo!Added(d, t) <= s

Folded(c) == IF v4 = NoFile THEN 0 ELSE Flo!Has(v4, c)
Dumped(c) == IF v3 = NoFile THEN 0 ELSE Flo!Has(Flo!ReadDump, c)
Account(n, c) ==
  Covered(n, v4 = NoFile, Folded(c), v3 # NoFile, Dumped(c), Flo!Has(v1, c), v2[c])

LEMMA CoversIs == ASSUME NEW n, NEW c PROVE /\ Flo!Covers(n, c) <=> Account(n, c)
                                            /\ Flo!Covers(n, c)' <=> Account(n, c)'
  BY DEF Flo!Covers, Account, Covered, Folded, Dumped

\* What a packet, the end of a connection, a dump, a fold and a restart do to an account.
Moves(n, first, p, dumped, d, t, s) ==
  /\ Covered(n, first, p, dumped, d, t + 1, s + 1)
  /\ Covered(n, first, p, dumped, d, 0, s)
  /\ \A is \in BOOLEAN : Covered(n, first, p, is, t, t, s)
  /\ dumped => LET m == n + (IF first THEN 0 ELSE Flo!Added(p, d)) IN
               (\A is \in BOOLEAN : Covered(m, is, d, TRUE, d, t, s)) /\ m <= s
  /\ \A q \in Nat : Covered(n, TRUE, q, dumped, d, t, s)
  /\ n <= s

LEMMA AccountsMove ==
  ASSUME NEW n \in Nat, NEW first \in BOOLEAN, NEW p \in Nat, NEW dumped \in BOOLEAN,
         NEW d \in Nat, NEW t \in Nat, NEW s \in Nat, Covered(n, first, p, dumped, d, t, s)
  PROVE  Moves(n, first, p, dumped, d, t, s)
<1>1. Covered(n, first, p, dumped, d, t + 1, s + 1)
  BY DEF Covered, Flo!Added
<1>2. Covered(n, first, p, dumped, d, 0, s)
  BY DEF Covered, Flo!Added
<1>3. \A is \in BOOLEAN : Covered(n, first, p, is, t, t, s)
  BY DEF Covered, Flo!Added
<1>4. ASSUME dumped
      PROVE  LET m == n + (IF first THEN 0 ELSE Flo!Added(p, d)) IN
               (\A is \in BOOLEAN : Covered(m, is, d, TRUE, d, t, s)) /\ m <= s
  <2>1. CASE first
    BY <1>4, <2>1 DEF Covered, Flo!Added
  <2>2. CASE ~first
    BY <1>4, <2>2 DEF Covered, Flo!Added
  <2> QED
    BY <2>1, <2>2
<1>5. (\A q \in Nat : Covered(n, TRUE, q, dumped, d, t, s)) /\ n <= s
  <2>1. CASE first
    BY <2>1 DEF Covered, Flo!Added
  <2>2. CASE ~first
    BY <2>2 DEF Covered, Flo!Added
  <2> QED
    BY <2>1, <2>2
<1> QED
  BY <1>1, <1>2, <1>3, <1>4, <1>5 DEF Moves

Classed(k) == {c \in Tuples : Flo!Classify(c) = k}

\* The larger count of the two rows.
LEMMA RowsRead ==
  ASSUME NEW a \in Nat, NEW b \in Nat PROVE Flo!Max({a, b}) = IF a >= b THEN a ELSE b
  BY DEF Flo!Max

\* What the rows of the invariant are.
LEMMA FlowTyped ==
  ASSUME Flo!EntriesInv
  PROVE  /\ DOMAIN v1 \subseteq Tuples /\ \A c \in Tuples : Flo!Has(v1, c) \in Nat
         /\ v2 \in [Tuples -> 0..MaxSent] /\ MaxSent \in Nat
         /\ \A c \in Tuples : Folded(c) \in Nat /\ Dumped(c) \in Nat
         /\ v5 \in [bytes : [Flo!Classes -> Nat], edges : [Flo!Edges -> Nat], host : Nat]
         /\ v6 \in [Flo!Classes -> Nat] /\ v7 \in [Flo!Classes -> Nat]
<1>1. /\ DOMAIN v1 \subseteq Tuples /\ \A c \in DOMAIN v1 : v1[c] \in Nat \ {0}
      /\ v2 \in [Tuples -> 0..MaxSent] /\ MaxSent \in Nat
      /\ v3 # NoFile => DOMAIN v3 \subseteq Tuples /\ \A c \in DOMAIN v3 : v3[c] \in Nat \X Nat
      /\ v4 # NoFile => DOMAIN v4 \subseteq Tuples /\ \A c \in DOMAIN v4 : v4[c] \in Nat
      /\ v5 \in [bytes : [Flo!Classes -> Nat], edges : [Flo!Edges -> Nat], host : Nat]
      /\ v6 \in [Flo!Classes -> Nat] /\ v7 \in [Flo!Classes -> Nat]
  BY FloBoundsAssumption DEF Flo!EntriesInv, Flo!BoundsAssumption
<1>2. ASSUME v3 # NoFile, NEW c \in DOMAIN v3 PROVE Flo!ReadDump[c] \in Nat
  <2>1. v3[c][1] \in Nat /\ v3[c][2] \in Nat
    BY <1>1, <1>2
  <2>2. Flo!ReadDump[c] = Flo!Max({v3[c][1], v3[c][2]})
    BY DEF Flo!ReadDump
  <2> QED
    BY <2>1, <2>2, RowsRead
<1>3. DOMAIN Flo!ReadDump = DOMAIN v3
  BY DEF Flo!ReadDump
<1> QED
  BY <1>1, <1>2, <1>3 DEF Flo!Has, Folded, Dumped

\* What is seen of a class, and would be by a scrape, is counted.
SeenCounted(counted) ==
  \A k \in Flo!Classes : v7[k] + Flo!Added(v6[k], v5.bytes[k]) <= Sum(counted, Classed(k))

LEMMA AccountsAre ==
  ASSUME Flo!AccountsInv
  PROVE  \E counted \in [Tuples -> 0..MaxSent] :
           (\A c \in Tuples : Account(counted[c], c)) /\ SeenCounted(counted)
  BY CoversIs, FloSums DEF Flo!AccountsInv, SeenCounted, Classed

LEMMA AccountsWill ==
  ASSUME NEW counted \in [Tuples -> 0..MaxSent], \A c \in Tuples : Account(counted[c], c)',
         SeenCounted(counted)'
  PROVE  Flo!AccountsInv'
<1>1. \A c \in Tuples : Flo!Covers(counted[c], c)'
  BY CoversIs
<1>2. \A k \in Flo!Classes : v7'[k] + Flo!Added(v6'[k], v5'.bytes[k])
        <= Flo!SumFunctionOnSet(counted, {c \in Tuples : Flo!Classify(c) = k})
  BY FloSums DEF SeenCounted, Classed
<1> QED
  BY <1>1, <1>2 DEF Flo!AccountsInv

LEMMA AccountMoves ==
  ASSUME Flo!EntriesInv, NEW d \in Tuples, NEW n \in Nat, Account(n, d)
  PROVE  Moves(n, v4 = NoFile, Folded(d), v3 # NoFile, Dumped(d), Flo!Has(v1, d), v2[d])
<1> DEFINE first == v4 = NoFile
           dumped == v3 # NoFile
<1>1. /\ Folded(d) \in Nat /\ Dumped(d) \in Nat /\ Flo!Has(v1, d) \in Nat /\ v2[d] \in Nat
      /\ first \in BOOLEAN /\ dumped \in BOOLEAN
  BY FlowTyped
<1>2. Covered(n, first, Folded(d), dumped, Dumped(d), Flo!Has(v1, d), v2[d])
  BY DEF Account
<1> HIDE DEF first, dumped
<1>3. Moves(n, first, Folded(d), dumped, Dumped(d), Flo!Has(v1, d), v2[d])
  BY <1>1, <1>2, AccountsMove, Zenon
<1> QED
  BY <1>3 DEF first, dumped

LEMMA EdgesFinite == IsFiniteSet(Flo!Edges)
<1>1. IsFiniteSet({Flo!Edge(c) : c \in Tuples})
  <2> DEFINE edge == [c \in Tuples |-> Flo!Edge(c)]
  <2>1. edge \in Surjection(Tuples, {Flo!Edge(c) : c \in Tuples})
    BY DEF Surjection
  <2> QED
    BY <2>1, ConnectionsFinite, FS_Surjection
<1>2. ASSUME NEW c \in Tuples PROVE IsFiniteSet(Flo!Edge(c))
  BY FS_EmptySet, FS_Singleton DEF Flo!Edge
<1> QED
  BY <1>1, <1>2, FS_UNION DEF Flo!Edges

\* Counters that start agree.
LEMMA NoLinksAgree ==
  /\ v5 = Flo!NoTotals => Flo!ClassesMatchLinks
  /\ v5' = Flo!NoTotals => Flo!ClassesMatchLinks'
<1>1. ASSUME NEW k \in {"internet", "lan"}
      PROVE  Flo!NoTotals.bytes[k] =
               Flo!SumFunctionOnSet(Flo!NoTotals.edges, {e \in Flo!Edges : k \in {e[1], e[2]}})
  <2> DEFINE E == {e \in Flo!Edges : k \in {e[1], e[2]}}
  <2>1. IsFiniteSet(E)
    BY EdgesFinite, FS_Subset
  <2>2. \A e \in E : Flo!NoTotals.edges[e] = 0
    BY DEF Flo!NoTotals
  <2> HIDE DEF E
  <2>3. Sum(Flo!NoTotals.edges, E) = 0
    BY <2>1, <2>2, SumZero
  <2>4. Flo!NoTotals.bytes[k] = 0
    BY DEF Flo!NoTotals, Flo!Classes
  <2> QED
    BY <2>3, <2>4, FloSums DEF E
<1> QED
  BY <1>1 DEF Flo!ClassesMatchLinks

\* No counter, no dump: what the table has was sent.
LEMMA FlowInitially == Flo!Init => Flo!FlowInv
<1> SUFFICES ASSUME Flo!Init PROVE Flo!FlowInv
  OBVIOUS
<1>1. PICK S \in SUBSET Tuples :
        v1 = [c \in S |-> 1] /\ v2 = [c \in Tuples |-> IF c \in S THEN 1 ELSE 0]
  BY DEF Flo!Init
<1>2. /\ v3 = NoFile /\ v4 = NoFile /\ v5 = Flo!NoTotals /\ v6 = [k \in Flo!Classes |-> 0]
      /\ v7 = [k \in Flo!Classes |-> 0]
  BY DEF Flo!Init, Flo!NoTotals
<1>3. /\ Flo!EntriesInv /\ MaxSent \in Nat
  BY <1>1, <1>2, FloBoundsAssumption DEF Flo!EntriesInv, Flo!NoTotals, Flo!BoundsAssumption
<1> DEFINE none == [c \in Tuples |-> 0]
<1>4. \A c \in Tuples : Flo!Covers(none[c], c)
  BY <1>1, <1>2 DEF Flo!Covers, Flo!Has
<1>5. ASSUME NEW k \in Flo!Classes
      PROVE  v7[k] + Flo!Added(v6[k], v5.bytes[k])
               <= Flo!SumFunctionOnSet(none, {c \in Tuples : Flo!Classify(c) = k})
  <2>1. v7[k] + Flo!Added(v6[k], v5.bytes[k]) = 0
    BY <1>2 DEF Flo!NoTotals, Flo!Added
  <2>2. IsFiniteSet(Classed(k)) /\ \A c \in Classed(k) : none[c] = 0
    BY ConnectionsFinite, FS_Subset DEF Classed
  <2>3. Sum(none, Classed(k)) = 0
    BY <2>2, SumZero, Zenon
  <2> QED
    BY <2>1, <2>3, FloSums DEF Classed
<1>6. none \in [Tuples -> 0..MaxSent]
  BY <1>3
<1>7. Flo!AccountsInv
  <2> HIDE DEF none
  <2> QED
    BY <1>4, <1>5, <1>6 DEF Flo!AccountsInv
<1> QED
  BY <1>2, <1>3, <1>7, NoLinksAgree DEF Flo!FlowInv

\* A packet, and the end of a connection.
LEMMA FlowTransfers ==
  ASSUME Flo!FlowInv, NEW c \in Tuples, Flo!Transfer(c) \/ Flo!Expire(c) PROVE Flo!FlowInv'
<1>0. Flo!EntriesInv /\ Flo!AccountsInv /\ Flo!ClassesMatchLinks
  BY DEF Flo!FlowInv
<1>1. /\ UNCHANGED <<v3, v4, v5, v6, v7>>
      /\ \A d \in Tuples : Folded(d)' = Folded(d) /\ Dumped(d)' = Dumped(d)
  BY DEF Flo!Transfer, Flo!Expire, Folded, Dumped, Flo!Has, Flo!ReadDump
<1>2. /\ v2' \in [Tuples -> 0..MaxSent]
      /\ DOMAIN v1' \subseteq Tuples /\ \A d \in DOMAIN v1' : v1'[d] \in Nat \ {0}
      /\ \A d \in Tuples :
           \/ Flo!Has(v1, d)' = Flo!Has(v1, d) + 1 /\ v2'[d] = v2[d] + 1
           \/ Flo!Has(v1, d)' = 0 /\ v2'[d] = v2[d]
           \/ Flo!Has(v1, d)' = Flo!Has(v1, d) /\ v2'[d] = v2[d]
  <2>0. /\ DOMAIN v1 \subseteq Tuples /\ \A d \in DOMAIN v1 : v1[d] \in Nat \ {0}
        /\ v2 \in [Tuples -> 0..MaxSent] /\ MaxSent \in Nat
    BY <1>0, FlowTyped DEF Flo!EntriesInv
  <2>1. CASE Flo!Transfer(c)
    <3>1. /\ v2' = [v2 EXCEPT ![c] = @ + 1] /\ Flo!SumFunction(v2) < MaxSent
          /\ v1' = [d \in DOMAIN v1 \cup {c} |->
                 IF d # c THEN v1[d] ELSE IF c \in DOMAIN v1 THEN v1[c] + 1 ELSE 1]
      BY <2>1 DEF Flo!Transfer
    <3>2. v2[c] < MaxSent
      <4>1. Sum(v2, Tuples) < MaxSent
        BY <2>0, <3>1, FloSums DEF Flo!SumFunction, Flo!SumFunctionOnSet
      <4>2. Sums(v2, Tuples) /\ \A d \in Tuples : v2[d] \in Nat
        BY <2>0, ConnectionsFinite DEF Sums
      <4>3. Sum(v2, Tuples) = v2[c] + Sum(v2, Tuples \ {c})
        BY <4>2, SumSplit
      <4>4. Sum(v2, Tuples \ {c}) \in Nat
        BY <4>2, ConnectionsFinite, FS_Subset, SumNat
      <4> QED
        BY <2>0, <4>1, <4>2, <4>3, <4>4
    <3>3. v2' \in [Tuples -> 0..MaxSent]
      BY <2>0, <3>1, <3>2
    <3> QED
      BY <2>0, <3>1, <3>3 DEF Flo!Has
  <2>2. CASE Flo!Expire(c)
    <3>1. v2' = v2 /\ v1' = [d \in DOMAIN v1 \ {c} |-> v1[d]]
      BY <2>2 DEF Flo!Expire, Flo!Restrict
    <3> QED
      BY <2>0, <3>1 DEF Flo!Has
  <2> QED
    BY <2>1, <2>2
<1>3. Flo!EntriesInv'
  BY <1>0, <1>1, <1>2 DEF Flo!EntriesInv
<1>4. PICK counted \in [Tuples -> 0..MaxSent] :
        (\A d \in Tuples : Account(counted[d], d)) /\ SeenCounted(counted)
  BY <1>0, AccountsAre
<1>5. ASSUME NEW d \in Tuples PROVE Account(counted[d], d)'
  <2>1. Moves(counted[d], v4 = NoFile, Folded(d), v3 # NoFile, Dumped(d), Flo!Has(v1, d), v2[d])
    BY <1>0, <1>4, AccountMoves
  <2>2. Covered(counted[d], v4 = NoFile, Folded(d), v3 # NoFile, Dumped(d), Flo!Has(v1, d), v2[d])
    BY <1>4 DEF Account
  <2> DEFINE first == v4 = NoFile
             dumped == v3 # NoFile
  <2> HIDE DEF first, dumped
  <2>3. /\ Covered(counted[d], first, Folded(d), dumped, Dumped(d), Flo!Has(v1, d) + 1, v2[d] + 1)
        /\ Covered(counted[d], first, Folded(d), dumped, Dumped(d), 0, v2[d])
        /\ Covered(counted[d], first, Folded(d), dumped, Dumped(d), Flo!Has(v1, d), v2[d])
    BY <2>1, <2>2 DEF Moves, first, dumped
  <2>4. Covered(counted[d], first, Folded(d), dumped, Dumped(d), Flo!Has(v1, d)', v2'[d])
    BY <1>2, <2>3
  <2> QED
    BY <1>1, <2>4 DEF Account, first, dumped
<1>6. SeenCounted(counted)'
  BY <1>1, <1>4 DEF SeenCounted
<1>7. Flo!AccountsInv'
  BY <1>5, <1>6, AccountsWill
<1>8. Flo!ClassesMatchLinks'
  BY <1>0, <1>1 DEF Flo!ClassesMatchLinks
<1> QED
  BY <1>3, <1>7, <1>8 DEF Flo!FlowInv

\* A dump of the whole table has what the table has.
LEMMA FlowDumps == ~Torn /\ Flo!FlowInv /\ Flo!Dump => Flo!FlowInv'
<1> SUFFICES ASSUME ~Torn, Flo!FlowInv, Flo!Dump PROVE Flo!FlowInv'
  OBVIOUS
<1>0. Flo!EntriesInv /\ Flo!AccountsInv /\ Flo!ClassesMatchLinks
  BY DEF Flo!FlowInv
<1>1. PICK late \in SUBSET DOMAIN v1 :
        v3' = [c \in DOMAIN v1 |-> <<v1[c], IF c \in late THEN v1[c] - 1 ELSE v1[c]>>]
  BY DEF Flo!Dump
<1>2. /\ UNCHANGED <<v1, v2, v4, v5, v6, v7>>
      /\ DOMAIN v1 \subseteq Tuples /\ \A c \in DOMAIN v1 : v1[c] \in Nat \ {0}
  BY <1>0 DEF Flo!Dump, Flo!EntriesInv
<1>3. \A c \in DOMAIN v1 : v3'[c] \in Nat \X Nat /\ v3'[c][1] = v1[c] /\ v3'[c][2] <= v1[c]
  BY <1>1, <1>2
<1>4. DOMAIN v3' = DOMAIN v1
  BY <1>1
<1>5. Flo!EntriesInv'
  BY <1>0, <1>2, <1>3, <1>4 DEF Flo!EntriesInv
<1>6. ASSUME NEW c \in Tuples
      PROVE  /\ v3' # NoFile => Dumped(c)' = Flo!Has(v1, c)
             /\ Folded(c)' = Folded(c) /\ Flo!Has(v1, c)' = Flo!Has(v1, c)
  <2>1. ASSUME c \in DOMAIN v1 PROVE Flo!ReadDump'[c] = v1[c]
    <3>1. /\ v3'[c][1] \in Nat /\ v3'[c][2] \in Nat /\ v3'[c][1] = v1[c] /\ v3'[c][2] <= v1[c]
      BY <1>3, <2>1
    <3>2. Flo!ReadDump'[c] = Flo!Max({v3'[c][1], v3'[c][2]})
      BY <1>4, <2>1 DEF Flo!ReadDump
    <3>3. Flo!Max({v3'[c][1], v3'[c][2]}) = IF v3'[c][1] >= v3'[c][2] THEN v3'[c][1] ELSE v3'[c][2]
      BY <3>1, RowsRead
    <3> QED
      BY <3>1, <3>2, <3>3
  <2>2. DOMAIN Flo!ReadDump' = DOMAIN v1
    BY <1>4 DEF Flo!ReadDump
  <2> QED
    BY <1>2, <2>1, <2>2 DEF Dumped, Folded, Flo!Has
<1>7. PICK counted \in [Tuples -> 0..MaxSent] :
        (\A d \in Tuples : Account(counted[d], d)) /\ SeenCounted(counted)
  BY <1>0, AccountsAre
<1>8. ASSUME NEW d \in Tuples PROVE Account(counted[d], d)'
  <2>1. Moves(counted[d], v4 = NoFile, Folded(d), v3 # NoFile, Dumped(d), Flo!Has(v1, d), v2[d])
    BY <1>0, <1>7, AccountMoves
  <2>2. CASE v3' # NoFile
    <3>1. Covered(counted[d], v4 = NoFile, Folded(d), TRUE, Flo!Has(v1, d), Flo!Has(v1, d), v2[d])
      BY <2>1 DEF Moves
    <3> QED
      BY <1>2, <1>6, <2>2, <3>1 DEF Account, Covered
  <2>3. CASE v3' = NoFile
    <3>1. Covered(counted[d], v4 = NoFile, Folded(d), FALSE, Flo!Has(v1, d), Flo!Has(v1, d), v2[d])
      BY <2>1 DEF Moves
    <3> QED
      BY <1>2, <1>6, <2>3, <3>1 DEF Account, Covered
  <2> QED
    BY <2>2, <2>3
<1>9. SeenCounted(counted)'
  BY <1>2, <1>7 DEF SeenCounted
<1>10. Flo!AccountsInv'
  BY <1>8, <1>9, AccountsWill
<1>11. Flo!ClassesMatchLinks'
  BY <1>0, <1>2 DEF Flo!ClassesMatchLinks
<1> QED
  BY <1>5, <1>10, <1>11 DEF Flo!FlowInv

\* What a scrape adds was to be added.
LEMMA FlowScraped == Flo!FlowInv /\ Flo!Scrape => Flo!FlowInv'
<1> SUFFICES ASSUME Flo!FlowInv, Flo!Scrape PROVE Flo!FlowInv'
  OBVIOUS
<1>0. Flo!EntriesInv /\ Flo!AccountsInv /\ Flo!ClassesMatchLinks
  BY DEF Flo!FlowInv
<1>1. /\ UNCHANGED <<v1, v2, v3, v4, v5>> /\ v6' = v5.bytes
      /\ v7' = [k \in Flo!Classes |-> v7[k] + Flo!Added(v6[k], v5.bytes[k])]
  BY DEF Flo!Scrape, Flo!Added
<1>2. /\ v5.bytes \in [Flo!Classes -> Nat] /\ v6 \in [Flo!Classes -> Nat]
      /\ v7 \in [Flo!Classes -> Nat]
  BY <1>0 DEF Flo!EntriesInv
<1>3. v6' \in [Flo!Classes -> Nat] /\ v7' \in [Flo!Classes -> Nat]
  BY <1>1, <1>2 DEF Flo!Added
<1>4. Flo!EntriesInv'
  BY <1>0, <1>1, <1>3 DEF Flo!EntriesInv
<1>5. PICK counted \in [Tuples -> 0..MaxSent] :
        (\A d \in Tuples : Account(counted[d], d)) /\ SeenCounted(counted)
  BY <1>0, AccountsAre
<1>6. \A d \in Tuples : Account(counted[d], d)'
  BY <1>1, <1>5 DEF Account, Folded, Dumped, Flo!Has, Flo!ReadDump
<1>7. SeenCounted(counted)'
  <2> SUFFICES ASSUME NEW k \in Flo!Classes
               PROVE  v7'[k] + Flo!Added(v6'[k], v5'.bytes[k]) <= Sum(counted, Classed(k))
    BY DEF SeenCounted
  <2>1. Flo!Added(v6'[k], v5'.bytes[k]) = 0 /\ Flo!Added(v6[k], v5.bytes[k]) \in Nat
    BY <1>1, <1>2, AddedIs
  <2>2. v7'[k] = v7[k] + Flo!Added(v6[k], v5.bytes[k])
    BY <1>1
  <2> QED
    BY <1>2, <1>5, <2>1, <2>2 DEF SeenCounted
<1>8. Flo!AccountsInv'
  BY <1>6, <1>7, AccountsWill
<1>9. Flo!ClassesMatchLinks'
  BY <1>0, <1>1 DEF Flo!ClassesMatchLinks
<1> QED
  BY <1>4, <1>8, <1>9 DEF Flo!FlowInv

LEMMA FlowRestarts == Flo!FlowInv /\ Flo!Restart => Flo!FlowInv'
<1> SUFFICES ASSUME Flo!FlowInv, Flo!Restart PROVE Flo!FlowInv'
  OBVIOUS
<1>0. Flo!EntriesInv /\ Flo!AccountsInv /\ Flo!ClassesMatchLinks
  BY DEF Flo!FlowInv
<1>1. UNCHANGED <<v1, v2, v3, v6, v7>> /\ v5' = Flo!NoTotals /\ v4' = NoFile
  BY DEF Flo!Restart
<1>2. Flo!EntriesInv'
  BY <1>0, <1>1 DEF Flo!EntriesInv, Flo!NoTotals
<1>3. PICK counted \in [Tuples -> 0..MaxSent] :
        (\A d \in Tuples : Account(counted[d], d)) /\ SeenCounted(counted)
  BY <1>0, AccountsAre
<1>4. ASSUME NEW d \in Tuples PROVE Account(counted[d], d)'
  <2>1. Moves(counted[d], v4 = NoFile, Folded(d), v3 # NoFile, Dumped(d), Flo!Has(v1, d), v2[d])
    BY <1>0, <1>3, AccountMoves
  <2>2. Covered(counted[d], TRUE, 0, v3 # NoFile, Dumped(d), Flo!Has(v1, d), v2[d])
    BY <2>1 DEF Moves
  <2>3. /\ Dumped(d)' = Dumped(d) /\ Flo!Has(v1, d)' = Flo!Has(v1, d) /\ Folded(d)' = 0
    BY <1>1 DEF Dumped, Folded, Flo!Has, Flo!ReadDump
  <2> QED
    BY <1>1, <2>2, <2>3 DEF Account
<1>5. SeenCounted(counted)'
  <2> SUFFICES ASSUME NEW k \in Flo!Classes
               PROVE  v7'[k] + Flo!Added(v6'[k], v5'.bytes[k]) <= Sum(counted, Classed(k))
    BY DEF SeenCounted
  <2>1. /\ v7'[k] = v7[k] /\ v6'[k] = v6[k] /\ v5'.bytes[k] = 0 /\ v7[k] \in Nat
        /\ v6[k] \in Nat /\ v5.bytes[k] \in Nat
    BY <1>0, <1>1 DEF Flo!NoTotals, Flo!EntriesInv
  <2>2. Flo!Added(v6[k], 0) = 0 /\ Flo!Added(v6[k], v5.bytes[k]) \in Nat
    BY <2>1, AddedIs
  <2>3. v7[k] + Flo!Added(v6[k], v5.bytes[k]) <= Sum(counted, Classed(k))
    BY <1>3 DEF SeenCounted
  <2>4. Sum(counted, Classed(k)) \in Int
    <3>1. Sums(counted, Classed(k))
      BY ConnectionsFinite, FS_Subset DEF Sums, Classed
    <3> QED
      BY <3>1, SumType
  <2> QED
    BY <2>1, <2>2, <2>3, <2>4
<1>6. Flo!AccountsInv'
  BY <1>4, <1>5, AccountsWill
<1>7. Flo!ClassesMatchLinks'
  BY <1>1, NoLinksAgree
<1> QED
  BY <1>2, <1>6, <1>7 DEF Flo!FlowInv

\* A class that a link names has the connections of those links, and a connection has one link.
LEMMA LinksOfClass ==
  ASSUME NEW c \in Tuples
  PROVE  /\ \A k \in {"internet", "lan"} :
              Flo!Classify(c) = k <=> \E e \in Flo!Edge(c) : k \in {e[1], e[2]}
         /\ \A d, e \in Flo!Edge(c) : d = e
<1>1. /\ c[1] \in Flo!Addresses /\ c[2] \in Flo!Addresses
      /\ "internet" \notin Flo!Addresses /\ "lan" \notin Flo!Addresses
  BY FloConnectionsAssumption, FloNamesAssumption DEF Flo!ConnectionsAssumption, Flo!NamesAssumption
<1>2. \A a \in Flo!Addresses :
        /\ Flo!EndpointName(a) = "internet" <=> ~Flo!IsLocal(a) /\ ~Flo!OnLan(a)
        /\ Flo!EndpointName(a) = "lan" <=> ~Flo!IsLocal(a) /\ Flo!OnLan(a)
  BY <1>1 DEF Flo!EndpointName, Flo!IsLocal, Flo!IsPod
<1>3. /\ Flo!Classify(c) = "internet" <=>
            \/ ~Flo!IsLocal(c[2]) /\ ~Flo!OnLan(c[2]) /\ Flo!IsPod(c[1])
            \/ ~Flo!IsLocal(c[1]) /\ ~Flo!OnLan(c[1]) /\ Flo!IsPod(c[2])
      /\ Flo!Classify(c) = "lan" <=>
            \/ ~Flo!IsLocal(c[2]) /\ Flo!OnLan(c[2]) /\ Flo!IsPod(c[1])
            \/ ~Flo!IsLocal(c[1]) /\ Flo!OnLan(c[1]) /\ Flo!IsPod(c[2])
  BY DEF Flo!Classify, Flo!IsLocal, Flo!IsPod
<1>4. /\ \A d, e \in Flo!Edge(c) : d = e
      /\ \A k : (\E e \in Flo!Edge(c) : k \in {e[1], e[2]}) <=>
               /\ Flo!IsPod(c[1]) \/ Flo!IsPod(c[2])
               /\ k \in {Flo!EndpointName(c[1]), Flo!EndpointName(c[2])}
  <2> DEFINE link == <<Flo!EndpointName(c[1]), Flo!EndpointName(c[2])>>
  <2>1. CASE Flo!IsPod(c[1]) \/ Flo!IsPod(c[2])
    <3>1. Flo!Edge(c) = {link}
      BY <2>1 DEF Flo!Edge
    <3>2. link[1] = Flo!EndpointName(c[1]) /\ link[2] = Flo!EndpointName(c[2])
      OBVIOUS
    <3> HIDE DEF link
    <3> QED
      BY <2>1, <3>1, <3>2
  <2>2. CASE ~(Flo!IsPod(c[1]) \/ Flo!IsPod(c[2]))
    BY <2>2 DEF Flo!Edge
  <2> QED
    BY <2>1, <2>2
<1>5. \A a : Flo!IsPod(a) => Flo!IsLocal(a)
  BY DEF Flo!IsLocal
<1> QED
  BY <1>1, <1>2, <1>3, <1>4, <1>5

Linked(e) == {c \in Tuples : e \in Flo!Edge(c)}

\* What a fold finds new of each connection.
New(c) == IF v4 = NoFile \/ v3 = NoFile THEN 0 ELSE Flo!Added(Folded(c), Dumped(c))

\* A fold adds the new bytes of every connection to its class and to its link.
LEMMA FoldAdds ==
  ASSUME Flo!EntriesInv, v4 # NoFile, v3 # NoFile
  PROVE  LET new == [c \in Tuples |-> New(c)]
             fold == Flo!Fold(v4, Flo!ReadDump)
         IN /\ \A c \in Tuples : New(c) \in Nat
            /\ fold \in [bytes : [Flo!Classes -> Nat], edges : [Flo!Edges -> Nat], host : Nat]
            /\ \A k \in Flo!Classes : fold.bytes[k] = v5.bytes[k] + Sum(new, Classed(k))
            /\ \A e \in Flo!Edges : fold.edges[e] = v5.edges[e]
                 + Sum(new, Linked(e))
<1> DEFINE now == Flo!ReadDump
           d == [c \in DOMAIN now |-> Flo!Delta(v4, now, c)]
           new == [c \in Tuples |-> New(c)]
<1>1. /\ \A c \in Tuples : Folded(c) \in Nat /\ Dumped(c) \in Nat
      /\ v5 \in [bytes : [Flo!Classes -> Nat], edges : [Flo!Edges -> Nat], host : Nat]
  BY FlowTyped
<1>2. \A c \in Tuples : New(c) \in Nat /\ (Dumped(c) = 0 => New(c) = 0)
  BY <1>1, AddedIs DEF New
<1>3. DOMAIN now \subseteq Tuples
  BY DEF Flo!ReadDump, Flo!EntriesInv
<1>4. \A c \in DOMAIN now : d[c] = new[c]
  <2> TAKE c \in DOMAIN now
  <2>1. d[c] = Flo!Added(Folded(c), Dumped(c))
    BY DEF Flo!Delta, Flo!Added, Folded, Dumped, Flo!Has
  <2> QED
    BY <1>3, <2>1 DEF New
<1>5. \A c \in Tuples \ DOMAIN now : new[c] = 0
  BY <1>2 DEF Dumped, Flo!Has
<1>6. \A c \in Tuples : new[c] \in Nat
  BY <1>2
<1> HIDE DEF now, d, new
<1>7. ASSUME NEW S \in SUBSET Tuples
      PROVE  Sum(d, S \cap DOMAIN now) = Sum(new, S) /\ Sum(new, S) \in Nat
  <2> DEFINE A == S \cap DOMAIN now
             B == S \ DOMAIN now
  <2>1. IsFiniteSet(A) /\ IsFiniteSet(B) /\ IsFiniteSet(S)
    BY ConnectionsFinite, FS_Subset
  <2>2. A \cap B = {} /\ A \cup B = S /\ A \subseteq Tuples /\ B \subseteq Tuples
    OBVIOUS
  <2>3. /\ \A c \in A : new[c] = d[c] /\ new[c] \in Nat
        /\ \A c \in B : new[c] = 0
        /\ \A c \in S : new[c] \in Nat
    BY <1>4, <1>5, <1>6
  <2> HIDE DEF A, B
  <2>4. Sum(new, B) = 0 /\ Sums(new, B)
    BY <2>1, <2>3, SumZero DEF Sums
  <2>5. Sum(new, A) \in Nat /\ Sums(new, A) /\ Sum(new, S) \in Nat
    BY <2>1, <2>3, SumNat
  <2>6. Sum(new, A \cup B) = Sum(new, A) + Sum(new, B)
    BY <2>2, <2>4, <2>5, SumUnion
  <2>7. Sum(new, A) = Sum(d, A)
    BY <2>3, <2>5, SumSame
  <2>8. Sum(new, S) = Sum(new, A \cup B)
    BY <2>2
  <2> QED
    BY <2>4, <2>5, <2>6, <2>7, <2>8 DEF A
<1>8. ASSUME NEW S \in SUBSET Tuples, NEW P, P = S \cap DOMAIN now
      PROVE  Flo!SumFunctionOnSet(d, P) = Sum(new, S) /\ Sum(new, S) \in Nat
  BY <1>7, <1>8, FloSums
<1> DEFINE fold == Flo!Fold(v4, now)
<1>9. \A k \in Flo!Classes : /\ fold.bytes[k] = v5.bytes[k] + Sum(new, Classed(k))
                             /\ Sum(new, Classed(k)) \in Nat
  <2> TAKE k \in Flo!Classes
  <2> DEFINE P == {c \in DOMAIN now : Flo!Classify(c) = k}
  <2>1. P = Classed(k) \cap DOMAIN now /\ Classed(k) \in SUBSET Tuples
    BY <1>3 DEF Classed
  <2>2. fold.bytes[k] = v5.bytes[k] + Flo!SumFunctionOnSet(d, P)
    BY DEF Flo!Fold, d
  <2> QED
    BY <1>8, <2>1, <2>2
<1>10. \A e \in Flo!Edges :
         /\ fold.edges[e] = v5.edges[e] + Sum(new, Linked(e))
         /\ Sum(new, Linked(e)) \in Nat
  <2> TAKE e \in Flo!Edges
  <2> DEFINE P == {c \in DOMAIN now : e \in Flo!Edge(c)}
             S == Linked(e)
  <2>1. P = S \cap DOMAIN now /\ S \in SUBSET Tuples
    BY <1>3 DEF Linked
  <2>2. fold.edges[e] = v5.edges[e] + Flo!SumFunctionOnSet(d, P)
    BY DEF Flo!Fold, d
  <2> QED
    BY <1>8, <2>1, <2>2
<1>11. fold.host \in Nat
  <2> DEFINE P == {c \in DOMAIN now : Flo!Classify(c) = "none"}
  <2>1. P = Classed("none") \cap DOMAIN now /\ Classed("none") \in SUBSET Tuples
    BY <1>3 DEF Classed
  <2>2. fold.host = v5.host + Flo!SumFunctionOnSet(d, P)
    BY DEF Flo!Fold, d
  <2> QED
    BY <1>1, <1>8, <2>1, <2>2
<1>12. /\ fold = [bytes |-> fold.bytes, edges |-> fold.edges, host |-> fold.host]
       /\ fold.bytes = [k \in Flo!Classes |-> fold.bytes[k]]
       /\ fold.edges = [e \in Flo!Edges |-> fold.edges[e]]
  BY DEF Flo!Fold
<1> HIDE DEF fold
<1>13. fold \in [bytes : [Flo!Classes -> Nat], edges : [Flo!Edges -> Nat], host : Nat]
  <2>1. \A k \in Flo!Classes : fold.bytes[k] \in Nat
    BY <1>1, <1>9
  <2>2. \A e \in Flo!Edges : fold.edges[e] \in Nat
    BY <1>1, <1>10
  <2>3. fold.bytes \in [Flo!Classes -> Nat] /\ fold.edges \in [Flo!Edges -> Nat]
    BY <1>12, <2>1, <2>2
  <2> QED
    BY <1>11, <1>12, <2>3
<1> QED
  BY <1>2, <1>9, <1>10, <1>13 DEF fold, now, new

\* Both views of the internet and of the LAN grow by the same.
LEMMA LinksStayMatched ==
  ASSUME Flo!EntriesInv, v4 # NoFile, v3 # NoFile, Flo!ClassesMatchLinks,
         NEW k \in {"internet", "lan"}
  PROVE  Flo!Fold(v4, Flo!ReadDump).bytes[k] =
           Sum(Flo!Fold(v4, Flo!ReadDump).edges, {e \in Flo!Edges : k \in {e[1], e[2]}})
<1> DEFINE new == [c \in Tuples |-> New(c)]
           fold == Flo!Fold(v4, Flo!ReadDump)
           E == {e \in Flo!Edges : k \in {e[1], e[2]}}
           linked == [e \in E |-> Linked(e)]
           added == [e \in E |-> Sum(new, Linked(e))]
<1>1. /\ \A c \in Tuples : New(c) \in Nat
      /\ fold.bytes[k] = v5.bytes[k] + Sum(new, Classed(k))
      /\ \A e \in Flo!Edges : fold.edges[e] = v5.edges[e] + Sum(new, Linked(e))
  BY FoldAdds DEF Flo!Classes
<1>2. v5.bytes[k] = Sum(v5.edges, E)
  BY FloSums DEF Flo!ClassesMatchLinks
<1>3. \A e \in E : v5.edges[e] \in Nat
  BY FlowTyped
<1>4. IsFiniteSet(E)
  BY EdgesFinite, FS_Subset
<1>5. Sums(new, Tuples)
  BY <1>1, ConnectionsFinite DEF Sums
<1>6. Classed(k) = UNION {linked[e] : e \in E}
  <2>1. \A c \in Tuples : c \in Classed(k) <=> \E e \in Flo!Edge(c) : k \in {e[1], e[2]}
    BY LinksOfClass DEF Classed
  <2>2. \A c \in Tuples : Flo!Edge(c) \subseteq Flo!Edges
    BY DEF Flo!Edges
  <2>3. \A e \in E : linked[e] = {c \in Tuples : e \in Flo!Edge(c)}
    BY DEF Linked
  <2>4. Classed(k) \subseteq Tuples
    BY DEF Classed
  <2> HIDE DEF linked
  <2>5. \A c \in Tuples : c \in Classed(k) <=> \E e \in E : c \in linked[e]
    BY <2>1, <2>2, <2>3
  <2> QED
    BY <2>3, <2>4, <2>5
<1>7. \A d, e \in E : d # e => linked[d] \cap linked[e] = {}
  BY LinksOfClass DEF Linked
<1>8. \A e \in E : linked[e] \subseteq Tuples /\ added[e] = Sum(new, linked[e])
  BY DEF Linked
<1>9. \A e \in E : fold.edges[e] = v5.edges[e] + added[e]
  BY <1>1
<1> HIDE DEF new, fold, E, linked, added
<1>10. Sum(added, E) = Sum(new, Classed(k)) /\ Sums(added, E)
  <2>1. Sum(added, E) = Sum(new, UNION {linked[e] : e \in E}) /\ Sums(added, E)
    BY <1>4, <1>5, <1>7, <1>8, SumOfSums
  <2> QED
    BY <1>6, <2>1
<1>11. Sums(v5.edges, E)
  BY <1>3, <1>4 DEF Sums
<1>12. Sum(fold.edges, E) = Sum(v5.edges, E) + Sum(added, E)
  BY <1>9, <1>10, <1>11, SumPlus
<1> QED
  BY <1>1, <1>2, <1>10, <1>12 DEF fold, E, new

\* What a fold adds, each connection's account had room for.
LEMMA FlowSampled == Flo!FlowInv /\ Flo!Sample => Flo!FlowInv'
<1> SUFFICES ASSUME Flo!FlowInv, Flo!Sample PROVE Flo!FlowInv'
  OBVIOUS
<1> DEFINE now == Flo!ReadDump
           new == [c \in Tuples |-> New(c)]
<1>0. Flo!EntriesInv /\ Flo!AccountsInv /\ Flo!ClassesMatchLinks
  BY DEF Flo!FlowInv
<1>1. /\ UNCHANGED <<v1, v2, v3, v6, v7>> /\ v4' = now /\ v3 # NoFile
      /\ v5' = IF v4 = NoFile THEN v5 ELSE Flo!Fold(v4, now)
  BY DEF Flo!Sample
<1>2. /\ \A c \in Tuples : Folded(c) \in Nat /\ Dumped(c) \in Nat /\ New(c) \in Nat
      /\ v5 \in [bytes : [Flo!Classes -> Nat], edges : [Flo!Edges -> Nat], host : Nat]
      /\ v6 \in [Flo!Classes -> Nat] /\ v7 \in [Flo!Classes -> Nat]
      /\ v2 \in [Tuples -> 0..MaxSent] /\ MaxSent \in Nat
  BY <1>0, FlowTyped, AddedIs DEF New
<1>3. /\ v5' \in [bytes : [Flo!Classes -> Nat], edges : [Flo!Edges -> Nat], host : Nat]
      /\ v4 = NoFile => v5' = v5
      /\ v4 # NoFile => \A k \in Flo!Classes : v5'.bytes[k] = v5.bytes[k] + Sum(new, Classed(k))
  <2>1. CASE v4 = NoFile
    BY <1>1, <1>2, <2>1
  <2>2. CASE v4 # NoFile
    <3>1. v5' = Flo!Fold(v4, now)
      BY <1>1, <2>2
    <3>2. /\ Flo!Fold(v4, now) \in [bytes : [Flo!Classes -> Nat], edges : [Flo!Edges -> Nat], host : Nat]
          /\ \A k \in Flo!Classes :
               Flo!Fold(v4, now).bytes[k] = v5.bytes[k] + Sum(new, Classed(k))
      BY <1>0, <1>1, <2>2, FoldAdds
    <3> HIDE DEF now, new
    <3> QED
      BY <2>2, <3>1, <3>2
  <2> QED
    BY <2>1, <2>2
<1>4. DOMAIN now \subseteq Tuples /\ \A c \in DOMAIN now : now[c] \in Nat
  <2>1. DOMAIN now = DOMAIN v3 /\ DOMAIN v3 \subseteq Tuples
    BY <1>0, <1>1 DEF Flo!ReadDump, Flo!EntriesInv
  <2>2. \A c \in DOMAIN now : Dumped(c) = now[c]
    BY <1>1 DEF Dumped, Flo!Has
  <2> QED
    BY <1>2, <2>1, <2>2
<1>5. Flo!EntriesInv'
  BY <1>0, <1>1, <1>3, <1>4 DEF Flo!EntriesInv
<1>6. PICK counted \in [Tuples -> 0..MaxSent] :
        (\A d \in Tuples : Account(counted[d], d)) /\ SeenCounted(counted)
  BY <1>0, AccountsAre
<1>11. PICK after : after = [c \in Tuples |-> counted[c] + New(c)]
  OBVIOUS
<1>7. ASSUME NEW d \in Tuples
      PROVE  Account(after[d], d)' /\ after[d] \in 0..MaxSent
  <2>1. Moves(counted[d], v4 = NoFile, Folded(d), v3 # NoFile, Dumped(d), Flo!Has(v1, d), v2[d])
    BY <1>0, <1>6, AccountMoves
  <2> DEFINE m == counted[d] + (IF v4 = NoFile THEN 0 ELSE Flo!Added(Folded(d), Dumped(d)))
  <2>2. after[d] = m
    BY <1>1, <1>11 DEF New
  <2>3. /\ \A is \in BOOLEAN : Covered(m, is, Dumped(d), TRUE, Dumped(d), Flo!Has(v1, d), v2[d])
        /\ m <= v2[d]
    BY <1>1, <2>1 DEF Moves
  <2>4. m \in 0..MaxSent
    <3>1. after[d] \in Nat
      BY <1>2, <1>11
    <3> QED
      BY <1>2, <2>2, <2>3, <3>1
  <2>5. /\ Dumped(d)' = Dumped(d) /\ Flo!Has(v1, d)' = Flo!Has(v1, d)
        /\ v4' # NoFile => Folded(d)' = Dumped(d)
    BY <1>1 DEF Dumped, Folded, Flo!Has, Flo!ReadDump
  <2> HIDE DEF m
  <2>6. Covered(m, v4' = NoFile, Folded(d)', v3' # NoFile, Dumped(d)', Flo!Has(v1, d)', v2'[d])
    <3>1. CASE v4' # NoFile
      BY <1>1, <2>3, <2>5, <3>1 DEF Covered
    <3>2. CASE v4' = NoFile
      BY <1>1, <2>3, <2>5, <3>2 DEF Covered
    <3> QED
      BY <3>1, <3>2
  <2> QED
    BY <2>2, <2>4, <2>6 DEF Account
<1>8. ASSUME NEW k \in Flo!Classes
      PROVE  v7'[k] + Flo!Added(v6'[k], v5'.bytes[k]) <= Sum(after, Classed(k))
  <2>1. /\ Sums(counted, Classed(k)) /\ Sums(new, Classed(k))
        /\ \A c \in Classed(k) : new[c] \in Nat /\ after[c] = counted[c] + new[c]
        /\ IsFiniteSet(Classed(k))
    BY <1>2, <1>11, ConnectionsFinite, FS_Subset DEF Sums, Classed
  <2>2. v7[k] + Flo!Added(v6[k], v5.bytes[k]) <= Sum(counted, Classed(k))
    BY <1>6 DEF SeenCounted
  <2> HIDE DEF new
  <2>3. Sum(after, Classed(k)) = Sum(counted, Classed(k)) + Sum(new, Classed(k))
    BY <2>1, SumPlus
  <2>4. Sum(new, Classed(k)) \in Nat /\ Sum(counted, Classed(k)) \in Int
    BY <2>1, SumNat, SumType
  <2>5. /\ v7[k] \in Nat /\ v6[k] \in Nat /\ v5.bytes[k] \in Nat
        /\ Flo!Added(v6[k], v5.bytes[k]) \in Nat
        /\ Flo!Added(v6[k], v5.bytes[k] + Sum(new, Classed(k)))
              <= Flo!Added(v6[k], v5.bytes[k]) + Sum(new, Classed(k))
        /\ Flo!Added(v6[k], v5.bytes[k] + Sum(new, Classed(k))) \in Nat
    <3>1. v7[k] \in Nat /\ v6[k] \in Nat /\ v5.bytes[k] \in Nat
      BY <1>2
    <3>2. \A more \in Nat : /\ Flo!Added(v6[k], v5.bytes[k] + more) \in Nat
                           /\ Flo!Added(v6[k], v5.bytes[k]) \in Nat
                           /\ Flo!Added(v6[k], v5.bytes[k] + more)
                                <= Flo!Added(v6[k], v5.bytes[k]) + more
      BY <3>1 DEF Flo!Added
    <3> QED
      BY <2>4, <3>1, <3>2
  <2>6. v7'[k] = v7[k] /\ v6'[k] = v6[k]
    BY <1>1
  <2>7. CASE v5'.bytes[k] = v5.bytes[k]
    BY <2>2, <2>3, <2>4, <2>5, <2>6, <2>7
  <2>8. CASE v5'.bytes[k] = v5.bytes[k] + Sum(new, Classed(k))
    BY <2>2, <2>3, <2>4, <2>5, <2>6, <2>8
  <2> QED
    BY <1>3, <2>7, <2>8
<1>9. Flo!AccountsInv'
  <2>1. after \in [Tuples -> 0..MaxSent]
    BY <1>7, <1>11
  <2>2. SeenCounted(after)'
    BY <1>8 DEF SeenCounted
  <2> QED
    BY <1>7, <2>1, <2>2, AccountsWill
<1>10. Flo!ClassesMatchLinks'
  <2>1. CASE v4 = NoFile
    BY <1>0, <1>1, <2>1 DEF Flo!ClassesMatchLinks
  <2>2. CASE v4 # NoFile
    <3>1. \A k \in {"internet", "lan"} :
            v5'.bytes[k] = Sum(v5'.edges, {e \in Flo!Edges : k \in {e[1], e[2]}})
      BY <1>0, <1>1, <2>2, LinksStayMatched
    <3> QED
      BY <3>1, FloSums DEF Flo!ClassesMatchLinks
  <2> QED
    BY <2>1, <2>2
<1> QED
  BY <1>5, <1>9, <1>10 DEF Flo!FlowInv

LEMMA FlowKept == ~Torn /\ Flo!FlowInv /\ [Flo!Next]_(Flo!vars) => Flo!FlowInv'
<1> SUFFICES ASSUME ~Torn, Flo!FlowInv, [Flo!Next]_(Flo!vars) PROVE Flo!FlowInv'
  OBVIOUS
<1>1. CASE UNCHANGED Flo!vars
  <2>1. UNCHANGED <<v1, v2, v3, v4, v5, v6, v7>>
    BY <1>1 DEF Flo!vars
  <2>2. Flo!EntriesInv' /\ Flo!AccountsInv' /\ Flo!ClassesMatchLinks'
    BY <2>1 DEF Flo!FlowInv, Flo!EntriesInv, Flo!AccountsInv, Flo!ClassesMatchLinks, Flo!Covers,
      Flo!ReadDump, Flo!Has
  <2> QED
    BY <2>2 DEF Flo!FlowInv
<1> QED
  BY <1>1, FlowTransfers, FlowDumps, FlowSampled, FlowScraped, FlowRestarts DEF Flo!Next

\* What is seen is counted, and what is counted was sent.
LEMMA FlowFaithful == Flo!FlowInv => Flo!CountersAreFaithful
<1> SUFFICES ASSUME Flo!FlowInv, NEW k \in Flo!Classes PROVE v7[k] <= Sum(v2, Classed(k))
  BY FloSums DEF Flo!CountersAreFaithful, Flo!NothingShownTwice, Flo!FlowInv, Classed
<1>1. Flo!EntriesInv /\ Flo!AccountsInv
  BY DEF Flo!FlowInv
<1>2. PICK counted \in [Tuples -> 0..MaxSent] :
        (\A d \in Tuples : Account(counted[d], d)) /\ SeenCounted(counted)
  BY <1>1, AccountsAre
<1>3. ASSUME NEW d \in Tuples PROVE counted[d] <= v2[d]
  <2>1. counted[d] \in Nat /\ Account(counted[d], d)
    BY <1>2
  <2>2. Moves(counted[d], v4 = NoFile, Folded(d), v3 # NoFile, Dumped(d), Flo!Has(v1, d), v2[d])
    BY <1>1, <2>1, AccountMoves
  <2> QED
    BY <2>2 DEF Moves
<1>4. /\ Sums(counted, Classed(k)) /\ Sums(v2, Classed(k))
      /\ \A d \in Classed(k) : counted[d] <= v2[d]
  BY <1>1, <1>3, FlowTyped, ConnectionsFinite, FS_Subset DEF Sums, Classed
<1>5. Sum(counted, Classed(k)) <= Sum(v2, Classed(k))
  BY <1>4, SumLeq
<1>6. /\ v7[k] \in Nat /\ Flo!Added(v6[k], v5.bytes[k]) \in Nat
      /\ Sum(counted, Classed(k)) \in Int /\ Sum(v2, Classed(k)) \in Int
  BY <1>1, <1>4, FlowTyped, AddedIs, SumType
<1>7. v7[k] + Flo!Added(v6[k], v5.bytes[k]) <= Sum(counted, Classed(k))
  BY <1>2 DEF SeenCounted
<1> QED
  BY <1>5, <1>6, <1>7

-----------------------------------------------------------------------------
(* FlowClasses: v1 is what is measured, v2 the step, v3 the totals, v4 the *)
(* series, v5 the queries that had rows, v6 whether something changed.     *)

\* What rows add up to.
Rates(rows) == [row \in rows |-> row.rate]
RowsSum(rows) == Sum(Rates(rows), rows)

LEMMA RowsAdd ==
  ASSUME NEW R, IsFiniteSet(R), \A row \in R : row.rate \in Nat
  PROVE  RowsSum(R) \in Nat /\ \A U \in SUBSET R : RowsSum(U) \in Nat /\ RowsSum(U) <= RowsSum(R)
<1>1. \A row \in R : Rates(R)[row] \in Nat
  BY DEF Rates
<1>2. ASSUME NEW U \in SUBSET R
      PROVE  RowsSum(U) \in Nat /\ RowsSum(U) <= RowsSum(R) /\ RowsSum(R) \in Nat
  <2>1. /\ Sum(Rates(R), U) <= Sum(Rates(R), R) /\ Sum(Rates(R), U) \in Nat
        /\ Sum(Rates(R), R) \in Nat /\ Sums(Rates(R), U)
    BY <1>1, SumOfMore
  <2>2. \A row \in U : Rates(R)[row] = Rates(U)[row]
    BY DEF Rates
  <2>3. Sum(Rates(R), U) = Sum(Rates(U), U)
    BY <2>1, <2>2, SumSame
  <2> QED
    BY <2>1, <2>3 DEF RowsSum
<1> QED
  BY <1>2

LEMMA RowsNone == RowsSum({}) = 0
  BY SumEmpty DEF RowsSum

LEMMA RowsOne == ASSUME NEW row, row.rate \in Nat PROVE RowsSum({row}) = row.rate
<1>1. Rates({row})[row] = row.rate /\ {row} \ {row} = {}
  BY DEF Rates
<1>2. Sums(Rates({row}), {row})
  <2>1. IsFiniteSet({row})
    BY FS_Singleton
  <2>2. \A x \in {row} : Rates({row})[x] \in Int
    BY <1>1
  <2> QED
    BY <2>1, <2>2 DEF Sums
<1>3. Sum(Rates({row}), {row}) = row.rate + 0
  BY <1>1, <1>2, SumSplit, SumEmpty
<1> QED
  BY <1>3 DEF RowsSum

LEMMA PanSums == ASSUME NEW rows PROVE Pan!SumOf(rows) = RowsSum(rows)
  BY DEF Pan!SumOf, Pan!SumFunction, Pan!SumFunctionOnSet, Pan!FoldFunctionOnSet,
    Pan!MapThenFoldSet, RowsSum, Rates, Sum, SumFunctionOnSet, FoldFunctionOnSet, MapThenFoldSet

\* Rows as the metrics have them.
Answer(rows) == IsFiniteSet(rows) /\ \A row \in rows : row.rate \in Nat \cup {Unknown}

LEMMA MeasuredRows ==
  ASSUME NEW m \in Reported
  PROVE  /\ Answer(m.external) /\ Answer(m.internal) /\ Answer(m.bytes) /\ m.storage \in Nat
         /\ Unknown \notin Nat
<1>1. /\ Unknown \notin Nat /\ m.storage \in Nat
      /\ \A rows \in {m.external, m.internal, m.bytes} :
           Pan!IsFiniteSet(rows) /\ \A row \in rows : row.rate \in Nat \cup {Unknown}
  BY PanMeasurementsAssumption DEF Pan!MeasurementsAssumption
<1>2. \A rows : Pan!IsFiniteSet(rows) <=> IsFiniteSet(rows)
  BY DEF Pan!IsFiniteSet, IsFiniteSet
<1> QED
  BY <1>1, <1>2 DEF Answer

LEMMA ValidRowsAdd ==
  ASSUME NEW rows, Answer(rows), Unknown \notin Nat, NEW U \in SUBSET Pan!Valid(rows)
  PROVE  /\ Pan!SumOf(U) \in Nat /\ (U = {} => Pan!SumOf(U) = 0)
         /\ \A V \in SUBSET U : Pan!SumOf(V) <= Pan!SumOf(U)
<1>1. IsFiniteSet(U) /\ \A row \in U : row.rate \in Nat
  <2>1. U \subseteq rows /\ \A row \in U : row.rate \in Nat
    BY DEF Pan!Valid, Answer
  <2> QED
    BY <2>1, FS_Subset DEF Answer
<1> QED
  BY <1>1, RowsAdd, RowsNone, PanSums

LEMMA PanelInitially == Pan!Init => Pan!PanelInv
<1> SUFFICES ASSUME Pan!Init PROVE Pan!PanelInv
  OBVIOUS
<1>1. Pan!TypeOK
  BY DEF Pan!Init, Pan!TypeOK, Pan!Quiet
<1> QED
  BY <1>1 DEF Pan!Init, Pan!PanelInv, Pan!TotalsInv, Pan!SeriesInv

LEMMA TotalsQueried == Pan!PanelInv /\ Pan!QueryTotals => Pan!PanelInv'
<1> SUFFICES ASSUME Pan!PanelInv, Pan!QueryTotals PROVE Pan!PanelInv'
  OBVIOUS
<1>1. PICK e \in Pan!Answered(v1.external), i \in Pan!Answered(v1.internal) :
        /\ v6' = (v6 \/ e # v1.external \/ i # v1.internal)
        /\ v3' = [c \in Pan!Classes |->
              [Pan!Quiet EXCEPT
                 !.flows = Pan!SumOf(Pan!Of(Pan!Forwarded(Pan!IsNow(e) \cup Pan!IsNow(i)), c)),
                 !.drops = Pan!SumOf(Pan!Of(Pan!Dropped(Pan!IsNow(e) \cup Pan!IsNow(i)), c))]]
        /\ v5' = (IF Pan!Forwarded(Pan!IsNow(e)) # {} THEN {"external"} ELSE {})
                  \cup (IF Pan!Forwarded(Pan!IsNow(i)) # {} THEN {"internal"} ELSE {})
  BY DEF Pan!QueryTotals
<1>2. v2 = "totals" /\ v2' = "bytes" /\ v1' = v1 /\ v4' = v4 /\ v1 \in Reported
  BY DEF Pan!QueryTotals, Pan!PanelInv, Pan!TypeOK
<1> DEFINE rows == Pan!IsNow(e) \cup Pan!IsNow(i)
<1>3. Answer(rows) /\ Unknown \notin Nat
  <2>1. e \subseteq v1.external /\ i \subseteq v1.internal
    BY DEF Pan!Answered, Pan!Forwarded, Pan!Dropped
  <2>2. Answer(v1.external) /\ Answer(v1.internal) /\ Unknown \notin Nat
    BY <1>2, MeasuredRows
  <2>3. rows \subseteq v1.external \cup v1.internal
    BY <2>1 DEF Pan!IsNow
  <2>4. IsFiniteSet(rows)
    BY <2>2, <2>3, FS_Union, FS_Subset DEF Answer
  <2> QED
    BY <2>2, <2>3, <2>4 DEF Answer
<1> DEFINE flows(c) == Pan!SumOf(Pan!Of(Pan!Forwarded(rows), c))
           drops(c) == Pan!SumOf(Pan!Of(Pan!Dropped(rows), c))
<1>4. ASSUME NEW c \in Pan!Classes
      PROVE  /\ flows(c) \in Nat /\ drops(c) \in Nat
             /\ Pan!Forwarded(rows) = {} => flows(c) = 0
  <2>1. /\ Pan!Of(Pan!Forwarded(rows), c) \in SUBSET Pan!Valid(rows)
        /\ Pan!Of(Pan!Dropped(rows), c) \in SUBSET Pan!Valid(rows)
        /\ Pan!Forwarded(rows) = {} => Pan!Of(Pan!Forwarded(rows), c) = {}
    BY DEF Pan!Of, Pan!Valid, Pan!Forwarded, Pan!Dropped
  <2> HIDE DEF rows
  <2> QED
    BY <1>3, <2>1, ValidRowsAdd
<1>5. /\ v5' \subseteq {"external", "internal"}
      /\ v5' \cap {"external", "internal"} = {} => Pan!Forwarded(rows) = {}
  BY <1>1 DEF Pan!Forwarded
<1>6. ~v6' => \A c \in Pan!Classes : flows(c) = Pan!SumOf(Pan!NowOf(c))'
  <2>1. ~v6' => e = v1'.external /\ i = v1'.internal
    BY <1>1, <1>2
  <2> QED
    BY <2>1 DEF Pan!NowOf
<1>7. v3' = [c \in Pan!Classes |-> [Pan!Quiet EXCEPT !.flows = flows(c), !.drops = drops(c)]]
  BY <1>1, Zenon
<1> HIDE DEF rows, flows, drops
<1>8. Pan!TypeOK'
  BY <1>2, <1>4, <1>5, <1>7 DEF Pan!TypeOK, Pan!PanelInv, Pan!Quiet
<1>9. Pan!TotalsInv'
  BY <1>2, <1>4, <1>5, <1>6, <1>7 DEF Pan!TotalsInv, Pan!Quiet
<1>10. Pan!SeriesInv'
  BY <1>2 DEF Pan!SeriesInv, Pan!PanelInv
<1> QED
  BY <1>2, <1>8, <1>9, <1>10 DEF Pan!PanelInv

LEMMA BytesQueried == Pan!PanelInv /\ Pan!QueryBytes => Pan!PanelInv'
<1> SUFFICES ASSUME Pan!PanelInv, Pan!QueryBytes PROVE Pan!PanelInv'
  OBVIOUS
<1> DEFINE of(bytes, c) == {row \in Pan!Valid(Pan!IsNow(bytes)) : row.class = c}
<1>1. PICK bytes \in {v1.bytes, {}}, storage \in {v1.storage, 0} :
        /\ v6' = (v6 \/ bytes # v1.bytes \/ storage # v1.storage)
        /\ v3' = [c \in Pan!Classes |-> [v3[c] EXCEPT !.bytes =
              IF c = "storage" THEN storage ELSE Pan!SumOf(of(bytes, c))]]
        /\ v5' = v5 \cup (IF Pan!IsNow(bytes) # {} THEN {"bytes"} ELSE {})
  BY DEF Pan!QueryBytes
<1>2. /\ v2 = "bytes" /\ v2' = "series" /\ v1' = v1 /\ v4' = v4 /\ v1 \in Reported
      /\ v3 \in [Pan!Classes -> [flows : Nat, drops : Nat, bytes : Nat]]
  BY DEF Pan!QueryBytes, Pan!PanelInv, Pan!TypeOK
<1>3. Answer(bytes) /\ Unknown \notin Nat /\ storage \in Nat
  <2>1. Answer({})
    BY FS_EmptySet DEF Answer
  <2>2. Answer(v1.bytes) /\ v1.storage \in Nat /\ Unknown \notin Nat
    BY <1>2, MeasuredRows
  <2> QED
    BY <2>1, <2>2
<1> DEFINE now(c) == IF c = "storage" THEN storage ELSE Pan!SumOf(of(bytes, c))
<1>4. ASSUME NEW c
      PROVE  now(c) \in Nat /\ (Pan!IsNow(bytes) = {} /\ c # "storage" => now(c) = 0)
  <2>1. /\ of(bytes, c) \in SUBSET Pan!Valid(bytes)
        /\ Pan!IsNow(bytes) = {} => of(bytes, c) = {}
    BY DEF Pan!Valid, Pan!IsNow
  <2> HIDE DEF of
  <2> QED
    BY <1>3, <2>1, ValidRowsAdd
<1>5. ~v6' => ~v6 /\ \A c \in Pan!Classes : now(c) = Pan!BytesOf(c)'
  BY <1>1, <1>2 DEF Pan!BytesOf
<1>6. v3' = [c \in Pan!Classes |-> [v3[c] EXCEPT !.bytes = now(c)]]
  BY <1>1
<1> HIDE DEF of, now
<1>7. ASSUME NEW c \in Pan!Classes
      PROVE  /\ v3'[c] \in [flows : Nat, drops : Nat, bytes : Nat]
             /\ v3'[c].flows = v3[c].flows /\ v3'[c].bytes = now(c)
  BY <1>2, <1>4, <1>6
<1>8. Pan!TypeOK'
  BY <1>1, <1>2, <1>6, <1>7 DEF Pan!TypeOK, Pan!PanelInv
<1>9. Pan!TotalsInv'
  <2>1. v5' \cap {"external", "internal"} = {} => v5 \cap {"external", "internal"} = {}
    BY <1>1
  <2>2. "bytes" \notin v5' => Pan!IsNow(bytes) = {}
    BY <1>1
  <2>3. \A c : Pan!NowOf(c)' = Pan!NowOf(c)
    BY <1>2 DEF Pan!NowOf
  <2>4. "storage" \notin Pan!Networks /\ Pan!Networks \subseteq Pan!Classes
    BY DEF Pan!Networks, Pan!Classes
  <2>5. v2' = "series" /\ v2 # "totals"
    BY <1>2
  <2>6. (v5' \cap {"external", "internal"} = {} => \A c \in Pan!Classes : v3'[c].flows = 0)
    BY <1>2, <1>7, <2>1, <2>5 DEF Pan!TotalsInv, Pan!PanelInv
  <2>7. ~v6' => \A c \in Pan!Classes : v3'[c].flows = Pan!SumOf(Pan!NowOf(c))'
    BY <1>2, <1>5, <1>7, <2>3, <2>5 DEF Pan!TotalsInv, Pan!PanelInv
  <2>8. /\ "bytes" \notin v5' => \A c \in Pan!Networks : v3'[c].bytes = 0
        /\ ~v6' => \A c \in Pan!Classes : v3'[c].bytes = Pan!BytesOf(c)'
    BY <1>4, <1>5, <1>7, <2>2, <2>4
  <2> QED
    BY <2>6, <2>7, <2>8 DEF Pan!TotalsInv
<1>10. Pan!SeriesInv'
  BY <1>2 DEF Pan!SeriesInv, Pan!PanelInv
<1> QED
  BY <1>2, <1>8, <1>9, <1>10 DEF Pan!PanelInv

\* The flows of now at the end of a series.
Ends(points) == IF 0 \in DOMAIN points THEN points[0].flows ELSE 0

LEMMA PointsSum ==
  ASSUME NEW rows, Answer(rows), Unknown \notin Nat, NEW c
  PROVE  /\ \A t \in DOMAIN Pan!Points(rows, c) :
              Pan!Points(rows, c)[t] \in [flows : Nat, bytes : {0}]
         /\ Ends(Pan!Points(rows, c)) = Pan!SumOf(Pan!Of(Pan!IsNow(rows), c))
<1> DEFINE T == UNION {row.at : row \in Pan!Of(rows, c)}
           on(t) == {row \in Pan!Of(rows, c) : t \in row.at}
<1>1. \A t : Pan!SumOf(on(t)) \in Nat /\ (on(t) = {} => Pan!SumOf(on(t)) = 0)
  <2> TAKE t
  <2>1. on(t) \in SUBSET Pan!Valid(rows)
    BY DEF Pan!Of
  <2> HIDE DEF on
  <2> QED
    BY <2>1, ValidRowsAdd
<1>2. on(0) = Pan!Of(Pan!IsNow(rows), c)
  BY DEF Pan!Of, Pan!Valid, Pan!IsNow
<1>3. 0 \notin T => on(0) = {}
  OBVIOUS
<1>4. Pan!Points(rows, c) = [t \in T |-> [flows |-> Pan!SumOf(on(t)), bytes |-> 0]]
  BY DEF Pan!Points
<1> HIDE DEF T, on
<1> QED
  BY <1>1, <1>2, <1>3, <1>4 DEF Ends

Has(rows, c) == \E row \in rows : Pan!Classify(row.to) = c

LEMMA SeriesAbsorbed ==
  ASSUME NEW e, NEW i, NEW c \in Pan!Classes,
         v4' = Pan!AbsorbSeries(Pan!AbsorbSeries([k \in Pan!Classes |-> << >>], e), i)
  PROVE  v4'[c] = IF Has(i, c) THEN Pan!Points(i, c)
                  ELSE IF Has(e, c) THEN Pan!Points(e, c) ELSE << >>
  BY DEF Pan!AbsorbSeries, Has

LEMMA SeriesQueried == Pan!PanelInv /\ Pan!QuerySeries => Pan!PanelInv'
<1> SUFFICES ASSUME Pan!PanelInv, Pan!QuerySeries PROVE Pan!PanelInv'
  OBVIOUS
<1> DEFINE E == Pan!Forwarded(v1.external)
           I == Pan!Forwarded(v1.internal)
<1>1. PICK e \in {E, {}}, i \in {I, {}} :
        /\ v6' = (v6 \/ e # E \/ i # I)
        /\ v4' = Pan!AbsorbSeries(Pan!AbsorbSeries(v4, e), i)
  BY DEF Pan!QuerySeries
<1>2. /\ v2 = "series" /\ v2' = "byte_series" /\ v1' = v1 /\ v3' = v3 /\ v5' = v5
      /\ v1 \in Reported /\ v4 = [c \in Pan!Classes |-> << >>]
  BY DEF Pan!QuerySeries, Pan!PanelInv, Pan!TypeOK, Pan!SeriesInv
<1>3. Answer(e) /\ Answer(i) /\ Unknown \notin Nat
  <2>1. Answer({})
    BY FS_EmptySet DEF Answer
  <2>2. Answer(v1.external) /\ Answer(v1.internal) /\ Unknown \notin Nat
    BY <1>2, MeasuredRows
  <2>3. E \subseteq v1.external /\ I \subseteq v1.internal
    BY DEF Pan!Forwarded
  <2>4. Answer(E) /\ Answer(I)
    BY <2>2, <2>3, FS_Subset DEF Answer
  <2> QED
    BY <2>1, <2>2, <2>4
<1>4. \A c \in Pan!Classes :
        v4'[c] = IF Has(i, c) THEN Pan!Points(i, c)
                 ELSE IF Has(e, c) THEN Pan!Points(e, c) ELSE << >>
  BY <1>1, <1>2, SeriesAbsorbed
<1>5. DOMAIN << >> = {}
  OBVIOUS
<1>6. \A c \in Pan!Classes : \A t \in DOMAIN v4'[c] : v4'[c][t] \in [flows : Nat, bytes : {0}]
  BY <1>3, <1>4, <1>5, PointsSum
<1>7. ASSUME ~v6', NEW c \in Pan!Classes, ~Pan!Both(c)'
      PROVE  Ends(v4'[c]) = v3'[c].flows
  <2>1. e = E /\ i = I /\ ~v6
    BY <1>1, <1>7
  <2>2. ~(Has(E, c) /\ Has(I, c))
    BY <1>2, <1>7 DEF Pan!Both, Has
  <2>3. Pan!NowOf(c) = Pan!Of(Pan!IsNow(E), c) \cup Pan!Of(Pan!IsNow(I), c)
    BY DEF Pan!NowOf, Pan!Of, Pan!IsNow, Pan!Valid, Pan!Forwarded
  <2>4. /\ ~Has(E, c) => Pan!Of(Pan!IsNow(E), c) = {}
        /\ ~Has(I, c) => Pan!Of(Pan!IsNow(I), c) = {}
    BY DEF Has, Pan!Of, Pan!IsNow, Pan!Valid
  <2>5. v3'[c].flows = Pan!SumOf(Pan!NowOf(c))
    BY <1>2, <2>1 DEF Pan!PanelInv, Pan!TotalsInv
  <2> HIDE DEF E, I
  <2>6. CASE Has(I, c)
    <3>1. Pan!NowOf(c) = Pan!Of(Pan!IsNow(I), c)
      BY <2>2, <2>3, <2>4, <2>6
    <3> QED
      BY <1>3, <1>4, <2>1, <2>5, <2>6, <3>1, PointsSum
  <2>7. CASE ~Has(I, c) /\ Has(E, c)
    <3>1. Pan!NowOf(c) = Pan!Of(Pan!IsNow(E), c)
      BY <2>3, <2>4, <2>7
    <3> QED
      BY <1>3, <1>4, <2>1, <2>5, <2>7, <3>1, PointsSum
  <2>8. CASE ~Has(I, c) /\ ~Has(E, c)
    <3>1. Pan!NowOf(c) = {}
      BY <2>3, <2>4, <2>8
    <3>2. Pan!SumOf({}) = 0
      BY PanSums, RowsNone
    <3>3. v4'[c] = << >>
      BY <1>4, <2>1, <2>8
    <3> QED
      BY <1>5, <2>5, <3>1, <3>2, <3>3 DEF Ends
  <2> QED
    BY <2>6, <2>7, <2>8
<1>8. Pan!TypeOK'
  BY <1>1, <1>2 DEF Pan!TypeOK, Pan!PanelInv, Pan!AbsorbSeries
<1>9. Pan!TotalsInv'
  <2>1. ~v6' => ~v6
    BY <1>1
  <2>2. v2 # "totals" /\ v2 = "series"
    BY <1>2
  <2> QED
    BY <1>2, <2>1, <2>2 DEF Pan!TotalsInv, Pan!PanelInv, Pan!NowOf, Pan!BytesOf
<1>10. Pan!SeriesInv'
  BY <1>2, <1>6, <1>7 DEF Pan!SeriesInv, Pan!At, Ends
<1> QED
  BY <1>2, <1>8, <1>9, <1>10 DEF Pan!PanelInv

EndBytes(points) == IF 0 \in DOMAIN points THEN points[0].bytes ELSE 0

LEMMA PointsMerge ==
  ASSUME NEW points, \A t \in DOMAIN points : points[t] \in [flows : Nat, bytes : {0}],
         NEW rows, Answer(rows), Unknown \notin Nat
  PROVE  /\ Ends(Pan!MergeBytePoints(points, rows)) = Ends(points)
         /\ EndBytes(Pan!MergeBytePoints(points, rows)) = Pan!SumOf(Pan!Valid(Pan!IsNow(rows)))
<1> DEFINE T == UNION {row.at : row \in Pan!Valid(rows)}
           now == {row \in Pan!Valid(rows) : 0 \in row.at}
           new == Pan!MergeBytePoints(points, rows)
           point == IF 0 \in DOMAIN points THEN points[0] ELSE [flows |-> 0, bytes |-> 0]
<1>1. /\ now = Pan!Valid(Pan!IsNow(rows)) /\ now \in SUBSET Pan!Valid(rows)
      /\ 0 \notin T => now = {}
  BY DEF Pan!Valid, Pan!IsNow
<1>2. /\ DOMAIN new = DOMAIN points \cup T
      /\ 0 \in DOMAIN new => new[0] = [point EXCEPT !.bytes = @ + Pan!SumOf(now)]
  BY DEF Pan!MergeBytePoints
<1>3. /\ point \in [flows : Nat, bytes : {0}]
      /\ point.flows = Ends(points)
  BY DEF Ends
<1> HIDE DEF T, now, new, point
<1>4. Pan!SumOf(now) \in Nat /\ (now = {} => Pan!SumOf(now) = 0)
  BY <1>1, ValidRowsAdd
<1>5. 0 \in DOMAIN new => new[0].flows = Ends(points) /\ new[0].bytes = Pan!SumOf(now)
  BY <1>2, <1>3, <1>4
<1>6. 0 \notin DOMAIN new => Ends(points) = 0 /\ Pan!SumOf(now) = 0
  BY <1>1, <1>2, <1>4 DEF Ends
<1>7. Ends(new) = Ends(points) /\ EndBytes(new) = Pan!SumOf(now)
  BY <1>5, <1>6 DEF Ends, EndBytes
<1> QED
  BY <1>1, <1>7 DEF new

\* Storage is one sum, at every point.
LEMMA StorageIsOne ==
  ASSUME NEW n \in Nat, Unknown \notin Nat
  PROVE  /\ Answer({[rate |-> n, at |-> Times]})
         /\ Pan!SumOf(Pan!Valid(Pan!IsNow({[rate |-> n, at |-> Times]}))) = n
<1> DEFINE row == [rate |-> n, at |-> Times]
<1>1. row.rate = n /\ 0 \in row.at
  BY PanMeasurementsAssumption DEF Pan!MeasurementsAssumption
<1> HIDE DEF row
<1>2. Pan!Valid(Pan!IsNow({row})) = {row}
  BY <1>1 DEF Pan!Valid, Pan!IsNow
<1>3. Pan!SumOf({row}) = n
  BY <1>1, PanSums, RowsOne
<1>4. Answer({row})
  BY <1>1, FS_Singleton, Zenon DEF Answer
<1> QED
  BY <1>2, <1>3, <1>4 DEF row

LEMMA ByteSeriesQueried == Pan!PanelInv /\ Pan!QueryByteSeries => Pan!PanelInv'
<1> SUFFICES ASSUME Pan!PanelInv, Pan!QueryByteSeries PROVE Pan!PanelInv'
  OBVIOUS
<1> DEFINE of(bytes, storage, c) == IF c = "storage" THEN {[rate |-> storage, at |-> Times]}
                                   ELSE {row \in bytes : row.class = c}
<1>1. PICK bytes \in {v1.bytes, {}}, storage \in {v1.storage, 0} :
        /\ v6' = (v6 \/ bytes # v1.bytes \/ storage # v1.storage)
        /\ v4' = [c \in Pan!Classes |-> Pan!MergeBytePoints(v4[c], of(bytes, storage, c))]
  BY DEF Pan!QueryByteSeries
<1>2. /\ v2 = "byte_series" /\ v2' = "done" /\ v1' = v1 /\ v3' = v3 /\ v5' = v5
      /\ v1 \in Reported
      /\ \A c \in Pan!Classes : \A t \in DOMAIN v4[c] : v4[c][t] \in [flows : Nat, bytes : {0}]
  BY DEF Pan!QueryByteSeries, Pan!PanelInv, Pan!TypeOK, Pan!SeriesInv
<1>3. Answer(v1.bytes) /\ v1.storage \in Nat /\ Unknown \notin Nat
  BY <1>2, MeasuredRows
<1>4. Answer(bytes) /\ storage \in Nat
  <2>1. Answer({})
    BY FS_EmptySet DEF Answer
  <2> QED
    BY <1>3, <2>1
<1>5. ASSUME NEW c \in Pan!Classes
      PROVE  /\ Ends(v4'[c]) = Ends(v4[c])
             /\ EndBytes(v4'[c]) = Pan!SumOf(Pan!Valid(Pan!IsNow(of(bytes, storage, c))))
  <2>1. Answer(of(bytes, storage, c))
    <3>1. IsFiniteSet({row \in bytes : row.class = c})
      BY <1>4, FS_Subset DEF Answer
    <3>2. Answer({row \in bytes : row.class = c})
      BY <1>4, <3>1 DEF Answer
    <3> QED
      BY <1>3, <1>4, <3>2, StorageIsOne
  <2>2. v4'[c] = Pan!MergeBytePoints(v4[c], of(bytes, storage, c))
    BY <1>1
  <2> HIDE DEF of
  <2> QED
    BY <1>2, <1>3, <2>1, <2>2, PointsMerge
<1>6. ASSUME ~v6', NEW c \in Pan!Classes PROVE EndBytes(v4'[c]) = v3'[c].bytes
  <2>1. bytes = v1.bytes /\ storage = v1.storage /\ ~v6
    BY <1>1, <1>6
  <2>2. v3[c].bytes = Pan!BytesOf(c)
    BY <1>2, <2>1 DEF Pan!PanelInv, Pan!TotalsInv
  <2>3. CASE c = "storage"
    <3>1. Pan!BytesOf(c) = storage
      BY <2>1, <2>3 DEF Pan!BytesOf
    <3>2. of(bytes, storage, c) = {[rate |-> storage, at |-> Times]}
      BY <2>3
    <3> HIDE DEF of
    <3> QED
      BY <1>2, <1>3, <1>4, <1>5, <2>2, <3>1, <3>2, StorageIsOne
  <2>4. CASE c # "storage"
    <3>1. of(bytes, storage, c) = {row \in bytes : row.class = c}
      BY <2>4
    <3>2. Pan!BytesOf(c) = Pan!SumOf({row \in Pan!Valid(Pan!IsNow(v1.bytes)) : row.class = c})
      BY <2>4 DEF Pan!BytesOf
    <3>3. {row \in Pan!Valid(Pan!IsNow(bytes)) : row.class = c}
            = Pan!Valid(Pan!IsNow({row \in bytes : row.class = c}))
      BY DEF Pan!Valid, Pan!IsNow
    <3> HIDE DEF of
    <3> QED
      BY <1>2, <1>5, <2>1, <2>2, <3>1, <3>2, <3>3
  <2> QED
    BY <2>3, <2>4
<1>7. \A c \in Pan!Classes : Ends(v4'[c]) = Ends(v4[c])
  BY <1>5
<1>8. ~v6' => ~v6
  BY <1>1
<1>9. Pan!TypeOK'
  BY <1>1, <1>2 DEF Pan!TypeOK, Pan!PanelInv
<1>10. Pan!TotalsInv'
  BY <1>2, <1>8 DEF Pan!TotalsInv, Pan!PanelInv, Pan!NowOf, Pan!BytesOf
<1>11. Pan!SeriesInv'
  <2>1. ~v6' => \A c \in Pan!Classes : ~Pan!Both(c) => Ends(v4[c]) = v3[c].flows
    BY <1>2, <1>8 DEF Pan!SeriesInv, Pan!PanelInv, Pan!At, Ends
  <2>2. \A c : Pan!Both(c)' <=> Pan!Both(c)
    BY <1>2 DEF Pan!Both
  <2>3. ~v6' => \A c \in Pan!Classes : /\ ~Pan!Both(c)' => Ends(v4'[c]) = v3'[c].flows
                                      /\ EndBytes(v4'[c]) = v3'[c].bytes
    BY <1>2, <1>6, <1>7, <2>1, <2>2
  <2> QED
    BY <1>2, <2>3 DEF Pan!SeriesInv, Pan!At, Ends, EndBytes
<1> QED
  BY <1>2, <1>9, <1>10, <1>11 DEF Pan!PanelInv

LEMMA PanelKept == Pan!PanelInv /\ [Pan!Next]_(Pan!panelVars) => Pan!PanelInv'
<1> SUFFICES ASSUME Pan!PanelInv, [Pan!Next]_(Pan!panelVars) PROVE Pan!PanelInv'
  OBVIOUS
<1>1. CASE UNCHANGED Pan!panelVars
  BY <1>1 DEF Pan!panelVars, Pan!PanelInv, Pan!TypeOK, Pan!TotalsInv, Pan!SeriesInv, Pan!NowOf,
    Pan!BytesOf, Pan!Both, Pan!At
<1>2. ASSUME Pan!Change PROVE Pan!PanelInv'
  <2>1. Pan!TypeOK'
    BY <1>2 DEF Pan!Change, Pan!TypeOK, Pan!PanelInv
  <2>2. Pan!TotalsInv'
    BY <1>2 DEF Pan!Change, Pan!TotalsInv, Pan!PanelInv
  <2>3. Pan!SeriesInv'
    BY <1>2 DEF Pan!Change, Pan!SeriesInv, Pan!PanelInv
  <2> QED
    BY <1>2, <2>1, <2>2, <2>3 DEF Pan!Change, Pan!PanelInv
<1> QED
  BY <1>1, <1>2, TotalsQueried, BytesQueried, SeriesQueried, ByteSeriesQueried DEF Pan!Next

LEMMA PanelHonest == Pan!PanelInv => Pan!PanelIsHonest
<1> SUFFICES ASSUME Pan!PanelInv, v2 = "done" PROVE Pan!PanelIsHonest
  BY DEF Pan!PanelIsHonest
<1>1. ASSUME Pan!Stale, NEW c \in Pan!Classes PROVE v3[c].flows = 0 /\ v3[c].bytes = 0
  <2>1. v5 = {} /\ v3["storage"].bytes = 0
    BY <1>1 DEF Pan!Stale
  <2>2. v3[c].flows = 0 /\ \A k \in Pan!Networks : v3[k].bytes = 0
    BY <2>1 DEF Pan!PanelInv, Pan!TotalsInv
  <2> QED
    BY <2>1, <2>2 DEF Pan!Classes
<1>2. ASSUME ~v6, NEW c \in Pan!Classes
      PROVE  /\ Pan!At(c, 0).bytes = v3[c].bytes
             /\ ~Pan!Both(c) => Pan!At(c, 0).flows = v3[c].flows
  BY <1>2 DEF Pan!PanelInv, Pan!SeriesInv
<1>3. ASSUME ~v6
      PROVE  v3["cluster"].flows >= Pan!SumOf({row \in Pan!Valid(Pan!Forwarded(
               Pan!IsNow(v1.external))) : "reserved:host" \in row.to})
  <2> DEFINE U == Pan!NowOf("cluster")
             V == {row \in Pan!Valid(Pan!Forwarded(Pan!IsNow(v1.external))) :
                     "reserved:host" \in row.to}
             R == v1.external \cup v1.internal
  <2>1. v3["cluster"].flows = Pan!SumOf(U)
    BY <1>3 DEF Pan!PanelInv, Pan!TotalsInv, Pan!Classes, Pan!Networks
  <2>2. U \in SUBSET Pan!Valid(R) /\ V \in SUBSET U
    <3>1. ASSUME NEW row \in V PROVE Pan!Classify(row.to) = "cluster"
      <4>1. row.to \cap {"reserved:host", "reserved:remote-node"} # {}
        OBVIOUS
      <4> QED
        BY <4>1 DEF Pan!Classify
    <3>2. V \subseteq Pan!Valid(Pan!Forwarded(Pan!IsNow(v1.external)))
      OBVIOUS
    <3> HIDE DEF V
    <3> QED
      BY <3>1, <3>2 DEF Pan!NowOf, Pan!Of, Pan!Valid, Pan!Forwarded, Pan!IsNow
  <2>3. Answer(R) /\ Unknown \notin Nat
    <3>1. Answer(v1.external) /\ Answer(v1.internal) /\ Unknown \notin Nat
      BY MeasuredRows DEF Pan!PanelInv, Pan!TypeOK
    <3> QED
      BY <3>1, FS_Union DEF Answer
  <2> HIDE DEF U, V, R
  <2>4. Pan!SumOf(V) \in Nat /\ Pan!SumOf(U) \in Nat /\ Pan!SumOf(V) <= Pan!SumOf(U)
    <3>1. V \in SUBSET Pan!Valid(R)
      BY <2>2
    <3> QED
      BY <2>2, <2>3, <3>1, ValidRowsAdd
  <2> QED
    BY <2>1, <2>4 DEF V
<1> QED
  BY <1>1, <1>2, <1>3 DEF Pan!PanelIsHonest

-----------------------------------------------------------------------------
(* NetworkGraph: v1 is the services, v2 what refers to them, v3 who may    *)
(* reach the internet, v4 who has an address, v5 the step, v6 the graph,   *)
(* v7 the changes and faults, v8 what was measured, v9 what was there      *)
(* since the request began, v10 who was blocked, v11 the addresses moved.  *)

LEMMA GraSums ==
  /\ \A rows : Gra!SumOf(rows) = RowsSum(rows)
  /\ \A f : Gra!SumFunction(f) = Sum(f, DOMAIN f)
  BY DEF Gra!SumOf, Gra!SumFunction, Gra!SumFunctionOnSet, Gra!FoldFunctionOnSet,
    Gra!MapThenFoldSet, RowsSum, Rates, Sum, SumFunctionOnSet, FoldFunctionOnSet, MapThenFoldSet

LEMMA GraFinite == \A S : Gra!IsFiniteSet(S) <=> IsFiniteSet(S)
  BY DEF Gra!IsFiniteSet, IsFiniteSet

LEMMA SpacesAre ==
  /\ IsFiniteSet(Spaces) /\ Unknown \notin Spaces \cup Nat \cup {"external", "lan", "node", "host"}
  /\ \A ns \in Spaces : ns \notin {"external", "lan", "node", "host"}
  BY GraSpacesAssumption, GraFinite DEF Gra!SpacesAssumption, Gra!Fixed, Gra!External

Addresses == PodAddresses \cup {"internet", "lan", "host"}

\* Answers as they are read.
ReadingIs(r) ==
  /\ Answer(r.flows) /\ Answer(r.bytes)
  /\ \A row \in r.flows : row.from \notin {"lan", "node"} /\ row.to # "host"
  /\ \A row \in r.bytes : row.from \in Addresses /\ row.to \in Addresses

LEMMA ReadingsAre == \A r \in Measured \cup {Gra!NoReading} : ReadingIs(r)
<1>1. ASSUME NEW r \in Measured PROVE ReadingIs(r)
  BY GraReadingsAssumption, GraFinite DEF Gra!ReadingsAssumption, ReadingIs, Answer, Addresses
<1>2. ReadingIs(Gra!NoReading)
  BY FS_EmptySet DEF Gra!NoReading, ReadingIs, Answer
<1> QED
  BY <1>1, <1>2

LEMMA NoRowsAdd ==
  /\ Gra!SumOf({}) = 0
  /\ \A pods, a, b : Gra!Between({}, pods, a, b) = 0
  /\ Gra!SumOf({row \in Gra!NoReading.flows :
       Gra!Counted(row) /\ Gra!FlowPair(row)[1] # Gra!FlowPair(row)[2]}) = 0
<1>1. Gra!SumOf({}) = 0
  BY GraSums, RowsNone
<1>2. \A pods, a, b : Gra!Between({}, pods, a, b) = Gra!SumOf({})
  BY DEF Gra!Between
<1>3. {row \in Gra!NoReading.flows :
         Gra!Counted(row) /\ Gra!FlowPair(row)[1] # Gra!FlowPair(row)[2]} = {}
  BY DEF Gra!NoReading
<1> QED
  BY <1>1, <1>2, <1>3

\* Edges without flows have none together.
LEMMA NoFlows ==
  ASSUME NEW edges, IsFiniteSet(DOMAIN edges), \A pair \in DOMAIN edges : edges[pair].flows = 0
  PROVE  Gra!SumFunction([pair \in DOMAIN edges |-> edges[pair].flows]) = 0
<1> DEFINE f == [pair \in DOMAIN edges |-> edges[pair].flows]
<1>1. Sum(f, DOMAIN edges) = 0
  <2>1. \A pair \in DOMAIN edges : f[pair] = 0
    OBVIOUS
  <2> HIDE DEF f
  <2> QED
    BY <2>1, SumZero
<1>2. DOMAIN f = DOMAIN edges
  OBVIOUS
<1> QED
  BY <1>1, <1>2, GraSums, Zenon

LEMMA GraphInitially == Gra!Init => Gra!GraphInv
<1> SUFFICES ASSUME Gra!Init PROVE Gra!GraphInv
  OBVIOUS
<1>1. /\ DOMAIN v6.edges = {} /\ v6.shown = {} /\ v6.owners = {}
      /\ DOMAIN v6 = {"shown", "measured", "owners", "edges", "pods"}
      /\ v6.pods = [a \in PodAddresses |-> Unknown]
  BY DEF Gra!Init
<1>2. /\ v1 = [ns \in Spaces |-> ServiceNames] /\ v3 = [ns \in Spaces |-> "plain"]
      /\ v2 \in [Spaces -> SUBSET Gra!Sayings] /\ v4 \in [PodAddresses -> Spaces]
      /\ v5 = "idle" /\ v7 = 0 /\ v8 = Gra!NoReading
      /\ v9 = [says |-> v2, services |-> v1] /\ v10 = {}
  BY DEF Gra!Init, Gra!NoReading
<1>3. Gra!ShapeInv
  <2>1. Gra!TypeOK
    BY <1>1, <1>2 DEF Gra!TypeOK, Gra!Pairs
  <2> QED
    BY <1>1, <1>2, <2>1, FS_EmptySet, GraFinite DEF Gra!ShapeInv, Gra!Pairs
<1>4. Gra!HistoryInv
  BY <1>1, <1>2 DEF Gra!HistoryInv, Gra!Pairs, Gra!Measuring
<1>5. Gra!EdgesInv /\ Gra!MeasuresInv
  BY <1>1, <1>2 DEF Gra!EdgesInv, Gra!MeasuresInv, Gra!Pairs, Gra!Measuring
<1> QED
  BY <1>3, <1>4, <1>5 DEF Gra!GraphInv

\* A list that fails counts.
LEMMA ListsCount ==
  ASSUME Gra!GraphInv, NEW lost \in SUBSET v6.shown, v7' = v7 + Gra!Cardinality(lost)
  PROVE  v7' \in Nat /\ (v7' = 0 => v7 = 0 /\ lost = {})
<1>1. v7 \in Nat /\ v6.shown \subseteq Spaces
  BY DEF Gra!GraphInv, Gra!ShapeInv, Gra!TypeOK
<1>2. IsFiniteSet(lost)
  BY <1>1, SpacesAre, FS_Subset
<1>3. Gra!Cardinality(lost) = Cardinality(lost)
  BY DEF Gra!Cardinality, Cardinality
<1>4. Cardinality(lost) \in Nat /\ (Cardinality(lost) = 0 => lost = {})
  BY <1>2, FS_CardinalityType, FS_EmptySet
<1> QED
  BY <1>1, <1>3, <1>4

\* What edges may be found for.
Searching == {"config", "endpoint", "upstream", "exposed", "ingress", "policies"}
Finds(new) ==
  /\ v6' = Gra!WithEdges(new) /\ UNCHANGED <<v1, v2, v3, v4, v8, v9, v10, v11>>
  /\ v7' \in Nat /\ (v7' = 0 => v7 = 0)
  /\ v5 \in Searching /\ v5' \in Searching \cup {"pods", "done"}
  /\ \A pair \in DOMAIN new :
       Gra!Found(pair) /\ pair[1] # pair[2] /\ new[pair] \in [kind : Gra!Kinds, flows : {0}, bytes : {0}]
  /\ v5' \in {"pods", "done"} => \A ns \in v6.shown \ v10 : <<ns, "external">> \in DOMAIN new

LEMMA EdgesFound == ASSUME Gra!GraphInv, NEW new, Finds(new) PROVE Gra!GraphInv'
<1> DEFINE P == DOMAIN v6.edges
           D == DOMAIN new
           all == [pair \in P \cup D |-> IF pair \in P THEN v6.edges[pair] ELSE new[pair]]
<1>1. /\ DOMAIN v6 = {"shown", "measured", "owners", "edges", "pods"} /\ v6.shown \subseteq Spaces
      /\ v6.pods \in [PodAddresses -> Spaces \cup {Unknown}]
      /\ IsFiniteSet(P) /\ \A pair \in P : v6.edges[pair] \in [kind : Gra!Kinds, flows : Nat, bytes : Nat]
  BY GraFinite DEF Gra!GraphInv, Gra!ShapeInv, Gra!TypeOK, Gra!Pairs
<1>2. v6' = [v6 EXCEPT !.edges = all]
  BY DEF Finds, Gra!WithEdges, Gra!Pairs
<1> HIDE DEF all
<1>3. /\ v6'.edges = all /\ v6'.shown = v6.shown /\ v6'.owners = v6.owners /\ v6'.pods = v6.pods
      /\ DOMAIN v6' = DOMAIN v6
  BY <1>1, <1>2
<1>4. v8 = Gra!NoReading /\ \A pair \in P : v6.edges[pair].flows = 0 /\ v6.edges[pair].bytes = 0
  BY DEF Finds, Searching, Gra!GraphInv, Gra!MeasuresInv, Gra!Measuring, Gra!Pairs
<1>5. /\ DOMAIN all = P \cup D
      /\ \A pair \in P : all[pair] = v6.edges[pair]
      /\ \A pair \in D \ P : all[pair] = new[pair]
  BY DEF all
<1>6. \A pair \in D : /\ Gra!Found(pair) /\ pair[1] # pair[2]
                     /\ new[pair] \in [kind : Gra!Kinds, flows : {0}, bytes : {0}]
  BY DEF Finds
<1>7. \A pair \in P \cup D :
        /\ all[pair] \in [kind : Gra!Kinds, flows : Nat, bytes : Nat]
        /\ all[pair].flows = 0 /\ all[pair].bytes = 0
  BY <1>1, <1>4, <1>5, <1>6
<1>8. IsFiniteSet(P \cup D)
  <2> DEFINE S == Spaces \cup {"external"}
  <2>1. IsFiniteSet(S)
    BY SpacesAre, FS_AddElement
  <2>2. IsFiniteSet(S \X S)
    BY <2>1, FS_Product
  <2>3. D \subseteq S \X S
    BY <1>1, <1>6 DEF Gra!Found, Gra!External
  <2> HIDE DEF S
  <2>4. IsFiniteSet(D)
    BY <2>2, <2>3, FS_Subset
  <2> QED
    BY <1>1, <2>4, FS_Union
<1>9. Gra!Pairs' = P \cup D /\ Gra!Pairs = P
  BY <1>3, <1>5 DEF Gra!Pairs
<1>10. UNCHANGED <<v1, v2, v3, v4, v8, v9, v10>> /\ v7' \in Nat /\ v5 \in Searching
       /\ v5' \in Searching \cup {"pods", "done"} /\ (v7' = 0 => v7 = 0)
  BY DEF Finds
<1> HIDE DEF P, D
<1>11. Gra!ShapeInv'
  <2>1. Gra!TypeOK'
    BY <1>3, <1>7, <1>9, <1>10 DEF Gra!TypeOK, Gra!GraphInv, Gra!ShapeInv
  <2> QED
    BY <1>1, <1>3, <1>7, <1>8, <1>9, <1>10, <2>1, GraFinite DEF Gra!ShapeInv, Searching, Gra!Measuring
<1>12. Gra!HistoryInv'
  <2>1. v5' # "idle" /\ v5 # "idle" /\ v5 \notin {"pods", "observed", "bytes", "done"}
    BY <1>10 DEF Searching
  <2>2. v5' \in {"pods", "observed"} \cup Gra!Measuring =>
          \A ns \in v6.shown \ v10 : <<ns, "external">> \in P \cup D
    BY <1>10 DEF Finds, D, Gra!Measuring, Searching
  <2>3. /\ {ns \in Spaces : v3[ns] = "blocked"} \subseteq v10
        /\ \A ns \in Spaces : v2[ns] \subseteq v9.says[ns] /\ v1[ns] \subseteq v9.services[ns]
        /\ \A owner \in v6.owners : owner[2] \in v6.shown /\ owner[1][1] \in v9.services[owner[2]]
    BY <2>1 DEF Gra!GraphInv, Gra!HistoryInv
  <2> QED
    BY <1>3, <1>9, <1>10, <2>1, <2>2, <2>3 DEF Gra!HistoryInv, Gra!External
<1>13. Gra!EdgesInv'
  <2>1. \A pair : Gra!Found(pair)' <=> Gra!Found(pair)
    BY <1>3, <1>10 DEF Gra!Found
  <2>2. ASSUME NEW pair \in P \cup D
        PROVE  /\ pair[1] # pair[2] /\ pair[1] \notin {"lan", "node"} /\ pair[2] # "host"
               /\ all[pair].kind # "observed" => Gra!Found(pair)
    <3>1. CASE pair \in P
      BY <1>5, <1>9, <3>1 DEF Gra!GraphInv, Gra!EdgesInv, P
    <3>2. CASE pair \in D \ P
      <4>1. Gra!Found(pair) /\ pair[1] # pair[2]
        BY <1>6, <3>2
      <4>2. pair[1] \in Spaces \cup {"external"} /\ pair[2] \in Spaces \cup {"external"}
        BY <1>1, <4>1 DEF Gra!Found, Gra!External
      <4> QED
        BY <4>1, <4>2, SpacesAre
    <3> QED
      BY <2>2, <3>1, <3>2
  <2> QED
    BY <1>3, <1>9, <2>1, <2>2 DEF Gra!EdgesInv
<1>14. Gra!MeasuresInv'
  <2>1. Gra!SumFunction([pair \in P \cup D |-> all[pair].flows]) = 0
    BY <1>5, <1>7, <1>8, NoFlows
  <2>2. v8' = Gra!NoReading /\ v8'.bytes = {}
    BY <1>4, <1>10 DEF Gra!NoReading
  <2>3. v5' \notin {"observed", "bytes"}
    BY <1>10 DEF Searching
  <2> QED
    BY <1>3, <1>7, <1>9, <2>1, <2>2, <2>3, NoRowsAdd DEF Gra!MeasuresInv, Gra!Measuring
<1> QED
  BY <1>11, <1>12, <1>13, <1>14 DEF Gra!GraphInv

LEMMA ToldIs ==
  ASSUME NEW said, NEW has, NEW ns \in Spaces, NEW s \in said[ns], NEW pair, pair \in Gra!Refers(ns, s, has)
  PROVE  pair \in Gra!Told(said, has)
  BY DEF Gra!Told

\* Owners of a name that a namespace mentions.
LEMMA OwnersAreThere ==
  ASSUME Gra!GraphInv, NEW ns \in v6.shown, NEW s \in v2[ns], s.by # "endpoint",
         NEW keys, keys \subseteq Gra!Mentions(s.key), NEW o \in Gra!Owners(ns, keys)
  PROVE  Gra!Found(<<ns, o>>) /\ ns # o
<1>1. PICK x \in v6.owners : x[1] \in keys /\ o = x[2] /\ o # ns
  BY DEF Gra!Owners
<1>2. x[1] \in {s.key, <<s.key[1]>>}
  BY <1>1 DEF Gra!Mentions
<1>3. x[1][1] = s.key[1]
  BY <1>2
<1>4. o \in v6.shown /\ s.key[1] \in v9.services[o] /\ v6.shown \subseteq Spaces /\ s \in v9.says[ns]
  BY <1>1, <1>3 DEF Gra!GraphInv, Gra!HistoryInv, Gra!ShapeInv, Gra!TypeOK
<1>5. <<ns, o>> \in Gra!Refers(ns, s, v9.services)
  BY <1>4 DEF Gra!Refers
<1>6. <<ns, o>> \in Gra!Told(v9.says, v9.services)
  BY <1>4, <1>5, ToldIs
<1> QED
  BY <1>1, <1>4, <1>6 DEF Gra!Found

LEMMA EdgeIs ==
  \A k \in {"config", "upstream", "endpoint", "ingress", "ingress-backend", "egress"} :
    Gra!Edge(k) \in [kind : Gra!Kinds, flows : {0}, bytes : {0}]
<1> TAKE k \in {"config", "upstream", "endpoint", "ingress", "ingress-backend", "egress"}
<1>1. k \in Gra!Kinds
  BY DEF Gra!Kinds
<1> QED
  BY <1>1 DEF Gra!Edge

LEMMA ReferencesFound ==
  ASSUME Gra!GraphInv, NEW kind, NEW next,
         <<kind, next>> \in {<<"config", "endpoint">>, <<"upstream", "exposed">>},
         Gra!FindReferences(kind, next)
  PROVE  Gra!GraphInv'
<1> DEFINE found(listed) == UNION {{ns} \X UNION {Gra!Owners(ns, Gra!Mentions(s.key)) :
                                     s \in {x \in v2[ns] : x.by = kind}} : ns \in listed}
<1>1. PICK lost \in SUBSET v6.shown :
        /\ v7' = v7 + Gra!Cardinality(lost)
        /\ v6' = Gra!WithEdges([pair \in found(v6.shown \ lost) |-> Gra!Edge(kind)])
  BY DEF Gra!FindReferences, Gra!Answers
<1> DEFINE new == [pair \in found(v6.shown \ lost) |-> Gra!Edge(kind)]
<1>2. v7' \in Nat /\ (v7' = 0 => v7 = 0)
  BY <1>1, ListsCount
<1>3. /\ v5 = kind /\ v5' = next /\ UNCHANGED <<v1, v2, v3, v4, v8, v9, v10, v11>>
      /\ kind \in {"config", "upstream"} /\ next \in {"endpoint", "exposed"}
  BY DEF Gra!FindReferences, Gra!Goes, Gra!cluster, Gra!ghosts
<1>4. ASSUME NEW pair \in found(v6.shown \ lost) PROVE Gra!Found(pair) /\ pair[1] # pair[2]
  <2>1. PICK ns \in v6.shown : pair \in {ns} \X UNION {Gra!Owners(ns, Gra!Mentions(s.key)) :
                                                    s \in {x \in v2[ns] : x.by = kind}}
    BY <1>4
  <2>2. PICK s \in v2[ns] : s.by = kind /\ pair \in {ns} \X Gra!Owners(ns, Gra!Mentions(s.key))
    BY <2>1
  <2>3. pair = <<ns, pair[2]>> /\ pair[2] \in Gra!Owners(ns, Gra!Mentions(s.key)) /\ pair[1] = ns
    BY <2>2
  <2> QED
    BY <1>3, <2>2, <2>3, OwnersAreThere
<1>5. \A pair \in DOMAIN new : new[pair] \in [kind : Gra!Kinds, flows : {0}, bytes : {0}]
  BY <1>3, EdgeIs
<1>6. DOMAIN new = found(v6.shown \ lost) /\ v6' = Gra!WithEdges(new)
  BY <1>1
<1> HIDE DEF found, new
<1>7. Finds(new)
  BY <1>2, <1>3, <1>4, <1>5, <1>6 DEF Finds, Searching
<1> QED
  BY <1>7, EdgesFound

LEMMA EndpointsFound == ASSUME Gra!GraphInv, Gra!FindEndpoints PROVE Gra!GraphInv'
<1> DEFINE found(listed) == UNION {{ns} \X {s.to : s \in {x \in v2[ns] : x.by = "endpoint"}}
                                    : ns \in listed}
           kept(listed) == {p \in found(listed) : p[1] # p[2] /\ p[2] \in v6.shown}
<1>1. PICK lost \in SUBSET v6.shown :
        /\ v7' = v7 + Gra!Cardinality(lost)
        /\ v6' = Gra!WithEdges([pair \in kept(v6.shown \ lost) |-> Gra!Edge("endpoint")])
  BY DEF Gra!FindEndpoints, Gra!Answers
<1> DEFINE new == [pair \in kept(v6.shown \ lost) |-> Gra!Edge("endpoint")]
<1>2. v7' \in Nat /\ (v7' = 0 => v7 = 0)
  BY <1>1, ListsCount
<1>3. v5 = "endpoint" /\ v5' = "upstream" /\ UNCHANGED <<v1, v2, v3, v4, v8, v9, v10, v11>>
  BY DEF Gra!FindEndpoints, Gra!Goes, Gra!cluster, Gra!ghosts
<1>4. ASSUME NEW pair \in kept(v6.shown \ lost) PROVE Gra!Found(pair) /\ pair[1] # pair[2]
  <2>1. PICK ns \in v6.shown : pair \in {ns} \X {s.to : s \in {x \in v2[ns] : x.by = "endpoint"}}
    BY <1>4
  <2>2. PICK s \in v2[ns] : s.by = "endpoint" /\ pair = <<ns, s.to>>
    BY <2>1
  <2>3. ns \in Spaces /\ s \in v9.says[ns] /\ s.to \in v6.shown /\ pair[1] # pair[2]
    BY <1>4, <2>2 DEF Gra!GraphInv, Gra!HistoryInv, Gra!ShapeInv, Gra!TypeOK
  <2>4. pair \in Gra!Refers(ns, s, v9.services)
    BY <2>2 DEF Gra!Refers
  <2>5. pair \in Gra!Told(v9.says, v9.services)
    BY <2>3, <2>4, ToldIs
  <2> QED
    BY <2>2, <2>3, <2>5 DEF Gra!Found
<1>5. \A pair \in DOMAIN new : new[pair] \in [kind : Gra!Kinds, flows : {0}, bytes : {0}]
  BY EdgeIs
<1>6. DOMAIN new = kept(v6.shown \ lost) /\ v6' = Gra!WithEdges(new)
  BY <1>1
<1> HIDE DEF found, kept, new
<1>7. Finds(new)
  BY <1>2, <1>3, <1>4, <1>5, <1>6 DEF Finds, Searching
<1> QED
  BY <1>7, EdgesFound

\* From outside, or to the outside.
LEMMA OutsideFound ==
  ASSUME Gra!GraphInv, NEW pair,
         pair \in {"external"} \X v6.shown \/ pair \in v6.shown \X {"external"}
  PROVE  Gra!Found(pair) /\ pair[1] # pair[2]
<1>1. "external" \notin v6.shown
  BY SpacesAre DEF Gra!GraphInv, Gra!ShapeInv, Gra!TypeOK
<1> QED
  BY <1>1 DEF Gra!Found, Gra!External

LEMMA ExposedFound == ASSUME Gra!GraphInv, Gra!FindExposed PROVE Gra!GraphInv'
<1> DEFINE found(listed) == {"external"} \X {ns \in listed : v3[ns] = "exposed"}
<1>1. PICK lost \in SUBSET v6.shown :
        /\ v7' = v7 + Gra!Cardinality(lost)
        /\ v6' = Gra!WithEdges([pair \in found(v6.shown \ lost) |-> Gra!Edge("ingress")])
  BY DEF Gra!FindExposed, Gra!Answers, Gra!External
<1> DEFINE new == [pair \in found(v6.shown \ lost) |-> Gra!Edge("ingress")]
<1>2. v7' \in Nat /\ (v7' = 0 => v7 = 0)
  BY <1>1, ListsCount
<1>3. v5 = "exposed" /\ v5' = "ingress" /\ UNCHANGED <<v1, v2, v3, v4, v8, v9, v10, v11>>
  BY DEF Gra!FindExposed, Gra!Goes, Gra!cluster, Gra!ghosts
<1>4. \A pair \in found(v6.shown \ lost) : pair \in {"external"} \X v6.shown
  OBVIOUS
<1>5. \A pair \in DOMAIN new : new[pair] \in [kind : Gra!Kinds, flows : {0}, bytes : {0}]
  BY EdgeIs
<1>6. DOMAIN new = found(v6.shown \ lost) /\ v6' = Gra!WithEdges(new)
  BY <1>1
<1> HIDE DEF found, new
<1>7. Finds(new)
  BY <1>2, <1>3, <1>4, <1>5, <1>6, OutsideFound DEF Finds, Searching
<1> QED
  BY <1>7, EdgesFound

LEMMA IngressesFound == ASSUME Gra!GraphInv, Gra!FindIngresses PROVE Gra!GraphInv'
<1> DEFINE back(ns) == {s \in v2[ns] : s.by = "ingress-backend"}
           inward(listed) == {"external"} \X {ns \in listed : back(ns) # {}}
           behind(listed) == UNION {{ns} \X UNION {Gra!Owners(ns, {<<s.key[1]>>}) : s \in back(ns)}
                                    : ns \in listed}
           edges(listed) == [pair \in inward(listed) \cup behind(listed) |->
             Gra!Edge(IF pair \in inward(listed) THEN "ingress" ELSE "ingress-backend")]
<1>1. PICK lost \in SUBSET v6.shown :
        v7' = v7 + Gra!Cardinality(lost) /\ v6' = Gra!WithEdges(edges(v6.shown \ lost))
  BY DEF Gra!FindIngresses, Gra!Answers, Gra!External
<1> DEFINE new == edges(v6.shown \ lost)
<1>2. v7' \in Nat /\ (v7' = 0 => v7 = 0)
  BY <1>1, ListsCount
<1>3. v5 = "ingress" /\ v5' = "policies" /\ UNCHANGED <<v1, v2, v3, v4, v8, v9, v10, v11>>
  BY DEF Gra!FindIngresses, Gra!Goes, Gra!cluster, Gra!ghosts
<1>4. ASSUME NEW pair \in DOMAIN new PROVE Gra!Found(pair) /\ pair[1] # pair[2]
  <2>1. CASE pair \in inward(v6.shown \ lost)
    <3>1. pair \in {"external"} \X v6.shown
      BY <2>1
    <3> QED
      BY <3>1, OutsideFound
  <2>2. CASE pair \in behind(v6.shown \ lost)
    <3>1. PICK ns \in v6.shown : pair \in {ns} \X UNION {Gra!Owners(ns, {<<s.key[1]>>}) : s \in back(ns)}
      BY <2>2
    <3>2. PICK s \in v2[ns] : s.by = "ingress-backend" /\ pair \in {ns} \X Gra!Owners(ns, {<<s.key[1]>>})
      BY <3>1
    <3>3. pair = <<ns, pair[2]>> /\ pair[2] \in Gra!Owners(ns, {<<s.key[1]>>}) /\ pair[1] = ns
      BY <3>2
    <3>4. {<<s.key[1]>>} \subseteq Gra!Mentions(s.key)
      BY DEF Gra!Mentions
    <3> QED
      BY <3>2, <3>3, <3>4, OwnersAreThere
  <2> QED
    BY <2>1, <2>2
<1>5. \A pair \in DOMAIN new : new[pair] \in [kind : Gra!Kinds, flows : {0}, bytes : {0}]
  BY EdgeIs
<1>6. v6' = Gra!WithEdges(new)
  BY <1>1
<1> HIDE DEF new
<1>7. Finds(new)
  BY <1>2, <1>3, <1>4, <1>5, <1>6 DEF Finds, Searching
<1> QED
  BY <1>7, EdgesFound

LEMMA PoliciesFound == ASSUME Gra!GraphInv, Gra!FindPolicies PROVE Gra!GraphInv'
<1> DEFINE free(listed) == (v6.shown \ {ns \in listed : v3[ns] = "blocked"}) \X {"external"}
<1>1. PICK lost \in SUBSET v6.shown :
        /\ v7' = v7 + Gra!Cardinality(lost)
        /\ v6' = Gra!WithEdges([pair \in free(v6.shown \ lost) |-> Gra!Edge("egress")])
  BY DEF Gra!FindPolicies, Gra!Answers, Gra!External
<1> DEFINE new == [pair \in free(v6.shown \ lost) |-> Gra!Edge("egress")]
<1>2. v7' \in Nat /\ (v7' = 0 => v7 = 0)
  BY <1>1, ListsCount
<1>3. v5 = "policies" /\ v5' \in {"pods", "done"} /\ UNCHANGED <<v1, v2, v3, v4, v8, v9, v10, v11>>
  BY DEF Gra!FindPolicies, Gra!Goes, Gra!cluster, Gra!ghosts
<1>4. \A pair \in free(v6.shown \ lost) : pair \in v6.shown \X {"external"}
  OBVIOUS
<1>5. \A pair \in DOMAIN new : new[pair] \in [kind : Gra!Kinds, flows : {0}, bytes : {0}]
  BY EdgeIs
<1>6. \A ns \in v6.shown \ v10 : <<ns, "external">> \in free(v6.shown \ lost)
  <2>1. {ns \in Spaces : v3[ns] = "blocked"} \subseteq v10 /\ v6.shown \subseteq Spaces
    BY <1>3 DEF Gra!GraphInv, Gra!HistoryInv, Gra!ShapeInv, Gra!TypeOK
  <2> QED
    BY <2>1
<1>7. DOMAIN new = free(v6.shown \ lost) /\ v6' = Gra!WithEdges(new)
  BY <1>1
<1> HIDE DEF free, new
<1>8. Finds(new)
  BY <1>2, <1>3, <1>4, <1>5, <1>6, <1>7, OutsideFound DEF Finds, Searching
<1> QED
  BY <1>8, EdgesFound

\* What the parts of the graph are.
LEMMA GraphIs ==
  ASSUME Gra!GraphInv
  PROVE  /\ DOMAIN v6 = {"shown", "measured", "owners", "edges", "pods"} /\ v6.shown \subseteq Spaces
         /\ v6.pods \in [PodAddresses -> Spaces \cup {Unknown}] /\ v4 \in [PodAddresses -> Spaces \cup {Unknown}]
         /\ IsFiniteSet(DOMAIN v6.edges) /\ v7 \in Nat
         /\ \A pair \in DOMAIN v6.edges :
              /\ v6.edges[pair] \in [kind : Gra!Kinds, flows : Nat, bytes : Nat]
              /\ pair[1] # pair[2] /\ pair[1] \notin {"lan", "node"} /\ pair[2] # "host"
         /\ Gra!Pairs = DOMAIN v6.edges /\ Gra!Pairs' = DOMAIN v6'.edges
  BY GraFinite DEF Gra!GraphInv, Gra!ShapeInv, Gra!TypeOK, Gra!Pairs, Gra!EdgesInv

\* Nothing was measured yet.
LEMMA NotMeasured ==
  ASSUME Gra!GraphInv, v5 \notin {"bytes", "done"}
  PROVE  /\ v8 = Gra!NoReading
         /\ \A pair \in DOMAIN v6.edges : v6.edges[pair].flows = 0 /\ v6.edges[pair].bytes = 0
  BY DEF Gra!GraphInv, Gra!MeasuresInv, Gra!Measuring, Gra!Pairs

LEMMA GraphBegun ==
  ASSUME Gra!GraphInv, NEW answering \in BOOLEAN, Gra!Begin(answering) PROVE Gra!GraphInv'
<1>1. PICK shown \in SUBSET Spaces : v6' = [v6 EXCEPT !.shown = shown, !.measured = answering]
  BY DEF Gra!Begin
<1>2. /\ v5 = "idle" /\ v5' = "services" /\ v9' = [says |-> v2, services |-> v1]
      /\ v10' = {ns \in Spaces : v3[ns] = "blocked"} /\ UNCHANGED <<v1, v2, v3, v4, v7, v8>>
  BY DEF Gra!Begin, Gra!Goes, Gra!cluster
<1>3. DOMAIN v6.edges = {} /\ v6.owners = {}
  BY <1>2 DEF Gra!GraphInv, Gra!HistoryInv, Gra!Pairs
<1>4. /\ v6'.edges = v6.edges /\ v6'.owners = v6.owners /\ v6'.pods = v6.pods
      /\ v6'.shown \subseteq Spaces /\ DOMAIN v6' = DOMAIN v6
  BY <1>1, GraphIs
<1>5. Gra!Pairs' = {} /\ Gra!Pairs = {}
  BY <1>3, <1>4 DEF Gra!Pairs
<1>6. Gra!ShapeInv'
  BY <1>2, <1>4, <1>5 DEF Gra!GraphInv, Gra!ShapeInv, Gra!TypeOK
<1>7. Gra!HistoryInv'
  BY <1>2, <1>3, <1>4, <1>5 DEF Gra!HistoryInv, Gra!Measuring
<1>8. Gra!EdgesInv'
  BY <1>5 DEF Gra!EdgesInv
<1>9. Gra!MeasuresInv'
  BY <1>2, <1>5, NotMeasured DEF Gra!MeasuresInv, Gra!Measuring
<1> QED
  BY <1>6, <1>7, <1>8, <1>9 DEF Gra!GraphInv

LEMMA ServicesMapped == ASSUME Gra!GraphInv, Gra!MapServices PROVE Gra!GraphInv'
<1> DEFINE named(listed) == {x \in ServiceNames \X listed : x[1] \in v1[x[2]]}
           owners(listed, last) == {<<k, k[2]>> : k \in named(listed)}
                                   \cup {<< <<n>>, last[n]>> : n \in {x \in ServiceNames : last[x] # Unknown}}
<1>1. PICK lost \in SUBSET v6.shown :
        /\ v7' = v7 + Gra!Cardinality(lost)
        /\ \E last \in [ServiceNames -> Spaces \cup {Unknown}] :
             /\ \A n \in ServiceNames :
                  LET with == {ns \in v6.shown \ lost : n \in v1[ns]}
                  IN IF with = {} THEN last[n] = Unknown ELSE last[n] \in with
             /\ v6' = [v6 EXCEPT !.owners = owners(v6.shown \ lost, last)]
  BY DEF Gra!MapServices, Gra!Answers
<1>2. PICK last \in [ServiceNames -> Spaces \cup {Unknown}] :
        /\ \A n \in ServiceNames : last[n] # Unknown => last[n] \in v6.shown /\ n \in v1[last[n]]
        /\ v6' = [v6 EXCEPT !.owners = owners(v6.shown \ lost, last)]
  BY <1>1
<1>3. v7' \in Nat /\ (v7' = 0 => v7 = 0)
  BY <1>1, ListsCount
<1>4. v5 = "services" /\ v5' = "config" /\ UNCHANGED <<v1, v2, v3, v4, v8, v9, v10, v11>>
  BY DEF Gra!MapServices, Gra!Goes, Gra!cluster, Gra!ghosts
<1>5. ASSUME NEW owner \in owners(v6.shown \ lost, last)
      PROVE  owner[2] \in v6.shown /\ owner[1][1] \in v1[owner[2]]
  BY <1>2
<1> HIDE DEF owners
<1>6. /\ v6'.edges = v6.edges /\ v6'.shown = v6.shown /\ v6'.pods = v6.pods
      /\ v6'.owners = owners(v6.shown \ lost, last) /\ DOMAIN v6' = DOMAIN v6
  BY <1>2, GraphIs
<1>7. Gra!ShapeInv'
  BY <1>3, <1>4, <1>6 DEF Gra!GraphInv, Gra!ShapeInv, Gra!TypeOK, Gra!Pairs
<1>8. Gra!HistoryInv'
  BY <1>4, <1>5, <1>6, GraphIs DEF Gra!GraphInv, Gra!HistoryInv, Gra!Measuring
<1>9. Gra!EdgesInv'
  BY <1>4, <1>6 DEF Gra!GraphInv, Gra!EdgesInv, Gra!Pairs, Gra!Found
<1>10. Gra!MeasuresInv'
  BY <1>4, <1>6, NotMeasured DEF Gra!MeasuresInv, Gra!Measuring, Gra!Pairs
<1> QED
  BY <1>7, <1>8, <1>9, <1>10 DEF Gra!GraphInv

LEMMA PodsListed == ASSUME Gra!GraphInv, Gra!ListPods PROVE Gra!GraphInv'
<1> DEFINE pods(listed) == [a \in PodAddresses |-> IF v4[a] \in listed THEN v4[a] ELSE Unknown]
<1>1. PICK lost \in SUBSET v6.shown :
        v7' = v7 + Gra!Cardinality(lost) /\ v6' = [v6 EXCEPT !.pods = pods(v6.shown \ lost)]
  BY DEF Gra!ListPods, Gra!Answers
<1>2. v7' \in Nat /\ (v7' = 0 => v7 = 0 /\ lost = {})
  BY <1>1, ListsCount
<1>3. v5 = "pods" /\ v5' = "observed" /\ UNCHANGED <<v1, v2, v3, v4, v8, v9, v10, v11>>
  BY DEF Gra!ListPods, Gra!Goes, Gra!cluster, Gra!ghosts
<1>4. pods(v6.shown \ lost) \in [PodAddresses -> Spaces \cup {Unknown}]
  BY GraphIs
<1>5. v7' = 0 => \A a \in PodAddresses :
        pods(v6.shown \ lost)[a] = IF v4[a] \in v6.shown THEN v4[a] ELSE Unknown
  BY <1>2
<1> HIDE DEF pods
<1>6. /\ v6'.edges = v6.edges /\ v6'.shown = v6.shown /\ v6'.owners = v6.owners
      /\ v6'.pods = pods(v6.shown \ lost) /\ DOMAIN v6' = DOMAIN v6
  BY <1>1, GraphIs
<1>7. Gra!ShapeInv'
  BY <1>2, <1>3, <1>4, <1>6 DEF Gra!GraphInv, Gra!ShapeInv, Gra!TypeOK, Gra!Pairs
<1>8. Gra!HistoryInv'
  BY <1>3, <1>6, GraphIs DEF Gra!GraphInv, Gra!HistoryInv
<1>9. Gra!EdgesInv'
  BY <1>3, <1>6 DEF Gra!GraphInv, Gra!EdgesInv, Gra!Pairs, Gra!Found
<1>10. Gra!MeasuresInv'
  BY <1>3, <1>5, <1>6, NotMeasured DEF Gra!MeasuresInv, Gra!Measuring, Gra!Pairs
<1> QED
  BY <1>7, <1>8, <1>9, <1>10 DEF Gra!GraphInv

\* An app, access or a Pod changes while a request is made.
LEMMA ClusterChanges ==
  ASSUME Gra!GraphInv, Gra!ChangeApp \/ Gra!ChangeAccess \/ Gra!ChangePod PROVE Gra!GraphInv'
<1>1. /\ v5 # "done" /\ UNCHANGED <<v5, v6, v8>> /\ v7' = v7 + 1 /\ v7 \in Nat
  BY DEF Gra!ChangeApp, Gra!ChangeAccess, Gra!ChangePod, Gra!Upset, Gra!GraphInv, Gra!ShapeInv
<1>2. v7' \in Nat /\ v7' # 0
  BY <1>1
<1>3. /\ v1' \in [Spaces -> SUBSET ServiceNames] /\ v2' \in [Spaces -> SUBSET Gra!Sayings]
      /\ v4' \in [PodAddresses -> Spaces \cup {Unknown}]
  <2>1. /\ v1 \in [Spaces -> SUBSET ServiceNames] /\ v2 \in [Spaces -> SUBSET Gra!Sayings]
        /\ v4 \in [PodAddresses -> Spaces \cup {Unknown}]
    BY DEF Gra!GraphInv, Gra!ShapeInv, Gra!TypeOK
  <2>2. CASE Gra!ChangeApp
    BY <2>1, <2>2 DEF Gra!ChangeApp
  <2>3. CASE Gra!ChangeAccess
    BY <2>1, <2>3 DEF Gra!ChangeAccess
  <2>4. CASE Gra!ChangePod
    BY <2>1, <2>4 DEF Gra!ChangePod
  <2> QED
    BY <2>2, <2>3, <2>4
<1>4. /\ \A ns \in Spaces : v2'[ns] \subseteq v9'.says[ns] /\ v1'[ns] \subseteq v9'.services[ns]
      /\ \A ns \in Spaces : v9.says[ns] \subseteq v9'.says[ns] /\ v9.services[ns] \subseteq v9'.services[ns]
      /\ v10 \subseteq v10' /\ (v5 # "idle" => {ns \in Spaces : v3'[ns] = "blocked"} \subseteq v10')
  <2>1. /\ \A ns \in Spaces : v2[ns] \subseteq v9.says[ns] /\ v1[ns] \subseteq v9.services[ns]
        /\ v5 # "idle" => {ns \in Spaces : v3[ns] = "blocked"} \subseteq v10
    BY DEF Gra!GraphInv, Gra!HistoryInv
  <2>2. CASE Gra!ChangeApp
    BY <2>1, <2>2 DEF Gra!ChangeApp
  <2>3. CASE Gra!ChangeAccess
    BY <2>1, <2>3 DEF Gra!ChangeAccess
  <2>4. CASE Gra!ChangePod
    BY <2>1, <2>4 DEF Gra!ChangePod
  <2> QED
    BY <2>2, <2>3, <2>4
<1>5. Gra!ShapeInv'
  BY <1>1, <1>2, <1>3 DEF Gra!GraphInv, Gra!ShapeInv, Gra!TypeOK, Gra!Pairs
<1>6. Gra!HistoryInv'
  <2>1. v6.shown \subseteq Spaces
    BY GraphIs
  <2> QED
    BY <1>1, <1>4, <2>1 DEF Gra!GraphInv, Gra!HistoryInv, Gra!Pairs
<1>7. Gra!EdgesInv'
  <2>1. ASSUME NEW pair, Gra!Found(pair) PROVE Gra!Found(pair)'
    <3>1. ASSUME pair \in Gra!Told(v9.says, v9.services) PROVE pair \in Gra!Told(v9'.says, v9'.services)
      <4>1. PICK ns \in Spaces : \E s \in v9.says[ns] : pair \in Gra!Refers(ns, s, v9.services)
        BY <3>1 DEF Gra!Told
      <4>2. PICK s \in v9.says[ns] : pair \in Gra!Refers(ns, s, v9.services)
        BY <4>1
      <4>3. pair \in Gra!Refers(ns, s, v9'.services) /\ s \in v9'.says[ns]
        BY <1>4, <4>2 DEF Gra!Refers
      <4> QED
        BY <4>3, ToldIs
    <3> QED
      BY <1>1, <2>1, <3>1 DEF Gra!Found
  <2> QED
    BY <1>1, <2>1 DEF Gra!GraphInv, Gra!EdgesInv, Gra!Pairs
<1>8. Gra!MeasuresInv'
  BY <1>1, <1>2 DEF Gra!GraphInv, Gra!MeasuresInv, Gra!Pairs
<1> QED
  BY <1>5, <1>6, <1>7, <1>8 DEF Gra!GraphInv

\* The rows of what was read, by pairs.
CountedRows(r) == {row \in r.flows : Gra!Counted(row)}
OnPair(r, pair) == {row \in CountedRows(r) : Gra!FlowPair(row) = pair}
AcrossRows(r) == {row \in CountedRows(r) : Gra!FlowPair(row)[1] # Gra!FlowPair(row)[2]}
PairsOf(r) == {Gra!FlowPair(row) : row \in CountedRows(r)}

LEMMA PairsMeasured ==
  ASSUME NEW r \in Measured
  PROVE  /\ IsFiniteSet(PairsOf(r)) /\ IsFiniteSet(CountedRows(r))
         /\ \A row \in CountedRows(r) : row.rate \in Nat
         /\ \A pair \in PairsOf(r) : pair[1] \notin {"lan", "node"} /\ pair[2] # "host"
<1>1. ReadingIs(r)
  BY ReadingsAre
<1>2. IsFiniteSet(CountedRows(r)) /\ \A row \in CountedRows(r) : row.rate \in Nat
  BY <1>1, FS_Subset DEF ReadingIs, Answer, CountedRows, Gra!Counted
<1>3. IsFiniteSet(PairsOf(r))
  <2> DEFINE on == [row \in CountedRows(r) |-> Gra!FlowPair(row)]
  <2>1. on \in Surjection(CountedRows(r), PairsOf(r))
    BY DEF Surjection, PairsOf
  <2> QED
    BY <1>2, <2>1, FS_Surjection
<1>4. ASSUME NEW row \in CountedRows(r)
      PROVE  Gra!FlowPair(row)[1] \notin {"lan", "node"} /\ Gra!FlowPair(row)[2] # "host"
  <2>1. row.from \notin {"lan", "node"} /\ row.to # "host"
    BY <1>1 DEF ReadingIs, CountedRows
  <2> QED
    BY <2>1 DEF Gra!FlowPair, Gra!External
<1> QED
  BY <1>2, <1>3, <1>4 DEF PairsOf

\* What is on the edges together is what was counted between two ends.
LEMMA FlowsAdd ==
  ASSUME NEW r \in Measured, NEW P, IsFiniteSet(P), NEW F,
         \A pair \in P : pair[1] # pair[2] /\ F[pair] = Gra!SumOf(OnPair(r, pair)),
         \A pair \in PairsOf(r) : pair[1] # pair[2] => pair \in P
  PROVE  Sum(F, P) = Gra!SumOf(AcrossRows(r)) /\ \A pair \in P : F[pair] \in Nat
<1> DEFINE R == CountedRows(r)
           f == Rates(R)
           C == [pair \in P |-> OnPair(r, pair)]
<1>1. IsFiniteSet(R) /\ \A row \in R : row.rate \in Nat /\ f[row] = row.rate
  BY PairsMeasured DEF Rates
<1> HIDE DEF f
<1>2. ASSUME NEW U \in SUBSET R PROVE Gra!SumOf(U) = Sum(f, U) /\ Sum(f, U) \in Nat /\ Sums(f, U)
  <2>1. IsFiniteSet(U) /\ \A row \in U : f[row] \in Nat
    BY <1>1, FS_Subset
  <2>2. Sum(f, U) \in Nat /\ Sums(f, U)
    BY <2>1, SumNat
  <2>3. \A row \in U : f[row] = Rates(U)[row]
    BY <1>1 DEF Rates
  <2>4. Sum(f, U) = Sum(Rates(U), U)
    BY <2>2, <2>3, SumSame
  <2> QED
    BY <2>2, <2>4, GraSums DEF RowsSum
<1>3. /\ \A pair \in P : C[pair] \subseteq R /\ C[pair] = OnPair(r, pair)
      /\ \A d, e \in P : d # e => C[d] \cap C[e] = {}
  BY DEF OnPair
<1>4. UNION {C[pair] : pair \in P} = AcrossRows(r) /\ AcrossRows(r) \in SUBSET R /\ R \in SUBSET R
  <2>1. ASSUME NEW row \in AcrossRows(r) PROVE row \in UNION {C[pair] : pair \in P}
    <3>1. Gra!FlowPair(row) \in PairsOf(r) /\ Gra!FlowPair(row)[1] # Gra!FlowPair(row)[2] /\ row \in R
      BY DEF AcrossRows, PairsOf
    <3>2. Gra!FlowPair(row) \in P
      BY <3>1
    <3>3. row \in C[Gra!FlowPair(row)]
      BY <3>1, <3>2 DEF OnPair
    <3> HIDE DEF C
    <3> QED
      BY <3>2, <3>3
  <2>2. \A pair \in P : C[pair] \subseteq AcrossRows(r)
    BY DEF OnPair, AcrossRows
  <2>3. AcrossRows(r) \in SUBSET R /\ R \in SUBSET R
    BY DEF AcrossRows
  <2> HIDE DEF C
  <2> QED
    BY <2>1, <2>2, <2>3
<1> HIDE DEF R, C
<1>5. \A pair \in P : F[pair] = Sum(f, C[pair]) /\ F[pair] \in Nat
  BY <1>2, <1>3
<1>6. Sum(F, P) = Sum(f, UNION {C[pair] : pair \in P})
  <2>1. Sums(f, R)
    BY <1>2, <1>4
  <2> QED
    BY <1>3, <1>5, <2>1, SumOfSums
<1> QED
  BY <1>2, <1>4, <1>5, <1>6

LEMMA FlowsMerged == ASSUME Gra!GraphInv, Gra!MergeObservedEdges PROVE Gra!GraphInv'
<1> DEFINE P == DOMAIN v6.edges
           r == v8'
           pairs == P \cup {pair \in PairsOf(r) : pair[1] # pair[2]}
           was(pair) == IF pair \in P THEN v6.edges[pair] ELSE Gra!Edge("observed")
           all == [pair \in pairs |-> [was(pair) EXCEPT !.flows = @ + Gra!SumOf(OnPair(r, pair))]]
<1>1. /\ v8' \in Measured /\ v5 = "observed" /\ v5' = "bytes"
      /\ UNCHANGED <<v1, v2, v3, v4, v7, v9, v10, v11>>
  BY DEF Gra!MergeObservedEdges, Gra!Goes, Gra!cluster
<1>2. v6' = [v6 EXCEPT !.edges = all]
  BY DEF Gra!MergeObservedEdges, Gra!Pairs, CountedRows, OnPair, PairsOf
<1>3. \A pair \in pairs : /\ was(pair) \in [kind : Gra!Kinds, flows : Nat, bytes : Nat]
                          /\ was(pair).flows = 0 /\ pair[1] # pair[2]
                          /\ pair[1] \notin {"lan", "node"} /\ pair[2] # "host"
                          /\ pair \notin P => was(pair).kind = "observed"
  <2>1. Gra!Edge("observed") \in [kind : Gra!Kinds, flows : {0}, bytes : {0}] /\ Gra!Edge("observed").kind = "observed"
    BY DEF Gra!Edge, Gra!Kinds
  <2>2. \A pair \in P : v6.edges[pair].flows = 0
    BY <1>1, NotMeasured
  <2> QED
    BY <1>1, <2>1, <2>2, GraphIs, PairsMeasured
<1>4. DOMAIN all = pairs /\ \A pair \in pairs : all[pair] = [was(pair) EXCEPT !.flows = @ + Gra!SumOf(OnPair(r, pair))]
  OBVIOUS
<1>5. /\ P \subseteq pairs /\ IsFiniteSet(pairs) /\ \A pair \in P : was(pair) = v6.edges[pair]
      /\ \A pair \in PairsOf(r) : pair[1] # pair[2] => pair \in pairs
  <2>1. IsFiniteSet({pair \in PairsOf(r) : pair[1] # pair[2]})
    BY <1>1, PairsMeasured, FS_Subset
  <2> QED
    BY <2>1, GraphIs, FS_Union
<1> HIDE DEF was, all, pairs, r
<1> DEFINE F == [pair \in pairs |-> Gra!SumOf(OnPair(r, pair))]
<1>6. Sum(F, pairs) = Gra!SumOf(AcrossRows(r)) /\ \A pair \in pairs : F[pair] \in Nat
  <2>1. r \in Measured
    BY <1>1 DEF r
  <2>2. \A pair \in pairs : pair[1] # pair[2] /\ F[pair] = Gra!SumOf(OnPair(r, pair))
    BY <1>3
  <2> HIDE DEF F
  <2> QED
    BY <1>5, <2>1, <2>2, FlowsAdd
<1>7. ASSUME NEW pair \in pairs
      PROVE  /\ all[pair] \in [kind : Gra!Kinds, flows : Nat, bytes : Nat]
             /\ all[pair].flows = F[pair] /\ all[pair].kind = was(pair).kind
  <2>1. F[pair] = Gra!SumOf(OnPair(r, pair)) /\ F[pair] \in Nat
    BY <1>6
  <2> QED
    BY <1>3, <1>4, <2>1
<1>8. [pair \in pairs |-> all[pair].flows] = F /\ DOMAIN F = pairs
  BY <1>7
<1>9. Gra!SumFunction([pair \in pairs |-> all[pair].flows]) = Gra!SumOf(AcrossRows(r))
  BY <1>6, <1>8, GraSums, Zenon
<1> HIDE DEF F
<1>10. /\ v6'.edges = all /\ v6'.shown = v6.shown /\ v6'.owners = v6.owners /\ v6'.pods = v6.pods
       /\ DOMAIN v6' = DOMAIN v6
  BY <1>2, GraphIs
<1>11. Gra!Pairs' = pairs /\ Gra!Pairs = P
  BY <1>4, <1>10 DEF Gra!Pairs
<1> HIDE DEF P
<1>12. Gra!ShapeInv'
  BY <1>1, <1>5, <1>7, <1>10, <1>11, GraFinite DEF Gra!GraphInv, Gra!ShapeInv, Gra!TypeOK, Gra!Measuring
<1>13. Gra!HistoryInv'
  BY <1>1, <1>5, <1>10, <1>11 DEF Gra!GraphInv, Gra!HistoryInv, Gra!Measuring
<1>14. Gra!EdgesInv'
  <2>1. \A pair : Gra!Found(pair)' <=> Gra!Found(pair)
    BY <1>1, <1>10 DEF Gra!Found
  <2>2. \A pair \in pairs : all[pair].kind # "observed" => Gra!Found(pair)
    BY <1>3, <1>5, <1>7, <1>11 DEF Gra!GraphInv, Gra!EdgesInv
  <2> QED
    BY <1>3, <1>10, <1>11, <2>1, <2>2 DEF Gra!EdgesInv
<1>15. Gra!MeasuresInv'
  <2>1. AcrossRows(r) = {row \in v8'.flows : Gra!Counted(row) /\ Gra!FlowPair(row)[1] # Gra!FlowPair(row)[2]}
    BY DEF AcrossRows, CountedRows, r
  <2>2. v7 = 0 => \A a \in PodAddresses :
          v6.pods[a] = IF v4[a] \in v6.shown THEN v4[a] ELSE Unknown
    BY <1>1 DEF Gra!GraphInv, Gra!MeasuresInv
  <2> QED
    BY <1>1, <1>9, <1>10, <1>11, <2>1, <2>2 DEF Gra!MeasuresInv, Gra!Measuring
<1> QED
  BY <1>12, <1>13, <1>14, <1>15 DEF Gra!GraphInv

\* Between two apps that are shown the Pods listed say what the addresses' holders do.
PodsAre(pods, has, shown) ==
  \A a \in PodAddresses : pods[a] = IF has[a] \in shown THEN has[a] ELSE Unknown

SameBytes(r, pods, has, shown) ==
  \A a, b \in shown : Gra!Between(r.bytes, pods, a, b) = Gra!Between(r.bytes, has, a, b)

LEMMA SameBetween ==
  ASSUME NEW r, ReadingIs(r), NEW shown, shown \subseteq Spaces, NEW pods, NEW has,
         PodsAre(pods, has, shown)
  PROVE  SameBytes(r, pods, has, shown)
<1> SUFFICES ASSUME NEW a \in shown, NEW b \in shown
             PROVE  Gra!Between(r.bytes, pods, a, b) = Gra!Between(r.bytes, has, a, b)
  BY DEF SameBytes
<1>1. ASSUME NEW name \in Addresses, NEW c \in shown PROVE Gra!End(name, pods) = c <=> Gra!End(name, has) = c
  BY SpacesAre DEF Gra!End, Addresses, Gra!External, PodsAre
<1>2. \A row \in r.bytes : Gra!BytePair(row, pods) = <<a, b>> <=> Gra!BytePair(row, has) = <<a, b>>
  <2> TAKE row \in r.bytes
  <2>1. row.from \in Addresses /\ row.to \in Addresses
    BY DEF ReadingIs
  <2>2. /\ Gra!End(row.from, pods) = a <=> Gra!End(row.from, has) = a
        /\ Gra!End(row.to, pods) = b <=> Gra!End(row.to, has) = b
    BY <1>1, <2>1
  <2> QED
    BY <2>2 DEF Gra!BytePair
<1>3. {row \in r.bytes : row.rate # Unknown /\ Gra!BytePair(row, pods) = <<a, b>>}
        = {row \in r.bytes : row.rate # Unknown /\ Gra!BytePair(row, has) = <<a, b>>}
  BY <1>2
<1> QED
  BY <1>3, Zenon DEF Gra!Between

LEMMA BetweenIsNumber ==
  ASSUME NEW r, ReadingIs(r), NEW pods, NEW a, NEW b PROVE Gra!Between(r.bytes, pods, a, b) \in Nat
<1> DEFINE U == {row \in r.bytes : row.rate # Unknown /\ Gra!BytePair(row, pods) = <<a, b>>}
<1>1. IsFiniteSet(U) /\ \A row \in U : row.rate \in Nat
  BY FS_Subset DEF ReadingIs, Answer
<1> HIDE DEF U
<1>2. Gra!SumOf(U) \in Nat
  BY <1>1, RowsAdd, GraSums
<1> QED
  BY <1>2 DEF U, Gra!Between

LEMMA BytesMerged == ASSUME Gra!GraphInv, Gra!MergeEdgeBytes PROVE Gra!GraphInv'
<1> DEFINE P == DOMAIN v6.edges
           both(pods, pair) == Gra!Between(v8.bytes, pods, pair[1], pair[2])
                               + Gra!Between(v8.bytes, pods, pair[2], pair[1])
           all == [pair \in P |-> [v6.edges[pair] EXCEPT !.bytes = both(v6.pods, pair)]]
<1>1. /\ v5 = "bytes" /\ v5' = "done" /\ UNCHANGED <<v1, v2, v3, v4, v7, v8, v9, v10, v11>>
      /\ v6' = [v6 EXCEPT !.edges = all]
  BY DEF Gra!MergeEdgeBytes, Gra!Goes, Gra!cluster, Gra!ghosts, Gra!Pairs
<1>2. ReadingIs(v8)
  BY ReadingsAre DEF Gra!GraphInv, Gra!MeasuresInv
<1>3. \A pods, pair : both(pods, pair) \in Nat
  <2> TAKE pods, pair
  <2>1. Gra!Between(v8.bytes, pods, pair[1], pair[2]) \in Nat /\ Gra!Between(v8.bytes, pods, pair[2], pair[1]) \in Nat
    BY <1>2, BetweenIsNumber
  <2> QED
    BY <2>1
<1>4. ASSUME v7 = 0, NEW pair, {pair[1], pair[2]} \subseteq v6.shown PROVE both(v6.pods, pair) = both(v4, pair)
  <2>1. PodsAre(v6.pods, v4, v6.shown)
    BY <1>1, <1>4 DEF Gra!GraphInv, Gra!MeasuresInv, PodsAre
  <2>2. pair[1] \in v6.shown /\ pair[2] \in v6.shown /\ v6.shown \in SUBSET Spaces
    BY <1>4, GraphIs
  <2>3. \A a, b \in v6.shown : Gra!Between(v8.bytes, v6.pods, a, b) = Gra!Between(v8.bytes, v4, a, b)
    <3>1. v6.shown \subseteq Spaces
      BY <2>2
    <3>2. SameBytes(v8, v6.pods, v4, v6.shown)
      BY <1>2, <2>1, <3>1, SameBetween
    <3> QED
      BY <3>2 DEF SameBytes
  <2> QED
    BY <2>2, <2>3
<1> HIDE DEF both
<1>5. \A pair \in P : /\ all[pair] \in [kind : Gra!Kinds, flows : Nat, bytes : Nat]
                      /\ all[pair].kind = v6.edges[pair].kind /\ all[pair].flows = v6.edges[pair].flows
                      /\ all[pair].bytes = both(v6.pods, pair)
  BY <1>3, GraphIs
<1>6. DOMAIN all = P
  OBVIOUS
<1> HIDE DEF all
<1>7. /\ v6'.edges = all /\ v6'.shown = v6.shown /\ v6'.owners = v6.owners /\ v6'.pods = v6.pods
      /\ DOMAIN v6' = DOMAIN v6
  BY <1>1, GraphIs
<1>8. Gra!Pairs' = P /\ Gra!Pairs = P
  BY <1>6, <1>7 DEF Gra!Pairs
<1>9. [pair \in P |-> all[pair].flows] = [pair \in P |-> v6.edges[pair].flows]
  BY <1>5
<1> HIDE DEF P
<1>10. Gra!ShapeInv'
  BY <1>1, <1>5, <1>7, <1>8 DEF Gra!GraphInv, Gra!ShapeInv, Gra!TypeOK, Gra!Measuring
<1>11. Gra!HistoryInv'
  BY <1>1, <1>7, <1>8 DEF Gra!GraphInv, Gra!HistoryInv, Gra!Measuring
<1>12. Gra!EdgesInv'
  BY <1>1, <1>5, <1>7, <1>8 DEF Gra!GraphInv, Gra!EdgesInv, Gra!Found
<1>13. Gra!MeasuresInv'
  <2>1. Gra!SumFunction([pair \in P |-> v6.edges[pair].flows])
          = Gra!SumOf({row \in v8.flows : Gra!Counted(row) /\ Gra!FlowPair(row)[1] # Gra!FlowPair(row)[2]})
    BY <1>1, <1>8, Zenon DEF Gra!GraphInv, Gra!MeasuresInv, Gra!Measuring
  <2>2. v8 \in Measured \cup {Gra!NoReading}
    BY DEF Gra!GraphInv, Gra!MeasuresInv
  <2> QED
    BY <1>1, <1>4, <1>5, <1>7, <1>8, <1>9, <2>1, <2>2 DEF Gra!MeasuresInv, Gra!Measuring, both
<1> QED
  BY <1>10, <1>11, <1>12, <1>13 DEF Gra!GraphInv

LEMMA GraphKept == Gra!GraphInv /\ [Gra!Next]_(Gra!netVars) => Gra!GraphInv'
<1> SUFFICES ASSUME Gra!GraphInv, [Gra!Next]_(Gra!netVars) PROVE Gra!GraphInv'
  OBVIOUS
<1>1. CASE UNCHANGED Gra!netVars
  <2>1. UNCHANGED <<v1, v2, v3, v4, v5, v6, v7, v8, v9, v10>>
    BY <1>1 DEF Gra!netVars
  <2>2. Gra!ShapeInv' /\ Gra!HistoryInv'
    BY <2>1 DEF Gra!GraphInv, Gra!ShapeInv, Gra!TypeOK, Gra!HistoryInv, Gra!Pairs
  <2>3. Gra!EdgesInv' /\ Gra!MeasuresInv'
    BY <2>1 DEF Gra!GraphInv, Gra!EdgesInv, Gra!MeasuresInv, Gra!Pairs, Gra!Found
  <2> QED
    BY <2>2, <2>3 DEF Gra!GraphInv
<1>2. CASE Gra!GetNetworkTopology \/ Gra!Broadcast
  BY <1>2, GraphBegun DEF Gra!GetNetworkTopology, Gra!Broadcast
<1>3. CASE Gra!DiscoverServiceConnections
  <2>1. CASE Gra!FindReferences("config", "endpoint") \/ Gra!FindReferences("upstream", "exposed")
    BY <2>1, ReferencesFound
  <2> QED
    BY <1>3, <2>1, ServicesMapped, EndpointsFound, ExposedFound, IngressesFound, PoliciesFound
      DEF Gra!DiscoverServiceConnections
<1> QED
  BY <1>1, <1>2, <1>3, PodsListed, FlowsMerged, BytesMerged, ClusterChanges DEF Gra!Next

LEMMA GraphTrue == Gra!GraphInv => Gra!GraphIsTrue
<1> SUFFICES ASSUME Gra!GraphInv, v5 = "done" PROVE Gra!GraphIsTrue
  BY DEF Gra!GraphIsTrue
<1>1. ASSUME NEW pair \in Gra!Pairs
      PROVE  /\ pair[1] # pair[2]
             /\ v6.edges[pair].kind # "observed" =>
                  /\ {pair[1], pair[2]} \subseteq v6.shown \cup {"external"}
                  /\ "external" \notin {pair[1], pair[2]} => pair \in Gra!Told(v9.says, v9.services)
             /\ {pair[1], pair[2]} \cap {"lan", "node", "host"} \subseteq Gra!Nodes
             /\ v7 = 0 /\ {pair[1], pair[2]} \subseteq v6.shown =>
                  v6.edges[pair].bytes = Gra!Between(v8.bytes, v4, pair[1], pair[2])
                                         + Gra!Between(v8.bytes, v4, pair[2], pair[1])
  <2>1. pair[1] # pair[2] /\ pair[1] \notin {"lan", "node"} /\ pair[2] # "host"
    BY DEF Gra!GraphInv, Gra!EdgesInv
  <2>2. v6.edges[pair].kind # "observed" => Gra!Found(pair)
    BY DEF Gra!GraphInv, Gra!EdgesInv
  <2>3. Gra!Found(pair) =>
          /\ {pair[1], pair[2]} \subseteq v6.shown \cup {"external"}
          /\ "external" \notin {pair[1], pair[2]} => pair \in Gra!Told(v9.says, v9.services)
    BY DEF Gra!Found, Gra!External
  <2>4. {pair[1], pair[2]} \cap {"lan", "node", "host"} \subseteq Gra!Nodes
    BY <2>1 DEF Gra!Nodes
  <2>5. v7 = 0 /\ {pair[1], pair[2]} \subseteq v6.shown =>
          v6.edges[pair].bytes = Gra!Between(v8.bytes, v4, pair[1], pair[2])
                                 + Gra!Between(v8.bytes, v4, pair[2], pair[1])
    BY DEF Gra!GraphInv, Gra!MeasuresInv
  <2> QED
    BY <2>1, <2>2, <2>3, <2>4, <2>5
<1>2. \A ns \in v6.shown \ v10 : <<ns, "external">> \in Gra!Pairs
  BY DEF Gra!GraphInv, Gra!HistoryInv, Gra!Measuring, Gra!External
<1>3. Gra!SumFunction([pair \in Gra!Pairs |-> v6.edges[pair].flows])
        = Gra!SumOf({row \in v8.flows : Gra!Counted(row) /\ Gra!FlowPair(row)[1] # Gra!FlowPair(row)[2]})
  BY DEF Gra!GraphInv, Gra!MeasuresInv, Gra!Measuring
<1> QED
  BY <1>1, <1>2, <1>3 DEF Gra!GraphIsTrue, Gra!External

-----------------------------------------------------------------------------

\* What is shown of traffic was measured, in every state: rates, the exporter's counters, the
\* graph and the panel. A dump that is read while it is written is left out.
THEOREM TrafficAlwaysReal == ASSUME ~Torn PROVE Spec => []TrafficIsReal
<1> DEFINE IInv == /\ part = "flows" => Flo!FlowInv
                   /\ part = "metrics" => Net!MetricsInv
                   /\ part = "graph" => Gra!GraphInv
                   /\ part = "panel" => Pan!PanelInv
<1>1. Init => IInv
  BY FlowInitially, MetricsInitially, GraphInitially, PanelInitially DEF Init
<1>2. IInv /\ [Next]_vars => IInv'
  <2> SUFFICES ASSUME IInv, [Next]_vars PROVE IInv'
    OBVIOUS
  <2>1. part' = part
    BY PartIsKept
  <2>2. part = "flows" => [Flo!Next]_(Flo!vars)
    BY DEF Next, vars, Flo!vars
  <2>3. part = "metrics" => [Net!Next]_(Net!metricsVars)
    BY DEF Next, vars, Net!metricsVars
  <2>4. part = "graph" => [Gra!Next]_(Gra!netVars)
    BY DEF Next, vars, Gra!netVars
  <2>5. part = "panel" => [Pan!Next]_(Pan!panelVars)
    BY DEF Next, vars, Pan!panelVars
  <2> QED
    BY <2>1, <2>2, <2>3, <2>4, <2>5, FlowKept, MetricsKept, GraphKept, PanelKept
<1>3. IInv => TrafficIsReal
  BY FlowFaithful, GraphTrue, PanelHonest DEF TrafficIsReal, Net!MetricsInv
<1> QED
  BY <1>1, <1>2, <1>3, PTL DEF Spec
=================================================================================
