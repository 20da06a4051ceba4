-------------------------- MODULE FiniteSetLemmas --------------------------
(***************************************************************************)
(* Sums over finite sets, as MapThenSumSet computes them, and the          *)
(* induction over natural numbers they need.  A sum takes its elements in  *)
(* an order nobody knows; the lemmas say that the order does not matter,   *)
(* and how a sum is split, regrouped and compared; and what a number of    *)
(* steps, one after the other, leads to.  Terms are given as a             *)
(* function; a sum whose terms are an operator's is brought into this form *)
(* with SumIsTotal.                                                        *)
(***************************************************************************)
EXTENDS Integers, FiniteSets, FiniteSetsExt, FiniteSetTheorems,
        WellFoundedInduction, TLAPS

-----------------------------------------------------------------------------
(* Induction *)

LessThan == {pair \in Nat \X Nat : pair[1] < pair[2]}

\* A set that holds 0 and every successor of its numbers holds every number.
LEMMA NatSetInduction ==
    ASSUME NEW S, 0 \in S, \A n \in Nat : n \in S => n + 1 \in S
    PROVE  \A n \in Nat : n \in S
<1> DEFINE T == Nat \ S
<1> SUFFICES ASSUME T # {} PROVE FALSE
  OBVIOUS
<1>1. IsWellFoundedOn(LessThan, Nat)
  BY NatLessThanWellFounded DEF LessThan, OpToRel
<1>2. PICK x \in T : \A y \in T : ~(<<y, x>> \in LessThan)
  <2>1. T \subseteq Nat
    OBVIOUS
  <2> HIDE DEF T
  <2> QED BY <1>1, <2>1, WFMin
<1>3. x - 1 \in T
  BY <1>2
<1>4. <<x - 1, x>> \in LessThan
  BY <1>2, <1>3 DEF LessThan
<1> QED BY <1>2, <1>3, <1>4

\* A family of finite sets that holds the empty set, and every set of which it
\* holds all the smaller ones, holds every finite subset of S.
LEMMA FiniteSetInduction ==
    ASSUME NEW S, IsFiniteSet(S), NEW F,
           \A T \in SUBSET S :
              (\A U \in SUBSET S : Cardinality(U) < Cardinality(T) => U \in F) => T \in F
    PROVE  S \in F
<1> DEFINE N == {n \in Nat : \A T \in SUBSET S : Cardinality(T) < n => T \in F}
<1>1. \A T \in SUBSET S : IsFiniteSet(T) /\ Cardinality(T) \in Nat
  BY FS_Subset, FS_CardinalityType
<1>2. 0 \in N
  BY <1>1
<1>3. \A n \in Nat : n \in N => n + 1 \in N
  <2> SUFFICES ASSUME NEW n \in Nat, n \in N, NEW T \in SUBSET S, Cardinality(T) < n + 1
               PROVE  T \in F
    OBVIOUS
  <2>1. \A U \in SUBSET S : Cardinality(U) < Cardinality(T) => U \in F
    BY <1>1
  <2> QED BY <2>1
<1> HIDE DEF N
<1>4. \A n \in Nat : n \in N
  BY <1>2, <1>3, NatSetInduction
<1>5. Cardinality(S) + 1 \in N
  BY <1>1, <1>4
<1> QED BY <1>1, <1>5 DEF N

-----------------------------------------------------------------------------
(* What a sum is *)

Some(s) == CHOOSE x \in s : TRUE

\* g holds the sum of f over every subset of S.
Sums(g, f, S) ==
    g = [s \in SUBSET S |-> IF s = {} THEN 0 ELSE f[Some(s)] + g[s \ {Some(s)}]]

Total(f, S) == MapThenSumSet(LAMBDA x : f[x], S)

LEMMA SomeIsIn == ASSUME NEW s, s # {} PROVE Some(s) \in s
<1>1. \E x : x \in s
  OBVIOUS
<1> QED BY <1>1, Zenon DEF Some

LEMMA SmallerWithout ==
    ASSUME NEW s, IsFiniteSet(s), NEW x \in s
    PROVE  /\ IsFiniteSet(s \ {x})
           /\ Cardinality(s \ {x}) \in Nat /\ Cardinality(s) \in Nat
           /\ Cardinality(s) = Cardinality(s \ {x}) + 1
<1>1. IsFiniteSet(s \ {x}) /\ Cardinality(s \ {x}) = Cardinality(s) - 1
  BY FS_RemoveElement
<1>2. Cardinality(s \ {x}) \in Nat /\ Cardinality(s) \in Nat
  BY <1>1, FS_CardinalityType
<1> QED BY <1>1, <1>2

\* There are such sums, and they are integers.
LEMMA SumsExist ==
    ASSUME NEW S, IsFiniteSet(S), NEW f, \A x \in S : f[x] \in Int
    PROVE  \E g \in [SUBSET S -> Int] : Sums(g, f, S)
<1> DEFINE Upto(n) == {s \in SUBSET S : Cardinality(s) <= n}
           Step(g, s) == IF s = {} THEN 0 ELSE f[Some(s)] + g[s \ {Some(s)}]
           Has(n) == \E g \in [SUBSET S -> Int] : \A s \in Upto(n) : g[s] = Step(g, s)
           N == {n \in Nat : Has(n)}
<1>1. \A s \in SUBSET S : IsFiniteSet(s) /\ Cardinality(s) \in Nat
  BY FS_Subset, FS_CardinalityType
<1>2. \A s \in SUBSET S : s # {} =>
          /\ Some(s) \in S /\ f[Some(s)] \in Int
          /\ s \ {Some(s)} \in SUBSET S
          /\ Cardinality(s) = Cardinality(s \ {Some(s)}) + 1
          /\ Cardinality(s \ {Some(s)}) \in Nat
  BY <1>1, SomeIsIn, SmallerWithout
<1>3. Has(0)
  <2> DEFINE g == [s \in SUBSET S |-> 0]
  <2>1. \A s \in Upto(0) : s = {}
    <3> SUFFICES ASSUME NEW s \in SUBSET S, Cardinality(s) <= 0, s # {} PROVE FALSE
      OBVIOUS
    <3>1. /\ Cardinality(s) = Cardinality(s \ {Some(s)}) + 1
          /\ Cardinality(s \ {Some(s)}) \in Nat
      BY <1>2
    <3> QED BY <3>1
  <2>2. \A s \in Upto(0) : g[s] = Step(g, s)
    BY <2>1
  <2>3. g \in [SUBSET S -> Int]
    OBVIOUS
  <2> HIDE DEF g
  <2> QED BY <2>2, <2>3
<1>4. \A n \in Nat : Has(n) => Has(n + 1)
  <2> SUFFICES ASSUME NEW n \in Nat, Has(n) PROVE Has(n + 1)
    OBVIOUS
  <2>1. PICK g \in [SUBSET S -> Int] : \A s \in Upto(n) : g[s] = Step(g, s)
    OBVIOUS
  <2> DEFINE h == [s \in SUBSET S |-> Step(g, s)]
  <2>2. h \in [SUBSET S -> Int]
    BY <1>2
  <2>3. \A s \in Upto(n) : h[s] = g[s]
    BY <2>1
  <2>4. \A s \in Upto(n + 1) : s # {} => s \ {Some(s)} \in Upto(n)
    BY <1>2
  <2>5. \A s \in Upto(n + 1) : h[s] = Step(h, s)
    BY <2>3, <2>4
  <2> QED BY <2>2, <2>5
<1>5. Has(Cardinality(S))
  <2> HIDE DEF Has
  <2>1. \A n \in Nat : n \in N
    <3>1. 0 \in N /\ \A n \in Nat : n \in N => n + 1 \in N
      BY <1>3, <1>4
    <3> HIDE DEF N
    <3> QED BY <3>1, NatSetInduction
  <2> QED BY <1>1, <2>1
<1>6. \A s \in SUBSET S : Cardinality(s) <= Cardinality(S)
  BY FS_Subset
<1>7. PICK g \in [SUBSET S -> Int] : \A s \in SUBSET S : g[s] = Step(g, s)
  BY <1>5, <1>6
<1> QED BY <1>7 DEF Sums

\* They are the same, whatever larger set they are taken in.
LEMMA SumsUnique ==
    ASSUME NEW S, IsFiniteSet(S), NEW T, NEW U, S \subseteq T, S \subseteq U,
           NEW f, NEW e, \A x \in S : f[x] = e[x],
           NEW g, Sums(g, f, T), NEW h, Sums(h, e, U)
    PROVE  g[S] = h[S]
<1> DEFINE F == {s \in SUBSET S : g[s] = h[s]}
<1>1. ASSUME NEW s \in SUBSET S,
             \A u \in SUBSET S : Cardinality(u) < Cardinality(s) => u \in F
      PROVE  s \in F
  <2>1. s \in SUBSET T /\ s \in SUBSET U /\ IsFiniteSet(s)
    BY FS_Subset
  <2>2. CASE s = {}
    BY <2>1, <2>2 DEF Sums
  <2>3. CASE s # {}
    <3> DEFINE x == Some(s)
               r == s \ {x}
    <3>1. x \in s
      BY <2>3, SomeIsIn
    <3>2. r \in SUBSET S /\ Cardinality(r) < Cardinality(s)
      BY <2>1, <3>1, SmallerWithout
    <3>3. g[r] = h[r]
      BY <1>1, <3>2
    <3>4. g[s] = f[x] + g[r] /\ h[s] = e[x] + h[r]
      BY <2>1, <2>3 DEF Sums
    <3>5. f[x] = e[x]
      BY <3>1
    <3> QED BY <3>3, <3>4, <3>5
  <2> QED BY <2>2, <2>3
<1> HIDE DEF F
<1>2. S \in F
  BY <1>1, FiniteSetInduction
<1> QED BY <1>2 DEF F

\* Total is one of them.
LEMMA TotalIsSum ==
    ASSUME NEW S, IsFiniteSet(S), NEW f, \A x \in S : f[x] \in Int
    PROVE  \E g \in [SUBSET S -> Int] : Sums(g, f, S) /\ Total(f, S) = g[S]
<1>1. PICK h \in [SUBSET S -> Int] : Sums(h, f, S)
  BY SumsExist
<1> DEFINE Eq(g) == g = [s \in SUBSET S |-> IF s = {} THEN 0
                              ELSE f[CHOOSE x \in s : TRUE] + g[s \ {CHOOSE x \in s : TRUE}]]
           c == CHOOSE g : Eq(g)
<1>2. Eq(h)
  BY <1>1 DEF Sums, Some
<1>3. Total(f, S) = c[S]
  BY DEF Total, MapThenSumSet, MapThenFoldSet
<1>4. Eq(c)
  <2> HIDE DEF Eq
  <2> QED BY <1>2
<1>5. Sums(c, f, S)
  <2> HIDE DEF c
  <2> QED BY <1>4 DEF Sums, Some
<1>6. c[S] = h[S]
  <2> HIDE DEF c, Eq
  <2> QED BY <1>1, <1>5, SumsUnique
<1> QED BY <1>1, <1>3, <1>6

\* A sum whose terms are an operator's is a Total of the same terms.
LEMMA SumIsTotal ==
    ASSUME NEW S, IsFiniteSet(S), NEW f, \A x \in S : f[x] \in Int,
           NEW g, Sums(g, f, S)
    PROVE  g[S] = Total(f, S)
<1>1. PICK h \in [SUBSET S -> Int] : Sums(h, f, S) /\ Total(f, S) = h[S]
  BY TotalIsSum
<1> QED BY <1>1, SumsUnique

-----------------------------------------------------------------------------
(* What sums do *)

LEMMA TotalType ==
    ASSUME NEW S, IsFiniteSet(S), NEW f, \A x \in S : f[x] \in Int
    PROVE  Total(f, S) \in Int
<1>1. PICK g \in [SUBSET S -> Int] : Sums(g, f, S) /\ Total(f, S) = g[S]
  BY TotalIsSum
<1> QED BY <1>1

LEMMA TotalEmpty == ASSUME NEW f PROVE Total(f, {}) = 0
<1>1. IsFiniteSet({})
  BY FS_EmptySet
<1>2. PICK g \in [SUBSET {} -> Int] : Sums(g, f, {}) /\ Total(f, {}) = g[{}]
  BY <1>1, TotalIsSum
<1>3. g[{}] = 0
  BY <1>2 DEF Sums
<1> QED BY <1>2, <1>3

\* Terms that are equal have equal sums.
LEMMA TotalEqual ==
    ASSUME NEW S, IsFiniteSet(S), NEW f, \A x \in S : f[x] \in Int,
           NEW e, \A x \in S : f[x] = e[x]
    PROVE  Total(f, S) = Total(e, S)
<1>1. PICK g \in [SUBSET S -> Int] : Sums(g, f, S) /\ Total(f, S) = g[S]
  BY TotalIsSum
<1>2. PICK h \in [SUBSET S -> Int] : Sums(h, e, S) /\ Total(e, S) = h[S]
  BY TotalIsSum
<1> QED BY <1>1, <1>2, SumsUnique

\* The sum over a subset is the one a larger sum went through.
LEMMA TotalOfSubset ==
    ASSUME NEW S, IsFiniteSet(S), NEW f, \A x \in S : f[x] \in Int,
           NEW g, Sums(g, f, S), NEW T \in SUBSET S
    PROVE  g[T] = Total(f, T)
<1>1. IsFiniteSet(T) /\ \A x \in T : f[x] \in Int
  BY FS_Subset
<1>2. PICK h \in [SUBSET T -> Int] : Sums(h, f, T) /\ Total(f, T) = h[T]
  BY <1>1, TotalIsSum
<1> QED BY <1>1, <1>2, SumsUnique

\* Any element may be taken out first.
LEMMA TotalRemove ==
    ASSUME NEW S, IsFiniteSet(S), NEW f, \A x \in S : f[x] \in Int, NEW a \in S
    PROVE  Total(f, S) = f[a] + Total(f, S \ {a})
<1>1. PICK g \in [SUBSET S -> Int] : Sums(g, f, S) /\ Total(f, S) = g[S]
  BY TotalIsSum
<1> DEFINE F == {s \in SUBSET S : \A x \in s : g[s] = f[x] + g[s \ {x}]}
<1>2. ASSUME NEW s \in SUBSET S,
             \A u \in SUBSET S : Cardinality(u) < Cardinality(s) => u \in F
      PROVE  s \in F
  <2> SUFFICES ASSUME NEW x \in s PROVE g[s] = f[x] + g[s \ {x}]
    OBVIOUS
  <2>1. IsFiniteSet(s)
    BY FS_Subset
  <2>2. PICK y \in s : g[s] = f[y] + g[s \ {y}]
    <3>1. Some(s) \in s
      BY SomeIsIn
    <3> QED BY <1>1, <3>1 DEF Sums
  <2>3. CASE x = y
    BY <2>2, <2>3
  <2>4. CASE x # y
    <3>1. /\ s \ {x} \in SUBSET S /\ s \ {y} \in SUBSET S
          /\ Cardinality(s \ {x}) < Cardinality(s)
          /\ Cardinality(s \ {y}) < Cardinality(s)
      <4>1. \A z \in s : Cardinality(s \ {z}) < Cardinality(s)
        <5> SUFFICES ASSUME NEW z \in s PROVE Cardinality(s \ {z}) < Cardinality(s)
          OBVIOUS
        <5> QED BY <2>1, SmallerWithout
      <4> QED BY <4>1
    <3>2. g[s \ {y}] = f[x] + g[(s \ {y}) \ {x}]
      BY <1>2, <2>4, <3>1
    <3>3. g[s \ {x}] = f[y] + g[(s \ {x}) \ {y}]
      BY <1>2, <2>1, <2>4, <3>1
    <3>4. (s \ {x}) \ {y} = (s \ {y}) \ {x} /\ (s \ {x}) \ {y} \in SUBSET S
      OBVIOUS
    <3>5. /\ g[s \ {x}] \in Int /\ g[s \ {y}] \in Int /\ g[(s \ {x}) \ {y}] \in Int
          /\ f[x] \in Int /\ f[y] \in Int
      BY <1>1, <3>1, <3>4
    <3> DEFINE u == g[(s \ {x}) \ {y}]
               v == g[s \ {x}]
               w == g[s \ {y}]
    <3>6. w = f[x] + u /\ v = f[y] + u /\ g[s] = f[y] + w
      BY <2>2, <3>2, <3>3, <3>4
    <3>7. u \in Int /\ v \in Int /\ w \in Int /\ f[x] \in Int /\ f[y] \in Int
      BY <3>5
    <3>8. g[s] = f[x] + v
      <4> HIDE DEF u, v, w
      <4> QED BY <3>6, <3>7
    <3> QED BY <3>8
  <2> QED BY <2>3, <2>4
<1> HIDE DEF F
<1>3. S \in F
  BY <1>2, FiniteSetInduction
<1>4. g[S] = f[a] + g[S \ {a}]
  BY <1>3 DEF F
<1>5. g[S \ {a}] = Total(f, S \ {a})
  BY <1>1, TotalOfSubset
<1> QED BY <1>1, <1>4, <1>5

LEMMA TotalAdd ==
    ASSUME NEW S, IsFiniteSet(S), NEW f, \A x \in S : f[x] \in Int,
           NEW a, a \notin S, f[a] \in Int
    PROVE  Total(f, S \cup {a}) = f[a] + Total(f, S)
<1>1. IsFiniteSet(S \cup {a}) /\ (S \cup {a}) \ {a} = S /\ a \in S \cup {a}
  BY FS_AddElement
<1>2. \A x \in S \cup {a} : f[x] \in Int
  OBVIOUS
<1>3. Total(f, S \cup {a}) = f[a] + Total(f, (S \cup {a}) \ {a})
  BY <1>1, <1>2, TotalRemove
<1> QED BY <1>1, <1>3

\* A statement about sums holds of S if it holds of the empty set and is kept
\* when an element is added.
LEMMA GrowingSets ==
    ASSUME NEW S, IsFiniteSet(S), NEW F, {} \in F,
           \A T \in SUBSET S : \A x \in S \ T : T \in F => T \cup {x} \in F
    PROVE  S \in F
<1>1. ASSUME NEW T \in SUBSET S,
             \A U \in SUBSET S : Cardinality(U) < Cardinality(T) => U \in F
      PROVE  T \in F
  <2>1. CASE T = {}
    BY <2>1
  <2>2. CASE T # {}
    <3>1. PICK x \in T : TRUE
      BY <2>2
    <3>2. IsFiniteSet(T)
      BY FS_Subset
    <3>3. Cardinality(T \ {x}) < Cardinality(T)
      BY <3>1, <3>2, SmallerWithout
    <3>4. T \ {x} \in F
      BY <1>1, <3>3
    <3>5. (T \ {x}) \cup {x} = T /\ x \in S \ (T \ {x}) /\ T \ {x} \in SUBSET S
      BY <3>1
    <3>6. (T \ {x}) \cup {x} \in F
      BY <3>4, <3>5
    <3> QED BY <3>5, <3>6
  <2> QED BY <2>1, <2>2
<1> QED BY <1>1, FiniteSetInduction

\* What a function makes of a finite set is finite.
LEMMA FiniteImage ==
    ASSUME NEW S, IsFiniteSet(S), NEW e
    PROVE  IsFiniteSet({e[x] : x \in S})
<1> DEFINE Image(T) == {e[x] : x \in T}
           F == {T \in SUBSET S : IsFiniteSet(Image(T))}
<1>1. {} \in F
  <2>1. Image({}) = {} /\ IsFiniteSet({})
    BY FS_EmptySet
  <2> QED BY <2>1
<1>2. ASSUME NEW T \in SUBSET S, NEW x \in S \ T, T \in F PROVE T \cup {x} \in F
  <2> DEFINE I == Image(T)
             J == Image(T \cup {x})
  <2>1. J = I \cup {e[x]}
    OBVIOUS
  <2>2. IsFiniteSet(I)
    BY <1>2
  <2> HIDE DEF I, J, F
  <2>3. IsFiniteSet(J)
    BY <2>1, <2>2, FS_AddElement
  <2> QED BY <2>3 DEF F, J
<1> HIDE DEF F
<1>3. S \in F
  BY <1>1, <1>2, GrowingSets
<1> QED BY <1>3 DEF F

\* The sum over two disjoint sets.
LEMMA TotalUnion ==
    ASSUME NEW S, IsFiniteSet(S), NEW T, IsFiniteSet(T), S \cap T = {},
           NEW f, \A x \in S \cup T : f[x] \in Int
    PROVE  Total(f, S \cup T) = Total(f, S) + Total(f, T)
<1> DEFINE F == {U \in SUBSET T : Total(f, S \cup U) = Total(f, S) + Total(f, U)}
<1>1. \A U \in SUBSET T : IsFiniteSet(U) /\ IsFiniteSet(S \cup U)
  BY FS_Subset, FS_Union
<1>2. {} \in F
  <2>1. Total(f, S) \in Int /\ Total(f, {}) = 0 /\ S \cup {} = S
    BY TotalType, TotalEmpty
  <2> QED BY <2>1
<1>3. ASSUME NEW U \in SUBSET T, NEW x \in T \ U, U \in F
      PROVE  U \cup {x} \in F
  <2>1. x \notin S \cup U /\ (S \cup U) \cup {x} = S \cup (U \cup {x})
    OBVIOUS
  <2>2. Total(f, S \cup (U \cup {x})) = f[x] + Total(f, S \cup U)
    <3>1. \A y \in S \cup U : f[y] \in Int
      OBVIOUS
    <3>2. f[x] \in Int
      OBVIOUS
    <3>3. Total(f, (S \cup U) \cup {x}) = f[x] + Total(f, S \cup U)
      BY <1>1, <2>1, <3>1, <3>2, TotalAdd
    <3> QED BY <2>1, <3>3
  <2>3. Total(f, U \cup {x}) = f[x] + Total(f, U)
    BY <1>1, TotalAdd
  <2>4. Total(f, S) \in Int /\ Total(f, U) \in Int /\ f[x] \in Int
    BY <1>1, TotalType
  <2>5. Total(f, S \cup U) = Total(f, S) + Total(f, U)
    BY <1>3
  <2>6. Total(f, S \cup (U \cup {x})) = Total(f, S) + Total(f, U \cup {x})
    BY <2>2, <2>3, <2>4, <2>5
  <2> QED BY <2>6
<1> HIDE DEF F
<1>4. T \in F
  BY <1>2, <1>3, GrowingSets
<1> QED BY <1>4 DEF F

\* Terms that are zero add up to zero.
LEMMA TotalZero ==
    ASSUME NEW S, IsFiniteSet(S), NEW f, \A x \in S : f[x] = 0
    PROVE  Total(f, S) = 0
<1> DEFINE F == {T \in SUBSET S : Total(f, T) = 0}
<1>1. {} \in F
  BY TotalEmpty
<1>2. ASSUME NEW T \in SUBSET S, NEW x \in S \ T, T \in F PROVE T \cup {x} \in F
  <2>1. IsFiniteSet(T) /\ (\A y \in T : f[y] \in Int) /\ f[x] = 0
    BY FS_Subset
  <2>2. Total(f, T \cup {x}) = f[x] + Total(f, T)
    BY <2>1, TotalAdd
  <2> QED BY <1>2, <2>1, <2>2
<1> HIDE DEF F
<1>3. S \in F
  BY <1>1, <1>2, GrowingSets
<1> QED BY <1>3 DEF F

\* Terms that are zero may be left out.
LEMMA TotalWithout ==
    ASSUME NEW S, IsFiniteSet(S), NEW T \in SUBSET S,
           NEW f, \A x \in S : f[x] \in Int, \A x \in S \ T : f[x] = 0
    PROVE  Total(f, S) = Total(f, T)
<1>1. IsFiniteSet(T) /\ IsFiniteSet(S \ T) /\ T \cap (S \ T) = {} /\ T \cup (S \ T) = S
  BY FS_Subset
<1>2. \A x \in T \cup (S \ T) : f[x] \in Int
  OBVIOUS
<1>3. Total(f, S) = Total(f, T) + Total(f, S \ T)
  <2>1. Total(f, T \cup (S \ T)) = Total(f, T) + Total(f, S \ T)
    BY <1>1, <1>2, TotalUnion
  <2> QED BY <1>1, <2>1
<1>4. Total(f, S \ T) = 0
  BY <1>1, TotalZero
<1>5. Total(f, T) \in Int
  BY <1>1, TotalType
<1> QED BY <1>3, <1>4, <1>5

\* A sum of sums.
LEMMA TotalPlus ==
    ASSUME NEW S, IsFiniteSet(S), NEW f, \A x \in S : f[x] \in Int,
           NEW g, \A x \in S : g[x] \in Int,
           NEW h, \A x \in S : h[x] = f[x] + g[x]
    PROVE  Total(h, S) = Total(f, S) + Total(g, S)
<1> DEFINE F == {T \in SUBSET S : Total(h, T) = Total(f, T) + Total(g, T)}
<1>1. {} \in F
  BY TotalEmpty
<1>2. ASSUME NEW T \in SUBSET S, NEW x \in S \ T, T \in F PROVE T \cup {x} \in F
  <2>1. /\ IsFiniteSet(T) /\ h[x] \in Int /\ f[x] \in Int /\ g[x] \in Int
        /\ \A y \in T : f[y] \in Int /\ g[y] \in Int /\ h[y] \in Int
    BY FS_Subset
  <2>2. Total(h, T \cup {x}) = h[x] + Total(h, T)
    BY <2>1, TotalAdd
  <2>3. Total(f, T \cup {x}) = f[x] + Total(f, T)
    BY <2>1, TotalAdd
  <2>4. Total(g, T \cup {x}) = g[x] + Total(g, T)
    BY <2>1, TotalAdd
  <2>5. Total(f, T) \in Int /\ Total(g, T) \in Int /\ Total(h, T) \in Int
    BY <2>1, TotalType
  <2>6. h[x] = f[x] + g[x] /\ Total(h, T) = Total(f, T) + Total(g, T)
    BY <1>2
  <2>7. Total(h, T \cup {x}) = Total(f, T \cup {x}) + Total(g, T \cup {x})
    BY <2>1, <2>2, <2>3, <2>4, <2>5, <2>6
  <2> QED BY <2>7
<1> HIDE DEF F
<1>3. S \in F
  BY <1>1, <1>2, GrowingSets
<1> QED BY <1>3 DEF F

\* Larger terms have larger sums.
LEMMA TotalAtMost ==
    ASSUME NEW S, IsFiniteSet(S), NEW f, \A x \in S : f[x] \in Int,
           NEW g, \A x \in S : g[x] \in Int /\ f[x] <= g[x]
    PROVE  Total(f, S) <= Total(g, S)
<1> DEFINE F == {T \in SUBSET S : Total(f, T) <= Total(g, T)}
<1>1. {} \in F
  BY TotalEmpty
<1>2. ASSUME NEW T \in SUBSET S, NEW x \in S \ T, T \in F PROVE T \cup {x} \in F
  <2>1. /\ IsFiniteSet(T) /\ f[x] \in Int /\ g[x] \in Int /\ f[x] <= g[x]
        /\ \A y \in T : f[y] \in Int /\ g[y] \in Int
    BY FS_Subset
  <2>2. Total(f, T \cup {x}) = f[x] + Total(f, T)
    BY <2>1, TotalAdd
  <2>3. Total(g, T \cup {x}) = g[x] + Total(g, T)
    BY <2>1, TotalAdd
  <2>4. Total(f, T) \in Int /\ Total(g, T) \in Int
    BY <2>1, TotalType
  <2>5. Total(f, T) <= Total(g, T)
    BY <1>2
  <2>6. Total(f, T \cup {x}) <= Total(g, T \cup {x})
    BY <2>1, <2>2, <2>3, <2>4, <2>5
  <2> QED BY <2>6
<1> HIDE DEF F
<1>3. S \in F
  BY <1>1, <1>2, GrowingSets
<1> QED BY <1>3 DEF F

\* Equal terms are a multiple.
LEMMA TotalConstant ==
    ASSUME NEW S, IsFiniteSet(S), NEW k \in Int, NEW f, \A x \in S : f[x] = k
    PROVE  Total(f, S) = k * Cardinality(S)
<1> DEFINE F == {T \in SUBSET S : Total(f, T) = k * Cardinality(T)}
<1>1. {} \in F
  <2>1. Cardinality({}) = 0 /\ k * 0 = 0
    BY FS_EmptySet
  <2> QED BY <2>1, TotalEmpty
<1>2. ASSUME NEW T \in SUBSET S, NEW x \in S \ T, T \in F PROVE T \cup {x} \in F
  <2>1. IsFiniteSet(T) /\ f[x] = k /\ \A y \in T : f[y] \in Int
    BY FS_Subset
  <2>2. Total(f, T \cup {x}) = f[x] + Total(f, T)
    BY <2>1, TotalAdd
  <2>3. Cardinality(T) \in Nat /\ Cardinality(T \cup {x}) = Cardinality(T) + 1
    BY <2>1, FS_AddElement, FS_CardinalityType
  <2>4. Total(f, T) = k * Cardinality(T)
    BY <1>2
  <2>5. PICK n \in Nat : n = Cardinality(T)
    BY <2>3
  <2>6. k * (n + 1) = k + k * n
    OBVIOUS
  <2>7. Total(f, T \cup {x}) = k * Cardinality(T \cup {x})
    BY <2>1, <2>2, <2>3, <2>4, <2>5, <2>6
  <2> QED BY <2>7
<1> HIDE DEF F
<1>3. S \in F
  BY <1>1, <1>2, GrowingSets
<1> QED BY <1>3 DEF F

\* A sum may go over names of the elements, if different elements have
\* different names.
LEMMA TotalRenamed ==
    ASSUME NEW S, IsFiniteSet(S), NEW e, NEW f, NEW g,
           \A x \in S : f[e[x]] = g[x] /\ g[x] \in Int,
           \A x, y \in S : e[x] = e[y] => x = y
    PROVE  Total(f, {e[x] : x \in S}) = Total(g, S)
<1> DEFINE Image(T) == {e[x] : x \in T}
           F == {T \in SUBSET S : IsFiniteSet(Image(T)) /\ Total(f, Image(T)) = Total(g, T)}
<1>1. {} \in F
  <2>1. Image({}) = {} /\ IsFiniteSet({})
    BY FS_EmptySet
  <2> QED BY <2>1, TotalEmpty
<1>2. ASSUME NEW T \in SUBSET S, NEW x \in S \ T, T \in F PROVE T \cup {x} \in F
  <2> DEFINE I == Image(T)
             J == Image(T \cup {x})
  <2>1. J = I \cup {e[x]} /\ e[x] \notin I
    OBVIOUS
  <2>2. \A z \in I : f[z] \in Int
    OBVIOUS
  <2>3. IsFiniteSet(T) /\ (\A y \in T : g[y] \in Int) /\ g[x] \in Int /\ f[e[x]] = g[x]
    BY FS_Subset
  <2>4. IsFiniteSet(I) /\ Total(f, I) = Total(g, T)
    BY <1>2
  <2> HIDE DEF I, J, F
  <2>5. IsFiniteSet(J)
    BY <2>1, <2>4, FS_AddElement
  <2>6. Total(f, J) = f[e[x]] + Total(f, I)
    BY <2>1, <2>2, <2>3, <2>4, TotalAdd
  <2>7. Total(g, T \cup {x}) = g[x] + Total(g, T)
    BY <2>3, TotalAdd
  <2>8. IsFiniteSet(J) /\ Total(f, J) = Total(g, T \cup {x})
    BY <2>3, <2>4, <2>5, <2>6, <2>7
  <2> QED BY <2>8 DEF F, J
<1> HIDE DEF F
<1>3. S \in F
  BY <1>1, <1>2, GrowingSets
<1> QED BY <1>3 DEF F

\* The elements that h maps to o.
Group(S, h, o) == {x \in S : h[x] = o}

\* A sum may be taken group by group.
LEMMA TotalByGroup ==
    ASSUME NEW S, IsFiniteSet(S), NEW f, \A x \in S : f[x] \in Int,
           NEW h, NEW G, IsFiniteSet(G), \A x \in S : h[x] \in G,
           NEW g, \A o \in G : g[o] = Total(f, Group(S, h, o))
    PROVE  Total(g, G) = Total(f, S)
<1> DEFINE Within(T) == {x \in S : h[x] \in T}
           F == {T \in SUBSET G : Total(g, T) = Total(f, Within(T))}
<1>0. \A T : IsFiniteSet(Within(T)) /\ \A x \in Within(T) : f[x] \in Int
  BY FS_Subset
<1>1. {} \in F
  <2>1. Within({}) = {}
    OBVIOUS
  <2> QED BY <2>1, TotalEmpty
<1>2. ASSUME NEW T \in SUBSET G, NEW o \in G \ T, T \in F PROVE T \cup {o} \in F
  <2> DEFINE A == Within(T)
             B == Group(S, h, o)
  <2>1. Within(T \cup {o}) = B \cup A /\ B \cap A = {}
    BY DEF Group
  <2>2. /\ IsFiniteSet(A) /\ IsFiniteSet(B) /\ \A x \in B \cup A : f[x] \in Int
    BY FS_Subset DEF Group
  <2>3. g[o] = Total(f, B) /\ Total(g, T) = Total(f, A)
    BY <1>2
  <2>4. IsFiniteSet(T) /\ \A p \in T \cup {o} : g[p] \in Int
    <3>1. \A p \in G : IsFiniteSet(Group(S, h, p)) /\ \A x \in Group(S, h, p) : f[x] \in Int
      BY FS_Subset DEF Group
    <3>2. \A p \in G : Total(f, Group(S, h, p)) \in Int
      BY <3>1, TotalType
    <3> QED BY <3>2, FS_Subset
  <2> HIDE DEF A, B, Within
  <2>5. Total(f, B \cup A) = Total(f, B) + Total(f, A)
    BY <2>1, <2>2, TotalUnion
  <2>6. Total(g, T \cup {o}) = g[o] + Total(g, T)
    BY <2>4, TotalAdd
  <2>7. Total(g, T \cup {o}) = Total(f, Within(T \cup {o}))
    BY <2>1, <2>3, <2>5, <2>6
  <2> QED BY <2>7
<1>3. S = Within(G)
  OBVIOUS
<1> HIDE DEF F, Within
<1>4. G \in F
  BY <1>1, <1>2, GrowingSets
<1> QED BY <1>3, <1>4 DEF F

\* A sum of multiples is the multiple of the sum.
LEMMA TotalScaled ==
    ASSUME NEW S, IsFiniteSet(S), NEW k \in Int, NEW f, \A x \in S : f[x] \in Int,
           NEW g, \A x \in S : g[x] = k * f[x]
    PROVE  Total(g, S) = k * Total(f, S)
<1> DEFINE F == {T \in SUBSET S : Total(g, T) = k * Total(f, T)}
<1>1. {} \in F
  BY TotalEmpty
<1>2. ASSUME NEW T \in SUBSET S, NEW x \in S \ T, T \in F
      PROVE  T \cup {x} \in F
  <2>1. IsFiniteSet(T)
    BY FS_Subset
  <2>2. (\A y \in T : f[y] \in Int /\ g[y] \in Int) /\ f[x] \in Int /\ g[x] \in Int
    OBVIOUS
  <2>3. /\ Total(f, T \cup {x}) = f[x] + Total(f, T)
        /\ Total(g, T \cup {x}) = g[x] + Total(g, T)
    BY <2>1, <2>2, TotalAdd
  <2>4. Total(f, T) \in Int
    BY <2>1, <2>2, TotalType
  <2>5. Total(g, T) = k * Total(f, T) /\ g[x] = k * f[x]
    BY <1>2
  <2>6. k * (f[x] + Total(f, T)) = k * f[x] + k * Total(f, T)
    BY <2>2, <2>4
  <2> QED BY <2>3, <2>5, <2>6
<1> HIDE DEF F
<1>3. S \in F
  BY <1>1, <1>2, GrowingSets
<1> QED BY <1>3 DEF F

\* Tables with a row for every x in S and a column for every y in T.
RowSums(rows, f, S, T) == \A x \in S : rows[x] = Total(f[x], T)

Transposed(f, column, S, T) == \A y \in T : \A x \in S : column[y][x] = f[x][y]

\* The sums of the rows of a table add up to the sums of its columns.
LEMMA TotalSwap ==
    ASSUME NEW S, IsFiniteSet(S), NEW T, IsFiniteSet(T),
           NEW f, \A x \in S : \A y \in T : f[x][y] \in Int,
           NEW rows, RowSums(rows, f, S, T),
           NEW column, Transposed(f, column, S, T),
           NEW columns, RowSums(columns, column, T, S)
    PROVE  Total(rows, S) = Total(columns, T)
<1> DEFINE Cols(U) == [y \in T |-> Total(column[y], U)]
           F == {U \in SUBSET S : Total(rows, U) = Total(Cols(U), T)}
<1>0. /\ \A y \in T : \A x \in S : column[y][x] = f[x][y]
      /\ \A x \in S : rows[x] = Total(f[x], T)
      /\ \A y \in T : columns[y] = Total(column[y], S)
  BY DEF Transposed, RowSums
<1>1. {} \in F
  <2>1. \A y \in T : Cols({})[y] = 0
    BY TotalEmpty
  <2> HIDE DEF Cols
  <2>2. Total(Cols({}), T) = 0
    BY <2>1, TotalZero
  <2> QED BY <2>2, TotalEmpty
<1>2. ASSUME NEW U \in SUBSET S, NEW x \in S \ U, U \in F
      PROVE  U \cup {x} \in F
  <2>1. IsFiniteSet(U) /\ IsFiniteSet(U \cup {x})
    BY FS_Subset, FS_AddElement
  <2>2. \A y \in T : /\ Cols(U)[y] \in Int /\ f[x][y] \in Int
                     /\ Cols(U \cup {x})[y] = f[x][y] + Cols(U)[y]
    <3> SUFFICES ASSUME NEW y \in T
                 PROVE  /\ Total(column[y], U) \in Int /\ f[x][y] \in Int
                        /\ Total(column[y], U \cup {x}) = f[x][y] + Total(column[y], U)
      OBVIOUS
    <3>1. (\A z \in U : column[y][z] \in Int) /\ column[y][x] = f[x][y] /\ f[x][y] \in Int
      BY <1>0
    <3> QED BY <2>1, <3>1, TotalType, TotalAdd
  <2>3. Total(rows, U) = Total(Cols(U), T)
    BY <1>2
  <2>4. \A z \in U \cup {x} : rows[z] \in Int
    BY <1>0, TotalType
  <2> HIDE DEF Cols
  <2> DEFINE old == Cols(U)
             own == f[x]
             new == Cols(U \cup {x})
  <2>5. \A y \in T : own[y] \in Int /\ old[y] \in Int /\ new[y] = own[y] + old[y]
    BY <2>2
  <2>6. Total(new, T) = Total(own, T) + Total(old, T)
    <3> HIDE DEF old, own, new
    <3> QED BY <2>5, TotalPlus
  <2>7. Total(rows, U \cup {x}) = rows[x] + Total(rows, U)
    BY <2>1, <2>4, TotalAdd
  <2>8. rows[x] = Total(own, T)
    BY <1>0
  <2> QED BY <2>3, <2>6, <2>7, <2>8
<1>3. S \in F
  <2> HIDE DEF F
  <2> QED BY <1>1, <1>2, GrowingSets
<1>4. Total(Cols(S), T) = Total(columns, T)
  <2>1. \A y \in T : Cols(S)[y] = columns[y] /\ Cols(S)[y] \in Int
    <3> SUFFICES ASSUME NEW y \in T PROVE Total(column[y], S) \in Int
      BY <1>0
    <3>1. \A x \in S : column[y][x] \in Int
      BY <1>0
    <3> QED BY <3>1, TotalType
  <2> HIDE DEF Cols
  <2> QED BY <2>1, TotalEqual
<1> QED BY <1>3, <1>4

-----------------------------------------------------------------------------
(* Order *)

LEMMA GreatestElement ==
    ASSUME NEW S, IsFiniteSet(S), S \subseteq Int, S # {}
    PROVE  Max(S) \in S /\ \A y \in S : y <= Max(S)
<1> DEFINE F == {T \in SUBSET S : T # {} => \E x \in T : \A y \in T : y <= x}
<1>1. {} \in F
  OBVIOUS
<1>2. ASSUME NEW T \in SUBSET S, NEW x \in S \ T, T \in F PROVE T \cup {x} \in F
  <2>1. CASE T = {}
    BY <2>1
  <2>2. CASE T # {}
    <3>1. PICK z \in T : \A y \in T : y <= z
      BY <1>2, <2>2
    <3>2. CASE x <= z
      BY <3>1, <3>2
    <3>3. CASE z <= x
      BY <3>1, <3>3
    <3> QED BY <3>2, <3>3
  <2> QED BY <2>1, <2>2
<1> HIDE DEF F
<1>3. S \in F
  BY <1>1, <1>2, GrowingSets
<1>4. \E x \in S : \A y \in S : x >= y
  BY <1>3 DEF F
<1> QED BY <1>4 DEF Max

LEMMA LeastElement ==
    ASSUME NEW S, IsFiniteSet(S), S \subseteq Int, S # {}
    PROVE  Min(S) \in S /\ \A y \in S : Min(S) <= y
<1> DEFINE F == {T \in SUBSET S : T # {} => \E x \in T : \A y \in T : x <= y}
<1>1. {} \in F
  OBVIOUS
<1>2. ASSUME NEW T \in SUBSET S, NEW x \in S \ T, T \in F PROVE T \cup {x} \in F
  <2>1. CASE T = {}
    BY <2>1
  <2>2. CASE T # {}
    <3>1. PICK z \in T : \A y \in T : z <= y
      BY <1>2, <2>2
    <3>2. CASE x <= z
      BY <3>1, <3>2
    <3>3. CASE z <= x
      BY <3>1, <3>3
    <3> QED BY <3>2, <3>3
  <2> QED BY <2>1, <2>2
<1> HIDE DEF F
<1>3. S \in F
  BY <1>1, <1>2, GrowingSets
<1>4. \E x \in S : \A y \in S : x <= y
  BY <1>3 DEF F
<1> QED BY <1>4 DEF Min

Rising(s, n) == \A i, j \in 1 .. n : i < j => s[i] < s[j]

\* A finite set of integers can be listed in ascending order.
LEMMA RisingExists ==
    ASSUME NEW S, IsFiniteSet(S), S \subseteq Int
    PROVE  \E s \in [1 .. Cardinality(S) -> S] : Rising(s, Cardinality(S))
<1> DEFINE Listed(T) == \E s \in [1 .. Cardinality(T) -> T] : Rising(s, Cardinality(T))
           F == {T \in SUBSET S : Listed(T)}
<1>1. ASSUME NEW T \in SUBSET S,
             \A U \in SUBSET S : Cardinality(U) < Cardinality(T) => U \in F
      PROVE  T \in F
  <2>1. CASE T = {}
    <3>1. Cardinality(T) = 0
      BY <2>1, FS_EmptySet
    <3>2. \E s \in [1 .. 0 -> T] : Rising(s, 0)
      <4> DEFINE s == [i \in 1 .. 0 |-> i]
      <4>1. s \in [1 .. 0 -> T]
        OBVIOUS
      <4>2. Rising(s, 0)
        BY DEF Rising
      <4> QED BY <4>1, <4>2
    <3> QED BY <3>1, <3>2
  <2>2. CASE T # {}
    <3>1. IsFiniteSet(T) /\ T \subseteq Int
      BY FS_Subset
    <3>2. PICK x \in T : \A y \in T : y <= x
      BY <2>2, <3>1, GreatestElement
    <3>3. PICK n \in Nat : Cardinality(T) = n + 1 /\ Cardinality(T \ {x}) = n
      BY <3>1, SmallerWithout
    <3>4. T \ {x} \in F
      <4>1. T \ {x} \in SUBSET S /\ Cardinality(T \ {x}) < Cardinality(T)
        BY <3>3
      <4> HIDE DEF F
      <4> QED BY <1>1, <4>1
    <3>5. PICK s \in [1 .. n -> T \ {x}] : Rising(s, n)
      BY <3>3, <3>4
    <3> DEFINE t == [i \in 1 .. (n + 1) |-> IF i = n + 1 THEN x ELSE s[i]]
    <3>6. t \in [1 .. (n + 1) -> T]
      OBVIOUS
    <3>7. Rising(t, n + 1)
      <4> SUFFICES ASSUME NEW i \in 1 .. (n + 1), NEW j \in 1 .. (n + 1), i < j
                   PROVE  t[i] < t[j]
        BY DEF Rising
      <4>1. i \in 1 .. n /\ t[i] = s[i] /\ s[i] \in T /\ s[i] # x
        OBVIOUS
      <4>2. CASE j = n + 1
        <5>1. t[j] = x /\ s[i] <= x /\ s[i] \in Int /\ x \in Int
          BY <3>1, <3>2, <4>1, <4>2
        <5> HIDE DEF t
        <5> QED BY <4>1, <5>1
      <4>3. CASE j # n + 1
        BY <3>5, <4>1, <4>3 DEF Rising
      <4> QED BY <4>2, <4>3
    <3> HIDE DEF t
    <3> QED BY <3>3, <3>6, <3>7
  <2> QED BY <2>1, <2>2
<1> HIDE DEF F
<1>2. S \in F
  BY <1>1, FiniteSetInduction
<1> QED BY <1>2 DEF F

\* Such a list has every element once.
LEMMA RisingIsOnto ==
    ASSUME NEW S, IsFiniteSet(S), S \subseteq Int,
           NEW s \in [1 .. Cardinality(S) -> S], Rising(s, Cardinality(S))
    PROVE  \A x \in S : \E i \in 1 .. Cardinality(S) : s[i] = x
<1>1. PICK n \in Nat : n = Cardinality(S)
  BY FS_CardinalityType
<1>2. \A i, j \in 1 .. n : s[i] = s[j] => i = j
  <2> SUFFICES ASSUME NEW i \in 1 .. n, NEW j \in 1 .. n, i < j PROVE s[i] # s[j]
    BY <1>1
  <2>1. s[i] < s[j] /\ s[i] \in Int /\ s[j] \in Int
    BY <1>1 DEF Rising
  <2> QED BY <2>1
<1>3. s \in Injection(1 .. n, S)
  BY <1>1, <1>2 DEF Injection, IsInjective
<1>4. Cardinality(1 .. n) = n /\ IsFiniteSet(1 .. n)
  BY FS_Interval
<1>5. s \in Surjection(1 .. n, S)
  BY <1>1, <1>3, <1>4, FS_Injection
<1> QED BY <1>1, <1>5 DEF Surjection

-----------------------------------------------------------------------------
(* Repeated steps *)

\* h has what is there before the first and after each of N steps, which are
\* functions.
Iterates(h, g, a, N) == h = [n \in 0 .. N |-> IF n = 0 THEN a ELSE g[n][h[n - 1]]]

LEMMA IterationExists ==
    ASSUME NEW N \in Nat, NEW A, NEW a \in A, NEW g \in [1 .. N -> [A -> A]]
    PROVE  \E h \in [0 .. N -> A] : Iterates(h, g, a, N)
<1> DEFINE Step(h, n) == IF n = 0 THEN a ELSE g[n][h[n - 1]]
           Has(k) == \E h \in [0 .. N -> A] : \A n \in 0 .. N : n <= k => h[n] = Step(h, n)
           K == {k \in Nat : Has(k)}
<1>1. Has(0)
  <2> DEFINE h == [n \in 0 .. N |-> a]
  <2>1. h \in [0 .. N -> A] /\ \A n \in 0 .. N : n <= 0 => h[n] = Step(h, n)
    OBVIOUS
  <2> QED BY <2>1
<1>2. \A k \in Nat : Has(k) => Has(k + 1)
  <2> SUFFICES ASSUME NEW k \in Nat, Has(k) PROVE Has(k + 1)
    OBVIOUS
  <2>1. PICK h \in [0 .. N -> A] : \A n \in 0 .. N : n <= k => h[n] = Step(h, n)
    OBVIOUS
  <2> DEFINE e == [n \in 0 .. N |-> Step(h, n)]
  <2>2. \A n \in 0 .. N : n # 0 => n \in 1 .. N /\ n - 1 \in 0 .. N
    OBVIOUS
  <2>3. e \in [0 .. N -> A]
    <3> SUFFICES ASSUME NEW n \in 0 .. N PROVE Step(h, n) \in A
      OBVIOUS
    <3>1. CASE n = 0
      BY <3>1
    <3>2. CASE n # 0
      <4>1. n \in 1 .. N /\ n - 1 \in 0 .. N
        BY <2>2, <3>2
      <4>2. g[n] \in [A -> A] /\ h[n - 1] \in A
        BY <4>1
      <4> QED BY <3>2, <4>2
    <3> QED BY <3>1, <3>2
  <2>4. \A n \in 0 .. N : n <= k => e[n] = h[n]
    BY <2>1
  <2>5. \A n \in 0 .. N : n <= k + 1 => e[n] = Step(e, n)
    <3> SUFFICES ASSUME NEW n \in 0 .. N, n <= k + 1, n # 0 PROVE e[n] = g[n][e[n - 1]]
      OBVIOUS
    <3>1. n - 1 \in 0 .. N /\ n - 1 <= k
      BY <2>2
    <3>2. e[n - 1] = h[n - 1]
      BY <2>4, <3>1
    <3> QED BY <3>2
  <2> HIDE DEF e
  <2> QED BY <2>3, <2>5
<1>3. N \in K
  <2>1. 0 \in K /\ \A k \in Nat : k \in K => k + 1 \in K
    <3> HIDE DEF Has
    <3> QED BY <1>1, <1>2
  <2> HIDE DEF K
  <2> QED BY <2>1, NatSetInduction
<1>4. PICK h \in [0 .. N -> A] : \A n \in 0 .. N : h[n] = Step(h, n)
  BY <1>3
<1> QED BY <1>4 DEF Iterates

LEMMA IterationUnique ==
    ASSUME NEW N \in Nat, NEW a, NEW g, NEW e, \A n \in 1 .. N : g[n] = e[n],
           NEW h, Iterates(h, g, a, N), NEW k, Iterates(k, e, a, N)
    PROVE  h = k
<1> DEFINE K == {n \in Nat : n <= N => h[n] = k[n]}
<1>1. 0 \in K
  BY DEF Iterates
<1>2. \A n \in Nat : n \in K => n + 1 \in K
  <2> SUFFICES ASSUME NEW n \in Nat, n \in K, n + 1 <= N PROVE h[n + 1] = k[n + 1]
    OBVIOUS
  <2>1. h[n] = k[n] /\ n + 1 \in 0 .. N /\ n + 1 \in 1 .. N /\ n + 1 # 0 /\ (n + 1) - 1 = n
    OBVIOUS
  <2>2. h[n + 1] = g[n + 1][h[n]] /\ k[n + 1] = e[n + 1][k[n]]
    BY <2>1 DEF Iterates
  <2> QED BY <2>1, <2>2
<1> HIDE DEF K
<1>3. \A n \in Nat : n \in K
  BY <1>1, <1>2, NatSetInduction
<1>4. \A n \in 0 .. N : h[n] = k[n]
  BY <1>3 DEF K
<1> QED BY <1>4 DEF Iterates
=============================================================================
