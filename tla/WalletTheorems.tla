--------------------------- MODULE WalletTheorems ---------------------------
(***************************************************************************)
(* Lemmas about the sums and lists of Wallets: the coins of a list of      *)
(* delegations, the amounts that name an address, and what they are when a *)
(* delegation is appended or taken out.  The sums and folds of the community *)
(* modules are recursions over finite sets, so induction comes first, over *)
(* sets of numbers: an induction theorem that takes a predicate as a       *)
(* parameter is not needed.                                                *)
(***************************************************************************)
EXTENDS Wallets, FiniteSetTheorems, SequenceTheorems, TLAPS

(* A set with 0 and, with each number, the next one holds all of them: no
   injection takes the numbers up to a missing one to those from 1 on. *)
LEMMA SetInduction ==
    ASSUME NEW S, 0 \in S, \A n \in S \cap Nat : n + 1 \in S
    PROVE  Nat \subseteq S
<1> SUFFICES ASSUME NEW n \in Nat, n \notin S
             PROVE  FALSE
  OBVIOUS
<1> DEFINE T == S \cap (0 .. n)
<1> DEFINE next == [x \in T |-> x + 1]
<1>1. IsFiniteSet(T)
  <2>1. IsFiniteSet(0 .. n)
    BY FS_Interval
  <2>2. QED
    BY <2>1, FS_Subset
<1>2. next \in Injection(T, T \ {0})
  BY DEF Injection, IsInjective
<1>3. Cardinality(T) <= Cardinality(T \ {0})
  <2> HIDE DEF T, next
  <2>1. IsFiniteSet(T \ {0})
    BY <1>1, FS_RemoveElement
  <2>2. QED
    BY <2>1, <1>2, FS_Injection
<1>4. 0 \in T
  OBVIOUS
<1> HIDE DEF T
<1>5. Cardinality(T \ {0}) = Cardinality(T) - 1
  BY <1>1, <1>4, FS_RemoveElement
<1>6. Cardinality(T) \in Nat
  BY <1>1, FS_CardinalityType
<1>7. QED
  BY <1>3, <1>5, <1>6

(* A finite set without one of its members is smaller by one. *)
LEMMA OneLess ==
    ASSUME NEW s, IsFiniteSet(s), NEW x \in s
    PROVE  /\ IsFiniteSet(s \ {x})
           /\ Cardinality(s) \in Nat
           /\ Cardinality(s \ {x}) = Cardinality(s) - 1
BY FS_RemoveElement, FS_CardinalityType

(* A finite set is among the sets that hold {} and are closed under one more member. *)
LEMMA FiniteInduction ==
    ASSUME NEW S, IsFiniteSet(S), NEW P, {} \in P,
           \A s \in SUBSET S, x \in S : s \in P /\ x \notin s => s \cup {x} \in P
    PROVE  S \in P
<1> DEFINE N == {n \in Nat : \A s \in SUBSET S : Cardinality(s) = n => s \in P}
<1>1. \A s \in SUBSET S : IsFiniteSet(s) /\ Cardinality(s) \in Nat
  BY FS_Subset, FS_CardinalityType
<1>2. 0 \in N
  BY <1>1, FS_EmptySet
<1>3. ASSUME NEW n \in Nat, n \in N
      PROVE  n + 1 \in N
  <2>1. SUFFICES ASSUME NEW s \in SUBSET S, Cardinality(s) = n + 1
                 PROVE  s \in P
    BY <1>3
  <2>2. s # {}
    BY <2>1, FS_EmptySet
  <2>3. PICK x \in s : TRUE
    BY <2>2
  <2>4. Cardinality(s \ {x}) = n
    BY <1>1, <2>1, <2>3, OneLess
  <2>5. s \ {x} \in P
    BY <1>3, <2>4
  <2>6. (s \ {x}) \cup {x} \in P
    BY <2>3, <2>5
  <2>7. (s \ {x}) \cup {x} = s
    BY <2>3
  <2>8. QED
    BY <2>6, <2>7
<1>4. Nat \subseteq N
  <2> HIDE DEF N
  <2>1. QED
    BY <1>2, <1>3, SetInduction
<1>5. Cardinality(S) \in N
  BY <1>1, <1>4
<1>6. QED
  BY <1>5

-----------------------------------------------------------------------------
(* SumFunctionOnSet folds over a set by taking out the member chosen first. *)
FirstOf(s) == CHOOSE x \in s : TRUE

(* The sum of f over s, from the sums g over its subsets. *)
SumStep(f, s, g) == IF s = {} THEN 0 ELSE f[FirstOf(s)] + g[s \ {FirstOf(s)}]

(* g are the sums of f over the subsets of S. *)
IsSum(f, S, g) == g = [s \in SUBSET S |-> SumStep(f, s, g)]

(* The member chosen is one. *)
LEMMA FirstIn == ASSUME NEW s, s # {} PROVE FirstOf(s) \in s
BY DEF FirstOf

(* The sums over the subsets of a finite set exist: the recursion ends. *)
LEMMA SumExists ==
    ASSUME NEW f, NEW S, IsFiniteSet(S)
    PROVE  \E g : IsSum(f, S, g)
<1> DEFINE N == {n \in Nat : \E g : \A s \in SUBSET S :
                    Cardinality(s) <= n => g[s] = SumStep(f, s, g)}
<1>1. \A s \in SUBSET S : IsFiniteSet(s) /\ Cardinality(s) \in Nat
  BY FS_Subset, FS_CardinalityType
<1>2. 0 \in N
  <2> DEFINE zero == [s \in SUBSET S |-> 0]
  <2>1. \A s \in SUBSET S : Cardinality(s) <= 0 => zero[s] = SumStep(f, s, zero)
    BY <1>1, FS_EmptySet DEF SumStep
  <2>2. QED
    BY <2>1
<1>3. ASSUME NEW n \in Nat, n \in N
      PROVE  n + 1 \in N
  <2>1. PICK g : \A s \in SUBSET S : Cardinality(s) <= n => g[s] = SumStep(f, s, g)
    BY <1>3
  <2> DEFINE h == [s \in SUBSET S |-> SumStep(f, s, g)]
  <2>2. ASSUME NEW s \in SUBSET S, Cardinality(s) <= n + 1
        PROVE  h[s] = SumStep(f, s, h)
    <3>1. CASE s = {}
      BY <3>1 DEF SumStep
    <3>2. CASE s # {}
      <4> DEFINE r == s \ {FirstOf(s)}
      <4>1. FirstOf(s) \in s
        BY <3>2, FirstIn
      <4>2. r \in SUBSET S /\ Cardinality(r) <= n
        BY <1>1, <2>2, <4>1, FS_RemoveElement
      <4>3. h[r] = g[r]
        BY <2>1, <4>2
      <4>4. h[s] = f[FirstOf(s)] + g[r]
        BY <3>2 DEF SumStep
      <4>5. QED
        BY <3>2, <4>3, <4>4 DEF SumStep
    <3>3. QED
      BY <3>1, <3>2
  <2> HIDE DEF h
  <2>3. QED
    BY <2>2
<1>4. Nat \subseteq N
  <2> HIDE DEF N
  <2>1. QED
    BY <1>2, <1>3, SetInduction
<1>5. PICK g : \A s \in SUBSET S :
                    Cardinality(s) <= Cardinality(S) => g[s] = SumStep(f, s, g)
  BY <1>1, <1>4
<1>6. \A s \in SUBSET S : g[s] = SumStep(f, s, g)
  BY <1>5, FS_Subset
<1> DEFINE h == [s \in SUBSET S |-> SumStep(f, s, g)]
<1>7. ASSUME NEW s \in SUBSET S
      PROVE  SumStep(f, s, h) = SumStep(f, s, g)
  BY <1>6 DEF SumStep
<1>8. h = [s \in SUBSET S |-> SumStep(f, s, h)]
  BY <1>7
<1> HIDE DEF h
<1>9. QED
  BY <1>8 DEF IsSum

(* The fold of the community modules is such a sum. *)
LEMMA SumIsSum ==
    ASSUME NEW f, NEW S, IsFiniteSet(S)
    PROVE  \E g : IsSum(f, S, g) /\ SumFunctionOnSet(f, S) = g[S]
<1> DEFINE sum == CHOOSE g : IsSum(f, S, g)
<1>1. IsSum(f, S, sum)
  BY SumExists
<1>2. SumFunctionOnSet(f, S) = sum[S]
  BY DEF SumFunctionOnSet, FoldFunctionOnSet, MapThenFoldSet, IsSum, SumStep, FirstOf
<1> HIDE DEF sum
<1>3. QED
  BY <1>1, <1>2

(* Two functions that agree on a set have the same sum over it. *)
LEMMA SumSame ==
    ASSUME NEW f, NEW S, NEW g, IsSum(f, S, g),
           NEW h, NEW T, NEW k, IsSum(h, T, k),
           NEW U \in SUBSET (S \cap T), IsFiniteSet(U),
           \A x \in U : f[x] = h[x]
    PROVE  g[U] = k[U]
<1> DEFINE N == {n \in Nat : \A s \in SUBSET U : Cardinality(s) = n => g[s] = k[s]}
<1>1. \A s \in SUBSET U : IsFiniteSet(s) /\ Cardinality(s) \in Nat
  BY FS_Subset, FS_CardinalityType
<1>2. \A s \in SUBSET U : g[s] = SumStep(f, s, g) /\ k[s] = SumStep(h, s, k)
  BY DEF IsSum
<1>3. 0 \in N
  BY <1>1, <1>2, FS_EmptySet DEF SumStep
<1>4. ASSUME NEW n \in Nat, n \in N
      PROVE  n + 1 \in N
  <2>1. SUFFICES ASSUME NEW s \in SUBSET U, Cardinality(s) = n + 1
                 PROVE  g[s] = k[s]
    BY <1>4
  <2>2. s # {}
    BY <2>1, FS_EmptySet
  <2>3. FirstOf(s) \in s
    BY <2>2, FirstIn
  <2>4. Cardinality(s \ {FirstOf(s)}) = n
    BY <1>1, <2>1, <2>3, OneLess
  <2>5. g[s \ {FirstOf(s)}] = k[s \ {FirstOf(s)}]
    BY <1>4, <2>4
  <2>6. QED
    BY <1>2, <2>2, <2>3, <2>5 DEF SumStep
<1>5. Nat \subseteq N
  <2> HIDE DEF N
  <2>1. QED
    BY <1>3, <1>4, SetInduction
<1>6. QED
  BY <1>1, <1>5

(* The sum depends on nothing but the values on the set. *)
LEMMA SumCongruent ==
    ASSUME NEW S, IsFiniteSet(S), NEW f, NEW h, \A x \in S : f[x] = h[x]
    PROVE  SumFunctionOnSet(f, S) = SumFunctionOnSet(h, S)
<1>1. PICK g : IsSum(f, S, g) /\ SumFunctionOnSet(f, S) = g[S]
  BY SumIsSum
<1>2. PICK k : IsSum(h, S, k) /\ SumFunctionOnSet(h, S) = k[S]
  BY SumIsSum
<1>3. g[S] = k[S]
  BY <1>1, <1>2, SumSame
<1>4. QED
  BY <1>1, <1>2, <1>3

(* Nothing adds up to 0. *)
LEMMA SumEmpty ==
    ASSUME NEW f
    PROVE  SumFunctionOnSet(f, {}) = 0
<1>1. PICK g : IsSum(f, {}, g) /\ SumFunctionOnSet(f, {}) = g[{}]
  BY SumIsSum, FS_EmptySet
<1>2. QED
  BY <1>1 DEF IsSum, SumStep

(* A sum is the value of the first member and the sum of the rest. *)
LEMMA SumFirst ==
    ASSUME NEW S, IsFiniteSet(S), S # {}, NEW f
    PROVE  SumFunctionOnSet(f, S) = f[FirstOf(S)] + SumFunctionOnSet(f, S \ {FirstOf(S)})
<1> DEFINE R == S \ {FirstOf(S)}
<1>1. PICK g : IsSum(f, S, g) /\ SumFunctionOnSet(f, S) = g[S]
  BY SumIsSum
<1>2. IsFiniteSet(R)
  BY FS_RemoveElement
<1>3. PICK k : IsSum(f, R, k) /\ SumFunctionOnSet(f, R) = k[R]
  BY <1>2, SumIsSum
<1>4. g[R] = k[R]
  BY <1>1, <1>2, <1>3, SumSame
<1>5. g[S] = f[FirstOf(S)] + g[R]
  BY <1>1 DEF IsSum, SumStep
<1>6. QED
  BY <1>1, <1>3, <1>4, <1>5

(* A sum of integers is an integer. *)
LEMMA SumType ==
    ASSUME NEW S, IsFiniteSet(S), NEW f, \A x \in S : f[x] \in Int
    PROVE  SumFunctionOnSet(f, S) \in Int
<1> DEFINE N == {n \in Nat : \A s \in SUBSET S :
                    Cardinality(s) = n => SumFunctionOnSet(f, s) \in Int}
<1>1. \A s \in SUBSET S : IsFiniteSet(s) /\ Cardinality(s) \in Nat
  BY FS_Subset, FS_CardinalityType
<1>2. 0 \in N
  BY <1>1, FS_EmptySet, SumEmpty
<1>3. ASSUME NEW n \in Nat, n \in N
      PROVE  n + 1 \in N
  <2>1. SUFFICES ASSUME NEW s \in SUBSET S, Cardinality(s) = n + 1
                 PROVE  SumFunctionOnSet(f, s) \in Int
    BY <1>3
  <2>2. s # {}
    BY <2>1, FS_EmptySet
  <2>3. FirstOf(s) \in s
    BY <2>2, FirstIn
  <2>4. Cardinality(s \ {FirstOf(s)}) = n
    BY <1>1, <2>1, <2>3, OneLess
  <2>5. SumFunctionOnSet(f, s \ {FirstOf(s)}) \in Int
    BY <1>3, <2>4
  <2>6. SumFunctionOnSet(f, s) = f[FirstOf(s)] + SumFunctionOnSet(f, s \ {FirstOf(s)})
    BY <1>1, <2>2, SumFirst
  <2>7. f[FirstOf(s)] \in Int
    BY <2>3
  <2>8. QED
    BY <2>5, <2>6, <2>7
<1>4. Nat \subseteq N
  <2> HIDE DEF N
  <2>1. QED
    BY <1>2, <1>3, SetInduction
<1>5. QED
  BY <1>1, <1>4

(* Any element may come first. *)
LEMMA SumRemove ==
    ASSUME NEW S, IsFiniteSet(S), NEW f, \A x \in S : f[x] \in Int, NEW x \in S
    PROVE  SumFunctionOnSet(f, S) = f[x] + SumFunctionOnSet(f, S \ {x})
<1> DEFINE Free(s) == \A y \in s : SumFunctionOnSet(f, s)
                                        = f[y] + SumFunctionOnSet(f, s \ {y})
<1> DEFINE N == {n \in Nat : \A s \in SUBSET S : Cardinality(s) = n => Free(s)}
<1>1. \A s \in SUBSET S : IsFiniteSet(s) /\ Cardinality(s) \in Nat
  BY FS_Subset, FS_CardinalityType
<1>2. \A s \in SUBSET S : SumFunctionOnSet(f, s) \in Int
  BY <1>1, SumType
<1>3. 0 \in N
  BY <1>1, FS_EmptySet
<1>4. ASSUME NEW n \in Nat, n \in N
      PROVE  n + 1 \in N
  <2>1. SUFFICES ASSUME NEW s \in SUBSET S, Cardinality(s) = n + 1, NEW y \in s
                 PROVE  SumFunctionOnSet(f, s) = f[y] + SumFunctionOnSet(f, s \ {y})
    BY <1>4
  <2> DEFINE c == FirstOf(s)
  <2>2. c \in s
    BY FirstIn
  <2>3. SumFunctionOnSet(f, s) = f[c] + SumFunctionOnSet(f, s \ {c})
    BY <1>1, SumFirst
  <2> HIDE DEF c
  <2>4. CASE y = c
    BY <2>3, <2>4
  <2>5. CASE y # c
    <3> DEFINE r == (s \ {y}) \ {c}
    <3>1. r = (s \ {c}) \ {y}
      OBVIOUS
    <3>2. Cardinality(s \ {y}) = n /\ Cardinality(s \ {c}) = n
      BY <1>1, <2>1, <2>2, OneLess
    <3>3. Free(s \ {y}) /\ Free(s \ {c})
      BY <1>4, <3>2
    <3>4. SumFunctionOnSet(f, s \ {y}) = f[c] + SumFunctionOnSet(f, r)
      BY <2>2, <2>5, <3>3
    <3>5. SumFunctionOnSet(f, s \ {c}) = f[y] + SumFunctionOnSet(f, r)
      BY <2>2, <2>5, <3>1, <3>3
    <3>6. /\ f[y] \in Int /\ f[c] \in Int
          /\ SumFunctionOnSet(f, r) \in Int
      BY <1>2, <2>2
    <3> HIDE DEF r
    <3>7. QED
      BY <2>3, <3>4, <3>5, <3>6
  <2>6. QED
    BY <2>4, <2>5
<1>5. Nat \subseteq N
  <2> HIDE DEF N
  <2>1. QED
    BY <1>3, <1>4, SetInduction
<1>6. Free(S)
  BY <1>1, <1>5
<1>7. QED
  BY <1>6

(* A sum grows by what is added to the set. *)
LEMMA SumAdd ==
    ASSUME NEW S, IsFiniteSet(S), NEW x, x \notin S,
           NEW f, \A y \in S \cup {x} : f[y] \in Int
    PROVE  SumFunctionOnSet(f, S \cup {x}) = SumFunctionOnSet(f, S) + f[x]
<1> DEFINE T == S \cup {x}
<1>1. IsFiniteSet(T) /\ x \in T /\ \A y \in T : f[y] \in Int
  BY FS_AddElement
<1>2. S = T \ {x}
  OBVIOUS
<1> HIDE DEF T
<1>3. SumFunctionOnSet(f, T) = f[x] + SumFunctionOnSet(f, S)
  BY <1>1, <1>2, SumRemove
<1>4. SumFunctionOnSet(f, S) \in Int
  BY SumType
<1>5. QED
  BY <1>1, <1>3, <1>4 DEF T

(* A sum of natural numbers is a natural number. *)
LEMMA SumNat ==
    ASSUME NEW S, IsFiniteSet(S), NEW f, \A x \in S : f[x] \in Nat
    PROVE  SumFunctionOnSet(f, S) \in Nat
<1> DEFINE P == {s \in SUBSET S : SumFunctionOnSet(f, s) \in Nat}
<1>1. {} \in P
  BY SumEmpty
<1>2. ASSUME NEW s \in SUBSET S, NEW x \in S, s \in P, x \notin s
      PROVE  s \cup {x} \in P
  <2>1. IsFiniteSet(s) /\ \A y \in s \cup {x} : f[y] \in Int
    BY FS_Subset
  <2>2. SumFunctionOnSet(f, s \cup {x}) = SumFunctionOnSet(f, s) + f[x]
    BY <1>2, <2>1, SumAdd
  <2>3. f[x] \in Nat /\ SumFunctionOnSet(f, s) \in Nat
    BY <1>2
  <2>4. QED
    BY <2>2, <2>3
<1>3. S \in P
  <2> HIDE DEF P
  <2>1. QED
    BY <1>1, <1>2, FiniteInduction
<1>4. QED
  BY <1>3

(* The sum over two sets apart is the sum of their sums. *)
LEMMA SumUnion ==
    ASSUME NEW S, IsFiniteSet(S), NEW T, IsFiniteSet(T), S \cap T = {},
           NEW f, \A x \in S \cup T : f[x] \in Int
    PROVE  SumFunctionOnSet(f, S \cup T) = SumFunctionOnSet(f, S) + SumFunctionOnSet(f, T)
<1> DEFINE P == {t \in SUBSET T :
        SumFunctionOnSet(f, S \cup t) = SumFunctionOnSet(f, S) + SumFunctionOnSet(f, t)}
<1>1. SumFunctionOnSet(f, S) \in Int
  BY SumType
<1>2. {} \in P
  <2>1. S \cup {} = S
    OBVIOUS
  <2>2. QED
    BY <1>1, <2>1, SumEmpty
<1>3. ASSUME NEW t \in SUBSET T, NEW x \in T, t \in P, x \notin t
      PROVE  t \cup {x} \in P
  <2> DEFINE U == S \cup t
  <2>1. IsFiniteSet(t) /\ IsFiniteSet(U)
    BY FS_Subset, FS_Union
  <2>2. /\ x \notin U
        /\ \A y \in U \cup {x} : f[y] \in Int
        /\ \A y \in t \cup {x} : f[y] \in Int
    BY <1>3
  <2>3. S \cup (t \cup {x}) = U \cup {x}
    OBVIOUS
  <2>4. SumFunctionOnSet(f, U) = SumFunctionOnSet(f, S) + SumFunctionOnSet(f, t)
    BY <1>3
  <2> HIDE DEF U
  <2>5. SumFunctionOnSet(f, U \cup {x}) = SumFunctionOnSet(f, U) + f[x]
    BY <2>1, <2>2, SumAdd
  <2>6. SumFunctionOnSet(f, t \cup {x}) = SumFunctionOnSet(f, t) + f[x]
    BY <1>3, <2>1, <2>2, SumAdd
  <2>7. f[x] \in Int /\ SumFunctionOnSet(f, t) \in Int
    BY <2>1, <2>2, SumType
  <2>8. SumFunctionOnSet(f, U \cup {x}) = SumFunctionOnSet(f, S) + SumFunctionOnSet(f, t \cup {x})
    BY <1>1, <2>4, <2>5, <2>6, <2>7
  <2>9. t \cup {x} \in SUBSET T
    BY <1>3
  <2>10. QED
    BY <2>3, <2>8, <2>9
<1>4. T \in P
  <2> HIDE DEF P
  <2>1. QED
    BY <1>2, <1>3, FiniteInduction
<1>5. QED
  BY <1>4

(* A part of a sum of natural numbers is no larger than the whole. *)
LEMMA SumSubset ==
    ASSUME NEW S, IsFiniteSet(S), NEW T \in SUBSET S,
           NEW f, \A x \in S : f[x] \in Nat
    PROVE  SumFunctionOnSet(f, T) <= SumFunctionOnSet(f, S)
<1> DEFINE R == S \ T
<1>1. IsFiniteSet(T) /\ IsFiniteSet(R) /\ T \cap R = {} /\ T \cup R = S
  BY FS_Subset
<1> HIDE DEF R
<1>2. \A x \in T \cup R : f[x] \in Nat /\ f[x] \in Int
  BY <1>1
<1>3. SumFunctionOnSet(f, T \cup R) = SumFunctionOnSet(f, T) + SumFunctionOnSet(f, R)
  BY <1>1, <1>2, SumUnion
<1>4. SumFunctionOnSet(f, T) \in Nat /\ SumFunctionOnSet(f, R) \in Nat
  BY <1>1, <1>2, SumNat
<1>5. SumFunctionOnSet(f, S) = SumFunctionOnSet(f, T) + SumFunctionOnSet(f, R)
  BY <1>1, <1>3, Zenon
<1>6. QED
  BY <1>4, <1>5

(* A sum changes with its members. *)
LEMMA SumPut ==
    ASSUME NEW S, IsFiniteSet(S), NEW x \in S,
           NEW f, \A y \in S : f[y] \in Int,
           NEW g, \A y \in S : g[y] \in Int, \A y \in S \ {x} : g[y] = f[y]
    PROVE  SumFunctionOnSet(g, S) = SumFunctionOnSet(f, S) - f[x] + g[x]
<1> DEFINE R == S \ {x}
<1>1. IsFiniteSet(R) /\ \A y \in R : f[y] \in Int
  BY FS_RemoveElement
<1>2. SumFunctionOnSet(f, S) = f[x] + SumFunctionOnSet(f, R)
  BY SumRemove
<1>3. SumFunctionOnSet(g, S) = g[x] + SumFunctionOnSet(g, R)
  BY SumRemove
<1> HIDE DEF R
<1>4. SumFunctionOnSet(g, R) = SumFunctionOnSet(f, R)
  BY <1>1, SumCongruent DEF R
<1>5. SumFunctionOnSet(f, R) \in Int
  BY <1>1, SumType
<1>6. QED
  BY <1>2, <1>3, <1>4, <1>5

(* Sums are added member by member. *)
LEMMA SumPlus ==
    ASSUME NEW S, IsFiniteSet(S), NEW f, NEW g, NEW h,
           \A x \in S : f[x] \in Int /\ g[x] \in Int /\ h[x] = f[x] + g[x]
    PROVE  SumFunctionOnSet(h, S) = SumFunctionOnSet(f, S) + SumFunctionOnSet(g, S)
<1> DEFINE P == {s \in SUBSET S :
        SumFunctionOnSet(h, s) = SumFunctionOnSet(f, s) + SumFunctionOnSet(g, s)}
<1>1. {} \in P
  BY SumEmpty
<1>2. ASSUME NEW s \in SUBSET S, NEW x \in S, s \in P, x \notin s
      PROVE  s \cup {x} \in P
  <2>1. /\ IsFiniteSet(s)
        /\ \A y \in s \cup {x} : f[y] \in Int /\ g[y] \in Int /\ h[y] \in Int
    BY FS_Subset
  <2>2. SumFunctionOnSet(f, s \cup {x}) = SumFunctionOnSet(f, s) + f[x]
    BY <1>2, <2>1, SumAdd
  <2>3. SumFunctionOnSet(g, s \cup {x}) = SumFunctionOnSet(g, s) + g[x]
    BY <1>2, <2>1, SumAdd
  <2>4. SumFunctionOnSet(h, s \cup {x}) = SumFunctionOnSet(h, s) + h[x]
    BY <1>2, <2>1, SumAdd
  <2>5. SumFunctionOnSet(f, s) \in Int /\ SumFunctionOnSet(g, s) \in Int
    BY <2>1, SumType
  <2>6. SumFunctionOnSet(h, s) = SumFunctionOnSet(f, s) + SumFunctionOnSet(g, s)
    BY <1>2
  <2>7. f[x] \in Int /\ g[x] \in Int /\ h[x] = f[x] + g[x]
    OBVIOUS
  <2>8. SumFunctionOnSet(h, s \cup {x})
            = SumFunctionOnSet(f, s \cup {x}) + SumFunctionOnSet(g, s \cup {x})
    BY <2>2, <2>3, <2>4, <2>5, <2>6, <2>7
  <2>9. QED
    BY <2>8
<1>3. S \in P
  <2> HIDE DEF P
  <2>1. QED
    BY <1>1, <1>2, FiniteInduction
<1>4. QED
  BY <1>3

(* The sums of f over the members of S of each kind. *)
KindSums(f, S, kind, K) == [k \in K |-> SumFunctionOnSet(f, {x \in S : kind[x] = k})]

(* A sum may be taken kind by kind. *)
LEMMA SumByKind ==
    ASSUME NEW K, IsFiniteSet(K), NEW S, IsFiniteSet(S),
           NEW kind, \A x \in S : kind[x] \in K,
           NEW f, \A x \in S : f[x] \in Int
    PROVE  SumFunctionOnSet(KindSums(f, S, kind, K), K) = SumFunctionOnSet(f, S)
<1> DEFINE g == KindSums(f, S, kind, K)
<1>0. \A k \in K : g[k] = SumFunctionOnSet(f, {x \in S : kind[x] = k})
  BY DEF KindSums
<1> HIDE DEF g
<1> DEFINE Of(s) == {x \in S : kind[x] \in s}
           P == {s \in SUBSET K : SumFunctionOnSet(g, s) = SumFunctionOnSet(f, Of(s))}
<1>1. {} \in P
  <2>1. Of({}) = {}
    OBVIOUS
  <2>2. QED
    BY <2>1, SumEmpty
<1>2. ASSUME NEW s \in SUBSET K, NEW k \in K, s \in P, k \notin s
      PROVE  s \cup {k} \in P
  <2> DEFINE T == {x \in S : kind[x] = k}
  <2>1. Of(s \cup {k}) = Of(s) \cup T /\ Of(s) \cap T = {}
    BY <1>2
  <2>2. /\ IsFiniteSet(Of(s)) /\ IsFiniteSet(T) /\ IsFiniteSet(s)
        /\ \A x \in Of(s) \cup T : f[x] \in Int
    BY FS_Subset
  <2>3. \A j \in s \cup {k} : g[j] \in Int
    <3> SUFFICES ASSUME NEW j \in K PROVE g[j] \in Int
      OBVIOUS
    <3> DEFINE J == {x \in S : kind[x] = j}
    <3>1. g[j] = SumFunctionOnSet(f, J) /\ \A x \in J : f[x] \in Int
      BY <1>0
    <3>2. IsFiniteSet(J)
      BY FS_Subset
    <3> HIDE DEF J
    <3>3. QED
      BY <3>1, <3>2, SumType
  <2>4. g[k] = SumFunctionOnSet(f, T)
    BY <1>0
  <2>5. SumFunctionOnSet(g, s) = SumFunctionOnSet(f, Of(s))
    BY <1>2
  <2> HIDE DEF Of, T
  <2>6. SumFunctionOnSet(f, Of(s) \cup T) = SumFunctionOnSet(f, Of(s)) + SumFunctionOnSet(f, T)
    BY <2>1, <2>2, SumUnion
  <2>7. SumFunctionOnSet(g, s \cup {k}) = SumFunctionOnSet(g, s) + g[k]
    BY <1>2, <2>2, <2>3, SumAdd
  <2>8. SumFunctionOnSet(g, s \cup {k}) = SumFunctionOnSet(f, Of(s \cup {k}))
    BY <2>1, <2>4, <2>5, <2>6, <2>7
  <2>9. QED
    BY <2>8
<1>3. K \in P
  <2> HIDE DEF P
  <2>1. QED
    BY <1>1, <1>2, FiniteInduction
<1>4. Of(K) = S
  OBVIOUS
<1>5. QED
  BY <1>3, <1>4 DEF g

(* A number of members, none of which is above a bound. *)
LEMMA SumBound ==
    ASSUME NEW S, IsFiniteSet(S), NEW c \in Nat, NEW f,
           \A x \in S : f[x] \in Int /\ f[x] <= c
    PROVE  SumFunctionOnSet(f, S) <= c * Cardinality(S)
<1> DEFINE P == {s \in SUBSET S : SumFunctionOnSet(f, s) <= c * Cardinality(s)}
<1>1. {} \in P
  <2>1. Cardinality({}) = 0
    BY FS_EmptySet
  <2>2. QED
    BY <2>1, SumEmpty
<1>2. ASSUME NEW s \in SUBSET S, NEW x \in S, s \in P, x \notin s
      PROVE  s \cup {x} \in P
  <2>1. IsFiniteSet(s) /\ \A y \in s \cup {x} : f[y] \in Int
    BY FS_Subset
  <2>2. SumFunctionOnSet(f, s \cup {x}) = SumFunctionOnSet(f, s) + f[x]
    BY <1>2, <2>1, SumAdd
  <2>3. Cardinality(s \cup {x}) = Cardinality(s) + 1 /\ Cardinality(s) \in Nat
    BY <1>2, <2>1, FS_AddElement, FS_CardinalityType
  <2>4. SumFunctionOnSet(f, s) \in Int
    BY <2>1, SumType
  <2>5. f[x] \in Int /\ f[x] <= c /\ SumFunctionOnSet(f, s) <= c * Cardinality(s)
    BY <1>2
  <2> DEFINE n == Cardinality(s)
  <2>0. n \in Nat
    BY <2>3
  <2> HIDE DEF n
  <2>6. c * (n + 1) = c * n + c /\ c * n \in Int
    BY <2>0
  <2>7. SumFunctionOnSet(f, s \cup {x}) <= c * (n + 1)
    BY <2>2, <2>4, <2>5, <2>6 DEF n
  <2>8. QED
    BY <2>3, <2>7 DEF n
<1>3. S \in P
  <2> HIDE DEF P
  <2>1. QED
    BY <1>1, <1>2, FiniteInduction
<1>4. QED
  BY <1>3

(* A common factor may be taken out of a sum. *)
LEMMA SumTimes ==
    ASSUME NEW S, IsFiniteSet(S), NEW c \in Int, NEW f, \A x \in S : f[x] \in Int,
           NEW g, \A x \in S : g[x] = f[x] * c
    PROVE  SumFunctionOnSet(g, S) = SumFunctionOnSet(f, S) * c
<1> DEFINE P == {s \in SUBSET S : SumFunctionOnSet(g, s) = SumFunctionOnSet(f, s) * c}
<1>0. \A x \in S : g[x] \in Int
  <2> SUFFICES ASSUME NEW x \in S PROVE g[x] \in Int
    OBVIOUS
  <2> DEFINE a == f[x]
  <2>1. a \in Int /\ g[x] = a * c
    OBVIOUS
  <2> HIDE DEF a
  <2>2. QED
    BY <2>1
<1>1. {} \in P
  BY SumEmpty
<1>2. ASSUME NEW s \in SUBSET S, NEW x \in S, s \in P, x \notin s
      PROVE  s \cup {x} \in P
  <2>1. IsFiniteSet(s) /\ \A y \in s \cup {x} : f[y] \in Int /\ g[y] \in Int
    BY <1>0, FS_Subset
  <2>2. SumFunctionOnSet(f, s \cup {x}) = SumFunctionOnSet(f, s) + f[x]
    BY <1>2, <2>1, SumAdd
  <2>3. SumFunctionOnSet(g, s \cup {x}) = SumFunctionOnSet(g, s) + g[x]
    BY <1>2, <2>1, SumAdd
  <2> DEFINE a == SumFunctionOnSet(f, s)
             b == f[x]
  <2>4. a \in Int /\ b \in Int
    BY <2>1, SumType
  <2>5. SumFunctionOnSet(g, s) = a * c /\ g[x] = b * c
    BY <1>2
  <2> HIDE DEF a, b
  <2>6. a * c + b * c = (a + b) * c
    BY <2>4
  <2>7. SumFunctionOnSet(g, s \cup {x}) = SumFunctionOnSet(f, s \cup {x}) * c
    BY <2>2, <2>3, <2>5, <2>6 DEF a, b
  <2>8. QED
    BY <2>7
<1>3. S \in P
  <2> HIDE DEF P
  <2>1. QED
    BY <1>1, <1>2, FiniteInduction
<1>4. QED
  BY <1>3

(* Of members counted more than once, a set counts one. *)
LEMMA SumImage ==
    ASSUME NEW S, IsFiniteSet(S), NEW to, NEW T, \A t \in T : \E x \in S : t = to[x],
           NEW f, \A t \in T : f[t] \in Nat,
           NEW g, \A x \in S : g[x] \in Nat, \A x \in S : to[x] \in T => g[x] = f[to[x]]
    PROVE  SumFunctionOnSet(f, T) <= SumFunctionOnSet(g, S)
<1> DEFINE of == [t \in T |-> CHOOSE x \in S : t = to[x]]
           U == {of[t] : t \in T}
           kind == [x \in U |-> to[x]]
<1>1. \A t \in T : of[t] \in S /\ to[of[t]] = t
  OBVIOUS
<1>2. U \in SUBSET S /\ IsFiniteSet(U)
  <2>1. U \in SUBSET S
    BY <1>1
  <2>2. QED
    BY <2>1, FS_Subset
<1>3. IsFiniteSet(T)
  <2>1. kind \in Surjection(U, T)
    BY <1>1 DEF Surjection
  <2>2. QED
    BY <1>2, <2>1, FS_Surjection
<1>4. \A t \in T : {x \in U : kind[x] = t} = {of[t]}
  BY <1>1
<1>5. \A t \in T : KindSums(g, U, kind, T)[t] = f[t]
  <2> SUFFICES ASSUME NEW t \in T
               PROVE  SumFunctionOnSet(g, {of[t]}) = f[t]
    BY <1>4 DEF KindSums
  <2>1. of[t] \in S /\ g[of[t]] = f[t] /\ f[t] \in Nat
    BY <1>1
  <2> HIDE DEF of
  <2> DEFINE x == of[t]
  <2>2. g[x] \in Nat
    BY <2>1
  <2> HIDE DEF x
  <2>6. IsFiniteSet({x})
    BY FS_Singleton
  <2>7. {x} \ {x} = {} /\ x \in {x} /\ \A y \in {x} : g[y] \in Int
    BY <2>2
  <2>3. SumFunctionOnSet(g, {x}) = g[x] + SumFunctionOnSet(g, {})
    BY <2>6, <2>7, SumRemove
  <2>4. SumFunctionOnSet(g, {}) = 0
    BY SumEmpty
  <2>5. QED
    BY <2>1, <2>3, <2>4 DEF x
<1>6. \A x \in U : kind[x] \in T
  BY <1>1
<1>9. \A x \in U : g[x] \in Int
  BY <1>2
<1> HIDE DEF kind, U
<1>7. SumFunctionOnSet(f, T) = SumFunctionOnSet(g, U)
  <2>1. SumFunctionOnSet(KindSums(g, U, kind, T), T) = SumFunctionOnSet(g, U)
    BY <1>2, <1>3, <1>6, <1>9, SumByKind
  <2>2. SumFunctionOnSet(KindSums(g, U, kind, T), T) = SumFunctionOnSet(f, T)
    BY <1>3, <1>5, SumCongruent
  <2>3. QED
    BY <2>1, <2>2
<1>8. SumFunctionOnSet(g, U) <= SumFunctionOnSet(g, S)
  BY <1>2, SumSubset
<1>10. QED
  BY <1>7, <1>8

(* What a division leaves out. *)
LEMMA DivBound ==
    ASSUME NEW a \in Nat, NEW b \in Nat \ {0}
    PROVE  a \div b \in Nat /\ b * (a \div b) <= a
OBVIOUS

(* A common factor is left out of a comparison. *)
LEMMA Cancel ==
    ASSUME NEW a \in Nat, NEW b \in Nat, NEW u \in Nat \ {0}, u * a <= b * u
    PROVE  a <= b
<1> SUFFICES ASSUME a >= b + 1 PROVE FALSE
  OBVIOUS
<1>1. PICK d \in Nat : a = b + 1 + d
  <2>1. a - (b + 1) \in Nat /\ a = b + 1 + (a - (b + 1))
    OBVIOUS
  <2>2. QED
    BY <2>1
<1>2. u * (b + 1 + d) = b * u + u + u * d /\ u * d \in Nat /\ b * u \in Nat
  OBVIOUS
<1>3. QED
  BY <1>1, <1>2

(* Shares of a number of coins, by what each counts for and rounded down, are
   together within the coins. *)
LEMMA SharesWithin ==
    ASSUME NEW S, IsFiniteSet(S), NEW u, \A x \in S : u[x] \in Nat,
           NEW units \in Nat \ {0}, units = SumFunctionOnSet(u, S), NEW coins \in Nat,
           NEW q, \A x \in S : q[x] = (coins * u[x]) \div units
    PROVE  /\ \A x \in S : q[x] \in Nat
           /\ SumFunctionOnSet(q, S) \in Nat /\ SumFunctionOnSet(q, S) <= coins
<1> DEFINE P == {s \in SUBSET S :
        units * SumFunctionOnSet(q, s) <= coins * SumFunctionOnSet(u, s)}
<1>1. \A x \in S : q[x] \in Nat /\ units * q[x] <= coins * u[x]
  <2> SUFFICES ASSUME NEW x \in S PROVE q[x] \in Nat /\ units * q[x] <= coins * u[x]
    OBVIOUS
  <2> DEFINE a == coins * u[x]
  <2>1. a \in Nat
    <3>1. u[x] \in Nat
      OBVIOUS
    <3>2. QED
      BY <3>1
  <2>2. q[x] = a \div units
    OBVIOUS
  <2> HIDE DEF a
  <2>3. a \div units \in Nat /\ units * (a \div units) <= a
    BY <2>1, DivBound
  <2>4. QED
    BY <2>2, <2>3 DEF a
<1>2. {} \in P
  BY SumEmpty
<1>3. ASSUME NEW s \in SUBSET S, NEW x \in S, s \in P, x \notin s
      PROVE  s \cup {x} \in P
  <2>1. /\ IsFiniteSet(s)
        /\ \A y \in s \cup {x} : q[y] \in Int /\ u[y] \in Int
        /\ \A y \in s : q[y] \in Nat /\ u[y] \in Nat
    BY <1>1, FS_Subset
  <2>2. SumFunctionOnSet(q, s \cup {x}) = SumFunctionOnSet(q, s) + q[x]
    BY <1>3, <2>1, SumAdd
  <2>3. SumFunctionOnSet(u, s \cup {x}) = SumFunctionOnSet(u, s) + u[x]
    BY <1>3, <2>1, SumAdd
  <2> DEFINE Q == SumFunctionOnSet(q, s)
             V == SumFunctionOnSet(u, s)
             r == q[x]
             w == u[x]
  <2>4. /\ Q \in Nat /\ V \in Nat /\ r \in Nat /\ w \in Nat
        /\ units * Q <= coins * V /\ units * r <= coins * w
    BY <1>1, <1>3, <2>1, SumNat
  <2> HIDE DEF Q, V, r, w
  <2>5. units * (Q + r) <= coins * (V + w)
    <3>1. units * (Q + r) = units * Q + units * r /\ coins * (V + w) = coins * V + coins * w
      BY <2>4
    <3>2. units * Q \in Nat /\ units * r \in Nat /\ coins * V \in Nat /\ coins * w \in Nat
      BY <2>4
    <3>3. QED
      BY <2>4, <3>1, <3>2
  <2>6. units * SumFunctionOnSet(q, s \cup {x}) <= coins * SumFunctionOnSet(u, s \cup {x})
    BY <2>2, <2>3, <2>5 DEF Q, V, r, w
  <2>7. QED
    BY <2>6
<1>4. S \in P
  <2> HIDE DEF P
  <2>1. QED
    BY <1>2, <1>3, FiniteInduction
<1>5. units * SumFunctionOnSet(q, S) <= coins * units
  BY <1>4
<1>6. SumFunctionOnSet(q, S) \in Nat
  BY <1>1, SumNat
<1>7. SumFunctionOnSet(q, S) <= coins
  BY <1>5, <1>6, Cancel
<1>8. QED
  BY <1>1, <1>6, <1>7
-----------------------------------------------------------------------------
(* The amounts that Total adds up. *)
Coin(list) == [i \in DOMAIN list |-> list[i][2]]

(* The positions of a list are finitely many. *)
LEMMA CountTo == ASSUME NEW k \in Nat PROVE IsFiniteSet(1 .. k)
BY FS_Interval

(* The amounts of a list of delegations, and their sum. *)
LEMMA CoinNat ==
    ASSUME NEW list \in Seq(Delegation)
    PROVE  /\ Len(list) \in Nat
           /\ DOMAIN Coin(list) = 1 .. Len(list)
           /\ IsFiniteSet(1 .. Len(list))
           /\ \A i \in 1 .. Len(list) : Coin(list)[i] = list[i][2] /\ Coin(list)[i] \in Nat
           /\ Total(list) = SumFunctionOnSet(Coin(list), 1 .. Len(list))
<1>1. Len(list) \in Nat /\ DOMAIN list = 1 .. Len(list)
  BY LenProperties
<1>2. \A i \in 1 .. Len(list) : list[i] \in Delegation
  BY ElementOfSeq
<1>3. IsFiniteSet(1 .. Len(list))
  BY <1>1, FS_Interval
<1>4. DOMAIN Coin(list) = 1 .. Len(list)
  BY <1>1 DEF Coin
<1>5. Total(list) = SumFunctionOnSet(Coin(list), DOMAIN Coin(list))
  BY DEF Total, SumFunction, Coin
<1>6. QED
  BY <1>1, <1>2, <1>3, <1>4, <1>5 DEF Coin, Delegation

(* The coins of a list are a natural number. *)
LEMMA TotalNat ==
    ASSUME NEW list \in Seq(Delegation)
    PROVE  Total(list) \in Nat
BY CoinNat, SumNat

(* A list of no delegations tells of no coins. *)
LEMMA TotalEmpty == Total(<< >>) = 0
<1>1. << >> \in Seq(Delegation) /\ Len(<< >>) = 0 /\ 1 .. 0 = {}
  BY EmptySeq
<1>2. Total(<< >>) = SumFunctionOnSet(Coin(<< >>), {})
  BY <1>1, CoinNat
<1>3. QED
  BY <1>2, SumEmpty

(* Two lists, one after the other, tell of the coins of both. *)
LEMMA TotalConcat ==
    ASSUME NEW s \in Seq(Delegation), NEW t \in Seq(Delegation)
    PROVE  /\ s \o t \in Seq(Delegation)
           /\ Total(s \o t) = Total(s) + Total(t)
<1> DEFINE n == Len(s)
           m == Len(t)
           c == s \o t
           f == Coin(s)
           g == Coin(t)
           h == Coin(c)
<1>1. /\ n \in Nat /\ m \in Nat
      /\ c \in Seq(Delegation)
      /\ Len(c) = n + m
      /\ \A i \in 1 .. n + m : c[i] = IF i <= n THEN s[i] ELSE t[i - n]
  BY LenProperties, ConcatProperties
<1>2. \A i \in 1 .. n : f[i] \in Nat /\ f[i] = s[i][2]
  BY CoinNat
<1>3. \A i \in 1 .. m : g[i] \in Nat /\ g[i] = t[i][2]
  BY CoinNat
<1>4. \A i \in 1 .. n + m : h[i] \in Nat /\ h[i] = IF i <= n THEN f[i] ELSE g[i - n]
  <2>1. \A i \in 1 .. n + m : h[i] \in Nat /\ h[i] = c[i][2]
    BY <1>1, CoinNat
  <2> HIDE DEF n, m, c, f, g, h
  <2>2. SUFFICES ASSUME NEW i \in 1 .. n + m
                 PROVE  h[i] = IF i <= n THEN f[i] ELSE g[i - n]
    BY <2>1
  <2>3. CASE i <= n
    <3>1. i \in 1 .. n
      BY <1>1, <2>3
    <3>2. c[i] = s[i]
      BY <1>1, <2>3
    <3>3. QED
      BY <1>2, <2>1, <2>3, <3>1, <3>2
  <2>4. CASE i > n
    <3>1. i - n \in 1 .. m /\ ~(i <= n)
      BY <1>1, <2>4
    <3>2. c[i] = t[i - n]
      BY <1>1, <3>1
    <3>3. h[i] = t[i - n][2] /\ g[i - n] = t[i - n][2]
      BY <1>3, <2>1, <3>1, <3>2
    <3>4. QED
      BY <3>1, <3>3
  <2>5. QED
    BY <1>1, <2>3, <2>4
<1> DEFINE P == {k \in Nat : k <= m =>
        SumFunctionOnSet(h, 1 .. n + k) = SumFunctionOnSet(f, 1 .. n) + SumFunctionOnSet(g, 1 .. k)}
<1>5. 0 \in P
  <2>1. SumFunctionOnSet(h, 1 .. n) = SumFunctionOnSet(f, 1 .. n)
    <3>1. \A i \in 1 .. n : h[i] = f[i]
      BY <1>1, <1>4
    <3>2. IsFiniteSet(1 .. n)
      BY <1>1, FS_Interval
    <3> HIDE DEF f, h, n, c
    <3>3. QED
      BY <3>1, <3>2, SumCongruent
  <2>2. SumFunctionOnSet(g, 1 .. 0) = 0
    <3>1. 1 .. 0 = {}
      OBVIOUS
    <3>2. QED
      BY <3>1, SumEmpty
  <2>3. SumFunctionOnSet(f, 1 .. n) \in Nat
    BY <1>1, CoinNat, SumNat
  <2>4. n + 0 = n
    BY <1>1
  <2> HIDE DEF f, g, h, n, m
  <2>5. QED
    BY <2>1, <2>2, <2>3, <2>4
<1>6. ASSUME NEW k \in Nat, k \in P
      PROVE  k + 1 \in P
  <2> HIDE DEF f, g, h, n, m
  <2> SUFFICES ASSUME k + 1 <= m
               PROVE  SumFunctionOnSet(h, 1 .. n + (k + 1))
                        = SumFunctionOnSet(f, 1 .. n) + SumFunctionOnSet(g, 1 .. k + 1)
    OBVIOUS
  <2>1. SumFunctionOnSet(h, 1 .. n + k)
            = SumFunctionOnSet(f, 1 .. n) + SumFunctionOnSet(g, 1 .. k)
    BY <1>1, <1>6
  <2>2. SumFunctionOnSet(h, 1 .. n + (k + 1)) = SumFunctionOnSet(h, 1 .. n + k) + h[n + k + 1]
    <3> DEFINE S == 1 .. n + k
               x == n + k + 1
    <3>1. IsFiniteSet(S) /\ x \notin S
      BY <1>1, CountTo
    <3>2. 1 .. n + (k + 1) = S \cup {x}
      BY <1>1
    <3>3. \A i \in S \cup {x} : h[i] \in Int
      BY <1>1, <1>4
    <3> HIDE DEF S, x
    <3>4. SumFunctionOnSet(h, S \cup {x}) = SumFunctionOnSet(h, S) + h[x]
      BY <3>1, <3>3, SumAdd
    <3>5. QED
      BY <3>2, <3>4, Zenon DEF S, x
  <2>3. SumFunctionOnSet(g, 1 .. k + 1) = SumFunctionOnSet(g, 1 .. k) + g[k + 1]
    <3> DEFINE S == 1 .. k
               x == k + 1
    <3>1. IsFiniteSet(S) /\ x \notin S
      BY <1>1, CountTo
    <3>2. 1 .. k + 1 = S \cup {x}
      BY <1>1
    <3>3. \A i \in S \cup {x} : g[i] \in Int
      BY <1>1, <1>3
    <3> HIDE DEF S, x
    <3>4. SumFunctionOnSet(g, S \cup {x}) = SumFunctionOnSet(g, S) + g[x]
      BY <3>1, <3>3, SumAdd
    <3>5. QED
      BY <3>2, <3>4, Zenon DEF S, x
  <2>4. h[n + k + 1] = g[k + 1] /\ g[k + 1] \in Nat
    BY <1>1, <1>3, <1>4
  <2>5. SumFunctionOnSet(f, 1 .. n) \in Int /\ SumFunctionOnSet(g, 1 .. k) \in Int
    <3>1. IsFiniteSet(1 .. n) /\ IsFiniteSet(1 .. k)
      BY <1>1, CountTo
    <3>2. \A i \in 1 .. n : f[i] \in Int
      BY <1>2
    <3>3. \A i \in 1 .. k : g[i] \in Int
      BY <1>1, <1>3
    <3>4. QED
      BY <3>1, <3>2, <3>3, SumType
  <2>6. QED
    BY <2>1, <2>2, <2>3, <2>4, <2>5
<1>7. Nat \subseteq P
  <2> HIDE DEF P
  <2>1. QED
    BY <1>5, <1>6, SetInduction
<1>8. SumFunctionOnSet(h, 1 .. n + m) = SumFunctionOnSet(f, 1 .. n) + SumFunctionOnSet(g, 1 .. m)
  BY <1>1, <1>7
<1>9. QED
  BY <1>1, <1>8, CoinNat

(* A list of one delegation tells of its coins. *)
LEMMA TotalSingle ==
    ASSUME NEW d \in Delegation
    PROVE  <<d>> \in Seq(Delegation) /\ Total(<<d>>) = d[2]
<1> DEFINE list == <<d>>
           f == Coin(list)
<1>1. list \in Seq(Delegation) /\ Len(list) = 1 /\ list[1] = d
  OBVIOUS
<1> HIDE DEF list
<1>2. f[1] = d[2] /\ f[1] \in Nat /\ Total(list) = SumFunctionOnSet(f, 1 .. 1)
  BY <1>1, CoinNat
<1> HIDE DEF f
<1>3. SumFunctionOnSet(f, {} \cup {1}) = SumFunctionOnSet(f, {}) + f[1]
  <2>1. IsFiniteSet({}) /\ 1 \notin {} /\ \A y \in {} \cup {1} : f[y] \in Int
    BY <1>2, FS_EmptySet
  <2>2. QED
    BY <2>1, SumAdd
<1>4. 1 .. 1 = {} \cup {1}
  OBVIOUS
<1>5. SumFunctionOnSet(f, 1 .. 1) = SumFunctionOnSet(f, {}) + f[1]
  BY <1>3, <1>4, Zenon
<1>6. QED
  BY <1>1, <1>2, <1>5, SumEmpty DEF list

(* A delegation more adds its amount: delegated_to_sum and delegated_from_sum. *)
LEMMA TotalAppend ==
    ASSUME NEW s \in Seq(Delegation), NEW d \in Delegation
    PROVE  /\ Append(s, d) \in Seq(Delegation)
           /\ Total(Append(s, d)) = Total(s) + d[2]
<1>1. Append(s, d) = s \o <<d>>
  BY AppendIsConcat
<1>2. QED
  BY <1>1, TotalSingle, TotalConcat

(* A list around one of its positions. *)
LEMMA Around ==
    ASSUME NEW S, NEW s \in Seq(S), NEW i \in 1 .. Len(s)
    PROVE  LET A == SubSeq(s, 1, i - 1)
               B == SubSeq(s, i + 1, Len(s))
           IN  /\ A \in Seq(S) /\ B \in Seq(S)
               /\ <<s[i]>> \in Seq(S)
               /\ s = A \o (<<s[i]>> \o B)
               /\ RemoveAt(s, i) = A \o B
<1> DEFINE A == SubSeq(s, 1, i - 1)
           B == SubSeq(s, i + 1, Len(s))
<1>1. Len(s) \in Nat /\ i \in Int /\ \A j \in 1 .. Len(s) : s[j] \in S
  BY LenProperties, ElementOfSeq
<1>2. A \in Seq(S)
  <2>1. i - 1 \in Int /\ \A j \in 1 .. i - 1 : s[j] \in S
    BY <1>1
  <2>2. QED
    BY <2>1, SubSeqProperties
<1>3. B \in Seq(S)
  <2>1. i + 1 \in Int /\ \A j \in i + 1 .. Len(s) : s[j] \in S
    BY <1>1
  <2>2. QED
    BY <1>1, <2>1, SubSeqProperties
<1>4. SubSeq(s, i, Len(s)) = <<s[i]>> \o B
  BY <1>1, SubSeqRecursiveFirst
<1>5. A \o SubSeq(s, i, Len(s)) = s
  <2>1. 1 \in 1 .. Len(s) + 1 /\ i - 1 \in 0 .. Len(s) /\ Len(s) \in (i - 1) .. Len(s)
    BY <1>1
  <2>2. 1 - 1 = 0 /\ (i - 1) + 1 = i
    BY <1>1
  <2>3. SubSeq(s, 1, i - 1) \o SubSeq(s, (i - 1) + 1, Len(s)) = SubSeq(s, 1, Len(s))
    BY <2>1, <2>2, ConcatAdjacentSubSeq
  <2>4. QED
    BY <2>2, <2>3, SubSeqFull
<1>6. RemoveAt(s, i) = A \o B
  BY DEF RemoveAt
<1>7. <<s[i]>> \in Seq(S)
  <2>1. s[i] \in S
    BY <1>1
  <2>2. QED
    BY <2>1
<1> HIDE DEF A, B
<1>8. s = A \o (<<s[i]>> \o B)
  BY <1>4, <1>5
<1>9. QED
  BY <1>2, <1>3, <1>6, <1>7, <1>8 DEF A, B

(* A delegation taken out of a list takes its amount from the sum. *)
LEMMA TotalRemove ==
    ASSUME NEW s \in Seq(Delegation), NEW i \in 1 .. Len(s)
    PROVE  /\ RemoveAt(s, i) \in Seq(Delegation)
           /\ s[i] \in Delegation
           /\ Total(RemoveAt(s, i)) = Total(s) - s[i][2]
<1> DEFINE A == SubSeq(s, 1, i - 1)
           B == SubSeq(s, i + 1, Len(s))
<1>1. /\ A \in Seq(Delegation) /\ B \in Seq(Delegation)
      /\ s = A \o (<<s[i]>> \o B)
      /\ RemoveAt(s, i) = A \o B
  BY Around
<1> HIDE DEF A, B
<1>2. s[i] \in Delegation
  BY ElementOfSeq
<1> DEFINE d == s[i]
           T == <<d>> \o B
<1>3. <<d>> \in Seq(Delegation) /\ Total(<<d>>) = d[2]
  BY <1>2, TotalSingle
<1>4. T \in Seq(Delegation) /\ Total(T) = d[2] + Total(B)
  BY <1>1, <1>3, TotalConcat
<1> HIDE DEF T
<1>5. Total(A \o T) = Total(A) + Total(T) /\ Total(A \o B) = Total(A) + Total(B)
  BY <1>1, <1>4, TotalConcat
<1>6. Total(s) = Total(A \o T)
  BY <1>1 DEF T
<1>7. A \o B \in Seq(Delegation)
  BY <1>1, TotalConcat
<1>8. Total(A) \in Nat /\ Total(B) \in Nat /\ d[2] \in Nat
  BY <1>1, <1>2, TotalNat DEF Delegation
<1> HIDE DEF d
<1>9. QED
  BY <1>1, <1>2, <1>4, <1>5, <1>6, <1>7, <1>8 DEF d

-----------------------------------------------------------------------------
(* A set of positions has a last one. *)
LEMMA LastOf ==
    ASSUME NEW n \in Nat, NEW s \in SUBSET (1 .. n), s # {}
    PROVE  \E x \in s : \A y \in s : y <= x
<1> DEFINE P == {k \in Nat : \A t \in SUBSET (1 .. k) : t # {} =>
                                \E x \in t : \A y \in t : y <= x}
<1>1. 0 \in P
  <2>1. 1 .. 0 = {}
    OBVIOUS
  <2>2. \A t \in SUBSET {} : t = {}
    OBVIOUS
  <2>3. QED
    BY <2>1, <2>2
<1>2. ASSUME NEW k \in Nat, k \in P
      PROVE  k + 1 \in P
  <2> SUFFICES ASSUME NEW t \in SUBSET (1 .. k + 1), t # {}
               PROVE  \E x \in t : \A y \in t : y <= x
    OBVIOUS
  <2>1. CASE k + 1 \in t
    BY <2>1
  <2>2. CASE k + 1 \notin t
    <3>1. t \in SUBSET (1 .. k)
      BY <2>2
    <3>2. QED
      BY <1>2, <3>1
  <2>3. QED
    BY <2>1, <2>2
<1>3. Nat \subseteq P
  <2> HIDE DEF P
  <2>1. QED
    BY <1>1, <1>2, SetInduction
<1>4. QED
  BY <1>3

(* The delegation taken back is one that names the address, and none after it does. *)
LEMMA LastNamingIn ==
    ASSUME NEW list \in Seq(Delegation), NEW a, Naming(list, a) # {}
    PROVE  /\ LastNaming(list, a) \in 1 .. Len(list)
           /\ list[LastNaming(list, a)][1] = a
           /\ \A j \in 1 .. Len(list) : j > LastNaming(list, a) => list[j][1] # a
<1>1. DOMAIN list = 1 .. Len(list) /\ Len(list) \in Nat
  BY LenProperties
<1>2. Naming(list, a) \in SUBSET (1 .. Len(list))
  BY <1>1 DEF Naming
<1>3. \E i \in Naming(list, a) : \A j \in Naming(list, a) : j <= i
  <2> DEFINE s == Naming(list, a)
  <2> HIDE DEF s
  <2>1. QED
    BY <1>1, <1>2, LastOf DEF s
<1>4. /\ LastNaming(list, a) \in Naming(list, a)
      /\ \A j \in Naming(list, a) : j <= LastNaming(list, a)
  BY <1>3 DEF LastNaming
<1>5. QED
  BY <1>1, <1>2, <1>4 DEF Naming

-----------------------------------------------------------------------------
(* How the amounts of a set of positions follow from those of smaller ones. *)
AmountsStep(list, a, s, g) ==
    IF s = {} THEN << >>
    ELSE IF list[Max(s)][1] = a THEN Append(g[s \ {Max(s)}], list[Max(s)][2])
    ELSE g[s \ {Max(s)}]

(* g are the amounts of the sets of positions of the list. *)
AreAmounts(list, a, g) == g = [s \in SUBSET DOMAIN list |-> AmountsStep(list, a, s, g)]

(* A set of positions has a largest one, which Max returns. *)
LEMMA MaxIn ==
    ASSUME NEW n \in Nat, NEW s \in SUBSET (1 .. n), s # {}
    PROVE  Max(s) \in s /\ \A y \in s : Max(s) >= y
<1>1. PICK x \in s : \A y \in s : y <= x
  BY LastOf
<1>2. \A y \in s : x >= y
  BY <1>1
<1>3. QED
  BY <1>2 DEF Max

(* The amounts of the sets of positions exist: the recursion of the fold ends. *)
LEMMA AmountsExist ==
    ASSUME NEW list \in Seq(Delegation), NEW a
    PROVE  \E g : AreAmounts(list, a, g)
<1> DEFINE S == DOMAIN list
<1>0. /\ S = 1 .. Len(list) /\ Len(list) \in Nat /\ IsFiniteSet(S)
      /\ \A s \in SUBSET S : s # {} => Max(s) \in s
  BY LenProperties, CountTo, MaxIn
<1> HIDE DEF S
<1> DEFINE N == {n \in Nat : \E g : \A s \in SUBSET S :
                    Cardinality(s) <= n => g[s] = AmountsStep(list, a, s, g)}
<1>1. \A s \in SUBSET S : IsFiniteSet(s) /\ Cardinality(s) \in Nat
  BY <1>0, FS_Subset, FS_CardinalityType
<1>2. 0 \in N
  <2> DEFINE none == [s \in SUBSET S |-> << >>]
  <2>1. \A s \in SUBSET S : Cardinality(s) <= 0 => none[s] = AmountsStep(list, a, s, none)
    BY <1>1, FS_EmptySet DEF AmountsStep
  <2>2. QED
    BY <2>1
<1>3. ASSUME NEW n \in Nat, n \in N
      PROVE  n + 1 \in N
  <2>1. PICK g : \A s \in SUBSET S : Cardinality(s) <= n => g[s] = AmountsStep(list, a, s, g)
    BY <1>3
  <2> DEFINE h == [s \in SUBSET S |-> AmountsStep(list, a, s, g)]
  <2>2. ASSUME NEW s \in SUBSET S, Cardinality(s) <= n + 1
        PROVE  h[s] = AmountsStep(list, a, s, h)
    <3>1. CASE s = {}
      BY <3>1 DEF AmountsStep
    <3>2. CASE s # {}
      <4> DEFINE r == s \ {Max(s)}
      <4>1. Max(s) \in s
        BY <1>0, <3>2
      <4>2. r \in SUBSET S /\ Cardinality(r) <= n
        BY <1>1, <2>2, <4>1, FS_RemoveElement
      <4>3. h[r] = g[r]
        BY <2>1, <4>2
      <4>4. h[s] = AmountsStep(list, a, s, g)
        OBVIOUS
      <4> HIDE DEF h
      <4>5. QED
        BY <3>2, <4>3, <4>4 DEF AmountsStep
    <3>3. QED
      BY <3>1, <3>2
  <2> HIDE DEF h
  <2>3. QED
    BY <2>2
<1>4. Nat \subseteq N
  <2> HIDE DEF N
  <2>1. QED
    BY <1>2, <1>3, SetInduction
<1>5. PICK g : \A s \in SUBSET S :
                    Cardinality(s) <= Cardinality(S) => g[s] = AmountsStep(list, a, s, g)
  BY <1>1, <1>4
<1>6. \A s \in SUBSET S : g[s] = AmountsStep(list, a, s, g)
  BY <1>0, <1>5, FS_Subset
<1> DEFINE h == [s \in SUBSET S |-> AmountsStep(list, a, s, g)]
<1>7. ASSUME NEW s \in SUBSET S
      PROVE  AmountsStep(list, a, s, h) = AmountsStep(list, a, s, g)
  <2>1. CASE s = {}
    BY <2>1 DEF AmountsStep
  <2>2. CASE s # {}
    <3>1. h[s \ {Max(s)}] = g[s \ {Max(s)}]
      BY <1>6
    <3> HIDE DEF h
    <3>2. QED
      BY <2>2, <3>1 DEF AmountsStep
  <2>3. QED
    BY <2>1, <2>2
<1>8. h = [s \in SUBSET S |-> AmountsStep(list, a, s, h)]
  BY <1>7
<1> HIDE DEF h
<1>9. QED
  BY <1>8 DEF AreAmounts, S

(* p[k] is what the first k delegations of the list give to a. *)
PrefixAmounts(list, a, p) ==
    /\ p[0] = << >>
    /\ \A k \in 1 .. Len(list) :
        p[k] = IF list[k][1] = a THEN Append(p[k - 1], list[k][2]) ELSE p[k - 1]
    /\ Amounts(list, a) = p[Len(list)]

(* The fold over a list goes through the amounts of its prefixes. *)
LEMMA AmountsPrefixes ==
    ASSUME NEW list \in Seq(Delegation), NEW a
    PROVE  \E p : PrefixAmounts(list, a, p)
<1> DEFINE sum == CHOOSE g : AreAmounts(list, a, g)
           n == Len(list)
<1>1. n \in Nat /\ DOMAIN list = 1 .. n
  BY LenProperties
<1>2. AreAmounts(list, a, sum)
  BY AmountsExist
<1>3. Amounts(list, a) = sum[DOMAIN list]
  BY DEF Amounts, FoldLeft, MapThenFoldSet, AreAmounts, AmountsStep
<1> HIDE DEF sum, n
<1>4. \A s \in SUBSET (1 .. n) : sum[s] = AmountsStep(list, a, s, sum)
  BY <1>1, <1>2 DEF AreAmounts
<1> DEFINE p == [k \in 0 .. n |-> sum[1 .. k]]
<1>5. p[0] = << >>
  <2>1. 1 .. 0 = {} /\ 1 .. 0 \in SUBSET (1 .. n)
    OBVIOUS
  <2>2. p[0] = sum[1 .. 0]
    BY <1>1
  <2>3. QED
    BY <1>4, <2>1, <2>2 DEF AmountsStep
<1>6. ASSUME NEW k \in 1 .. n
      PROVE  p[k] = IF list[k][1] = a THEN Append(p[k - 1], list[k][2]) ELSE p[k - 1]
  <2> DEFINE s == 1 .. k
  <2>1. s \in SUBSET (1 .. n) /\ s # {} /\ k \in Nat
    BY <1>1
  <2>2. Max(s) = k
    <3>1. Max(s) \in s /\ \A y \in s : Max(s) >= y
      BY <2>1, MaxIn
    <3>2. QED
      BY <2>1, <3>1
  <2>3. s \ {k} = 1 .. k - 1
    BY <2>1
  <2>4. p[k] = sum[s] /\ p[k - 1] = sum[s \ {k}]
    <3>1. k \in 0 .. n /\ k - 1 \in 0 .. n
      BY <1>1
    <3>2. QED
      BY <2>3, <3>1
  <2> HIDE DEF s, p
  <2>5. sum[s] = AmountsStep(list, a, s, sum)
    BY <1>4, <2>1
  <2>6. QED
    BY <2>1, <2>2, <2>4, <2>5 DEF AmountsStep
<1>7. Amounts(list, a) = p[n]
  BY <1>1, <1>3
<1> HIDE DEF p
<1>8. QED
  BY <1>5, <1>6, <1>7 DEF PrefixAmounts, n

(* The amounts that name an address are a list of numbers. *)
LEMMA AmountsIn ==
    ASSUME NEW list \in Seq(Delegation), NEW a
    PROVE  Amounts(list, a) \in Seq(Nat)
<1>1. PICK p : PrefixAmounts(list, a, p)
  BY AmountsPrefixes
<1>2. Len(list) \in Nat /\ \A k \in 1 .. Len(list) : list[k][2] \in Nat
  BY LenProperties, ElementOfSeq DEF Delegation
<1> DEFINE P == {k \in Nat : k <= Len(list) => p[k] \in Seq(Nat)}
<1>3. 0 \in P
  <2>1. p[0] = << >> /\ << >> \in Seq(Nat)
    BY <1>1 DEF PrefixAmounts
  <2>2. p[0] \in Seq(Nat)
    BY <2>1, Zenon
  <2>3. QED
    BY <2>2
<1>4. ASSUME NEW k \in Nat, k \in P
      PROVE  k + 1 \in P
  <2> SUFFICES ASSUME k + 1 <= Len(list) PROVE p[k + 1] \in Seq(Nat)
    OBVIOUS
  <2>1. k + 1 \in 1 .. Len(list) /\ (k + 1) - 1 = k /\ p[k] \in Seq(Nat)
    BY <1>2, <1>4
  <2>2. p[k + 1] = IF list[k + 1][1] = a THEN Append(p[k], list[k + 1][2]) ELSE p[k]
    BY <1>1, <2>1 DEF PrefixAmounts
  <2>3. list[k + 1][2] \in Nat
    BY <1>2, <2>1
  <2>4. Append(p[k], list[k + 1][2]) \in Seq(Nat)
    BY <2>1, <2>3
  <2>5. QED
    BY <2>1, <2>2, <2>4
<1>5. Nat \subseteq P
  <2> HIDE DEF P
  <2>1. QED
    BY <1>3, <1>4, SetInduction
<1>6. QED
  BY <1>1, <1>2, <1>5 DEF PrefixAmounts

(* Where no delegation names an address there are no amounts. *)
LEMMA AmountsNone ==
    ASSUME NEW list \in Seq(Delegation), NEW a,
           \A k \in 1 .. Len(list) : list[k][1] # a
    PROVE  Amounts(list, a) = << >>
<1>1. PICK p : PrefixAmounts(list, a, p)
  BY AmountsPrefixes
<1>2. Len(list) \in Nat
  BY LenProperties
<1> DEFINE P == {k \in Nat : k <= Len(list) => p[k] = << >>}
<1>3. 0 \in P
  BY <1>1 DEF PrefixAmounts
<1>4. ASSUME NEW k \in Nat, k \in P
      PROVE  k + 1 \in P
  <2> SUFFICES ASSUME k + 1 <= Len(list) PROVE p[k + 1] = << >>
    OBVIOUS
  <2>1. k + 1 \in 1 .. Len(list) /\ (k + 1) - 1 = k /\ p[k] = << >>
    BY <1>2, <1>4
  <2>2. p[k + 1] = IF list[k + 1][1] = a THEN Append(p[k], list[k + 1][2]) ELSE p[k]
    BY <1>1, <2>1 DEF PrefixAmounts
  <2>3. QED
    BY <2>1, <2>2
<1>5. Nat \subseteq P
  <2> HIDE DEF P
  <2>1. QED
    BY <1>3, <1>4, SetInduction
<1>6. QED
  BY <1>1, <1>2, <1>5 DEF PrefixAmounts

(* The amounts of a list of one delegation. *)
LEMMA AmountsSingle ==
    ASSUME NEW d \in Delegation, NEW a
    PROVE  /\ <<d>> \in Seq(Delegation)
           /\ Amounts(<<d>>, a) = IF d[1] = a THEN <<d[2]>> ELSE << >>
<1> DEFINE list == <<d>>
<1>1. list \in Seq(Delegation) /\ Len(list) = 1 /\ list[1] = d
  OBVIOUS
<1> HIDE DEF list
<1>2. PICK p : PrefixAmounts(list, a, p)
  BY <1>1, AmountsPrefixes
<1>3. p[0] = << >> /\ Amounts(list, a) = p[1]
  BY <1>1, <1>2 DEF PrefixAmounts
<1>4. 1 \in 1 .. Len(list) /\ 1 - 1 = 0
  BY <1>1
<1>5. p[1] = IF list[1][1] = a THEN Append(p[0], list[1][2]) ELSE p[0]
  BY <1>2, <1>4 DEF PrefixAmounts
<1>6. Append(<< >>, d[2]) = <<d[2]>>
  BY DEF Delegation
<1>7. QED
  BY <1>1, <1>3, <1>5, <1>6 DEF list

(* Amounts put one after the other. *)
LEMMA NatsAssociative ==
    ASSUME NEW s \in Seq(Nat), NEW t \in Seq(Nat), NEW u \in Seq(Nat)
    PROVE  (s \o t) \o u = s \o (t \o u)
OBVIOUS

(* Two lists, one after the other, have the amounts of one, then of the other. *)
LEMMA AmountsConcat ==
    ASSUME NEW s \in Seq(Delegation), NEW t \in Seq(Delegation), NEW a
    PROVE  /\ s \o t \in Seq(Delegation)
           /\ Amounts(s \o t, a) = Amounts(s, a) \o Amounts(t, a)
<1> DEFINE n == Len(s)
           m == Len(t)
           c == s \o t
<1>1. /\ n \in Nat /\ m \in Nat
      /\ c \in Seq(Delegation) /\ Len(c) = n + m
      /\ \A i \in 1 .. n + m : c[i] = IF i <= n THEN s[i] ELSE t[i - n]
  BY LenProperties, ConcatProperties
<1>2. PICK p : PrefixAmounts(s, a, p)
  BY AmountsPrefixes
<1>3. PICK q : PrefixAmounts(t, a, q)
  BY AmountsPrefixes
<1> HIDE DEF c
<1>4. PICK r : PrefixAmounts(c, a, r)
  BY <1>1, AmountsPrefixes
<1> HIDE DEF n, m
<1> DEFINE P == {k \in Nat : k <= n => r[k] = p[k]}
<1>5. 0 \in P
  BY <1>2, <1>4 DEF PrefixAmounts
<1>6. ASSUME NEW k \in Nat, k \in P PROVE k + 1 \in P
  <2> SUFFICES ASSUME k + 1 <= n PROVE r[k + 1] = p[k + 1]
    OBVIOUS
  <2>1. /\ k + 1 \in 1 .. n /\ k + 1 \in 1 .. n + m /\ (k + 1) - 1 = k
        /\ r[k] = p[k]
    BY <1>1, <1>6
  <2>2. c[k + 1] = s[k + 1]
    BY <1>1, <2>1
  <2>3. r[k + 1] = IF c[k + 1][1] = a THEN Append(r[k], c[k + 1][2]) ELSE r[k]
    BY <1>1, <1>4, <2>1 DEF PrefixAmounts
  <2>4. p[k + 1] = IF s[k + 1][1] = a THEN Append(p[k], s[k + 1][2]) ELSE p[k]
    BY <1>2, <2>1 DEF PrefixAmounts, n
  <2>5. QED
    BY <2>1, <2>2, <2>3, <2>4
<1>7. Nat \subseteq P
  <2> HIDE DEF P
  <2>1. QED
    BY <1>5, <1>6, SetInduction
<1>8. r[n] = Amounts(s, a)
  BY <1>1, <1>2, <1>7 DEF PrefixAmounts, n
<1> DEFINE A == Amounts(s, a)
<1>9. A \in Seq(Nat)
  BY AmountsIn
<1> HIDE DEF A
<1>10. \A k \in 1 .. m : t[k][2] \in Nat
  BY ElementOfSeq DEF Delegation, m
<1> DEFINE Q == {k \in Nat : k <= m => q[k] \in Seq(Nat) /\ r[n + k] = A \o q[k]}
<1>11. 0 \in Q
  <2>1. q[0] = << >> /\ n + 0 = n
    BY <1>1, <1>3 DEF PrefixAmounts
  <2>2. A \o << >> = A
    BY <1>9
  <2>3. << >> \in Seq(Nat)
    OBVIOUS
  <2>4. QED
    BY <1>8, <2>1, <2>2, <2>3 DEF A
<1>12. ASSUME NEW k \in Nat, k \in Q PROVE k + 1 \in Q
  <2> SUFFICES ASSUME k + 1 <= m
               PROVE  q[k + 1] \in Seq(Nat) /\ r[n + (k + 1)] = A \o q[k + 1]
    OBVIOUS
  <2>1. /\ k + 1 \in 1 .. m /\ n + (k + 1) \in 1 .. n + m /\ (k + 1) - 1 = k
        /\ (n + (k + 1)) - 1 = n + k /\ (n + (k + 1)) - n = k + 1 /\ ~(n + (k + 1) <= n)
    BY <1>1
  <2>2. q[k] \in Seq(Nat) /\ r[n + k] = A \o q[k]
    BY <1>1, <1>12
  <2>3. c[n + (k + 1)] = t[k + 1]
    BY <1>1, <2>1
  <2> DEFINE i == n + (k + 1)
             d == t[k + 1]
  <2>4. r[i] = IF c[i][1] = a THEN Append(r[i - 1], c[i][2]) ELSE r[i - 1]
    BY <1>1, <1>4, <2>1 DEF PrefixAmounts
  <2>5. r[i] = IF d[1] = a THEN Append(r[n + k], d[2]) ELSE r[n + k]
    BY <2>1, <2>3, <2>4
  <2>6. q[k + 1] = IF d[1] = a THEN Append(q[k], d[2]) ELSE q[k]
    BY <1>3, <2>1 DEF PrefixAmounts, m
  <2>7. d[2] \in Nat
    BY <1>10, <2>1
  <2> HIDE DEF i, d
  <2> DEFINE u == q[k]
             e == d[2]
  <2>8. Append(A \o u, e) = A \o Append(u, e) /\ Append(u, e) \in Seq(Nat)
    <3> SUFFICES ASSUME u \in Seq(Nat), e \in Nat
                 PROVE  Append(A \o u, e) = A \o Append(u, e) /\ Append(u, e) \in Seq(Nat)
      BY <2>2, <2>7
    <3> HIDE DEF u, e
    <3>1. Append(u, e) = u \o <<e>> /\ <<e>> \in Seq(Nat) /\ A \o u \in Seq(Nat)
      BY <1>9, AppendIsConcat, ConcatProperties
    <3>2. Append(A \o u, e) = (A \o u) \o <<e>>
      BY <3>1, AppendIsConcat
    <3>3. (A \o u) \o <<e>> = A \o (u \o <<e>>)
      <4> DEFINE l == <<e>>
      <4>1. A \in Seq(Nat) /\ u \in Seq(Nat) /\ l \in Seq(Nat)
        BY <1>9, <3>1
      <4> HIDE DEF l
      <4>2. (A \o u) \o l = A \o (u \o l)
        BY <4>1, NatsAssociative
      <4>3. QED
        BY <4>2 DEF l
    <3>4. u \o <<e>> \in Seq(Nat)
      BY <3>1, ConcatProperties
    <3>5. QED
      BY <3>1, <3>2, <3>3, <3>4
  <2>9. QED
    BY <2>2, <2>5, <2>6, <2>8 DEF i
<1>13. Nat \subseteq Q
  <2> HIDE DEF Q
  <2>1. QED
    BY <1>11, <1>12, SetInduction
<1>14. r[n + m] = A \o q[m]
  BY <1>1, <1>13
<1>15. Amounts(c, a) = r[n + m] /\ Amounts(t, a) = q[m]
  BY <1>1, <1>3, <1>4 DEF PrefixAmounts, m
<1>16. QED
  BY <1>1, <1>14, <1>15 DEF A, c

(* What two lists name is what the one names, then the other. *)
Splits(s, t) ==
    /\ s \o t \in Seq(Delegation)
    /\ \A a : Amounts(s \o t, a) = Amounts(s, a) \o Amounts(t, a)

(* It is so of any two lists. *)
LEMMA ListsSplit ==
    ASSUME NEW s \in Seq(Delegation), NEW t \in Seq(Delegation)
    PROVE  Splits(s, t)
<1>1. s \o t \in Seq(Delegation)
  BY ConcatProperties
<1>2. ASSUME NEW a PROVE Amounts(s \o t, a) = Amounts(s, a) \o Amounts(t, a)
  BY AmountsConcat
<1>3. QED
  BY <1>1, <1>2, Zenon DEF Splits

(* One delegation more. *)
LEMMA AmountsAppend ==
    ASSUME NEW s \in Seq(Delegation), NEW d \in Delegation, NEW a
    PROVE  Amounts(Append(s, d), a)
            = IF d[1] = a THEN Append(Amounts(s, a), d[2]) ELSE Amounts(s, a)
<1> DEFINE A == Amounts(s, a)
           D == Amounts(<<d>>, a)
           e == d[2]
<1>1. Append(s, d) = s \o <<d>>
  BY AppendIsConcat
<1>2. <<d>> \in Seq(Delegation) /\ D = IF d[1] = a THEN <<e>> ELSE << >>
  BY AmountsSingle
<1>3. Amounts(s \o <<d>>, a) = A \o D
  <2> DEFINE t == <<d>>
  <2>1. t \in Seq(Delegation)
    BY <1>2
  <2> HIDE DEF t
  <2>2. Amounts(s \o t, a) = Amounts(s, a) \o Amounts(t, a)
    BY <2>1, AmountsConcat
  <2>3. QED
    BY <2>2 DEF t
<1>4. A \in Seq(Nat) /\ e \in Nat
  BY AmountsIn DEF Delegation
<1> HIDE DEF A, D, e
<1>5. A \o << >> = A /\ A \o <<e>> = Append(A, e)
  BY <1>4, AppendIsConcat, ConcatEmptySeq
<1>6. QED
  BY <1>1, <1>2, <1>3, <1>5 DEF A, e

(* The last delegation that names b is taken out: for b the last amount is
   gone, for others nothing. *)
LEMMA AmountsRemove ==
    ASSUME NEW s \in Seq(Delegation), NEW b, NEW i \in 1 .. Len(s), s[i][1] = b,
           \A j \in 1 .. Len(s) : j > i => s[j][1] # b,
           NEW a
    PROVE  /\ RemoveAt(s, i) \in Seq(Delegation)
           /\ a # b => Amounts(RemoveAt(s, i), a) = Amounts(s, a)
           /\ s[i][2] \in Nat
           /\ Amounts(s, b) = Append(Amounts(RemoveAt(s, i), b), s[i][2])
<1> DEFINE A == SubSeq(s, 1, i - 1)
           B == SubSeq(s, i + 1, Len(s))
<1>2. /\ A \in Seq(Delegation) /\ B \in Seq(Delegation)
      /\ s = A \o (<<s[i]>> \o B) /\ RemoveAt(s, i) = A \o B
  BY Around
<1> DEFINE d == s[i]
           T == <<d>> \o B
<1>3. d \in Delegation
  BY ElementOfSeq
<1>4. \A k \in 1 .. Len(B) : B[k][1] # b
  <2>1. Len(s) \in Nat
    BY LenProperties
  <2>2. \A j \in i + 1 .. Len(s) : s[j] \in Delegation
    BY <2>1, ElementOfSeq
  <2>3. /\ Len(B) = IF i + 1 <= Len(s) THEN Len(s) - (i + 1) + 1 ELSE 0
        /\ \A k \in 1 .. Len(s) - (i + 1) + 1 : B[k] = s[(i + 1) + k - 1]
    BY <2>1, <2>2, SubSeqProperties
  <2> HIDE DEF B
  <2>4. SUFFICES ASSUME NEW k \in 1 .. Len(B) PROVE B[k][1] # b
    OBVIOUS
  <2>5. /\ k \in 1 .. Len(s) - (i + 1) + 1
        /\ (i + 1) + k - 1 \in 1 .. Len(s) /\ (i + 1) + k - 1 > i
    BY <2>1, <2>3
  <2>6. B[k] = s[(i + 1) + k - 1]
    BY <2>3, <2>5
  <2>7. QED
    BY <2>5, <2>6
<1> HIDE DEF A, B, d, T
<1>5. Amounts(B, b) = << >>
  BY <1>2, <1>4, AmountsNone
<1>6. \A x : /\ <<d>> \in Seq(Delegation)
             /\ Amounts(<<d>>, x) = IF d[1] = x THEN <<d[2]>> ELSE << >>
  BY <1>3, AmountsSingle
<1>7. \A x : /\ T \in Seq(Delegation)
             /\ Amounts(T, x) = Amounts(<<d>>, x) \o Amounts(B, x)
  BY <1>2, <1>6, AmountsConcat DEF T
<1>14. s = A \o T
  BY <1>2 DEF T, d
<1>8. \A x : /\ Amounts(A \o T, x) = Amounts(A, x) \o Amounts(T, x)
             /\ Amounts(A \o B, x) = Amounts(A, x) \o Amounts(B, x)
             /\ A \o B \in Seq(Delegation)
  <2>1. Splits(A, T) /\ Splits(A, B)
    BY <1>2, <1>7, ListsSplit
  <2>2. QED
    BY <2>1, Zenon DEF Splits
<1>9. \A x : Amounts(A, x) \in Seq(Nat) /\ Amounts(B, x) \in Seq(Nat)
  BY <1>2, AmountsIn
<1>10. d[2] \in Nat
  BY <1>3 DEF Delegation
<1>11. ASSUME a # b PROVE Amounts(A \o B, a) = Amounts(A \o T, a)
  <2>1. Amounts(T, a) = << >> \o Amounts(B, a)
    BY <1>6, <1>7, <1>11 DEF d
  <2>2. << >> \o Amounts(B, a) = Amounts(B, a)
    BY <1>9, ConcatEmptySeq
  <2>3. QED
    BY <1>8, <2>1, <2>2
<1>12. Amounts(A \o T, b) = Append(Amounts(A \o B, b), d[2])
  <2> DEFINE e == d[2]
             u == Amounts(A, b)
  <2>1. u \in Seq(Nat) /\ e \in Nat
    BY <1>9, <1>10
  <2>2. Amounts(T, b) = <<e>> \o << >>
    BY <1>5, <1>6, <1>7 DEF d
  <2>3. <<e>> \o << >> = <<e>>
    BY <2>1
  <2>4. Amounts(A \o T, b) = u \o <<e>>
    BY <1>8, <2>2, <2>3
  <2>5. Amounts(A \o B, b) = u \o << >>
    BY <1>5, <1>8
  <2> HIDE DEF u, e
  <2>6. u \o << >> = u /\ u \o <<e>> = Append(u, e)
    BY <2>1, ConcatEmptySeq, AppendIsConcat
  <2>7. QED
    BY <2>4, <2>5, <2>6 DEF e
<1>13. QED
  BY <1>2, <1>8, <1>10, <1>11, <1>12, <1>14 DEF d

(* What two equal lists have before their last elements is equal. *)
LEMMA AppendedSame ==
    ASSUME NEW S, NEW s \in Seq(S), NEW t \in Seq(S), NEW x \in S, NEW y \in S,
           Append(s, x) = Append(t, y)
    PROVE  s = t
<1>1. Len(Append(s, x)) = Len(s) + 1 /\ Len(Append(t, y)) = Len(t) + 1
  BY AppendProperties
<1>2. Len(s) \in Nat /\ Len(t) \in Nat
  BY LenProperties
<1>3. Len(s) = Len(t)
  BY <1>1, <1>2
<1>4. \A i \in 1 .. Len(s) : Append(s, x)[i] = s[i] /\ Append(t, y)[i] = t[i]
  BY <1>3, AppendProperties
<1>5. \A i \in 1 .. Len(s) : s[i] = t[i]
  BY <1>4
<1>6. QED
  BY <1>3, <1>5, SeqEqual

=============================================================================
