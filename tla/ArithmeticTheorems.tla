------------------------- MODULE ArithmeticTheorems -------------------------
(***************************************************************************)
(* Facts of arithmetic the proofs share: sums of integer-valued functions  *)
(* over a finite set, and products and quotients of naturals.              *)
(* SumFunctionOnSet is the community-module fold the specifications use;   *)
(* here it is characterised without reference to the order in which the    *)
(* fold picks the elements.                                                *)
(***************************************************************************)
EXTENDS Integers, Functions, FiniteSets, FiniteSetTheorems,
        WellFoundedInduction, TLAPS

(* g maps every subset of S to the sum of f over it. *)
IsSum(g, f, S) ==
  /\ g \in [SUBSET S -> Int]
  /\ g[{}] = 0
  /\ \A U \in SUBSET S : \A x \in S \ U : g[U \cup {x}] = f[x] + g[U]

(* A finite set has no infinite descending chain of subsets, so every      *)
(* non-empty family of subsets of S has a minimal member.                  *)
LEMMA MinimalSubset ==
  ASSUME NEW S, IsFiniteSet(S), NEW D \in SUBSET (SUBSET S), D # {}
  PROVE  \E T \in D : \A U \in D : U \subseteq T => U = T
<1>1. FiniteSubsetsOf(S) = SUBSET S
  BY FS_FiniteSubsetsOfFinite
<1>2. IsWellFoundedOn(StrictSubsetOrdering(S), SUBSET S)
  BY <1>1, FS_StrictSubsetOrderingWellFounded, Zenon
<1>3. \E T \in D : \A U \in D : ~ (<<U, T>> \in StrictSubsetOrdering(S))
  BY <1>2, WFMin, Zenon
<1>4. PICK T \in D : \A U \in D : ~ (<<U, T>> \in StrictSubsetOrdering(S))
  BY <1>3
<1>5. ASSUME NEW U \in D, U \subseteq T, U # T
      PROVE  <<U, T>> \in StrictSubsetOrdering(S)
  <2>1. <<U, T>> \in (SUBSET S) \X (SUBSET S)
    OBVIOUS
  <2>2. QED
    BY <2>1, <1>5 DEF StrictSubsetOrdering
<1>6. \A U \in D : U \subseteq T => U = T
  BY <1>4, <1>5
<1>7. QED
  BY <1>6

(* A non-empty finite set of integers has a largest element. *)
LEMMA LargestElement ==
  ASSUME NEW R, IsFiniteSet(R), \A i \in R : i \in Int, R # {}
  PROVE  \E i \in R : \A j \in R : j <= i
<1> DEFINE D == {U \in SUBSET R : \E i \in R : U = {j \in R : i <= j}}
<1>1. D \in SUBSET (SUBSET R) /\ D # {}
  <2>1. PICK i \in R : TRUE
    OBVIOUS
  <2>2. {j \in R : i <= j} \in D
    OBVIOUS
  <2>3. QED
    BY <2>2
<1>2. ASSUME NEW i \in R PROVE {j \in R : i <= j} \in D
  OBVIOUS
<1>3. \A U \in D : \E i \in R : U = {j \in R : i <= j}
  OBVIOUS
<1> HIDE DEF D
<1>4. PICK T \in D : \A U \in D : U \subseteq T => U = T
  BY <1>1, MinimalSubset
<1>5. PICK i \in R : T = {j \in R : i <= j}
  BY <1>3, <1>4
<1>6. \A m \in R : m \in Int
  OBVIOUS
<1>7. ASSUME NEW j \in R, j > i PROVE FALSE
  <2>1. {m \in R : j <= m} \in D
    BY <1>2
  <2>2. i \in T /\ i \notin {m \in R : j <= m}
    BY <1>5, <1>6, <1>7
  <2>3. ASSUME NEW m \in R, j <= m PROVE i <= m
    <3>1. i \in Int /\ j \in Int /\ m \in Int
      BY <1>6
    <3>2. QED
      BY <1>7, <2>3, <3>1
  <2>4. {m \in R : j <= m} \subseteq T
    BY <1>5, <2>3
  <2>5. QED
    BY <1>4, <2>1, <2>2, <2>4
<1>8. QED
  BY <1>6, <1>7


(* Every function that is integer-valued on a finite set has a sum over it; *)
(* its domain may be larger.                                               *)
LEMMA SumExists ==
  ASSUME NEW S, IsFiniteSet(S), NEW f, \A x \in S : f[x] \in Int
  PROVE  \E g : IsSum(g, f, S)
<1> DEFINE D == {T \in SUBSET S : ~ \E g : IsSum(g, f, T)}
<1>1. SUFFICES ASSUME D # {} PROVE FALSE
  OBVIOUS
<1> D \in SUBSET (SUBSET S)
  OBVIOUS
<1> HIDE DEF D
<1>2. PICK T \in D : \A U \in D : U \subseteq T => U = T
  BY <1>1, MinimalSubset
<1> USE DEF D
<1>3. T # {}
  <2>1. IsSum([U \in SUBSET {} |-> 0], f, {})
    BY DEF IsSum
  <2>2. QED
    BY <2>1, <1>2
<1>4. PICK x \in T : TRUE
  BY <1>3
<1>5. PICK h : IsSum(h, f, T \ {x})
  BY <1>2, <1>4
<1> DEFINE g == [U \in SUBSET T |-> IF x \in U THEN f[x] + h[U \ {x}] ELSE h[U]]
<1>6. IsSum(g, f, T)
  <2>1. f[x] \in Int
    BY <1>2, <1>4
  <2>2. h \in [SUBSET (T \ {x}) -> Int]
    BY <1>5 DEF IsSum
  <2>3. g \in [SUBSET T -> Int]
    <3>1. SUFFICES ASSUME NEW U \in SUBSET T
                   PROVE  (IF x \in U THEN f[x] + h[U \ {x}] ELSE h[U]) \in Int
      BY Zenon
    <3>2. CASE x \in U
      <4>1. U \ {x} \in SUBSET (T \ {x})
        OBVIOUS
      <4>2. h[U \ {x}] \in Int
        BY <4>1, <2>2
      <4>3. QED
        BY <4>2, <2>1, <3>2
    <3>3. CASE x \notin U
      BY <2>2, <3>3
    <3>4. QED
      BY <3>2, <3>3
  <2>4. g[{}] = 0
    BY <1>5 DEF IsSum
  <2>5. ASSUME NEW U \in SUBSET T, NEW y \in T \ U
        PROVE  g[U \cup {y}] = f[y] + g[U]
    <3>0. U \cup {y} \in SUBSET T
      OBVIOUS
    <3>1. CASE y = x
      <4>1. (U \cup {y}) \ {x} = U
        BY <3>1
      <4>2. g[U] = h[U] /\ g[U \cup {y}] = f[x] + h[U]
        BY <4>1, <3>1, <3>0
      <4>3. QED
        BY <4>2, <3>1
    <3>2. CASE y # x /\ x \notin U
      <4>1. h[U \cup {y}] = f[y] + h[U]
        BY <1>5, <3>2 DEF IsSum
      <4>2. g[U] = h[U] /\ g[U \cup {y}] = h[U \cup {y}]
        BY <3>2, <3>0
      <4>3. QED
        BY <4>1, <4>2
    <3>3. CASE y # x /\ x \in U
      <4>1. (U \cup {y}) \ {x} = (U \ {x}) \cup {y}
        BY <3>3
      <4>2. U \ {x} \in SUBSET (T \ {x}) /\ y \in (T \ {x}) \ (U \ {x})
        BY <3>3
      <4>3. h[(U \ {x}) \cup {y}] = f[y] + h[U \ {x}]
        BY <4>2, <1>5 DEF IsSum
      <4>4. g[U] = f[x] + h[U \ {x}]
        BY <3>3
      <4>5. g[U \cup {y}] = f[x] + h[(U \ {x}) \cup {y}]
        BY <3>3, <3>0, <4>1
      <4>6. h[U \ {x}] \in Int /\ f[y] \in Int
        BY <4>2, <2>2, <1>2
      <4>7. QED
        BY <4>3, <4>4, <4>5, <4>6, <2>1
    <3>4. QED
      BY <3>1, <3>2, <3>3
  <2>6. QED
    BY <2>3, <2>4, <2>5 DEF IsSum
<1>7. QED
  BY <1>6, <1>2

(* The community fold computes that sum, whatever order it picks. *)
LEMMA SumIsFold ==
  ASSUME NEW S, IsFiniteSet(S), NEW f, \A x \in S : f[x] \in Int,
         NEW g, IsSum(g, f, S)
  PROVE  SumFunctionOnSet(f, S) = g[S]
<1> DEFINE Pick(s) == CHOOSE x \in s : TRUE
           Step(h) == [s \in SUBSET S |->
                         IF s = {} THEN 0 ELSE f[Pick(s)] + h[s \ {Pick(s)}]]
           iter == CHOOSE h : h = Step(h)
<1>1. SumFunctionOnSet(f, S) = iter[S]
  BY Zenon DEF SumFunctionOnSet, FoldFunctionOnSet, MapThenFoldSet
<1>2. g = Step(g)
  <2>1. g \in [SUBSET S -> Int]
    BY DEF IsSum
  <2>2. ASSUME NEW s \in SUBSET S, s # {}
        PROVE  g[s] = f[Pick(s)] + g[s \ {Pick(s)}]
    <3>1. Pick(s) \in s
      BY <2>2
    <3> HIDE DEF Pick
    <3>2. s \ {Pick(s)} \in SUBSET S /\ Pick(s) \in S \ (s \ {Pick(s)})
      BY <3>1
    <3>3. (s \ {Pick(s)}) \cup {Pick(s)} = s
      BY <3>1
    <3>4. g[(s \ {Pick(s)}) \cup {Pick(s)}] = f[Pick(s)] + g[s \ {Pick(s)}]
      BY <3>2 DEF IsSum
    <3>5. QED
      BY <3>3, <3>4
  <2>3. g[{}] = 0
    BY DEF IsSum
  <2> HIDE DEF Pick
  <2>4. ASSUME NEW s \in SUBSET S
        PROVE  g[s] = IF s = {} THEN 0 ELSE f[Pick(s)] + g[s \ {Pick(s)}]
    BY <2>2, <2>3
  <2>5. g = [s \in SUBSET S |-> g[s]]
    BY <2>1
  <2>6. QED
    BY <2>4, <2>5
<1>3. iter = Step(iter)
  BY <1>2
<1> HIDE DEF iter
<1>4. \A s \in SUBSET S : iter[s] = g[s]
  <2> DEFINE D == {s \in SUBSET S : iter[s] # g[s]}
  <2>1. SUFFICES ASSUME D # {} PROVE FALSE
    OBVIOUS
  <2> D \in SUBSET (SUBSET S)
    OBVIOUS
  <2> HIDE DEF D
  <2>2. PICK s \in D : \A u \in D : u \subseteq s => u = s
    BY <2>1, MinimalSubset
  <2> USE DEF D
  <2>3. s # {}
    <3>1. iter[{}] = 0
      BY <1>3
    <3>2. g[{}] = 0
      BY DEF IsSum
    <3>3. QED
      BY <3>1, <3>2, <2>2
  <2>4. Pick(s) \in s
    BY <2>3
  <2>5. iter[s] = f[Pick(s)] + iter[s \ {Pick(s)}]
    <3> HIDE DEF Pick
    <3>1. QED
      BY <1>3, <2>2, <2>3
  <2>6. g[s] = f[Pick(s)] + g[s \ {Pick(s)}]
    <3> HIDE DEF Pick
    <3>1. QED
      BY <1>2, <2>2, <2>3
  <2> HIDE DEF Pick
  <2>7. iter[s \ {Pick(s)}] = g[s \ {Pick(s)}]
    BY <2>2, <2>4
  <2>8. QED
    BY <2>2, <2>5, <2>6, <2>7
<1>5. QED
  BY <1>1, <1>4

-----------------------------------------------------------------------------
(* The facts the accounting proofs cite.                                   *)

(* The sum of integers is an integer; functions that agree on the set have *)
(* the same sum, and two functions that differ at one point have sums that *)
(* differ by as much.                                                      *)
THEOREM SumDiffersAtOnePoint ==
  ASSUME NEW S, IsFiniteSet(S), NEW f, NEW h,
         \A x \in S : f[x] \in Int, \A x \in S : h[x] \in Int,
         NEW t \in S, \A x \in S : x # t => h[x] = f[x]
  PROVE  /\ SumFunctionOnSet(f, S) \in Int
         /\ SumFunctionOnSet(h, S) = SumFunctionOnSet(f, S) - f[t] + h[t]
<1>1. PICK g : IsSum(g, f, S)
  BY SumExists
<1> DEFINE g2 == [U \in SUBSET S |-> IF t \in U THEN g[U] - f[t] + h[t] ELSE g[U]]
<1>2. IsSum(g2, h, S)
  <2>1. g \in [SUBSET S -> Int] /\ g[{}] = 0
    BY <1>1 DEF IsSum
  <2>2. f[t] \in Int /\ h[t] \in Int
    OBVIOUS
  <2>3. g2 \in [SUBSET S -> Int]
    <3>1. ASSUME NEW U \in SUBSET S
          PROVE  (IF t \in U THEN g[U] - f[t] + h[t] ELSE g[U]) \in Int
      <4>1. g[U] \in Int
        BY <2>1
      <4>2. QED
        BY <4>1, <2>2
    <3>2. QED
      BY <3>1, Zenon
  <2>4. g2[{}] = 0
    BY <2>1
  <2>5. ASSUME NEW U \in SUBSET S, NEW x \in S \ U
        PROVE  g2[U \cup {x}] = h[x] + g2[U]
    <3>1. U \cup {x} \in SUBSET S /\ g[U \cup {x}] = f[x] + g[U]
      BY <1>1 DEF IsSum
    <3>2. g[U] \in Int /\ f[x] \in Int /\ h[x] \in Int
      BY <2>1
    <3>3. g2[U] = (IF t \in U THEN g[U] - f[t] + h[t] ELSE g[U])
      OBVIOUS
    <3>4. g2[U \cup {x}] = IF t \in U \cup {x} THEN g[U \cup {x}] - f[t] + h[t]
                                               ELSE g[U \cup {x}]
      BY <3>1
    <3>5. x # t => h[x] = f[x]
      OBVIOUS
    <3> HIDE DEF g2
    <3>6. CASE x = t
      BY <3>1, <3>2, <3>3, <3>4, <3>6, <2>2
    <3>7. CASE x # t /\ t \in U
      BY <3>1, <3>2, <3>3, <3>4, <3>5, <3>7, <2>2
    <3>8. CASE x # t /\ t \notin U
      BY <3>1, <3>2, <3>3, <3>4, <3>5, <3>8, <2>2
    <3>9. QED
      BY <3>6, <3>7, <3>8
  <2>6. QED
    BY <2>3, <2>4, <2>5 DEF IsSum
<1>3. g2[S] = g[S] - f[t] + h[t] /\ g[S] \in Int
  BY <1>1 DEF IsSum
<1> HIDE DEF g2
<1>4. SumFunctionOnSet(f, S) = g[S] /\ SumFunctionOnSet(h, S) = g2[S]
  <2>1. SumFunctionOnSet(f, S) = g[S]
    BY <1>1, SumIsFold, Zenon
  <2>2. SumFunctionOnSet(h, S) = g2[S]
    BY <1>2, SumIsFold, Zenon
  <2>3. QED
    BY <2>1, <2>2
<1>5. QED
  BY <1>3, <1>4

(* The same, for an update with EXCEPT. *)
THEOREM SumUpdate ==
  ASSUME NEW S, IsFiniteSet(S), NEW f \in [S -> Int],
         NEW t \in S, NEW v \in Int
  PROVE  /\ SumFunctionOnSet(f, S) \in Int
         /\ SumFunctionOnSet([f EXCEPT ![t] = v], S)
              = SumFunctionOnSet(f, S) - f[t] + v
<1> DEFINE h == [f EXCEPT ![t] = v]
<1>1. h \in [S -> Int] /\ h[t] = v /\ (\A x \in S : x # t => h[x] = f[x])
  OBVIOUS
<1>2. f[t] \in Int
  OBVIOUS
<1> HIDE DEF h
<1>3. /\ SumFunctionOnSet(f, S) \in Int
      /\ SumFunctionOnSet(h, S) = SumFunctionOnSet(f, S) - f[t] + h[t]
  BY <1>1, SumDiffersAtOnePoint
<1>4. QED
  BY <1>1, <1>3 DEF h

(* Functions that agree on the set have the same sum over it.              *)
THEOREM SumCongruence ==
  ASSUME NEW S, IsFiniteSet(S), NEW f, NEW h,
         \A x \in S : f[x] \in Int, \A x \in S : h[x] = f[x]
  PROVE  /\ SumFunctionOnSet(f, S) \in Int
         /\ SumFunctionOnSet(h, S) = SumFunctionOnSet(f, S)
<1>1. PICK g : IsSum(g, f, S)
  BY SumExists
<1>2. IsSum(g, h, S)
  BY <1>1 DEF IsSum
<1>3. \A x \in S : h[x] \in Int
  OBVIOUS
<1>4. SumFunctionOnSet(f, S) = g[S]
  BY <1>1, SumIsFold, Zenon
<1>5. SumFunctionOnSet(h, S) = g[S]
  BY <1>2, <1>3, SumIsFold, Zenon
<1>6. g[S] \in Int
  BY <1>1 DEF IsSum
<1>7. QED
  BY <1>4, <1>5, <1>6

(* One element more adds its value; nothing has no sum.                    *)
THEOREM SumAddsElement ==
  ASSUME NEW S, IsFiniteSet(S), NEW f, NEW e, e \notin S,
         \A x \in S \cup {e} : f[x] \in Int
  PROVE  /\ SumFunctionOnSet(f, S) \in Int
         /\ SumFunctionOnSet(f, S \cup {e}) = SumFunctionOnSet(f, S) + f[e]
<1> DEFINE T == S \cup {e}
<1>1. IsFiniteSet(T)
  BY FS_AddElement
<1>2. S \in SUBSET T /\ e \in T \ S /\ \A x \in T : f[x] \in Int
  OBVIOUS
<1>3. T = S \cup {e}
  OBVIOUS
<1> HIDE DEF T
<1>4. PICK g : IsSum(g, f, T)
  BY <1>1, <1>2, SumExists
<1>5. IsSum([U \in SUBSET S |-> g[U]], f, S)
  <2>1. g \in [SUBSET T -> Int] /\ g[{}] = 0
    BY <1>4 DEF IsSum
  <2>2. SUBSET S \subseteq SUBSET T
    BY <1>2
  <2>3. \A U \in SUBSET S : \A x \in S \ U : g[U \cup {x}] = f[x] + g[U]
    <3>1. \A U \in SUBSET S : \A x \in S \ U : U \in SUBSET T /\ x \in T \ U
      BY <1>2
    <3>2. QED
      BY <3>1, <1>4 DEF IsSum
  <2>4. \A U \in SUBSET S : \A x \in S \ U : U \cup {x} \in SUBSET S
    OBVIOUS
  <2>5. {} \in SUBSET S
    OBVIOUS
  <2>6. QED
    BY <2>1, <2>2, <2>3, <2>4, <2>5 DEF IsSum
<1>6. SumFunctionOnSet(f, S) = g[S]
  <2> DEFINE h == [U \in SUBSET S |-> g[U]]
  <2>1. h[S] = g[S]
    OBVIOUS
  <2> HIDE DEF h
  <2>2. IsSum(h, f, S)
    BY <1>5 DEF h
  <2>3. \A x \in S : f[x] \in Int
    BY <1>2
  <2>4. SumFunctionOnSet(f, S) = h[S]
    BY <2>2, <2>3, SumIsFold, Zenon
  <2>5. QED
    BY <2>1, <2>4
<1>7. SumFunctionOnSet(f, T) = g[T]
  BY <1>1, <1>2, <1>4, SumIsFold, Zenon
<1>8. g[T] = f[e] + g[S] /\ g[S] \in Int /\ f[e] \in Int
  BY <1>2, <1>3, <1>4 DEF IsSum
<1>9. QED
  BY <1>3, <1>6, <1>7, <1>8

(* Over the empty set the sum is zero.                                     *)
THEOREM SumOfNothing ==
  ASSUME NEW f
  PROVE  SumFunctionOnSet(f, {}) = 0
<1>1. IsFiniteSet({})
  BY FS_EmptySet
<1>2. PICK g : IsSum(g, f, {})
  BY <1>1, SumExists
<1>3. SumFunctionOnSet(f, {}) = g[{}]
  BY <1>1, <1>2, SumIsFold, Zenon
<1>4. QED
  BY <1>2, <1>3 DEF IsSum

(* A function that is nowhere negative has a sum that is not negative and  *)
(* that is at least any one of its values; a sum of zeros is zero.         *)
THEOREM SumNonNegative ==
  ASSUME NEW S, IsFiniteSet(S), NEW f,
         \A x \in S : f[x] \in Int, \A x \in S : f[x] >= 0
  PROVE  /\ SumFunctionOnSet(f, S) \in Nat
         /\ \A t \in S : f[t] <= SumFunctionOnSet(f, S)
         /\ (\A x \in S : f[x] = 0) => SumFunctionOnSet(f, S) = 0
<1>1. PICK g : IsSum(g, f, S)
  BY SumExists
<1>2. g \in [SUBSET S -> Int] /\ g[{}] = 0
  BY <1>1 DEF IsSum
<1>3. \A U \in SUBSET S : /\ g[U] >= 0
                          /\ (\A x \in S : f[x] = 0) => g[U] = 0
  <2> DEFINE D == {U \in SUBSET S : ~ (/\ g[U] >= 0
                                       /\ (\A x \in S : f[x] = 0) => g[U] = 0)}
  <2>1. SUFFICES ASSUME D # {} PROVE FALSE
    OBVIOUS
  <2> D \in SUBSET (SUBSET S)
    OBVIOUS
  <2> HIDE DEF D
  <2>2. PICK T \in D : \A U \in D : U \subseteq T => U = T
    BY <2>1, MinimalSubset
  <2> USE DEF D
  <2>3. PICK x \in T : TRUE
    <3>1. T # {}
      BY <1>2, <2>2, 0 >= 0
    <3>2. QED
      BY <3>1
  <2>4. T \ {x} \in SUBSET S /\ x \in S \ (T \ {x}) /\ (T \ {x}) \cup {x} = T
    BY <2>2
  <2>5. g[T] = f[x] + g[T \ {x}]
    <3>1. g[(T \ {x}) \cup {x}] = f[x] + g[T \ {x}]
      BY <1>1, <2>4 DEF IsSum
    <3>2. QED
      BY <3>1, <2>4
  <2>6. /\ g[T \ {x}] >= 0
        /\ (\A y \in S : f[y] = 0) => g[T \ {x}] = 0
    BY <2>2, <2>4
  <2>7. f[x] \in Int /\ f[x] >= 0 /\ g[T \ {x}] \in Int
    BY <1>2, <2>4
  <2>8. QED
    BY <2>2, <2>4, <2>5, <2>6, <2>7
<1>4. SumFunctionOnSet(f, S) = g[S]
  BY <1>1, SumIsFold
<1>5. \A t \in S : f[t] <= g[S]
  <2> TAKE t \in S
  <2>1. (S \ {t}) \cup {t} = S /\ S \ {t} \in SUBSET S /\ t \in S \ (S \ {t})
    OBVIOUS
  <2>2. g[(S \ {t}) \cup {t}] = f[t] + g[S \ {t}]
    BY <1>1, <2>1 DEF IsSum
  <2>3. g[S] = f[t] + g[S \ {t}]
    BY <2>1, <2>2
  <2>4. g[S \ {t}] >= 0 /\ g[S \ {t}] \in Int /\ f[t] \in Int
    BY <1>2, <1>3, <2>1
  <2>5. QED
    BY <2>3, <2>4
<1>6. g[S] \in Int
  BY <1>2
<1>7. QED
  BY <1>3, <1>4, <1>5, <1>6
-----------------------------------------------------------------------------
(* Sums of several functions, and of a function along a list.              *)

(* F is, on S, f and k times h. *)
IsCombination(F, f, k, h, S) == \A x \in S : F[x] = f[x] + k * h[x]

(* The sum of a function and k times another is the sum of the one and k   *)
(* times the sum of the other.                                             *)
LEMMA SumCombination ==
  ASSUME NEW S, IsFiniteSet(S), NEW f, NEW h, NEW F, NEW k \in Int,
         \A x \in S : f[x] \in Int, \A x \in S : h[x] \in Int, IsCombination(F, f, k, h, S)
  PROVE  /\ SumFunctionOnSet(f, S) \in Int /\ SumFunctionOnSet(h, S) \in Int
         /\ SumFunctionOnSet(F, S) = SumFunctionOnSet(f, S) + k * SumFunctionOnSet(h, S)
<1>1. PICK a : IsSum(a, f, S)
  BY SumExists
<1>2. PICK b : IsSum(b, h, S)
  BY SumExists
<1>3. a \in [SUBSET S -> Int] /\ b \in [SUBSET S -> Int]
  BY <1>1, <1>2 DEF IsSum
<1> DEFINE g == [U \in SUBSET S |-> a[U] + k * b[U]]
<1>4. IsSum(g, F, S)
  <2>1. g \in [SUBSET S -> Int]
    <3>1. ASSUME NEW U \in SUBSET S PROVE a[U] + k * b[U] \in Int
      <4>1. a[U] \in Int /\ b[U] \in Int
        BY <1>3
      <4>2. QED
        BY <4>1
    <3>2. QED
      BY <3>1
  <2>2. g[{}] = 0
    <3>1. a[{}] = 0 /\ b[{}] = 0
      BY <1>1, <1>2 DEF IsSum
    <3>2. k * 0 = 0
      OBVIOUS
    <3>3. QED
      BY <3>1, <3>2
  <2>3. ASSUME NEW U \in SUBSET S, NEW x \in S \ U
        PROVE  g[U \cup {x}] = F[x] + g[U]
    <3>1. a[U \cup {x}] = f[x] + a[U] /\ b[U \cup {x}] = h[x] + b[U]
      BY <1>1, <1>2 DEF IsSum
    <3>2. a[U] \in Int /\ b[U] \in Int /\ f[x] \in Int /\ h[x] \in Int
      BY <1>3
    <3>3. U \cup {x} \in SUBSET S /\ x \in S
      OBVIOUS
    <3>4. g[U \cup {x}] = a[U \cup {x}] + k * b[U \cup {x}] /\ g[U] = a[U] + k * b[U]
      BY <3>3
    <3>5. F[x] = f[x] + k * h[x]
      BY <3>3 DEF IsCombination
    <3> HIDE DEF g
    <3>6. k * (h[x] + b[U]) = k * h[x] + k * b[U]
      BY <3>2
    <3>7. k * h[x] \in Int /\ k * b[U] \in Int
      BY <3>2
    <3>8. QED
      BY <3>1, <3>2, <3>4, <3>5, <3>6, <3>7
  <2>4. QED
    BY <2>1, <2>2, <2>3 DEF IsSum
<1>5. \A x \in S : F[x] \in Int
  <2> TAKE x \in S
  <2>1. f[x] \in Int /\ h[x] \in Int /\ F[x] = f[x] + k * h[x]
    BY DEF IsCombination
  <2>2. QED
    BY <2>1
<1>6. g[S] = a[S] + k * b[S]
  OBVIOUS
<1>7. a[S] \in Int /\ b[S] \in Int
  BY <1>3
<1> HIDE DEF g
<1>8. SumFunctionOnSet(f, S) = a[S] /\ SumFunctionOnSet(h, S) = b[S]
  <2>1. SumFunctionOnSet(f, S) = a[S]
    BY <1>1, SumIsFold, Zenon
  <2>2. SumFunctionOnSet(h, S) = b[S]
    BY <1>2, SumIsFold, Zenon
  <2>3. QED
    BY <2>1, <2>2
<1>9. SumFunctionOnSet(F, S) = g[S]
  BY <1>4, <1>5, SumIsFold, Zenon
<1>10. QED
  BY <1>6, <1>7, <1>8, <1>9

(* F is, on S, k times h. *)
IsScaled(F, k, h, S) == \A x \in S : F[x] = k * h[x]

(* k times a function has k times its sum.                                 *)
LEMMA SumScaled ==
  ASSUME NEW S, IsFiniteSet(S), NEW h, NEW F, NEW k \in Int,
         \A x \in S : h[x] \in Int, IsScaled(F, k, h, S)
  PROVE  /\ SumFunctionOnSet(h, S) \in Int
         /\ SumFunctionOnSet(F, S) = k * SumFunctionOnSet(h, S)
<1> DEFINE f == [x \in S |-> 0]
<1>1. \A x \in S : f[x] \in Int /\ f[x] >= 0 /\ f[x] = 0
  OBVIOUS
<1>2. IsCombination(F, f, k, h, S)
  <2> SUFFICES ASSUME NEW x \in S
               PROVE  F[x] = f[x] + k * h[x]
    BY DEF IsCombination
  <2>1. h[x] \in Int /\ F[x] = k * h[x] /\ f[x] = 0
    BY DEF IsScaled
  <2> HIDE DEF f
  <2>2. QED
    BY <2>1
<1> HIDE DEF f
<1>3. SumFunctionOnSet(f, S) = 0
  BY <1>1, SumNonNegative
<1>4. /\ SumFunctionOnSet(h, S) \in Int
      /\ SumFunctionOnSet(F, S) = SumFunctionOnSet(f, S) + k * SumFunctionOnSet(h, S)
  <2>1. \A x \in S : f[x] \in Int
    BY <1>1
  <2>2. QED
    BY <1>2, <2>1, SumCombination, Zenon
<1>5. QED
  BY <1>3, <1>4

(* A function that is nowhere smaller has no smaller a sum.                *)
LEMMA SumMonotone ==
  ASSUME NEW S, IsFiniteSet(S), NEW f, NEW h,
         \A x \in S : f[x] \in Int, \A x \in S : h[x] \in Int, \A x \in S : f[x] <= h[x]
  PROVE  /\ SumFunctionOnSet(f, S) \in Int /\ SumFunctionOnSet(h, S) \in Int
         /\ SumFunctionOnSet(f, S) <= SumFunctionOnSet(h, S)
<1> DEFINE d == [x \in S |-> h[x] - f[x]]
<1>1. \A x \in S : d[x] \in Int /\ d[x] >= 0 /\ h[x] = f[x] + 1 * d[x]
  <2> TAKE x \in S
  <2>1. f[x] \in Int /\ h[x] \in Int /\ f[x] <= h[x] /\ d[x] = h[x] - f[x]
    OBVIOUS
  <2> HIDE DEF d
  <2>2. QED
    BY <2>1
<1> HIDE DEF d
<1>2. SumFunctionOnSet(d, S) \in Nat
  BY <1>1, SumNonNegative
<1> DEFINE one == 1
<1>3. one \in Int /\ IsCombination(h, f, one, d, S)
  BY <1>1 DEF IsCombination
<1>4. one = 1
  OBVIOUS
<1> HIDE DEF one
<1>5. /\ SumFunctionOnSet(f, S) \in Int
      /\ SumFunctionOnSet(h, S) = SumFunctionOnSet(f, S) + one * SumFunctionOnSet(d, S)
  BY <1>1, <1>3, SumCombination
<1>6. QED
  BY <1>2, <1>4, <1>5

(* Induction over an interval, of sets instead of formulas.                *)
LEMMA FiniteInduction ==
  ASSUME NEW n \in Nat, NEW S, 0 \in S, \A i \in 0 .. n - 1 : i \in S => i + 1 \in S
  PROVE  \A i \in 0 .. n : i \in S
<1> DEFINE R == {i \in 0 .. n : \A j \in 0 .. i : j \in S}
<1>1. 0 \in R /\ \A i \in R : i \in Int
  OBVIOUS
<1>2. IsFiniteSet(R)
  <2>1. R \subseteq 0 .. n
    OBVIOUS
  <2>2. IsFiniteSet(0 .. n)
    BY FS_Interval
  <2> HIDE DEF R
  <2>3. QED
    BY <2>1, <2>2, FS_Subset
<1>3. PICK m \in R : \A j \in R : j <= m
  <2> HIDE DEF R
  <2>1. QED
    BY <1>1, <1>2, LargestElement
<1>4. CASE m < n
  <2>1. m \in 0 .. n - 1 /\ m \in Nat /\ m \in S
    BY <1>4
  <2>2. m + 1 \in S /\ m + 1 \in 0 .. n
    BY <2>1
  <2>3. \A j \in 0 .. m + 1 : j = m + 1 \/ j \in 0 .. m
    BY <2>1
  <2>4. m + 1 \in R
    BY <2>2, <2>3
  <2>5. QED
    BY <1>3, <2>1, <2>4
<1>5. CASE m = n
  BY <1>5
<1>6. QED
  BY <1>4, <1>5

(* One place more on a list adds what stands there.                        *)
LEMMA SumOfPrefix ==
  ASSUME NEW m \in Nat, NEW f, \A i \in 1 .. m + 1 : f[i] \in Int
  PROVE  /\ SumFunctionOnSet(f, 1 .. m) \in Int
         /\ SumFunctionOnSet(f, 1 .. m + 1) = SumFunctionOnSet(f, 1 .. m) + f[m + 1]
<1> DEFINE S == 1 .. m
           e == m + 1
<1>1. IsFiniteSet(S) /\ e \notin S /\ 1 .. m + 1 = S \cup {e}
  <2>1. IsFiniteSet(1 .. m)
    BY FS_Interval
  <2>2. QED
    BY <2>1
<1>2. \A x \in S \cup {e} : f[x] \in Int
  BY <1>1
<1> HIDE DEF S, e
<1>3. /\ SumFunctionOnSet(f, S) \in Int
      /\ SumFunctionOnSet(f, S \cup {e}) = SumFunctionOnSet(f, S) + f[e]
  BY <1>1, <1>2, SumAddsElement, Zenon
<1>4. QED
  BY <1>1, <1>3 DEF S, e

(* What members that are all different have together is no more than what  *)
(* all have.                                                               *)
LEMMA DistinctMembersHaveAtMostAll ==
  ASSUME NEW S, IsFiniteSet(S), NEW g \in [S -> Nat], NEW n \in Nat, NEW s \in [1 .. n -> S],
         \A i, j \in 1 .. n : i # j => s[i] # s[j]
  PROVE  /\ SumFunctionOnSet(g, S) \in Int
         /\ SumFunctionOnSet([i \in 1 .. n |-> g[s[i]]], 1 .. n) \in Int
         /\ SumFunctionOnSet([i \in 1 .. n |-> g[s[i]]], 1 .. n) <= SumFunctionOnSet(g, S)
<1> DEFINE f == [i \in 1 .. n |-> g[s[i]]]
           R(m) == [x \in S |-> IF \E i \in 1 .. m : s[i] = x THEN g[x] ELSE 0]
           D == {m \in 0 .. n : SumFunctionOnSet(f, 1 .. m) = SumFunctionOnSet(R(m), S)}
<1>1. \A i \in 1 .. n : s[i] \in S /\ f[i] = g[s[i]] /\ f[i] \in Int
  OBVIOUS
<1>2. \A m \in 0 .. n : R(m) \in [S -> Nat]
  OBVIOUS
<1>3. 0 \in D
  <2>1. 1 .. 0 = {}
    OBVIOUS
  <2>2. SumFunctionOnSet(f, {}) = 0
    BY SumOfNothing
  <2>3. \A x \in S : R(0)[x] \in Int /\ R(0)[x] >= 0 /\ R(0)[x] = 0
    BY <2>1
  <2> HIDE DEF f, R
  <2>4. SumFunctionOnSet(R(0), S) = 0
    BY <2>3, SumNonNegative
  <2>5. SumFunctionOnSet(f, 1 .. 0) = SumFunctionOnSet(R(0), S)
    BY <2>1, <2>2, <2>4
  <2>6. QED
    BY <2>5
<1>4. ASSUME NEW m \in 0 .. n - 1, m \in D
      PROVE  m + 1 \in D
  <2>1. m \in Nat /\ m + 1 \in 1 .. n /\ m + 1 \in 0 .. n /\ m \in 0 .. n
    OBVIOUS
  <2>2. \A i \in 1 .. m + 1 : i \in 1 .. n
    OBVIOUS
  <2>3. \A i \in 1 .. m + 1 : f[i] \in Int
    BY <1>1, <2>2
  <2> DEFINE t == s[m + 1]
             v == g[t]
  <2>4. t \in S /\ v \in Nat /\ f[m + 1] = v
    BY <1>1, <2>1
  <2>5. \A i \in 1 .. m : i \in 1 .. n /\ i # m + 1
    BY <2>1
  <2>6. ~ \E i \in 1 .. m : s[i] = t
    BY <2>1, <2>5
  <2>7. R(m)[t] = 0
    BY <2>4, <2>6
  <2>8. R(m + 1)[t] = v /\ \A x \in S : x # t => R(m + 1)[x] = R(m)[x]
    <3>1. \A i \in 1 .. m + 1 : i = m + 1 \/ i \in 1 .. m
      BY <2>1
    <3>2. m + 1 \in 1 .. m + 1 /\ \A i \in 1 .. m : i \in 1 .. m + 1
      BY <2>1
    <3>3. R(m + 1)[t] = v
      <4>1. \E i \in 1 .. m + 1 : s[i] = t
        BY <3>2
      <4>2. QED
        BY <2>4, <4>1
    <3>4. ASSUME NEW x \in S, x # t
          PROVE  R(m + 1)[x] = R(m)[x]
      <4>1. (\E i \in 1 .. m + 1 : s[i] = x) <=> (\E i \in 1 .. m : s[i] = x)
        BY <3>1, <3>2, <3>4
      <4>2. QED
        BY <4>1
    <3>5. QED
      BY <3>3, <3>4
  <2>9. R(m) \in [S -> Nat] /\ R(m + 1) \in [S -> Nat]
    BY <1>2, <2>1
  <2>10. SumFunctionOnSet(f, 1 .. m) = SumFunctionOnSet(R(m), S)
    BY <1>4
  <2> DEFINE p == R(m)
             q == R(m + 1)
  <2> HIDE DEF f, R, t, v
  <2>11. /\ SumFunctionOnSet(p, S) \in Int
         /\ SumFunctionOnSet(q, S) = SumFunctionOnSet(p, S) - p[t] + q[t]
    <3>1. (\A x \in S : p[x] \in Int) /\ (\A x \in S : q[x] \in Int)
      BY <2>9
    <3>2. \A x \in S : x # t => q[x] = p[x]
      BY <2>8
    <3>3. t \in S
      BY <2>4
    <3> HIDE DEF p, q
    <3>4. QED
      BY <3>1, <3>2, <3>3, SumDiffersAtOnePoint
  <2>12. SumFunctionOnSet(f, 1 .. m + 1) = SumFunctionOnSet(f, 1 .. m) + f[m + 1]
    BY <2>1, <2>3, SumOfPrefix
  <2>13. SumFunctionOnSet(f, 1 .. m + 1) = SumFunctionOnSet(R(m + 1), S)
    BY <2>4, <2>7, <2>8, <2>10, <2>11, <2>12
  <2>14. QED
    BY <2>1, <2>13
<1>5. n \in D
  <2> HIDE DEF D
  <2>1. \A i \in 0 .. n : i \in D
    BY <1>3, <1>4, FiniteInduction
  <2>2. QED
    BY <2>1
<1>6. SumFunctionOnSet(f, 1 .. n) = SumFunctionOnSet(R(n), S)
  BY <1>5
<1>7. \A x \in S : R(n)[x] \in Int /\ g[x] \in Int /\ R(n)[x] <= g[x]
  <2> TAKE x \in S
  <2>1. g[x] \in Nat /\ (R(n)[x] = g[x] \/ R(n)[x] = 0)
    OBVIOUS
  <2> HIDE DEF R
  <2>2. QED
    BY <2>1
<1> HIDE DEF R, f
<1>8. /\ SumFunctionOnSet(R(n), S) \in Int /\ SumFunctionOnSet(g, S) \in Int
      /\ SumFunctionOnSet(R(n), S) <= SumFunctionOnSet(g, S)
  BY <1>7, SumMonotone
<1>9. QED
  BY <1>6, <1>8 DEF f

LEMMA HalvesAdd ==
  ASSUME NEW u \in Int, NEW v \in Int, NEW r \in Int, NEW b \in Int, NEW x \in Int,
         NEW D \in Int, 2 * u <= 2 * b + r, 2 * v <= 2 * x + D
  PROVE  2 * (u + v) <= 2 * (b + x) + (r + D)
OBVIOUS

(* Shares are given out in units of 1/D and rounded to the nearest whole:  *)
(* of every source no more than there is.  Then together they pass what    *)
(* there is by no more than half a unit each.                              *)
LEMMA RoundedShares ==
  ASSUME NEW Q, IsFiniteSet(Q), NEW n \in Nat, NEW D \in Nat \ {0},
         NEW e \in [1 .. n -> Int], NEW w \in [1 .. n -> [Q -> Int]], NEW c \in [Q -> Int],
         \A i \in 1 .. n : 2 * (D * e[i]) <= 2 * SumFunctionOnSet(w[i], Q) + D,
         \A q \in Q : SumFunctionOnSet([i \in 1 .. n |-> w[i][q]], 1 .. n) <= D * c[q]
  PROVE  2 * SumFunctionOnSet(e, 1 .. n) <= 2 * SumFunctionOnSet(c, Q) + n
<1> DEFINE col(q) == [i \in 1 .. n |-> w[i][q]]
           A(m) == [q \in Q |-> SumFunctionOnSet(col(q), 1 .. m)]
           E(m) == SumFunctionOnSet(e, 1 .. m)
           B(m) == SumFunctionOnSet(A(m), Q)
           H == {m \in 0 .. n : /\ E(m) \in Int /\ B(m) \in Int
                                /\ A(m) \in [Q -> Int]
                                /\ 2 * (D * E(m)) <= 2 * B(m) + m * D}
<1>0. \A i \in 1 .. n : e[i] \in Int /\ w[i] \in [Q -> Int]
  OBVIOUS
<1>1. 0 \in H
  <2>1. 1 .. 0 = {}
    OBVIOUS
  <2>2. \A f : SumFunctionOnSet(f, 1 .. 0) = 0
    <3>1. TAKE f
    <3>2. SumFunctionOnSet(f, {}) = 0
      BY SumOfNothing
    <3>3. QED
      BY <2>1, <3>2
  <2>3. E(0) = 0
    BY <2>2
  <2>4. A(0) = [q \in Q |-> 0]
    BY <2>2
  <2> DEFINE z == [q \in Q |-> 0]
  <2>5. \A q \in Q : z[q] \in Int /\ z[q] >= 0 /\ z[q] = 0
    OBVIOUS
  <2> HIDE DEF z
  <2>6. SumFunctionOnSet(z, Q) = 0
    BY <2>5, SumNonNegative
  <2>7. B(0) = 0 /\ A(0) \in [Q -> Int]
    <3>1. A(0) = z /\ z \in [Q -> Int]
      BY <2>4 DEF z
    <3> HIDE DEF A
    <3>2. QED
      BY <2>6, <3>1
  <2> HIDE DEF A, B, E
  <2>8. 2 * (D * E(0)) <= 2 * B(0) + 0 * D
    <3>1. D * 0 = 0 /\ 0 * D = 0
      OBVIOUS
    <3>2. QED
      BY <2>3, <2>7, <3>1
  <2>9. QED
    BY <2>3, <2>7, <2>8
<1>2. ASSUME NEW m \in 0 .. n - 1, m \in H
      PROVE  m + 1 \in H
  <2>1. m \in Nat /\ m + 1 \in 1 .. n /\ m + 1 \in 0 .. n
    OBVIOUS
  <2>2. \A i \in 1 .. m + 1 : i \in 1 .. n
    OBVIOUS
  <2>3. \A i \in 1 .. m + 1 : e[i] \in Int
    BY <1>0, <2>2
  <2>4. E(m + 1) = E(m) + e[m + 1]
    BY <2>1, <2>3, SumOfPrefix
  <2>5. ASSUME NEW q \in Q
        PROVE  /\ A(m + 1)[q] = A(m)[q] + w[m + 1][q]
               /\ A(m)[q] \in Int /\ w[m + 1][q] \in Int /\ A(m + 1)[q] \in Int
    <3> DEFINE f == col(q)
    <3>1. \A i \in 1 .. m + 1 : f[i] = w[i][q] /\ f[i] \in Int
      BY <1>0, <2>2
    <3>2. m + 1 \in 1 .. m + 1
      BY <2>1
    <3>3. A(m + 1)[q] = SumFunctionOnSet(f, 1 .. m + 1) /\ A(m)[q] = SumFunctionOnSet(f, 1 .. m)
      OBVIOUS
    <3> HIDE DEF f, A
    <3>4. /\ SumFunctionOnSet(f, 1 .. m) \in Int
          /\ SumFunctionOnSet(f, 1 .. m + 1) = SumFunctionOnSet(f, 1 .. m) + f[m + 1]
      BY <2>1, <3>1, SumOfPrefix
    <3>5. QED
      BY <3>1, <3>2, <3>3, <3>4
  <2>6. A(m + 1) \in [Q -> Int]
    <3>1. \A q \in Q : A(m + 1)[q] \in Int
      <4> HIDE DEF A, B, E, H
      <4>1. QED
        BY <2>5
    <3>2. A(m + 1) = [q \in Q |-> A(m + 1)[q]]
      OBVIOUS
    <3> HIDE DEF A
    <3>3. QED
      BY <3>1, <3>2
  <2> DEFINE f == A(m)
             F == A(m + 1)
             h == w[m + 1]
             one == 1
  <2> HIDE DEF A
  <2>7. one \in Int /\ IsCombination(F, f, one, h, Q)
    <3>1. \A x \in Q : F[x] = f[x] + 1 * h[x]
      BY <2>5
    <3>2. QED
      BY <3>1 DEF IsCombination
  <2>8. (\A x \in Q : f[x] \in Int) /\ (\A x \in Q : h[x] \in Int) /\ one = 1
    BY <2>5
  <2> HIDE DEF f, F, h, one
  <2>9. /\ SumFunctionOnSet(f, Q) \in Int /\ SumFunctionOnSet(h, Q) \in Int
        /\ SumFunctionOnSet(F, Q) = SumFunctionOnSet(f, Q) + one * SumFunctionOnSet(h, Q)
    BY <2>7, <2>8, SumCombination
  <2> DEFINE W == SumFunctionOnSet(h, Q)
  <2>10. W \in Int /\ B(m + 1) = B(m) + W
    BY <2>8, <2>9 DEF f, F
  <2>11. 2 * (D * e[m + 1]) <= 2 * W + D
    BY <2>1 DEF h
  <2>12. E(m) \in Int /\ B(m) \in Int /\ 2 * (D * E(m)) <= 2 * B(m) + m * D
    BY <1>2
  <2>13. e[m + 1] \in Int
    BY <1>0, <2>1
  <2> HIDE DEF E, B, W
  <2>14. /\ D * (E(m) + e[m + 1]) = D * E(m) + D * e[m + 1]
         /\ (m + 1) * D = m * D + D
    BY <2>1, <2>12, <2>13
  <2>15. D * E(m) \in Int /\ D * e[m + 1] \in Int /\ m * D \in Int
    BY <2>1, <2>12, <2>13
  <2>16. 2 * (D * E(m + 1)) <= 2 * B(m + 1) + (m + 1) * D
    <3> DEFINE u == D * E(m)
               v == D * e[m + 1]
               r == m * D
    <3>1. u \in Int /\ v \in Int /\ r \in Int
      BY <2>15
    <3>2. D * E(m + 1) = u + v
      BY <2>4, <2>14
    <3>3. (m + 1) * D = r + D
      BY <2>14
    <3>4. 2 * u <= 2 * B(m) + r /\ 2 * v <= 2 * W + D
      BY <2>11, <2>12
    <3> HIDE DEF u, v, r, H
    <3>5. 2 * (u + v) <= 2 * (B(m) + W) + (r + D)
      <4>1. B(m) \in Int /\ W \in Int /\ D \in Int
        BY <2>10, <2>12
      <4>2. QED
        BY <3>1, <3>4, <4>1, HalvesAdd
    <3>6. QED
      BY <2>10, <3>2, <3>3, <3>5
  <2>17. E(m + 1) \in Int /\ B(m + 1) \in Int
    BY <2>4, <2>10, <2>12, <2>13
  <2>18. QED
    BY <2>1, <2>6, <2>16, <2>17
<1>3. n \in H
  <2> HIDE DEF H
  <2>1. \A i \in 0 .. n : i \in H
    BY <1>1, <1>2, FiniteInduction
  <2>2. QED
    BY <2>1
<1> DEFINE a == A(n)
           d == [q \in Q |-> D * c[q]]
<1>4. /\ E(n) \in Int /\ B(n) \in Int /\ a \in [Q -> Int] /\ 2 * (D * E(n)) <= 2 * B(n) + n * D
  BY <1>3
<1>5. \A q \in Q : a[q] \in Int /\ c[q] \in Int /\ d[q] = D * c[q] /\ d[q] \in Int /\ a[q] <= d[q]
  <2> TAKE q \in Q
  <2>1. c[q] \in Int
    OBVIOUS
  <2>2. D * c[q] \in Int
    BY <2>1
  <2>3. a[q] \in Int
    BY <1>4
  <2>4. a[q] = SumFunctionOnSet([i \in 1 .. n |-> w[i][q]], 1 .. n)
    OBVIOUS
  <2>5. QED
    BY <2>1, <2>2, <2>3, <2>4
<1> DEFINE C == SumFunctionOnSet(c, Q)
<1> HIDE DEF a, d
<1>6. SumFunctionOnSet(a, Q) <= SumFunctionOnSet(d, Q)
  BY <1>5, SumMonotone
<1>7. C \in Int /\ SumFunctionOnSet(d, Q) = D * C
  <2> HIDE DEF A, B, E, H
  <2>1. \A q \in Q : c[q] \in Int
    BY <1>5
  <2>2. IsScaled(d, D, c, Q)
    BY <1>5 DEF IsScaled
  <2>3. D \in Int
    OBVIOUS
  <2>4. QED
    BY <2>1, <2>2, <2>3, SumScaled
<1>8. B(n) <= D * C
  BY <1>6, <1>7 DEF a
<1> HIDE DEF E, B, C
<1>9. 2 * E(n) <= 2 * C + n
  <2> DEFINE x == 2 * E(n)
             y == 2 * C + n
  <2>1. x \in Int /\ y \in Int
    BY <1>4, <1>7
  <2>2. D * x = 2 * (D * E(n)) /\ D * y = 2 * (D * C) + n * D
    BY <1>4, <1>7
  <2>3. D * E(n) \in Int /\ D * C \in Int /\ n * D \in Int
    BY <1>4, <1>7
  <2>4. D * x <= D * y
    BY <1>4, <1>8, <2>2, <2>3
  <2> HIDE DEF x, y
  <2>5. x <= y
    <3>1. SUFFICES ASSUME y + 1 <= x PROVE FALSE
      BY <2>1
    <3>2. D * (y + 1) <= D * x
      BY <2>1, <3>1
    <3>3. D * (y + 1) = D * y + D /\ D * y \in Int /\ D * x \in Int
      BY <2>1
    <3>4. QED
      BY <2>4, <3>2, <3>3
  <2>6. QED
    BY <2>5 DEF x, y
<1>10. QED
  BY <1>9 DEF E, C

-----------------------------------------------------------------------------

(* Floor division, as the contracts use it. *)
LEMMA DivFloor ==
  ASSUME NEW a \in Nat, NEW b \in Nat \ {0}
  PROVE  /\ a \div b \in Nat
         /\ (a \div b) * b <= a
         /\ a < (a \div b) * b + b
  OBVIOUS

(* The product of naturals is a natural: stated once, because the solver   *)
(* does not find it under other hypotheses.                                *)
LEMMA ProductNat ==
  ASSUME NEW a \in Nat, NEW b \in Nat
  PROVE  a * b \in Nat
  OBVIOUS

(* A larger divisor gives no larger a quotient, a larger dividend no       *)
(* smaller a one.                                                          *)
LEMMA DivAntitone ==
  ASSUME NEW n \in Nat, NEW a \in Nat \ {0}, NEW b \in Nat \ {0}, a <= b
  PROVE  n \div b <= n \div a
<1> DEFINE p == n \div a
           q == n \div b
<1>1. p \in Nat /\ n < p * a + a /\ q \in Nat /\ q * b <= n
  BY DivFloor
<1> HIDE DEF p, q
<1>2. SUFFICES ASSUME q >= p + 1 PROVE FALSE
  BY <1>1 DEF p, q
<1>3. (p + 1) * a <= q * b
  <2>1. (p + 1) * a <= q * a
    BY <1>1, <1>2
  <2>2. q * a <= q * b
    BY <1>1
  <2>3. (p + 1) * a \in Nat /\ q * a \in Nat /\ q * b \in Nat
    BY <1>1, ProductNat
  <2>4. QED
    BY <2>1, <2>2, <2>3
<1>4. (p + 1) * a = p * a + a
  BY <1>1
<1>5. p * a \in Nat /\ q * b \in Nat
  BY <1>1, ProductNat
<1>6. QED
  BY <1>1, <1>3, <1>4, <1>5

LEMMA DivMonotone ==
  ASSUME NEW m \in Nat, NEW n \in Nat, m <= n, NEW a \in Nat \ {0}
  PROVE  m \div a <= n \div a
<1> DEFINE p == m \div a
           q == n \div a
<1>1. p \in Nat /\ p * a <= m /\ q \in Nat /\ n < q * a + a
  BY DivFloor
<1> HIDE DEF p, q
<1>2. SUFFICES ASSUME p >= q + 1 PROVE FALSE
  BY <1>1 DEF p, q
<1>3. (q + 1) * a <= p * a
  BY <1>1, <1>2
<1>4. (q + 1) * a = q * a + a /\ q * a \in Nat /\ p * a \in Nat
  BY <1>1, ProductNat
<1>5. QED
  BY <1>1, <1>3, <1>4

(* What a constant product pays, rounded up, is less than one more than    *)
(* the exact quotient.                                                     *)
LEMMA QuoteBounds ==
  ASSUME NEW X \in Nat, NEW Y \in Nat, NEW z \in Nat, X + z > 0
  PROVE  LET out == Y - (X * Y) \div (X + z)
         IN  /\ out \in Nat /\ out <= Y
             /\ out * (X + z) >= Y * z
             /\ (out - 1) * (X + z) < Y * z
<1> DEFINE w == X + z
           q == (X * Y) \div w
<1>1. w \in Nat \ {0} /\ X * Y \in Nat
  BY ProductNat
<1>2. q \in Nat /\ q * w <= X * Y /\ X * Y < q * w + w
  BY <1>1, DivFloor
<1> HIDE DEF q
<1>3. q * w \in Nat /\ w * Y = X * Y + z * Y
  BY <1>1, <1>2, ProductNat
<1>4. z * Y \in Nat /\ Y * z = z * Y
  BY ProductNat
<1>5. q <= Y
  <2>1. SUFFICES ASSUME q >= Y + 1 PROVE FALSE
    BY <1>2
  <2>2. q * w >= (Y + 1) * w
    BY <1>1, <1>2, <2>1
  <2>3. (Y + 1) * w = w * Y + w
    BY <1>1
  <2>4. QED
    BY <1>1, <1>2, <1>3, <1>4, <2>2, <2>3
<1>6. /\ (Y - q) * w = w * Y - q * w
      /\ (Y - q - 1) * w = w * Y - q * w - w
  BY <1>1, <1>2
<1>7. (Y - q) \in Nat /\ Y - q <= Y
  BY <1>2, <1>5
<1>8. (Y - q) * w >= Y * z
  BY <1>1, <1>2, <1>3, <1>4, <1>6
<1>9. (Y - q - 1) * w < Y * z
  BY <1>1, <1>2, <1>3, <1>4, <1>6
<1> HIDE DEF w
<1>10. QED
  BY <1>7, <1>8, <1>9 DEF q, w

(* Of a smaller input a constant product pays, but for that rounding, at   *)
(* least the part of the output that it is of the larger input.            *)
LEMMA SmallerInput ==
  ASSUME NEW X \in Nat, NEW Y \in Nat, NEW n \in Nat \ {0}, NEW x \in Nat, n <= x
  PROVE  LET p == Y - (X * Y) \div (X + n)
             r == Y - (X * Y) \div (X + x)
         IN  /\ p \in Nat /\ r \in Nat
             /\ (r - 1) * n <= p * x
<1> DEFINE p == Y - (X * Y) \div (X + n)
           r == Y - (X * Y) \div (X + x)
           a == X + n
           b == X + x
<1>1. /\ p \in Nat /\ p * a >= Y * n
      /\ r \in Nat /\ (r - 1) * b < Y * x
  BY QuoteBounds
<1> HIDE DEF p, r
<1> DEFINE s == r - 1
           u == s * n
           v == p * x
<1>2. a \in Nat \ {0} /\ b \in Nat /\ a <= b /\ s \in Int
  BY <1>1
<1>3. CASE s < 0
  <2>1. s * n <= 0
    BY <1>2, <1>3
  <2>2. v \in Nat
    BY <1>1, ProductNat
  <2>3. QED
    BY <1>1, <2>1, <2>2 DEF p, r
<1>4. CASE s >= 0
  <2>1. s \in Nat /\ u \in Nat /\ v \in Nat
    <3>1. s \in Nat
      BY <1>2, <1>4
    <3> HIDE DEF s
    <3>2. QED
      BY <1>1, <3>1, ProductNat
  <2>2. u * b < v * a
    <3>1. s * b \in Nat /\ Y * x \in Nat /\ p * a \in Nat /\ Y * n \in Nat
      <4> HIDE DEF s, a, b
      <4>1. QED
        BY <1>1, <1>2, <2>1, ProductNat
    <3>2. (s * b) * n < (Y * x) * n
      <4> DEFINE c == s * b
                 d == Y * x
      <4>1. c \in Nat /\ d \in Nat /\ c < d
        BY <1>1, <3>1
      <4> HIDE DEF c, d
      <4>2. c * n < d * n
        BY <4>1
      <4>3. QED
        BY <4>2 DEF c, d
    <3>3. (Y * n) * x <= (p * a) * x
      <4> DEFINE c == Y * n
                 d == p * a
      <4>1. c \in Nat /\ d \in Nat /\ c <= d
        BY <1>1, <3>1
      <4> HIDE DEF c, d
      <4>2. c * x <= d * x
        BY <4>1
      <4>3. QED
        BY <4>2 DEF c, d
    <3> HIDE DEF s, a, b
    <3>4. (s * b) * n = u * b /\ (p * a) * x = v * a /\ (Y * x) * n = (Y * n) * x
      BY <1>1, <1>2, <2>1
    <3>5. u * b \in Nat /\ v * a \in Nat /\ (Y * n) * x \in Nat
      <4> HIDE DEF u, v
      <4>1. QED
        BY <1>2, <2>1, <3>1, ProductNat
    <3>6. QED
      BY <3>2, <3>3, <3>4, <3>5
  <2>3. u <= v
    <3> HIDE DEF u, v, s, a, b
    <3>1. SUFFICES ASSUME v < u PROVE FALSE
      BY <2>1
    <3>2. v * a <= v * b
      BY <1>2, <2>1
    <3>3. v * b <= u * b
      BY <1>2, <2>1, <3>1
    <3>4. v * a \in Nat /\ v * b \in Nat /\ u * b \in Nat
      BY <1>2, <2>1, ProductNat
    <3>5. QED
      BY <2>2, <3>2, <3>3, <3>4
  <2>4. QED
    BY <1>1, <2>3 DEF p, r
<1>5. QED
  BY <1>2, <1>3, <1>4
=============================================================================
