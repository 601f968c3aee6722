-------------------------------- MODULE Sums --------------------------------
(***************************************************************************)
(* Sums over finite sets.  The folds of the community modules take their   *)
(* summand as an operator, which no theorem can quantify over; here it is  *)
(* a function v, and the proofs about money and rooms unfold their folds   *)
(* into Sum.                                                               *)
(***************************************************************************)
EXTENDS Integers, FiniteSets, FiniteSetTheorems, WellFoundedInduction, TLAPS

Pick(T) == CHOOSE x \in T : TRUE

Adds(v, S, sum) ==
    sum = [T \in SUBSET S |-> IF T = {} THEN 0 ELSE v[Pick(T)] + sum[T \ {Pick(T)}]]

(* What MapThenFoldSet computes for the operator + and the base 0. *)
Sum(v, S) == (CHOOSE sum : Adds(v, S, sum))[S]

(* Among sets of subsets of a finite set one has no other strictly inside. *)
LEMMA SmallestSet ==
    ASSUME NEW S, IsFiniteSet(S), NEW C \in SUBSET SUBSET S, C # {}
    PROVE  \E T \in C : \A U \in C : U \subseteq T => U = T
<1>1. IsWellFoundedOn(StrictSubsetOrdering(S), SUBSET S)
  BY FS_StrictSubsetOrderingWellFounded, FS_FiniteSubsetsOfFinite
<1>2. PICK T \in C : \A U \in C : <<U, T>> \notin StrictSubsetOrdering(S)
  BY <1>1, WFMin
<1>3. ASSUME NEW U \in C, U \subseteq T, U # T PROVE FALSE
  <2>1. <<U, T>> \in StrictSubsetOrdering(S)
    BY <1>3 DEF StrictSubsetOrdering
  <2> QED BY <1>2, <2>1
<1> QED BY <1>3

LEMMA PickIn == ASSUME NEW T, T # {} PROVE Pick(T) \in T
BY DEF Pick

(* Two sums agree on the sets both know. *)
LEMMA AddsAgree ==
    ASSUME NEW S, IsFiniteSet(S), NEW v, NEW w, \A x \in S : v[x] = w[x],
           NEW A, NEW B, S \subseteq A, S \subseteq B,
           NEW f, Adds(v, A, f), NEW g, Adds(w, B, g)
    PROVE  f[S] = g[S]
<1> DEFINE C == {T \in SUBSET S : f[T] # g[T]}
<1> SUFFICES ASSUME C # {} PROVE FALSE
  OBVIOUS
<1>1. PICK T \in C : \A U \in C : U \subseteq T => U = T
  <2>1. C \in SUBSET SUBSET S
    OBVIOUS
  <2> HIDE DEF C
  <2> QED BY <2>1, SmallestSet
<1>2. f[T] = IF T = {} THEN 0 ELSE v[Pick(T)] + f[T \ {Pick(T)}]
  <2>1. T \in SUBSET A
    OBVIOUS
  <2> QED BY <2>1 DEF Adds
<1>3. g[T] = IF T = {} THEN 0 ELSE w[Pick(T)] + g[T \ {Pick(T)}]
  <2>1. T \in SUBSET B
    OBVIOUS
  <2> QED BY <2>1 DEF Adds
<1>4. CASE T = {}
  BY <1>2, <1>3, <1>4
<1>5. CASE T # {}
  <2>1. Pick(T) \in T
    BY <1>5, PickIn
  <2>2. f[T \ {Pick(T)}] = g[T \ {Pick(T)}]
    BY <1>1, <2>1
  <2> QED BY <1>2, <1>3, <1>5, <2>1, <2>2
<1> QED BY <1>4, <1>5

(* The recursion has a solution. *)
LEMMA AddsExists ==
    ASSUME NEW S, IsFiniteSet(S), NEW v
    PROVE  \E sum : Adds(v, S, sum)
<1> DEFINE C == {T \in SUBSET S : ~ \E sum : Adds(v, T, sum)}
<1> SUFFICES ASSUME C # {} PROVE FALSE
  OBVIOUS
<1>1. PICK T \in C : \A U \in C : U \subseteq T => U = T
  <2>1. C \in SUBSET SUBSET S
    OBVIOUS
  <2> HIDE DEF C
  <2> QED BY <2>1, SmallestSet
<1>2. T \in SUBSET S /\ ~ \E sum : Adds(v, T, sum)
  OBVIOUS
<1> DEFINE Of(U) == (CHOOSE sum : Adds(v, U, sum))
<1>3. ASSUME NEW U \in SUBSET T, U # T PROVE Adds(v, U, Of(U))
  <2>1. U \notin C
    BY <1>1, <1>3
  <2>2. \E sum : Adds(v, U, sum)
    BY <2>1
  <2> QED BY <2>2
<1> HIDE DEF C, Of
<1> DEFINE f == [U \in SUBSET T |-> IF U = {} THEN 0
                                     ELSE v[Pick(U)] + Of(U \ {Pick(U)})[U \ {Pick(U)}]]
<1>4. ASSUME NEW U \in SUBSET T, U # T PROVE f[U] = Of(U)[U]
  <2>1. Adds(v, U, Of(U))
    BY <1>3, <1>4
  <2>2. Of(U)[U] = IF U = {} THEN 0 ELSE v[Pick(U)] + Of(U)[U \ {Pick(U)}]
    BY <2>1 DEF Adds
  <2>3. ASSUME U # {} PROVE Of(U)[U \ {Pick(U)}] = Of(U \ {Pick(U)})[U \ {Pick(U)}]
    <3> DEFINE V == U \ {Pick(U)}
    <3>1. V \in SUBSET T /\ V # T /\ V \subseteq U
      BY <1>4
    <3>2. Adds(v, V, Of(V))
      BY <1>3, <3>1
    <3>3. IsFiniteSet(V)
      BY <1>2, <3>1, FS_Subset
    <3> HIDE DEF V
    <3>4. Of(U)[V] = Of(V)[V]
      BY <2>1, <3>1, <3>2, <3>3, AddsAgree
    <3> QED BY <3>4 DEF V
  <2> QED BY <2>2, <2>3
<1>5. Adds(v, T, f)
  <2>1. ASSUME NEW U \in SUBSET T, U # {}
        PROVE  f[U \ {Pick(U)}] = Of(U \ {Pick(U)})[U \ {Pick(U)}]
    <3>1. Pick(U) \in U
      BY <2>1, PickIn
    <3>2. U \ {Pick(U)} \in SUBSET T /\ U \ {Pick(U)} # T
      BY <3>1
    <3> HIDE DEF f
    <3> QED BY <1>4, <3>2
  <2>2. f = [U \in SUBSET T |-> IF U = {} THEN 0 ELSE v[Pick(U)] + f[U \ {Pick(U)}]]
    BY <2>1
  <2> QED BY <2>2 DEF Adds
<1> QED BY <1>2, <1>5

(* Sum as its recursion says. *)
LEMMA SumUnfolds ==
    ASSUME NEW S, IsFiniteSet(S), NEW v
    PROVE  Sum(v, S) = IF S = {} THEN 0 ELSE v[Pick(S)] + Sum(v, S \ {Pick(S)})
<1> DEFINE f == CHOOSE sum : Adds(v, S, sum)
           U == S \ {Pick(S)}
           g == CHOOSE sum : Adds(v, U, sum)
<1>1. IsFiniteSet(U) /\ U \subseteq S
  BY FS_Subset
<1>2. Adds(v, S, f)
  BY AddsExists
<1>3. Adds(v, U, g)
  BY <1>1, AddsExists
<1>4. f[U] = g[U]
  <2> HIDE DEF f, g, U
  <2> QED BY <1>1, <1>2, <1>3, AddsAgree
<1>5. f[S] = IF S = {} THEN 0 ELSE v[Pick(S)] + f[U]
  BY <1>2 DEF Adds
<1> QED BY <1>4, <1>5 DEF Sum

(* Only the summands count. *)
LEMMA SumSame ==
    ASSUME NEW S, IsFiniteSet(S), NEW v, NEW w, \A x \in S : v[x] = w[x]
    PROVE  Sum(v, S) = Sum(w, S)
<1> DEFINE f == CHOOSE sum : Adds(v, S, sum)
           g == CHOOSE sum : Adds(w, S, sum)
<1>1. Adds(v, S, f) /\ Adds(w, S, g)
  BY AddsExists
<1>2. f[S] = g[S]
  <2> HIDE DEF f, g
  <2> QED BY <1>1, AddsAgree
<1> QED BY <1>2 DEF Sum

LEMMA SumEmpty == \A v : Sum(v, {}) = 0
BY SumUnfolds, FS_EmptySet

LEMMA SumType ==
    ASSUME NEW S, IsFiniteSet(S), NEW v, \A x \in S : v[x] \in Int
    PROVE  Sum(v, S) \in Int
<1> DEFINE C == {T \in SUBSET S : Sum(v, T) \notin Int}
<1> SUFFICES ASSUME C # {} PROVE FALSE
  BY DEF C
<1>1. PICK T \in C : \A U \in C : U \subseteq T => U = T
  <2>1. C \in SUBSET SUBSET S
    OBVIOUS
  <2> HIDE DEF C
  <2> QED BY <2>1, SmallestSet
<1>2. T \in SUBSET S /\ Sum(v, T) \notin Int
  OBVIOUS
<1>3. Sum(v, T) = IF T = {} THEN 0 ELSE v[Pick(T)] + Sum(v, T \ {Pick(T)})
  BY <1>2, FS_Subset, SumUnfolds
<1>4. T # {}
  BY <1>2, <1>3
<1>5. Pick(T) \in T
  BY <1>4, PickIn
<1>6. T \ {Pick(T)} \notin C /\ T \ {Pick(T)} \in SUBSET S
  BY <1>1, <1>5
<1>7. Sum(v, T \ {Pick(T)}) \in Int
  BY <1>6
<1> QED BY <1>2, <1>3, <1>4, <1>5, <1>7

(* Any summand may be taken out first. *)
LEMMA SumOut ==
    ASSUME NEW S, IsFiniteSet(S), NEW v, \A x \in S : v[x] \in Int, NEW a \in S
    PROVE  Sum(v, S) = v[a] + Sum(v, S \ {a})
<1> DEFINE Out(T) == \A x \in T : Sum(v, T) = v[x] + Sum(v, T \ {x})
           C == {T \in SUBSET S : ~Out(T)}
<1> SUFFICES ASSUME C # {} PROVE FALSE
  <2>1. S \notin C
    OBVIOUS
  <2> QED BY <2>1
<1>1. PICK T \in C : \A U \in C : U \subseteq T => U = T
  <2>1. C \in SUBSET SUBSET S
    OBVIOUS
  <2> HIDE DEF C
  <2> QED BY <2>1, SmallestSet
<1>2. T \in SUBSET S /\ ~Out(T) /\ \A U \in SUBSET T : U = T \/ Out(U)
  BY <1>1
<1> HIDE DEF C
<1>3. PICK x \in T : Sum(v, T) # v[x] + Sum(v, T \ {x})
  BY <1>2
<1> DEFINE p == Pick(T)
<1>4. p \in T /\ Sum(v, T) = v[p] + Sum(v, T \ {p})
  BY <1>2, <1>3, FS_Subset, PickIn, SumUnfolds
<1>5. p # x
  BY <1>3, <1>4
<1> HIDE DEF p
<1>6. Out(T \ {p}) /\ Out(T \ {x})
  <2> HIDE DEF Out
  <2>1. T \ {p} \in SUBSET T /\ T \ {p} # T /\ T \ {x} \in SUBSET T /\ T \ {x} # T
    BY <1>3, <1>4
  <2> QED BY <1>2, <2>1
<1>7. Sum(v, T \ {p}) = v[x] + Sum(v, (T \ {p}) \ {x})
  BY <1>3, <1>5, <1>6
<1>8. Sum(v, T \ {x}) = v[p] + Sum(v, (T \ {x}) \ {p})
  BY <1>4, <1>5, <1>6
<1>9. (T \ {p}) \ {x} = (T \ {x}) \ {p}
  OBVIOUS
<1>10. Sum(v, (T \ {x}) \ {p}) \in Int
  <2>1. (T \ {x}) \ {p} \in SUBSET S
    BY <1>2
  <2> QED BY <2>1, FS_Subset, SumType
<1>11. v[x] \in Int /\ v[p] \in Int
  BY <1>2, <1>3, <1>4
<1>12. Sum(v, T \ {p}) = v[x] + Sum(v, (T \ {x}) \ {p})
  BY <1>7, <1>9
<1>13. Sum(v, T) = v[x] + Sum(v, T \ {x})
  BY <1>4, <1>8, <1>10, <1>11, <1>12
<1> QED BY <1>3, <1>13

(* One summand changes. *)
LEMMA SumChanged ==
    ASSUME NEW S, IsFiniteSet(S), NEW v, NEW w, \A x \in S : v[x] \in Int /\ w[x] \in Int,
           NEW a \in S, \A x \in S \ {a} : w[x] = v[x]
    PROVE  Sum(w, S) = Sum(v, S) - v[a] + w[a]
<1>1. IsFiniteSet(S \ {a})
  BY FS_Subset
<1>2. Sum(v, S \ {a}) = Sum(w, S \ {a}) /\ Sum(v, S \ {a}) \in Int
  BY <1>1, SumSame, SumType
<1>3. Sum(v, S) = v[a] + Sum(v, S \ {a}) /\ Sum(w, S) = w[a] + Sum(w, S \ {a})
  BY SumOut
<1> QED BY <1>2, <1>3

(* One summand is added at the end of a list. *)
LEMMA SumAppend ==
    ASSUME NEW n \in Nat, NEW v, NEW w, \A i \in 1 .. n : w[i] = v[i],
           \A i \in 1 .. n + 1 : w[i] \in Int
    PROVE  Sum(w, 1 .. n + 1) = Sum(v, 1 .. n) + w[n + 1]
<1>1. (1 .. n + 1) \ {n + 1} = 1 .. n /\ n + 1 \in 1 .. n + 1
  OBVIOUS
<1>2. IsFiniteSet(1 .. n + 1) /\ IsFiniteSet(1 .. n)
  BY FS_Interval
<1>3. Sum(w, 1 .. n + 1) = w[n + 1] + Sum(w, 1 .. n)
  BY <1>1, <1>2, SumOut
<1>4. Sum(w, 1 .. n) = Sum(v, 1 .. n) /\ Sum(w, 1 .. n) \in Int
  BY <1>1, <1>2, SumSame, SumType
<1> QED BY <1>1, <1>3, <1>4

(* Induction over a set of numbers. *)
LEMMA AllUpTo ==
    ASSUME NEW m \in Nat, NEW A, 0 \in A, \A n \in Nat : n < m /\ n \in A => n + 1 \in A
    PROVE  m \in A
<1> SUFFICES ASSUME m \notin A PROVE FALSE
  OBVIOUS
<1> DEFINE S == 0 .. m
           C == {0 .. n : n \in {k \in S : k \notin A}}
<1>1. PICK T \in C : \A U \in C : U \subseteq T => U = T
  <2>1. C \in SUBSET SUBSET S /\ C # {}
    OBVIOUS
  <2>2. IsFiniteSet(S)
    BY FS_Interval
  <2> HIDE DEF C, S
  <2> QED BY <2>1, <2>2, SmallestSet
<1>2. PICK n \in 0 .. m : n \notin A /\ T = 0 .. n
  OBVIOUS
<1>3. n # 0 /\ n - 1 \in Nat /\ n - 1 < m
  BY <1>2
<1>4. n - 1 \notin A
  BY <1>2, <1>3
<1>5. 0 .. (n - 1) \in C
  BY <1>3, <1>4
<1>6. 0 .. (n - 1) \subseteq T /\ n \in T /\ n \notin 0 .. (n - 1)
  BY <1>2
<1> HIDE DEF C
<1> QED BY <1>1, <1>5, <1>6

(* w lists u up to m and then v up to k. *)
Joins(u, m, v, k, w) ==
    /\ \A i \in 1 .. m : w[i] = u[i] /\ u[i] \in Int
    /\ \A i \in 1 .. k : w[m + i] = v[i] /\ v[i] \in Int

(* Two lists one after the other. *)
LEMMA SumJoined ==
    ASSUME NEW m \in Nat, NEW k \in Nat, NEW u, NEW v, NEW w, Joins(u, m, v, k, w)
    PROVE  Sum(w, 1 .. m + k) = Sum(u, 1 .. m) + Sum(v, 1 .. k)
<1> USE DEF Joins
<1> DEFINE A == {n \in Nat : n <= k => Sum(w, 1 .. m + n) = Sum(u, 1 .. m) + Sum(v, 1 .. n)}
<1>1. IsFiniteSet(1 .. m) /\ Sum(u, 1 .. m) \in Int
  <2>1. IsFiniteSet(1 .. m)
    BY FS_Interval
  <2> QED BY <2>1, SumType
<1>2. 0 \in A
  <2>1. 1 .. 0 = {} /\ m + 0 = m
    OBVIOUS
  <2>2. Sum(w, 1 .. m) = Sum(u, 1 .. m)
    BY <1>1, SumSame
  <2> QED BY <1>1, <2>1, <2>2, SumEmpty
<1>3. ASSUME NEW n \in Nat, n < k, n \in A PROVE n + 1 \in A
  <2>1. \A i \in 1 .. m + n + 1 : w[i] \in Int
    <3>1. ASSUME NEW i \in 1 .. m + n + 1, ~(i <= m) PROVE w[i] \in Int
      <4>1. i - m \in 1 .. k /\ i = m + (i - m)
        BY <1>3, <3>1
      <4> QED BY <4>1
    <3> QED BY <3>1
  <2>2. Sum(w, 1 .. m + n + 1) = Sum(w, 1 .. m + n) + w[m + n + 1]
    <3>1. m + n \in Nat
      OBVIOUS
    <3> QED BY <2>1, <3>1, SumAppend
  <2>3. Sum(v, 1 .. n + 1) = Sum(v, 1 .. n) + v[n + 1]
    <3>1. \A i \in 1 .. n + 1 : v[i] \in Int
      BY <1>3
    <3> QED BY <3>1, SumAppend
  <2>4. w[m + n + 1] = v[n + 1] /\ v[n + 1] \in Int
    <3>1. n + 1 \in 1 .. k /\ m + (n + 1) = m + n + 1
      BY <1>3
    <3> QED BY <3>1
  <2>5. Sum(v, 1 .. n) \in Int
    <3>1. \A i \in 1 .. n : v[i] \in Int
      BY <1>3
    <3> QED BY <3>1, FS_Interval, SumType
  <2>6. Sum(w, 1 .. m + n) = Sum(u, 1 .. m) + Sum(v, 1 .. n)
    BY <1>3
  <2> QED BY <1>1, <2>2, <2>3, <2>4, <2>5, <2>6
<1>4. k \in A
  <2> HIDE DEF A
  <2> QED BY <1>2, <1>3, AllUpTo
<1> QED BY <1>4

(* What is not in a part counts for nothing. *)
LEMMA SumPart ==
    ASSUME NEW S, IsFiniteSet(S), NEW I \in SUBSET S, NEW v, NEW w,
           \A x \in S : w[x] \in Int /\ w[x] = IF x \in I THEN v[x] ELSE 0
    PROVE  Sum(v, I) = Sum(w, S)
<1> DEFINE C == {T \in SUBSET S : Sum(v, T \cap I) # Sum(w, T)}
<1> SUFFICES ASSUME C # {} PROVE FALSE
  <2>1. S \notin C /\ S \cap I = I
    OBVIOUS
  <2> QED BY <2>1
<1>1. PICK T \in C : \A U \in C : U \subseteq T => U = T
  <2>1. C \in SUBSET SUBSET S
    OBVIOUS
  <2> HIDE DEF C
  <2> QED BY <2>1, SmallestSet
<1>2. T \in SUBSET S /\ Sum(v, T \cap I) # Sum(w, T) /\ IsFiniteSet(T) /\ IsFiniteSet(T \cap I)
  BY FS_Subset
<1>3. T # {}
  <2>1. {} \cap I = {}
    OBVIOUS
  <2> QED BY <1>2, <2>1, SumEmpty
<1> DEFINE p == Pick(T)
           U == T \ {p}
<1>4. p \in T
  BY <1>3, PickIn
<1> HIDE DEF p
<1>5. U \notin C /\ U \in SUBSET S
  BY <1>1, <1>2, <1>4
<1>6. Sum(v, U \cap I) = Sum(w, U)
  BY <1>5
<1>7. Sum(w, T) = w[p] + Sum(w, U) /\ Sum(w, U) \in Int
  <2>1. \A x \in T : w[x] \in Int
    BY <1>2
  <2>2. Sum(w, T) = w[p] + Sum(w, U)
    BY <1>2, <1>4, <2>1, SumOut
  <2>3. IsFiniteSet(U)
    BY <1>2, FS_Subset
  <2>4. Sum(w, U) \in Int
    BY <2>1, <2>3, SumType
  <2> QED BY <2>2, <2>4
<1>8. CASE p \in I
  <2>1. \A x \in T \cap I : v[x] \in Int
    BY <1>2
  <2>2. p \in T \cap I /\ (T \cap I) \ {p} = U \cap I /\ w[p] = v[p]
    BY <1>2, <1>4, <1>8
  <2>3. Sum(v, T \cap I) = v[p] + Sum(v, (T \cap I) \ {p})
    BY <1>2, <2>1, <2>2, SumOut
  <2> HIDE DEF U
  <2> QED BY <1>2, <1>6, <1>7, <2>2, <2>3
<1>9. CASE p \notin I
  <2>1. T \cap I = U \cap I /\ w[p] = 0
    BY <1>2, <1>4, <1>9
  <2>2. Sum(v, T \cap I) = Sum(v, U \cap I)
    BY <2>1
  <2> HIDE DEF U
  <2>3. Sum(w, T) = Sum(w, U)
    BY <1>7, <2>1
  <2> QED BY <1>2, <1>6, <2>2, <2>3
<1> QED BY <1>8, <1>9
=============================================================================
