----------------------------- MODULE Foundations -----------------------------
(***************************************************************************)
(* Facts about data that the proofs about several components rest on:      *)
(* induction stated with sets instead of predicates, functions defined by  *)
(* recursion over an interval, and sums over a finite set.                 *)
(***************************************************************************)
EXTENDS Integers, FiniteSets, Sequences, Functions, SequencesExt, FiniteSetTheorems,
        WellFoundedInduction, TLAPS

\* Induction over the naturals, for the set of those with a property.
LEMMA NatSetInduction ==
  ASSUME NEW S \in SUBSET Nat, 0 \in S, \A n \in S : n + 1 \in S
  PROVE  S = Nat
<1> SUFFICES ASSUME Nat \ S # {} PROVE FALSE
  OBVIOUS
<1> DEFINE R == OpToRel(<, Nat)
           T == Nat \ S
<1>1. IsWellFoundedOn(R, Nat)
  BY NatLessThanWellFounded
<1>2. \A x, y \in Nat : x < y => <<x, y>> \in R
  BY DEF OpToRel
<1> HIDE DEF R
<1>3. PICK n \in T : \A m \in T : <<m, n>> \notin R
  BY <1>1, WFMin
<1>4. n \in Nat /\ n # 0 /\ n - 1 \in Nat /\ n - 1 < n
  OBVIOUS
<1>5. n - 1 \notin T
  BY <1>2, <1>3, <1>4
<1>6. (n - 1) + 1 \in S
  BY <1>4, <1>5
<1> QED
  BY <1>4, <1>6

\* The same, up to a bound.
LEMMA IntervalInduction ==
  ASSUME NEW N \in Nat, NEW S, 0 \in S, \A n \in 0..(N - 1) : n \in S => n + 1 \in S
  PROVE  0..N \subseteq S
<1> DEFINE U == {n \in Nat : n <= N => n \in S}
<1>1. 0 \in U
  OBVIOUS
<1>2. ASSUME NEW n \in U PROVE n + 1 \in U
  OBVIOUS
<1>3. U = Nat
  <2> HIDE DEF U
  <2>1. U \in SUBSET Nat
    BY DEF U
  <2> QED
    BY <1>1, <1>2, <2>1, NatSetInduction
<1> QED
  BY <1>3

\* Induction over the subsets of a finite set, for the set of those with a
\* property.
LEMMA SubsetInduction ==
  ASSUME NEW S, IsFiniteSet(S), NEW G, {} \in G,
         \A T \in SUBSET S : \A x \in S \ T : T \in G => T \cup {x} \in G
  PROVE  S \in G
<1> DEFINE C == {n \in Nat : \A T \in SUBSET S : Cardinality(T) = n => T \in G}
<1>1. \A T \in SUBSET S : IsFiniteSet(T) /\ Cardinality(T) \in Nat
  BY FS_Subset, FS_CardinalityType
<1>2. 0 \in C
  BY <1>1, FS_EmptySet
<1>3. ASSUME NEW n \in C PROVE n + 1 \in C
  <2> SUFFICES ASSUME NEW T \in SUBSET S, Cardinality(T) = n + 1 PROVE T \in G
    OBVIOUS
  <2>0. Cardinality({}) = 0
    BY FS_EmptySet
  <2>z. n \in Nat /\ n + 1 # 0
    OBVIOUS
  <2>1. PICK x \in T : TRUE
    <3> HIDE DEF C
    <3> QED
      BY <2>0, <2>z
  <2>2. Cardinality(T \ {x}) = n
    BY <1>1, FS_RemoveElement
  <2>3. T \ {x} \in G
    BY <2>2
  <2>4. (T \ {x}) \cup {x} = T /\ x \in S \ (T \ {x})
    OBVIOUS
  <2> QED
    BY <2>3, <2>4
<1>4. C = Nat
  <2>1. C \in SUBSET Nat
    OBVIOUS
  <2> HIDE DEF C
  <2> QED
    BY <1>2, <1>3, <2>1, NatSetInduction
<1> QED
  BY <1>1, <1>4
---------------------------------------------------------------------------
(* Recursion *)

Iterated(f, N, T, start, step) ==
  f \in [0..N -> T] /\ f[0] = start /\ \A n \in 1..N : f[n] = step[n][f[n - 1]]

\* Iterating a step over an interval defines a function.
LEMMA IterationExists ==
  ASSUME NEW N \in Nat, NEW T, NEW start \in T, NEW step \in [1..N -> [T -> T]]
  PROVE  \E f : Iterated(f, N, T, start, step)
<1> DEFINE Iterates(f, k) ==
             /\ f \in [0..k -> T]
             /\ f = [n \in 0..k |-> IF n = 0 THEN start ELSE step[n][f[n - 1]]]
           S == {k \in Nat : \E f : Iterates(f, k)}
<1>1. 0 \in S
  <2>1. Iterates([n \in 0..0 |-> start], 0)
    OBVIOUS
  <2> QED
    BY <2>1
<1>2. ASSUME NEW k \in 0..(N - 1), k \in S PROVE k + 1 \in S
  <2>1. PICK f : Iterates(f, k)
    BY <1>2
  <2> DEFINE g == [n \in 0..(k + 1) |-> IF n = 0 THEN start ELSE step[n][f[n - 1]]]
  <2>2. \A n \in 1..(k + 1) : n - 1 \in 0..k /\ n \in 1..N
    OBVIOUS
  <2>3. \A n \in 0..k : g[n] = f[n]
    BY <2>1
  <2>4. g \in [0..(k + 1) -> T]
    BY <2>1, <2>2
  <2>5. g = [n \in 0..(k + 1) |-> IF n = 0 THEN start ELSE step[n][g[n - 1]]]
    <3>1. \A n \in 1..(k + 1) : f[n - 1] = g[n - 1]
      BY <2>2, <2>3
    <3>2. \A n \in 0..(k + 1) : n = 0 \/ n \in 1..(k + 1)
      OBVIOUS
    <3>3. \A n \in 0..(k + 1) : g[n] = IF n = 0 THEN start ELSE step[n][g[n - 1]]
      BY <3>1, <3>2
    <3> QED
      BY <3>3
  <2>6. \E e : Iterates(e, k + 1)
    <3>1. Iterates(g, k + 1)
      BY <2>4, <2>5
    <3> HIDE DEF Iterates
    <3> QED
      BY <3>1
  <2>7. k + 1 \in Nat
    OBVIOUS
  <2> HIDE DEF Iterates
  <2> QED
    BY <2>6, <2>7
<1>3. N \in S
  <2> HIDE DEF S
  <2>1. 0..N \subseteq S
    BY <1>1, <1>2, IntervalInduction
  <2> QED
    BY <2>1
<1>4. PICK f : Iterates(f, N)
  BY <1>3
<1>5. Iterated(f, N, T, start, step)
  BY <1>4 DEF Iterated
<1> QED
  BY <1>5

\* What a sum adds up first, and the equation of its iteration.
Picked(s) == CHOOSE x \in s : TRUE
Adding(f, S, iter) ==
  iter = [s \in SUBSET S |-> IF s = {} THEN 0 ELSE f[Picked(s)] + iter[s \ {Picked(s)}]]

\* Summing over the subsets of a finite set defines a function.
LEMMA AddingExists ==
  ASSUME NEW S, IsFiniteSet(S), NEW f
  PROVE  \E iter : Adding(f, S, iter)
<1> DEFINE D(n) == {s \in SUBSET S : Cardinality(s) <= n}
           Adds(g, n) ==
             g = [s \in D(n) |-> IF s = {} THEN 0 ELSE f[Picked(s)] + g[s \ {Picked(s)}]]
           C == {n \in Nat : \E g : Adds(g, n)}
<1>1. \A s \in SUBSET S : IsFiniteSet(s) /\ Cardinality(s) \in Nat
  BY FS_Subset, FS_CardinalityType
<1>2. ASSUME NEW n \in Nat, NEW s \in D(n + 1), s # {}
      PROVE  Picked(s) \in s /\ s \ {Picked(s)} \in D(n)
  <2>1. Picked(s) \in s
    BY <1>2 DEF Picked
  <2>2. Cardinality(s \ {Picked(s)}) = Cardinality(s) - 1
    BY <1>1, <2>1, FS_RemoveElement
  <2> QED
    BY <1>1, <2>1, <2>2
<1>3. 0 \in C
  <2>1. \A s \in D(0) : s = {}
    BY <1>1, FS_EmptySet
  <2>2. Adds([s \in D(0) |-> 0], 0)
    BY <2>1
  <2> QED
    BY <2>2
<1>4. ASSUME NEW n \in C PROVE n + 1 \in C
  <2>1. PICK g : Adds(g, n)
    OBVIOUS
  <2> DEFINE h == [s \in D(n + 1) |-> IF s = {} THEN 0 ELSE f[Picked(s)] + g[s \ {Picked(s)}]]
  <2>2. D(n) \subseteq D(n + 1)
    BY <1>1
  <2>3. \A s \in D(n) : h[s] = g[s]
    <3> HIDE DEF D
    <3> QED
      BY <2>1, <2>2
  <2>4. Adds(h, n + 1)
    <3> HIDE DEF D
    <3> QED
      BY <1>2, <2>3
  <2>5. \E e : Adds(e, n + 1)
    <3> HIDE DEF Adds, h
    <3> QED
      BY <2>4
  <2>6. n + 1 \in Nat
    OBVIOUS
  <2> HIDE DEF Adds
  <2> QED
    BY <2>5, <2>6
<1>5. C = Nat
  <2>1. C \in SUBSET Nat
    OBVIOUS
  <2> HIDE DEF C
  <2> QED
    BY <1>3, <1>4, <2>1, NatSetInduction
<1>6. Cardinality(S) \in C /\ D(Cardinality(S)) = SUBSET S
  BY <1>1, <1>5, FS_Subset
<1> QED
  BY <1>6 DEF Adding

\* That function does not depend on the set it was defined for.
LEMMA AddingAgrees ==
  ASSUME NEW S, IsFiniteSet(S), NEW T \in SUBSET S, NEW f, NEW i, NEW j,
         Adding(f, S, i), Adding(f, T, j)
  PROVE  i[T] = j[T]
<1> DEFINE C == {n \in Nat : \A s \in SUBSET T : Cardinality(s) <= n => i[s] = j[s]}
<1>1. \A s \in SUBSET T : IsFiniteSet(s) /\ Cardinality(s) \in Nat
  BY FS_Subset, FS_CardinalityType
<1>2. i[{}] = j[{}]
  BY DEF Adding
<1>A. ASSUME NEW s \in SUBSET T, s # {}, i[s \ {Picked(s)}] = j[s \ {Picked(s)}]
      PROVE  i[s] = j[s]
  <2>1. i[s] = f[Picked(s)] + i[s \ {Picked(s)}]
    BY <1>A DEF Adding
  <2>2. j[s] = f[Picked(s)] + j[s \ {Picked(s)}]
    BY <1>A DEF Adding
  <2> QED
    BY <1>A, <2>1, <2>2
<1>3. 0 \in C
  <2>1. \A s \in SUBSET T : Cardinality(s) <= 0 => s = {}
    BY <1>1, FS_EmptySet
  <2> QED
    BY <1>2, <2>1
<1>4. ASSUME NEW n \in C PROVE n + 1 \in C
  <2> SUFFICES ASSUME NEW s \in SUBSET T, Cardinality(s) <= n + 1, s # {} PROVE i[s] = j[s]
    BY <1>2
  <2>1. Picked(s) \in s
    BY DEF Picked
  <2>2. Cardinality(s \ {Picked(s)}) = Cardinality(s) - 1
    BY <1>1, <2>1, FS_RemoveElement
  <2>3. s \ {Picked(s)} \in SUBSET T /\ Cardinality(s \ {Picked(s)}) <= n
    BY <1>1, <2>2
  <2> QED
    BY <1>A, <2>3
<1>5. C = Nat
  <2>1. C \in SUBSET Nat
    OBVIOUS
  <2> HIDE DEF C
  <2> QED
    BY <1>3, <1>4, <2>1, NatSetInduction
<1> QED
  BY <1>1, <1>5
---------------------------------------------------------------------------
(* Sums *)

\* A sum is what the iteration yields for the whole set.
LEMMA SumIterates ==
  ASSUME NEW S, IsFiniteSet(S), NEW f
  PROVE  \E iter : Adding(f, S, iter) /\ SumFunctionOnSet(f, S) = iter[S]
<1> DEFINE iter == CHOOSE iter : Adding(f, S, iter)
<1>1. Adding(f, S, iter)
  BY AddingExists
<1>2. SumFunctionOnSet(f, S) = iter[S]
  BY DEF SumFunctionOnSet, FoldFunctionOnSet, MapThenFoldSet, Adding, Picked
<1> HIDE DEF iter
<1> QED
  BY <1>1, <1>2

\* The equation of a sum.
LEMMA SumEquation ==
  ASSUME NEW S, IsFiniteSet(S), NEW f
  PROVE  /\ S = {} => SumFunctionOnSet(f, S) = 0
         /\ S # {} => /\ Picked(S) \in S
                      /\ SumFunctionOnSet(f, S)
                           = f[Picked(S)] + SumFunctionOnSet(f, S \ {Picked(S)})
<1>1. PICK i : Adding(f, S, i) /\ SumFunctionOnSet(f, S) = i[S]
  BY SumIterates
<1>2. CASE S = {}
  BY <1>1, <1>2 DEF Adding
<1>3. CASE S # {}
  <2> DEFINE T == S \ {Picked(S)}
  <2>1. Picked(S) \in S
    BY <1>3 DEF Picked
  <2>2. T \in SUBSET S /\ IsFiniteSet(T)
    BY FS_Subset
  <2>3. PICK j : Adding(f, T, j) /\ SumFunctionOnSet(f, T) = j[T]
    BY <2>2, SumIterates
  <2>4. i[T] = j[T]
    BY <1>1, <2>2, <2>3, AddingAgrees
  <2>5. i[S] = f[Picked(S)] + i[T]
    BY <1>1, <1>3 DEF Adding
  <2> QED
    BY <1>1, <1>3, <2>1, <2>3, <2>4, <2>5
<1> QED
  BY <1>2, <1>3

LEMMA SumEmpty == \A f : SumFunctionOnSet(f, {}) = 0
  BY SumEquation, FS_EmptySet

\* A sum of integers is one.
LEMMA SumType ==
  ASSUME NEW S, IsFiniteSet(S), NEW f, \A x \in S : f[x] \in Int
  PROVE  SumFunctionOnSet(f, S) \in Int
<1> DEFINE C == {n \in Nat : \A T \in SUBSET S : Cardinality(T) = n => SumFunctionOnSet(f, T) \in Int}
<1>1. \A T \in SUBSET S : IsFiniteSet(T) /\ Cardinality(T) \in Nat
  BY FS_Subset, FS_CardinalityType
<1>2. 0 \in C
  BY <1>1, FS_EmptySet, SumEquation
<1>3. ASSUME NEW n \in C PROVE n + 1 \in C
  <2> SUFFICES ASSUME NEW T \in SUBSET S, Cardinality(T) = n + 1, T # {}
               PROVE  SumFunctionOnSet(f, T) \in Int
    BY FS_EmptySet
  <2>1. Picked(T) \in T
        /\ SumFunctionOnSet(f, T) = f[Picked(T)] + SumFunctionOnSet(f, T \ {Picked(T)})
    BY <1>1, SumEquation
  <2>2. Cardinality(T \ {Picked(T)}) = n
    <3>1. n \in Nat
      OBVIOUS
    <3> HIDE DEF C
    <3> QED
      BY <1>1, <2>1, <3>1, FS_RemoveElement
  <2>3. SumFunctionOnSet(f, T \ {Picked(T)}) \in Int
    BY <2>2
  <2> QED
    BY <2>1, <2>3
<1>4. C = Nat
  <2>1. C \in SUBSET Nat
    OBVIOUS
  <2> HIDE DEF C
  <2> QED
    BY <1>2, <1>3, <2>1, NatSetInduction
<1> QED
  BY <1>1, <1>4

\* Any element can be taken out of a sum.
LEMMA SumRemove ==
  ASSUME NEW S, IsFiniteSet(S), NEW f, \A x \in S : f[x] \in Int
  PROVE  \A x \in S : SumFunctionOnSet(f, S) = f[x] + SumFunctionOnSet(f, S \ {x})
<1> DEFINE Sum(T) == SumFunctionOnSet(f, T)
           Removes(T) == \A x \in T : Sum(T) = f[x] + Sum(T \ {x})
           C == {n \in Nat : \A T \in SUBSET S : Cardinality(T) <= n => Removes(T)}
<1>1. \A T \in SUBSET S : IsFiniteSet(T) /\ Cardinality(T) \in Nat /\ Sum(T) \in Int
  BY FS_Subset, FS_CardinalityType, SumType
<1>2. ASSUME NEW T \in SUBSET S, T # {}
      PROVE  Picked(T) \in T /\ Sum(T) = f[Picked(T)] + Sum(T \ {Picked(T)})
  BY <1>1, <1>2, SumEquation
<1> HIDE DEF Sum
<1>3. 0 \in C
  BY <1>1, FS_EmptySet
<1>4. ASSUME NEW n \in C PROVE n + 1 \in C
  <2> SUFFICES ASSUME NEW T \in SUBSET S, Cardinality(T) <= n + 1, NEW x \in T, x # Picked(T)
               PROVE  Sum(T) = f[x] + Sum(T \ {x})
    BY <1>2
  <2> DEFINE p == Picked(T)
  <2>1. p \in T /\ p \in T \ {x} /\ x \in T \ {p} /\ Sum(T) = f[p] + Sum(T \ {p})
    BY <1>2
  <2>2. \A y \in T : Cardinality(T \ {y}) = Cardinality(T) - 1 /\ T \ {y} \in SUBSET S
    BY <1>1, FS_RemoveElement
  <2>3. Removes(T \ {p}) /\ Removes(T \ {x})
    BY <1>1, <2>1, <2>2
  <2>4. (T \ {p}) \ {x} = (T \ {x}) \ {p}
    OBVIOUS
  <2>5. Sum(T \ {p}) = f[x] + Sum((T \ {p}) \ {x})
    BY <2>1, <2>3
  <2>6. Sum(T \ {x}) = f[p] + Sum((T \ {p}) \ {x})
    BY <2>1, <2>3, <2>4
  <2>7. f[x] \in Int /\ f[p] \in Int /\ Sum((T \ {p}) \ {x}) \in Int
    BY <1>1, <2>1
  <2> QED
    BY <2>1, <2>5, <2>6, <2>7
<1>5. C = Nat
  <2>1. C \in SUBSET Nat
    OBVIOUS
  <2> HIDE DEF C
  <2> QED
    BY <1>3, <1>4, <2>1, NatSetInduction
<1> QED
  BY <1>1, <1>5 DEF Sum

\* A sum grows with its terms.
LEMMA SumOrder ==
  ASSUME NEW S, IsFiniteSet(S), NEW f, NEW g,
         \A x \in S : f[x] \in Int /\ g[x] \in Int /\ f[x] <= g[x]
  PROVE  SumFunctionOnSet(f, S) <= SumFunctionOnSet(g, S)
<1> DEFINE F(T) == SumFunctionOnSet(f, T)
           G(T) == SumFunctionOnSet(g, T)
           C == {T \in SUBSET S : F(T) <= G(T)}
<1>1. \A T \in SUBSET S : IsFiniteSet(T) /\ F(T) \in Int /\ G(T) \in Int
  BY FS_Subset, SumType
<1>2. {} \in C
  BY SumEmpty
<1>3. ASSUME NEW T \in SUBSET S, NEW x \in S \ T, T \in C PROVE T \cup {x} \in C
  <2>1. T \cup {x} \in SUBSET S /\ IsFiniteSet(T \cup {x}) /\ (T \cup {x}) \ {x} = T
    BY <1>1
  <2>2. F(T \cup {x}) = f[x] + F(T)
    BY <2>1, SumRemove
  <2>3. G(T \cup {x}) = g[x] + G(T)
    BY <2>1, SumRemove
  <2> HIDE DEF F, G
  <2> QED
    BY <1>1, <1>3, <2>1, <2>2, <2>3
<1>4. S \in C
  <2> HIDE DEF C
  <2> QED
    BY <1>2, <1>3, SubsetInduction
<1> QED
  BY <1>4

\* Sums are added term by term.
LEMMA SumPlus ==
  ASSUME NEW S, IsFiniteSet(S), NEW f, NEW g, NEW h,
         \A x \in S : f[x] \in Int /\ g[x] \in Int /\ h[x] = f[x] + g[x]
  PROVE  SumFunctionOnSet(h, S) = SumFunctionOnSet(f, S) + SumFunctionOnSet(g, S)
<1> DEFINE F(T) == SumFunctionOnSet(f, T)
           G(T) == SumFunctionOnSet(g, T)
           H(T) == SumFunctionOnSet(h, T)
           C == {T \in SUBSET S : H(T) = F(T) + G(T)}
<1>1. \A T \in SUBSET S : IsFiniteSet(T) /\ F(T) \in Int /\ G(T) \in Int
  BY FS_Subset, SumType
<1>2. {} \in C
  BY SumEmpty
<1>3. ASSUME NEW T \in SUBSET S, NEW x \in S \ T, T \in C PROVE T \cup {x} \in C
  <2>1. T \cup {x} \in SUBSET S /\ IsFiniteSet(T \cup {x}) /\ (T \cup {x}) \ {x} = T
    BY <1>1
  <2>2. F(T \cup {x}) = f[x] + F(T)
    BY <2>1, SumRemove
  <2>3. G(T \cup {x}) = g[x] + G(T)
    BY <2>1, SumRemove
  <2>4. H(T \cup {x}) = h[x] + H(T)
    BY <2>1, SumRemove
  <2> HIDE DEF F, G, H
  <2> QED
    BY <1>1, <1>3, <2>1, <2>2, <2>3, <2>4
<1>4. S \in C
  <2> HIDE DEF C
  <2> QED
    BY <1>2, <1>3, SubsetInduction
<1> QED
  BY <1>4

\* Terms that are not negative only add to a sum.
LEMMA SumSubset ==
  ASSUME NEW S, IsFiniteSet(S), NEW T \in SUBSET S, NEW f, \A x \in S : f[x] \in Int,
         \A x \in S \ T : f[x] >= 0
  PROVE  SumFunctionOnSet(f, T) <= SumFunctionOnSet(f, S)
<1> DEFINE F(U) == SumFunctionOnSet(f, U)
           C == {U \in SUBSET (S \ T) : F(T) <= F(T \cup U)}
<1>1. \A U \in SUBSET S : IsFiniteSet(U) /\ F(U) \in Int
  BY FS_Subset, SumType
<1>2. {} \in C
  BY <1>1
<1>3. ASSUME NEW U \in SUBSET (S \ T), NEW x \in (S \ T) \ U, U \in C PROVE U \cup {x} \in C
  <2> DEFINE V == T \cup U
  <2>1. V \in SUBSET S /\ V \cup {x} \in SUBSET S /\ IsFiniteSet(V \cup {x})
        /\ (V \cup {x}) \ {x} = V /\ T \cup (U \cup {x}) = V \cup {x}
    BY <1>1
  <2>2. F(V \cup {x}) = f[x] + F(V)
    BY <2>1, SumRemove
  <2> HIDE DEF F
  <2>3. F(T) <= F(V) /\ F(T) \in Int /\ F(V) \in Int /\ f[x] \in Int /\ f[x] >= 0
    BY <1>1, <1>3, <2>1
  <2>4. F(T) <= F(V \cup {x})
    BY <2>2, <2>3
  <2> QED
    BY <2>1, <2>4
<1>4. S \ T \in C
  <2>1. IsFiniteSet(S \ T)
    BY <1>1
  <2> HIDE DEF C
  <2> QED
    BY <1>2, <1>3, <2>1, SubsetInduction
<1>5. T \cup (S \ T) = S
  OBVIOUS
<1> QED
  BY <1>4, <1>5

\* The sign of a sum is that of its terms.
LEMMA SumSign ==
  ASSUME NEW S, IsFiniteSet(S), NEW f, \A x \in S : f[x] \in Int
  PROVE  /\ (\A x \in S : f[x] >= 0) => SumFunctionOnSet(f, S) >= 0
         /\ (\A x \in S : f[x] <= 0) => SumFunctionOnSet(f, S) <= 0
<1> DEFINE zero == [x \in S |-> 0]
<1>1. SumFunctionOnSet(zero, S) \in Int
  BY SumType
<1>2. SumFunctionOnSet(zero, S) = SumFunctionOnSet(zero, S) + SumFunctionOnSet(zero, S)
  <2>1. \A x \in S : zero[x] \in Int /\ zero[x] = zero[x] + zero[x]
    OBVIOUS
  <2> HIDE DEF zero
  <2> QED
    BY <2>1, SumPlus
<1>3. SumFunctionOnSet(zero, S) = 0
  <2> DEFINE z == SumFunctionOnSet(zero, S)
  <2>1. z \in Int /\ z = z + z
    BY <1>1, <1>2
  <2> HIDE DEF z
  <2>2. z = 0
    BY <2>1
  <2> QED
    BY <2>2 DEF z
<1>4. ASSUME \A x \in S : f[x] >= 0 PROVE SumFunctionOnSet(f, S) >= 0
  <2>1. \A x \in S : f[x] \in Int /\ zero[x] \in Int /\ zero[x] <= f[x]
    BY <1>4
  <2>2. SumFunctionOnSet(zero, S) <= SumFunctionOnSet(f, S)
    <3> HIDE DEF zero
    <3> QED
      BY <2>1, SumOrder
  <2>3. SumFunctionOnSet(f, S) \in Int
    BY SumType
  <2> QED
    BY <1>3, <2>2, <2>3
<1>5. ASSUME \A x \in S : f[x] <= 0 PROVE SumFunctionOnSet(f, S) <= 0
  <2>1. \A x \in S : f[x] \in Int /\ zero[x] \in Int /\ f[x] <= zero[x]
    BY <1>5
  <2>2. SumFunctionOnSet(f, S) <= SumFunctionOnSet(zero, S)
    <3> HIDE DEF zero
    <3> QED
      BY <2>1, SumOrder
  <2>3. SumFunctionOnSet(f, S) \in Int
    BY SumType
  <2> QED
    BY <1>3, <2>2, <2>3
<1> QED
  BY <1>4, <1>5

\* A sum in which one term grows by at most one does so, too.
LEMMA SumRaised ==
  ASSUME NEW S, IsFiniteSet(S), NEW f, NEW g, NEW k \in S,
         \A x \in S : f[x] \in Int /\ g[x] \in Int,
         g[k] <= f[k] + 1, \A x \in S \ {k} : g[x] <= f[x]
  PROVE  SumFunctionOnSet(g, S) <= SumFunctionOnSet(f, S) + 1
<1>1. IsFiniteSet(S \ {k})
  BY FS_RemoveElement
<1>2. SumFunctionOnSet(g, S \ {k}) <= SumFunctionOnSet(f, S \ {k})
  BY <1>1, SumOrder
<1>3. SumFunctionOnSet(f, S) = f[k] + SumFunctionOnSet(f, S \ {k})
  BY SumRemove
<1>4. SumFunctionOnSet(g, S) = g[k] + SumFunctionOnSet(g, S \ {k})
  BY SumRemove
<1>5. SumFunctionOnSet(f, S \ {k}) \in Int /\ SumFunctionOnSet(g, S \ {k}) \in Int
  BY <1>1, SumType
<1> QED
  BY <1>2, <1>3, <1>4, <1>5
---------------------------------------------------------------------------
(* Sequences *)

\* Least and greatest of a set of naturals.
LEMMA LeastIs ==
  ASSUME NEW S \in SUBSET Nat, S # {}
  PROVE  Min(S) \in S /\ \A x \in S : Min(S) <= x
<1> DEFINE C == {n \in Nat : \A T \in SUBSET Nat : T \cap (0..n) # {} => \E x \in T : \A y \in T : x <= y}
<1>1. 0 \in C
  <2> SUFFICES ASSUME NEW T \in SUBSET Nat, T \cap (0..0) # {}
               PROVE  \E x \in T : \A y \in T : x <= y
    OBVIOUS
  <2>1. 0 \in T
    OBVIOUS
  <2> QED
    BY <2>1
<1>2. ASSUME NEW n \in C PROVE n + 1 \in C
  <2> SUFFICES ASSUME NEW T \in SUBSET Nat, T \cap (0..(n + 1)) # {}
               PROVE  \E x \in T : \A y \in T : x <= y
    OBVIOUS
  <2>1. CASE T \cap (0..n) # {}
    BY <2>1
  <2>2. CASE T \cap (0..n) = {}
    <3>1. n + 1 \in T /\ \A y \in T : n + 1 <= y
      BY <2>2
    <3> QED
      BY <3>1
  <2> QED
    BY <2>1, <2>2
<1>3. C = Nat
  <2>1. C \in SUBSET Nat
    OBVIOUS
  <2> HIDE DEF C
  <2> QED
    BY <1>1, <1>2, <2>1, NatSetInduction
<1>4. PICK n \in S : TRUE
  OBVIOUS
<1>5. \E x \in S : \A y \in S : x <= y
  <2>1. n \in C /\ n \in S \cap (0..n)
    BY <1>3
  <2> QED
    BY <2>1
<1> QED
  BY <1>5 DEF Min

LEMMA GreatestIs ==
  ASSUME NEW N \in Nat, NEW S \in SUBSET (0..N), S # {}
  PROVE  Max(S) \in S /\ \A x \in S : x <= Max(S)
<1> DEFINE T == {N - x : x \in S}
<1>1. T \in SUBSET Nat /\ T # {}
  <2>1. \A x \in S : x \in 0..N /\ N - x \in Nat
    OBVIOUS
  <2>2. PICK x \in S : TRUE
    OBVIOUS
  <2>3. N - x \in T
    OBVIOUS
  <2> QED
    BY <2>1, <2>3
<1>2. Min(T) \in T /\ \A x \in T : Min(T) <= x
  <2> HIDE DEF T
  <2> QED
    BY <1>1, LeastIs
<1>3. PICK x \in S : Min(T) = N - x
  BY <1>2
<1>4. \A y \in S : x >= y
  <2> SUFFICES ASSUME NEW y \in S PROVE x >= y
    OBVIOUS
  <2>1. N - y \in T
    OBVIOUS
  <2>2. N - x <= N - y
    <3> HIDE DEF T
    <3> QED
      BY <1>2, <1>3, <2>1
  <2> QED
    BY <2>2
<1>5. Max(S) \in S /\ \A y \in S : Max(S) >= y
  BY <1>4 DEF Max
<1> QED
  BY <1>5

\* Where the elements of a concatenation of sequences come from: which
\* sequence (from) and which place in it (place), in lexicographic order.
Flattened(ss, n, F, from, place) ==
  /\ from \in [1..Len(F) -> 1..n] /\ place \in [1..Len(F) -> Nat]
  /\ \A j \in 1..Len(F) : place[j] \in 1..Len(ss[from[j]]) /\ F[j] = ss[from[j]][place[j]]
  /\ \A j, k \in 1..Len(F) :
       j < k => from[j] < from[k] \/ (from[j] = from[k] /\ place[j] < place[k])
  /\ \A m \in 1..n : \A p \in 1..Len(ss[m]) : \E j \in 1..Len(F) : from[j] = m /\ place[j] = p

LEMMA FlattenedStep ==
  ASSUME NEW T, NEW ss \in Seq(Seq(T)), NEW n \in Nat, n + 1 <= Len(ss), NEW F \in Seq(T),
         NEW from, NEW place, Flattened(ss, n, F, from, place)
  PROVE  \E f, p : Flattened(ss, n + 1, F \o ss[n + 1], f, p)
<1> DEFINE G == F \o ss[n + 1]
           f == [j \in 1..Len(G) |-> IF j <= Len(F) THEN from[j] ELSE n + 1]
           p == [j \in 1..Len(G) |-> IF j <= Len(F) THEN place[j] ELSE j - Len(F)]
<1>a. ss[n + 1] \in Seq(T)
  OBVIOUS
<1>b. /\ Len(G) = Len(F) + Len(ss[n + 1]) /\ Len(F) \in Nat /\ Len(ss[n + 1]) \in Nat
      /\ \A j \in 1..Len(G) : G[j] = IF j <= Len(F) THEN F[j] ELSE ss[n + 1][j - Len(F)]
  BY <1>a
<1> HIDE DEF G
<1>c. /\ \A j \in 1..Len(F) : from[j] \in 1..n /\ place[j] \in Nat
      /\ \A j, k \in 1..Len(F) :
           j < k => from[j] < from[k] \/ (from[j] = from[k] /\ place[j] < place[k])
  BY DEF Flattened
<1>d. \A j \in 1..Len(G) : /\ f[j] = IF j <= Len(F) THEN from[j] ELSE n + 1
                           /\ p[j] = IF j <= Len(F) THEN place[j] ELSE j - Len(F)
  OBVIOUS
<1>1. f \in [1..Len(G) -> 1..(n + 1)] /\ p \in [1..Len(G) -> Nat]
  <2>1. \A j \in 1..Len(G) : f[j] \in 1..(n + 1) /\ p[j] \in Nat
    <3> HIDE DEF f, p
    <3> SUFFICES ASSUME NEW j \in 1..Len(G) PROVE f[j] \in 1..(n + 1) /\ p[j] \in Nat
      OBVIOUS
    <3>1. CASE j <= Len(F)
      <4>1. j \in 1..Len(F)
        BY <1>b, <3>1
      <4>2. from[j] \in 1..n /\ place[j] \in Nat
        BY <1>c, <4>1
      <4>3. f[j] = from[j] /\ p[j] = place[j]
        BY <1>d, <3>1
      <4> QED
        BY <4>2, <4>3
    <3>2. CASE ~(j <= Len(F))
      BY <1>b, <1>d, <3>2
    <3> QED
      BY <3>1, <3>2
  <2> QED
    BY <2>1
<1> HIDE DEF f, p
<1>e. \A j \in 1..Len(F) : j \in 1..Len(G) /\ f[j] = from[j] /\ p[j] = place[j]
  BY <1>b, <1>d
<1>f. \A j \in 1..Len(G) : ~(j <= Len(F)) => f[j] = n + 1 /\ p[j] = j - Len(F) /\ p[j] \in 1..Len(ss[n + 1])
  BY <1>b, <1>d
<1>2. \A j \in 1..Len(G) : p[j] \in 1..Len(ss[f[j]]) /\ G[j] = ss[f[j]][p[j]]
  <2> SUFFICES ASSUME NEW j \in 1..Len(G)
               PROVE  p[j] \in 1..Len(ss[f[j]]) /\ G[j] = ss[f[j]][p[j]]
    OBVIOUS
  <2>1. CASE j <= Len(F)
    <3>1. j \in 1..Len(F) /\ G[j] = F[j] /\ f[j] = from[j] /\ p[j] = place[j]
      BY <1>b, <1>e, <2>1
    <3> QED
      BY <3>1 DEF Flattened
  <2>2. CASE ~(j <= Len(F))
    <3>1. f[j] = n + 1 /\ p[j] = j - Len(F) /\ p[j] \in 1..Len(ss[n + 1]) /\ G[j] = ss[n + 1][j - Len(F)]
      BY <1>b, <1>f, <2>2
    <3> QED
      BY <3>1
  <2> QED
    BY <2>1, <2>2
<1>3. \A j, k \in 1..Len(G) : j < k => f[j] < f[k] \/ (f[j] = f[k] /\ p[j] < p[k])
  <2> SUFFICES ASSUME NEW j \in 1..Len(G), NEW k \in 1..Len(G), j < k
               PROVE  f[j] < f[k] \/ (f[j] = f[k] /\ p[j] < p[k])
    OBVIOUS
  <2>1. CASE k <= Len(F)
    <3>1. j \in 1..Len(F) /\ k \in 1..Len(F)
      BY <1>b, <2>1
    <3> QED
      BY <1>c, <1>e, <3>1
  <2>2. CASE j <= Len(F) /\ ~(k <= Len(F))
    <3>1. j \in 1..Len(F)
      BY <1>b, <2>2
    <3>2. f[j] \in 1..n /\ f[k] = n + 1
      BY <1>c, <1>e, <1>f, <2>2, <3>1
    <3> QED
      BY <3>2
  <2>3. CASE ~(j <= Len(F))
    <3>1. ~(k <= Len(F))
      BY <1>b, <2>3
    <3> QED
      BY <1>b, <1>f, <2>3, <3>1
  <2> QED
    BY <1>b, <2>1, <2>2, <2>3
<1>4. \A m \in 1..(n + 1) : \A q \in 1..Len(ss[m]) : \E j \in 1..Len(G) : f[j] = m /\ p[j] = q
  <2> SUFFICES ASSUME NEW m \in 1..(n + 1), NEW q \in 1..Len(ss[m])
               PROVE  \E j \in 1..Len(G) : f[j] = m /\ p[j] = q
    OBVIOUS
  <2>1. CASE m \in 1..n
    <3>1. PICK j \in 1..Len(F) : from[j] = m /\ place[j] = q
      BY <2>1 DEF Flattened
    <3> QED
      BY <1>e, <3>1
  <2>2. CASE m = n + 1
    <3>1. Len(F) + q \in 1..Len(G) /\ ~(Len(F) + q <= Len(F)) /\ (Len(F) + q) - Len(F) = q
      BY <1>b, <2>2
    <3>2. f[Len(F) + q] = m /\ p[Len(F) + q] = q
      BY <1>f, <2>2, <3>1
    <3> QED
      BY <3>1, <3>2
  <2> QED
    BY <2>1, <2>2
<1>5. Flattened(ss, n + 1, G, f, p)
  BY <1>1, <1>2, <1>3, <1>4 DEF Flattened
<1> QED
  BY <1>5 DEF G

\* Concatenating sequences one after the other.
Flattening(ss, T, g) ==
  /\ g \in [0..Len(ss) -> Seq(T)]
  /\ g[0] = <<>> /\ \A n \in 1..Len(ss) : g[n] = g[n - 1] \o ss[n]
  /\ FlattenSeq(ss) = g[Len(ss)]

LEMMA FlattenSteps ==
  ASSUME NEW T, NEW ss \in Seq(Seq(T))
  PROVE  \E g : Flattening(ss, T, g)
<1> DEFINE N == Len(ss)
           step == [n \in 1..N |-> [s \in Seq(T) |-> s \o ss[n]]]
<1>1. CASE N = 0
  <2>1. FlattenSeq(ss) = ss /\ ss = <<>>
    BY <1>1 DEF FlattenSeq
  <2> DEFINE none == [n \in 0..0 |-> <<>>]
  <2>2. none \in [0..N -> Seq(T)] /\ none[0] = <<>> /\ none[N] = <<>> /\ \A n \in 1..N : FALSE
    BY <1>1
  <2> HIDE DEF none
  <2> QED
    BY <2>1, <2>2 DEF Flattening
<1>2. CASE N # 0
  <2>0. N \in Nat /\ N >= 1 /\ \A n \in 1..N : ss[n] \in Seq(T)
    BY <1>2
  <2>1. step \in [1..N -> [Seq(T) -> Seq(T)]]
    BY <2>0
  <2>2. <<>> \in Seq(T)
    OBVIOUS
  <2>3. \E g : Iterated(g, N, Seq(T), <<>>, step)
    <3> HIDE DEF N, step
    <3> QED
      BY <2>0, <2>1, <2>2, IterationExists
  <2>4. PICK g : Iterated(g, N, Seq(T), <<>>, step)
    BY <2>3
  <2>5. /\ g \in [0..N -> Seq(T)] /\ g[0] = <<>>
        /\ \A n \in 1..N : g[n] = g[n - 1] \o ss[n]
    <3> HIDE DEF step
    <3>0. \A n \in 1..N : n - 1 \in 0..N
      BY <2>0
    <3>1. \A n \in 1..N : g[n - 1] \in Seq(T) /\ g[n] = step[n][g[n - 1]]
      <4> HIDE DEF N
      <4> QED
        BY <2>4, <3>0 DEF Iterated
    <3>2. \A n \in 1..N : \A s \in Seq(T) : step[n][s] = s \o ss[n]
      BY DEF step
    <3> QED
      BY <2>4, <3>1, <3>2 DEF Iterated
  <2> HIDE DEF step
  <2> DEFINE Flat(f) == f = [n \in 1..N |-> IF n = 1 THEN ss[n] ELSE f[n - 1] \o ss[n]]
             h == CHOOSE f : Flat(f)
             e == [n \in 1..N |-> g[n]]
  <2>6. Flat(e)
    <3>0. \A n \in 1..N : e[n] = g[n] /\ n - 1 \in 0..N /\ (n # 1 => n - 1 \in 1..N)
      BY <2>0
    <3>1. \A n \in 1..N : e[n] = IF n = 1 THEN ss[n] ELSE e[n - 1] \o ss[n]
      <4> SUFFICES ASSUME NEW n \in 1..N PROVE e[n] = IF n = 1 THEN ss[n] ELSE e[n - 1] \o ss[n]
        OBVIOUS
      <4>1. e[n] = g[n - 1] \o ss[n]
        BY <2>5, <3>0
      <4>2. CASE n = 1
        <5>1. g[n - 1] = <<>> /\ ss[n] \in Seq(T)
          BY <2>0, <2>5, <4>2
        <5> HIDE DEF e
        <5> QED
          BY <4>1, <4>2, <5>1
      <4>3. CASE n # 1
        BY <3>0, <4>1, <4>3
      <4> HIDE DEF e
      <4> QED
        BY <4>2, <4>3
    <3> QED
      BY <3>1
  <2>7. Flat(h)
    BY <2>6
  <2>8. FlattenSeq(ss) = h[N]
    BY <1>2 DEF FlattenSeq
  <2> DEFINE ok == {n \in 0..N : n # 0 => h[n] = g[n]}
  <2>9. 0 \in ok
    BY <2>0
  <2>10. ASSUME NEW n \in 0..(N - 1), n \in ok PROVE n + 1 \in ok
    <3>0. n \in Nat /\ n + 1 \in 1..N /\ n + 1 \in 0..N /\ n \in 0..N /\ (n + 1) - 1 = n
      BY <2>0
    <3>1. g[n] \in Seq(T) /\ g[n + 1] = g[n] \o ss[n + 1]
      BY <2>5, <3>0
    <3>2. h[n + 1] = g[n + 1]
      <4> HIDE DEF h
      <4>1. h[n + 1] = IF n + 1 = 1 THEN ss[n + 1] ELSE h[n] \o ss[n + 1]
        BY <2>7, <3>0
      <4>2. CASE n = 0
        <5>1. h[n + 1] = ss[n + 1] /\ g[n + 1] = <<>> \o ss[n + 1] /\ ss[n + 1] \in Seq(T)
          BY <2>0, <2>5, <3>0, <3>1, <4>1, <4>2
        <5> QED
          BY <5>1
      <4>3. CASE n # 0
        <5>1. n + 1 # 1 /\ h[n] = g[n]
          BY <2>10, <3>0, <4>3
        <5> QED
          BY <3>1, <4>1, <5>1
      <4> QED
        BY <4>2, <4>3
    <3> HIDE DEF h
    <3> QED
      BY <3>0, <3>2
  <2>11. N \in ok
    <3> HIDE DEF ok, N
    <3>1. 0..N \subseteq ok
      BY <2>0, <2>9, <2>10, IntervalInduction
    <3> QED
      BY <2>0, <3>1
  <2>12. h[N] = g[N]
    <3> HIDE DEF h
    <3> QED
      BY <1>2, <2>11
  <2> HIDE DEF h, Flat
  <2> QED
    BY <2>5, <2>8, <2>12 DEF Flattening
<1> QED
  BY <1>1, <1>2

\* Concatenating sequences gives a sequence of their elements, in their order.
LEMMA FlattenIs ==
  ASSUME NEW T, NEW ss \in Seq(Seq(T))
  PROVE  /\ FlattenSeq(ss) \in Seq(T)
         /\ \E from, place : Flattened(ss, Len(ss), FlattenSeq(ss), from, place)
<1> DEFINE N == Len(ss)
<1>0. N \in Nat
  OBVIOUS
<1>1. PICK g \in [0..N -> Seq(T)] :
        /\ g[0] = <<>> /\ \A n \in 1..N : g[n] = g[n - 1] \o ss[n]
        /\ FlattenSeq(ss) = g[N]
  BY FlattenSteps DEF Flattening
<1> DEFINE ok == {n \in 0..N : \E from, place : Flattened(ss, n, g[n], from, place)}
<1>2. 0 \in ok
  <2>1. Flattened(ss, 0, <<>>, <<>>, <<>>)
    BY DEF Flattened
  <2> QED
    BY <1>0, <1>1, <2>1
<1>3. ASSUME NEW n \in 0..(N - 1), n \in ok PROVE n + 1 \in ok
  <2>0. n \in Nat /\ n + 1 \in 1..N /\ n + 1 \in 0..N /\ n \in 0..N /\ (n + 1) - 1 = n
    BY <1>0
  <2>1. g[n] \in Seq(T) /\ g[n + 1] = g[n] \o ss[n + 1]
    BY <1>1, <2>0
  <2>2. PICK from, place : Flattened(ss, n, g[n], from, place)
    BY <1>3
  <2>3. \E f, p : Flattened(ss, n + 1, g[n] \o ss[n + 1], f, p)
    <3>1. n + 1 <= Len(ss)
      BY <2>0
    <3> QED
      BY <2>0, <2>1, <2>2, <3>1, FlattenedStep
  <2> QED
    BY <2>0, <2>1, <2>3
<1>4. N \in ok
  <2> HIDE DEF ok, N
  <2>1. 0..N \subseteq ok
    BY <1>0, <1>2, <1>3, IntervalInduction
  <2> QED
    BY <1>0, <2>1
<1>5. g[N] \in Seq(T)
  BY <1>0, <1>1
<1> QED
  BY <1>1, <1>4, <1>5
---------------------------------------------------------------------------
(* Ranks *)

\* How many members of a set of positions are no later than n.
Rank(A, n) == Cardinality({h \in 1..n : h \in A})

LEMMA RankSteps ==
  ASSUME NEW A
  PROVE  /\ Rank(A, 0) = 0
         /\ \A n \in Nat : /\ Rank(A, n) \in Nat
                           /\ Rank(A, n + 1) = IF n + 1 \in A THEN Rank(A, n) + 1 ELSE Rank(A, n)
         /\ \A n \in Nat \ {0} : Rank(A, n) = IF n \in A THEN Rank(A, n - 1) + 1 ELSE Rank(A, n - 1)
<1>1. Rank(A, 0) = 0
  <2>1. {h \in 1..0 : h \in A} = {}
    OBVIOUS
  <2> QED
    BY <2>1, FS_EmptySet DEF Rank
<1>2. ASSUME NEW n \in Nat
      PROVE  /\ Rank(A, n) \in Nat
             /\ Rank(A, n + 1) = IF n + 1 \in A THEN Rank(A, n) + 1 ELSE Rank(A, n)
  <2> DEFINE S == {h \in 1..n : h \in A}
             U == {h \in 1..(n + 1) : h \in A}
  <2>1. IsFiniteSet(S) /\ n + 1 \notin S
    <3>1. IsFiniteSet(1..n) /\ S \in SUBSET (1..n)
      BY FS_Interval
    <3> QED
      BY <3>1, FS_Subset
  <2>2. U = IF n + 1 \in A THEN S \cup {n + 1} ELSE S
    OBVIOUS
  <2>3. Rank(A, n) = Cardinality(S) /\ Rank(A, n + 1) = Cardinality(U)
    BY DEF Rank
  <2> HIDE DEF S, U
  <2>4. Cardinality(S) \in Nat /\ Cardinality(S \cup {n + 1}) = Cardinality(S) + 1
    BY <2>1, FS_CardinalityType, FS_AddElement
  <2> QED
    BY <2>2, <2>3, <2>4
<1>3. ASSUME NEW n \in Nat \ {0}
      PROVE  Rank(A, n) = IF n \in A THEN Rank(A, n - 1) + 1 ELSE Rank(A, n - 1)
  <2> DEFINE k == n - 1
  <2>1. k \in Nat /\ k + 1 = n
    OBVIOUS
  <2> HIDE DEF k
  <2>2. Rank(A, k + 1) = IF k + 1 \in A THEN Rank(A, k) + 1 ELSE Rank(A, k)
    BY <1>2, <2>1
  <2>3. Rank(A, n) = IF n \in A THEN Rank(A, k) + 1 ELSE Rank(A, k)
    BY <2>1, <2>2
  <2> QED
    BY <2>3 DEF k
<1> QED
  BY <1>1, <1>2, <1>3

\* Ranks grow, and every rank is some member's.
LEMMA RankGrows ==
  ASSUME NEW A, NEW m \in Nat, NEW n \in Nat, m <= n
  PROVE  Rank(A, m) <= Rank(A, n) /\ (n \in A /\ m < n => Rank(A, m) < Rank(A, n))
<1> DEFINE U == {k \in Nat : \A i \in 0..k : Rank(A, i) <= Rank(A, k)}
<1>0. \A k \in Nat : Rank(A, k) \in Nat /\ (Rank(A, k + 1) = Rank(A, k) + 1 \/ Rank(A, k + 1) = Rank(A, k))
  BY RankSteps
<1>1. 0 \in U
  BY <1>0
<1>2. ASSUME NEW k \in U PROVE k + 1 \in U
  <2> SUFFICES ASSUME NEW i \in 0..(k + 1) PROVE Rank(A, i) <= Rank(A, k + 1)
    OBVIOUS
  <2>1. CASE i = k + 1
    BY <1>0, <2>1
  <2>2. CASE i # k + 1
    <3>1. i \in 0..k /\ Rank(A, i) \in Nat /\ k \in Nat
      BY <1>0, <2>2
    <3>2. Rank(A, i) <= Rank(A, k)
      BY <3>1
    <3> QED
      BY <1>0, <3>1, <3>2
  <2> QED
    BY <2>1, <2>2
<1>3. U = Nat
  <2>1. U \in SUBSET Nat
    OBVIOUS
  <2> HIDE DEF U
  <2> QED
    BY <1>1, <1>2, <2>1, NatSetInduction
<1>4. \A k \in Nat : \A i \in 0..k : Rank(A, i) <= Rank(A, k)
  <2>1. \A k \in U : \A i \in 0..k : Rank(A, i) <= Rank(A, k)
    OBVIOUS
  <2> QED
    BY <1>3, <2>1
<1>5. ASSUME n \in A, m < n PROVE Rank(A, m) < Rank(A, n)
  <2>1. n \in Nat \ {0} /\ n - 1 \in Nat /\ m \in 0..(n - 1)
    BY <1>5
  <2>2. Rank(A, n) = Rank(A, n - 1) + 1
    BY <1>5, <2>1, RankSteps
  <2>3. Rank(A, m) <= Rank(A, n - 1)
    BY <1>4, <2>1
  <2> QED
    BY <1>0, <2>1, <2>2, <2>3
<1> QED
  BY <1>4, <1>5

LEMMA RankReached ==
  ASSUME NEW A, NEW n \in Nat, NEW r \in 1..Rank(A, n)
  PROVE  \E i \in 1..n : i \in A /\ Rank(A, i) = r
<1> DEFINE U == {k \in Nat : r <= Rank(A, k)}
           i == Min(U)
<1>1. n \in U /\ U \in SUBSET Nat
  BY RankSteps
<1>2. i \in U /\ \A k \in U : i <= k
  <2> HIDE DEF U
  <2> QED
    BY <1>1, LeastIs
<1> HIDE DEF i
<1>3. i \in Nat /\ i <= n /\ r <= Rank(A, i)
  BY <1>1, <1>2
<1>4. i # 0
  BY <1>3, RankSteps
<1>5. i - 1 \in Nat /\ i \in Nat \ {0} /\ i - 1 \notin U
  BY <1>2, <1>3, <1>4
<1>6. Rank(A, i - 1) < r /\ Rank(A, i - 1) \in Nat
  <2>1. Rank(A, i - 1) \in Nat /\ ~(r <= Rank(A, i - 1))
    BY <1>5, RankSteps
  <2> QED
    BY <2>1
<1>7. i \in A /\ Rank(A, i) = Rank(A, i - 1) + 1
  <2>1. Rank(A, i) = IF i \in A THEN Rank(A, i - 1) + 1 ELSE Rank(A, i - 1)
    BY <1>5, RankSteps
  <2> QED
    BY <1>3, <1>6, <2>1
<1> QED
  BY <1>3, <1>4, <1>6, <1>7

\* Later members do not matter, and members with one rank are one.
LEMMA RankLocal ==
  ASSUME NEW A, NEW B, NEW n, \A h \in 1..n : h \in A <=> h \in B
  PROVE  Rank(A, n) = Rank(B, n)
<1>1. {h \in 1..n : h \in A} = {h \in 1..n : h \in B}
  OBVIOUS
<1> QED
  BY <1>1 DEF Rank

LEMMA RankDiffers ==
  ASSUME NEW A, NEW i \in Nat, NEW j \in Nat, i \in A, j \in A, Rank(A, i) = Rank(A, j)
  PROVE  i = j
<1>0. Rank(A, i) \in Nat /\ Rank(A, j) \in Nat
  BY RankSteps
<1>1. CASE i < j
  BY <1>0, <1>1, RankGrows
<1>2. CASE j < i
  BY <1>0, <1>2, RankGrows
<1> QED
  BY <1>1, <1>2
=============================================================================
