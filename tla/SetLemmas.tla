------------------------------- MODULE SetLemmas ------------------------------
(***************************************************************************)
(* What the proofs of several modules need of finite sets: induction on    *)
(* their subsets, their greatest and least element, and sums over them;    *)
(* and induction over numbers.  The library states induction for an        *)
(* operator, here it is stated for the set Q of the subsets that have what *)
(* is to be shown; it rests on the well-foundedness of strict inclusion.   *)
(* MapThenSumSet is a CHOOSE of a function on the subsets of a set: that   *)
(* the function exists, and is the same for larger sets, gives the two     *)
(* laws the proofs use, SumAdd and SumRemove.                              *)
(***************************************************************************)
EXTENDS Integers, FiniteSetsExt, FiniteSetTheorems, WellFoundedInduction, TLAPS

\* The sum of f over S, as the modules write it.
SumOf(f, S) == MapThenSumSet(LAMBDA x : f[x], S)

\* Iteration g sums f over the subsets of S, taking the elements as CHOOSE does.
Iterates(f, S, g) ==
  g = [s \in SUBSET S |->
         IF s = {} THEN 0
         ELSE LET x == CHOOSE y \in s : TRUE IN f[x] + g[s \ {x}]]

\* What a finite set has when it holds of each set whose smaller subsets have it.
LEMMA SetInduction ==
  ASSUME NEW S, IsFiniteSet(S), NEW Q,
         \A T \in SUBSET S : (\A x \in T : T \ {x} \in Q) => T \in Q
  PROVE  S \in Q
<1> DEFINE Bad == (SUBSET S) \ Q
<1> SUFFICES ASSUME S \notin Q PROVE FALSE
  OBVIOUS
<1>1. IsWellFoundedOn(StrictSubsetOrdering(S), SUBSET S)
  BY FS_StrictSubsetOrderingWellFounded, FS_FiniteSubsetsOfFinite
<1>2. Bad \subseteq SUBSET S /\ Bad # {}
  OBVIOUS
<1>3. PICK T \in Bad : \A U \in Bad : <<U, T>> \notin StrictSubsetOrdering(S)
  BY <1>1, <1>2, WFMin
<1>4. ASSUME NEW x \in T
      PROVE  T \ {x} \in Q
  <2>1. T \ {x} \subseteq T /\ T \ {x} # T /\ T \ {x} \in SUBSET S /\ T \in SUBSET S
    BY <1>3, <1>4
  <2>2. <<T \ {x}, T>> \in StrictSubsetOrdering(S)
    BY <2>1 DEF StrictSubsetOrdering
  <2> QED
    BY <1>3, <2>1, <2>2
<1> QED
  BY <1>3, <1>4

\* A finite set of integers that is not empty has its greatest element.
LEMMA MaxFacts ==
  ASSUME NEW S \in SUBSET Int, IsFiniteSet(S), S # {}
  PROVE  Max(S) \in S /\ \A y \in S : Max(S) >= y
<1> DEFINE Q == {T \in SUBSET S : T # {} => \E x \in T : \A y \in T : x >= y}
<1>1. ASSUME NEW T \in SUBSET S, \A x \in T : T \ {x} \in Q
      PROVE  T \in Q
  <2> SUFFICES ASSUME T # {} PROVE \E x \in T : \A y \in T : x >= y
    OBVIOUS
  <2>1. PICK x : x \in T
    OBVIOUS
  <2>2. CASE T \ {x} = {}
    BY <2>1, <2>2
  <2>3. CASE T \ {x} # {}
    <3>1. PICK z \in T \ {x} : \A y \in T \ {x} : z >= y
      BY <1>1, <2>1, <2>3
    <3>2. x \in Int /\ z \in Int /\ T \subseteq Int
      BY <2>1, <3>1
    <3>3. CASE z >= x
      BY <3>1, <3>2, <3>3
    <3>4. CASE x >= z
      BY <2>1, <3>1, <3>2, <3>4
    <3> QED
      BY <3>2, <3>3, <3>4
  <2> QED
    BY <2>2, <2>3
<1> HIDE DEF Q
<1>2. S \in Q
  BY <1>1, SetInduction
<1> QED
  BY <1>2 DEF Q, Max

\* And its least element.
LEMMA MinFacts ==
  ASSUME NEW S \in SUBSET Int, IsFiniteSet(S), S # {}
  PROVE  Min(S) \in S /\ \A y \in S : Min(S) <= y
<1> DEFINE Q == {T \in SUBSET S : T # {} => \E x \in T : \A y \in T : x <= y}
<1>1. ASSUME NEW T \in SUBSET S, \A x \in T : T \ {x} \in Q
      PROVE  T \in Q
  <2> SUFFICES ASSUME T # {} PROVE \E x \in T : \A y \in T : x <= y
    OBVIOUS
  <2>1. PICK x : x \in T
    OBVIOUS
  <2>2. CASE T \ {x} = {}
    BY <2>1, <2>2
  <2>3. CASE T \ {x} # {}
    <3>1. PICK z \in T \ {x} : \A y \in T \ {x} : z <= y
      BY <1>1, <2>1, <2>3
    <3>2. x \in Int /\ z \in Int /\ T \subseteq Int
      BY <2>1, <3>1
    <3>3. CASE z <= x
      BY <3>1, <3>2, <3>3
    <3>4. CASE x <= z
      BY <2>1, <3>1, <3>2, <3>4
    <3> QED
      BY <3>2, <3>3, <3>4
  <2> QED
    BY <2>2, <2>3
<1> HIDE DEF Q
<1>2. S \in Q
  BY <1>1, SetInduction
<1> QED
  BY <1>2 DEF Q, Min

\* What holds of 0 and is handed on holds of every natural number.
LEMMA NatSetInduction ==
  ASSUME NEW Q, 0 \in Q, \A k \in Nat : k \in Q => k + 1 \in Q
  PROVE  \A n \in Nat : n \in Q
<1> SUFFICES ASSUME NEW n \in Nat PROVE n \in Q
  OBVIOUS
<1> DEFINE G == {i \in 0..n : \A j \in 0..i : j \in Q}
<1>1. 0 \in G
  BY SMT
<1>2. IsFiniteSet(G) /\ G \in SUBSET Int
  <2>1. G \in SUBSET (0..n)
    OBVIOUS
  <2> HIDE DEF G
  <2>2. IsFiniteSet(0..n)
    BY FS_Interval
  <2>3. IsFiniteSet(G)
    BY <2>1, <2>2, FS_Subset
  <2>4. 0..n \in SUBSET Int
    OBVIOUS
  <2> QED
    BY <2>1, <2>3, <2>4
<1>3. \A i \in G : i < n => i + 1 \in G
  <2> SUFFICES ASSUME NEW i \in G, i < n PROVE i + 1 \in G
    OBVIOUS
  <2>1. i \in Nat /\ i \in Q /\ i + 1 \in 0..n
    OBVIOUS
  <2>2. \A j \in 0..(i + 1) : j \in 0..i \/ j = i + 1
    BY <2>1
  <2> QED
    BY <2>1, <2>2
<1>4. PICK m \in G : \A y \in G : m >= y
  <2> HIDE DEF G
  <2> QED
    BY <1>1, <1>2, MaxFacts
<1>5. m = n
  BY <1>3, <1>4
<1> QED
  BY <1>4, <1>5

\* The image of a finite set under a function is finite, and as large as the set if no two
\* elements share a value.
LEMMA ImageFacts ==
  ASSUME NEW S, IsFiniteSet(S), NEW f
  PROVE  LET T == {f[x] : x \in S}
         IN  /\ IsFiniteSet(T)
             /\ Cardinality(T) <= Cardinality(S)
             /\ (\A x, y \in S : f[x] = f[y] => x = y) => Cardinality(T) = Cardinality(S)
<1> DEFINE T == {f[x] : x \in S}
           g == [x \in S |-> f[x]]
<1>1. g \in Surjection(S, T)
  BY DEF Surjection
<1>2. (\A x, y \in S : f[x] = f[y] => x = y) => g \in Injection(S, T)
  BY DEF Injection, IsInjective
<1> HIDE DEF T, g
<1>3. /\ IsFiniteSet(T)
      /\ Cardinality(T) <= Cardinality(S)
      /\ Cardinality(T) = Cardinality(S) <=> g \in Injection(S, T)
  BY <1>1, FS_Surjection
<1> QED
  BY <1>2, <1>3 DEF T

\* An iteration adds the element CHOOSE takes to the sum over the others.
LEMMA IterateStep ==
  ASSUME NEW f, NEW S, NEW g, Iterates(f, S, g), NEW T \in SUBSET S
  PROVE  /\ T = {} => g[T] = 0
         /\ T # {} => LET x == CHOOSE y \in T : TRUE
                      IN x \in T /\ g[T] = f[x] + g[T \ {x}]
BY DEF Iterates

\* An iteration over S is one over each of its subsets.
LEMMA IterateRestricted ==
  ASSUME NEW f, NEW S, NEW g, Iterates(f, S, g), NEW T \in SUBSET S
  PROVE  Iterates(f, T, [s \in SUBSET T |-> g[s]])
<1> DEFINE k == [s \in SUBSET T |-> g[s]]
           c(s) == CHOOSE y \in s : TRUE
<1>1. ASSUME NEW s \in SUBSET T
      PROVE  k[s] = IF s = {} THEN 0 ELSE f[c(s)] + k[s \ {c(s)}]
  <2>1. s \in SUBSET S /\ s \ {c(s)} \in SUBSET T
    OBVIOUS
  <2>2. k[s] = g[s] /\ k[s \ {c(s)}] = g[s \ {c(s)}]
    BY <2>1
  <2>3. /\ s = {} => g[s] = 0
        /\ s # {} => g[s] = f[c(s)] + g[s \ {c(s)}]
    BY <2>1 DEF Iterates
  <2> QED
    BY <2>2, <2>3
<1> HIDE DEF c
<1>2. k = [s \in SUBSET T |-> IF s = {} THEN 0 ELSE f[c(s)] + k[s \ {c(s)}]]
  BY <1>1
<1> QED
  BY <1>2 DEF Iterates, c

\* Two iterations over one finite set give one sum.
LEMMA IterateUnique ==
  ASSUME NEW f, NEW S, IsFiniteSet(S), NEW g, NEW k,
         Iterates(f, S, g), Iterates(f, S, k)
  PROVE  g[S] = k[S]
<1> DEFINE Q == {T \in SUBSET S : g[T] = k[T]}
<1>1. ASSUME NEW T \in SUBSET S, \A x \in T : T \ {x} \in Q
      PROVE  T \in Q
  <2>1. /\ T = {} => g[T] = 0 /\ k[T] = 0
        /\ T # {} => LET x == CHOOSE y \in T : TRUE
                     IN x \in T /\ g[T] = f[x] + g[T \ {x}] /\ k[T] = f[x] + k[T \ {x}]
    BY IterateStep
  <2> QED
    BY <1>1, <2>1
<1> QED
  BY <1>1, SetInduction

\* The sum over a subset is what the iteration has for it.
LEMMA SumIterated ==
  ASSUME NEW f, NEW S, IsFiniteSet(S), NEW g, Iterates(f, S, g), NEW T \in SUBSET S
  PROVE  SumOf(f, T) = g[T]
<1> DEFINE h == CHOOSE k : Iterates(f, T, k)
<1>1. SumOf(f, T) = h[T]
  BY DEF SumOf, MapThenSumSet, MapThenFoldSet, Iterates
<1>2. Iterates(f, T, [s \in SUBSET T |-> g[s]])
  BY IterateRestricted
<1>3. Iterates(f, T, h)
  BY <1>2
<1>4. IsFiniteSet(T)
  BY FS_Subset
<1> HIDE DEF h
<1>5. h[T] = [s \in SUBSET T |-> g[s]][T]
  BY <1>2, <1>3, <1>4, IterateUnique
<1> QED
  BY <1>1, <1>5

\* The sum over no elements.
LEMMA SumEmpty ==
  ASSUME NEW f
  PROVE  SumOf(f, {}) = 0
<1> DEFINE g == [s \in SUBSET {} |-> 0]
<1>1. Iterates(f, {}, g)
  BY DEF Iterates
<1> QED
  BY <1>1, SumIterated, FS_EmptySet

\* There is an iteration over every finite set.
LEMMA IterateExists ==
  ASSUME NEW f, NEW S, IsFiniteSet(S)
  PROVE  \E g : Iterates(f, S, g)
<1> DEFINE Q == {T \in SUBSET S : \E g : Iterates(f, T, g)}
           c(s) == CHOOSE y \in s : TRUE
<1>1. ASSUME NEW T \in SUBSET S, \A x \in T : T \ {x} \in Q
      PROVE  T \in Q
  <2> DEFINE k == [s \in SUBSET T |->
                     IF s = T /\ T # {} THEN f[c(T)] + SumOf(f, T \ {c(T)})
                     ELSE SumOf(f, s)]
  <2>1. ASSUME NEW s \in SUBSET T
        PROVE  k[s] = IF s = {} THEN 0 ELSE f[c(s)] + k[s \ {c(s)}]
    <3>1. CASE s = {}
      BY <3>1, SumEmpty
    <3>2. CASE s = T /\ s # {}
      <4>1. c(s) \in s /\ s \ {c(s)} # T /\ s \ {c(s)} \in SUBSET T
        BY <3>2
      <4> QED
        BY <3>2, <4>1
    <3>3. CASE s # T /\ s # {}
      <4>1. PICK x \in T : x \notin s
        BY <3>3
      <4>2. c(s) \in s /\ s \ {c(s)} \in SUBSET T /\ s \ {c(s)} # T
        BY <3>3
      <4>3. PICK g : Iterates(f, T \ {x}, g)
        BY <1>1
      <4>4. IsFiniteSet(T \ {x})
        BY FS_Subset
      <4>5. s \in SUBSET (T \ {x}) /\ s \ {c(s)} \in SUBSET (T \ {x})
        BY <4>1
      <4>6. SumOf(f, s) = g[s] /\ SumOf(f, s \ {c(s)}) = g[s \ {c(s)}]
        BY <4>3, <4>4, <4>5, SumIterated
      <4>7. g[s] = f[c(s)] + g[s \ {c(s)}]
        BY <3>3, <4>3, <4>5 DEF Iterates
      <4> HIDE DEF c
      <4> QED
        BY <3>3, <4>2, <4>6, <4>7
    <3> QED
      BY <3>1, <3>2, <3>3
  <2> HIDE DEF c
  <2>2. k = [s \in SUBSET T |-> IF s = {} THEN 0 ELSE f[c(s)] + k[s \ {c(s)}]]
    BY <2>1
  <2>3. Iterates(f, T, k)
    BY <2>2 DEF Iterates, c
  <2> QED
    BY <2>3
<1> QED
  BY <1>1, SetInduction

\* Some element is added to the sum over the others.
LEMMA SumChosen ==
  ASSUME NEW f, NEW S, IsFiniteSet(S), S # {}
  PROVE  \E x \in S : SumOf(f, S) = f[x] + SumOf(f, S \ {x})
<1>1. PICK g : Iterates(f, S, g)
  BY IterateExists
<1>2. PICK x \in S : g[S] = f[x] + g[S \ {x}]
  BY <1>1 DEF Iterates
<1>3. SumOf(f, S) = g[S] /\ SumOf(f, S \ {x}) = g[S \ {x}]
  BY <1>1, SumIterated
<1> QED
  BY <1>2, <1>3

\* A sum of integers is one, and not negative if none of them is.
LEMMA SumType ==
  ASSUME NEW f, NEW S, IsFiniteSet(S), \A x \in S : f[x] \in Int
  PROVE  /\ SumOf(f, S) \in Int
         /\ (\A x \in S : f[x] >= 0) => SumOf(f, S) >= 0
<1> DEFINE Q == {T \in SUBSET S : /\ SumOf(f, T) \in Int
                                  /\ (\A x \in S : f[x] >= 0) => SumOf(f, T) >= 0}
<1>1. ASSUME NEW T \in SUBSET S, \A x \in T : T \ {x} \in Q
      PROVE  T \in Q
  <2>1. CASE T = {}
    BY <2>1, SumEmpty
  <2>2. CASE T # {}
    <3>1. IsFiniteSet(T)
      BY FS_Subset
    <3>2. PICK x \in T : SumOf(f, T) = f[x] + SumOf(f, T \ {x})
      BY <2>2, <3>1, SumChosen
    <3> QED
      BY <1>1, <3>2
  <2> QED
    BY <2>1, <2>2
<1> QED
  BY <1>1, SetInduction

\* The order in which the elements are taken does not matter.
LEMMA SumRemove ==
  ASSUME NEW f, NEW S, IsFiniteSet(S), \A x \in S : f[x] \in Int, NEW z \in S
  PROVE  SumOf(f, S) = f[z] + SumOf(f, S \ {z})
<1> DEFINE Q == {T \in SUBSET S : \A y \in T : SumOf(f, T) = f[y] + SumOf(f, T \ {y})}
<1>1. ASSUME NEW T \in SUBSET S, \A x \in T : T \ {x} \in Q
      PROVE  T \in Q
  <2> SUFFICES ASSUME NEW y \in T PROVE SumOf(f, T) = f[y] + SumOf(f, T \ {y})
    OBVIOUS
  <2>1. IsFiniteSet(T)
    BY FS_Subset
  <2>2. PICK x \in T : SumOf(f, T) = f[x] + SumOf(f, T \ {x})
    BY <2>1, SumChosen
  <2>3. CASE x # y
    <3>1. SumOf(f, T \ {x}) = f[y] + SumOf(f, (T \ {x}) \ {y})
      BY <1>1, <2>3
    <3>2. SumOf(f, T \ {y}) = f[x] + SumOf(f, (T \ {y}) \ {x})
      BY <1>1, <2>3
    <3>3. (T \ {x}) \ {y} = (T \ {y}) \ {x}
      OBVIOUS
    <3>4. IsFiniteSet((T \ {y}) \ {x})
      BY <2>1, FS_Subset
    <3>5. SumOf(f, (T \ {y}) \ {x}) \in Int /\ f[x] \in Int /\ f[y] \in Int
      BY <3>4, SumType
    <3>6. /\ SumOf(f, T) = f[x] + (f[y] + SumOf(f, (T \ {y}) \ {x}))
          /\ SumOf(f, T \ {y}) = f[x] + SumOf(f, (T \ {y}) \ {x})
      BY <2>2, <3>1, <3>2, <3>3
    <3> QED
      BY <3>5, <3>6
  <2> QED
    BY <2>2, <2>3
<1> QED
  BY <1>1, SetInduction

\* One element more.
LEMMA SumAdd ==
  ASSUME NEW f, NEW S, IsFiniteSet(S), NEW z, z \notin S,
         \A x \in S \cup {z} : f[x] \in Int
  PROVE  SumOf(f, S \cup {z}) = f[z] + SumOf(f, S)
<1>1. IsFiniteSet(S \cup {z})
  BY FS_AddElement
<1>2. (S \cup {z}) \ {z} = S
  OBVIOUS
<1> QED
  BY <1>1, <1>2, SumRemove

\* Functions that agree on a set have one sum over it.
LEMMA SumSame ==
  ASSUME NEW f, NEW g, NEW S, IsFiniteSet(S), \A x \in S : f[x] = g[x] /\ f[x] \in Int
  PROVE  SumOf(f, S) = SumOf(g, S)
<1> DEFINE Q == {T \in SUBSET S : SumOf(f, T) = SumOf(g, T)}
<1>1. ASSUME NEW T \in SUBSET S, \A x \in T : T \ {x} \in Q
      PROVE  T \in Q
  <2>1. CASE T = {}
    BY <2>1, SumEmpty
  <2>2. CASE T # {}
    <3>1. IsFiniteSet(T)
      BY FS_Subset
    <3>2. PICK x \in T : SumOf(f, T) = f[x] + SumOf(f, T \ {x})
      BY <2>2, <3>1, SumChosen
    <3>3. SumOf(g, T) = g[x] + SumOf(g, T \ {x})
      BY <3>1, SumRemove
    <3> QED
      BY <1>1, <3>2, <3>3
  <2> QED
    BY <2>1, <2>2
<1> QED
  BY <1>1, SetInduction

\* A part of natural numbers sums up to no more than the whole.
LEMMA SumSubset ==
  ASSUME NEW f, NEW S, IsFiniteSet(S), \A x \in S : f[x] \in Nat, NEW T \in SUBSET S
  PROVE  SumOf(f, T) <= SumOf(f, S)
<1> DEFINE Q == {U \in SUBSET S : T \subseteq U => SumOf(f, T) <= SumOf(f, U)}
<1>1. ASSUME NEW U \in SUBSET S, \A x \in U : U \ {x} \in Q
      PROVE  U \in Q
  <2>1. CASE T \subseteq U /\ T # U
    <3>1. PICK x \in U : x \notin T
      BY <2>1
    <3>2. IsFiniteSet(U) /\ IsFiniteSet(U \ {x}) /\ IsFiniteSet(T)
      BY FS_Subset
    <3>3. SumOf(f, U) = f[x] + SumOf(f, U \ {x})
      BY <3>2, SumRemove
    <3>4. SumOf(f, U \ {x}) \in Int /\ SumOf(f, T) \in Int
      BY <3>2, SumType
    <3> QED
      BY <1>1, <2>1, <3>1, <3>3, <3>4
  <2>2. SumOf(f, T) \in Int
    BY FS_Subset, SumType
  <2> QED
    BY <2>1, <2>2
<1> HIDE DEF Q
<1>2. S \in Q
  BY <1>1, SetInduction
<1> QED
  BY <1>2 DEF Q

\* A sum of nothing but zeros is zero.
LEMMA SumZero ==
  ASSUME NEW f, NEW S, IsFiniteSet(S), \A x \in S : f[x] = 0
  PROVE  SumOf(f, S) = 0
<1> DEFINE Q == {T \in SUBSET S : SumOf(f, T) = 0}
<1>1. ASSUME NEW T \in SUBSET S, \A x \in T : T \ {x} \in Q
      PROVE  T \in Q
  <2>1. CASE T = {}
    BY <2>1, SumEmpty
  <2>2. CASE T # {}
    <3>1. IsFiniteSet(T)
      BY FS_Subset
    <3>2. PICK x \in T : SumOf(f, T) = f[x] + SumOf(f, T \ {x})
      BY <2>2, <3>1, SumChosen
    <3>3. f[x] = 0 /\ SumOf(f, T \ {x}) = 0
      BY <1>1
    <3> QED
      BY <3>2, <3>3
  <2> QED
    BY <2>1, <2>2
<1> HIDE DEF Q
<1>2. S \in Q
  BY <1>1, SetInduction
<1> QED
  BY <1>2 DEF Q

\* A sum grows by what one of its terms grows.
LEMMA SumGrown ==
  ASSUME NEW f, NEW g, NEW S, IsFiniteSet(S), \A x \in S : f[x] \in Int,
         NEW z \in S, NEW a \in Int, g[z] = f[z] + a, \A x \in S : x # z => g[x] = f[x]
  PROVE  SumOf(g, S) = SumOf(f, S) + a
<1>1. IsFiniteSet(S \ {z}) /\ \A x \in S : g[x] \in Int
  BY FS_RemoveElement
<1>2. SumOf(f, S \ {z}) = SumOf(g, S \ {z})
  BY <1>1, SumSame
<1>3. SumOf(f, S) = f[z] + SumOf(f, S \ {z})
  BY SumRemove
<1>4. SumOf(g, S) = g[z] + SumOf(g, S \ {z})
  BY <1>1, SumRemove
<1>5. SumOf(f, S \ {z}) \in Int
  BY <1>1, SumType
<1> QED
  BY <1>2, <1>3, <1>4, <1>5

\* A sum of a field of the elements is the sum of a function.
FieldSum(R, f, T) == MapThenSumSet(LAMBDA x : R[x][f], T)

FieldIterates(R, f, T, k) ==
  k = [s \in SUBSET T |->
         IF s = {} THEN 0
         ELSE LET x == CHOOSE y \in s : TRUE IN R[x][f] + k[s \ {x}]]

LEMMA SumField ==
  ASSUME NEW R, NEW f, NEW S, NEW T \in SUBSET S
  PROVE  FieldSum(R, f, T) = SumOf([x \in S |-> R[x][f]], T)
<1> DEFINE w == [x \in S |-> R[x][f]]
           g == CHOOSE k : FieldIterates(R, f, T, k)
           h == CHOOSE k : Iterates(w, T, k)
<1>1. SumOf(w, T) = h[T]
  BY DEF SumOf, MapThenSumSet, MapThenFoldSet, Iterates
<1>2. FieldSum(R, f, T) = g[T]
  BY DEF FieldSum, MapThenSumSet, MapThenFoldSet, FieldIterates
<1>3. ASSUME NEW k
      PROVE  FieldIterates(R, f, T, k) <=> Iterates(w, T, k)
  <2> DEFINE F(s) == IF s = {} THEN 0
                     ELSE LET x == CHOOSE y \in s : TRUE IN R[x][f] + k[s \ {x}]
             G(s) == IF s = {} THEN 0
                     ELSE LET x == CHOOSE y \in s : TRUE IN w[x] + k[s \ {x}]
  <2>1. \A s \in SUBSET T : F(s) = G(s)
    OBVIOUS
  <2>2. FieldIterates(R, f, T, k) <=> k = [s \in SUBSET T |-> F(s)]
    BY DEF FieldIterates
  <2>3. Iterates(w, T, k) <=> k = [s \in SUBSET T |-> G(s)]
    BY DEF Iterates
  <2> HIDE DEF F, G
  <2>4. [s \in SUBSET T |-> F(s)] = [s \in SUBSET T |-> G(s)]
    BY <2>1
  <2> QED
    BY <2>2, <2>3, <2>4
<1> HIDE DEF w
<1>4. g = h
  BY <1>3, Zenon
<1> QED
  BY <1>1, <1>2, <1>4 DEF w
===============================================================================
