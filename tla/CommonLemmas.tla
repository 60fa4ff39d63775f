---------------------------- MODULE CommonLemmas -----------------------------
(***************************************************************************)
(* Facts that several proofs use: least members, powers of two, and sums.  *)
(*                                                                         *)
(* Induction goes over a least counterexample.  A set of natural numbers   *)
(* that is not empty has a least member; and the strict subset relation on *)
(* the finite subsets of a set is well founded, so that a set of them that *)
(* is not empty has a member none of whose strict subsets belongs to it.   *)
(***************************************************************************)
EXTENDS Functions, FiniteSetTheorems, WellFoundedInduction, TLAPS

\* A set of natural numbers that is not empty has a least member.
LEMMA LeastMember ==
  ASSUME NEW S \in SUBSET Nat, S # {}
  PROVE  \E m \in S : \A k \in S : m <= k
<1>1. PICK m \in S : \A k \in S : ~(<<k, m>> \in OpToRel(<, Nat))
  BY NatLessThanWellFounded, WFMin, Zenon
<1>2. ASSUME NEW k \in S PROVE m <= k
  <2>1. ~(k < m)
    BY <1>1, Zenon DEF OpToRel
  <2>. QED
    BY <2>1
<1>. QED
  BY <1>2

\* Powers of two, from the number of subsets of 1 .. n.
LEMMA PowersOfTwo ==
  /\ 2 ^ 0 = 1
  /\ \A n \in Nat : 2 ^ n \in Nat /\ 2 ^ (n + 1) = 2 ^ n + 2 ^ n
<1>1. ASSUME NEW n \in Nat
      PROVE  /\ IsFiniteSet(SUBSET (1 .. n)) /\ 2 ^ n \in Nat
             /\ 2 ^ n = Cardinality(SUBSET (1 .. n))
  <2>1. IsFiniteSet(1 .. n) /\ Cardinality(1 .. n) = n
    BY FS_Interval
  <2>2. /\ IsFiniteSet(SUBSET (1 .. n))
        /\ Cardinality(SUBSET (1 .. n)) = 2 ^ Cardinality(1 .. n)
    BY <2>1, FS_SUBSET, Zenon
  <2>3. Cardinality(SUBSET (1 .. n)) \in Nat
    BY <2>2, FS_CardinalityType, Zenon
  <2>. QED
    BY <2>1, <2>2, <2>3, Zenon
<1>2. ASSUME NEW n \in Nat PROVE 2 ^ (n + 1) = 2 ^ n + 2 ^ n
  <2>. DEFINE A == SUBSET (1 .. n)
              With(T) == T \cup {n + 1}
              B == {With(T) : T \in A}
  <2>1. IsFiniteSet(A) /\ 2 ^ n = Cardinality(A)
    BY <1>1
  <2>2. SUBSET (1 .. n + 1) = A \cup B
    <3>1. 1 .. n + 1 = (1 .. n) \cup {n + 1} /\ n + 1 \notin 1 .. n
      OBVIOUS
    <3>2. ASSUME NEW T \in SUBSET (1 .. n + 1) PROVE T \in A \cup B
      <4>1. CASE n + 1 \in T
        <5>1. T = With(T \ {n + 1}) /\ T \ {n + 1} \in A
          BY <3>1, <4>1
        <5>. QED
          BY <5>1
      <4>2. CASE n + 1 \notin T
        BY <3>1, <4>2
      <4>. QED
        BY <4>1, <4>2
    <3>3. ASSUME NEW T \in A PROVE T \subseteq 1 .. n + 1 /\ With(T) \subseteq 1 .. n + 1
      BY <3>1
    <3>4. \A T \in B : T \in SUBSET (1 .. n + 1)
      <4>1. ASSUME NEW T \in B PROVE T \in SUBSET (1 .. n + 1)
        <5>1. PICK U \in A : T = With(U)
          OBVIOUS
        <5>2. With(U) \subseteq 1 .. n + 1
          BY <3>3, Zenon
        <5>. HIDE DEF With
        <5>. QED
          BY <5>1, <5>2
      <4>. QED
        BY <4>1
    <3>5. \A T \in A : T \in SUBSET (1 .. n + 1)
      BY <3>3, Zenon
    <3>. HIDE DEF A, B
    <3>. QED
      BY <3>2, <3>4, <3>5, Zenon
  <2>3. A \cap B = {}
    OBVIOUS
  <2>4. IsFiniteSet(B) /\ Cardinality(B) = Cardinality(A)
    <3>. DEFINE f == [T \in A |-> With(T)]
    <3>1. f \in Bijection(A, B)
      <4>1. \A T, U \in A : With(T) = With(U) => T = U
        OBVIOUS
      <4>2. f \in [A -> B] /\ \A U \in B : \E T \in A : f[T] = U
        OBVIOUS
      <4>3. \A T, U \in A : f[T] = f[U] => T = U
        BY <4>1, Zenon
      <4>. HIDE DEF f, A, B
      <4>4. f \in Injection(A, B)
        BY <4>2, <4>3, Zenon DEF Injection, IsInjective
      <4>5. f \in Surjection(A, B)
        BY <4>2, Zenon DEF Surjection
      <4>. QED
        BY <4>4, <4>5, Zenon DEF Bijection
    <3>2. ExistsBijection(A, B)
      BY <3>1 DEF ExistsBijection
    <3>. QED
      BY <2>1, <3>2, FS_Bijection, Zenon
  <2>5. Cardinality(A \cup B)
          = Cardinality(A) + Cardinality(B) - Cardinality(A \cap B)
    BY <2>1, <2>4, FS_Union, Zenon
  <2>6. Cardinality(A \cap B) = 0
    BY <2>3, FS_EmptySet, Zenon
  <2>7. n + 1 \in Nat
    OBVIOUS
  <2>8. 2 ^ (n + 1) = Cardinality(A \cup B)
    BY <1>1, <2>2, <2>7, Zenon
  <2>9. 2 ^ (n + 1) = 2 ^ n + 2 ^ n - 0
    BY <2>1, <2>4, <2>5, <2>6, <2>8, Zenon
  <2>10. 2 ^ n \in Nat
    BY <1>1
  <2>. QED
    BY <2>9, <2>10
<1>3. 2 ^ 0 = 1
  OBVIOUS
<1>. QED
  BY <1>1, <1>2, <1>3, Zenon
-----------------------------------------------------------------------------
(***************************************************************************)
(* What the proofs need to know of SumFunctionOnSet: that a sum over a     *)
(* finite set does not depend on the order in which the fold takes the     *)
(* elements, and how it changes with the function.  The fold is a          *)
(* recursive function on the subsets of the set.                           *)
(***************************************************************************)

\* The element that the fold takes next
Some(s) == CHOOSE x \in s : TRUE

\* g is the fold's table of the sums of f over the subsets of S.
IsTable(f, S, g) ==
  g = [s \in SUBSET S |->
         IF s = {} THEN 0 ELSE f[Some(s)] + g[s \ {Some(s)}]]

\* f has an integer value everywhere on the finite set S.
Summable(f, S) == IsFiniteSet(S) /\ \A x \in S : f[x] \in Int

\* On S the functions are the same.
Agree(e, f, S) == \A x \in S : e[x] = f[x]

\* On S the functions differ at x only.
DifferAt(e, f, S, x) == \A y \in S : y # x => e[y] = f[y]

\* The sum is the last entry of the table.
LEMMA SumFromTable ==
  ASSUME NEW f, NEW S
  PROVE  SumFunctionOnSet(f, S) = (CHOOSE g : IsTable(f, S, g))[S]
  BY DEF SumFunctionOnSet, FoldFunctionOnSet, MapThenFoldSet, IsTable, Some

\* Subsets of a finite set have least ones among them.
LEMMA LeastSubset ==
  ASSUME NEW S, IsFiniteSet(S), NEW C \in SUBSET SUBSET S, C # {}
  PROVE  \E T \in C : \A U \in C : ~ (U \subseteq T /\ U # T)
<1>1. IsWellFoundedOn(StrictSubsetOrdering(S), FiniteSubsetsOf(S))
  BY FS_StrictSubsetOrderingWellFounded
<1>2. C \subseteq FiniteSubsetsOf(S)
  BY FS_Subset DEF FiniteSubsetsOf
<1>3. PICK T \in C : \A U \in C : <<U, T>> \notin StrictSubsetOrdering(S)
  BY <1>1, <1>2, WFMin, Zenon
<1>. QED
  BY <1>3, Zenon DEF StrictSubsetOrdering

\* Where two functions agree on T so do their tables, whatever sets the tables
\* were made for.
LEMMA TablesAgree ==
  ASSUME NEW S, NEW T, NEW U, IsFiniteSet(U), U \subseteq S, U \subseteq T,
         NEW e, NEW f, Agree(e, f, U),
         NEW g, NEW h, IsTable(e, S, g), IsTable(f, T, h)
  PROVE  g[U] = h[U]
<1>. DEFINE C == {V \in SUBSET U : g[V] # h[V]}
<1>1. SUFFICES ASSUME C # {} PROVE FALSE
  OBVIOUS
<1>2. PICK V \in C : \A W \in C : ~ (W \subseteq V /\ W # V)
  <2>1. C \in SUBSET SUBSET U
    OBVIOUS
  <2>. HIDE DEF C
  <2>. QED
    BY <1>1, <2>1, LeastSubset
<1>3. V # {}
  BY DEF IsTable
<1>4. Some(V) \in V
  BY <1>3 DEF Some
<1>5. g[V \ {Some(V)}] = h[V \ {Some(V)}]
  BY <1>2, <1>4
<1>6. /\ g[V] = e[Some(V)] + g[V \ {Some(V)}]
      /\ h[V] = f[Some(V)] + h[V \ {Some(V)}]
  BY <1>3, Zenon DEF IsTable
<1>. QED
  BY <1>4, <1>5, <1>6 DEF Agree

\* The table exists.
LEMMA TableExists ==
  ASSUME NEW S, IsFiniteSet(S), NEW f
  PROVE  \E g : IsTable(f, S, g)
<1>. DEFINE C == {T \in SUBSET S : ~ \E g : IsTable(f, T, g)}
            Value(s) == (CHOOSE g : IsTable(f, s, g))[s]
<1>1. SUFFICES ASSUME C # {} PROVE FALSE
  OBVIOUS
<1>2. PICK T \in C : \A U \in C : ~ (U \subseteq T /\ U # T)
  <2>1. C \in SUBSET SUBSET S
    OBVIOUS
  <2>. HIDE DEF C
  <2>. QED
    BY <1>1, <2>1, LeastSubset
<1>. DEFINE G == [s \in SUBSET T |->
                    IF s = {} THEN 0 ELSE f[Some(s)] + Value(s \ {Some(s)})]
<1>3. ASSUME NEW U \in SUBSET T, U # T PROVE IsTable(f, U, CHOOSE g : IsTable(f, U, g))
  BY <1>2, <1>3
<1>4. ASSUME NEW U \in SUBSET T, U # T PROVE G[U] = Value(U)
  <2>1. CASE U = {}
    <3>1. IsTable(f, U, CHOOSE g : IsTable(f, U, g))
      BY <1>3, <1>4
    <3>2. Value(U) = 0
      BY <2>1, <3>1, Zenon DEF IsTable
    <3>. QED
      BY <2>1, <3>2
  <2>2. CASE U # {}
    <3>. DEFINE g == CHOOSE g : IsTable(f, U, g)
                V == U \ {Some(U)}
                h == CHOOSE h : IsTable(f, V, h)
    <3>1. Some(U) \in U /\ V \in SUBSET T /\ V # T
      BY <1>4, <2>2 DEF Some
    <3>2. IsTable(f, U, g) /\ IsTable(f, V, h)
      BY <1>3, <1>4, <3>1, Zenon
    <3>3. IsFiniteSet(V)
      BY <3>1, FS_Subset
    <3>4. g[V] = h[V]
      BY <3>2, <3>3, TablesAgree DEF Agree
    <3>5. g[U] = f[Some(U)] + g[V]
      BY <2>2, <3>2, Zenon DEF IsTable
    <3>. QED
      BY <2>2, <3>4, <3>5
  <2>. QED
    BY <2>1, <2>2
<1>5. IsTable(f, T, G)
  <2>1. ASSUME NEW s \in SUBSET T, s # {} PROVE G[s \ {Some(s)}] = Value(s \ {Some(s)})
    <3>1. Some(s) \in s
      BY <2>1 DEF Some
    <3>. QED
      BY <1>4, <3>1, Zenon
  <2>2. \A s \in SUBSET T :
          G[s] = IF s = {} THEN 0 ELSE f[Some(s)] + G[s \ {Some(s)}]
    <3>1. \A s \in SUBSET T :
            G[s] = IF s = {} THEN 0 ELSE f[Some(s)] + Value(s \ {Some(s)})
      BY Zenon
    <3>. HIDE DEF G, Value
    <3>. QED
      BY <2>1, <3>1
  <2>3. G = [s \in SUBSET T |-> G[s]]
    OBVIOUS
  <2>. HIDE DEF G
  <2>. QED
    BY <2>2, <2>3, Zenon DEF IsTable
<1>. QED
  BY <1>2, <1>5
-----------------------------------------------------------------------------
\* The sum over the empty set, and over any other one as the fold takes it.
LEMMA SumUnfolds ==
  ASSUME NEW S, IsFiniteSet(S), NEW f
  PROVE  SumFunctionOnSet(f, S) =
           IF S = {} THEN 0
           ELSE f[Some(S)] + SumFunctionOnSet(f, S \ {Some(S)})
<1>. DEFINE T == S \ {Some(S)}
            g == CHOOSE g : IsTable(f, S, g)
            h == CHOOSE h : IsTable(f, T, h)
<1>1. IsFiniteSet(T)
  BY FS_Subset
<1>2. IsTable(f, S, g) /\ IsTable(f, T, h)
  BY <1>1, TableExists
<1>3. g[T] = h[T]
  BY <1>1, <1>2, TablesAgree DEF Agree
<1>4. g[S] = IF S = {} THEN 0 ELSE f[Some(S)] + g[T]
  BY <1>2, Zenon DEF IsTable
<1>5. SumFunctionOnSet(f, S) = g[S] /\ SumFunctionOnSet(f, T) = h[T]
  BY SumFromTable
<1>. HIDE DEF g, h, T
<1>6. SumFunctionOnSet(f, S) =
        IF S = {} THEN 0 ELSE f[Some(S)] + SumFunctionOnSet(f, T)
  BY <1>3, <1>4, <1>5
<1>. QED
  BY <1>6 DEF T

\* Only the values on the set matter.
LEMMA SumAgrees ==
  ASSUME NEW S, IsFiniteSet(S), NEW e, NEW f, Agree(e, f, S)
  PROVE  SumFunctionOnSet(e, S) = SumFunctionOnSet(f, S)
<1>. DEFINE g == CHOOSE g : IsTable(e, S, g)
            h == CHOOSE h : IsTable(f, S, h)
<1>1. IsTable(e, S, g) /\ IsTable(f, S, h)
  BY TableExists
<1>2. SumFunctionOnSet(e, S) = g[S] /\ SumFunctionOnSet(f, S) = h[S]
  BY SumFromTable
<1>. HIDE DEF g, h
<1>3. g[S] = h[S]
  BY <1>1, TablesAgree
<1>. QED
  BY <1>2, <1>3

\* A sum of integers is an integer.
LEMMA SumType ==
  ASSUME NEW S, NEW f, Summable(f, S)
  PROVE  SumFunctionOnSet(f, S) \in Int
<1>. DEFINE C == {T \in SUBSET S : SumFunctionOnSet(f, T) \notin Int}
<1>1. SUFFICES ASSUME C # {} PROVE FALSE
  OBVIOUS
<1>2. PICK T \in C : \A U \in C : ~ (U \subseteq T /\ U # T)
  <2>1. C \in SUBSET SUBSET S /\ IsFiniteSet(S)
    BY DEF Summable
  <2>. HIDE DEF C
  <2>. QED
    BY <1>1, <2>1, LeastSubset
<1>3. IsFiniteSet(T)
  BY FS_Subset DEF Summable
<1>4. T # {}
  BY <1>3, SumUnfolds
<1>5. Some(T) \in T
  BY <1>4 DEF Some
<1>6. SumFunctionOnSet(f, T \ {Some(T)}) \in Int
  BY <1>2, <1>5
<1>7. SumFunctionOnSet(f, T) = f[Some(T)] + SumFunctionOnSet(f, T \ {Some(T)})
  BY <1>3, <1>4, SumUnfolds, Zenon
<1>8. f[Some(T)] \in Int
  BY <1>5 DEF Summable
<1>9. SumFunctionOnSet(f, T) \in Int
  BY <1>6, <1>7, <1>8
<1>. QED
  BY <1>9

\* Any element may be taken out first.
LEMMA SumTakeOut ==
  ASSUME NEW S, NEW f, Summable(f, S), NEW x \in S
  PROVE  SumFunctionOnSet(f, S) = f[x] + SumFunctionOnSet(f, S \ {x})
<1>. DEFINE C == {T \in SUBSET S : \E y \in T :
                   SumFunctionOnSet(f, T) # f[y] + SumFunctionOnSet(f, T \ {y})}
<1>1. SUFFICES ASSUME C # {} PROVE FALSE
  OBVIOUS
<1>2. PICK T \in C : \A U \in C : ~ (U \subseteq T /\ U # T)
  <2>1. C \in SUBSET SUBSET S /\ IsFiniteSet(S)
    BY DEF Summable
  <2>. HIDE DEF C
  <2>. QED
    BY <1>1, <2>1, LeastSubset
<1>3. PICK y \in T :
        SumFunctionOnSet(f, T) # f[y] + SumFunctionOnSet(f, T \ {y})
  OBVIOUS
<1>. DEFINE c == Some(T)
<1>4. c \in T
  BY DEF Some
<1>5. ASSUME NEW U \in SUBSET S PROVE IsFiniteSet(U) /\ Summable(f, U)
  BY FS_Subset DEF Summable
<1>6. SumFunctionOnSet(f, T) = f[c] + SumFunctionOnSet(f, T \ {c})
  BY <1>4, <1>5, SumUnfolds
<1>7. c # y
  BY <1>3, <1>6
<1>8. ASSUME NEW U \in SUBSET T, U # T, NEW z \in U
      PROVE  SumFunctionOnSet(f, U) = f[z] + SumFunctionOnSet(f, U \ {z})
  BY <1>2, <1>8, Zenon
<1>9. /\ SumFunctionOnSet(f, T \ {c}) = f[y] + SumFunctionOnSet(f, (T \ {c}) \ {y})
      /\ SumFunctionOnSet(f, T \ {y}) = f[c] + SumFunctionOnSet(f, (T \ {y}) \ {c})
  <2>1. /\ T \ {c} \in SUBSET T /\ T \ {c} # T /\ y \in T \ {c}
        /\ T \ {y} \in SUBSET T /\ T \ {y} # T /\ c \in T \ {y}
    BY <1>4, <1>7
  <2>. HIDE DEF c, C
  <2>. QED
    BY <1>8, <2>1
<1>. DEFINE rest == SumFunctionOnSet(f, (T \ {c}) \ {y})
<1>10. rest = SumFunctionOnSet(f, (T \ {y}) \ {c})
  <2>1. (T \ {c}) \ {y} = (T \ {y}) \ {c}
    OBVIOUS
  <2>. QED
    BY <2>1, Zenon
<1>11. rest \in Int
  BY <1>5, SumType
<1>12. f[c] \in Int /\ f[y] \in Int
  BY <1>4 DEF Summable
<1>13. SumFunctionOnSet(f, T \ {c}) = f[y] + rest
  BY <1>9
<1>. HIDE DEF c, C, rest
<1>14. SumFunctionOnSet(f, T \ {y}) = f[c] + rest
  BY <1>9, <1>10
<1>. QED
  BY <1>3, <1>6, <1>11, <1>12, <1>13, <1>14

\* Where one value changes the sum changes with it.
LEMMA SumUpdate ==
  ASSUME NEW S, NEW f, NEW g, Summable(f, S), Summable(g, S), NEW x \in S,
         DifferAt(f, g, S, x)
  PROVE  SumFunctionOnSet(g, S) = SumFunctionOnSet(f, S) - f[x] + g[x]
<1>1. IsFiniteSet(S \ {x}) /\ Summable(f, S \ {x})
  BY FS_Subset DEF Summable
<1>2. SumFunctionOnSet(f, S \ {x}) = SumFunctionOnSet(g, S \ {x})
  BY <1>1, SumAgrees DEF DifferAt, Agree
<1>3. /\ SumFunctionOnSet(f, S) = f[x] + SumFunctionOnSet(f, S \ {x})
      /\ SumFunctionOnSet(g, S) = g[x] + SumFunctionOnSet(g, S \ {x})
  BY SumTakeOut
<1>4. SumFunctionOnSet(f, S \ {x}) \in Int /\ f[x] \in Int /\ g[x] \in Int
  BY <1>1, SumType DEF Summable
<1>. QED
  BY <1>2, <1>3, <1>4

\* A sum of smaller values is smaller.
LEMMA SumMonotone ==
  ASSUME NEW S, NEW f, NEW g, Summable(f, S), Summable(g, S),
         \A x \in S : f[x] <= g[x]
  PROVE  SumFunctionOnSet(f, S) <= SumFunctionOnSet(g, S)
<1>. DEFINE C == {T \in SUBSET S :
                   ~ (SumFunctionOnSet(f, T) <= SumFunctionOnSet(g, T))}
<1>1. SUFFICES ASSUME C # {} PROVE FALSE
  OBVIOUS
<1>2. PICK T \in C : \A U \in C : ~ (U \subseteq T /\ U # T)
  <2>1. C \in SUBSET SUBSET S /\ IsFiniteSet(S)
    BY DEF Summable
  <2>. HIDE DEF C
  <2>. QED
    BY <1>1, <2>1, LeastSubset
<1>3. ASSUME NEW U \in SUBSET S
      PROVE  /\ IsFiniteSet(U)
             /\ SumFunctionOnSet(f, U) \in Int /\ SumFunctionOnSet(g, U) \in Int
  <2>1. Summable(f, U) /\ Summable(g, U)
    BY FS_Subset DEF Summable
  <2>. QED
    BY <2>1, SumType DEF Summable
<1>4. T # {}
  <2>1. SUFFICES ASSUME T = {} PROVE FALSE
    OBVIOUS
  <2>2. SumFunctionOnSet(f, T) = 0 /\ SumFunctionOnSet(g, T) = 0
    BY <1>3, <2>1, SumUnfolds
  <2>. QED
    BY <2>2
<1>. DEFINE c == Some(T)
            U == T \ {c}
<1>5. c \in T
  BY <1>4 DEF Some
<1>6. SumFunctionOnSet(f, U) <= SumFunctionOnSet(g, U)
  BY <1>2, <1>5
<1>7. /\ SumFunctionOnSet(f, T) = f[c] + SumFunctionOnSet(f, U)
      /\ SumFunctionOnSet(g, T) = g[c] + SumFunctionOnSet(g, U)
  BY <1>3, <1>4, SumUnfolds, Zenon
<1>8. f[c] \in Int /\ g[c] \in Int /\ f[c] <= g[c]
  BY <1>5 DEF Summable
<1>9. SumFunctionOnSet(f, U) \in Int /\ SumFunctionOnSet(g, U) \in Int
  BY <1>3
<1>10. ~ (SumFunctionOnSet(f, T) <= SumFunctionOnSet(g, T))
  OBVIOUS
<1>. HIDE DEF c, U, C
<1>. QED
  BY <1>6, <1>7, <1>8, <1>9, <1>10

\* A sum of zeros is zero.
LEMMA SumOfZeros ==
  ASSUME NEW S, IsFiniteSet(S)
  PROVE  SumFunctionOnSet([x \in S |-> 0], S) = 0
<1>. DEFINE f == [x \in S |-> 0]
            C == {T \in SUBSET S : SumFunctionOnSet(f, T) # 0}
<1>1. SUFFICES ASSUME C # {} PROVE FALSE
  OBVIOUS
<1>2. PICK T \in C : \A U \in C : ~ (U \subseteq T /\ U # T)
  <2>1. C \in SUBSET SUBSET S
    OBVIOUS
  <2>. HIDE DEF C
  <2>. QED
    BY <1>1, <2>1, LeastSubset
<1>3. IsFiniteSet(T)
  BY FS_Subset
<1>. HIDE DEF f
<1>4. T # {} /\ SumFunctionOnSet(f, T) # 0
  BY <1>3, SumUnfolds
<1>5. Some(T) \in T
  BY <1>4 DEF Some
<1>6. f[Some(T)] = 0
  BY <1>5 DEF f
<1>7. SumFunctionOnSet(f, T \ {Some(T)}) = 0
  BY <1>2, <1>5
<1>. QED
  BY <1>3, <1>4, <1>6, <1>7, SumUnfolds

\* A sum of natural numbers is one.
LEMMA SumNat ==
  ASSUME NEW S, IsFiniteSet(S), NEW f, \A x \in S : f[x] \in Nat
  PROVE  SumFunctionOnSet(f, S) \in Nat
<1>. DEFINE z == [x \in S |-> 0]
<1>1. Summable(z, S) /\ Summable(f, S) /\ \A x \in S : z[x] <= f[x]
  BY DEF Summable
<1>2. SumFunctionOnSet(z, S) = 0
  BY SumOfZeros
<1>. HIDE DEF z
<1>3. SumFunctionOnSet(z, S) <= SumFunctionOnSet(f, S)
  BY <1>1, SumMonotone
<1>4. SumFunctionOnSet(f, S) \in Int
  BY <1>1, SumType
<1>. QED
  BY <1>2, <1>3, <1>4
=============================================================================
