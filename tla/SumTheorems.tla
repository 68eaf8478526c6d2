---------------------------- MODULE SumTheorems ----------------------------
(***************************************************************************)
(* Facts about sums over finite sets of indices (SumFunctionOnSet), which  *)
(* the budgets and counters of the models are stated with.  A sum of       *)
(* natural numbers is the number of pairs <<x, i>> with i in 1 .. f[x]: the *)
(* library's facts about cardinalities then yield those about sums, and    *)
(* only the equation between the two needs an induction.                   *)
(***************************************************************************)
EXTENDS Integers, FiniteSets, Functions, FiniteSetTheorems, FunctionTheorems,
        WellFoundedInduction, TLAPS

Units(f, S) == UNION {{x} \X (1 .. f[x]) : x \in S}

\* The units of finitely many natural numbers are finitely many.
LEMMA UnitsFinite ==
    ASSUME NEW S, IsFiniteSet(S), NEW f, \A x \in S : f[x] \in Nat
    PROVE  IsFiniteSet(Units(f, S)) /\ Cardinality(Units(f, S)) \in Nat
  <1> DEFINE g == [x \in S |-> {x} \X (1 .. f[x])]
             T == {{x} \X (1 .. f[x]) : x \in S}
  <1>1. g \in Surjection(S, T)
    BY DEF Surjection
  <1>2. IsFiniteSet(T)
    BY <1>1, FS_Surjection
  <1>3. \A u \in T : IsFiniteSet(u)
    <2>1. ASSUME NEW x \in S PROVE IsFiniteSet({x} \X (1 .. f[x]))
      <3>1. 1 \in Int /\ f[x] \in Int
        OBVIOUS
      <3>2. IsFiniteSet({x}) /\ IsFiniteSet(1 .. f[x])
        BY <3>1, FS_Singleton, FS_Interval
      <3> QED
        BY <3>2, FS_Product
    <2> QED
      BY <2>1
  <1>4. IsFiniteSet(UNION T)
    BY <1>2, <1>3, FS_UNION
  <1> QED
    BY <1>4, FS_CardinalityType DEF Units

\* One index contributes its value.
LEMMA UnitsStep ==
    ASSUME NEW S, IsFiniteSet(S), NEW f, \A x \in S : f[x] \in Nat, NEW x \in S
    PROVE  Cardinality(Units(f, S)) = f[x] + Cardinality(Units(f, S \ {x}))
  <1> DEFINE A == {x} \X (1 .. f[x])
             B == Units(f, S \ {x})
  <1>1. IsFiniteSet(A) /\ Cardinality(A) = f[x]
    <2>1. f[x] \in Nat
      OBVIOUS
    <2>2. IsFiniteSet(1 .. f[x]) /\ Cardinality(1 .. f[x]) = f[x]
      <3>1. 1 \in Int /\ f[x] \in Int /\ (IF 1 > f[x] THEN 0 ELSE f[x] - 1 + 1) = f[x]
        BY <2>1
      <3> QED
        BY <3>1, FS_Interval, Zenon
    <2>3. IsFiniteSet({x}) /\ Cardinality({x}) = 1
      BY FS_Singleton
    <2> QED
      <3>1. 1 * f[x] = f[x]
        BY <2>1
      <3> QED
        BY <2>1, <2>2, <2>3, <3>1, FS_Product, SMTT(30)
  <1>2. IsFiniteSet(B) /\ Cardinality(B) \in Nat
    <2>1. IsFiniteSet(S \ {x}) /\ \A y \in S \ {x} : f[y] \in Nat
      BY FS_RemoveElement
    <2> QED
      BY <2>1, UnitsFinite
  <1>3. A \cap B = {} /\ Units(f, S) = A \cup B
    BY DEF Units
  <1>4. Cardinality(A \cup B) = Cardinality(A) + Cardinality(B) - Cardinality(A \cap B)
    BY <1>1, <1>2, FS_Union
  <1>5. Cardinality(A \cap B) = 0
    BY <1>3, FS_EmptySet
  <1> HIDE DEF A
  <1> QED
    BY <1>1, <1>2, <1>3, <1>4, <1>5

\* What a fold over the subsets of S computes, one index at a time.
IsFold(h, f, S) ==
    h = [s \in SUBSET S |->
            IF s = {} THEN 0
            ELSE f[CHOOSE x \in s : TRUE] + h[s \ {CHOOSE x \in s : TRUE}]]

\* Counting units is such a fold.
LEMMA UnitsFold ==
    ASSUME NEW S, IsFiniteSet(S), NEW f, \A x \in S : f[x] \in Nat
    PROVE  IsFold([s \in SUBSET S |-> Cardinality(Units(f, s))], f, S)
  <1> DEFINE h == [s \in SUBSET S |-> Cardinality(Units(f, s))]
  <1>1. ASSUME NEW s \in SUBSET S
        PROVE  h[s] = IF s = {} THEN 0
                      ELSE f[CHOOSE x \in s : TRUE] + h[s \ {CHOOSE x \in s : TRUE}]
    <2>1. CASE s = {}
      <3>1. Units(f, s) = {}
        BY <2>1 DEF Units
      <3> QED
        BY <2>1, <3>1, FS_EmptySet
    <2>2. CASE s # {}
      <3> DEFINE c == CHOOSE x \in s : TRUE
      <3>1. c \in s
        BY <2>2
      <3>2. IsFiniteSet(s) /\ \A x \in s : f[x] \in Nat
        BY FS_Subset
      <3> HIDE DEF c
      <3>3. Cardinality(Units(f, s)) = f[c] + Cardinality(Units(f, s \ {c}))
        BY <3>1, <3>2, UnitsStep
      <3>4. h[s] = f[c] + h[s \ {c}]
        BY <3>3
      <3> QED
        BY <2>2, <3>4 DEF c
    <2> QED
      BY <2>1, <2>2
  <1> HIDE DEF h
  <1>2. h = [s \in SUBSET S |-> h[s]]
    BY DEF h
  <1> QED
    BY <1>1, <1>2 DEF IsFold, h

\* There is one such fold: of two, take a smallest set they differ at.
LEMMA FoldUnique ==
    ASSUME NEW S, IsFiniteSet(S), NEW f, NEW g, NEW h, IsFold(g, f, S), IsFold(h, f, S)
    PROVE  g[S] = h[S]
  <1> DEFINE T == {s \in FiniteSubsetsOf(S) : g[s] # h[s]}
             R == StrictSubsetOrdering(S)
  <1>1. SUFFICES ASSUME g[S] # h[S] PROVE FALSE
    OBVIOUS
  <1>2. S \in T
    BY <1>1 DEF FiniteSubsetsOf
  <1>3. IsWellFoundedOn(R, FiniteSubsetsOf(S))
    BY FS_StrictSubsetOrderingWellFounded
  <1>4. PICK s \in T : \A t \in T : ~ (<<t, s>> \in R)
    BY <1>2, <1>3, WFMin, Zenon
  <1>5. s \in SUBSET S /\ IsFiniteSet(s)
    BY FS_Subset DEF FiniteSubsetsOf
  <1> DEFINE c == CHOOSE x \in s : TRUE
  <1>6. /\ g[s] = IF s = {} THEN 0 ELSE f[c] + g[s \ {c}]
        /\ h[s] = IF s = {} THEN 0 ELSE f[c] + h[s \ {c}]
    BY <1>5 DEF IsFold
  <1>7. s # {}
    BY <1>6
  <1>8. c \in s
    BY <1>7
  <1> HIDE DEF c
  <1>9. s \ {c} \in SUBSET S /\ IsFiniteSet(s \ {c}) /\ s \ {c} \subseteq s /\ s \ {c} # s
    BY <1>5, <1>8, FS_RemoveElement
  <1>10. <<s \ {c}, s>> \in R
    BY <1>5, <1>9 DEF StrictSubsetOrdering
  <1>11. s \ {c} \notin T
    BY <1>4, <1>10
  <1>12. g[s \ {c}] = h[s \ {c}]
    BY <1>9, <1>11 DEF FiniteSubsetsOf
  <1> QED
    BY <1>6, <1>7, <1>12

\* A sum is what any such fold computes.
LEMMA SumIsFold ==
    ASSUME NEW S, IsFiniteSet(S), NEW f, NEW h, IsFold(h, f, S)
    PROVE  SumFunctionOnSet(f, S) = h[S]
  <1> DEFINE g == CHOOSE k : IsFold(k, f, S)
  <1>1. IsFold(g, f, S)
    OBVIOUS
  <1>2. g[S] = h[S]
    BY <1>1, FoldUnique
  <1>3. SumFunctionOnSet(f, S) = g[S]
    BY DEF SumFunctionOnSet, FoldFunctionOnSet, MapThenFoldSet, IsFold
  <1> QED
    BY <1>2, <1>3

\* A sum of natural numbers is the number of their units.
LEMMA SumIsUnits ==
    ASSUME NEW S, IsFiniteSet(S), NEW f, \A x \in S : f[x] \in Nat
    PROVE  /\ SumFunctionOnSet(f, S) = Cardinality(Units(f, S))
           /\ SumFunctionOnSet(f, S) \in Nat
  <1> DEFINE h == [s \in SUBSET S |-> Cardinality(Units(f, s))]
  <1>1. IsFold(h, f, S)
    BY UnitsFold
  <1>2. SumFunctionOnSet(f, S) = h[S]
    BY <1>1, SumIsFold
  <1> QED
    BY <1>2, UnitsFinite

\* The empty sum.
LEMMA SumEmpty ==
    ASSUME NEW f
    PROVE  SumFunctionOnSet(f, {}) = 0
  <1>1. Units(f, {}) = {}
    BY DEF Units
  <1> QED
    BY <1>1, SumIsUnits, FS_EmptySet

\* A sum is one of its terms and the sum of the others.
LEMMA SumRemove ==
    ASSUME NEW S, IsFiniteSet(S), NEW f, \A x \in S : f[x] \in Nat, NEW x \in S
    PROVE  SumFunctionOnSet(f, S) = f[x] + SumFunctionOnSet(f, S \ {x})
  <1>1. IsFiniteSet(S \ {x})
    BY FS_RemoveElement
  <1> QED
    BY <1>1, SumIsUnits, UnitsStep

\* A sum grows with its terms and with the set of its indices.
LEMMA SumMonotone ==
    ASSUME NEW S, IsFiniteSet(S), NEW T \in SUBSET S, NEW f, NEW g,
           \A x \in S : g[x] \in Nat,
           \A x \in T : f[x] \in Nat /\ f[x] <= g[x]
    PROVE  SumFunctionOnSet(f, T) <= SumFunctionOnSet(g, S)
  <1>1. IsFiniteSet(T)
    BY FS_Subset
  <1>2. Units(f, T) \subseteq Units(g, S)
    BY DEF Units
  <1>3. Cardinality(Units(f, T)) <= Cardinality(Units(g, S))
    BY <1>2, UnitsFinite, FS_Subset
  <1> QED
    BY <1>1, <1>3, SumIsUnits

\* A sum depends on the values at its indices only.
LEMMA SumSame ==
    ASSUME NEW S, IsFiniteSet(S), NEW f, NEW g,
           \A x \in S : f[x] \in Nat /\ f[x] = g[x]
    PROVE  SumFunctionOnSet(f, S) = SumFunctionOnSet(g, S)
  <1>1. Units(f, S) = Units(g, S)
    BY DEF Units
  <1> QED
    BY <1>1, SumIsUnits

\* A sum one of whose terms changes moves with that term.
LEMMA SumChange ==
    ASSUME NEW S, IsFiniteSet(S), NEW f, NEW g, NEW j, f[j] \in Nat, g[j] \in Nat,
           \A x \in S : f[x] \in Nat /\ g[x] \in Nat,
           \A x \in S \ {j} : g[x] = f[x]
    PROVE  /\ SumFunctionOnSet(f, S) \in Nat /\ SumFunctionOnSet(g, S) \in Nat
           /\ j \in S => SumFunctionOnSet(g, S) + f[j] = SumFunctionOnSet(f, S) + g[j]
           /\ j \notin S => SumFunctionOnSet(g, S) = SumFunctionOnSet(f, S)
  <1>1. SumFunctionOnSet(f, S) \in Nat /\ SumFunctionOnSet(g, S) \in Nat
    BY SumIsUnits
  <1>2. ASSUME j \in S
        PROVE  SumFunctionOnSet(g, S) + f[j] = SumFunctionOnSet(f, S) + g[j]
    <2>1. IsFiniteSet(S \ {j})
      BY FS_RemoveElement
    <2>2. SumFunctionOnSet(f, S \ {j}) = SumFunctionOnSet(g, S \ {j})
      BY <2>1, SumSame
    <2>3. SumFunctionOnSet(f, S \ {j}) \in Nat
      BY <2>1, SumIsUnits
    <2>4. /\ SumFunctionOnSet(f, S) = f[j] + SumFunctionOnSet(f, S \ {j})
          /\ SumFunctionOnSet(g, S) = g[j] + SumFunctionOnSet(g, S \ {j})
      BY <1>2, SumRemove
    <2> QED
      BY <2>2, <2>3, <2>4
  <1>3. ASSUME j \notin S PROVE SumFunctionOnSet(g, S) = SumFunctionOnSet(f, S)
    BY <1>3, SumSame
  <1> QED
    BY <1>1, <1>2, <1>3

\* A sum exceeds another by at most the number of indices at which its terms
\* exceed the other's by one.
LEMMA SumExcess ==
    ASSUME NEW S, IsFiniteSet(S), NEW T \in SUBSET S, NEW U \in SUBSET S, NEW f, NEW g,
           \A x \in S : g[x] \in Nat,
           \A x \in T : /\ f[x] \in Nat
                        /\ f[x] <= g[x] + 1
                        /\ x \notin U => f[x] <= g[x]
    PROVE  SumFunctionOnSet(f, T) <= SumFunctionOnSet(g, S) + Cardinality(U)
  <1> DEFINE h == [x \in U |-> <<x, g[x] + 1>>]
             E == {<<x, g[x] + 1>> : x \in U}
  <1>1. IsFiniteSet(T) /\ IsFiniteSet(U) /\ Cardinality(U) \in Nat
    BY FS_Subset, FS_CardinalityType
  <1>2. h \in Surjection(U, E)
    BY DEF Surjection
  <1>3. IsFiniteSet(E) /\ Cardinality(E) <= Cardinality(U)
    BY <1>1, <1>2, FS_Surjection
  <1>4. Units(f, T) \subseteq Units(g, S) \cup E
    <2> SUFFICES ASSUME NEW x \in T, NEW i \in 1 .. f[x]
                 PROVE  <<x, i>> \in Units(g, S) \cup E
      BY DEF Units
    <2>1. CASE i <= g[x]
      BY <2>1 DEF Units
    <2>2. CASE ~(i <= g[x])
      BY <2>2
    <2> QED
      BY <2>1, <2>2
  <1>5. /\ IsFiniteSet(Units(g, S)) /\ Cardinality(Units(g, S)) \in Nat
        /\ Cardinality(Units(f, T)) \in Nat
    BY <1>1, UnitsFinite
  <1>6. Cardinality(E) \in Nat
    BY <1>3, FS_CardinalityType
  <1> HIDE DEF E, h
  <1>7. /\ IsFiniteSet(Units(g, S) \cup E)
        /\ Cardinality(Units(g, S) \cup E) <= Cardinality(Units(g, S)) + Cardinality(E)
    <2>1. IsFiniteSet(Units(g, S) \cap E)
      BY <1>3, FS_Intersection
    <2>2. Cardinality(Units(g, S) \cap E) \in Nat
      BY <2>1, FS_CardinalityType
    <2>3. /\ IsFiniteSet(Units(g, S) \cup E)
          /\ Cardinality(Units(g, S) \cup E)
               = Cardinality(Units(g, S)) + Cardinality(E) - Cardinality(Units(g, S) \cap E)
      BY <1>3, <1>5, FS_Union
    <2> QED
      BY <1>5, <1>6, <2>2, <2>3
  <1>8. Cardinality(Units(f, T)) <= Cardinality(Units(g, S) \cup E)
    BY <1>4, <1>7, FS_Subset
  <1>9. Cardinality(Units(g, S) \cup E) \in Nat
    BY <1>7, FS_CardinalityType
  <1>10. /\ SumFunctionOnSet(f, T) = Cardinality(Units(f, T))
         /\ SumFunctionOnSet(g, S) = Cardinality(Units(g, S))
    BY <1>1, SumIsUnits
  <1> QED
    BY <1>1, <1>3, <1>5, <1>6, <1>7, <1>8, <1>9, <1>10

\* The cardinality of a union of disjoint sets is the sum of theirs.
LEMMA SumOfParts ==
    ASSUME NEW S, IsFiniteSet(S), NEW D, NEW f,
           \A x \in S : IsFiniteSet(D[x]) /\ f[x] = Cardinality(D[x]),
           \A x, y \in S : x # y => D[x] \cap D[y] = {}
    PROVE  /\ IsFiniteSet(UNION {D[x] : x \in S})
           /\ Cardinality(UNION {D[x] : x \in S}) = SumFunctionOnSet(f, S)
  <1> DEFINE U(T) == UNION {D[x] : x \in T}
             h == [T \in SUBSET S |-> Cardinality(U(T))]
  <1>1. ASSUME NEW T \in SUBSET S
        PROVE  IsFiniteSet(T) /\ IsFiniteSet(U(T))
    <2> DEFINE g == [x \in T |-> D[x]]
    <2>1. IsFiniteSet(T)
      BY FS_Subset
    <2>2. g \in Surjection(T, {D[x] : x \in T})
      BY DEF Surjection
    <2>3. IsFiniteSet({D[x] : x \in T})
      BY <2>1, <2>2, FS_Surjection
    <2>4. \A d \in {D[x] : x \in T} : IsFiniteSet(d)
      OBVIOUS
    <2> QED
      BY <2>1, <2>3, <2>4, FS_UNION
  <1>2. ASSUME NEW T \in SUBSET S, NEW x \in T
        PROVE  h[T] = f[x] + h[T \ {x}]
    <2>1. U(T) = D[x] \cup U(T \ {x}) /\ D[x] \cap U(T \ {x}) = {}
      OBVIOUS
    <2>2. IsFiniteSet(D[x]) /\ IsFiniteSet(U(T \ {x}))
      BY <1>1
    <2>3. Cardinality(U(T \ {x})) \in Nat /\ Cardinality(D[x]) \in Nat
      BY <2>2, FS_CardinalityType
    <2>4. Cardinality(D[x] \cup U(T \ {x}))
            = Cardinality(D[x]) + Cardinality(U(T \ {x})) - Cardinality(D[x] \cap U(T \ {x}))
      BY <2>2, FS_Union
    <2>5. Cardinality(D[x] \cap U(T \ {x})) = 0
      BY <2>1, FS_EmptySet
    <2>6. Cardinality(U(T)) = f[x] + Cardinality(U(T \ {x}))
      <3> HIDE DEF U
      <3> QED
        BY <2>1, <2>3, <2>4, <2>5
    <2> QED
      BY <2>6
  <1>3. h[{}] = 0
    <2>1. U({}) = {}
      OBVIOUS
    <2> QED
      BY <2>1, FS_EmptySet
  <1>4. IsFold(h, f, S)
    <2>1. ASSUME NEW T \in SUBSET S
          PROVE  h[T] = IF T = {} THEN 0
                        ELSE f[CHOOSE x \in T : TRUE] + h[T \ {CHOOSE x \in T : TRUE}]
      <3> DEFINE c == CHOOSE x \in T : TRUE
      <3>1. T # {} => c \in T
        OBVIOUS
      <3> HIDE DEF c, h
      <3>2. T # {} => h[T] = f[c] + h[T \ {c}]
        BY <1>2, <3>1
      <3> QED
        BY <1>3, <3>2 DEF c
    <2>2. h = [T \in SUBSET S |-> h[T]]
      OBVIOUS
    <2> HIDE DEF h
    <2> QED
      BY <2>1, <2>2 DEF IsFold
  <1>5. SumFunctionOnSet(f, S) = h[S]
    BY <1>4, SumIsFold
  <1> QED
    BY <1>1, <1>5

\* The sum over two disjoint sets is the sum of their sums.
LEMMA SumSplit ==
    ASSUME NEW A, IsFiniteSet(A), NEW B, IsFiniteSet(B), A \cap B = {},
           NEW f, \A x \in A \cup B : f[x] \in Nat
    PROVE  SumFunctionOnSet(f, A \cup B) = SumFunctionOnSet(f, A) + SumFunctionOnSet(f, B)
  <1>1. IsFiniteSet(A \cup B)
    BY FS_Union
  <1>2. /\ SumFunctionOnSet(f, A) = Cardinality(Units(f, A))
        /\ SumFunctionOnSet(f, B) = Cardinality(Units(f, B))
        /\ SumFunctionOnSet(f, A \cup B) = Cardinality(Units(f, A \cup B))
    BY <1>1, SumIsUnits
  <1> DEFINE X == Units(f, A)
             Y == Units(f, B)
  <1>3. /\ IsFiniteSet(X) /\ Cardinality(X) \in Nat
        /\ IsFiniteSet(Y) /\ Cardinality(Y) \in Nat
    BY UnitsFinite
  <1>4. Units(f, A \cup B) = X \cup Y /\ X \cap Y = {}
    BY DEF Units
  <1> HIDE DEF X, Y
  <1>5. Cardinality(X \cup Y) = Cardinality(X) + Cardinality(Y) - Cardinality(X \cap Y)
    BY <1>3, FS_Union
  <1>6. Cardinality(X \cap Y) = 0
    BY <1>4, FS_EmptySet
  <1>7. Cardinality(X \cup Y) = Cardinality(X) + Cardinality(Y)
    BY <1>3, <1>5, <1>6
  <1> QED
    BY <1>2, <1>4, <1>7 DEF X, Y

\* Equal numbers add up to a multiple.
LEMMA SumConstant ==
    ASSUME NEW S, IsFiniteSet(S), NEW c \in Nat, NEW f, \A x \in S : f[x] = c
    PROVE  SumFunctionOnSet(f, S) = Cardinality(S) * c
  <1>1. SumFunctionOnSet(f, S) = Cardinality(Units(f, S))
    BY SumIsUnits
  <1>2. Units(f, S) = S \X (1 .. c)
    BY DEF Units
  <1>3. IsFiniteSet(1 .. c) /\ Cardinality(1 .. c) = c
    <2>1. 1 \in Int /\ c \in Int /\ (IF 1 > c THEN 0 ELSE c - 1 + 1) = c
      OBVIOUS
    <2> QED
      BY <2>1, FS_Interval, Zenon
  <1>4. Cardinality(S \X (1 .. c)) = Cardinality(S) * Cardinality(1 .. c)
    BY <1>3, FS_Product
  <1> QED
    BY <1>1, <1>2, <1>3, <1>4
=============================================================================
