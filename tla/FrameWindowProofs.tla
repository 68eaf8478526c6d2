-------------------------- MODULE FrameWindowProofs -------------------------
(***************************************************************************)
(* A round of the frame window is exact for every sequence of frames, every*)
(* window and every ratio: the row, the records and the visible counts stay*)
(* in step, and the round leaves nothing that another would take.          *)
(*                                                                         *)
(* The first half proves what plan_frame_window and _degraded_new_records  *)
(* compute (PlanFits, DegradedFits) without the row; the second that every *)
(* plan that fits keeps the invariant when it is applied (ApplyStep).      *)
(***************************************************************************)
EXTENDS FrameWindow, WindowPlan, SequenceTheorems, FiniteSetTheorems, SumTheorems, TLAPS

-----------------------------------------------------------------------------
(* Numbers, prefixes and ranks.                                            *)

\* The remainder of a division is less than the divisor.
LEMMA DivBounds ==
    ASSUME NEW a \in Nat, NEW r \in Nat \ {0}
    PROVE  /\ a \div r \in Nat
           /\ (a \div r) * r \in Nat
           /\ (a \div r) * r <= a
           /\ a < (a \div r) * r + r
  OBVIOUS

\* Less than a divisor is none of it.
LEMMA NoChunk ==
    ASSUME NEW a \in Nat, NEW r \in Nat \ {0}, a < r
    PROVE  a \div r = 0
  <1> DEFINE q == a \div r
  <1>1. q \in Nat /\ q * r \in Nat /\ q * r <= a
    BY DivBounds
  <1> HIDE DEF q
  <1>2. ASSUME q > 0 PROVE FALSE
    <2>1. q - 1 \in Nat /\ \A x, y \in Nat : x * r \in Nat /\ (x + y) * r = x * r + y * r
      BY <1>1, <1>2
    <2>2. (1 + (q - 1)) * r = 1 * r + (q - 1) * r /\ (q - 1) * r \in Nat /\ 1 * r = r
      BY <2>1
    <2>3. 1 + (q - 1) = q
      BY <1>1
    <2> QED
      BY <1>1, <2>2, <2>3
  <1> QED
    BY <1>1, <1>2 DEF q

\* Disjoint intervals of one length end in their order.
LEMMA EndsInOrder ==
    ASSUME NEW v \in Nat, NEW x \in Nat, NEW y \in Nat, NEW r \in Nat \ {0}, x + r <= y
    PROVE  v + (x + r) < v + (y + r)
  OBVIOUS

\* Multiples of r are at least r apart.
LEMMA MultiplesApart ==
    ASSUME NEW j \in Nat, NEW k \in Nat, NEW r \in Nat, j < k
    PROVE  /\ j * r \in Nat /\ (k - 1) * r \in Nat /\ k * r \in Nat
           /\ (k - 1) * r + r = k * r
           /\ j * r <= (k - 1) * r
  <1>1. k - 1 \in Nat /\ j <= k - 1
    OBVIOUS
  <1>2. \A x, y \in Nat : x * r \in Nat /\ (x + y) * r = x * r + y * r
    OBVIOUS
  <1>3. (k - 1) * r + r = k * r
    <2>1. ((k - 1) + 1) * r = (k - 1) * r + 1 * r
      BY <1>1, <1>2
    <2> QED
      BY <2>1
  <1>4. (j + (k - 1 - j)) * r = j * r + (k - 1 - j) * r
    BY <1>1, <1>2
  <1>5. (k - 1 - j) * r \in Nat
    BY <1>1, <1>2
  <1>6. j + (k - 1 - j) = k - 1
    OBVIOUS
  <1> QED
    BY <1>1, <1>2, <1>3, <1>4, <1>5, <1>6

\* There are n numbers after a up to a + n.
LEMMA IntervalSize ==
    ASSUME NEW a \in Nat, NEW n \in Nat
    PROVE  IsFiniteSet(a + 1 .. a + n) /\ Cardinality(a + 1 .. a + n) = n
  <1> DEFINE b == a + 1
             c == a + n
  <1>1. b \in Int /\ c \in Int /\ (IF b > c THEN 0 ELSE c - b + 1) = n
    OBVIOUS
  <1> HIDE DEF b, c
  <1>2. IsFiniteSet(b .. c) /\ Cardinality(b .. c) = n
    BY <1>1, FS_Interval
  <1> QED
    BY <1>2 DEF b, c

\* A set of numbers with every smaller one is an interval.
LEMMA Initial ==
    ASSUME NEW n \in Nat, NEW S \in SUBSET (1 .. n), \A i \in S : 1 .. i \subseteq S
    PROVE  Cardinality(S) \in 0 .. n /\ S = 1 .. Cardinality(S)
  <1> DEFINE c == Cardinality(S)
  <1>1. IsFiniteSet(1 .. n) /\ Cardinality(1 .. n) = n
    BY FS_Interval
  <1>2. IsFiniteSet(S) /\ c \in Nat /\ c <= n
    BY <1>1, FS_Subset, FS_CardinalityType, ZenonT(60)
  <1>3. ASSUME NEW i \in S PROVE i \in 1 .. c
    <2>1. 1 .. i \in SUBSET S
      OBVIOUS
    <2>2. Cardinality(1 .. i) <= c
      BY <1>2, <2>1, FS_Subset
    <2>3. i \in Nat \ {0}
      OBVIOUS
    <2>4. Cardinality(1 .. i) = i
      BY <2>3, FS_Interval
    <2> QED
      BY <1>2, <2>2, <2>3, <2>4
  <1>4. IsFiniteSet(1 .. c) /\ Cardinality(1 .. c) = c
    BY <1>2, FS_Interval
  <1>5. S \in SUBSET (1 .. c)
    BY <1>3
  <1>6. 1 .. c = S
    BY <1>4, <1>5, FS_Subset
  <1> QED
    BY <1>2, <1>6

\* How many of the first n numbers are in B before the first that is not.
LEMMA Prefix ==
    ASSUME NEW n \in Nat, NEW B, NEW a,
           a = Cardinality({m \in 1 .. n : \A i \in 1 .. m : i \in B})
    PROVE  /\ a \in 0 .. n
           /\ \A i \in 1 .. a : i \in B
           /\ a < n => a + 1 \notin B
  <1> DEFINE S == {m \in 1 .. n : \A i \in 1 .. m : i \in B}
  <1>1. S \in SUBSET (1 .. n) /\ \A i \in S : 1 .. i \subseteq S
    OBVIOUS
  <1>2. a \in 0 .. n /\ S = 1 .. a
    BY <1>1, Initial
  <1>3. \A i \in 1 .. a : i \in B
    BY <1>2
  <1>4. ASSUME a < n, a + 1 \in B PROVE FALSE
    <2>1. \A i \in 1 .. a + 1 : i \in B
      BY <1>2, <1>3, <1>4
    <2>2. a + 1 \in S
      BY <1>2, <1>4, <2>1
    <2>3. a + 1 \in 1 .. a
      BY <1>2, <2>2
    <2> QED
      BY <1>2, <2>3
  <1> QED
    BY <1>2, <1>3, <1>4

\* The position of k in S.
Position(S, k) == Cardinality({j \in S : j <= k})

\* Greater numbers come later.
LEMMA PositionGrows ==
    ASSUME NEW S \in SUBSET Nat, IsFiniteSet(S), NEW j \in S, NEW k \in S, j < k
    PROVE  Position(S, j) \in Nat /\ Position(S, k) \in Nat /\ Position(S, j) < Position(S, k)
  <1> DEFINE A == {i \in S : i <= j}
             B == {i \in S : i <= k}
  <1>1. IsFiniteSet(A) /\ IsFiniteSet(B)
    BY FS_Subset
  <1>2. k \notin A
    OBVIOUS
  <1>3. IsFiniteSet(A \cup {k}) /\ Cardinality(A \cup {k}) = Cardinality(A) + 1
    BY <1>1, <1>2, FS_AddElement
  <1>4. A \cup {k} \subseteq B
    <2>1. \A i \in S : i <= j => i <= k
      OBVIOUS
    <2>2. k <= k
      OBVIOUS
    <2> QED
      BY <2>1, <2>2
  <1>5. Cardinality(A \cup {k}) <= Cardinality(B)
    BY <1>1, <1>4, FS_Subset
  <1>6. Cardinality(A) \in Nat /\ Cardinality(B) \in Nat
    BY <1>1, FS_CardinalityType
  <1> QED
    BY <1>3, <1>5, <1>6 DEF Position

\* Positions are 1 .. Cardinality(S), each taken once.
LEMMA PositionTaken ==
    ASSUME NEW S \in SUBSET Nat, IsFiniteSet(S)
    PROVE  /\ Cardinality(S) \in Nat
           /\ \A k \in S : Position(S, k) \in 1 .. Cardinality(S)
           /\ \A n \in 1 .. Cardinality(S) : \E k \in S : Position(S, k) = n
  <1> DEFINE c == Cardinality(S)
             f == [k \in S |-> Position(S, k)]
  <1>1. c \in Nat
    BY FS_CardinalityType
  <1>2. ASSUME NEW k \in S PROVE Position(S, k) \in 1 .. c
    <2> DEFINE A == {i \in S : i <= k}
    <2>1. IsFiniteSet(A) /\ Cardinality(A) <= c
      BY FS_Subset
    <2>2. {k} \in SUBSET A
      OBVIOUS
    <2>3. Cardinality({k}) <= Cardinality(A) /\ Cardinality({k}) = 1
      BY <2>1, <2>2, FS_Subset, FS_Singleton
    <2>4. Cardinality(A) \in Nat
      BY <2>1, FS_CardinalityType
    <2> QED
      BY <1>1, <2>1, <2>3, <2>4 DEF Position
  <1>3. f \in Injection(S, 1 .. c)
    <2>1. \A j, k \in S : f[j] = f[k] => j = k
      <3> TAKE j, k \in S
      <3>1. j < k \/ k < j \/ j = k
        OBVIOUS
      <3> QED
        BY <3>1, PositionGrows
    <2>2. f \in [S -> 1 .. c]
      BY <1>2
    <2> QED
      BY <2>1, <2>2 DEF Injection, IsInjective
  <1>4. IsFiniteSet(1 .. c) /\ Cardinality(1 .. c) = c
    BY <1>1, FS_Interval
  <1>5. f \in Surjection(S, 1 .. c)
    BY <1>3, <1>4, FS_Injection
  <1>6. \A n \in 1 .. c : \E k \in S : f[k] = n
    BY <1>5 DEF Surjection
  <1> QED
    BY <1>1, <1>2, <1>6

\* Nth enumerates S in increasing order.
LEMMA NthIs ==
    ASSUME NEW S \in SUBSET Nat, IsFiniteSet(S)
    PROVE  /\ Cardinality(S) \in Nat
           /\ \A n \in 1 .. Cardinality(S) :
                  Nth(S, n) \in S /\ Position(S, Nth(S, n)) = n
           /\ \A k \in S : /\ Position(S, k) \in 1 .. Cardinality(S)
                           /\ Nth(S, Position(S, k)) = k
           /\ \A m, n \in 1 .. Cardinality(S) : m < n => Nth(S, m) < Nth(S, n)
  <1> DEFINE c == Cardinality(S)
  <1>1. /\ c \in Nat
        /\ \A k \in S : Position(S, k) \in 1 .. c
        /\ \A n \in 1 .. c : \E k \in S : Position(S, k) = n
    BY PositionTaken
  <1>2. ASSUME NEW n \in 1 .. c PROVE Nth(S, n) \in S /\ Position(S, Nth(S, n)) = n
    <2>1. \E k \in S : Cardinality({j \in S : j <= k}) = n
      BY <1>1 DEF Position
    <2> QED
      BY <2>1 DEF Nth, Position
  <1>3. ASSUME NEW j \in S, NEW k \in S, Position(S, j) = Position(S, k) PROVE j = k
    <2>1. j < k \/ k < j \/ j = k
      OBVIOUS
    <2>2. Position(S, j) \in Nat
      BY <1>1
    <2> QED
      BY <1>3, <2>1, <2>2, PositionGrows
  <1>4. ASSUME NEW k \in S PROVE Nth(S, Position(S, k)) = k
    <2>1. Position(S, k) \in 1 .. c
      BY <1>1
    <2>2. /\ Nth(S, Position(S, k)) \in S
          /\ Position(S, Nth(S, Position(S, k))) = Position(S, k)
      BY <1>2, <2>1
    <2> QED
      BY <1>3, <2>2
  <1>5. ASSUME NEW m \in 1 .. c, NEW n \in 1 .. c, m < n PROVE Nth(S, m) < Nth(S, n)
    <2>1. /\ Nth(S, m) \in S /\ Position(S, Nth(S, m)) = m
          /\ Nth(S, n) \in S /\ Position(S, Nth(S, n)) = n
      BY <1>2
    <2>2. CASE Nth(S, n) < Nth(S, m)
      <3>1. n < m
        BY <2>1, <2>2, PositionGrows
      <3> QED
        BY <1>5, <3>1, <1>1
    <2>3. CASE Nth(S, n) = Nth(S, m)
      BY <1>5, <1>1, <2>1, <2>3
    <2>4. Nth(S, m) \in Nat /\ Nth(S, n) \in Nat
      BY <2>1
    <2> QED
      BY <2>2, <2>3, <2>4
  <1> QED
    BY <1>1, <1>2, <1>4, <1>5

\* The part of a sequence after place m, up to place n.
LEMMA Part ==
    ASSUME NEW S, NEW s \in Seq(S), NEW n \in 0 .. Len(s), NEW m \in 0 .. n,
           NEW t, t = SubSeq(s, m + 1, n)
    PROVE  /\ t \in Seq(S) /\ Len(t) = n - m /\ DOMAIN t = 1 .. n - m
           /\ \A i \in 1 .. n - m : t[i] = s[m + i]
  <1>1. Len(s) \in Nat /\ m \in Nat /\ n \in Nat
    BY LenProperties
  <1>2. \A i \in m + 1 .. n : s[i] \in S
    BY <1>1, ElementOfSeq
  <1>3. m + 1 \in Int /\ n \in Int
    BY <1>1
  <1>4. /\ SubSeq(s, m + 1, n) \in Seq(S)
        /\ Len(SubSeq(s, m + 1, n)) = IF m + 1 <= n THEN n - (m + 1) + 1 ELSE 0
        /\ \A i \in 1 .. n - (m + 1) + 1 : SubSeq(s, m + 1, n)[i] = s[(m + 1) + i - 1]
    BY <1>2, <1>3, SubSeqProperties, SMT
  <1>5. Len(t) = n - m
    BY <1>1, <1>4
  <1>6. \A i \in 1 .. n - m : t[i] = s[m + i]
    <2> TAKE i \in 1 .. n - m
    <2>1. i \in 1 .. n - (m + 1) + 1 /\ (m + 1) + i - 1 = m + i
      BY <1>1
    <2> QED
      BY <1>4, <2>1
  <1>7. t \in Seq(S)
    BY <1>4
  <1>8. DOMAIN t = 1 .. Len(t)
    BY <1>7, LenProperties
  <1> QED
    BY <1>5, <1>6, <1>7, <1>8

\* The elements of two sequences in a row.
LEMMA TwoParts ==
    ASSUME NEW S, NEW a \in Seq(S), NEW b \in Seq(S), NEW t, t = a \o b
    PROVE  /\ t \in Seq(S) /\ Len(t) = Len(a) + Len(b)
           /\ \A i \in 1 .. Len(a) : t[i] = a[i]
           /\ \A i \in 1 .. Len(b) : t[Len(a) + i] = b[i]
  <1>1. Len(a) \in Nat /\ Len(b) \in Nat
    BY LenProperties
  <1>2. /\ t \in Seq(S) /\ Len(t) = Len(a) + Len(b)
        /\ \A i \in 1 .. Len(a) + Len(b) : t[i] = IF i <= Len(a) THEN a[i] ELSE b[i - Len(a)]
    BY ConcatProperties
  <1>3. ASSUME NEW i \in 1 .. Len(a) PROVE t[i] = a[i]
    <2>1. i \in 1 .. Len(a) + Len(b) /\ i <= Len(a)
      BY <1>1
    <2> QED
      BY <1>2, <2>1
  <1>4. ASSUME NEW i \in 1 .. Len(b) PROVE t[Len(a) + i] = b[i]
    <2>1. /\ Len(a) + i \in 1 .. Len(a) + Len(b) /\ ~(Len(a) + i <= Len(a))
          /\ Len(a) + i - Len(a) = i
      BY <1>1
    <2> QED
      BY <1>2, <2>1
  <1> QED
    BY <1>2, <1>3, <1>4

\* The elements of three sequences in a row.
LEMMA ThreeParts ==
    ASSUME NEW S, NEW a \in Seq(S), NEW b \in Seq(S), NEW c \in Seq(S),
           NEW t, t = a \o b \o c
    PROVE  /\ t \in Seq(S)
           /\ Len(t) = Len(a) + Len(b) + Len(c)
           /\ DOMAIN t = 1 .. Len(a) + Len(b) + Len(c)
           /\ \A i \in 1 .. Len(a) : t[i] = a[i]
           /\ \A i \in 1 .. Len(b) : t[Len(a) + i] = b[i]
           /\ \A i \in 1 .. Len(c) : t[Len(a) + Len(b) + i] = c[i]
  <1>1. Len(a) \in Nat /\ Len(b) \in Nat /\ Len(c) \in Nat
    BY LenProperties
  <1>2. /\ a \o b \in Seq(S)
        /\ Len(a \o b) = Len(a) + Len(b)
        /\ \A i \in 1 .. Len(a) + Len(b) :
               (a \o b)[i] = IF i <= Len(a) THEN a[i] ELSE b[i - Len(a)]
    BY ConcatProperties
  <1>3. /\ t \in Seq(S)
        /\ Len(t) = Len(a \o b) + Len(c)
        /\ \A i \in 1 .. Len(a \o b) + Len(c) :
               t[i] = IF i <= Len(a \o b) THEN (a \o b)[i] ELSE c[i - Len(a \o b)]
    BY <1>2, ConcatProperties
  <1>4. \A i \in 1 .. Len(a) + Len(b) + Len(c) :
            t[i] = IF i <= Len(a) + Len(b) THEN (a \o b)[i] ELSE c[i - (Len(a) + Len(b))]
    BY <1>2, <1>3
  <1>5. ASSUME NEW i \in 1 .. Len(a) PROVE t[i] = a[i]
    <2>1. i \in 1 .. Len(a) + Len(b) /\ i \in 1 .. Len(a) + Len(b) + Len(c)
      BY <1>1
    <2> QED
      BY <1>1, <1>2, <1>4, <2>1
  <1>6. ASSUME NEW i \in 1 .. Len(b) PROVE t[Len(a) + i] = b[i]
    <2>1. /\ Len(a) + i \in 1 .. Len(a) + Len(b)
          /\ Len(a) + i \in 1 .. Len(a) + Len(b) + Len(c)
          /\ ~(Len(a) + i <= Len(a)) /\ Len(a) + i - Len(a) = i
          /\ Len(a) + i <= Len(a) + Len(b)
      BY <1>1
    <2> QED
      BY <1>2, <1>4, <2>1
  <1>7. ASSUME NEW i \in 1 .. Len(c) PROVE t[Len(a) + Len(b) + i] = c[i]
    <2>1. /\ Len(a) + Len(b) + i \in 1 .. Len(a) + Len(b) + Len(c)
          /\ ~(Len(a) + Len(b) + i <= Len(a) + Len(b))
          /\ Len(a) + Len(b) + i - (Len(a) + Len(b)) = i
      BY <1>1
    <2> QED
      BY <1>4, <2>1
  <1>8. Len(t) = Len(a) + Len(b) + Len(c)
    BY <1>2, <1>3
  <1>9. DOMAIN t = 1 .. Len(t)
    BY <1>3, LenProperties, SMTT(40)
  <1> QED
    BY <1>3, <1>5, <1>6, <1>7, <1>8, <1>9

-----------------------------------------------------------------------------
(* The planner.                                                            *)

Frame == [ts : Nat, grid : Grid]
Record == [ts : Nat, grid : Grid, pooled : BOOLEAN, sources : Nat]
Chunk == [start : Nat, count : Nat, pool : BOOLEAN]

\* What the planner may count on: pooled frames first, times that do not go
\* back, a raw frame at the end.
InOrder(recs) ==
    /\ recs \in Seq(Record)
    /\ \A i, j \in DOMAIN recs : i < j =>
           /\ recs[j].pooled => recs[i].pooled
           /\ recs[i].ts <= recs[j].ts
    /\ recs # <<>> => ~recs[Len(recs)].pooled

\* The pooled frames are the first ones, the raw frames the others.
LEMMA Regions ==
    ASSUME NEW recs, InOrder(recs), NEW v, v = Len(Virtuals(recs))
    PROVE  /\ Len(recs) \in Nat /\ DOMAIN recs = 1 .. Len(recs)
           /\ v \in 0 .. Len(recs) /\ (recs # <<>> => v < Len(recs))
           /\ Virtuals(recs) \in Seq(Record)
           /\ \A i \in 1 .. v : Virtuals(recs)[i] = recs[i]
           /\ \A i \in 1 .. Len(recs) : recs[i] \in Record /\ (recs[i].pooled <=> i <= v)
           /\ Raws(recs) \in Seq(Record)
           /\ Len(Raws(recs)) = Len(recs) - v
           /\ \A i \in 1 .. Len(recs) - v : Raws(recs)[i] = recs[v + i]
  <1> DEFINE L == Len(recs)
             a == Leading(recs, LAMBDA r : r.pooled)
             B == {i \in 1 .. L : recs[i].pooled}
  <1>1. recs \in Seq(Record) /\ L \in Nat /\ DOMAIN recs = 1 .. L
    BY LenProperties DEF InOrder
  <1>2. \A i \in 1 .. L : recs[i] \in Record
    BY <1>1, ElementOfSeq
  <1>3. {n \in DOMAIN recs : \A i \in 1 .. n : recs[i].pooled}
          = {m \in 1 .. L : \A i \in 1 .. m : i \in B}
    BY <1>1
  <1>4. a = Cardinality({m \in 1 .. L : \A i \in 1 .. m : i \in B})
    BY <1>3 DEF Leading
  <1>5. /\ a \in 0 .. L
        /\ \A i \in 1 .. a : i \in B
        /\ a < L => a + 1 \notin B
    BY <1>1, <1>4, Prefix
  <1> HIDE DEF a
  <1>7. /\ SubSeq(recs, 1, a) \in Seq(Record) /\ Len(SubSeq(recs, 1, a)) = a
        /\ \A i \in 1 .. a : SubSeq(recs, 1, a)[i] = recs[i]
    <2> DEFINE t == SubSeq(recs, 0 + 1, a)
    <2>1. 0 \in 0 .. a
      BY <1>5
    <2>2. /\ t \in Seq(Record) /\ Len(t) = a - 0
          /\ \A i \in 1 .. a - 0 : t[i] = recs[0 + i]
      BY <1>1, <1>5, <2>1, Part
    <2>3. t = SubSeq(recs, 1, a)
      OBVIOUS
    <2> HIDE DEF t
    <2> QED
      BY <1>5, <2>2, <2>3
  <1>8. Virtuals(recs) = SubSeq(recs, 1, a)
    BY DEF Virtuals, a
  <1>9. v = a
    BY <1>5, <1>7, <1>8
  <1>10. ASSUME NEW i \in 1 .. L, recs[i].pooled PROVE i <= a
    <2>1. ASSUME ~(i <= a) PROVE FALSE
      <3>1. a + 1 \in 1 .. L /\ a + 1 <= i /\ a + 1 \notin B
        BY <1>5, <2>1
      <3>2. recs[a + 1].pooled
        <4>1. CASE a + 1 = i
          BY <1>10, <4>1
        <4>2. CASE a + 1 < i
          BY <1>1, <1>10, <3>1, <4>2 DEF InOrder
        <4> QED
          BY <3>1, <4>1, <4>2, <1>5
      <3> QED
        BY <3>1, <3>2
    <2> QED
      BY <2>1
  <1>11. \A i \in 1 .. L : recs[i].pooled <=> i <= a
    <2> TAKE i \in 1 .. L
    <2>1. i <= a => i \in 1 .. a
      BY <1>5
    <2> QED
      BY <1>5, <1>10, <2>1
  <1>12. recs # <<>> => a < L
    <2> SUFFICES ASSUME recs # <<>> PROVE a < L
      OBVIOUS
    <2>1. L \in 1 .. L
      BY <1>1, EmptySeq
    <2>2. ~recs[L].pooled
      BY DEF InOrder
    <2>3. ~(L <= a)
      BY <1>11, <2>1, <2>2
    <2> QED
      BY <1>5, <2>3
  <1>14. /\ SubSeq(recs, a + 1, L) \in Seq(Record)
         /\ Len(SubSeq(recs, a + 1, L)) = L - a
         /\ \A i \in 1 .. L - a : SubSeq(recs, a + 1, L)[i] = recs[a + i]
    <2> DEFINE t == SubSeq(recs, a + 1, L)
    <2>1. L \in 0 .. Len(recs) /\ a \in 0 .. L
      BY <1>1, <1>5
    <2>2. t = SubSeq(recs, a + 1, L)
      OBVIOUS
    <2> HIDE DEF t, L
    <2>3. /\ t \in Seq(Record) /\ Len(t) = L - a
          /\ \A i \in 1 .. L - a : t[i] = recs[a + i]
      BY <1>1, <2>1, <2>2, Part
    <2> QED
      BY <2>3 DEF t
  <1>15. Raws(recs) = SubSeq(recs, a + 1, L)
    BY <1>9 DEF Raws
  <1> QED
    BY <1>1, <1>2, <1>5, <1>7, <1>8, <1>9, <1>11, <1>12, <1>14, <1>15

\* Times that do not go back.
Monotone(s) == \A i, j \in DOMAIN s : i < j => s[i].ts <= s[j].ts

\* The elements that trail the last by more than W are the first ones, and the
\* last is not one of them.
LEMMA Trailing ==
    ASSUME NEW s \in Seq(Record), s # <<>>, Monotone(s), NEW n \in 0 .. Len(s), NEW W \in Nat,
           NEW a,
           a = Cardinality({m \in 1 .. n : \A i \in 1 .. m : s[Len(s)].ts - s[i].ts > W})
    PROVE  /\ a \in 0 .. n /\ a < Len(s)
           /\ \A i \in 1 .. n : s[Len(s)].ts - s[i].ts > W <=> i <= a
  <1> DEFINE L == Len(s)
             B == {i \in 1 .. L : s[L].ts - s[i].ts > W}
  <1>1. L \in Nat \ {0} /\ DOMAIN s = 1 .. L
    BY EmptySeq, LenProperties
  <1>2. \A i \in 1 .. L : s[i].ts \in Nat
    <2>1. \A i \in 1 .. L : s[i] \in Record
      BY ElementOfSeq
    <2> QED
      BY <2>1 DEF Record
  <1>3. {m \in 1 .. n : \A i \in 1 .. m : s[L].ts - s[i].ts > W}
          = {m \in 1 .. n : \A i \in 1 .. m : i \in B}
    <2>1. \A m \in 1 .. n : \A i \in 1 .. m : i \in 1 .. L
      BY <1>1
    <2>2. \A m \in 1 .. n : \A i \in 1 .. m : i \in B <=> s[L].ts - s[i].ts > W
      BY <2>1
    <2> HIDE DEF B
    <2> QED
      BY <2>2
  <1>4. n \in Nat
    BY <1>1
  <1>5. /\ a \in 0 .. n
        /\ \A i \in 1 .. a : i \in B
        /\ a < n => a + 1 \notin B
    <2>1. a = Cardinality({m \in 1 .. n : \A i \in 1 .. m : i \in B})
      BY <1>3
    <2> HIDE DEF B, L
    <2> QED
      BY <1>4, <2>1, Prefix
  <1>6. L \notin B
    BY <1>1, <1>2
  <1>7. a # L
    BY <1>1, <1>5, <1>6
  <1>8. ASSUME NEW i \in 1 .. n, i \in B PROVE i <= a
    <2>1. ASSUME ~(i <= a) PROVE FALSE
      <3>1. a + 1 \in 1 .. L /\ a + 1 <= i /\ a + 1 \notin B /\ i \in 1 .. L
        BY <1>1, <1>5, <2>1
      <3>2. s[a + 1].ts <= s[i].ts
        <4>1. CASE a + 1 = i
          BY <1>2, <3>1, <4>1
        <4>2. CASE a + 1 < i
          BY <1>1, <3>1, <4>2 DEF Monotone
        <4> QED
          BY <1>5, <3>1, <4>1, <4>2
      <3>3. s[L].ts - s[i].ts > W
        BY <1>8
      <3>4. s[L].ts \in Nat /\ s[i].ts \in Nat /\ s[a + 1].ts \in Nat
        BY <1>1, <1>2, <3>1
      <3>5. s[L].ts - s[a + 1].ts > W
        BY <3>2, <3>3, <3>4
      <3> QED
        BY <3>1, <3>5
    <2> QED
      BY <2>1
  <1>9. ASSUME NEW i \in 1 .. n PROVE s[L].ts - s[i].ts > W <=> i <= a
    <2>1. i \in 1 .. L
      BY <1>1
    <2>2. i \in B <=> s[L].ts - s[i].ts > W
      BY <2>1
    <2>3. i <= a => i \in 1 .. a
      BY <1>5
    <2> QED
      BY <1>5, <1>8, <2>2, <2>3
  <1>10. a < L
    BY <1>1, <1>5, <1>7
  <1> QED
    BY <1>5, <1>9, <1>10

\* The raw frames beyond the window are the first ones, and not the newest.
LEMMA AgedAre ==
    ASSUME NEW raws \in Seq(Record), Monotone(raws), NEW a, a = Aged(raws)
    PROVE  /\ a \in 0 .. Len(raws)
           /\ raws # <<>> => a < Len(raws)
           /\ \A i \in 1 .. Len(raws) : raws[Len(raws)].ts - raws[i].ts > RawWindow <=> i <= a
  <1> DEFINE L == Len(raws)
  <1>1. L \in Nat /\ DOMAIN raws = 1 .. L /\ RawWindow \in Nat
    BY LenProperties, WindowAssumption
  <1>2. a = Cardinality({m \in 1 .. L : \A i \in 1 .. m : raws[L].ts - raws[i].ts > RawWindow})
    BY <1>1 DEF Aged, Leading, Last
  <1>3. CASE raws = <<>>
    <2>1. L = 0
      BY <1>3, EmptySeq
    <2>2. {m \in 1 .. L : \A i \in 1 .. m : raws[L].ts - raws[i].ts > RawWindow} = {}
      BY <2>1
    <2>3. a = 0
      BY <1>2, <2>2, FS_EmptySet
    <2> QED
      BY <1>3, <2>1, <2>3
  <1>4. CASE raws # <<>>
    <2>1. L \in 0 .. Len(raws)
      BY <1>1
    <2> QED
      BY <1>1, <1>2, <1>4, <2>1, Trailing
  <1> QED
    BY <1>3, <1>4

\* A pooled frame that is not evicted is within the window of the newest.
LEMMA ExpiredAre ==
    ASSUME NEW all \in Seq(Record), Monotone(all), all # <<>>, NEW g, g = Expired(all)
    PROVE  /\ g \in 0 .. Len(all) - 1
           /\ \A i \in g + 1 .. Len(all) : all[Len(all)].ts - all[i].ts <= PoolWindow
           /\ g > 0 => all[Len(all)].ts - all[1].ts > PoolWindow
  <1> DEFINE L == Len(all)
  <1>1. L \in Nat \ {0} /\ PoolWindow \in Nat
    BY EmptySeq, WindowAssumption
  <1>2. /\ Front(all) \in Seq(Record)
        /\ DOMAIN Front(all) = 1 .. L - 1
        /\ \A i \in 1 .. L - 1 : Front(all)[i] = all[i]
    <2> DEFINE t == SubSeq(all, 0 + 1, L - 1)
    <2>1. t = SubSeq(all, 0 + 1, L - 1) /\ L - 1 \in 0 .. L /\ 0 \in 0 .. L - 1
      BY <1>1
    <2>2. Front(all) = t
      BY DEF Front
    <2> HIDE DEF t
    <2>3. /\ t \in Seq(Record) /\ DOMAIN t = 1 .. (L - 1) - 0
          /\ \A i \in 1 .. (L - 1) - 0 : t[i] = all[0 + i]
      BY <2>1, Part
    <2> QED
      BY <1>1, <2>2, <2>3
  <1>3. g = Cardinality({m \in 1 .. L - 1 : \A i \in 1 .. m : all[L].ts - all[i].ts > PoolWindow})
    <2>1. g = Cardinality({m \in 1 .. L - 1 :
                \A i \in 1 .. m : all[L].ts - Front(all)[i].ts > PoolWindow})
      BY <1>2 DEF Expired, Leading, Last
    <2>2. \A m \in 1 .. L - 1 : \A i \in 1 .. m : Front(all)[i] = all[i]
      BY <1>1, <1>2
    <2>3. {m \in 1 .. L - 1 : \A i \in 1 .. m : all[L].ts - Front(all)[i].ts > PoolWindow}
            = {m \in 1 .. L - 1 : \A i \in 1 .. m : all[L].ts - all[i].ts > PoolWindow}
      BY <2>2
    <2> QED
      BY <2>1, <2>3
  <1>4. L - 1 \in 0 .. L
    BY <1>1
  <1>5. /\ g \in 0 .. L - 1
        /\ \A i \in 1 .. L - 1 : all[L].ts - all[i].ts > PoolWindow <=> i <= g
    BY <1>1, <1>3, <1>4, Trailing
  <1>6. \A i \in 1 .. L : all[i].ts \in Nat
    <2>1. \A i \in 1 .. L : all[i] \in Record
      BY ElementOfSeq
    <2> QED
      BY <2>1 DEF Record
  <1>7. ASSUME NEW i \in g + 1 .. L PROVE all[L].ts - all[i].ts <= PoolWindow
    <2>1. CASE i = L
      <3>1. all[L].ts \in Nat
        BY <1>1, <1>6
      <3> QED
        BY <1>1, <2>1, <3>1
    <2>2. CASE i # L
      <3>1. i \in 1 .. L - 1 /\ ~(i <= g) /\ i \in 1 .. L /\ L \in 1 .. L
        BY <1>1, <1>5, <2>2
      <3>2. all[L].ts \in Nat /\ all[i].ts \in Nat
        BY <1>6, <3>1
      <3>3. ~(all[L].ts - all[i].ts > PoolWindow)
        BY <1>5, <3>1
      <3> QED
        BY <1>1, <3>2, <3>3
    <2> QED
      BY <2>1, <2>2
  <1>8. g > 0 => all[L].ts - all[1].ts > PoolWindow
    BY <1>1, <1>5
  <1> HIDE DEF L
  <1> QED
    BY <1>5, <1>7, <1>8 DEF L

\* The places of a chunk's members among the raw frames.
Tile(c) == c.start + 1 .. c.start + c.count

\* Chunks that follow each other and cover the first N raw frames.
Tiling(chunks, N) ==
    /\ chunks \in Seq(Chunk)
    /\ \A k \in DOMAIN chunks : chunks[k].count > 0
    /\ \A j, k \in DOMAIN chunks :
           j < k => chunks[j].start + chunks[j].count <= chunks[k].start
    /\ UNION {Tile(chunks[k]) : k \in DOMAIN chunks} = 1 .. N

\* What can be pooled: PoolRatio frames of one grid.
Uniform(chunks, raws) ==
    \A k \in Made(chunks) :
        /\ chunks[k].count = PoolRatio
        /\ \A i \in Tile(chunks[k]) : raws[i].grid = raws[chunks[k].start + 1].grid

\* The chunks of a tiling.
LEMMA ChunkTypes ==
    ASSUME NEW chunks \in Seq(Chunk)
    PROVE  /\ Len(chunks) \in Nat /\ DOMAIN chunks = 1 .. Len(chunks)
           /\ IsFiniteSet(DOMAIN chunks)
           /\ Made(chunks) \in SUBSET (DOMAIN chunks) /\ Dropped(chunks) \in SUBSET (DOMAIN chunks)
           /\ \A k \in DOMAIN chunks : chunks[k].start \in Nat /\ chunks[k].count \in Nat
           /\ \A k \in DOMAIN chunks : chunks[k] \in Chunk
  <1>1. Len(chunks) \in Nat /\ DOMAIN chunks = 1 .. Len(chunks)
    BY LenProperties
  <1>2. IsFiniteSet(DOMAIN chunks)
    BY <1>1, FS_Interval
  <1>3. \A k \in DOMAIN chunks : chunks[k] \in Chunk
    BY <1>1, ElementOfSeq
  <1>4. \A k \in DOMAIN chunks : chunks[k].start \in Nat /\ chunks[k].count \in Nat
    BY <1>3 DEF Chunk
  <1> QED
    BY <1>1, <1>2, <1>3, <1>4 DEF Made, Dropped

\* The frames in some chunks of a tiling are as many as their places.
LEMMA MembersAre ==
    ASSUME NEW chunks, NEW N \in Nat, Tiling(chunks, N), NEW K \in SUBSET (DOMAIN chunks)
    PROVE  /\ IsFiniteSet(UNION {Tile(chunks[k]) : k \in K})
           /\ Members(chunks, K) = Cardinality(UNION {Tile(chunks[k]) : k \in K})
           /\ Members(chunks, K) \in Nat
  <1> DEFINE D == [k \in DOMAIN chunks |-> Tile(chunks[k])]
             f == [k \in DOMAIN chunks |-> chunks[k].count]
  <1>1. chunks \in Seq(Chunk)
    BY DEF Tiling
  <1>2. /\ IsFiniteSet(DOMAIN chunks) /\ DOMAIN chunks = 1 .. Len(chunks) /\ Len(chunks) \in Nat
        /\ \A k \in DOMAIN chunks : chunks[k].start \in Nat /\ chunks[k].count \in Nat
    BY <1>1, ChunkTypes
  <1>3. IsFiniteSet(K)
    BY <1>2, FS_Subset
  <1>4. ASSUME NEW k \in K PROVE IsFiniteSet(D[k]) /\ f[k] = Cardinality(D[k])
    <2> DEFINE a == chunks[k].start
               n == chunks[k].count
    <2>1. a \in Nat /\ n \in Nat /\ D[k] = a + 1 .. a + n /\ f[k] = n
      BY <1>2 DEF Tile
    <2> HIDE DEF a, n, D, f
    <2> QED
      BY <2>1, IntervalSize
  <1>5. ASSUME NEW j \in K, NEW k \in K, j # k PROVE D[j] \cap D[k] = {}
    <2>1. /\ j < k => chunks[j].start + chunks[j].count <= chunks[k].start
          /\ k < j => chunks[k].start + chunks[k].count <= chunks[j].start
      BY DEF Tiling
    <2>2. j < k \/ k < j
      BY <1>2, <1>5
    <2>3. /\ chunks[j].start \in Nat /\ chunks[j].count \in Nat
          /\ chunks[k].start \in Nat /\ chunks[k].count \in Nat
      BY <1>2
    <2> QED
      BY <2>1, <2>2, <2>3 DEF Tile
  <1>6. UNION {D[k] : k \in K} = UNION {Tile(chunks[k]) : k \in K}
    OBVIOUS
  <1>7. Members(chunks, K) = SumFunctionOnSet(f, K)
    BY DEF Members
  <1> HIDE DEF D, f
  <1>8. /\ IsFiniteSet(UNION {D[k] : k \in K})
        /\ Cardinality(UNION {D[k] : k \in K}) = SumFunctionOnSet(f, K)
    BY <1>3, <1>4, <1>5, SumOfParts
  <1>9. Cardinality(UNION {D[k] : k \in K}) \in Nat
    BY <1>8, FS_CardinalityType
  <1> QED
    BY <1>6, <1>7, <1>8, <1>9

\* All chunks together are the first N raw frames.
LEMMA TotalIs ==
    ASSUME NEW chunks, NEW N \in Nat, Tiling(chunks, N)
    PROVE  Total(chunks) = N
  <1>1. Members(chunks, DOMAIN chunks) = Cardinality(UNION {Tile(chunks[k]) : k \in DOMAIN chunks})
    BY MembersAre
  <1>2. UNION {Tile(chunks[k]) : k \in DOMAIN chunks} = 1 .. N
    BY DEF Tiling
  <1>3. Cardinality(1 .. N) = N
    BY FS_Interval
  <1> QED
    BY <1>1, <1>2, <1>3 DEF Total

\* Whether a chunk is pooled does not change what it covers.
LEMMA SameTiling ==
    ASSUME NEW chunks, NEW N, Tiling(chunks, N), NEW other \in Seq(Chunk),
           DOMAIN other = DOMAIN chunks,
           \A k \in DOMAIN chunks : /\ other[k].start = chunks[k].start
                                    /\ other[k].count = chunks[k].count
    PROVE  Tiling(other, N)
  <1>1. \A k \in DOMAIN chunks : Tile(other[k]) = Tile(chunks[k])
    BY DEF Tile
  <1>2. UNION {Tile(other[k]) : k \in DOMAIN other} = UNION {Tile(chunks[k]) : k \in DOMAIN chunks}
    BY <1>1
  <1> QED
    BY <1>2 DEF Tiling

\* The aged frames are cut into chunks from the oldest; what is left over is
\* less than a chunk.
LEMMA ChunksTile ==
    ASSUME pooling \in BOOLEAN, NEW raws \in Seq(Record), Monotone(raws),
           NEW a, a = Aged(raws)
    PROVE  \E N \in 0 .. a : /\ Tiling(Chunks(raws), N)
                             /\ Uniform(Chunks(raws), raws)
                             /\ a < N + (IF pooling THEN PoolRatio ELSE 1)
                             /\ ~pooling => Made(Chunks(raws)) = {}
  <1> DEFINE r == PoolRatio
             c == Chunks(raws)
             n == a \div r
             OneGrid(k) == \A i \in 1 .. r : raws[((k - 1) * r) + i].grid
                                               = raws[((k - 1) * r) + 1].grid
  <1>1. a \in Nat /\ r \in Nat \ {0, 1}
    <2>1. a \in 0 .. Len(raws)
      BY AgedAre
    <2> QED
      BY <2>1, WindowAssumption, LenProperties
  <1>2. CASE pooling
    <2>1. n \in Nat /\ n * r \in Nat /\ n * r <= a /\ a < n * r + r
      BY <1>1, DivBounds
    <2>2. /\ DOMAIN c = 1 .. n
          /\ \A k \in 1 .. n : c[k] = [start |-> (k - 1) * r, count |-> r, pool |-> OneGrid(k)]
          /\ c = [k \in 1 .. n |-> c[k]]
      BY <1>2 DEF Chunks
    <2>14. \A k \in 1 .. n : OneGrid(k) \in BOOLEAN
      OBVIOUS
    <2> HIDE DEF c, r, n, OneGrid
    <2>3. \A k \in 1 .. n : (k - 1) * r \in Nat
      <3>1. \A x \in Nat : x * r \in Nat
        BY <1>1
      <3>2. \A k \in 1 .. n : k - 1 \in Nat
        BY <2>1
      <3> QED
        BY <3>1, <3>2
    <2>4. \A k \in 1 .. n : c[k] \in Chunk /\ c[k].start = (k - 1) * r /\ c[k].count = r
      BY <1>1, <2>2, <2>3, <2>14 DEF Chunk
    <2>5. c \in Seq(Chunk)
      <3>1. c \in [1 .. n -> Chunk]
        BY <2>2, <2>4
      <3> QED
        BY <2>1, <3>1, SeqDef
    <2>6. ASSUME NEW j \in DOMAIN c, NEW k \in DOMAIN c, j < k
          PROVE  c[j].start + c[j].count <= c[k].start
      <3>1. j \in Nat /\ k \in Nat /\ j - 1 \in Nat /\ r \in Nat
        BY <1>1, <2>1, <2>2
      <3>2. (j - 1) * r + r = j * r
        <4>1. j - 1 < j
          BY <3>1
        <4> QED
          BY <3>1, <4>1, MultiplesApart
      <3>3. j * r <= (k - 1) * r
        BY <2>6, <3>1, MultiplesApart
      <3> QED
        BY <2>2, <2>4, <3>2, <3>3
    <2>7. ASSUME NEW k \in 1 .. n PROVE Tile(c[k]) = (k - 1) * r + 1 .. (k - 1) * r + r
      BY <2>4 DEF Tile
    <2>8. ASSUME NEW k \in 1 .. n, NEW i \in Tile(c[k]) PROVE i \in 1 .. n * r
      <3>1. k \in Nat /\ k - 1 \in Nat /\ r \in Nat /\ n \in Nat /\ k - 1 < k /\ (k <= n)
        BY <1>1, <2>1
      <3>2. (k - 1) * r + r = k * r /\ k * r \in Nat /\ (k - 1) * r \in Nat
        BY <3>1, MultiplesApart
      <3>3. k * r <= n * r
        <4>1. k < n + 1 /\ n + 1 \in Nat /\ (n + 1) - 1 = n
          BY <3>1
        <4>2. k * r <= ((n + 1) - 1) * r
          BY <3>1, <4>1, MultiplesApart
        <4> QED
          BY <4>1, <4>2
      <3>4. i \in (k - 1) * r + 1 .. (k - 1) * r + r
        BY <2>7
      <3> QED
        BY <2>1, <3>1, <3>2, <3>3, <3>4
    <2>9. ASSUME NEW i \in 1 .. n * r PROVE \E k \in 1 .. n : i \in Tile(c[k])
      <3> DEFINE q == (i - 1) \div r
      <3>1. i - 1 \in Nat /\ r \in Nat \ {0} /\ n \in Nat
        BY <1>1, <2>1
      <3>2. q \in Nat /\ q * r \in Nat /\ q * r <= i - 1 /\ i - 1 < q * r + r
        BY <3>1, DivBounds
      <3> HIDE DEF q
      <3>3. q < n
        <4>1. ASSUME ~(q < n) PROVE FALSE
          <5>1. n < q + 1 /\ q + 1 \in Nat /\ (q + 1) - 1 = q /\ r \in Nat
            BY <3>1, <3>2, <4>1
          <5>2. n * r <= ((q + 1) - 1) * r
            BY <3>1, <5>1, MultiplesApart
          <5>3. n * r <= q * r
            BY <5>1, <5>2
          <5> QED
            BY <2>1, <3>1, <3>2, <5>3
        <4> QED
          BY <4>1
      <3>4. q + 1 \in 1 .. n /\ (q + 1) - 1 = q
        BY <3>1, <3>2, <3>3
      <3>5. Tile(c[q + 1]) = q * r + 1 .. q * r + r
        BY <2>7, <3>4
      <3>6. i \in q * r + 1 .. q * r + r
        BY <3>1, <3>2
      <3> QED
        BY <3>4, <3>5, <3>6
    <2>10. UNION {Tile(c[k]) : k \in DOMAIN c} = 1 .. n * r
      BY <2>2, <2>8, <2>9
    <2>11. Tiling(c, n * r)
      <3>1. \A k \in DOMAIN c : c[k].count > 0
        BY <1>1, <2>2, <2>4
      <3> QED
        BY <2>5, <2>6, <2>10, <3>1 DEF Tiling
    <2>12. Uniform(c, raws)
      <3> SUFFICES ASSUME NEW k \in Made(c), NEW i \in Tile(c[k])
                   PROVE  c[k].count = r /\ raws[i].grid = raws[c[k].start + 1].grid
        <4>1. ASSUME NEW k \in Made(c) PROVE c[k].count = r
          BY <2>2, <2>4 DEF Made
        <4> QED
          BY <4>1 DEF Uniform, r
      <3>1. k \in 1 .. n /\ c[k].pool
        BY <2>2 DEF Made
      <3>2. \A j \in 1 .. r : raws[((k - 1) * r) + j].grid = raws[((k - 1) * r) + 1].grid
        BY <2>2, <3>1 DEF OneGrid
      <3>3. i \in (k - 1) * r + 1 .. (k - 1) * r + r /\ (k - 1) * r \in Nat
        BY <2>3, <2>7, <3>1
      <3>4. i - (k - 1) * r \in 1 .. r /\ (k - 1) * r + (i - (k - 1) * r) = i
        BY <1>1, <3>3
      <3>5. raws[i].grid = raws[((k - 1) * r) + 1].grid
        BY <3>2, <3>4
      <3> QED
        BY <2>4, <3>1, <3>5
    <2>13. n * r \in 0 .. a
      BY <1>1, <2>1
    <2> QED
      BY <1>2, <2>1, <2>11, <2>12, <2>13 DEF c, r
  <1>3. CASE ~pooling /\ a = 0
    <2>1. c = <<>>
      BY <1>3 DEF Chunks
    <2>2. c \in Seq(Chunk) /\ DOMAIN c = {}
      BY <2>1, EmptySeq, LenProperties
    <2>3. 1 .. 0 = {}
      OBVIOUS
    <2> HIDE DEF c
    <2>4. Tiling(c, 0) /\ Made(c) = {} /\ Uniform(c, raws)
      BY <2>2, <2>3 DEF Tiling, Made, Uniform
    <2> QED
      BY <1>3, <2>4 DEF c
  <1>4. CASE ~pooling /\ a # 0
    <2>1. c = <<[start |-> 0, count |-> a, pool |-> FALSE]>>
      BY <1>4 DEF Chunks
    <2>2. /\ c \in Seq(Chunk) /\ DOMAIN c = {1} /\ c[1].start = 0 /\ c[1].count = a /\ ~c[1].pool
      <3>1. [start |-> 0, count |-> a, pool |-> FALSE] \in Chunk
        BY <1>1 DEF Chunk
      <3> QED
        BY <2>1, <3>1
    <2> HIDE DEF c
    <2>3. Tile(c[1]) = 1 .. a
      BY <1>1, <2>2 DEF Tile
    <2>4. UNION {Tile(c[k]) : k \in DOMAIN c} = 1 .. a
      BY <2>2, <2>3
    <2>5. Made(c) = {}
      BY <2>2 DEF Made
    <2>6. Tiling(c, a) /\ Uniform(c, raws)
      BY <1>1, <1>4, <2>2, <2>4, <2>5 DEF Tiling, Uniform
    <2>7. a \in 0 .. a /\ a < a + 1
      BY <1>1
    <2> QED
      BY <1>4, <2>5, <2>6, <2>7 DEF c
  <1> QED
    BY <1>2, <1>3, <1>4

\* The pooled frames that the chunks become.
LEMMA ProducedAre ==
    ASSUME NEW raws \in Seq(Record), NEW chunks, NEW N \in 0 .. Len(raws),
           Tiling(chunks, N), Uniform(chunks, raws),
           NEW P, P = Cardinality(Made(chunks))
    PROVE  /\ P \in Nat /\ Poolable(chunks) \in Seq(Chunk) /\ DOMAIN Poolable(chunks) = 1 .. P
           /\ Len(Poolable(chunks)) = P
           /\ Produced(raws, chunks) \in Seq(Record) /\ Len(Produced(raws, chunks)) = P
           /\ \A k \in 1 .. P :
                  LET c == Poolable(chunks)[k] IN
                  /\ Nth(Made(chunks), k) \in Made(chunks) /\ c = chunks[Nth(Made(chunks), k)]
                  /\ c.start \in Nat /\ c.count = PoolRatio /\ c.start + PoolRatio <= N
                  /\ Produced(raws, chunks)[k] =
                        [ts |-> raws[c.start + c.count].ts, grid |-> raws[c.start + 1].grid,
                         pooled |-> TRUE, sources |-> c.count]
  <1> DEFINE M == Made(chunks)
             pool == Poolable(chunks)
             out == Produced(raws, chunks)
  <1>1. /\ chunks \in Seq(Chunk) /\ IsFiniteSet(DOMAIN chunks) /\ M \in SUBSET (DOMAIN chunks)
        /\ DOMAIN chunks = 1 .. Len(chunks) /\ Len(chunks) \in Nat
        /\ \A k \in DOMAIN chunks :
               chunks[k] \in Chunk /\ chunks[k].start \in Nat /\ chunks[k].count \in Nat
    <2>1. chunks \in Seq(Chunk)
      BY DEF Tiling
    <2> QED
      BY <2>1, ChunkTypes
  <1>2. M \in SUBSET Nat /\ IsFiniteSet(M)
    BY <1>1, FS_Subset
  <1>3. P \in Nat /\ \A k \in 1 .. P : Nth(M, k) \in M
    BY <1>2, NthIs
  <1>4. pool = [k \in 1 .. P |-> chunks[Nth(M, k)]]
    BY DEF Poolable
  <1>5. \A k \in 1 .. P : pool[k] = chunks[Nth(M, k)] /\ pool[k] \in Chunk
    BY <1>1, <1>3, <1>4
  <1>6. pool \in [1 .. P -> Chunk]
    BY <1>4, <1>5
  <1>7. pool \in Seq(Chunk) /\ DOMAIN pool = 1 .. P /\ Len(pool) = P
    <2>1. pool \in Seq(Chunk)
      BY <1>3, <1>6, SeqDef
    <2> QED
      BY <1>3, <1>6, <2>1, LenProperties
  <1>8. N \in Nat /\ PoolRatio \in Nat \ {0, 1} /\ Len(raws) \in Nat
    BY LenProperties, WindowAssumption
  <1>9. ASSUME NEW k \in M
        PROVE  /\ chunks[k].count = PoolRatio /\ chunks[k].start \in Nat
               /\ chunks[k].start + PoolRatio <= N
    <2>1. chunks[k].count = PoolRatio
      BY DEF Uniform
    <2>2. chunks[k].start \in Nat
      BY <1>1
    <2>3. chunks[k].start + PoolRatio \in Tile(chunks[k])
      BY <1>8, <2>1, <2>2 DEF Tile
    <2>4. chunks[k].start + PoolRatio \in 1 .. N
      BY <1>1, <2>3 DEF Tiling
    <2> QED
      BY <1>8, <2>1, <2>2, <2>4
  <1>10. \A k \in 1 .. P :
             pool[k].count = PoolRatio /\ pool[k].start \in Nat /\ pool[k].start + PoolRatio <= N
    BY <1>3, <1>5, <1>9
  <1> HIDE DEF M, pool
  <1>11. out = [k \in 1 .. P |->
             [ts |-> raws[pool[k].start + pool[k].count].ts, grid |-> raws[pool[k].start + 1].grid,
              pooled |-> TRUE, sources |-> pool[k].count]]
    BY <1>7 DEF Produced, pool
  <1>12. ASSUME NEW k \in 1 .. P PROVE out[k] \in Record
    <2>1. /\ pool[k].start + pool[k].count \in 1 .. Len(raws)
          /\ pool[k].start + 1 \in 1 .. Len(raws) /\ pool[k].count \in Nat
      BY <1>8, <1>10, SMTT(40)
    <2>2. raws[pool[k].start + pool[k].count] \in Record /\ raws[pool[k].start + 1] \in Record
      BY <2>1, ElementOfSeq
    <2>3. raws[pool[k].start + pool[k].count].ts \in Nat /\ raws[pool[k].start + 1].grid \in Grid
      BY <2>2 DEF Record
    <2> QED
      BY <1>11, <2>1, <2>3 DEF Record
  <1>13. out \in Seq(Record) /\ Len(out) = P
    <2>1. out \in [1 .. P -> Record]
      BY <1>11, <1>12
    <2>2. out \in Seq(Record)
      BY <1>3, <2>1, SeqDef
    <2> QED
      BY <1>3, <2>1, <2>2, LenProperties
  <1> QED
    BY <1>3, <1>5, <1>7, <1>10, <1>11, <1>13 DEF M, pool

\* The chunks that are dropped instead are the first n poolable ones.
LEMMA UnmadeAre ==
    ASSUME NEW chunks \in Seq(Chunk), NEW n \in 0 .. Cardinality(Made(chunks)),
           NEW d, d = Unmade(chunks, n)
    PROVE  /\ d \in Seq(Chunk) /\ DOMAIN d = DOMAIN chunks
           /\ \A k \in DOMAIN chunks : /\ d[k].start = chunks[k].start
                                       /\ d[k].count = chunks[k].count
           /\ Made(d) \subseteq Made(chunks)
           /\ Cardinality(Made(d)) = Cardinality(Made(chunks)) - n
           /\ \A k \in 1 .. Cardinality(Made(chunks)) - n :
                  Nth(Made(d), k) = Nth(Made(chunks), n + k)
  <1> DEFINE M == Made(chunks)
             T == Made(d)
             c == Cardinality(M)
             low == {k \in M : Position(M, k) <= n}
  <1>1. /\ IsFiniteSet(DOMAIN chunks) /\ M \in SUBSET (DOMAIN chunks)
        /\ DOMAIN chunks = 1 .. Len(chunks) /\ Len(chunks) \in Nat
        /\ \A k \in DOMAIN chunks : chunks[k] \in Chunk
    BY ChunkTypes
  <1>2. M \in SUBSET Nat /\ IsFiniteSet(M)
    BY <1>1, FS_Subset
  <1>3. /\ DOMAIN d = DOMAIN chunks
        /\ \A k \in DOMAIN chunks :
               d[k] = [chunks[k] EXCEPT !.pool = chunks[k].pool /\ Position(M, k) > n]
        /\ d = [k \in DOMAIN chunks |-> d[k]]
    BY DEF Unmade, Position
  <1>4. ASSUME NEW k \in DOMAIN chunks
        PROVE  /\ d[k] \in Chunk
               /\ d[k].start = chunks[k].start /\ d[k].count = chunks[k].count
               /\ d[k].pool <=> k \in M /\ Position(M, k) > n
    <2> DEFINE b == chunks[k].pool /\ Position(M, k) > n
    <2>1. d[k] = [chunks[k] EXCEPT !.pool = b] /\ b \in BOOLEAN
      BY <1>3
    <2>2. chunks[k] \in Chunk
      BY <1>1
    <2>3. b <=> k \in M /\ Position(M, k) > n
      BY DEF Made
    <2> HIDE DEF b
    <2>4. d[k] \in Chunk /\ d[k].start = chunks[k].start /\ d[k].count = chunks[k].count
      BY <2>1, <2>2 DEF Chunk
    <2>5. d[k].pool = b
      BY <2>1, <2>2 DEF Chunk
    <2> QED
      BY <2>3, <2>4, <2>5
  <1>5. d \in Seq(Chunk)
    <2>1. d \in [1 .. Len(chunks) -> Chunk]
      BY <1>1, <1>3, <1>4
    <2> QED
      BY <1>1, <2>1, SeqDef
  <1>6. T = {k \in M : Position(M, k) > n}
    BY <1>1, <1>3, <1>4 DEF Made
  <1>7. /\ c \in Nat /\ n \in Nat /\ n <= c
        /\ \A k \in 1 .. c : Nth(M, k) \in M /\ Position(M, Nth(M, k)) = k
        /\ \A k \in M : Position(M, k) \in 1 .. c /\ Nth(M, Position(M, k)) = k
    <2>1. c \in Nat
      BY <1>2, FS_CardinalityType
    <2> QED
      BY <1>2, <2>1, NthIs
  <1> HIDE DEF M, T, c
  <1>8. IsFiniteSet(low) /\ Cardinality(low) = n
    <2> DEFINE f == [k \in 1 .. n |-> Nth(M, k)]
    <2>1. \A k \in 1 .. n : k \in 1 .. c
      BY <1>7
    <2>2. f \in [1 .. n -> low]
      BY <1>7, <2>1
    <2>3. \A j, k \in 1 .. n : f[j] = f[k] => j = k
      BY <1>7, <2>1
    <2>4. \A k \in low : \E j \in 1 .. n : f[j] = k
      <3> TAKE k \in low
      <3>1. Position(M, k) \in 1 .. n /\ f[Position(M, k)] = k
        BY <1>7
      <3> QED
        BY <3>1
    <2> HIDE DEF f, low
    <2>5. f \in Bijection(1 .. n, low)
      BY <2>2, <2>3, <2>4 DEF Bijection, Injection, Surjection, IsInjective
    <2>6. ExistsBijection(1 .. n, low)
      BY <2>5 DEF ExistsBijection
    <2>7. IsFiniteSet(1 .. n) /\ Cardinality(1 .. n) = n
      BY <1>7, FS_Interval
    <2> QED
      BY <2>6, <2>7, FS_Bijection
  <1>9. T = M \ low /\ M \cap low = low
    BY <1>6, <1>7
  <1>10. IsFiniteSet(T) /\ Cardinality(T) = c - n
    <2>1. IsFiniteSet(M \ low) /\ Cardinality(M \ low) = c - Cardinality(M \cap low)
      BY <1>2, FS_Difference DEF M, c
    <2> QED
      BY <1>8, <1>9, <2>1
  <1>11. ASSUME NEW k \in T PROVE Position(T, k) = Position(M, k) - n
    <2> DEFINE A == {j \in M : j <= k}
               B == {j \in T : j <= k}
    <2>1. low \subseteq A
      <3> SUFFICES ASSUME NEW j \in low PROVE j <= k
        BY <1>9
      <3>1. j \in M /\ k \in M /\ Position(M, j) <= n /\ Position(M, k) > n
        BY <1>6
      <3>2. j \in Nat /\ k \in Nat /\ Position(M, j) \in Nat /\ Position(M, k) \in Nat
        BY <1>2, <1>7, <3>1 DEF M
      <3>3. ~(k < j)
        <4>1. ASSUME k < j PROVE FALSE
          <5>1. Position(M, k) < Position(M, j)
            BY <1>2, <3>1, <4>1, PositionGrows DEF M
          <5> QED
            BY <1>7, <3>1, <3>2, <5>1
        <4> QED
          BY <4>1
      <3> QED
        BY <3>2, <3>3
    <2>2. B = A \ low /\ A \cap low = low
      BY <1>9, <2>1
    <2>3. IsFiniteSet(A)
      BY <1>2, FS_Subset DEF M
    <2>4. Cardinality(A \ low) = Cardinality(A) - Cardinality(A \cap low)
      BY <2>3, FS_Difference
    <2>5. Cardinality(B) = Cardinality(A) - n
      BY <1>8, <2>2, <2>4
    <2> QED
      BY <2>5 DEF Position
  <1>12. ASSUME NEW k \in 1 .. c - n PROVE Nth(T, k) = Nth(M, n + k)
    <2> DEFINE j == Nth(T, k)
    <2>1. T \in SUBSET Nat
      BY <1>2, <1>6 DEF M
    <2>2. j \in T /\ Position(T, j) = k
      BY <1>10, <2>1, NthIs
    <2>3. Position(M, j) = n + k
      <3>1. Position(M, j) \in Nat
        BY <1>6, <1>7, <2>2
      <3> QED
        BY <1>7, <1>11, <2>2, <3>1
    <2>4. Nth(M, Position(M, j)) = j
      BY <1>6, <1>7, <2>2
    <2> QED
      BY <2>3, <2>4
  <1>13. T \subseteq M
    BY <1>6
  <1> QED
    BY <1>3, <1>4, <1>5, <1>10, <1>12, <1>13 DEF M, T, c

\* The smaller and the greater of two numbers.
LEMMA MinMax ==
    ASSUME NEW a \in Nat, NEW b \in Nat
    PROVE  /\ Min({a, b}) = IF a <= b THEN a ELSE b
           /\ Max({a, b}) = IF a <= b THEN b ELSE a
  <1>1. CASE a <= b
    <2>1. \A x \in {a, b} : (\A y \in {a, b} : x <= y) <=> x = a
      BY <1>1
    <2>2. \A x \in {a, b} : (\A y \in {a, b} : x >= y) <=> x = b
      BY <1>1
    <2>3. Min({a, b}) = a
      BY <2>1 DEF Min
    <2>4. Max({a, b}) = b
      BY <2>2 DEF Max
    <2> QED
      BY <1>1, <2>3, <2>4
  <1>2. CASE ~(a <= b)
    <2>1. \A x \in {a, b} : (\A y \in {a, b} : x <= y) <=> x = b
      BY <1>2
    <2>2. \A x \in {a, b} : (\A y \in {a, b} : x >= y) <=> x = a
      BY <1>2
    <2>3. Min({a, b}) = b
      BY <2>1 DEF Min
    <2>4. Max({a, b}) = a
      BY <2>2 DEF Max
    <2> QED
      BY <1>2, <2>3, <2>4
  <1> QED
    BY <1>1, <1>2

\* A plan is a tiling of aged raw frames and a number of pooled frames, and the
\* new records are what both leave.
Fits(p, recs) ==
    LET v == Len(Virtuals(recs))
        N == Total(p.chunks)
    IN
    /\ p.evict \in 0 .. v
    /\ N \in 0 .. Aged(Raws(recs))
    /\ Tiling(p.chunks, N)
    /\ Uniform(p.chunks, Raws(recs))
    /\ p.new = SubSeq(recs, p.evict + 1, v) \o Produced(Raws(recs), p.chunks)
               \o SubSeq(recs, v + N + 1, Len(recs))

\* The sizes of the parts that a plan cuts the records into.
LEMMA Sizes ==
    ASSUME NEW L \in Nat, NEW v \in 0 .. L, NEW e \in 0 .. v, NEW N \in 0 .. L - v, NEW P \in Nat
    PROVE  /\ v - e \in Nat /\ L - (v + N) \in Nat /\ N \in Nat /\ e \in Nat
           /\ e + (v - e) = v /\ e + (v - e) + N = v + N
           /\ L = e + (v - e) + N + (L - (v + N))
           /\ v + N < L => L - (v + N) > 0
  OBVIOUS

\* The parts of the records before and after a plan: e pooled frames are
\* evicted and a are kept, P are made of the N raw frames in chunks, and b raw
\* frames are left.
Layout(recs, p, e, a, P, N, b) ==
    /\ e = p.evict /\ e + a = Len(Virtuals(recs))
    /\ P = Cardinality(Made(p.chunks)) /\ N = Total(p.chunks)
    /\ Len(recs) = e + a + N + b
    /\ Len(p.new) = a + P + b
    /\ \A i \in 1 .. a : p.new[i] = recs[e + i]
    /\ \A k \in 1 .. P : p.new[a + k] = Produced(Raws(recs), p.chunks)[k]
    /\ \A i \in 1 .. b : p.new[a + P + i] = recs[e + a + N + i]

\* The frames that a plan leaves, one by one.
LEMMA NewAre ==
    ASSUME NEW recs, InOrder(recs), NEW p, Fits(p, recs),
           NEW v, v = Len(Virtuals(recs)), NEW N, N = Total(p.chunks),
           NEW P, P = Cardinality(Made(p.chunks)), NEW e, e = p.evict
    PROVE  /\ v \in 0 .. Len(recs) /\ e \in 0 .. v /\ P \in Nat /\ Len(recs) \in Nat
           /\ N \in 0 .. Len(recs) - v /\ (recs # <<>> => v + N < Len(recs))
           /\ p.new \in Seq(Record) /\ Len(p.new) = (v - e) + P + (Len(recs) - (v + N))
           /\ DOMAIN p.new = 1 .. (v - e) + P + (Len(recs) - (v + N))
           /\ \A i \in 1 .. v - e : p.new[i] = recs[e + i]
           /\ \A k \in 1 .. P : p.new[(v - e) + k] = Produced(Raws(recs), p.chunks)[k]
           /\ \A i \in 1 .. Len(recs) - (v + N) : p.new[(v - e) + P + i] = recs[v + N + i]
           /\ Layout(recs, p, e, v - e, P, N, Len(recs) - (v + N))
  <1> DEFINE L == Len(recs)
             raws == Raws(recs)
             s == SubSeq(recs, e + 1, v)
             m == Produced(raws, p.chunks)
             t == SubSeq(recs, (v + N) + 1, L)
  <1>1. recs \in Seq(Record) /\ L \in Nat /\ v \in 0 .. L
    BY Regions DEF InOrder
  <1>2. raws \in Seq(Record) /\ Len(raws) = L - v /\ Monotone(raws)
    <2>1. /\ raws \in Seq(Record) /\ Len(raws) = L - v /\ DOMAIN recs = 1 .. L
          /\ \A i \in 1 .. L - v : raws[i] = recs[v + i]
      BY Regions
    <2>2. ASSUME NEW i \in DOMAIN raws, NEW j \in DOMAIN raws, i < j
          PROVE  raws[i].ts <= raws[j].ts
      <3>1. i \in 1 .. L - v /\ j \in 1 .. L - v
        BY <2>1, LenProperties
      <3>2. v + i \in 1 .. L /\ v + j \in 1 .. L /\ v + i < v + j
        BY <1>1, <2>2, <3>1
      <3>3. recs[v + i].ts <= recs[v + j].ts
        BY <2>1, <3>2 DEF InOrder
      <3> QED
        BY <2>1, <3>1, <3>3
    <2> QED
      BY <2>1, <2>2 DEF Monotone
  <1>3. e \in 0 .. v /\ N \in 0 .. Aged(raws) /\ Tiling(p.chunks, N) /\ Uniform(p.chunks, raws)
    BY DEF Fits
  <1>15. p.new = s \o m \o t
    BY DEF Fits
  <1> HIDE DEF s, t
  <1>4. Aged(raws) \in 0 .. L - v /\ (raws # <<>> => Aged(raws) < L - v)
    BY <1>2, AgedAre
  <1>5. N \in 0 .. L - v
    BY <1>1, <1>3, <1>4
  <1>6. recs # <<>> => v + N < L
    <2> SUFFICES ASSUME recs # <<>> PROVE v + N < L
      OBVIOUS
    <2>1. v < L
      BY Regions
    <2>2. raws # <<>>
      BY <1>1, <1>2, <2>1, EmptySeq
    <2> QED
      BY <1>1, <1>3, <1>4, <2>2
  <1>7. P \in Nat /\ m \in Seq(Record) /\ Len(m) = P
    <2>1. N \in 0 .. Len(raws) /\ m = Produced(raws, p.chunks)
      BY <1>2, <1>5
    <2> HIDE DEF raws, m
    <2> QED
      BY <1>2, <1>3, <2>1, ProducedAre
  <1> HIDE DEF raws, m
  <1>8. s \in Seq(Record) /\ Len(s) = v - e /\ \A i \in 1 .. v - e : s[i] = recs[e + i]
    <2>1. s = SubSeq(recs, e + 1, v)
      BY DEF s
    <2> QED
      BY <1>1, <1>3, <2>1, Part
  <1>9. t \in Seq(Record) /\ Len(t) = L - (v + N) /\ \A i \in 1 .. L - (v + N) : t[i] = recs[v + N + i]
    <2>1. L \in 0 .. Len(recs) /\ v + N \in 0 .. L
      BY <1>1, <1>5
    <2>2. t = SubSeq(recs, (v + N) + 1, L)
      BY DEF t
    <2> HIDE DEF L
    <2> QED
      BY <1>1, <2>1, <2>2, Part
  <1>10. /\ p.new \in Seq(Record)
         /\ Len(p.new) = Len(s) + Len(m) + Len(t)
         /\ DOMAIN p.new = 1 .. Len(s) + Len(m) + Len(t)
         /\ \A i \in 1 .. Len(s) : p.new[i] = s[i]
         /\ \A i \in 1 .. Len(m) : p.new[Len(s) + i] = m[i]
         /\ \A i \in 1 .. Len(t) : p.new[Len(s) + Len(m) + i] = t[i]
    <2> DEFINE u == p.new
    <2>1. u = s \o m \o t
      BY <1>15
    <2>2. s \in Seq(Record) /\ m \in Seq(Record) /\ t \in Seq(Record)
      BY <1>7, <1>8, <1>9
    <2> HIDE DEF u
    <2>3. /\ u \in Seq(Record)
          /\ Len(u) = Len(s) + Len(m) + Len(t)
          /\ DOMAIN u = 1 .. Len(s) + Len(m) + Len(t)
          /\ \A i \in 1 .. Len(s) : u[i] = s[i]
          /\ \A i \in 1 .. Len(m) : u[Len(s) + i] = m[i]
          /\ \A i \in 1 .. Len(t) : u[Len(s) + Len(m) + i] = t[i]
      BY <2>1, <2>2, ThreeParts
    <2> QED
      BY <2>3 DEF u
  <1>11. \A i \in 1 .. v - e : p.new[i] = recs[e + i]
    BY <1>8, <1>10
  <1>12. \A k \in 1 .. P : p.new[(v - e) + k] = m[k]
    BY <1>7, <1>8, <1>10
  <1>13. \A i \in 1 .. L - (v + N) : p.new[(v - e) + P + i] = recs[v + N + i]
    BY <1>7, <1>8, <1>9, <1>10
  <1>14. /\ Len(p.new) = (v - e) + P + (L - (v + N))
         /\ DOMAIN p.new = 1 .. (v - e) + P + (L - (v + N))
    BY <1>7, <1>8, <1>9, <1>10
  <1>16. Layout(recs, p, e, v - e, P, N, L - (v + N))
    <2>1. e + (v - e) = v /\ e + (v - e) + N = v + N /\ L = e + (v - e) + N + (L - (v + N))
      BY <1>1, <1>3, <1>5, <1>7, Sizes, SMTT(40)
    <2> QED
      BY <1>11, <1>12, <1>13, <1>14, <2>1 DEF Layout, m, raws
  <1> QED
    BY <1>1, <1>3, <1>5, <1>6, <1>7, <1>10, <1>11, <1>12, <1>13, <1>14, <1>16 DEF m, raws

\* The raw frames keep the order of the records.
LEMMA RawsInOrder ==
    ASSUME NEW recs, InOrder(recs)
    PROVE  Monotone(recs) /\ Monotone(Raws(recs))
  <1> DEFINE L == Len(recs)
             raws == Raws(recs)
             v == Len(Virtuals(recs))
  <1>1. /\ raws \in Seq(Record) /\ Len(raws) = L - v /\ DOMAIN recs = 1 .. L
        /\ L \in Nat /\ v \in 0 .. L
        /\ \A i \in 1 .. L - v : raws[i] = recs[v + i]
    BY Regions
  <1>2. DOMAIN raws = 1 .. L - v
    BY <1>1, LenProperties
  <1> HIDE DEF raws, v, L
  <1>3. ASSUME NEW i \in DOMAIN raws, NEW j \in DOMAIN raws, i < j
        PROVE  raws[i].ts <= raws[j].ts
    <2>1. i \in 1 .. L - v /\ j \in 1 .. L - v
      BY <1>2
    <2>2. v + i \in 1 .. L /\ v + j \in 1 .. L /\ v + i < v + j
      BY <1>1, <1>3, <2>1
    <2>3. recs[v + i].ts <= recs[v + j].ts
      BY <1>1, <2>2 DEF InOrder
    <2> QED
      BY <1>1, <2>1, <2>3
  <1>4. Monotone(recs)
    BY DEF Monotone, InOrder
  <1> QED
    BY <1>3, <1>4 DEF Monotone, raws

\* What a round leaves: fewer aged raw frames than a chunk has, and pooled frames
\* that are within the pool window of each other.
Settled(p, recs) ==
    /\ Aged(Raws(recs)) < Total(p.chunks) + (IF pooling THEN PoolRatio ELSE 1)
    /\ \A i, j \in 1 .. (Len(Virtuals(recs)) - p.evict) + Cardinality(Made(p.chunks)) :
           p.new[j].ts - p.new[i].ts <= PoolWindow

\* The pooled frames, the produced ones included, are in the order of time.
LEMMA AllInOrder ==
    ASSUME NEW recs, InOrder(recs), NEW chunks, NEW N \in 0 .. Len(Raws(recs)),
           Tiling(chunks, N), Uniform(chunks, Raws(recs))
    PROVE  /\ Virtuals(recs) \o Produced(Raws(recs), chunks) \in Seq(Record)
           /\ Monotone(Virtuals(recs) \o Produced(Raws(recs), chunks))
  <1> DEFINE old == Virtuals(recs)
             raws == Raws(recs)
             prod == Produced(raws, chunks)
             all == old \o prod
             v == Len(old)
             P == Cardinality(Made(chunks))
  <1>a. /\ old = Virtuals(recs) /\ v = Len(old) /\ raws = Raws(recs)
        /\ N \in 0 .. Len(raws) /\ Tiling(chunks, N) /\ Uniform(chunks, raws)
        /\ P = Cardinality(Made(chunks)) /\ prod = Produced(raws, chunks) /\ all = old \o prod
    OBVIOUS
  <1>b. SUFFICES all \in Seq(Record) /\ Monotone(all)
    OBVIOUS
  <1> HIDE DEF old, raws, prod, all, v, P
  <1> USE <1>a
  <1> DEFINE L == Len(recs)
             M == Made(chunks)
             pool == Poolable(chunks)
  <1>1. /\ L \in Nat /\ v \in 0 .. L /\ DOMAIN recs = 1 .. L
        /\ old \in Seq(Record) /\ \A i \in 1 .. v : old[i] = recs[i]
        /\ raws \in Seq(Record) /\ Len(raws) = L - v /\ \A i \in 1 .. L - v : raws[i] = recs[v + i]
        /\ \A i \in 1 .. L : recs[i] \in Record
    <2>1. v = Len(Virtuals(recs))
      OBVIOUS
    <2> QED
      BY <2>1, Regions
  <1>2. Monotone(recs) /\ Monotone(raws)
    BY RawsInOrder
  <1>3. /\ P \in Nat /\ prod \in Seq(Record) /\ Len(prod) = P
        /\ \A k \in 1 .. P :
               /\ Nth(M, k) \in M /\ pool[k] = chunks[Nth(M, k)]
               /\ pool[k].start \in Nat /\ pool[k].count = PoolRatio
               /\ pool[k].start + PoolRatio <= N
               /\ prod[k].ts = raws[pool[k].start + PoolRatio].ts
    <2> DEFINE PK(k) == [ts |-> raws[pool[k].start + pool[k].count].ts,
                         grid |-> raws[pool[k].start + 1].grid,
                         pooled |-> TRUE, sources |-> pool[k].count]
    <2>1. /\ P \in Nat /\ prod \in Seq(Record) /\ Len(prod) = P
          /\ \A k \in 1 .. P :
               /\ Nth(M, k) \in M /\ pool[k] = chunks[Nth(M, k)]
               /\ pool[k].start \in Nat /\ pool[k].count = PoolRatio
               /\ pool[k].start + PoolRatio <= N
               /\ prod[k] = PK(k)
      BY <1>1, ProducedAre
    <2>2. \A k \in 1 .. P : PK(k).ts = raws[pool[k].start + pool[k].count].ts
      OBVIOUS
    <2> HIDE DEF PK, pool, M
    <2> QED
      BY <2>1, <2>2
  <1>4. PoolRatio \in Nat \ {0, 1} /\ N \in Nat /\ N <= L - v
    BY <1>1, WindowAssumption
  <1>5. /\ M \in SUBSET Nat /\ IsFiniteSet(M) /\ M \subseteq DOMAIN chunks
        /\ \A j, k \in 1 .. P : j < k => Nth(M, j) < Nth(M, k)
    <2>1. chunks \in Seq(Chunk)
      BY DEF Tiling
    <2>2. M \in SUBSET (DOMAIN chunks) /\ IsFiniteSet(DOMAIN chunks) /\ DOMAIN chunks \subseteq Nat
      BY <2>1, ChunkTypes
    <2>3. M \in SUBSET Nat /\ IsFiniteSet(M)
      BY <2>2, FS_Subset
    <2> QED
      BY <2>2, <2>3, NthIs
  <1> HIDE DEF M, pool, L
  <1>6. /\ all \in Seq(Record) /\ Len(all) = v + P
        /\ \A i \in 1 .. v : all[i] = old[i]
        /\ \A k \in 1 .. P : all[v + k] = prod[k]
    <2>1. Len(old) = v /\ Len(prod) = P /\ all = old \o prod
      BY <1>3
    <2>2. old \in Seq(Record) /\ prod \in Seq(Record)
      BY <1>1, <1>3
    <2>3. /\ all \in Seq(Record) /\ Len(all) = Len(old) + Len(prod)
          /\ \A i \in 1 .. Len(old) : all[i] = old[i]
          /\ \A i \in 1 .. Len(prod) : all[Len(old) + i] = prod[i]
      BY <2>1, <2>2, TwoParts
    <2> QED
      BY <2>1, <2>3
  <1>7. \A i \in 1 .. v : all[i] = recs[i]
    BY <1>1, <1>6
  <1>8. \A k \in 1 .. P : all[v + k] = prod[k]
    BY <1>6
  <1>9. ASSUME NEW k \in 1 .. P
        PROVE  /\ v + (pool[k].start + PoolRatio) \in v + 1 .. L
               /\ all[v + k].ts = recs[v + (pool[k].start + PoolRatio)].ts
    <2>1. pool[k].start + PoolRatio \in 1 .. L - v
      <3>1. /\ pool[k].start \in Nat /\ pool[k].start + PoolRatio <= N
            /\ L - v \in Nat
        BY <1>1, <1>3
      <3> QED
        BY <1>4, <3>1
    <2>2. v + (pool[k].start + PoolRatio) \in v + 1 .. L
      BY <1>1, <2>1
    <2> QED
      BY <1>1, <1>3, <1>8, <2>1, <2>2, ZenonT(60)
  <1>10. ASSUME NEW i \in 1 .. v + P, NEW j \in 1 .. v + P, i < j
         PROVE  all[i].ts <= all[j].ts
    <2>1. CASE j <= v
      <3>1. i \in 1 .. v /\ j \in 1 .. v /\ i \in 1 .. L /\ j \in 1 .. L
        BY <1>1, <1>3, <1>10, <2>1
      <3>2. recs[i].ts <= recs[j].ts
        BY <1>1, <1>2, <1>10, <3>1 DEF Monotone
      <3> QED
        BY <1>7, <3>1, <3>2
    <2>2. CASE i <= v /\ ~(j <= v)
      <3>1. PICK k \in 1 .. P : j = v + k
        <4>1. j - v \in 1 .. P /\ j = v + (j - v)
          BY <1>1, <1>3, <2>2
        <4> QED
          BY <4>1
      <3>2. i \in 1 .. v /\ i \in 1 .. L
        BY <1>1, <1>3, <2>2
      <3> DEFINE q == v + (pool[k].start + PoolRatio)
      <3>3. q \in v + 1 .. L /\ all[j].ts = recs[q].ts
        BY <1>9, <3>1
      <3> HIDE DEF q
      <3>4. q \in 1 .. L /\ i < q
        BY <1>1, <3>2, <3>3
      <3>5. recs[i].ts <= recs[q].ts
        BY <1>1, <1>2, <3>2, <3>4 DEF Monotone
      <3> QED
        BY <1>7, <3>2, <3>3, <3>5
    <2>3. CASE ~(i <= v)
      <3>1. PICK k \in 1 .. P : j = v + k
        <4>1. j - v \in 1 .. P /\ j = v + (j - v)
          BY <1>1, <1>3, <1>10, <2>3
        <4> QED
          BY <4>1
      <3>2. PICK h \in 1 .. P : i = v + h
        <4>1. i - v \in 1 .. P /\ i = v + (i - v)
          BY <1>1, <1>3, <2>3
        <4> QED
          BY <4>1
      <3>3. h < k
        BY <1>1, <1>10, <3>1, <3>2
      <3> DEFINE q == v + (pool[k].start + PoolRatio)
                 r == v + (pool[h].start + PoolRatio)
      <3>4. /\ q \in v + 1 .. L /\ all[j].ts = recs[q].ts
            /\ r \in v + 1 .. L /\ all[i].ts = recs[r].ts
        BY <1>9, <3>1, <3>2
      <3>5. r < q
        <4> DEFINE a == Nth(M, h)
                   b == Nth(M, k)
        <4>1. a < b /\ a \in DOMAIN chunks /\ b \in DOMAIN chunks
          BY <1>3, <1>5, <3>3
        <4>2. chunks[a].start + chunks[a].count <= chunks[b].start
          BY <4>1 DEF Tiling
        <4>3. pool[h] = chunks[a] /\ pool[k] = chunks[b]
          BY <1>3
        <4>4. pool[h].start + PoolRatio <= pool[k].start
          BY <1>3, <4>2, <4>3
        <4>5. pool[h].start \in Nat /\ pool[k].start \in Nat
          BY <1>3
        <4>6. v \in Nat /\ PoolRatio \in Nat \ {0}
          BY <1>1, <1>4
        <4> QED
          BY <4>4, <4>5, <4>6, EndsInOrder
      <3> HIDE DEF q, r
      <3>6. q \in 1 .. L /\ r \in 1 .. L
        BY <1>1, <3>4
      <3>7. recs[r].ts <= recs[q].ts
        BY <1>1, <1>2, <3>5, <3>6 DEF Monotone
      <3> QED
        BY <3>4, <3>7
    <2> QED
      BY <2>1, <2>2, <2>3
  <1>11. DOMAIN all = 1 .. v + P
    BY <1>6, LenProperties
  <1>12. Monotone(all)
    <2>1. \A i, j \in DOMAIN all : i < j => all[i].ts <= all[j].ts
      BY <1>10, <1>11, ZenonT(60)
    <2> QED
      BY <2>1 DEF Monotone
  <1> QED
    BY <1>6, <1>12

\* The records that plan_frame_window keeps are those that its evictions and
\* chunks leave, also when it evicts what it has just produced.
LEMMA PlanFits ==
    ASSUME pooling \in BOOLEAN, NEW recs, InOrder(recs), NEW p, p = Plan(recs)
    PROVE  /\ Fits(p, recs) /\ Settled(p, recs)
           /\ p.evict > 0 /\ p.evict = Len(Virtuals(recs)) => Cardinality(Made(p.chunks)) > 0
  <1> DEFINE v == Len(Virtuals(recs))
             L == Len(recs)
             raws == Raws(recs)
             chunks == Chunks(raws)
             prod == Produced(raws, chunks)
             all == Virtuals(recs) \o prod
             gone == IF all = <<>> THEN 0 ELSE Expired(all)
             n == Max({gone, v}) - v
             d == Unmade(chunks, n)
             e == Min({gone, v})
             N == Total(chunks)
             P == Cardinality(Made(chunks))
             X == SubSeq(all, gone + 1, v + P)
             Y == SubSeq(recs, e + 1, v)
             Z == Produced(raws, d)
  <1>1. /\ p.evict = e /\ p.chunks = d
        /\ p.new = SubSeq(all, gone + 1, Len(all)) \o SubSeq(raws, N + 1, Len(raws))
    BY DEF Plan
  <1>2. /\ L \in Nat /\ v \in 0 .. L /\ recs \in Seq(Record)
        /\ raws \in Seq(Record) /\ Len(raws) = L - v /\ Monotone(raws)
        /\ \A i \in 1 .. L - v : raws[i] = recs[v + i]
    <2>1. /\ L \in Nat /\ v \in 0 .. L /\ raws \in Seq(Record) /\ Len(raws) = L - v
          /\ \A i \in 1 .. L - v : raws[i] = recs[v + i]
      BY Regions, ZenonT(60)
    <2>2. Monotone(raws)
      BY RawsInOrder
    <2>3. recs \in Seq(Record)
      BY DEF InOrder
    <2> QED
      BY <2>1, <2>2, <2>3
  <1>3. /\ N \in 0 .. Aged(raws) /\ Tiling(chunks, N) /\ Uniform(chunks, raws)
        /\ Aged(raws) < N + (IF pooling THEN PoolRatio ELSE 1)
    <2>1. PICK M \in 0 .. Aged(raws) : /\ Tiling(chunks, M) /\ Uniform(chunks, raws)
                                       /\ Aged(raws) < M + (IF pooling THEN PoolRatio ELSE 1)
      BY <1>2, ChunksTile
    <2>2. Aged(raws) \in 0 .. L - v
      BY <1>2, AgedAre
    <2>3. M \in Nat
      BY <1>2, <2>1, <2>2
    <2>4. N = M
      BY <2>1, <2>3, TotalIs
    <2> HIDE DEF N, raws, chunks
    <2> QED
      BY <2>1, <2>4
  <1>4. N \in 0 .. L - v
    <2>1. Aged(raws) \in 0 .. L - v
      BY <1>2, AgedAre
    <2> HIDE DEF N, raws, v, L
    <2> QED
      BY <1>2, <1>3, <2>1
  <1> HIDE DEF N, raws, chunks, prod, all, v, L
  <1>5. /\ P \in Nat /\ all \in Seq(Record) /\ Len(all) = v + P /\ Monotone(all)
        /\ \A i \in 1 .. v : all[i] = recs[i]
        /\ \A k \in 1 .. P : all[v + k] = prod[k]
    <2> DEFINE old == Virtuals(recs)
    <2>3. v = Len(old) /\ prod = Produced(raws, chunks) /\ all = old \o prod
      BY DEF v, prod, all
    <2>4. P = Cardinality(Made(chunks))
      OBVIOUS
    <2>5. Tiling(chunks, N)
      BY <1>3
    <2>7. v = Len(old) /\ old = Virtuals(recs)
      BY <2>3
    <2>8. prod = Produced(raws, chunks)
      BY <2>3
    <2>9. all = old \o prod
      BY <2>3
    <2>10. Uniform(chunks, raws) /\ raws = Raws(recs) /\ N \in 0 .. Len(raws)
      BY <1>2, <1>3, <1>4 DEF raws
    <2> HIDE DEF P, gone, n, d, e, X, Y, Z, old
    <2>11. InOrder(recs) /\ old = Virtuals(recs) /\ v = Len(old) /\ raws = Raws(recs)
           /\ N \in 0 .. Len(raws) /\ Tiling(chunks, N) /\ Uniform(chunks, raws)
           /\ P = Cardinality(Made(chunks)) /\ prod = Produced(raws, chunks) /\ all = old \o prod
      BY <2>4, <2>5, <2>7, <2>8, <2>9, <2>10
    <2>18. raws \in Seq(Record)
      BY <1>2
    <2>12. P \in Nat /\ prod \in Seq(Record) /\ Len(prod) = P
      BY <2>11, <2>18, ProducedAre
    <2>19. old \in Seq(Record) /\ \A i \in 1 .. v : old[i] = recs[i]
      <3>1. v = Len(Virtuals(recs))
        BY <2>11
      <3> QED
        BY <3>1, <2>11, Regions
    <2>20. /\ \A i \in 1 .. Len(old) : all[i] = old[i]
           /\ \A i \in 1 .. Len(prod) : all[Len(old) + i] = prod[i]
      <3>1. old \in Seq(Record) /\ prod \in Seq(Record) /\ all = old \o prod
        BY <2>11, <2>12, <2>19
      <3> QED
        BY <3>1, TwoParts
    <2>17. \A k \in 1 .. P : all[v + k] = prod[k]
      BY <2>11, <2>12, <2>20
    <2>13. all \in Seq(Record) /\ Monotone(all)
      <3>1. /\ InOrder(recs) /\ N \in 0 .. Len(Raws(recs)) /\ Tiling(chunks, N)
            /\ Uniform(chunks, Raws(recs))
        BY <2>11
      <3>2. /\ Virtuals(recs) \o Produced(Raws(recs), chunks) \in Seq(Record)
            /\ Monotone(Virtuals(recs) \o Produced(Raws(recs), chunks))
        BY <3>1, AllInOrder
      <3> QED
        BY <2>11, <3>2
    <2>14. Len(all) = v + P
      <3>1. Len(all) = Len(old) + Len(prod)
        BY <2>11, <2>12, <2>19, ConcatProperties
      <3> QED
        BY <2>11, <2>12, <3>1
    <2>16. \A i \in 1 .. v : all[i] = recs[i]
      BY <2>11, <2>19, <2>20
    <2> QED
      BY <2>12, <2>13, <2>14, <2>16, <2>17
  <1> HIDE DEF P
  <1>6. /\ gone \in 0 .. v + P
        /\ all # <<>> =>
             /\ gone < v + P
             /\ \A i \in gone + 1 .. v + P : all[v + P].ts - all[i].ts <= PoolWindow
    <2>1. CASE all = <<>>
      BY <1>2, <1>5, <2>1
    <2>2. CASE all # <<>>
      <3>1. /\ gone \in 0 .. Len(all) - 1
            /\ \A i \in gone + 1 .. Len(all) : all[Len(all)].ts - all[i].ts <= PoolWindow
        BY <1>5, <2>2, ExpiredAre
      <3> HIDE DEF gone
      <3>2. gone \in 0 .. (v + P) - 1
        BY <1>5, <3>1
      <3>3. \A i \in gone + 1 .. v + P : all[v + P].ts - all[i].ts <= PoolWindow
        BY <1>5, <3>1
      <3> QED
        BY <1>2, <1>5, <3>2, <3>3
    <2> QED
      BY <2>1, <2>2
  <1> HIDE DEF gone
  <1>7. /\ gone \in Nat /\ v \in Nat
        /\ e = IF gone <= v THEN gone ELSE v
        /\ n = IF gone <= v THEN 0 ELSE gone - v
    <2>1. gone \in Nat /\ v \in Nat
      BY <1>2, <1>5, <1>6
    <2>2. Min({gone, v}) = (IF gone <= v THEN gone ELSE v) /\ Max({gone, v}) = (IF gone <= v THEN v ELSE gone)
      BY <2>1, MinMax
    <2> QED
      BY <2>1, <2>2
  <1> HIDE DEF e, n
  <1>8. /\ e \in 0 .. v /\ n \in 0 .. P /\ e \in Nat /\ n \in Nat
        /\ (v - e) + (P - n) = v + P - gone
        /\ e < v => e = gone
        /\ gone + (v - e) = v + n
    BY <1>5, <1>6, <1>7
  <1>9. /\ d \in Seq(Chunk) /\ DOMAIN d = DOMAIN chunks
        /\ \A k \in DOMAIN chunks : d[k].start = chunks[k].start /\ d[k].count = chunks[k].count
        /\ Made(d) \subseteq Made(chunks)
        /\ Cardinality(Made(d)) = P - n
        /\ \A k \in 1 .. P - n : Nth(Made(d), k) = Nth(Made(chunks), n + k)
    <2>1. chunks \in Seq(Chunk)
      BY <1>3 DEF Tiling
    <2>2. n \in 0 .. Cardinality(Made(chunks))
      BY <1>8 DEF P
    <2> QED
      BY <2>1, <2>2, UnmadeAre DEF P
  <1> HIDE DEF d
  <1>10. Tiling(d, N) /\ Uniform(d, raws)
    <2>1. Tiling(d, N)
      BY <1>3, <1>9, SameTiling
    <2>2. \A k \in Made(d) : k \in DOMAIN chunks /\ Tile(d[k]) = Tile(chunks[k])
      BY <1>9 DEF Made, Tile
    <2>3. Uniform(d, raws)
      BY <1>3, <1>9, <2>2 DEF Uniform
    <2> QED
      BY <2>1, <2>3
  <1>11. Total(d) = N
    <2>1. N \in Nat
      BY <1>2, <1>4
    <2> QED
      BY <1>10, <2>1, TotalIs
  <1>12. /\ Z \in Seq(Record) /\ Len(Z) = P - n
         /\ \A k \in 1 .. P - n : Z[k] = prod[n + k]
    <2>1. N \in 0 .. Len(raws)
      BY <1>2, <1>4
    <2>6. raws \in Seq(Record) /\ Tiling(chunks, N) /\ Uniform(chunks, raws)
          /\ P = Cardinality(Made(chunks)) /\ prod = Produced(raws, chunks)
      BY <1>2, <1>3 DEF P, prod
    <2>2. /\ Len(prod) = P
          /\ \A k \in 1 .. P :
                 LET c == Poolable(chunks)[k] IN
                 /\ Nth(Made(chunks), k) \in Made(chunks) /\ c = chunks[Nth(Made(chunks), k)]
                 /\ c.start \in Nat /\ c.count = PoolRatio /\ c.start + PoolRatio <= N
                 /\ prod[k] = [ts |-> raws[c.start + c.count].ts, grid |-> raws[c.start + 1].grid,
                               pooled |-> TRUE, sources |-> c.count]
      BY <2>1, <2>6, ProducedAre
    <2>5. /\ raws \in Seq(Record) /\ Tiling(d, N) /\ Uniform(d, raws)
          /\ P - n = Cardinality(Made(d)) /\ Z = Produced(raws, d)
      BY <1>2, <1>9, <1>10
    <2> HIDE DEF Z, X, Y
    <2>3. /\ Z \in Seq(Record) /\ Len(Z) = P - n
          /\ \A k \in 1 .. P - n :
                 LET c == Poolable(d)[k] IN
                 /\ Nth(Made(d), k) \in Made(d) /\ c = d[Nth(Made(d), k)]
                 /\ c.start \in Nat /\ c.count = PoolRatio /\ c.start + PoolRatio <= N
                 /\ Z[k] = [ts |-> raws[c.start + c.count].ts, grid |-> raws[c.start + 1].grid,
                            pooled |-> TRUE, sources |-> c.count]
      BY <2>1, <2>5, ProducedAre
    <2>4. ASSUME NEW k \in 1 .. P - n PROVE Z[k] = prod[n + k]
      <3>1. n + k \in 1 .. P
        BY <1>5, <1>8
      <3> DEFINE m == Nth(Made(d), k)
      <3>2. m \in Made(chunks) /\ m = Nth(Made(chunks), n + k)
        BY <1>9, <2>3
      <3>3. Poolable(d)[k] = d[m] /\ Poolable(chunks)[n + k] = chunks[m]
        BY <2>2, <2>3, <3>1, <3>2
      <3>4. d[m].start = chunks[m].start /\ d[m].count = chunks[m].count
        BY <1>9, <3>2 DEF Made
      <3> HIDE DEF m
      <3>5. Z[k] = [ts |-> raws[d[m].start + d[m].count].ts, grid |-> raws[d[m].start + 1].grid,
                    pooled |-> TRUE, sources |-> d[m].count]
        BY <2>3, <3>3
      <3>6. prod[n + k] = [ts |-> raws[chunks[m].start + chunks[m].count].ts,
                           grid |-> raws[chunks[m].start + 1].grid,
                           pooled |-> TRUE, sources |-> chunks[m].count]
        BY <2>2, <3>1, <3>3
      <3> QED
        BY <3>4, <3>5, <3>6
    <2> QED
      BY <2>3, <2>4
  <1>13. /\ X \in Seq(Record) /\ Len(X) = v + P - gone
         /\ \A i \in 1 .. v + P - gone : X[i] = all[gone + i]
    <2> DEFINE u == v + P
    <2>1. u \in 0 .. Len(all) /\ gone \in 0 .. u /\ X = SubSeq(all, gone + 1, u)
      BY <1>5, <1>6, <1>7
    <2>3. all \in Seq(Record)
      BY <1>5
    <2> HIDE DEF u, X, Y, Z
    <2>2. /\ X \in Seq(Record) /\ Len(X) = u - gone
          /\ \A i \in 1 .. u - gone : X[i] = all[gone + i]
      BY <2>1, <2>3, Part
    <2>4. u - gone = v + P - gone
      BY <1>2, <1>5, <1>6 DEF u
    <2> QED
      BY <2>2, <2>4
  <1>14. /\ Y \in Seq(Record) /\ Len(Y) = v - e
         /\ \A i \in 1 .. v - e : Y[i] = recs[e + i]
    <2>1. v \in 0 .. Len(recs) /\ Y = SubSeq(recs, e + 1, v)
      BY <1>2 DEF L
    <2> HIDE DEF Y
    <2> QED
      BY <1>2, <1>8, <2>1, Part
  <1> HIDE DEF X, Y, Z
  <1>15. X = Y \o Z
    <2> DEFINE W == Y \o Z
    <2>1. /\ W \in Seq(Record) /\ Len(W) = Len(Y) + Len(Z)
          /\ \A i \in 1 .. Len(Y) : W[i] = Y[i]
          /\ \A i \in 1 .. Len(Z) : W[Len(Y) + i] = Z[i]
      <3>1. W = Y \o Z
        OBVIOUS
      <3>2. Y \in Seq(Record) /\ Z \in Seq(Record)
        BY <1>12, <1>14
      <3> HIDE DEF W
      <3> QED
        BY <3>1, <3>2, TwoParts
    <2> HIDE DEF W
    <2>2. Len(X) = Len(W)
      BY <1>8, <1>12, <1>13, <1>14, <2>1
    <2>3. ASSUME NEW i \in 1 .. Len(X) PROVE X[i] = W[i]
      <3>1. X[i] = all[gone + i] /\ i \in Nat /\ 1 <= i /\ i <= v + P - gone
        BY <1>5, <1>7, <1>13
      <3>2. CASE i <= v - e
        <4>1. i \in 1 .. v - e /\ e = gone /\ gone + i \in 1 .. v
          BY <1>7, <1>8, <3>1, <3>2
        <4>2. W[i] = recs[e + i]
          BY <1>14, <2>1, <4>1
        <4> QED
          BY <1>5, <3>1, <4>1, <4>2
      <3>3. CASE ~(i <= v - e)
        <4> DEFINE k == i - (v - e)
        <4>1. k \in 1 .. P - n /\ i = (v - e) + k /\ gone + i = v + (n + k) /\ n + k \in 1 .. P
          BY <1>5, <1>7, <1>8, <3>1, <3>3
        <4> HIDE DEF k
        <4>2. W[i] = Z[k]
          BY <1>12, <1>14, <2>1, <4>1
        <4>3. X[i] = prod[n + k]
          BY <1>5, <3>1, <4>1
        <4> QED
          BY <1>12, <4>1, <4>2, <4>3
      <3> QED
        BY <3>2, <3>3
    <2>4. X = W
      BY <1>13, <2>1, <2>2, <2>3, SeqEqual
    <2> QED
      BY <2>4 DEF W
  <1>16. SubSeq(raws, N + 1, Len(raws)) = SubSeq(recs, v + N + 1, L)
    <2> DEFINE A == SubSeq(raws, N + 1, Len(raws))
               B == SubSeq(recs, (v + N) + 1, L)
    <2>1. /\ Len(raws) \in 0 .. Len(raws) /\ N \in 0 .. Len(raws)
          /\ L \in 0 .. Len(recs) /\ v + N \in 0 .. L
      BY <1>2, <1>4 DEF L
    <2>2. A = SubSeq(raws, N + 1, Len(raws)) /\ B = SubSeq(recs, (v + N) + 1, L)
      OBVIOUS
    <2>8. raws \in Seq(Record) /\ recs \in Seq(Record)
      BY <1>2
    <2> HIDE DEF A, B
    <2>9. A = SubSeq(raws, N + 1, Len(raws)) /\ Len(raws) \in 0 .. Len(raws) /\ N \in 0 .. Len(raws)
      BY <2>1, <2>2
    <2>10. B = SubSeq(recs, (v + N) + 1, L) /\ L \in 0 .. Len(recs) /\ v + N \in 0 .. L
      BY <2>1, <2>2
    <2>3. A \in Seq(Record) /\ Len(A) = Len(raws) - N /\ \A i \in 1 .. Len(raws) - N : A[i] = raws[N + i]
      BY <2>8, <2>9, Part
    <2>4. /\ B \in Seq(Record) /\ Len(B) = L - (v + N)
          /\ \A i \in 1 .. L - (v + N) : B[i] = recs[(v + N) + i]
      BY <2>8, <2>10, Part
    <2>5. Len(A) = Len(B)
      BY <1>2, <1>4, <2>3, <2>4
    <2>6. ASSUME NEW i \in 1 .. Len(A) PROVE A[i] = B[i]
      <3>1. i \in 1 .. L - (v + N) /\ i \in 1 .. Len(raws) - N
        BY <1>2, <1>4, <2>3
      <3>2. N + i \in 1 .. L - v /\ v + (N + i) = (v + N) + i
        BY <1>2, <1>4, <3>1
      <3>3. A[i] = raws[N + i] /\ B[i] = recs[(v + N) + i]
        BY <2>3, <2>4, <3>1
      <3>4. raws[N + i] = recs[v + (N + i)]
        BY <1>2, <3>2
      <3> QED
        BY <3>2, <3>3, <3>4
    <2>7. A = B
      BY <2>3, <2>4, <2>5, <2>6, SeqEqual
    <2> QED
      BY <2>2, <2>7
  <1>17. p.new = Y \o Z \o SubSeq(recs, v + N + 1, L)
    <2>1. SubSeq(all, gone + 1, Len(all)) = X
      BY <1>5 DEF X
    <2> QED
      BY <1>1, <1>15, <1>16, <2>1
  <1>18. Fits(p, recs)
    BY <1>1, <1>3, <1>8, <1>10, <1>11, <1>17 DEF Fits, v, L, raws, Y, Z
  <1>19. ASSUME NEW i \in 1 .. (v - e) + (P - n), NEW j \in 1 .. (v - e) + (P - n)
         PROVE  p.new[j].ts - p.new[i].ts <= PoolWindow
    <2>1. \A k \in 1 .. (v - e) + (P - n) : p.new[k] = all[gone + k]
      <3> DEFINE T == SubSeq(recs, (v + N) + 1, L)
                 nw == p.new
      <3>1. T \in Seq(Record)
        <4>1. L \in 0 .. Len(recs) /\ v + N \in 0 .. L /\ T = SubSeq(recs, (v + N) + 1, L)
          BY <1>2, <1>4 DEF L
        <4> HIDE DEF T
        <4> QED
          BY <1>2, <4>1, Part
      <3>2. nw = X \o T
        BY <1>15, <1>17
      <3> HIDE DEF T, nw
      <3>3. \A k \in 1 .. Len(X) : nw[k] = X[k]
        BY <1>13, <3>1, <3>2, TwoParts
      <3>4. Len(X) = (v - e) + (P - n)
        BY <1>8, <1>13
      <3>5. \A k \in 1 .. (v - e) + (P - n) : X[k] = all[gone + k]
        BY <1>8, <1>13
      <3> QED
        BY <3>3, <3>4, <3>5 DEF nw
    <2>2. /\ gone + i \in gone + 1 .. v + P /\ gone + j \in 1 .. v + P
          /\ gone + i \in 1 .. v + P /\ v + P \in 1 .. v + P
      BY <1>5, <1>7, <1>8
    <2>3. all # <<>>
      BY <1>5, <2>2, EmptySeq
    <2>4. all[v + P].ts - all[gone + i].ts <= PoolWindow
      BY <1>6, <2>2, <2>3
    <2>5. all[gone + j].ts <= all[v + P].ts
      <3>1. DOMAIN all = 1 .. v + P
        BY <1>5, LenProperties
      <3>2. CASE gone + j = v + P
        <4>1. all[v + P] \in Record
          BY <1>5, <2>2, ElementOfSeq
        <4>2. all[v + P].ts \in Nat
          BY <4>1 DEF Record
        <4> QED
          BY <3>2, <4>2
      <3>3. CASE gone + j < v + P
        BY <1>5, <2>2, <3>1, <3>3 DEF Monotone
      <3> QED
        BY <1>5, <1>7, <2>2, <3>2, <3>3
    <2>6. /\ all[v + P].ts \in Nat /\ all[gone + j].ts \in Nat /\ all[gone + i].ts \in Nat
      <3>1. all[v + P] \in Record /\ all[gone + j] \in Record /\ all[gone + i] \in Record
        BY <1>5, <2>2, ElementOfSeq
      <3> QED
        BY <3>1 DEF Record
    <2>7. p.new[j] = all[gone + j] /\ p.new[i] = all[gone + i]
      BY <2>1
    <2>8. PoolWindow \in Nat
      BY WindowAssumption
    <2>9. all[gone + j].ts - all[gone + i].ts <= PoolWindow
      BY <2>4, <2>5, <2>6, <2>8
    <2> QED
      BY <2>7, <2>9
  <1>20. Settled(p, recs)
    <2>1. Aged(Raws(recs)) < Total(p.chunks) + (IF pooling THEN PoolRatio ELSE 1)
      BY <1>1, <1>3, <1>11 DEF raws
    <2>2. (Len(Virtuals(recs)) - p.evict) + Cardinality(Made(p.chunks)) = (v - e) + (P - n)
      BY <1>1, <1>9 DEF v
    <2> QED
      BY <1>19, <2>1, <2>2 DEF Settled
  <1>21. ASSUME e > 0, e = v PROVE P - n > 0
    <2>1. v \in Nat /\ P \in Nat /\ v > 0 /\ Len(all) = v + P
      BY <1>5, <1>7, <1>21
    <2>2. all # <<>>
      BY <2>1, EmptySeq
    <2>3. gone < v + P
      BY <1>6, <2>2
    <2> QED
      BY <1>7, <1>21, <2>1, <2>3
  <1>22. p.evict > 0 /\ p.evict = Len(Virtuals(recs)) => Cardinality(Made(p.chunks)) > 0
    BY <1>1, <1>9, <1>21 DEF v
  <1> QED
    BY <1>18, <1>20, <1>22

\* The pooled frames that are not evicted.
LEMMA KeptPooled ==
    ASSUME NEW recs, InOrder(recs), NEW p, Fits(p, recs),
           NEW i \in 1 .. Len(Virtuals(recs)) - p.evict
    PROVE  p.new[i] = recs[p.evict + i]
  <1> DEFINE v == Len(Virtuals(recs))
             N == Total(p.chunks)
  <1>1. Layout(recs, p, p.evict, v - p.evict, Cardinality(Made(p.chunks)), N, Len(recs) - (v + N))
    BY NewAre
  <1> QED
    BY <1>1 DEF Layout

\* The plan that drops every chunk fits as the plan does that it replaces, and
\* leaves no more pooled frames.
LEMMA DegradedFits ==
    ASSUME NEW recs, InOrder(recs), NEW p, Fits(p, recs), Settled(p, recs),
           NEW q, q = Degraded(recs, p)
    PROVE  Fits(q, recs) /\ Settled(q, recs) /\ Total(q.chunks) = Total(p.chunks)
  <1> DEFINE v == Len(Virtuals(recs))
             L == Len(recs)
             raws == Raws(recs)
             c == p.chunks
             d == q.chunks
             e == p.evict
             N == Total(p.chunks)
             Y == SubSeq(recs, e + 1, v)
             T == SubSeq(recs, v + N + 1, L)
             Z == Produced(raws, d)
  <1>1. /\ q.evict = e /\ q.new = Y \o T
        /\ DOMAIN d = DOMAIN c
        /\ \A k \in DOMAIN c : d[k] = [c[k] EXCEPT !.pool = FALSE]
        /\ d = [k \in DOMAIN c |-> d[k]]
    BY DEF Degraded
  <1>2. /\ e \in 0 .. v /\ N \in 0 .. Aged(raws) /\ Tiling(c, N)
    BY DEF Fits
  <1>3. /\ L \in Nat /\ v \in 0 .. L /\ raws \in Seq(Record) /\ Len(raws) = L - v
        /\ recs \in Seq(Record) /\ Monotone(raws)
    <2>1. /\ L \in Nat /\ v \in 0 .. L /\ raws \in Seq(Record) /\ Len(raws) = L - v
      BY Regions
    <2>2. Monotone(raws)
      BY RawsInOrder
    <2>3. recs \in Seq(Record)
      BY DEF InOrder
    <2> QED
      BY <2>1, <2>2, <2>3
  <1> HIDE DEF v, L, raws, c, d, e, N, Y, T, Z
  <1>4. N \in 0 .. L - v /\ N \in Nat
    <2>1. Aged(raws) \in 0 .. L - v
      BY <1>3, AgedAre
    <2> QED
      BY <1>2, <1>3, <2>1
  <1>5. /\ d \in Seq(Chunk)
        /\ \A k \in DOMAIN c : d[k].start = c[k].start /\ d[k].count = c[k].count /\ ~d[k].pool
    <2>1. c \in Seq(Chunk)
      BY <1>2 DEF Tiling
    <2>2. DOMAIN c = 1 .. Len(c) /\ Len(c) \in Nat /\ \A k \in DOMAIN c : c[k] \in Chunk
      BY <2>1, ChunkTypes
    <2>3. \A k \in DOMAIN c : /\ d[k] \in Chunk /\ d[k].start = c[k].start
                              /\ d[k].count = c[k].count /\ d[k].pool = FALSE
      BY <1>1, <2>2 DEF Chunk
    <2>4. d \in [1 .. Len(c) -> Chunk]
      BY <1>1, <2>2, <2>3
    <2>5. d \in Seq(Chunk)
      BY <2>2, <2>4, SeqDef
    <2> QED
      BY <2>3, <2>5
  <1>6. Made(d) = {}
    BY <1>1, <1>5 DEF Made
  <1>7. Tiling(d, N)
    BY <1>1, <1>2, <1>5, SameTiling
  <1>8. Total(d) = N
    BY <1>4, <1>7, TotalIs
  <1>9. Uniform(d, raws)
    BY <1>6 DEF Uniform
  <1>10. Z = <<>>
    <2>1. Cardinality(Made(d)) = 0
      BY <1>6, FS_EmptySet
    <2>2. N \in 0 .. Len(raws) /\ raws \in Seq(Record) /\ Z = Produced(raws, d) /\ 0 = Cardinality(Made(d))
      BY <1>3, <1>4, <2>1 DEF Z
    <2>3. Z \in Seq(Record) /\ Len(Z) = 0
      BY <1>7, <1>9, <2>2, ProducedAre
    <2> QED
      BY <2>3, EmptySeq
  <1>11. q.new = Y \o Z \o T
    <2>1. Y \in Seq(Record)
      <3>1. v \in 0 .. Len(recs) /\ Y = SubSeq(recs, e + 1, v) /\ e \in 0 .. v
        BY <1>2, <1>3 DEF L, Y
      <3> QED
        BY <1>3, <3>1, Part
    <2>2. Y \o <<>> = Y
      BY <2>1, ConcatEmptySeq
    <2> QED
      BY <1>1, <1>10, <2>2
  <1>12. Fits(q, recs)
    BY <1>1, <1>2, <1>7, <1>8, <1>9, <1>11 DEF Fits, v, L, raws, d, Y, T, Z
  <1>13. ASSUME NEW i \in 1 .. (v - e) + Cardinality(Made(d)) PROVE
            /\ q.new[i] = p.new[i] /\ i \in 1 .. (v - e) + Cardinality(Made(c))
    <2>1. i \in 1 .. v - e
      BY <1>2, <1>3, <1>6, FS_EmptySet
    <2>2. p.new[i] = recs[e + i]
      BY <2>1, KeptPooled DEF v, e
    <2>3. q.new[i] = recs[e + i]
      <3>1. i \in 1 .. Len(Virtuals(recs)) - q.evict
        BY <1>1, <2>1 DEF v
      <3>2. q.new[i] = recs[q.evict + i]
        BY <1>12, <3>1, KeptPooled
      <3> QED
        BY <1>1, <3>2
    <2>4. Cardinality(Made(c)) \in Nat
      <3>1. /\ v = Len(Virtuals(recs)) /\ N = Total(p.chunks) /\ e = p.evict
        BY DEF v, N, e
      <3>2. Cardinality(Made(p.chunks)) \in Nat
        BY <3>1, NewAre
      <3> QED
        BY <3>2 DEF c
    <2> QED
      BY <1>2, <1>3, <2>1, <2>2, <2>3, <2>4
  <1>14. Settled(q, recs)
    <2>1. Aged(Raws(recs)) < Total(q.chunks) + (IF pooling THEN PoolRatio ELSE 1)
      BY <1>8 DEF Settled, d, N
    <2>2. ASSUME NEW i \in 1 .. (v - e) + Cardinality(Made(d)),
                 NEW j \in 1 .. (v - e) + Cardinality(Made(d))
          PROVE  q.new[j].ts - q.new[i].ts <= PoolWindow
      <3>1. /\ q.new[i] = p.new[i] /\ i \in 1 .. (v - e) + Cardinality(Made(c))
            /\ q.new[j] = p.new[j] /\ j \in 1 .. (v - e) + Cardinality(Made(c))
        BY <1>13
      <3>2. p.new[j].ts - p.new[i].ts <= PoolWindow
        BY <3>1 DEF Settled, v, e, c
      <3> QED
        BY <3>1, <3>2
    <2> QED
      BY <1>1, <2>1, <2>2 DEF Settled, v, d
  <1>15. Total(q.chunks) = Total(p.chunks)
    BY <1>8 DEF d, N
  <1> QED
    BY <1>12, <1>14, <1>15

-----------------------------------------------------------------------------
(* The inductive invariant.                                                *)

\* What the variables hold.
TypeInv ==
    /\ pooling \in BOOLEAN
    /\ frames \in Seq(Frame)
    /\ records \in Seq(Record)
    /\ row \in Seq(SUBSET (1 .. Len(frames)))
    /\ visible \in Seq(Nat) /\ Len(visible) = Len(frames) + 1
    /\ evicted \in Nat

\* accept() lets no timestamp go back.
TimesGrow == Monotone(frames)

\* A run has a frame, and the newest frame has a run of its own.
RunsFull ==
    /\ \A i \in DOMAIN row : row[i] # {}
    /\ frames # <<>> => row # <<>> /\ row[Len(row)] = {Len(frames)}

Inv == TypeInv /\ TimesGrow /\ RunsFull /\ RecordsDescribeRow /\ VisibleExact

\* The newest frame of a set is the one that no other is newer than.
LEMMA MaxIs ==
    ASSUME NEW S \in SUBSET Nat, NEW x \in S, \A y \in S : y <= x
    PROVE  Max(S) = x
  <1>1. \A z \in S : (\A y \in S : z >= y) <=> z = x
    OBVIOUS
  <1> QED
    BY <1>1 DEF Max

\* A finite set of frames has a newest one.
LEMMA MaxExists ==
    ASSUME NEW S \in SUBSET Nat, IsFiniteSet(S), S # {}
    PROVE  Max(S) \in S /\ \A y \in S : y <= Max(S)
  <1> DEFINE c == Cardinality(S)
             x == Nth(S, c)
  <1>1. c \in Nat /\ c # 0
    BY FS_CardinalityType, FS_EmptySet
  <1>2. x \in S /\ Position(S, x) = c
    <2>1. c \in 1 .. Cardinality(S)
      BY <1>1
    <2> QED
      BY <2>1, NthIs
  <1>3. \A y \in S : Position(S, y) \in 1 .. c
    BY NthIs
  <1> HIDE DEF x, c
  <1>4. ASSUME NEW y \in S, x < y PROVE FALSE
    <2>1. Position(S, x) < Position(S, y)
      BY <1>2, <1>4, PositionGrows
    <2>2. Position(S, y) \in 1 .. c
      BY <1>3
    <2> QED
      BY <1>1, <1>2, <2>1, <2>2
  <1>5. \A y \in S : y <= x
    BY <1>2, <1>4
  <1>6. Max(S) = x
    BY <1>2, <1>5, MaxIs
  <1> QED
    BY <1>2, <1>5, <1>6

\* What the invariant says of one run.
LEMMA RunIs ==
    ASSUME Inv, NEW i \in 1 .. Len(row)
    PROVE  /\ row[i] \in SUBSET Nat /\ row[i] \subseteq 1 .. Len(frames) /\ row[i] # {}
           /\ IsFiniteSet(row[i])
           /\ Newest(row[i]) \in row[i] /\ \A f \in row[i] : f <= Newest(row[i])
           /\ records[i] \in Record /\ records[i].sources = Cardinality(row[i])
           /\ records[i].pooled = (records[i].sources > 1)
           /\ records[i].ts = frames[Newest(row[i])].ts
           /\ \A f \in row[i] : frames[f].grid = records[i].grid
           /\ ~records[i].pooled => row[i] = {Newest(row[i])}
  <1>1. /\ Len(row) = Len(records) /\ DOMAIN row = 1 .. Len(row)
        /\ row \in Seq(SUBSET (1 .. Len(frames))) /\ records \in Seq(Record)
    BY LenProperties DEF Inv, TypeInv, RecordsDescribeRow
  <1>2. row[i] \in SUBSET (1 .. Len(frames)) /\ records[i] \in Record
    BY <1>1, ElementOfSeq
  <1>3. Len(frames) \in Nat
    BY LenProperties DEF Inv, TypeInv
  <1>4. row[i] # {}
    BY <1>1 DEF Inv, RunsFull
  <1>5. IsFiniteSet(row[i]) /\ row[i] \in SUBSET Nat
    <2>1. IsFiniteSet(1 .. Len(frames))
      BY <1>3, FS_Interval
    <2>2. IsFiniteSet(row[i])
      BY <1>2, <2>1, FS_Subset
    <2> QED
      BY <1>2, <2>2
  <1>6. Newest(row[i]) \in row[i] /\ \A f \in row[i] : f <= Newest(row[i])
    BY <1>4, <1>5, MaxExists DEF Newest
  <1>7. /\ records[i].sources = Cardinality(row[i])
        /\ records[i].pooled = (records[i].sources > 1)
        /\ records[i].ts = frames[Newest(row[i])].ts
        /\ \A f \in row[i] : frames[f].grid = records[i].grid
    BY <1>1 DEF Inv, RecordsDescribeRow
  <1>8. ASSUME ~records[i].pooled PROVE row[i] = {Newest(row[i])}
    <2>1. Cardinality(row[i]) \in Nat /\ Cardinality(row[i]) # 0 /\ ~(Cardinality(row[i]) > 1)
      BY <1>4, <1>5, <1>7, <1>8, FS_CardinalityType, FS_EmptySet
    <2>2. Cardinality(row[i]) = 1
      BY <2>1
    <2>3. \E f : row[i] = {f}
      BY <1>5, <2>2, FS_Singleton
    <2> QED
      BY <1>6, <2>3
  <1> QED
    BY <1>2, <1>4, <1>5, <1>6, <1>7, <1>8

\* Later runs have later frames.
LEMMA RunsInOrder ==
    ASSUME Inv, NEW i \in 1 .. Len(row), NEW j \in 1 .. Len(row), i < j
    PROVE  /\ \A f \in row[i], g \in row[j] : f < g
           /\ row[i] \cap row[j] = {}
           /\ records[j].pooled => records[i].pooled
           /\ records[i].ts <= records[j].ts
  <1>1. DOMAIN row = 1 .. Len(row)
    BY LenProperties DEF Inv, TypeInv
  <1>2. /\ \A f \in row[i], g \in row[j] : f < g
        /\ records[j].pooled => records[i].pooled
    BY <1>1 DEF Inv, RecordsDescribeRow
  <1>3. row[i] \in SUBSET Nat /\ row[j] \in SUBSET Nat
    BY RunIs
  <1>4. row[i] \cap row[j] = {}
    BY <1>2, <1>3
  <1>5. records[i].ts <= records[j].ts
    <2> DEFINE f == Newest(row[i])
               g == Newest(row[j])
    <2>1. /\ f \in row[i] /\ g \in row[j] /\ f \in 1 .. Len(frames) /\ g \in 1 .. Len(frames)
          /\ records[i].ts = frames[f].ts /\ records[j].ts = frames[g].ts
      BY RunIs
    <2>2. f < g
      BY <1>2, <2>1
    <2>3. DOMAIN frames = 1 .. Len(frames)
      BY LenProperties DEF Inv, TypeInv
    <2> HIDE DEF f, g
    <2>4. frames[f].ts <= frames[g].ts
      BY <2>1, <2>2, <2>3 DEF Inv, TimesGrow, Monotone
    <2> QED
      BY <2>1, <2>4
  <1> QED
    BY <1>2, <1>4, <1>5

\* The records are what the planner may count on.
LEMMA InvInOrder ==
    ASSUME Inv
    PROVE  InOrder(records)
  <1>1. /\ Len(row) = Len(records) /\ records \in Seq(Record) /\ Len(records) \in Nat
        /\ DOMAIN records = 1 .. Len(records)
    BY LenProperties DEF Inv, TypeInv, RecordsDescribeRow
  <1>2. \A i, j \in DOMAIN records : i < j =>
           /\ records[j].pooled => records[i].pooled
           /\ records[i].ts <= records[j].ts
    BY <1>1, RunsInOrder
  <1>3. ASSUME records # <<>> PROVE ~records[Len(records)].pooled
    <2> DEFINE L == Len(row)
    <2>1. L \in 1 .. Len(row) /\ L # 0
      BY <1>1, <1>3, EmptySeq
    <2>2. row # <<>>
      BY <2>1, EmptySeq
    <2>3. row[L] \subseteq 1 .. Len(frames) /\ row[L] # {}
      BY <2>1, RunIs
    <2>4. frames # <<>>
      BY <2>3, EmptySeq
    <2>5. row[L] = {Len(frames)}
      BY <2>4 DEF Inv, RunsFull
    <2>6. Cardinality(row[L]) = 1
      BY <2>5, FS_Singleton
    <2>7. records[L].pooled = (records[L].sources > 1) /\ records[L].sources = Cardinality(row[L])
      BY <2>1, RunIs
    <2>8. L = Len(records)
      BY <1>1
    <2> HIDE DEF L
    <2>9. records[L].sources = 1 /\ ~(1 > 1)
      BY <2>6, <2>7
    <2>10. ~records[L].pooled
      <3>1. (records[L].sources > 1) = FALSE
        BY <2>9
      <3> QED
        BY <2>7, <3>1
    <2> QED
      BY <2>8, <2>10
  <1> QED
    BY <1>1, <1>2, <1>3 DEF InOrder

\* A number up to the sum of three is in one of three ranges.
LEMMA ThreeRanges ==
    ASSUME NEW a \in Nat, NEW b \in Nat, NEW c \in Nat, NEW i \in 1 .. a + b + c
    PROVE  \/ i \in 1 .. a
           \/ \E k \in 1 .. b : i = a + k
           \/ \E k \in 1 .. c : i = a + b + k
  <1>1. CASE i <= a
    BY <1>1
  <1>2. CASE ~(i <= a) /\ i <= a + b
    <2>1. i - a \in 1 .. b /\ i = a + (i - a)
      BY <1>2
    <2> QED
      BY <2>1
  <1>3. CASE ~(i <= a + b)
    <2>1. i - (a + b) \in 1 .. c /\ i = a + b + (i - (a + b))
      BY <1>3
    <2> QED
      BY <2>1
  <1> QED
    BY <1>1, <1>2, <1>3


\* The pooled frames that a plan makes are each of PoolRatio raw frames of one
\* grid, and have the time of the last of them.
MadeFrom(recs, p, w, P, N) ==
    \A k \in 1 .. P :
        LET c == Poolable(p.chunks)[k]
            r == Produced(Raws(recs), p.chunks)[k]
        IN
        /\ Nth(Made(p.chunks), k) \in Made(p.chunks) /\ c = p.chunks[Nth(Made(p.chunks), k)]
        /\ c.start \in Nat /\ c.count = PoolRatio /\ c.start + PoolRatio <= N
        /\ r.pooled = TRUE /\ r.sources = PoolRatio
        /\ r.ts = recs[w + (c.start + PoolRatio)].ts
        /\ \A i \in 1 .. PoolRatio : recs[w + (c.start + i)].grid = r.grid

\* What a plan does to the records.
LEMMA LayoutIs ==
    ASSUME NEW recs, InOrder(recs), NEW p, Fits(p, recs)
    PROVE  /\ p.new \in Seq(Record)
           /\ \E e, a, P, N, b \in Nat :
                  /\ Layout(recs, p, e, a, P, N, b)
                  /\ recs # <<>> => b > 0
                  /\ \A i \in 1 .. e + a + N + b :
                         recs[i] \in Record /\ (recs[i].pooled <=> i <= e + a)
                  /\ Poolable(p.chunks) \in Seq(Chunk) /\ Len(Poolable(p.chunks)) = P
                  /\ MadeFrom(recs, p, e + a, P, N)
                  /\ Tiling(p.chunks, N)
  <1> DEFINE L == Len(recs)
             v == Len(Virtuals(recs))
             N == Total(p.chunks)
             P == Cardinality(Made(p.chunks))
             e == p.evict
             a == v - e
             b == L - (v + N)
             raws == Raws(recs)
             pool == Poolable(p.chunks)
             out == Produced(raws, p.chunks)
  <1>1. /\ v \in 0 .. L /\ e \in 0 .. v /\ P \in Nat /\ L \in Nat
        /\ N \in 0 .. L - v /\ (recs # <<>> => v + N < L)
        /\ p.new \in Seq(Record) /\ Layout(recs, p, e, a, P, N, b)
    BY NewAre
  <1>2. /\ \A i \in 1 .. L : recs[i] \in Record /\ (recs[i].pooled <=> i <= v)
        /\ raws \in Seq(Record) /\ Len(raws) = L - v
        /\ \A i \in 1 .. L - v : raws[i] = recs[v + i]
    BY Regions
  <1>3. Tiling(p.chunks, N) /\ Uniform(p.chunks, raws)
    BY DEF Fits
  <1>9. P = Cardinality(Made(p.chunks))
    OBVIOUS
  <1> HIDE DEF L, v, N, P, e, raws
  <1>4. /\ v - e \in Nat /\ L - (v + N) \in Nat /\ N \in Nat /\ e \in Nat
        /\ e + (v - e) = v /\ e + (v - e) + N = v + N
        /\ L = e + (v - e) + N + (L - (v + N))
        /\ v + N < L => L - (v + N) > 0
    BY <1>1, Sizes
  <1>5. /\ a \in Nat /\ b \in Nat /\ e + a = v /\ L = e + a + N + b
        /\ recs # <<>> => b > 0
    BY <1>1, <1>4
  <1>6. /\ pool \in Seq(Chunk) /\ Len(pool) = P
        /\ \A k \in 1 .. P :
               /\ Nth(Made(p.chunks), k) \in Made(p.chunks)
               /\ pool[k] = p.chunks[Nth(Made(p.chunks), k)]
               /\ pool[k].start \in Nat /\ pool[k].count = PoolRatio
               /\ pool[k].start + PoolRatio <= N
               /\ out[k] = [ts |-> raws[pool[k].start + pool[k].count].ts,
                            grid |-> raws[pool[k].start + 1].grid,
                            pooled |-> TRUE, sources |-> pool[k].count]
    <2>1. N \in 0 .. Len(raws) /\ raws \in Seq(Record)
      BY <1>1, <1>2
    <2> QED
      BY <1>3, <1>9, <2>1, ProducedAre
  <1> HIDE DEF a, b, pool, out
  <1>7. PoolRatio \in Nat \ {0, 1}
    BY WindowAssumption
  <1>8. ASSUME NEW k \in 1 .. P
        PROVE  /\ out[k].pooled = TRUE /\ out[k].sources = PoolRatio
               /\ out[k].ts = recs[v + (pool[k].start + PoolRatio)].ts
               /\ \A i \in 1 .. PoolRatio : recs[v + (pool[k].start + i)].grid = out[k].grid
    <2> DEFINE c == pool[k]
    <2>1. /\ c.start \in Nat /\ c.count = PoolRatio /\ c.start + PoolRatio <= N
          /\ c = p.chunks[Nth(Made(p.chunks), k)] /\ Nth(Made(p.chunks), k) \in Made(p.chunks)
          /\ out[k] = [ts |-> raws[c.start + c.count].ts, grid |-> raws[c.start + 1].grid,
                       pooled |-> TRUE, sources |-> c.count]
      BY <1>6
    <2> HIDE DEF c
    <2>2. ASSUME NEW i \in 1 .. PoolRatio
          PROVE  c.start + i \in 1 .. L - v /\ c.start + i \in Tile(c)
      <3>1. N \in Nat /\ N <= L - v /\ L - v \in Nat
        BY <1>1, <1>4
      <3>2. c.start \in Nat /\ c.start + PoolRatio <= N /\ c.count = PoolRatio
        BY <2>1
      <3>3. c.start + i \in 1 .. L - v
        BY <1>7, <3>1, <3>2
      <3> QED
        BY <1>7, <3>2, <3>3 DEF Tile
    <2>3. ASSUME NEW i \in 1 .. PoolRatio PROVE raws[c.start + i] = recs[v + (c.start + i)]
      BY <1>2, <2>2
    <2>4. ASSUME NEW i \in 1 .. PoolRatio PROVE raws[c.start + i].grid = raws[c.start + 1].grid
      BY <1>3, <2>1, <2>2 DEF Uniform
    <2>5. /\ out[k].ts = raws[c.start + PoolRatio].ts /\ out[k].grid = raws[c.start + 1].grid
          /\ out[k].pooled = TRUE /\ out[k].sources = PoolRatio
      BY <2>1
    <2>6. 1 \in 1 .. PoolRatio /\ PoolRatio \in 1 .. PoolRatio
      BY <1>7
    <2>7. out[k].ts = recs[v + (c.start + PoolRatio)].ts
      BY <2>3, <2>5, <2>6
    <2>8. \A i \in 1 .. PoolRatio : recs[v + (c.start + i)].grid = out[k].grid
      BY <2>3, <2>4, <2>5
    <2> QED
      BY <2>5, <2>7, <2>8 DEF c
  <1>10. MadeFrom(recs, p, v, P, N)
    BY <1>6, <1>8 DEF MadeFrom, pool, out, raws
  <1>11. \A i \in 1 .. e + a + N + b : recs[i] \in Record /\ (recs[i].pooled <=> i <= e + a)
    BY <1>2, <1>5
  <1>12. Poolable(p.chunks) \in Seq(Chunk) /\ Len(Poolable(p.chunks)) = P
    BY <1>6 DEF pool
  <1>13. MadeFrom(recs, p, e + a, P, N)
    BY <1>5, <1>10
  <1> QED
    BY <1>1, <1>3, <1>4, <1>5, <1>11, <1>12, <1>13

\* A laid-out plan: what LayoutIs gives.
Planned(recs, p, e, a, P, N, b) ==
    /\ {e, a, P, N, b} \subseteq Nat
    /\ p.new \in Seq(Record)
    /\ Layout(recs, p, e, a, P, N, b)
    /\ \A i \in 1 .. e + a + N + b : recs[i] \in Record /\ (recs[i].pooled <=> i <= e + a)
    /\ Poolable(p.chunks) \in Seq(Chunk) /\ Len(Poolable(p.chunks)) = P
    /\ MadeFrom(recs, p, e + a, P, N)
    /\ Tiling(p.chunks, N)

\* Only the pooled frames that are left and those that are made are pooled.
LEMMA NewPooled ==
    ASSUME NEW recs, NEW p, NEW e, NEW a, NEW P, NEW N, NEW b, Planned(recs, p, e, a, P, N, b)
    PROVE  /\ \A i \in 1 .. a + P : p.new[i].pooled
           /\ \A i \in 1 .. b : ~p.new[a + P + i].pooled
           /\ DOMAIN p.new = 1 .. a + P + b
  <1>1. e \in Nat /\ a \in Nat /\ P \in Nat /\ N \in Nat /\ b \in Nat
    BY DEF Planned
  <1>2. /\ p.new \in Seq(Record) /\ Len(p.new) = a + P + b
        /\ \A i \in 1 .. a : p.new[i] = recs[e + i]
        /\ \A k \in 1 .. P : p.new[a + k] = Produced(Raws(recs), p.chunks)[k]
        /\ \A i \in 1 .. b : p.new[a + P + i] = recs[e + a + N + i]
    BY DEF Planned, Layout
  <1>3. \A i \in 1 .. e + a + N + b : recs[i].pooled <=> i <= e + a
    BY DEF Planned
  <1>4. \A k \in 1 .. P : Produced(Raws(recs), p.chunks)[k].pooled = TRUE
    BY DEF Planned, MadeFrom
  <1>5. ASSUME NEW i \in 1 .. a PROVE p.new[i].pooled
    <2>1. e + i \in 1 .. e + a + N + b /\ e + i <= e + a
      BY <1>1
    <2>2. recs[e + i].pooled
      BY <1>3, <2>1
    <2> QED
      BY <1>2, <2>2
  <1>6. ASSUME NEW k \in 1 .. P PROVE p.new[a + k].pooled
    BY <1>2, <1>4
  <1>7. ASSUME NEW i \in 1 .. b PROVE ~p.new[a + P + i].pooled
    <2>1. e + a + N + i \in 1 .. e + a + N + b /\ ~(e + a + N + i <= e + a)
      BY <1>1
    <2>2. ~recs[e + a + N + i].pooled
      BY <1>3, <2>1
    <2> QED
      BY <1>2, <2>2
  <1>8. ASSUME NEW i \in 1 .. a + P PROVE p.new[i].pooled
    <2>1. CASE i <= a
      BY <1>1, <1>5, <2>1
    <2>2. CASE ~(i <= a)
      <3>1. i - a \in 1 .. P /\ a + (i - a) = i
        BY <1>1, <2>2
      <3>2. p.new[a + (i - a)].pooled
        BY <1>6, <3>1
      <3> QED
        BY <3>1, <3>2
    <2> QED
      BY <2>1, <2>2
  <1>9. DOMAIN p.new = 1 .. a + P + b
    BY <1>2, LenProperties
  <1> QED
    BY <1>7, <1>8, <1>9

\* The old rows that each new row covers.
Covered(s, p, e, a, P, N, b) ==
    /\ DOMAIN s = 1 .. a + P + b
    /\ \A i \in 1 .. a : s[i].from = e + (i - 1) /\ s[i].to = e + i
    /\ \A k \in 1 .. P : /\ s[a + k].from = e + a + Poolable(p.chunks)[k].start
                         /\ s[a + k].to = e + a + (Poolable(p.chunks)[k].start + PoolRatio)
    /\ \A i \in 1 .. b : s[a + P + i].from = e + a + N + (i - 1) /\ s[a + P + i].to = e + a + N + i

\* covered_spans cuts the old row into what a plan evicts, keeps and pools.
LEMMA SpansAre ==
    ASSUME NEW recs, NEW p, NEW e, NEW a, NEW P, NEW N, NEW b, Planned(recs, p, e, a, P, N, b),
           NEW s, s = Spans(recs, p)
    PROVE  Covered(s, p, e, a, P, N, b)
  <1> DEFINE SpanSet == [from : Nat, to : Nat]
             pool == Poolable(p.chunks)
             kept == Cardinality({i \in DOMAIN p.new : ~p.new[i].pooled})
             A == [i \in 1 .. a |-> Span(e + i - 1, e + i)]
             B == [k \in 1 .. P |-> Span(e + a + pool[k].start,
                                         e + a + pool[k].start + pool[k].count)]
             C == [i \in 1 .. b |-> Span(e + a + N + i - 1, e + a + N + i)]
  <1>1. /\ e \in Nat /\ a \in Nat /\ P \in Nat /\ N \in Nat /\ b \in Nat
    BY DEF Planned
  <1>2. /\ e = p.evict /\ e + a = Len(Virtuals(recs)) /\ N = Total(p.chunks)
        /\ Len(p.new) = a + P + b
    BY DEF Planned, Layout
  <1>3. /\ pool \in Seq(Chunk) /\ Len(pool) = P /\ DOMAIN pool = 1 .. P
        /\ \A k \in 1 .. P : pool[k].start \in Nat /\ pool[k].count = PoolRatio
    BY LenProperties DEF Planned, MadeFrom
  <1>4. PoolRatio \in Nat \ {0, 1}
    BY WindowAssumption
  <1>5. kept = b
    <2>1. {i \in DOMAIN p.new : ~p.new[i].pooled} = a + P + 1 .. a + P + b
      <3>1. /\ \A i \in 1 .. a + P : p.new[i].pooled
            /\ \A i \in 1 .. b : ~p.new[a + P + i].pooled
            /\ DOMAIN p.new = 1 .. a + P + b
        BY NewPooled
      <3>2. ASSUME NEW i \in 1 .. a + P + b
            PROVE  ~p.new[i].pooled <=> i \in a + P + 1 .. a + P + b
        <4>1. CASE i <= a + P
          BY <1>1, <3>1, <4>1
        <4>2. CASE ~(i <= a + P)
          <5>1. i - (a + P) \in 1 .. b /\ a + P + (i - (a + P)) = i
            BY <1>1, <4>2
          <5>2. ~p.new[a + P + (i - (a + P))].pooled
            BY <3>1, <5>1
          <5> QED
            BY <1>1, <4>2, <5>1, <5>2
        <4> QED
          BY <4>1, <4>2
      <3>3. \A i \in a + P + 1 .. a + P + b : i \in 1 .. a + P + b
        BY <1>1
      <3> QED
        BY <3>1, <3>2, <3>3
    <2>2. a + P \in Nat /\ b \in Nat
      BY <1>1
    <2>3. Cardinality((a + P) + 1 .. (a + P) + b) = b
      BY <2>2, IntervalSize, SMTT(40)
    <2> QED
      BY <2>1, <2>3
  <1>6. s = A \o B \o C
    <2>1. Len(Virtuals(recs)) - p.evict = a
      BY <1>1, <1>2
    <2>2. kept = Cardinality({i \in DOMAIN p.new : ~p.new[i].pooled})
      OBVIOUS
    <2> HIDE DEF kept
    <2> QED
      BY <1>2, <1>3, <1>5, <2>1, <2>2 DEF Spans
  <1>7. A \in Seq(SpanSet) /\ B \in Seq(SpanSet) /\ C \in Seq(SpanSet)
        /\ Len(A) = a /\ Len(B) = P /\ Len(C) = b
    <2>1. A \in [1 .. a -> SpanSet]
      BY <1>1 DEF Span
    <2>2. B \in [1 .. P -> SpanSet]
      <3> HIDE DEF pool
      <3> QED
        BY <1>1, <1>3, <1>4 DEF Span
    <2>3. C \in [1 .. b -> SpanSet]
      BY <1>1 DEF Span
    <2> HIDE DEF A, B, C, SpanSet
    <2>4. A \in Seq(SpanSet) /\ B \in Seq(SpanSet) /\ C \in Seq(SpanSet)
      BY <1>1, <2>1, <2>2, <2>3, SeqDef
    <2> QED
      BY <1>1, <2>1, <2>2, <2>3, <2>4, LenProperties
  <1>8. /\ \A i \in 1 .. a : A[i].from = e + (i - 1) /\ A[i].to = e + i
        /\ \A k \in 1 .. P : /\ B[k].from = e + a + pool[k].start
                             /\ B[k].to = e + a + (pool[k].start + PoolRatio)
        /\ \A i \in 1 .. b : C[i].from = e + a + N + (i - 1) /\ C[i].to = e + a + N + i
    <2> HIDE DEF pool
    <2> QED
      BY <1>1, <1>3, <1>4 DEF Span
  <1> HIDE DEF A, B, C, SpanSet
  <1>9. /\ DOMAIN s = 1 .. Len(A) + Len(B) + Len(C)
        /\ \A i \in 1 .. Len(A) : s[i] = A[i]
        /\ \A i \in 1 .. Len(B) : s[Len(A) + i] = B[i]
        /\ \A i \in 1 .. Len(C) : s[Len(A) + Len(B) + i] = C[i]
    <2>1. A \in Seq(SpanSet) /\ B \in Seq(SpanSet) /\ C \in Seq(SpanSet)
      BY <1>7
    <2> QED
      BY <1>6, <2>1, ThreeParts
  <1> QED
    BY <1>7, <1>8, <1>9 DEF Covered, pool

\* The covered rows follow each other.
LEMMA SpansInOrder ==
    ASSUME NEW recs, NEW p, NEW e, NEW a, NEW P, NEW N, NEW b, Planned(recs, p, e, a, P, N, b),
           NEW s, Covered(s, p, e, a, P, N, b)
    PROVE  /\ \A i \in 1 .. a + P + b : /\ s[i].from \in Nat /\ s[i].to \in Nat
                                        /\ s[i].from < s[i].to /\ s[i].to <= e + a + N + b
           /\ \A i, j \in 1 .. a + P + b : i < j => s[i].to <= s[j].from
  <1> DEFINE pool == Poolable(p.chunks)
             M == Made(p.chunks)
             chunks == p.chunks
  <1>1. /\ e \in Nat /\ a \in Nat /\ P \in Nat /\ N \in Nat /\ b \in Nat
        /\ PoolRatio \in Nat \ {0, 1}
    BY WindowAssumption DEF Planned
  <1>2. \A k \in 1 .. P : /\ Nth(M, k) \in M /\ pool[k] = chunks[Nth(M, k)]
                          /\ pool[k].start \in Nat /\ pool[k].count = PoolRatio
                          /\ pool[k].start + PoolRatio <= N
    BY DEF Planned, MadeFrom
  <1>3. /\ M \in SUBSET (DOMAIN chunks) /\ \A j, k \in 1 .. P : j < k => Nth(M, j) < Nth(M, k)
    <2>1. chunks \in Seq(Chunk)
      BY DEF Planned, Tiling
    <2>2. M \in SUBSET (DOMAIN chunks) /\ IsFiniteSet(DOMAIN chunks) /\ DOMAIN chunks \subseteq Nat
      BY <2>1, ChunkTypes
    <2>3. M \in SUBSET Nat /\ IsFiniteSet(M)
      BY <2>2, FS_Subset
    <2>4. P = Cardinality(M)
      BY DEF Planned, Layout
    <2> QED
      BY <2>2, <2>3, <2>4, NthIs
  <1>4. ASSUME NEW j \in 1 .. P, NEW k \in 1 .. P, j < k
        PROVE  pool[j].start + PoolRatio <= pool[k].start
    <2>1. Nth(M, j) < Nth(M, k) /\ Nth(M, j) \in DOMAIN chunks /\ Nth(M, k) \in DOMAIN chunks
      BY <1>2, <1>3, <1>4
    <2>2. chunks[Nth(M, j)].start + chunks[Nth(M, j)].count <= chunks[Nth(M, k)].start
      BY <2>1 DEF Planned, Tiling
    <2> QED
      BY <1>2, <2>2
  <1>5. /\ \A i \in 1 .. a : s[i].from = e + (i - 1) /\ s[i].to = e + i
        /\ \A k \in 1 .. P : /\ s[a + k].from = e + a + pool[k].start
                             /\ s[a + k].to = e + a + (pool[k].start + PoolRatio)
        /\ \A i \in 1 .. b : s[a + P + i].from = e + a + N + (i - 1) /\ s[a + P + i].to = e + a + N + i
    BY DEF Covered
  <1> HIDE DEF pool, M, chunks
  <1>6. ASSUME NEW i \in 1 .. a + P + b
        PROVE  \/ i \in 1 .. a
               \/ \E k \in 1 .. P : i = a + k
               \/ \E k \in 1 .. b : i = a + P + k
    BY <1>1, ThreeRanges
  <1>7. ASSUME NEW i \in 1 .. a
        PROVE  /\ s[i].from \in Nat /\ s[i].to \in Nat /\ s[i].from < s[i].to
               /\ s[i].to <= e + a
    BY <1>1, <1>5
  <1>8. ASSUME NEW k \in 1 .. P
        PROVE  /\ s[a + k].from \in Nat /\ s[a + k].to \in Nat /\ s[a + k].from < s[a + k].to
               /\ e + a <= s[a + k].from /\ s[a + k].to <= e + a + N
    <2>1. /\ pool[k].start \in Nat /\ pool[k].start + PoolRatio <= N
          /\ s[a + k].from = e + a + pool[k].start
          /\ s[a + k].to = e + a + (pool[k].start + PoolRatio)
      BY <1>2, <1>5
    <2> QED
      BY <1>1, <2>1
  <1>9. ASSUME NEW k \in 1 .. b
        PROVE  /\ s[a + P + k].from \in Nat /\ s[a + P + k].to \in Nat
               /\ s[a + P + k].from < s[a + P + k].to
               /\ e + a + N <= s[a + P + k].from /\ s[a + P + k].to <= e + a + N + b
    BY <1>1, <1>5
  <1>10. ASSUME NEW i \in 1 .. a + P + b
         PROVE  /\ s[i].from \in Nat /\ s[i].to \in Nat
                /\ s[i].from < s[i].to /\ s[i].to <= e + a + N + b
    <2>1. CASE i \in 1 .. a
      BY <1>1, <1>7, <2>1
    <2>2. CASE \E k \in 1 .. P : i = a + k
      BY <1>1, <1>8, <2>2
    <2>3. CASE \E k \in 1 .. b : i = a + P + k
      BY <1>1, <1>9, <2>3
    <2> QED
      BY <1>6, <2>1, <2>2, <2>3
  <1>11. ASSUME NEW i \in 1 .. a + P + b, NEW j \in 1 .. a + P + b, i < j
         PROVE  s[i].to <= s[j].from
    <2>1. CASE i \in 1 .. a
      <3>1. CASE j \in 1 .. a
        BY <1>1, <1>5, <1>11, <2>1, <3>1
      <3>2. CASE \E k \in 1 .. P : j = a + k
        <4>1. PICK k \in 1 .. P : j = a + k
          BY <3>2
        <4>2. e + a <= s[j].from /\ s[j].from \in Nat
          BY <1>8, <4>1
        <4>3. s[i].to <= e + a /\ s[i].to \in Nat
          BY <1>7, <2>1
        <4> QED
          BY <1>1, <4>2, <4>3
      <3>3. CASE \E k \in 1 .. b : j = a + P + k
        <4>1. PICK k \in 1 .. b : j = a + P + k
          BY <3>3
        <4>2. e + a + N <= s[j].from /\ s[j].from \in Nat
          BY <1>9, <4>1
        <4>3. s[i].to <= e + a /\ s[i].to \in Nat
          BY <1>7, <2>1
        <4> QED
          BY <1>1, <4>2, <4>3
      <3> QED
        BY <1>6, <3>1, <3>2, <3>3
    <2>2. CASE \E k \in 1 .. P : i = a + k
      <3>4. PICK h \in 1 .. P : i = a + h
        BY <2>2
      <3>1. CASE j \in 1 .. a
        BY <1>1, <1>11, <3>1, <3>4
      <3>2. CASE \E k \in 1 .. P : j = a + k
        <4>1. PICK k \in 1 .. P : j = a + k
          BY <3>2
        <4>2. h < k
          BY <1>1, <1>11, <3>4, <4>1
        <4>3. /\ s[i].to = e + a + (pool[h].start + PoolRatio)
              /\ s[j].from = e + a + pool[k].start
          BY <1>5, <3>4, <4>1
        <4>4. pool[h].start + PoolRatio <= pool[k].start
          BY <1>4, <4>2
        <4>5. pool[h].start \in Nat /\ pool[k].start \in Nat
          BY <1>2
        <4> QED
          BY <1>1, <4>3, <4>4, <4>5
      <3>3. CASE \E k \in 1 .. b : j = a + P + k
        <4>1. PICK k \in 1 .. b : j = a + P + k
          BY <3>3
        <4>2. e + a + N <= s[j].from /\ s[j].from \in Nat
          BY <1>9, <4>1
        <4>3. s[i].to <= e + a + N /\ s[i].to \in Nat
          BY <1>8, <3>4
        <4> QED
          BY <1>1, <4>2, <4>3
      <3> QED
        BY <1>6, <3>1, <3>2, <3>3
    <2>3. CASE \E k \in 1 .. b : i = a + P + k
      <3>1. PICK h \in 1 .. b : i = a + P + h
        BY <2>3
      <3>2. \E k \in 1 .. b : j = a + P + k
        <4>1. j - (a + P) \in 1 .. b /\ j = a + P + (j - (a + P))
          BY <1>1, <1>11, <3>1
        <4> QED
          BY <4>1
      <3>3. PICK k \in 1 .. b : j = a + P + k
        BY <3>2
      <3>4. h < k
        BY <1>1, <1>11, <3>1, <3>3
      <3>5. s[i].to = e + a + N + h /\ s[j].from = e + a + N + (k - 1)
        BY <1>5, <3>1, <3>3
      <3> QED
        BY <1>1, <3>4, <3>5
    <2> QED
      BY <1>6, <2>1, <2>2, <2>3
  <1> QED
    BY <1>10, <1>11

\* A member of a chunk is one of the raw frames in chunks.
LEMMA Within ==
    ASSUME NEW u \in Nat, NEW x \in Nat, NEW r \in Nat, NEW N \in Nat, NEW b \in Nat,
           x + r <= N, NEW i \in 1 .. r
    PROVE  /\ x + i \in 1 .. N /\ u + (x + i) \in 1 .. u + N + b
           /\ u + (x + i) \in u + 1 .. u + N
  OBVIOUS

\* The runs that a plan leaves.
Runs(w, p, e, a, P, N, b) ==
    /\ Len(w) = a + P + b /\ DOMAIN w = 1 .. a + P + b
    /\ \A i \in 1 .. a : w[i] = row[e + i]
    /\ \A k \in 1 .. P :
           w[a + k] = UNION {row[e + a + (Poolable(p.chunks)[k].start + i)] : i \in 1 .. PoolRatio}
    /\ \A i \in 1 .. b : w[a + P + i] = row[e + a + N + i]

\* apply_frame_window_plan leaves these runs, of frames that were committed.
LEMMA RewrittenAre ==
    ASSUME NEW n \in Nat, row \in Seq(SUBSET (1 .. n)),
           NEW p, NEW e, NEW a, NEW P, NEW N, NEW b, Planned(records, p, e, a, P, N, b),
           Len(row) = e + a + N + b, NEW w, w = Rewritten(p)
    PROVE  w \in Seq(SUBSET (1 .. n)) /\ Runs(w, p, e, a, P, N, b)
  <1> DEFINE pool == Poolable(p.chunks)
             S == SUBSET (1 .. n)
             A == SubSeq(row, e + 1, e + a)
             B == [k \in 1 .. P |-> UNION {row[e + a + (pool[k].start + i)] : i \in 1 .. PoolRatio}]
             C == SubSeq(row, (e + a + N) + 1, e + a + N + b)
  <1>1. /\ e \in Nat /\ a \in Nat /\ P \in Nat /\ N \in Nat /\ b \in Nat
        /\ PoolRatio \in Nat \ {0, 1}
    BY WindowAssumption DEF Planned
  <1>2. /\ e = p.evict /\ e + a = Len(Virtuals(records)) /\ N = Total(p.chunks)
    BY DEF Planned, Layout
  <1>3. /\ pool \in Seq(Chunk) /\ Len(pool) = P /\ DOMAIN pool = 1 .. P
        /\ \A k \in 1 .. P : /\ pool[k].start \in Nat /\ pool[k].count = PoolRatio
                             /\ pool[k].start + PoolRatio <= N
    BY LenProperties DEF Planned, MadeFrom
  <1>4. w = A \o B \o C
    <2>1. w = SubSeq(row, e + 1, e + a)
              \o [k \in 1 .. P |-> UNION {row[e + a + pool[k].start + i] : i \in 1 .. pool[k].count}]
              \o SubSeq(row, e + a + N + 1, e + a + N + b)
      BY <1>2, <1>3 DEF Rewritten, Consumed
    <2>2. B = [k \in 1 .. P |-> UNION {row[e + a + pool[k].start + i] : i \in 1 .. pool[k].count}]
      <3> HIDE DEF pool
      <3>1. ASSUME NEW k \in 1 .. P
            PROVE  {row[e + a + (pool[k].start + i)] : i \in 1 .. PoolRatio}
                       = {row[e + a + pool[k].start + i] : i \in 1 .. pool[k].count}
        <4>1. pool[k].start \in Nat /\ pool[k].count = PoolRatio
          BY <1>3
        <4>2. \A i \in 1 .. PoolRatio : e + a + (pool[k].start + i) = e + a + pool[k].start + i
          BY <1>1, <4>1
        <4> QED
          BY <4>1, <4>2
      <3> QED
        BY <3>1
    <2> HIDE DEF pool, A, B, C
    <2> QED
      BY <2>1, <2>2 DEF A, C
  <1>5. A \in Seq(S) /\ Len(A) = a /\ \A i \in 1 .. a : A[i] = row[e + i]
    <2> DEFINE t == e + a
    <2>1. t \in 0 .. Len(row) /\ e \in 0 .. t /\ t - e = a
      BY <1>1
    <2>2. row \in Seq(S) /\ A = SubSeq(row, e + 1, t)
      OBVIOUS
    <2> HIDE DEF A, S, t
    <2>3. A \in Seq(S) /\ Len(A) = t - e /\ \A i \in 1 .. t - e : A[i] = row[e + i]
      BY <2>1, <2>2, Part
    <2> QED
      BY <2>1, <2>3
  <1>6. C \in Seq(S) /\ Len(C) = b /\ \A i \in 1 .. b : C[i] = row[e + a + N + i]
    <2> DEFINE m == e + a + N
               t == e + a + N + b
    <2>1. t \in 0 .. Len(row) /\ m \in 0 .. t /\ t - m = b
      BY <1>1
    <2>2. row \in Seq(S) /\ C = SubSeq(row, m + 1, t)
      OBVIOUS
    <2> HIDE DEF C, S, m, t
    <2>3. C \in Seq(S) /\ Len(C) = t - m /\ \A i \in 1 .. t - m : C[i] = row[m + i]
      BY <2>1, <2>2, Part
    <2> QED
      BY <2>1, <2>3 DEF m
  <1>7. B \in Seq(S) /\ Len(B) = P
    <2>1. ASSUME NEW k \in 1 .. P, NEW i \in 1 .. PoolRatio
          PROVE  row[e + a + (pool[k].start + i)] \in S
      <3>1. pool[k].start \in Nat /\ pool[k].start + PoolRatio <= N
        BY <1>3
      <3> HIDE DEF pool
      <3>2. e + a + (pool[k].start + i) \in 1 .. Len(row)
        <4>1. e + a \in Nat
          BY <1>1
        <4>2. (e + a) + (pool[k].start + i) \in 1 .. (e + a) + N + b
          BY <1>1, <3>1, <4>1, Within
        <4> QED
          BY <4>2
      <3>3. row \in Seq(S)
        OBVIOUS
      <3> QED
        BY <3>2, <3>3, ElementOfSeq
    <2>2. ASSUME NEW k \in 1 .. P PROVE B[k] \in S
      BY <2>1
    <2>3. B \in [1 .. P -> S]
      BY <2>2
    <2> HIDE DEF B, S
    <2>4. B \in Seq(S)
      BY <1>1, <2>3, SeqDef
    <2> QED
      BY <1>1, <2>3, <2>4, LenProperties
  <1>8. \A k \in 1 .. P : B[k] = UNION {row[e + a + (pool[k].start + i)] : i \in 1 .. PoolRatio}
    OBVIOUS
  <1> HIDE DEF A, B, C, S
  <1>9. /\ w \in Seq(S) /\ Len(w) = Len(A) + Len(B) + Len(C)
        /\ DOMAIN w = 1 .. Len(A) + Len(B) + Len(C)
        /\ \A i \in 1 .. Len(A) : w[i] = A[i]
        /\ \A i \in 1 .. Len(B) : w[Len(A) + i] = B[i]
        /\ \A i \in 1 .. Len(C) : w[Len(A) + Len(B) + i] = C[i]
    <2>1. A \in Seq(S) /\ B \in Seq(S) /\ C \in Seq(S)
      BY <1>5, <1>6, <1>7
    <2> QED
      BY <1>4, <2>1, ThreeParts
  <1>10. Len(w) = a + P + b /\ DOMAIN w = 1 .. a + P + b
    BY <1>5, <1>6, <1>7, <1>9
  <1>11. \A i \in 1 .. a : w[i] = row[e + i]
    BY <1>5, <1>9
  <1>12. \A i \in 1 .. b : w[a + P + i] = row[e + a + N + i]
    BY <1>5, <1>6, <1>7, <1>9
  <1>13. \A k \in 1 .. P : w[a + k] = UNION {row[e + a + (pool[k].start + i)] : i \in 1 .. PoolRatio}
    BY <1>5, <1>7, <1>8, <1>9, ZenonT(60)
  <1> QED
    BY <1>9, <1>10, <1>11, <1>12, <1>13 DEF Runs, S, pool

\* A new run has the frames of the rows that it covers.
LEMMA CoversAre ==
    ASSUME NEW recs, NEW p, NEW e, NEW a, NEW P, NEW N, NEW b, Planned(recs, p, e, a, P, N, b),
           NEW s, Covered(s, p, e, a, P, N, b), NEW w, Runs(w, p, e, a, P, N, b),
           NEW i \in 1 .. a + P + b
    PROVE  w[i] = UNION {row[j] : j \in s[i].from + 1 .. s[i].to}
  <1> DEFINE pool == Poolable(p.chunks)
  <1>1. /\ e \in Nat /\ a \in Nat /\ P \in Nat /\ N \in Nat /\ b \in Nat
        /\ PoolRatio \in Nat \ {0, 1}
    BY WindowAssumption DEF Planned
  <1>2. \A k \in 1 .. P : pool[k].start \in Nat
    BY DEF Planned, MadeFrom
  <1>3. /\ \A h \in 1 .. a : s[h].from = e + (h - 1) /\ s[h].to = e + h
        /\ \A k \in 1 .. P : /\ s[a + k].from = e + a + pool[k].start
                             /\ s[a + k].to = e + a + (pool[k].start + PoolRatio)
        /\ \A h \in 1 .. b : s[a + P + h].from = e + a + N + (h - 1) /\ s[a + P + h].to = e + a + N + h
    BY DEF Covered
  <1>4. /\ \A h \in 1 .. a : w[h] = row[e + h]
        /\ \A k \in 1 .. P :
               w[a + k] = UNION {row[e + a + (pool[k].start + h)] : h \in 1 .. PoolRatio}
        /\ \A h \in 1 .. b : w[a + P + h] = row[e + a + N + h]
    BY DEF Runs
  <1> HIDE DEF pool
  <1>5. ASSUME NEW m \in Nat, m > 0 PROVE UNION {row[j] : j \in m .. m} = row[m]
    <2>1. m .. m = {m}
      BY <1>5
    <2> QED
      BY <2>1
  <1>6. CASE i \in 1 .. a
    <2>1. s[i].from + 1 = e + i /\ s[i].to = e + i /\ e + i \in Nat /\ e + i > 0
      BY <1>1, <1>3, <1>6
    <2>2. UNION {row[j] : j \in e + i .. e + i} = row[e + i]
      BY <1>5, <2>1
    <2> QED
      BY <1>4, <1>6, <2>1, <2>2
  <1>7. ASSUME NEW k \in 1 .. P, i = a + k
        PROVE  w[i] = UNION {row[j] : j \in s[i].from + 1 .. s[i].to}
    <2> DEFINE x == pool[k].start
               u == e + a
               r == PoolRatio
    <2>1. x \in Nat /\ u \in Nat /\ r \in Nat /\ s[i].from = u + x /\ s[i].to = u + (x + r)
      BY <1>1, <1>2, <1>3, <1>7
    <2>2. w[i] = UNION {row[u + (x + h)] : h \in 1 .. r}
      BY <1>4, <1>7
    <2> HIDE DEF x, u, r
    <2>3. {row[u + (x + h)] : h \in 1 .. r} = {row[j] : j \in u + x + 1 .. u + (x + r)}
      <3>1. \A h \in 1 .. r : u + (x + h) \in u + x + 1 .. u + (x + r)
        BY <2>1
      <3>2. ASSUME NEW j \in u + x + 1 .. u + (x + r)
            PROVE  \E h \in 1 .. r : j = u + (x + h)
        <4>1. j - (u + x) \in 1 .. r /\ j = u + (x + (j - (u + x)))
          BY <2>1
        <4> QED
          BY <4>1
      <3> QED
        BY <3>1, <3>2
    <2> QED
      BY <2>1, <2>2, <2>3
  <1>8. ASSUME NEW h \in 1 .. b, i = a + P + h
        PROVE  w[i] = UNION {row[j] : j \in s[i].from + 1 .. s[i].to}
    <2> DEFINE m == e + a + N + h
    <2>1. s[i].from + 1 = m /\ s[i].to = m /\ m \in Nat /\ m > 0
      <3> DEFINE u == e + a + N
      <3>1. u \in Nat /\ h \in Nat /\ h > 0 /\ u + (h - 1) + 1 = u + h /\ u + h \in Nat /\ u + h > 0
        BY <1>1
      <3>2. s[i].from = u + (h - 1) /\ s[i].to = u + h
        BY <1>3, <1>8
      <3> HIDE DEF u
      <3>3. s[i].from + 1 = u + h /\ s[i].to = u + h
        BY <3>1, <3>2
      <3> QED
        BY <3>1, <3>3 DEF u
    <2>3. w[i] = row[m]
      BY <1>4, <1>8
    <2> HIDE DEF m
    <2>2. UNION {row[j] : j \in m .. m} = row[m]
      BY <1>5, <2>1
    <2> QED
      BY <2>1, <2>2, <2>3
  <1>9. \/ i \in 1 .. a
        \/ \E k \in 1 .. P : i = a + k
        \/ \E h \in 1 .. b : i = a + P + h
    BY <1>1, ThreeRanges
  <1> QED
    BY <1>6, <1>7, <1>8, <1>9

\* The first runs are those that a token sees.
LEMMA SeenAre ==
    ASSUME Inv, NEW k \in DOMAIN visible, NEW L, L = Len(row)
    PROVE  /\ visible[k] \in 0 .. L /\ L \in Nat
           /\ \A j \in 1 .. L : (\E f \in row[j] : f < k) <=> j <= visible[k]
  <1> DEFINE S == {j \in 1 .. L : \E f \in row[j] : f < k}
  <1>1. L \in Nat /\ DOMAIN row = 1 .. L
    BY LenProperties DEF Inv, TypeInv
  <1>2. visible[k] = Cardinality(S)
    BY <1>1 DEF Inv, VisibleExact
  <1>3. ASSUME NEW j \in S, NEW i \in 1 .. j PROVE i \in S
    <2>1. i \in 1 .. L /\ j \in 1 .. L /\ (i = j \/ i < j)
      BY <1>1
    <2>2. CASE i < j
      <3>1. PICK f \in row[j] : f < k
        OBVIOUS
      <3>2. PICK g \in row[i] : TRUE
        BY <2>1, RunIs
      <3>3. g < f
        BY <2>1, <2>2, RunsInOrder
      <3>4. f \in Nat /\ g \in Nat /\ k \in Nat
        <4>1. k \in 1 .. Len(visible) /\ Len(visible) \in Nat
          BY LenProperties DEF Inv, TypeInv
        <4>2. row[i] \in SUBSET Nat /\ row[j] \in SUBSET Nat
          BY <2>1, RunIs
        <4> QED
          BY <4>1, <4>2
      <3>5. g < k
        BY <3>1, <3>3, <3>4
      <3> QED
        BY <2>1, <3>5
    <2> QED
      BY <2>1, <2>2
  <1>4. S \in SUBSET (1 .. L) /\ \A j \in S : 1 .. j \subseteq S
    BY <1>3
  <1> HIDE DEF S
  <1>5. Cardinality(S) \in 0 .. L /\ S = 1 .. Cardinality(S)
    BY <1>1, <1>4, Initial
  <1>6. ASSUME NEW j \in 1 .. L PROVE (\E f \in row[j] : f < k) <=> j <= visible[k]
    <2>1. (\E f \in row[j] : f < k) <=> j \in S
      BY DEF S
    <2>2. j \in S <=> j \in 1 .. visible[k]
      BY <1>2, <1>5
    <2>3. j \in 1 .. visible[k] <=> j <= visible[k]
      BY <1>1, <1>2, <1>5
    <2> QED
      BY <2>1, <2>2, <2>3
  <1> QED
    BY <1>1, <1>2, <1>5, <1>6

\* The count that a plan maps a token's count to is exact again.
LEMMA RemapExact ==
    ASSUME Inv, NEW p, NEW e, NEW a, NEW P, NEW N, NEW b, Planned(records, p, e, a, P, N, b),
           NEW s, Covered(s, p, e, a, P, N, b), NEW w, Runs(w, p, e, a, P, N, b),
           NEW k \in DOMAIN visible
    PROVE  Remap(s, Min({visible[k], Len(records)}))
               = Cardinality({i \in DOMAIN w : \E f \in w[i] : f < k})
  <1> DEFINE L == Len(row)
             c == visible[k]
             M == a + P + b
  <1>1. /\ c \in 0 .. L /\ L \in Nat
        /\ \A j \in 1 .. L : (\E f \in row[j] : f < k) <=> j <= c
    BY SeenAre
  <1>2. Len(records) = L /\ L = e + a + N + b
    BY DEF Inv, RecordsDescribeRow, Planned, Layout
  <1>3. Min({c, Len(records)}) = c
    <2>1. c \in Nat /\ c <= L
      BY <1>1
    <2> HIDE DEF c, L
    <2>2. Min({c, L}) = IF c <= L THEN c ELSE L
      BY <1>1, <2>1, MinMax
    <2> QED
      BY <1>2, <2>1, <2>2
  <1>4. \A i \in 1 .. M : /\ s[i].from \in Nat /\ s[i].to \in Nat
                          /\ s[i].from < s[i].to /\ s[i].to <= e + a + N + b
    BY SpansInOrder
  <1>5. DOMAIN s = 1 .. M /\ DOMAIN w = 1 .. M
    BY DEF Covered, Runs
  <1>6. \A i \in 1 .. M : w[i] = UNION {row[j] : j \in s[i].from + 1 .. s[i].to}
    BY CoversAre
  <1> HIDE DEF L, c, M
  <1>7. ASSUME NEW i \in 1 .. M PROVE (\E f \in w[i] : f < k) <=> s[i].from < c
    <2> DEFINE x == s[i].from
               y == s[i].to
    <2>1. x \in Nat /\ y \in Nat /\ x < y /\ y <= L
      BY <1>2, <1>4
    <2>2. w[i] = UNION {row[j] : j \in x + 1 .. y}
      BY <1>6
    <2> HIDE DEF x, y
    <2>3. ASSUME NEW f \in w[i], f < k PROVE x < c
      <3>1. PICK j \in x + 1 .. y : f \in row[j]
        BY <2>2
      <3>2. j \in 1 .. L /\ x < j
        BY <1>1, <2>1
      <3>3. j <= c
        BY <1>1, <2>3, <3>1, <3>2
      <3> QED
        BY <1>1, <2>1, <3>2, <3>3
    <2>4. ASSUME x < c PROVE \E f \in w[i] : f < k
      <3>1. x + 1 \in 1 .. L /\ x + 1 \in x + 1 .. y /\ x + 1 <= c
        BY <1>1, <2>1, <2>4
      <3>2. PICK f \in row[x + 1] : f < k
        BY <1>1, <3>1
      <3>3. f \in w[i]
        BY <2>2, <3>1, <3>2
      <3> QED
        BY <3>2, <3>3
    <2> QED
      BY <2>3, <2>4 DEF x
  <1>8. {i \in DOMAIN s : s[i].from < c} = {i \in DOMAIN w : \E f \in w[i] : f < k}
    BY <1>5, <1>7
  <1>9. Remap(s, c) = Cardinality({i \in DOMAIN s : s[i].from < c})
    BY DEF Remap
  <1> QED
    BY <1>3, <1>8, <1>9 DEF c

\* The frames of the runs at the indices J.
FramesAt(J) == UNION {row[j] : j \in J}

\* Raw runs hold as many frames as they are runs.
LEMMA RawRuns ==
    ASSUME Inv, NEW J \in SUBSET (1 .. Len(row)), \A j \in J : ~records[j].pooled
    PROVE  IsFiniteSet(FramesAt(J)) /\ Cardinality(FramesAt(J)) = Cardinality(J)
  <1> DEFINE U == UNION {row[j] : j \in J}
             f == [j \in J |-> Newest(row[j])]
  <1>1. \A j \in J : row[j] = {f[j]}
    BY RunIs
  <1>2. f \in [J -> U]
    BY <1>1
  <1>3. ASSUME NEW i \in J, NEW j \in J, f[i] = f[j] PROVE i = j
    <2>1. row[i] = row[j] /\ row[i] # {}
      BY <1>1, <1>3
    <2>2. i \in Nat /\ j \in Nat
      OBVIOUS
    <2>3. i < j => row[i] \cap row[j] = {}
      BY RunsInOrder
    <2>4. j < i => row[j] \cap row[i] = {}
      BY RunsInOrder
    <2> QED
      BY <2>1, <2>2, <2>3, <2>4
  <1>4. \A x \in U : \E j \in J : f[j] = x
    BY <1>1
  <1>5. Len(row) \in Nat
    BY LenProperties DEF Inv, TypeInv
  <1>6. IsFiniteSet(J)
    <2>1. IsFiniteSet(1 .. Len(row))
      BY <1>5, FS_Interval
    <2> QED
      BY <2>1, FS_Subset
  <1> HIDE DEF f, U
  <1>7. ExistsBijection(J, U)
    <2>1. f \in Bijection(J, U)
      BY <1>2, <1>3, <1>4 DEF Bijection, Injection, Surjection, IsInjective
    <2> QED
      BY <2>1 DEF ExistsBijection
  <1>8. IsFiniteSet(U) /\ Cardinality(U) = Cardinality(J)
    BY <1>6, <1>7, FS_Bijection
  <1> QED
    BY <1>8 DEF U, FramesAt

\* A record describes a run.
Describes(r, run) ==
    /\ run # {} /\ r.sources = Cardinality(run) /\ r.pooled = (r.sources > 1)
    /\ r.ts = frames[Newest(run)].ts
    /\ \A f \in run : frames[f].grid = r.grid

\* The run of a pooled frame that a plan makes.
LEMMA MadeRun ==
    ASSUME Inv, NEW p, NEW e, NEW a, NEW P, NEW N, NEW b, Planned(records, p, e, a, P, N, b),
           NEW w, Runs(w, p, e, a, P, N, b), NEW k \in 1 .. P
    PROVE  Cardinality(w[a + k]) = PoolRatio /\ Describes(p.new[a + k], w[a + k])
  <1> DEFINE c == Poolable(p.chunks)[k]
             r == PoolRatio
             u == e + a
             z == Produced(Raws(records), p.chunks)[k]
             J == u + c.start + 1 .. u + c.start + r
             L == Len(row)
  <1>1. /\ e \in Nat /\ a \in Nat /\ P \in Nat /\ N \in Nat /\ b \in Nat
        /\ r \in Nat \ {0, 1} /\ u \in Nat
    BY WindowAssumption DEF Planned
  <1>2. /\ c.start \in Nat /\ c.start + r <= N
        /\ z.pooled = TRUE /\ z.sources = r /\ z.ts = records[u + (c.start + r)].ts
        /\ \A i \in 1 .. r : records[u + (c.start + i)].grid = z.grid
    BY DEF Planned, MadeFrom
  <1>3. p.new[a + k] = z
    BY DEF Planned, Layout
  <1>4. w[a + k] = UNION {row[u + (c.start + i)] : i \in 1 .. r}
    BY DEF Runs
  <1>5. L = u + N + b /\ L \in Nat
    BY LenProperties DEF Planned, Layout, Inv, TypeInv, RecordsDescribeRow
  <1>6. \A i \in 1 .. u + N + b : records[i].pooled <=> i <= u
    BY DEF Planned
  <1> HIDE DEF c, r, u, z, L
  <1>7. ASSUME NEW i \in 1 .. r
        PROVE  /\ u + (c.start + i) \in 1 .. L /\ ~records[u + (c.start + i)].pooled
               /\ u + (c.start + i) = u + c.start + i
    <2>1. /\ u + (c.start + i) \in 1 .. u + N + b /\ u + (c.start + i) \in u + 1 .. u + N
      BY <1>1, <1>2, Within
    <2>2. ~(u + (c.start + i) <= u)
      BY <1>1, <2>1
    <2> QED
      BY <1>1, <1>2, <1>5, <1>6, <2>1, <2>2
  <1>8. ASSUME NEW j \in J PROVE \E i \in 1 .. r : j = u + (c.start + i)
    <2>1. j - (u + c.start) \in 1 .. r /\ j = u + (c.start + (j - (u + c.start)))
      BY <1>1, <1>2
    <2> QED
      BY <2>1
  <1>9. w[a + k] = UNION {row[j] : j \in J}
    <2>1. \A i \in 1 .. r : u + (c.start + i) \in J
      BY <1>1, <1>2
    <2>2. {row[u + (c.start + i)] : i \in 1 .. r} = {row[j] : j \in J}
      BY <1>8, <2>1
    <2> QED
      BY <1>4, <2>2
  <1>10. J \in SUBSET (1 .. L) /\ \A j \in J : ~records[j].pooled
    BY <1>7, <1>8
  <1>11. Cardinality(J) = r
    <2>1. u + c.start \in Nat /\ r \in Nat
      BY <1>1, <1>2
    <2> QED
      BY <2>1, IntervalSize
  <1> HIDE DEF J
  <1>12. Cardinality(w[a + k]) = r
    <2>1. J \in SUBSET (1 .. Len(row)) /\ \A j \in J : ~records[j].pooled
      BY <1>10 DEF L
    <2> QED
      BY <1>9, <1>11, <2>1, RawRuns DEF FramesAt
  <1>13. z.ts = frames[Newest(w[a + k])].ts
    <2> DEFINE m == u + (c.start + r)
               x == Newest(row[m])
    <2>1. r \in 1 .. r
      BY <1>1
    <2>2. m \in 1 .. L
      BY <1>7, <2>1
    <2>3. x \in row[m] /\ (\A f \in row[m] : f <= x) /\ records[m].ts = frames[x].ts
      BY <2>2, RunIs DEF L
    <2>4. w[a + k] \in SUBSET Nat
      <3>1. \A i \in 1 .. r : row[u + (c.start + i)] \in SUBSET Nat
        BY <1>7, RunIs DEF L
      <3> QED
        BY <1>4, <3>1
    <2>5. x \in w[a + k]
      BY <1>4, <2>1, <2>3
    <2>6. ASSUME NEW f \in w[a + k] PROVE f <= x
      <3>1. PICK i \in 1 .. r : f \in row[u + (c.start + i)]
        BY <1>4
      <3>2. u + (c.start + i) \in 1 .. L
        BY <1>7
      <3>3. CASE i = r
        BY <2>3, <3>1, <3>3
      <3>4. CASE i # r
        <4>1. u + (c.start + i) < m
          BY <1>1, <1>2, <3>4
        <4>2. f < x
          BY <2>2, <2>3, <3>1, <3>2, <4>1, RunsInOrder DEF L
        <4> QED
          BY <2>4, <2>5, <4>2
      <3> QED
        BY <3>3, <3>4
    <2> HIDE DEF m, x
    <2>7. Newest(w[a + k]) = x
      BY <2>4, <2>5, <2>6, MaxIs DEF Newest
    <2> QED
      BY <1>2, <2>3, <2>7 DEF m
  <1>14. ASSUME NEW f \in w[a + k] PROVE frames[f].grid = z.grid
    <2>1. PICK i \in 1 .. r : f \in row[u + (c.start + i)]
      BY <1>4
    <2>2. u + (c.start + i) \in 1 .. Len(row)
      BY <1>7 DEF L
    <2>3. frames[f].grid = records[u + (c.start + i)].grid
      BY <2>1, <2>2, RunIs
    <2> QED
      BY <1>2, <2>3
  <1>15. w[a + k] # {} /\ (r > 1) = TRUE
    BY <1>1, <1>12, FS_EmptySet
  <1>16. z.pooled = (z.sources > 1)
    BY <1>2, <1>15
  <1>17. Describes(z, w[a + k])
    BY <1>2, <1>12, <1>13, <1>14, <1>15, <1>16 DEF Describes
  <1> QED
    BY <1>3, <1>12, <1>17 DEF r

\* One of the runs that a plan leaves.
LEMMA NextRun ==
    ASSUME Inv, NEW p, NEW e, NEW a, NEW P, NEW N, NEW b, Planned(records, p, e, a, P, N, b),
           NEW s, Covered(s, p, e, a, P, N, b), NEW w, Runs(w, p, e, a, P, N, b),
           NEW i \in 1 .. a + P + b
    PROVE  Describes(p.new[i], w[i])
  <1> DEFINE L == Len(row)
  <1>1. /\ e \in Nat /\ a \in Nat /\ P \in Nat /\ N \in Nat /\ b \in Nat
        /\ PoolRatio \in Nat \ {0, 1}
    BY WindowAssumption DEF Planned
  <1>2. L = e + a + N + b
    BY DEF Planned, Layout, Inv, RecordsDescribeRow
  <1>3. /\ \A h \in 1 .. a : w[h] = row[e + h]
        /\ \A h \in 1 .. b : w[a + P + h] = row[e + a + N + h]
    BY DEF Runs
  <1>4. /\ \A h \in 1 .. a : p.new[h] = records[e + h]
        /\ \A h \in 1 .. b : p.new[a + P + h] = records[e + a + N + h]
    BY DEF Planned, Layout
  <1> HIDE DEF L
  <1>5. ASSUME NEW m \in 1 .. L, w[i] = row[m], p.new[i] = records[m]
        PROVE  Describes(p.new[i], w[i])
    <2>1. Describes(records[m], row[m])
      BY RunIs DEF L, Describes
    <2> QED
      BY <1>5, <2>1
  <1>6. CASE i \in 1 .. a
    <2>1. e + i \in 1 .. L
      BY <1>1, <1>2, <1>6
    <2> QED
      BY <1>3, <1>4, <1>5, <1>6, <2>1
  <1>7. ASSUME NEW h \in 1 .. b, i = a + P + h
        PROVE  Describes(p.new[i], w[i])
    <2>1. e + a + N + h \in 1 .. L
      BY <1>1, <1>2
    <2>2. w[i] = row[e + a + N + h] /\ p.new[i] = records[e + a + N + h]
      BY <1>3, <1>4, <1>7
    <2> QED
      BY <1>5, <2>1, <2>2
  <1>8. ASSUME NEW k \in 1 .. P, i = a + k
        PROVE  Describes(p.new[i], w[i])
    <2>1. Describes(p.new[a + k], w[a + k])
      BY MadeRun
    <2> QED
      BY <1>8, <2>1
  <1>9. \/ i \in 1 .. a
        \/ \E k \in 1 .. P : i = a + k
        \/ \E h \in 1 .. b : i = a + P + h
    BY <1>1, ThreeRanges
  <1> QED
    BY <1>6, <1>7, <1>8, <1>9

\* The runs that a plan leaves are in the order of their frames, the pooled
\* ones first.
LEMMA NextInOrder ==
    ASSUME Inv, NEW p, NEW e, NEW a, NEW P, NEW N, NEW b, Planned(records, p, e, a, P, N, b),
           NEW s, Covered(s, p, e, a, P, N, b), NEW w, Runs(w, p, e, a, P, N, b),
           NEW i \in 1 .. a + P + b, NEW j \in 1 .. a + P + b, i < j
    PROVE  /\ \A f \in w[i], g \in w[j] : f < g
           /\ p.new[j].pooled => p.new[i].pooled
  <1> DEFINE L == Len(row)
             M == a + P + b
  <1>1. /\ e \in Nat /\ a \in Nat /\ P \in Nat /\ N \in Nat /\ b \in Nat
    BY DEF Planned
  <1>2. L = e + a + N + b
    BY DEF Planned, Layout, Inv, RecordsDescribeRow
  <1>3. \A h \in 1 .. M : w[h] = UNION {row[m] : m \in s[h].from + 1 .. s[h].to}
    BY CoversAre
  <1>4. /\ \A h \in 1 .. M : /\ s[h].from \in Nat /\ s[h].to \in Nat
                             /\ s[h].from < s[h].to /\ s[h].to <= e + a + N + b
        /\ s[i].to <= s[j].from
    BY SpansInOrder
  <1> HIDE DEF L, M
  <1>5. ASSUME NEW f \in w[i], NEW g \in w[j] PROVE f < g
    <2>1. i \in 1 .. M /\ j \in 1 .. M
      BY DEF M
    <2>2. PICK x \in s[i].from + 1 .. s[i].to : f \in row[x]
      BY <1>3, <2>1
    <2>3. PICK y \in s[j].from + 1 .. s[j].to : g \in row[y]
      BY <1>3, <2>1
    <2>4. x \in 1 .. L /\ y \in 1 .. L /\ x < y
      BY <1>2, <1>4, <2>1
    <2> QED
      BY <2>2, <2>3, <2>4, RunsInOrder DEF L
  <1>6. ASSUME p.new[j].pooled PROVE p.new[i].pooled
    <2>1. /\ \A h \in 1 .. a + P : p.new[h].pooled
          /\ \A h \in 1 .. b : ~p.new[a + P + h].pooled
      BY NewPooled
    <2>2. j <= a + P
      <3>1. ASSUME ~(j <= a + P) PROVE FALSE
        <4>1. j - (a + P) \in 1 .. b /\ a + P + (j - (a + P)) = j
          BY <1>1, <3>1
        <4>2. ~p.new[a + P + (j - (a + P))].pooled
          BY <2>1, <4>1
        <4> QED
          BY <1>6, <4>1, <4>2
      <3> QED
        BY <3>1
    <2>3. i \in 1 .. a + P
      BY <1>1, <2>2
    <2> QED
      BY <2>1, <2>3
  <1> QED
    BY <1>5, <1>6

\* The raw frames that a plan drops.
DroppedRaws(p) == UNION {Tile(p.chunks[k]) : k \in Dropped(p.chunks)}

\* Every old run is evicted, dropped or covered.
LEMMA EveryRun ==
    ASSUME NEW recs, NEW p, NEW e, NEW a, NEW P, NEW N, NEW b, Planned(recs, p, e, a, P, N, b),
           NEW s, Covered(s, p, e, a, P, N, b),
           NEW j \in 1 .. e + a + N + b
    PROVE  (\E i \in 1 .. a + P + b : j \in s[i].from + 1 .. s[i].to)
               <=> ~(j <= e) /\ ~(\E x \in DroppedRaws(p) : j = e + a + x)
  <1> DEFINE T == UNION {Tile(p.chunks[k]) : k \in Dropped(p.chunks)}
             pool == Poolable(p.chunks)
             M == Made(p.chunks)
             chunks == p.chunks
  <1> SUFFICES (\E i \in 1 .. a + P + b : j \in s[i].from + 1 .. s[i].to)
                   <=> ~(j <= e) /\ ~(\E x \in T : j = e + a + x)
    BY DEF DroppedRaws
  <1>1. /\ e \in Nat /\ a \in Nat /\ P \in Nat /\ N \in Nat /\ b \in Nat
        /\ PoolRatio \in Nat \ {0, 1}
    BY WindowAssumption DEF Planned
  <1>2. \A k \in 1 .. P : /\ Nth(M, k) \in M /\ pool[k] = chunks[Nth(M, k)]
                          /\ pool[k].start \in Nat /\ pool[k].count = PoolRatio
                          /\ pool[k].start + PoolRatio <= N
    BY DEF Planned, MadeFrom
  <1>3. /\ \A i \in 1 .. a : s[i].from = e + (i - 1) /\ s[i].to = e + i
        /\ \A k \in 1 .. P : /\ s[a + k].from = e + a + pool[k].start
                             /\ s[a + k].to = e + a + (pool[k].start + PoolRatio)
        /\ \A i \in 1 .. b : s[a + P + i].from = e + a + N + (i - 1) /\ s[a + P + i].to = e + a + N + i
    BY DEF Covered
  <1>4. /\ chunks \in Seq(Chunk)
        /\ UNION {Tile(chunks[k]) : k \in DOMAIN chunks} = 1 .. N
        /\ \A h, k \in DOMAIN chunks : h < k => chunks[h].start + chunks[h].count <= chunks[k].start
    BY DEF Planned, Tiling
  <1>5. /\ M \subseteq DOMAIN chunks /\ DOMAIN chunks \subseteq Nat
        /\ Dropped(chunks) = DOMAIN chunks \ M
        /\ \A k \in DOMAIN chunks : chunks[k].start \in Nat /\ chunks[k].count \in Nat
        /\ \A k \in M : Position(M, k) \in 1 .. P /\ Nth(M, Position(M, k)) = k
    <2>1. M \in SUBSET (DOMAIN chunks) /\ IsFiniteSet(DOMAIN chunks) /\ DOMAIN chunks \subseteq Nat
      BY <1>4, ChunkTypes
    <2>2. M \in SUBSET Nat /\ IsFiniteSet(M)
      BY <2>1, FS_Subset
    <2>3. P = Cardinality(M)
      BY DEF Planned, Layout
    <2>4. \A k \in DOMAIN chunks : chunks[k].start \in Nat /\ chunks[k].count \in Nat
      BY <1>4, ChunkTypes
    <2> QED
      BY <2>1, <2>2, <2>3, <2>4, NthIs DEF Dropped
  <1> HIDE DEF pool, M, chunks
  <1>6. T \subseteq 1 .. N
    BY <1>4, <1>5 DEF chunks
  <1>7. ASSUME NEW h \in DOMAIN chunks, NEW k \in DOMAIN chunks, h # k
        PROVE  Tile(chunks[h]) \cap Tile(chunks[k]) = {}
    <2>1. h < k \/ k < h
      BY <1>5, <1>7
    <2>2. chunks[h].start + chunks[h].count <= chunks[k].start
          \/ chunks[k].start + chunks[k].count <= chunks[h].start
      BY <1>4, <2>1
    <2> QED
      BY <1>5, <2>2 DEF Tile
  <1>8. CASE j <= e
    <2>1. ASSUME NEW i \in 1 .. a + P + b PROVE ~(j \in s[i].from + 1 .. s[i].to)
      <3>1. e <= s[i].from /\ s[i].from \in Nat
        <4>1. CASE i \in 1 .. a
          BY <1>1, <1>3, <4>1
        <4>2. ASSUME NEW k \in 1 .. P, i = a + k PROVE e <= s[i].from /\ s[i].from \in Nat
          BY <1>1, <1>2, <1>3, <4>2
        <4>3. ASSUME NEW k \in 1 .. b, i = a + P + k PROVE e <= s[i].from /\ s[i].from \in Nat
          BY <1>1, <1>3, <4>3
        <4> QED
          BY <1>1, <4>1, <4>2, <4>3, ThreeRanges
      <3> QED
        BY <1>1, <1>8, <3>1
    <2> QED
      BY <1>8, <2>1
  <1>9. CASE ~(j <= e) /\ j <= e + a
    <2>1. j - e \in 1 .. a /\ j - e \in 1 .. a + P + b /\ e + (j - e) = j /\ e + ((j - e) - 1) + 1 = j
      BY <1>1, <1>9
    <2>2. s[j - e].from + 1 = j /\ s[j - e].to = j
      BY <1>3, <2>1
    <2>3. ~\E x \in T : j = e + a + x
      <3>1. ASSUME NEW x \in 1 .. N PROVE j # e + a + x
        BY <1>1, <1>9
      <3> QED
        BY <1>6, <3>1
    <2> QED
      BY <1>1, <1>9, <2>1, <2>2, <2>3
  <1>10. CASE ~(j <= e + a) /\ j <= e + a + N
    <2> DEFINE x == j - (e + a)
    <2>1. x \in 1 .. N /\ j = e + a + x /\ ~(j <= e)
      BY <1>1, <1>10
    <2> HIDE DEF x
    <2>2. PICK h \in DOMAIN chunks : x \in Tile(chunks[h])
      BY <1>4, <2>1
    <2>3. (\E y \in T : j = e + a + y) <=> x \in T
      BY <1>1, <1>6, <2>1
    <2>4. CASE h \in M
      <3> DEFINE k == Position(M, h)
      <3>1. k \in 1 .. P /\ Nth(M, k) = h
        BY <1>5, <2>4
      <3> HIDE DEF k
      <3>2. pool[k] = chunks[h] /\ pool[k].start \in Nat /\ pool[k].count = PoolRatio
        BY <1>2, <3>1
      <3>3. x \in pool[k].start + 1 .. pool[k].start + PoolRatio
        BY <2>2, <3>2 DEF Tile
      <3>4. j \in s[a + k].from + 1 .. s[a + k].to /\ a + k \in 1 .. a + P + b
        BY <1>1, <1>3, <2>1, <3>1, <3>2, <3>3
      <3>5. x \notin T
        <4>1. \A g \in Dropped(chunks) : x \notin Tile(chunks[g])
          BY <1>5, <1>7, <2>2, <2>4
        <4> QED
          BY <4>1 DEF chunks
      <3> QED
        BY <2>1, <2>3, <3>4, <3>5
    <2>5. CASE h \notin M
      <3>1. x \in T
        BY <1>5, <2>2, <2>5 DEF chunks
      <3>2. ASSUME NEW i \in 1 .. a + P + b, j \in s[i].from + 1 .. s[i].to PROVE FALSE
        <4>1. CASE i \in 1 .. a
          BY <1>1, <1>3, <1>10, <3>2, <4>1
        <4>2. ASSUME NEW k \in 1 .. P, i = a + k PROVE FALSE
          <5>1. /\ Nth(M, k) \in M /\ pool[k] = chunks[Nth(M, k)]
                /\ pool[k].start \in Nat /\ pool[k].count = PoolRatio
                /\ s[i].from = e + a + pool[k].start
                /\ s[i].to = e + a + (pool[k].start + PoolRatio)
            BY <1>2, <1>3, <4>2
          <5>2. x \in pool[k].start + 1 .. pool[k].start + PoolRatio
            BY <1>1, <2>1, <3>2, <5>1
          <5>3. x \in Tile(chunks[Nth(M, k)])
            BY <5>1, <5>2 DEF Tile
          <5> QED
            BY <1>5, <1>7, <2>2, <2>5, <5>1, <5>3
        <4>3. ASSUME NEW k \in 1 .. b, i = a + P + k PROVE FALSE
          <5>1. s[i].from = e + a + N + (k - 1) /\ s[i].to = e + a + N + k
            BY <1>3, <4>3
          <5>2. s[i].from \in Nat /\ s[i].to \in Nat /\ e + a + N <= s[i].from
            BY <1>1, <5>1
          <5>3. s[i].from + 1 <= j
            BY <1>1, <3>2, <5>2
          <5> QED
            BY <1>1, <1>10, <5>2, <5>3
        <4> QED
          BY <1>1, <4>1, <4>2, <4>3, ThreeRanges
      <3> QED
        BY <2>3, <3>1, <3>2
    <2> QED
      BY <2>4, <2>5
  <1>11. CASE ~(j <= e + a + N)
    <2> DEFINE i == j - (e + a + N)
    <2>1. /\ i \in 1 .. b /\ a + P + i \in 1 .. a + P + b
          /\ e + a + N + i = j /\ e + a + N + (i - 1) + 1 = j /\ ~(j <= e)
      BY <1>1, <1>11
    <2> HIDE DEF i
    <2>2. s[a + P + i].from + 1 = j /\ s[a + P + i].to = j
      BY <1>3, <2>1
    <2>3. ~\E x \in T : j = e + a + x
      BY <1>1, <1>6, <1>11
    <2>4. j \in s[a + P + i].from + 1 .. s[a + P + i].to
      BY <1>1, <2>2
    <2> QED
      BY <2>1, <2>3, <2>4
  <1> QED
    BY <1>1, <1>8, <1>9, <1>10, <1>11

\* Runs of different places have no frame in common.
LEMMA SplitRuns ==
    ASSUME Inv, NEW A \in SUBSET (1 .. Len(row)), NEW B \in SUBSET (1 .. Len(row)), A \cap B = {}
    PROVE  /\ Cardinality(FramesAt(A)) \in Nat /\ Cardinality(FramesAt(B)) \in Nat
           /\ Cardinality(FramesAt(A \cup B)) = Cardinality(FramesAt(A)) + Cardinality(FramesAt(B))
  <1> DEFINE X == UNION {row[j] : j \in A}
             Y == UNION {row[j] : j \in B}
  <1>1. Len(frames) \in Nat /\ IsFiniteSet(1 .. Len(frames))
    <2>1. Len(frames) \in Nat
      BY LenProperties DEF Inv, TypeInv
    <2> QED
      BY <2>1, FS_Interval
  <1>2. X \subseteq 1 .. Len(frames) /\ Y \subseteq 1 .. Len(frames)
    BY RunIs
  <1>3. IsFiniteSet(X) /\ IsFiniteSet(Y)
    BY <1>1, <1>2, FS_Subset
  <1>4. X \cap Y = {}
    <2> SUFFICES ASSUME NEW f \in X, f \in Y PROVE FALSE
      OBVIOUS
    <2>1. PICK i \in A : f \in row[i]
      OBVIOUS
    <2>2. PICK j \in B : f \in row[j]
      OBVIOUS
    <2>3. i # j /\ i \in 1 .. Len(row) /\ j \in 1 .. Len(row)
      OBVIOUS
    <2>4. i < j \/ j < i
      BY <2>3
    <2>5. row[i] \cap row[j] = {} \/ row[j] \cap row[i] = {}
      BY <2>3, <2>4, RunsInOrder
    <2> QED
      BY <2>1, <2>2, <2>5
  <1> HIDE DEF X, Y
  <1>5. Cardinality(X \cup Y) = Cardinality(X) + Cardinality(Y) - Cardinality(X \cap Y)
    BY <1>3, FS_Union
  <1>6. Cardinality(X \cap Y) = 0
    BY <1>4, FS_EmptySet
  <1>7. Cardinality(X) \in Nat /\ Cardinality(Y) \in Nat
    BY <1>3, FS_CardinalityType
  <1>8. FramesAt(A \cup B) = X \cup Y /\ FramesAt(A) = X /\ FramesAt(B) = Y
    BY DEF FramesAt, X, Y
  <1>9. Cardinality(X \cup Y) = Cardinality(X) + Cardinality(Y)
    BY <1>5, <1>6, <1>7
  <1> QED
    BY <1>7, <1>8, <1>9

\* The sources of the first records are the frames of their runs.
LEMMA SourcesAre ==
    ASSUME Inv, NEW m \in 0 .. Len(row)
    PROVE  Cardinality(FramesAt(1 .. m))
               = SumFunctionOnSet([i \in DOMAIN records |-> records[i].sources], 1 .. m)
  <1> DEFINE S == 1 .. m
             D == [j \in S |-> row[j]]
             f == [i \in DOMAIN records |-> records[i].sources]
  <1>1. Len(row) \in Nat /\ DOMAIN records = 1 .. Len(row)
    BY LenProperties DEF Inv, TypeInv, RecordsDescribeRow
  <1>2. m \in Nat /\ S \subseteq 1 .. Len(row)
    BY <1>1
  <1>3. IsFiniteSet(S)
    BY <1>2, FS_Interval
  <1>4. ASSUME NEW x \in S PROVE IsFiniteSet(D[x]) /\ f[x] = Cardinality(D[x])
    <2>1. x \in 1 .. Len(row)
      BY <1>2
    <2>2. IsFiniteSet(row[x]) /\ records[x].sources = Cardinality(row[x])
      BY <2>1, RunIs
    <2> QED
      BY <1>1, <2>1, <2>2
  <1>5. ASSUME NEW x \in S, NEW y \in S, x # y PROVE D[x] \cap D[y] = {}
    <2>1. x \in 1 .. Len(row) /\ y \in 1 .. Len(row) /\ (x < y \/ y < x)
      BY <1>2, <1>5
    <2>2. row[x] \cap row[y] = {} \/ row[y] \cap row[x] = {}
      BY <2>1, RunsInOrder
    <2> QED
      BY <2>2
  <1>6. UNION {D[x] : x \in S} = FramesAt(1 .. m)
    BY DEF FramesAt
  <1> HIDE DEF S, D, f
  <1>7. Cardinality(UNION {D[x] : x \in S}) = SumFunctionOnSet(f, S)
    BY <1>3, <1>4, <1>5, SumOfParts
  <1> QED
    BY <1>6, <1>7 DEF S, f

\* Moving numbers up keeps how many they are.
LEMMA Moved ==
    ASSUME NEW T \in SUBSET Nat, IsFiniteSet(T), NEW u \in Nat
    PROVE  Cardinality({u + x : x \in T}) = Cardinality(T)
  <1> DEFINE U == {u + x : x \in T}
             f == [x \in T |-> u + x]
  <1>1. f \in [T -> U] /\ (\A y \in U : \E x \in T : f[x] = y)
    OBVIOUS
  <1>2. \A x, y \in T : f[x] = f[y] => x = y
    OBVIOUS
  <1> HIDE DEF f, U
  <1>3. f \in Bijection(T, U)
    BY <1>1, <1>2 DEF Bijection, Injection, Surjection, IsInjective
  <1>4. ExistsBijection(T, U)
    BY <1>3 DEF ExistsBijection
  <1>5. Cardinality(U) = Cardinality(T)
    BY <1>4, FS_Bijection
  <1> QED
    BY <1>5 DEF U

\* Every frame is in the row or counted as evicted, once.
LEMMA EvictedExact ==
    ASSUME Inv, NEW p, NEW e, NEW a, NEW P, NEW N, NEW b, Planned(records, p, e, a, P, N, b),
           NEW s, Covered(s, p, e, a, P, N, b), NEW w, Runs(w, p, e, a, P, N, b),
           NEW x, x = Members(p.chunks, Dropped(p.chunks)),
           NEW y, y = SumFunctionOnSet([i \in DOMAIN records |-> records[i].sources], 1 .. p.evict)
    PROVE  /\ x \in Nat /\ y \in Nat
           /\ (evicted + x + y) + Cardinality(UNION Range(w)) = Len(frames)
  <1> DEFINE T == DroppedRaws(p)
             L == Len(row)
             M == a + P + b
             A == 1 .. e
             D == {e + a + z : z \in T}
             C == {j \in 1 .. L : \E i \in 1 .. M : j \in s[i].from + 1 .. s[i].to}
             E == A \cup D
             RA == FramesAt(A)
             RD == FramesAt(D)
             RE == FramesAt(E)
             RC == FramesAt(C)
  <1>1. /\ e \in Nat /\ a \in Nat /\ P \in Nat /\ N \in Nat /\ b \in Nat /\ e = p.evict
    BY DEF Planned, Layout
  <1>2. L = e + a + N + b /\ L \in Nat /\ DOMAIN row = 1 .. L /\ evicted \in Nat
    BY LenProperties DEF Planned, Layout, Inv, TypeInv, RecordsDescribeRow
  <1>3. /\ IsFiniteSet(T) /\ x = Cardinality(T) /\ x \in Nat /\ T \in SUBSET (1 .. N)
    <2>1. Tiling(p.chunks, N) /\ p.chunks \in Seq(Chunk)
      BY DEF Planned, Tiling
    <2>2. Dropped(p.chunks) \in SUBSET (DOMAIN p.chunks)
      BY <2>1, ChunkTypes
    <2>3. UNION {Tile(p.chunks[k]) : k \in DOMAIN p.chunks} = 1 .. N
      BY <2>1 DEF Tiling
    <2>4. T \in SUBSET (1 .. N)
      BY <2>2, <2>3 DEF DroppedRaws
    <2> QED
      BY <1>1, <2>1, <2>2, <2>4, MembersAre DEF DroppedRaws
  <1>4. \A j \in 1 .. L : (\E i \in 1 .. M : j \in s[i].from + 1 .. s[i].to)
                             <=> ~(j <= e) /\ ~(\E z \in T : j = e + a + z)
    <2> SUFFICES ASSUME NEW j \in 1 .. L
                 PROVE  (\E i \in 1 .. M : j \in s[i].from + 1 .. s[i].to)
                             <=> ~(j <= e) /\ ~(\E z \in T : j = e + a + z)
      OBVIOUS
    <2>1. j \in 1 .. e + a + N + b
      BY <1>2
    <2> QED
      BY <2>1, EveryRun
  <1> HIDE DEF T, L, M
  <1>5. A \in SUBSET (1 .. L) /\ D \in SUBSET (1 .. L) /\ C \in SUBSET (1 .. L)
    BY <1>1, <1>2, <1>3, SMTT(40)
  <1>6. A \cap D = {}
    BY <1>1, <1>2, <1>3
  <1>7. (A \cup D) \cap C = {} /\ (A \cup D) \cup C = 1 .. L
    <2>1. ASSUME NEW j \in 1 .. L PROVE j \in C <=> j \notin A \cup D
      <3>1. j \in A <=> j <= e
        BY <1>1, <1>2
      <3>2. j \in D <=> \E z \in T : j = e + a + z
        OBVIOUS
      <3>3. j \in C <=> \E i \in 1 .. M : j \in s[i].from + 1 .. s[i].to
        OBVIOUS
      <3> HIDE DEF A, D, C
      <3> QED
        BY <1>4, <3>1, <3>2, <3>3
    <2> HIDE DEF A, D, C
    <2> QED
      BY <1>5, <2>1
  <1>8. Cardinality(D) = x
    <2>1. T \in SUBSET Nat /\ e + a \in Nat
      BY <1>1, <1>3
    <2> HIDE DEF D
    <2>2. Cardinality({(e + a) + z : z \in T}) = Cardinality(T)
      BY <1>3, <2>1, Moved
    <2> QED
      BY <1>3, <2>2 DEF D
  <1>9. \A j \in D : ~records[j].pooled
    <2>1. \A j \in 1 .. e + a + N + b : records[j].pooled <=> j <= e + a
      BY DEF Planned
    <2>2. \A j \in D : j \in 1 .. e + a + N + b /\ ~(j <= e + a)
      BY <1>1, <1>3
    <2> QED
      BY <2>1, <2>2
  <1> HIDE DEF D, C, A
  <1>10. Cardinality(RD) = x
    <2>1. D \in SUBSET (1 .. Len(row))
      BY <1>5 DEF L
    <2> QED
      BY <1>8, <1>9, <2>1, RawRuns
  <1>11. Cardinality(RA) = y
    <2>1. e \in 0 .. Len(row)
      BY <1>1, <1>2 DEF L
    <2> QED
      BY <1>1, <2>1, SourcesAre DEF A
  <1>12. /\ Cardinality(RA) \in Nat /\ Cardinality(RD) \in Nat
         /\ Cardinality(RE) = Cardinality(RA) + Cardinality(RD)
    <2>1. A \in SUBSET (1 .. Len(row)) /\ D \in SUBSET (1 .. Len(row)) /\ A \cap D = {}
      BY <1>5, <1>6 DEF L
    <2> QED
      BY <2>1, SplitRuns
  <1>13. /\ Cardinality(RC) \in Nat
         /\ Cardinality(FramesAt(1 .. L)) = Cardinality(RE) + Cardinality(RC)
    <2>1. E \in SUBSET (1 .. Len(row)) /\ C \in SUBSET (1 .. Len(row)) /\ E \cap C = {}
      BY <1>5, <1>7 DEF L
    <2>2. E \cup C = 1 .. L
      BY <1>7
    <2> HIDE DEF E
    <2>3. Cardinality(FramesAt(E \cup C)) = Cardinality(FramesAt(E)) + Cardinality(FramesAt(C))
      BY <2>1, SplitRuns
    <2>4. Cardinality(FramesAt(C)) \in Nat
      BY <2>1, SplitRuns
    <2> QED
      BY <2>2, <2>3, <2>4
  <1>14. UNION Range(w) = RC
    <2>1. DOMAIN w = 1 .. M
      BY DEF Runs, M
    <2>2. \A i \in 1 .. M : w[i] = UNION {row[j] : j \in s[i].from + 1 .. s[i].to}
      BY CoversAre DEF M
    <2>3. \A i \in 1 .. M : \A j \in s[i].from + 1 .. s[i].to : j \in 1 .. L
      <3>1. \A i \in 1 .. M : /\ s[i].from \in Nat /\ s[i].to \in Nat
                              /\ s[i].from < s[i].to /\ s[i].to <= e + a + N + b
        BY SpansInOrder DEF M
      <3> SUFFICES ASSUME NEW i \in 1 .. M
                   PROVE  \A j \in s[i].from + 1 .. s[i].to : j \in 1 .. L
        OBVIOUS
      <3> DEFINE from == s[i].from
                 to == s[i].to
      <3>2. from \in Nat /\ to \in Nat /\ to <= L
        BY <1>2, <3>1
      <3> HIDE DEF from, to
      <3>3. \A j \in from + 1 .. to : j \in 1 .. L
        BY <1>2, <3>2
      <3> QED
        BY <3>3 DEF from, to
    <2>4. UNION Range(w) \subseteq RC
      <3> SUFFICES ASSUME NEW f \in UNION Range(w) PROVE f \in RC
        OBVIOUS
      <3>1. PICK i \in 1 .. M : f \in w[i]
        BY <2>1 DEF Range
      <3>2. PICK j \in s[i].from + 1 .. s[i].to : f \in row[j]
        BY <2>2, <3>1
      <3>3. j \in C
        BY <2>3, <3>2 DEF C
      <3> QED
        BY <3>2, <3>3 DEF FramesAt
    <2>5. RC \subseteq UNION Range(w)
      <3> SUFFICES ASSUME NEW f \in RC PROVE f \in UNION Range(w)
        OBVIOUS
      <3>1. PICK j \in C : f \in row[j]
        BY DEF FramesAt
      <3>2. PICK i \in 1 .. M : j \in s[i].from + 1 .. s[i].to
        BY DEF C
      <3>3. f \in w[i]
        BY <2>2, <3>1, <3>2
      <3> QED
        BY <2>1, <3>3 DEF Range
    <2> QED
      BY <2>4, <2>5
  <1>15. FramesAt(1 .. L) = UNION Range(row)
    BY <1>2 DEF Range, FramesAt
  <1>16. evicted + Cardinality(UNION Range(row)) = Len(frames)
    BY DEF Inv, RecordsDescribeRow
  <1> HIDE DEF RA, RD, RE, RC
  <1>17. Cardinality(UNION Range(row)) = y + x + Cardinality(UNION Range(w))
    BY <1>3, <1>10, <1>11, <1>12, <1>13, <1>14, <1>15
  <1>18. Cardinality(UNION Range(w)) \in Nat /\ y \in Nat
    BY <1>11, <1>12, <1>13, <1>14
  <1> QED
    BY <1>2, <1>3, <1>16, <1>17, <1>18, SMTT(40)

\* A plan that fits can be laid out, and leaves the newest frame.
LEMMA PlannedIs ==
    ASSUME Inv, NEW p, Fits(p, records), records # <<>>
    PROVE  \E e, a, P, N, b \in Nat : Planned(records, p, e, a, P, N, b) /\ b > 0
  <1>1. InOrder(records)
    BY InvInOrder
  <1>2. p.new \in Seq(Record)
    BY <1>1, LayoutIs
  <1>3. PICK e \in Nat, a \in Nat, P \in Nat, N \in Nat, b \in Nat :
            /\ Layout(records, p, e, a, P, N, b)
            /\ records # <<>> => b > 0
            /\ \A i \in 1 .. e + a + N + b :
                   records[i] \in Record /\ (records[i].pooled <=> i <= e + a)
            /\ Poolable(p.chunks) \in Seq(Chunk) /\ Len(Poolable(p.chunks)) = P
            /\ MadeFrom(records, p, e + a, P, N)
            /\ Tiling(p.chunks, N)
    BY <1>1, LayoutIs
  <1>4. Planned(records, p, e, a, P, N, b)
    BY <1>2, <1>3 DEF Planned
  <1> QED
    BY <1>3, <1>4

\* A plan in effect keeps the invariant.
LEMMA ApplyStep ==
    ASSUME Inv, NEW p, NEW e, NEW a, NEW P, NEW N, NEW b, Planned(records, p, e, a, P, N, b), b > 0,
           Apply(p), UNCHANGED <<pooling, frames>>
    PROVE  Inv'
  <1> DEFINE s == Spans(records, p)
             w == Rewritten(p)
             M == a + P + b
             n == Len(frames)
             x == Members(p.chunks, Dropped(p.chunks))
             y == SumFunctionOnSet([i \in DOMAIN records |-> records[i].sources], 1 .. p.evict)
  <1>1. /\ e \in Nat /\ a \in Nat /\ P \in Nat /\ N \in Nat /\ b \in Nat
        /\ p.new \in Seq(Record) /\ Len(p.new) = M
        /\ Len(records) = e + a + N + b
    BY DEF Planned, Layout
  <1>2. /\ n \in Nat /\ row \in Seq(SUBSET (1 .. n)) /\ Len(row) = e + a + N + b
        /\ visible \in Seq(Nat) /\ DOMAIN visible = 1 .. Len(visible) /\ Len(visible) \in Nat
        /\ Len(visible) = n + 1 /\ evicted \in Nat
    BY <1>1, LenProperties DEF Inv, TypeInv, RecordsDescribeRow
  <1>3. Covered(s, p, e, a, P, N, b)
    BY SpansAre
  <1>4. w \in Seq(SUBSET (1 .. n)) /\ Runs(w, p, e, a, P, N, b)
    BY <1>2, RewrittenAre
  <1>5. /\ row' = w /\ records' = p.new
        /\ visible' = [k \in DOMAIN visible |-> Remap(s, Min({visible[k], Len(records)}))]
        /\ evicted' = evicted + x + y
        /\ frames' = frames /\ pooling' = pooling
    BY DEF Apply
  <1>6. Len(w) = M /\ DOMAIN w = 1 .. M
    BY <1>4 DEF Runs
  <1> HIDE DEF s, w, x, y
  <1>7. /\ x \in Nat /\ y \in Nat
        /\ (evicted + x + y) + Cardinality(UNION Range(w)) = n
    BY <1>3, <1>4, EvictedExact, ZenonT(60) DEF x, y
  <1>8. \A k \in DOMAIN visible :
            Remap(s, Min({visible[k], Len(records)}))
                = Cardinality({i \in DOMAIN w : \E f \in w[i] : f < k})
    BY <1>3, <1>4, RemapExact
  <1>9. \A i \in 1 .. M : Describes(p.new[i], w[i])
    BY <1>3, <1>4, NextRun
  <1>10. \A i, j \in 1 .. M : i < j =>
             /\ \A f \in w[i], g \in w[j] : f < g
             /\ p.new[j].pooled => p.new[i].pooled
    BY <1>3, <1>4, NextInOrder
  <1> HIDE DEF n, M
  <1>11. VisibleExact'
    <2>1. DOMAIN visible' = DOMAIN visible
      BY <1>5
    <2>2. \A k \in DOMAIN visible' :
              visible'[k] = Cardinality({i \in DOMAIN row' : \E f \in row'[i] : f < k})
      BY <1>5, <1>8, <2>1
    <2> QED
      BY <2>2 DEF VisibleExact
  <1>12. TypeInv'
    <2>1. \A k \in DOMAIN visible : Cardinality({i \in DOMAIN w : \E f \in w[i] : f < k}) \in Nat
      <3> SUFFICES ASSUME NEW k \in DOMAIN visible
                   PROVE  Cardinality({i \in DOMAIN w : \E f \in w[i] : f < k}) \in Nat
        OBVIOUS
      <3> DEFINE S == {i \in DOMAIN w : \E f \in w[i] : f < k}
      <3>1. IsFiniteSet(1 .. M)
        <4>1. M \in Nat
          BY <1>1 DEF M
        <4> QED
          BY <4>1, FS_Interval
      <3>2. S \subseteq 1 .. M
        BY <1>6
      <3> HIDE DEF S
      <3>3. IsFiniteSet(S)
        BY <3>1, <3>2, FS_Subset
      <3>4. Cardinality(S) \in Nat
        BY <3>3, FS_CardinalityType
      <3> QED
        BY <3>4 DEF S
    <2>2. visible' \in [1 .. n + 1 -> Nat]
      BY <1>2, <1>5, <1>8, <2>1
    <2>3. visible' \in Seq(Nat) /\ Len(visible') = n + 1
      <3>1. n + 1 \in Nat
        BY <1>2
      <3>2. visible' \in Seq(Nat)
        BY <2>2, <3>1
      <3> QED
        BY <2>2, <3>1, <3>2, LenProperties
    <2>4. evicted' \in Nat
      BY <1>2, <1>5, <1>7
    <2>5. pooling' \in BOOLEAN /\ frames' \in Seq(Frame)
      BY <1>5 DEF Inv, TypeInv
    <2>6. row' \in Seq(SUBSET (1 .. Len(frames')))
      BY <1>4, <1>5 DEF n
    <2>7. Len(visible') = Len(frames') + 1
      BY <1>5, <2>3 DEF n
    <2> QED
      BY <1>1, <1>5, <2>3, <2>4, <2>5, <2>6, <2>7 DEF TypeInv
  <1>13. TimesGrow'
    BY <1>5 DEF Inv, TimesGrow, Monotone
  <1>14. RunsFull'
    <2>1. \A i \in 1 .. M : w[i] # {}
      BY <1>9 DEF Describes
    <2>2. row[e + a + N + b] = {n}
      <3>1. frames # <<>>
        <4>1. Len(row) > 0
          BY <1>1, <1>2
        <4>2. row[1] # {} /\ row[1] \subseteq 1 .. Len(frames)
          BY <1>2, <4>1, RunIs
        <4> QED
          BY <4>2
      <3>2. row[Len(row)] = {Len(frames)}
        BY <3>1 DEF Inv, RunsFull
      <3> QED
        BY <1>2, <3>2 DEF n
    <2>3. b \in 1 .. b
      BY <1>1
    <2>4. w[a + P + b] = row[e + a + N + b]
      BY <1>4, <2>3 DEF Runs
    <2>5. w[Len(w)] = {n}
      BY <1>6, <2>2, <2>4 DEF M
    <2>6. w # <<>>
      BY <1>1, <1>6 DEF M
    <2> QED
      BY <1>5, <1>6, <2>1, <2>5, <2>6 DEF RunsFull, n
  <1>15. RecordsDescribeRow'
    <2>1. Len(row') = Len(records')
      BY <1>1, <1>5, <1>6
    <2>2. \A i \in DOMAIN row' :
              /\ records'[i].sources = Cardinality(row'[i])
              /\ records'[i].pooled = (records'[i].sources > 1)
              /\ records'[i].ts = frames'[Newest(row'[i])].ts
              /\ \A f \in row'[i] : frames'[f].grid = records'[i].grid
      BY <1>5, <1>6, <1>9 DEF Describes
    <2>3. \A i, j \in DOMAIN row' : i < j =>
              /\ \A f \in row'[i], g \in row'[j] : f < g
              /\ records'[j].pooled => records'[i].pooled
      BY <1>5, <1>6, <1>10
    <2>4. evicted' + Cardinality(UNION Range(row')) = Len(frames')
      BY <1>5, <1>7 DEF n
    <2> QED
      BY <2>1, <2>2, <2>3, <2>4 DEF RecordsDescribeRow
  <1> QED
    BY <1>11, <1>12, <1>13, <1>14, <1>15 DEF Inv

\* A new frame keeps the invariant.
LEMMA CommitStep ==
    ASSUME Inv, NEW dt \in Interval, NEW g \in Grid, CommitFrame(dt, g)
    PROVE  Inv'
  <1> DEFINE n == Len(frames)
             L == Len(row)
             ts == IF frames = <<>> THEN 0 ELSE Last(frames).ts + dt
             new == [ts |-> ts, grid |-> g]
             rec == [ts |-> ts, grid |-> g, pooled |-> FALSE, sources |-> 1]
  <1>1. /\ n \in Nat /\ L \in Nat /\ frames \in Seq(Frame) /\ records \in Seq(Record)
        /\ row \in Seq(SUBSET (1 .. n)) /\ visible \in Seq(Nat) /\ Len(visible) = n + 1
        /\ DOMAIN frames = 1 .. n /\ DOMAIN row = 1 .. L /\ Len(records) = L
        /\ DOMAIN records = 1 .. L /\ DOMAIN visible = 1 .. n + 1 /\ evicted \in Nat
    BY LenProperties DEF Inv, TypeInv, RecordsDescribeRow
  <1>2. /\ ts \in Nat /\ dt \in Nat /\ \A i \in 1 .. n : frames[i].ts \in Nat /\ frames[i].ts <= ts
    <2>1. dt \in Nat
      BY WindowAssumption
    <2>2. ASSUME NEW i \in 1 .. n PROVE frames[i].ts \in Nat
      <3>1. frames[i] \in Frame
        BY <1>1
      <3> QED
        BY <3>1 DEF Frame
    <2>3. CASE n = 0
      <3>1. frames = <<>>
        BY <1>1, <2>3
      <3> QED
        BY <2>1, <2>3, <3>1
    <2>4. CASE n # 0
      <3>1. frames # <<>> /\ n \in 1 .. n
        BY <1>1, <2>4
      <3>2. Last(frames) = frames[n]
        BY DEF Last
      <3>3. frames[n].ts \in Nat
        BY <2>2, <3>1
      <3>4. ts = frames[n].ts + dt
        BY <3>1, <3>2
      <3>5. ASSUME NEW i \in 1 .. n PROVE frames[i].ts <= frames[n].ts
        <4> HIDE DEF n
        <4>1. i = n \/ i < n
          BY <1>1
        <4>2. CASE i < n
          BY <1>1, <3>1, <4>2 DEF Inv, TimesGrow, Monotone
        <4>3. CASE i = n
          BY <3>3, <4>3
        <4> QED
          BY <4>1, <4>2, <4>3
      <3> HIDE DEF ts
      <3>6. ts \in Nat
        BY <2>1, <3>3, <3>4
      <3>7. ASSUME NEW i \in 1 .. n PROVE frames[i].ts <= ts
        <4> DEFINE z == frames[i].ts
                   u == frames[n].ts
        <4>1. z \in Nat /\ u \in Nat /\ z <= u /\ ts = u + dt
          BY <2>2, <3>3, <3>4, <3>5
        <4> HIDE DEF z, u
        <4>2. z <= ts
          BY <2>1, <4>1
        <4> QED
          BY <4>2 DEF z
      <3> QED
        BY <2>1, <2>2, <3>6, <3>7
    <2> QED
      BY <2>3, <2>4
  <1>3. /\ frames' = Append(frames, new) /\ records' = Append(records, rec)
        /\ row' = Append(row, {Len(frames')})
        /\ visible' = Append(visible, Last(visible) + 1)
        /\ evicted' = evicted /\ pooling' = pooling
    BY DEF CommitFrame
  <1> HIDE DEF ts
  <1>4. new \in Frame /\ rec \in Record
    BY <1>2 DEF Frame, Record
  <1>5. new.ts = ts /\ new.grid = g
    OBVIOUS
  <1>6. rec.ts = ts /\ rec.grid = g /\ rec.pooled = FALSE /\ rec.sources = 1
    OBVIOUS
  <1> HIDE DEF new, rec
  <1>7. /\ frames' \in Seq(Frame) /\ Len(frames') = n + 1 /\ DOMAIN frames' = 1 .. n + 1
        /\ frames'[n + 1] = new /\ \A i \in 1 .. n : frames'[i] = frames[i]
    BY <1>1, <1>3, <1>4, AppendProperties
  <1>8. /\ records' \in Seq(Record) /\ Len(records') = L + 1
        /\ records'[L + 1] = rec /\ \A i \in 1 .. L : records'[i] = records[i]
    BY <1>1, <1>3, <1>4, AppendProperties
  <1>9. /\ row' \in Seq(SUBSET (1 .. n + 1)) /\ Len(row') = L + 1 /\ DOMAIN row' = 1 .. L + 1
        /\ row'[L + 1] = {n + 1} /\ \A i \in 1 .. L : row'[i] = row[i]
    <2>1. row \in Seq(SUBSET (1 .. n + 1))
      <3>1. row \in [1 .. L -> SUBSET (1 .. n)]
        BY <1>1
      <3>2. SUBSET (1 .. n) \subseteq SUBSET (1 .. n + 1)
        BY <1>1
      <3>3. row \in [1 .. L -> SUBSET (1 .. n + 1)]
        BY <3>1, <3>2
      <3> QED
        BY <1>1, <3>3
    <2>2. {n + 1} \in SUBSET (1 .. n + 1)
      BY <1>1
    <2>3. row' = Append(row, {n + 1})
      BY <1>3, <1>7
    <2> QED
      BY <1>1, <2>1, <2>2, <2>3, AppendProperties
  <1>10. Last(visible) = visible[n + 1] /\ visible[n + 1] \in Nat
    BY <1>1 DEF Last
  <1>11. /\ visible' \in Seq(Nat) /\ Len(visible') = n + 2 /\ DOMAIN visible' = 1 .. n + 2
         /\ visible'[n + 2] = visible[n + 1] + 1 /\ \A k \in 1 .. n + 1 : visible'[k] = visible[k]
    <2>1. visible[n + 1] + 1 \in Nat
      BY <1>10
    <2>2. visible' = Append(visible, visible[n + 1] + 1)
      BY <1>3, <1>10
    <2>3. /\ visible' \in Seq(Nat) /\ Len(visible') = Len(visible) + 1
          /\ DOMAIN visible' = 1 .. Len(visible) + 1
          /\ visible'[Len(visible) + 1] = visible[n + 1] + 1
          /\ \A k \in 1 .. Len(visible) : visible'[k] = visible[k]
      BY <1>1, <2>1, <2>2, AppendProperties
    <2> QED
      BY <1>1, <2>3
  <1>12. \A i \in 1 .. L : \A f \in row[i] : f \in 1 .. n
    BY RunIs
  <1>13. Newest({n + 1}) = n + 1
    <2>1. {n + 1} \in SUBSET Nat /\ n + 1 \in {n + 1} /\ \A y \in {n + 1} : y <= n + 1
      BY <1>1
    <2> QED
      BY <2>1, MaxIs DEF Newest
  <1> HIDE DEF n, L
  <1>14. TypeInv'
    <2>1. pooling' \in BOOLEAN /\ evicted' \in Nat
      BY <1>3 DEF Inv, TypeInv
    <2>2. Len(visible') = Len(frames') + 1
      BY <1>1, <1>7, <1>11
    <2> QED
      BY <1>7, <1>8, <1>9, <1>11, <2>1, <2>2 DEF TypeInv
  <1>15. TimesGrow'
    <2> SUFFICES ASSUME NEW i \in 1 .. n + 1, NEW j \in 1 .. n + 1, i < j
                 PROVE  frames'[i].ts <= frames'[j].ts
      BY <1>7 DEF TimesGrow, Monotone
    <2>1. i \in 1 .. n /\ frames'[i] = frames[i] /\ (j \in 1 .. n \/ j = n + 1)
      BY <1>1, <1>7
    <2>2. CASE j \in 1 .. n
      <3>1. frames[i].ts <= frames[j].ts
        BY <1>1, <2>1, <2>2 DEF Inv, TimesGrow, Monotone
      <3> QED
        BY <1>7, <2>1, <2>2, <3>1
    <2>3. CASE j = n + 1
      BY <1>2, <1>5, <1>7, <2>1, <2>3
    <2> QED
      BY <2>1, <2>2, <2>3
  <1>16. RunsFull'
    <2>1. ASSUME NEW i \in 1 .. L + 1 PROVE row'[i] # {}
      <3>1. i \in 1 .. L \/ i = L + 1
        BY <1>1
      <3> QED
        BY <1>1, <1>9, <3>1 DEF Inv, RunsFull
    <2>2. row' # <<>>
      BY <1>1, <1>9
    <2>3. row'[Len(row')] = {Len(frames')}
      BY <1>7, <1>9
    <2> QED
      BY <1>9, <2>1, <2>2, <2>3 DEF RunsFull
  <1>17. RecordsDescribeRow'
    <2>1. Len(row') = Len(records')
      BY <1>8, <1>9
    <2>2. ASSUME NEW i \in DOMAIN row'
          PROVE  /\ records'[i].sources = Cardinality(row'[i])
                 /\ records'[i].pooled = (records'[i].sources > 1)
                 /\ records'[i].ts = frames'[Newest(row'[i])].ts
                 /\ \A f \in row'[i] : frames'[f].grid = records'[i].grid
      <3>1. i \in 1 .. L \/ i = L + 1
        BY <1>1, <1>9
      <3>2. CASE i \in 1 .. L
        <4>1. records'[i] = records[i] /\ row'[i] = row[i]
          BY <1>8, <1>9, <3>2
        <4>2. /\ Newest(row[i]) \in row[i]
              /\ records[i].sources = Cardinality(row[i])
              /\ records[i].pooled = (records[i].sources > 1)
              /\ records[i].ts = frames[Newest(row[i])].ts
              /\ \A f \in row[i] : frames[f].grid = records[i].grid
          BY <3>2, RunIs DEF L
        <4>3. \A f \in row[i] : frames'[f] = frames[f]
          BY <1>7, <1>12, <3>2
        <4> QED
          BY <4>1, <4>2, <4>3
      <3>3. CASE i = L + 1
        <4>1. Cardinality({n + 1}) = 1
          BY FS_Singleton
        <4>2. records'[i] = rec /\ row'[i] = {n + 1}
          BY <1>8, <1>9, <3>3
        <4>3. /\ rec.sources = Cardinality({n + 1}) /\ rec.pooled = (rec.sources > 1)
              /\ rec.ts = frames'[Newest({n + 1})].ts
              /\ \A f \in {n + 1} : frames'[f].grid = rec.grid
          <5>1. rec.pooled = (rec.sources > 1)
            <6>1. (1 > 1) = FALSE
              OBVIOUS
            <6> QED
              BY <1>6, <6>1, Zenon
          <5>2. rec.ts = frames'[Newest({n + 1})].ts
            BY <1>5, <1>6, <1>7, <1>13
          <5>3. \A f \in {n + 1} : frames'[f].grid = rec.grid
            BY <1>5, <1>6, <1>7
          <5> QED
            BY <1>6, <4>1, <5>1, <5>2, <5>3
        <4> QED
          BY <4>2, <4>3
      <3> QED
        BY <3>1, <3>2, <3>3
    <2>3. ASSUME NEW i \in DOMAIN row', NEW j \in DOMAIN row', i < j
          PROVE  /\ \A f \in row'[i], h \in row'[j] : f < h
                 /\ records'[j].pooled => records'[i].pooled
      <3>1. i \in 1 .. L /\ (j \in 1 .. L \/ j = L + 1)
        BY <1>1, <1>9, <2>3
      <3>2. records'[i] = records[i] /\ row'[i] = row[i]
        BY <1>8, <1>9, <3>1
      <3>3. CASE j \in 1 .. L
        <4>1. records'[j] = records[j] /\ row'[j] = row[j]
          BY <1>8, <1>9, <3>3
        <4>2. /\ \A f \in row[i], h \in row[j] : f < h
              /\ records[j].pooled => records[i].pooled
          BY <2>3, <3>1, <3>3, RunsInOrder DEF L
        <4> QED
          BY <3>2, <4>1, <4>2
      <3>4. CASE j = L + 1
        <4>1. records'[j] = rec /\ row'[j] = {n + 1}
          BY <1>8, <1>9, <3>4
        <4>2. \A f \in row[i] : f < n + 1
          BY <1>1, <1>12, <3>1
        <4> QED
          BY <1>6, <3>2, <4>1, <4>2
      <3> QED
        BY <3>1, <3>3, <3>4
    <2>4. evicted' + Cardinality(UNION Range(row')) = Len(frames')
      <3> DEFINE U == UNION Range(row)
      <3>1. U \subseteq 1 .. n
        BY <1>1, <1>12 DEF Range
      <3>2. UNION Range(row') = U \cup {n + 1}
        <4>1. ASSUME NEW f \in UNION Range(row') PROVE f \in U \cup {n + 1}
          <5>1. PICK i \in 1 .. L + 1 : f \in row'[i]
            BY <1>9 DEF Range
          <5>2. i \in 1 .. L \/ i = L + 1
            BY <1>1
          <5> QED
            BY <1>1, <1>9, <5>1, <5>2 DEF Range
        <4>2. ASSUME NEW f \in U PROVE f \in UNION Range(row')
          <5>1. PICK i \in 1 .. L : f \in row[i]
            BY <1>1 DEF Range
          <5>2. i \in DOMAIN row' /\ f \in row'[i]
            BY <1>1, <1>9, <5>1
          <5> QED
            BY <5>2 DEF Range
        <4>3. n + 1 \in UNION Range(row')
          <5>1. L + 1 \in DOMAIN row' /\ n + 1 \in row'[L + 1]
            BY <1>1, <1>9
          <5> QED
            BY <5>1 DEF Range
        <4> QED
          BY <4>1, <4>2, <4>3
      <3> HIDE DEF U
      <3>3. IsFiniteSet(U) /\ n + 1 \notin U
        <4>1. IsFiniteSet(1 .. n)
          BY <1>1, FS_Interval
        <4>2. IsFiniteSet(U)
          BY <3>1, <4>1, FS_Subset
        <4>3. n + 1 \notin 1 .. n
          BY <1>1
        <4> QED
          BY <3>1, <4>2, <4>3
      <3>4. Cardinality(U \cup {n + 1}) = Cardinality(U) + 1
        BY <3>3, FS_AddElement
      <3>5. Cardinality(U) \in Nat
        BY <3>3, FS_CardinalityType
      <3>6. evicted + Cardinality(U) = n
        BY DEF Inv, RecordsDescribeRow, n, U
      <3>7. Cardinality(UNION Range(row')) = Cardinality(U) + 1
        BY <3>2, <3>4
      <3> DEFINE c == Cardinality(U)
      <3>8. evicted' = evicted /\ Len(frames') = n + 1 /\ Cardinality(UNION Range(row')) = c + 1
        BY <1>3, <1>7, <3>7
      <3>9. c \in Nat /\ evicted + c = n
        BY <3>5, <3>6
      <3> HIDE DEF c
      <3>10. evicted + (c + 1) = n + 1
        BY <1>1, <3>9
      <3> QED
        BY <3>8, <3>10
    <2> QED
      BY <2>1, <2>2, <2>3, <2>4 DEF RecordsDescribeRow
  <1>18. VisibleExact'
    <2> SUFFICES ASSUME NEW k \in 1 .. n + 2
                 PROVE  visible'[k] = Cardinality({i \in DOMAIN row' : \E f \in row'[i] : f < k})
      BY <1>11 DEF VisibleExact
    <2> DEFINE S == {i \in DOMAIN row : \E f \in row[i] : f < k}
               T == {i \in DOMAIN row' : \E f \in row'[i] : f < k}
    <2>1. k \in 1 .. n + 1 \/ k = n + 2
      BY <1>1
    <2>2. CASE k \in 1 .. n + 1
      <3>1. visible[k] = Cardinality(S)
        BY <1>1, <2>2 DEF Inv, VisibleExact
      <3>2. ASSUME NEW i \in 1 .. L + 1
            PROVE  (\E f \in row'[i] : f < k) <=> i \in S
        <4>1. i \in 1 .. L \/ (i = L + 1 /\ i \notin 1 .. L)
          BY <1>1
        <4>2. CASE i \in 1 .. L
          BY <1>1, <1>9, <4>2
        <4>3. CASE i = L + 1 /\ i \notin 1 .. L
          <5>1. ~(n + 1 < k)
            BY <1>1, <2>2
          <5> QED
            BY <1>1, <1>9, <4>3, <5>1
        <4> QED
          BY <4>1, <4>2, <4>3
      <3>3. S \subseteq 1 .. L + 1
        BY <1>1
      <3>4. T = S
        BY <1>9, <3>2, <3>3
      <3> QED
        BY <1>11, <2>2, <3>1, <3>4
    <2>3. CASE k = n + 2
      <3>1. /\ visible[n + 1] \in 0 .. L
            /\ \A j \in 1 .. L : (\E f \in row[j] : f < n + 1) <=> j <= visible[n + 1]
        <4>1. n + 1 \in DOMAIN visible
          BY <1>1
        <4> QED
          BY <4>1, SeenAre DEF L
      <3>2. visible[n + 1] = L
        <4>1. CASE L = 0
          BY <3>1, <4>1
        <4>2. CASE L # 0
          <5>1. L \in 1 .. L
            BY <1>1, <4>2
          <5>2. PICK f \in row[L] : TRUE
            BY <5>1, RunIs DEF L
          <5>3. f < n + 1
            BY <1>1, <1>12, <5>1
          <5>4. L <= visible[n + 1]
            BY <3>1, <5>1, <5>3
          <5> QED
            BY <1>1, <3>1, <5>4
        <4> QED
          BY <4>1, <4>2
      <3>3. ASSUME NEW i \in 1 .. L + 1 PROVE \E f \in row'[i] : f < k
        <4>1. i \in 1 .. L \/ i = L + 1
          BY <1>1
        <4>2. CASE i \in 1 .. L
          <5>1. PICK f \in row[i] : TRUE
            BY <4>2, RunIs DEF L
          <5>2. f \in 1 .. n
            BY <1>12, <4>2
          <5>3. f < k /\ row'[i] = row[i]
            BY <1>1, <1>9, <2>3, <4>2, <5>2
          <5> QED
            BY <5>3
        <4>3. CASE i = L + 1
          <5>1. n + 1 < k
            BY <1>1, <2>3
          <5> QED
            BY <1>9, <4>3, <5>1
        <4> QED
          BY <4>1, <4>2, <4>3
      <3>4. T = 1 .. L + 1
        BY <1>9, <3>3
      <3>5. Cardinality(1 .. L + 1) = L + 1
        <4>1. L + 1 \in Nat
          BY <1>1
        <4> QED
          BY <4>1, IntervalSize
      <3> QED
        BY <1>11, <2>3, <3>2, <3>4, <3>5
    <2> QED
      BY <2>1, <2>2, <2>3
  <1> QED
    BY <1>14, <1>15, <1>16, <1>17, <1>18 DEF Inv

\* The raw runs that are behind the window are those that the planner counts.
LEMMA AgedRun ==
    ASSUME Inv, NEW v, v = Len(Virtuals(records)), NEW A, A = Aged(Raws(records)),
           NEW x \in 1 .. Len(row), v + x <= Len(row)
    PROVE  /\ v \in Nat /\ A \in Nat
           /\ Age(Newest(row[v + x])) \in Nat
           /\ Age(Newest(row[v + x])) > RawWindow <=> x <= A
  <1> DEFINE L == Len(row)
             R == Raws(records)
             m == Len(R)
             n == Len(frames)
             f == Newest(row[v + x])
  <1>1. /\ L \in Nat /\ Len(records) = L /\ n \in Nat /\ DOMAIN frames = 1 .. n
        /\ frames \in Seq(Frame) /\ InOrder(records)
    BY LenProperties, InvInOrder DEF Inv, TypeInv, RecordsDescribeRow
  <1>2. /\ v \in 0 .. L /\ R \in Seq(Record) /\ m = L - v
        /\ \A i \in 1 .. L - v : R[i] = records[v + i]
    <2>1. /\ v \in 0 .. Len(records) /\ Raws(records) \in Seq(Record)
          /\ Len(Raws(records)) = Len(records) - v
          /\ \A i \in 1 .. Len(records) - v : Raws(records)[i] = records[v + i]
      BY <1>1, Regions, ZenonT(60)
    <2> QED
      BY <1>1, <2>1
  <1>3. Monotone(R)
    BY <1>1, RawsInOrder
  <1> HIDE DEF R
  <1>4. /\ A \in 0 .. m
        /\ \A i \in 1 .. m : R[m].ts - R[i].ts > RawWindow <=> i <= A
    BY <1>2, <1>3, AgedAre DEF R
  <1> HIDE DEF L, m, f, n
  <1>5. /\ x \in 1 .. m /\ m \in 1 .. m /\ v + m = L /\ v + x \in 1 .. L /\ L \in 1 .. L /\ v \in Nat
    BY <1>1, <1>2 DEF L
  <1>6. R[x] = records[v + x] /\ R[m] = records[L]
    BY <1>2, <1>5
  <1>7. /\ f \in 1 .. n /\ records[v + x].ts = frames[f].ts
    BY <1>5, RunIs DEF L, n, f
  <1>8. row[L] = {n} /\ n \in 1 .. n
    <2>1. row[L] # {} /\ row[L] \subseteq 1 .. n
      BY <1>5, RunIs DEF L, n
    <2>2. frames # <<>>
      BY <1>1, <2>1 DEF n
    <2>3. row[L] = {n}
      BY <2>2 DEF Inv, RunsFull, L, n
    <2> QED
      BY <2>1, <2>3
  <1>9. records[L].ts = frames[n].ts
    <2>1. Newest(row[L]) \in row[L] /\ records[L].ts = frames[Newest(row[L])].ts
      BY <1>5, RunIs DEF L
    <2> QED
      BY <1>8, <2>1
  <1>10. Age(f) = frames[n].ts - frames[f].ts
    BY DEF Age, Last, n
  <1>11. Age(f) > RawWindow <=> x <= A
    BY <1>4, <1>5, <1>6, <1>7, <1>9, <1>10
  <1>12. Age(f) \in Nat
    <2>1. frames[f] \in Frame /\ frames[n] \in Frame
      BY <1>1, <1>7, <1>8 DEF n
    <2>2. frames[f].ts \in Nat /\ frames[n].ts \in Nat
      BY <2>1 DEF Frame
    <2>3. frames[f].ts <= frames[n].ts
      <3>1. f = n \/ f < n
        BY <1>1, <1>7
      <3>2. CASE f < n
        BY <1>1, <1>7, <1>8, <3>2 DEF Inv, TimesGrow, Monotone, n
      <3>3. CASE f = n
        BY <2>2, <3>3
      <3> QED
        BY <3>1, <3>2, <3>3
    <2> QED
      BY <1>10, <2>2, <2>3
  <1>13. A \in Nat
    BY <1>1, <1>2, <1>4
  <1> QED
    BY <1>5, <1>11, <1>12, <1>13 DEF f

\* No raw frame within the window is removed.
LEMMA RawKept ==
    ASSUME Inv, NEW p, Fits(p, records), NEW e, NEW a, NEW P, NEW N, NEW b,
           Planned(records, p, e, a, P, N, b), NEW w, Runs(w, p, e, a, P, N, b),
           NEW f \in 1 .. Len(frames), {f} \in Range(row), Age(f) <= RawWindow
    PROVE  {f} \in Range(w)
  <1> DEFINE L == Len(row)
             A == Aged(Raws(records))
             v == e + a
  <1>1. /\ e \in Nat /\ a \in Nat /\ P \in Nat /\ N \in Nat /\ b \in Nat
        /\ v = Len(Virtuals(records)) /\ N = Total(p.chunks)
        /\ L = e + a + N + b
        /\ \A i \in 1 .. e + a + N + b : records[i].pooled <=> i <= e + a
    BY DEF Planned, Layout, Inv, RecordsDescribeRow
  <1>2. N \in 0 .. A
    BY <1>1 DEF Fits
  <1>3. DOMAIN row = 1 .. L /\ L \in Nat
    BY LenProperties DEF Inv, TypeInv
  <1>4. PICK i \in 1 .. L : row[i] = {f}
    BY <1>3 DEF Range
  <1>5. Newest(row[i]) = f /\ ~records[i].pooled
    <2>1. /\ Newest(row[i]) \in row[i] /\ records[i].sources = Cardinality(row[i])
          /\ records[i].pooled = (records[i].sources > 1)
      BY RunIs
    <2>2. Cardinality({f}) = 1
      BY FS_Singleton
    <2>3. ~(records[i].sources > 1)
      BY <1>4, <2>1, <2>2
    <2> QED
      BY <1>4, <2>1, <2>3
  <1>6. i > e + a
    BY <1>1, <1>5
  <1> DEFINE x == i - v
  <1> HIDE DEF L, A
  <1>7. x \in 1 .. L /\ v + x = i /\ v + x <= L
    BY <1>1, <1>3, <1>6
  <1> HIDE DEF x, v
  <1>8. Age(Newest(row[v + x])) \in Nat /\ A \in Nat
        /\ (Age(Newest(row[v + x])) > RawWindow <=> x <= A)
    BY <1>1, <1>7, AgedRun DEF L, A
  <1>9. ~(x <= A)
    BY <1>5, <1>7, <1>8, WindowAssumption
  <1> DEFINE h == x - N
  <1>10. h \in 1 .. b /\ e + a + N + h = i
    <2>1. x \in Nat /\ A \in Nat /\ A < x /\ N <= A /\ i \in Nat
      BY <1>1, <1>2, <1>7, <1>8, <1>9
    <2>2. (e + a) + x = i /\ i <= e + a + N + b
      BY <1>1, <1>7 DEF v
    <2> HIDE DEF h
    <2>3. h \in Nat /\ h > 0 /\ N + h = x
      BY <1>1, <2>1, SMTT(40) DEF h
    <2>4. e + a + N + h = i
      <3>1. e \in Nat /\ a \in Nat /\ N \in Nat
        BY <1>1
      <3>2. e + a + N + h = (e + a) + (N + h)
        BY <2>3, <3>1
      <3> QED
        BY <2>2, <2>3, <3>2
    <2>5. h <= b
      BY <1>1, <2>1, <2>2, <2>3, SMTT(40)
    <2> QED
      BY <1>1, <2>3, <2>4, <2>5
  <1> HIDE DEF h
  <1>11. w[a + P + h] = row[e + a + N + h] /\ a + P + h \in DOMAIN w
    <2>1. w[a + P + h] = row[e + a + N + h]
      BY <1>1, <1>10 DEF Runs
    <2>2. DOMAIN w = 1 .. a + P + b
      BY <1>1 DEF Runs
    <2>3. a + P + h \in 1 .. a + P + b
      BY <1>1, <1>10
    <2> QED
      BY <2>1, <2>2, <2>3
  <1> QED
    BY <1>4, <1>10, <1>11 DEF Range

\* What a run of one frame, and a run of more, says of the record.
LEMMA RunSize ==
    ASSUME Inv, NEW p, NEW e, NEW a, NEW P, NEW N, NEW b, Planned(records, p, e, a, P, N, b),
           NEW s, Covered(s, p, e, a, P, N, b), NEW w, Runs(w, p, e, a, P, N, b),
           NEW i \in 1 .. a + P + b
    PROVE  (Cardinality(w[i]) > 1) <=> i <= a + P
  <1>1. Describes(p.new[i], w[i])
    BY NextRun
  <1>2. p.new[i].pooled = (Cardinality(w[i]) > 1)
    BY <1>1 DEF Describes
  <1>3. /\ \A h \in 1 .. a + P : p.new[h].pooled
        /\ \A h \in 1 .. b : ~p.new[a + P + h].pooled
    BY NewPooled
  <1>4. a \in Nat /\ P \in Nat /\ b \in Nat
    BY DEF Planned
  <1>5. CASE i <= a + P
    <2>1. i \in 1 .. a + P
      BY <1>4, <1>5
    <2>2. p.new[i].pooled
      BY <1>3, <2>1
    <2> QED
      BY <1>2, <1>5, <2>2, Zenon
  <1>6. CASE ~(i <= a + P)
    <2> DEFINE h == i - (a + P)
    <2>1. h \in 1 .. b /\ a + P + h = i
      BY <1>4, <1>6
    <2> HIDE DEF h
    <2>2. ~p.new[i].pooled
      BY <1>3, <2>1
    <2> QED
      BY <1>2, <1>6, <2>2
  <1> QED
    BY <1>5, <1>6

\* The raw frames of a row w that are behind the window.
Behind(w) == {f \in 1 .. Len(frames) : {f} \in Range(w) /\ Age(f) > RawWindow}

\* Less than a chunk of raw frames is left behind the window.
LEMMA FewAged ==
    ASSUME Inv, NEW p, Fits(p, records), Settled(p, records),
           NEW e, NEW a, NEW P, NEW N, NEW b, Planned(records, p, e, a, P, N, b),
           NEW s, Covered(s, p, e, a, P, N, b), NEW w, Runs(w, p, e, a, P, N, b)
    PROVE  Cardinality(Behind(w)) < IF pooling THEN PoolRatio ELSE 1
  <1> DEFINE L == Len(row)
             A == Aged(Raws(records))
             K == IF pooling THEN PoolRatio ELSE 1
             S == {f \in 1 .. Len(frames) : {f} \in Range(w) /\ Age(f) > RawWindow}
             d == A - N
             g == [h \in 1 .. d |-> Newest(row[e + a + N + h])]
             T == {g[h] : h \in 1 .. d}
  <1>1. /\ e \in Nat /\ a \in Nat /\ P \in Nat /\ N \in Nat /\ b \in Nat
        /\ e + a = Len(Virtuals(records)) /\ N = Total(p.chunks)
        /\ L = e + a + N + b
    BY DEF Planned, Layout, Inv, RecordsDescribeRow
  <1>2. N \in 0 .. A /\ A < N + K /\ K \in Nat /\ A \in Nat
    <2>1. N \in 0 .. A
      BY <1>1 DEF Fits
    <2>2. A < N + K
      BY <1>1 DEF Settled
    <2>3. K \in Nat
      BY WindowAssumption
    <2>4. A \in 0 .. Len(Raws(records))
      <3>1. InOrder(records)
        BY InvInOrder
      <3>2. Raws(records) \in Seq(Record) /\ Monotone(Raws(records))
        BY <3>1, Regions, RawsInOrder
      <3> QED
        BY <3>2, AgedAre
    <2>5. Len(Raws(records)) \in Nat
      <3>1. InOrder(records)
        BY InvInOrder
      <3>2. Raws(records) \in Seq(Record)
        BY <3>1, Regions
      <3> QED
        BY <3>2, LenProperties
    <2> QED
      BY <2>1, <2>2, <2>3, <2>4, <2>5
  <1> HIDE DEF A, K, L
  <1>3. d \in Nat /\ d < K /\ N + d = A
    BY <1>1, <1>2
  <1> HIDE DEF d
  <1>4. ASSUME NEW f \in S PROVE f \in T
    <2>1. DOMAIN w = 1 .. a + P + b
      BY DEF Runs
    <2>2. PICK i \in 1 .. a + P + b : w[i] = {f}
      BY <2>1 DEF Range
    <2>3. Cardinality(w[i]) = 1
      BY <2>2, FS_Singleton
    <2>4. ~(i <= a + P)
      BY <2>3, RunSize
    <2> DEFINE h == i - (a + P)
    <2>5. h \in 1 .. b /\ a + P + h = i
      BY <1>1, <2>4
    <2> HIDE DEF h
    <2>6. w[i] = row[e + a + N + h]
      BY <2>5 DEF Runs
    <2>7. e + a + N + h \in 1 .. L
      BY <1>1, <2>5
    <2>8. Newest(row[e + a + N + h]) = f
      <3>1. Newest(row[e + a + N + h]) \in row[e + a + N + h]
        BY <2>7, RunIs DEF L
      <3> QED
        BY <2>2, <2>6, <3>1
    <2> DEFINE x == N + h
    <2>9. x \in 1 .. L /\ (e + a) + x <= L /\ (e + a) + x = e + a + N + h
      BY <1>1, <2>5, SMTT(40)
    <2> HIDE DEF x
    <2>10. Age(Newest(row[(e + a) + x])) > RawWindow <=> x <= A
      BY <1>1, <2>9, AgedRun DEF L, A
    <2>11. x <= A
      BY <2>8, <2>9, <2>10
    <2>12. h \in 1 .. d
      BY <1>1, <1>2, <1>3, <2>5, <2>11 DEF x
    <2>13. g[h] = f
      BY <2>8, <2>12
    <2> QED
      BY <2>12, <2>13
  <1>5. g \in Surjection(1 .. d, T)
    BY DEF Surjection
  <1> HIDE DEF g, T, S
  <1>6. IsFiniteSet(1 .. d) /\ Cardinality(1 .. d) = d
    <2>1. IsFiniteSet(0 + 1 .. 0 + d) /\ Cardinality(0 + 1 .. 0 + d) = d
      BY <1>3, IntervalSize
    <2>2. 0 + 1 .. 0 + d = 1 .. d
      BY <1>3
    <2> QED
      BY <2>1, <2>2
  <1>7. IsFiniteSet(T) /\ Cardinality(T) <= d
    BY <1>5, <1>6, FS_Surjection
  <1>8. Cardinality(S) <= Cardinality(T) /\ IsFiniteSet(S)
    <2>1. S \subseteq T
      BY <1>4
    <2> QED
      BY <1>7, <2>1, FS_Subset
  <1>9. Cardinality(S) \in Nat /\ Cardinality(T) \in Nat
    BY <1>7, <1>8, FS_CardinalityType
  <1>10. Cardinality(S) < K
    BY <1>2, <1>3, <1>7, <1>8, <1>9
  <1> QED
    BY <1>10 DEF S, K, Behind

\* The pooled frames that are left are within the pool window of each other.
LEMMA PooledClose ==
    ASSUME Inv, NEW p, Fits(p, records), Settled(p, records),
           NEW e, NEW a, NEW P, NEW N, NEW b, Planned(records, p, e, a, P, N, b), b > 0,
           NEW s, Covered(s, p, e, a, P, N, b), NEW w, Runs(w, p, e, a, P, N, b),
           NEW x \in Range(w), NEW y \in Range(w), Cardinality(x) > 1, Cardinality(y) > 1
    PROVE  Age(Newest(x)) - Age(Newest(y)) <= PoolWindow
  <1>1. /\ e \in Nat /\ a \in Nat /\ P \in Nat /\ b \in Nat
        /\ e + a = Len(Virtuals(records)) /\ P = Cardinality(Made(p.chunks)) /\ e = p.evict
        /\ p.new \in Seq(Record) /\ Len(p.new) = a + P + b
    BY DEF Planned, Layout
  <1>2. DOMAIN w = 1 .. a + P + b
    BY DEF Runs
  <1>3. PICK i \in 1 .. a + P + b : w[i] = x
    BY <1>2 DEF Range
  <1>4. PICK j \in 1 .. a + P + b : w[j] = y
    BY <1>2 DEF Range
  <1>5. i <= a + P /\ j <= a + P
    BY <1>3, <1>4, RunSize
  <1>6. Describes(p.new[i], w[i]) /\ Describes(p.new[j], w[j])
    BY NextRun
  <1> DEFINE u == p.new[i].ts
             v == p.new[j].ts
             t == Last(frames).ts
  <1>7. u = frames[Newest(x)].ts /\ v = frames[Newest(y)].ts
    BY <1>3, <1>4, <1>6 DEF Describes
  <1>8. v - u <= PoolWindow
    <2>1. (Len(Virtuals(records)) - p.evict) + Cardinality(Made(p.chunks)) = a + P
      <3>1. (e + a) - e = a
        BY <1>1
      <3> QED
        BY <1>1, <3>1
    <2>2. i \in 1 .. a + P /\ j \in 1 .. a + P
      BY <1>1, <1>5
    <2> QED
      BY <2>1, <2>2 DEF Settled
  <1>9. u \in Nat /\ v \in Nat
    <2>1. DOMAIN p.new = 1 .. a + P + b
      BY <1>1, LenProperties
    <2>2. p.new[i] \in Record /\ p.new[j] \in Record
      BY <1>1, <2>1, ElementOfSeq
    <2> QED
      BY <2>2 DEF Record
  <1>10. t \in Nat
    <2>1. Len(row) > 0 /\ Len(row) \in Nat
      BY <1>1, SMTT(40) DEF Planned, Layout, Inv, RecordsDescribeRow
    <2>2. row[1] # {} /\ row[1] \subseteq 1 .. Len(frames)
      BY <2>1, RunIs
    <2>3. Len(frames) \in 1 .. Len(frames) /\ DOMAIN frames = 1 .. Len(frames) /\ frames \in Seq(Frame)
      BY <2>2, LenProperties DEF Inv, TypeInv
    <2>4. frames[Len(frames)] \in Frame
      BY <2>3
    <2> QED
      BY <2>4 DEF Frame, Last
  <1>11. Age(Newest(x)) = t - u /\ Age(Newest(y)) = t - v
    BY <1>7 DEF Age
  <1> HIDE DEF t, u, v
  <1>12. (t - u) - (t - v) = v - u
    BY <1>9, <1>10
  <1> QED
    BY <1>8, <1>11, <1>12

\* Planning again without a new frame changes nothing.
LEMMA Idle ==
    ASSUME pooling \in BOOLEAN, NEW recs, InOrder(recs), NEW u, u = Len(Virtuals(recs)),
           \A i, j \in 1 .. u : recs[j].ts - recs[i].ts <= PoolWindow,
           Aged(Raws(recs)) < IF pooling THEN PoolRatio ELSE 1
    PROVE  ~Removes(Plan(recs))
  <1> DEFINE old == Virtuals(recs)
             raws == Raws(recs)
             chunks == Chunks(raws)
             prod == Produced(raws, chunks)
             all == old \o prod
             gone == IF all = <<>> THEN 0 ELSE Expired(all)
             A == Aged(raws)
  <1>1. /\ u \in Nat /\ u <= Len(recs) /\ Len(recs) \in Nat /\ DOMAIN recs = 1 .. Len(recs)
        /\ old \in Seq(Record) /\ \A i \in 1 .. u : old[i] = recs[i]
        /\ raws \in Seq(Record) /\ Monotone(raws) /\ Monotone(recs)
    <2>1. /\ Len(recs) \in Nat /\ DOMAIN recs = 1 .. Len(recs) /\ u \in 0 .. Len(recs)
          /\ old \in Seq(Record) /\ (\A i \in 1 .. u : old[i] = recs[i]) /\ raws \in Seq(Record)
      BY Regions
    <2>2. Monotone(raws) /\ Monotone(recs)
      BY RawsInOrder
    <2> HIDE DEF old, raws
    <2> QED
      BY <2>1, <2>2
  <1>2. /\ Plan(recs).evict = Min({gone, u})
        /\ \E n : Plan(recs).chunks = Unmade(chunks, n)
    BY DEF Plan
  <1>3. u = Len(old) /\ A < (IF pooling THEN PoolRatio ELSE 1)
    OBVIOUS
  <1>4. A \in Nat /\ A = Aged(raws)
    <2>1. A \in 0 .. Len(raws)
      BY <1>1, AgedAre
    <2> HIDE DEF A
    <2> QED
      BY <1>1, <2>1 DEF A
  <1> HIDE DEF A, raws, old
  <1>5. chunks = <<>>
    <2>1. CASE pooling
      <3>1. A \div PoolRatio = 0
        <4>1. A < PoolRatio /\ PoolRatio \in Nat \ {0}
          BY <1>3, <2>1, WindowAssumption
        <4> QED
          BY <1>4, <4>1, NoChunk
      <3>2. 1 .. 0 = {}
        OBVIOUS
      <3>3. DOMAIN chunks = {} /\ chunks = [k \in {} |-> chunks[k]]
        BY <1>4, <2>1, <3>1, <3>2 DEF Chunks
      <3> HIDE DEF chunks
      <3> QED
        BY <3>3
    <2>2. CASE ~pooling
      <3>1. A = 0
        BY <1>3, <1>4, <2>2
      <3> QED
        BY <1>4, <2>2, <3>1 DEF Chunks
    <2> QED
      BY <2>1, <2>2
  <1> HIDE DEF chunks
  <1>6. prod = <<>>
    <2>1. Made(chunks) = {}
      BY <1>5 DEF Made
    <2>2. Cardinality(Made(chunks)) = 0
      BY <2>1, FS_EmptySet
    <2>3. DOMAIN Poolable(chunks) = {}
      BY <2>2 DEF Poolable
    <2>4. prod = [k \in {} |-> prod[k]]
      BY <2>3 DEF Produced
    <2> HIDE DEF prod
    <2> QED
      BY <2>4
  <1> HIDE DEF prod
  <1>7. all = old
    BY <1>1, <1>6
  <1> HIDE DEF all
  <1>8. gone = 0
    <2>1. CASE all # <<>>
      <3>1. u > 0
        BY <1>1, <1>3, <1>7, <2>1, EmptySeq
      <3>2. Monotone(old)
        <4>1. DOMAIN old = 1 .. u
          BY <1>1, <1>3, LenProperties
        <4>2. \A i, j \in 1 .. u : i < j => recs[i].ts <= recs[j].ts
          BY <1>1 DEF Monotone
        <4> QED
          BY <1>1, <4>1, <4>2 DEF Monotone
      <3> DEFINE g == Expired(old)
      <3>3. g \in 0 .. u - 1 /\ (g > 0 => old[u].ts - old[1].ts > PoolWindow)
        BY <1>1, <1>3, <1>7, <2>1, <3>2, ExpiredAre
      <3> HIDE DEF g
      <3>4. 1 \in 1 .. u /\ u \in 1 .. u
        BY <1>1, <3>1
      <3>5. recs[u].ts \in Nat /\ recs[1].ts \in Nat
        <4>1. recs[u] \in Record /\ recs[1] \in Record
          BY <1>1, <3>4, Regions
        <4> QED
          BY <4>1 DEF Record
      <3>6. old[u].ts - old[1].ts <= PoolWindow
        BY <1>1, <3>4
      <3>7. g = 0
        <4>1. PoolWindow \in Nat /\ old[u].ts \in Nat /\ old[1].ts \in Nat
          BY <1>1, <3>4, <3>5, WindowAssumption
        <4> QED
          BY <1>1, <3>3, <3>6, <4>1
      <3> QED
        BY <1>7, <2>1, <3>7 DEF g
    <2> QED
      BY <2>1
  <1> HIDE DEF gone
  <1>9. Plan(recs).evict = 0
    <2>1. Min({gone, u}) = 0
      BY <1>1, <1>8, MinMax
    <2> QED
      BY <1>2, <2>1
  <1>10. Plan(recs).chunks = <<>>
    <2>1. PICK n : Plan(recs).chunks = Unmade(chunks, n)
      BY <1>2
    <2> DEFINE d == Unmade(chunks, n)
    <2>2. DOMAIN chunks = {}
      BY <1>5
    <2>3. d = [k \in {} |-> d[k]]
      BY <2>2 DEF Unmade
    <2> HIDE DEF d
    <2>4. d = <<>>
      BY <2>3
    <2> QED
      BY <2>1, <2>4 DEF d
  <1> QED
    BY <1>9, <1>10 DEF Removes

\* The records that a plan leaves give the planner nothing to remove.
LEMMA NothingLeft ==
    ASSUME pooling \in BOOLEAN, NEW recs, InOrder(recs), NEW p, Settled(p, recs),
           NEW e, NEW a, NEW P, NEW N, NEW b, Planned(recs, p, e, a, P, N, b), b > 0,
           InOrder(p.new)
    PROVE  ~Removes(Plan(p.new))
  <1> DEFINE new == p.new
             v == Len(Virtuals(recs))
             u == Len(Virtuals(new))
             R == Raws(recs)
             S == Raws(new)
             A == Aged(R)
             B == Aged(S)
             K == IF pooling THEN PoolRatio ELSE 1
  <1>1. /\ e \in Nat /\ a \in Nat /\ P \in Nat /\ N \in Nat /\ b \in Nat
        /\ v = e + a /\ N = Total(p.chunks) /\ Len(recs) = e + a + N + b
        /\ Len(new) = a + P + b
        /\ P = Cardinality(Made(p.chunks)) /\ e = p.evict
        /\ \A i \in 1 .. b : new[a + P + i] = recs[e + a + N + i]
    BY DEF Planned, Layout
  <1>0. /\ e \in Nat /\ a \in Nat /\ P \in Nat /\ N \in Nat /\ b \in Nat /\ b > 0
        /\ v = e + a /\ Len(recs) = e + a + N + b /\ Len(new) = a + P + b
    BY <1>1
  <1>2. A < N + K /\ \A i, j \in 1 .. (v - e) + P : new[j].ts - new[i].ts <= PoolWindow
    BY <1>1 DEF Settled
  <1>3. K \in Nat \ {0}
    BY WindowAssumption
  <1> HIDE DEF K
  <1>4. /\ R \in Seq(Record) /\ Monotone(R) /\ Len(R) = N + b
        /\ \A i \in 1 .. N + b : R[i] = recs[e + a + i]
    <2>1. R \in Seq(Record) /\ Len(R) = Len(recs) - v /\ \A i \in 1 .. Len(recs) - v : R[i] = recs[v + i]
      BY Regions
    <2>2. Monotone(R)
      BY RawsInOrder
    <2> HIDE DEF R, v
    <2>3. Len(recs) - v = N + b
      BY <1>0
    <2> QED
      BY <1>1, <2>1, <2>2, <2>3
  <1>5. /\ S \in Seq(Record) /\ Monotone(S) /\ Len(S) = Len(new) - u
        /\ \A i \in 1 .. Len(new) - u : S[i] = new[u + i]
        /\ u \in 0 .. Len(new)
        /\ \A i \in 1 .. Len(new) : new[i].pooled <=> i <= u
    <2>1. InOrder(new) /\ u = Len(Virtuals(new)) /\ S = Raws(new)
      OBVIOUS
    <2>2. Monotone(Raws(new))
      BY <2>1, RawsInOrder
    <2> HIDE DEF new, u, S
    <2> QED
      BY <2>1, <2>2, Regions, ZenonT(60)
  <1>6. /\ \A i \in 1 .. a + P : new[i].pooled
        /\ \A i \in 1 .. b : ~new[a + P + i].pooled
    BY NewPooled
  <1>7. A = Aged(R) /\ B = Aged(S) /\ u = Len(Virtuals(new)) /\ Aged(Raws(new)) = B /\ InOrder(new)
    OBVIOUS
  <1> HIDE DEF A, B, R, S, u, v, new
  <1>8. u = a + P
    <2> DEFINE m == a + P
    <2>1. m \in Nat /\ u \in Nat /\ u <= m + b
      BY <1>0, <1>5
    <2>2. ASSUME m > u PROVE FALSE
      <3>1. m \in 1 .. a + P /\ m \in 1 .. Len(new) /\ ~(m <= u)
        BY <1>0, <2>1, <2>2
      <3> QED
        BY <1>5, <1>6, <3>1
    <2>3. ASSUME u > m PROVE FALSE
      <3>1. u - m \in 1 .. b /\ a + P + (u - m) = u /\ u \in 1 .. Len(new) /\ u <= u
        BY <1>0, <2>1, <2>3
      <3>2. ~new[a + P + (u - m)].pooled
        BY <1>6, <3>1
      <3> QED
        BY <1>5, <3>1, <3>2
    <2> QED
      BY <2>1, <2>2, <2>3
  <1>9. Len(S) = b /\ \A i \in 1 .. b : S[i] = R[N + i]
    <2>1. Len(new) - u = b
      BY <1>0, <1>8
    <2>2. ASSUME NEW i \in 1 .. b PROVE S[i] = R[N + i]
      <3>1. N + i \in 1 .. N + b /\ e + a + (N + i) = e + a + N + i
        BY <1>0
      <3>2. R[N + i] = recs[e + a + N + i]
        BY <1>4, <3>1
      <3>3. S[i] = new[a + P + i]
        BY <1>5, <1>8, <2>1
      <3> QED
        BY <1>1, <3>2, <3>3
    <2> QED
      BY <1>5, <2>1, <2>2
  <1>10. A \in Nat /\ \A i \in 1 .. N + b : R[N + b].ts - R[i].ts > RawWindow <=> i <= A
    <2>1. A \in 0 .. Len(R) /\ \A i \in 1 .. Len(R) : R[Len(R)].ts - R[i].ts > RawWindow <=> i <= A
      BY <1>4, <1>7, AgedAre
    <2> QED
      BY <1>1, <1>4, <2>1
  <1>11. B \in 0 .. b /\ \A i \in 1 .. b : S[b].ts - S[i].ts > RawWindow <=> i <= B
    <2>1. B \in 0 .. Len(S) /\ \A i \in 1 .. Len(S) : S[Len(S)].ts - S[i].ts > RawWindow <=> i <= B
      BY <1>5, <1>7, AgedAre
    <2> QED
      BY <1>9, <2>1
  <1>12. B < K
    <2>1. CASE B = 0
      BY <1>3, <2>1
    <2>2. CASE B # 0
      <3>1. B \in 1 .. b /\ b \in 1 .. b /\ N + B \in 1 .. N + b
        BY <1>0, <1>11, <2>2
      <3>2. S[b].ts - S[B].ts > RawWindow
        <4>1. B <= B
          BY <1>11
        <4> QED
          BY <1>11, <3>1, <4>1
      <3>3. S[b] = R[N + b] /\ S[B] = R[N + B]
        BY <1>9, <3>1
      <3>4. N + B <= A
        BY <1>10, <3>1, <3>2, <3>3
      <3> QED
        BY <1>1, <1>2, <1>3, <1>10, <1>11, <3>4
    <2> QED
      BY <2>1, <2>2
  <1>13. \A i, j \in 1 .. u : new[j].ts - new[i].ts <= PoolWindow
    <2>1. (v - e) + P = u
      BY <1>0, <1>8
    <2> QED
      BY <1>2, <2>1
  <1>14. ~Removes(Plan(new))
    <2>1. Aged(Raws(new)) < IF pooling THEN PoolRatio ELSE 1
      BY <1>7, <1>12 DEF K
    <2> QED
      BY <1>7, <1>13, <2>1, Idle
  <1> QED
    BY <1>14 DEF new

\* After a step that keeps the invariant the records are in order.
LEMMA NextInvInOrder == Inv' => InOrder(records)'
  <1>1. Inv => InOrder(records)
    BY InvInOrder
  <1> QED
    BY <1>1, PTL

\* A round keeps the invariant and settles the window.
LEMMA RoundStep ==
    ASSUME Inv, Round
    PROVE  /\ Inv'
           /\ \A f \in 1 .. Len(frames) :
                  {f} \in Range(row) /\ Age(f) <= RawWindow => {f} \in Range(row')
           /\ Cardinality({f \in 1 .. Len(frames) : {f} \in Range(row') /\ Age(f) > RawWindow})
                  < IF pooling THEN PoolRatio ELSE 1
           /\ \A x, y \in Range(row') :
                  Cardinality(x) > 1 /\ Cardinality(y) > 1 =>
                      Age(Newest(x)) - Age(Newest(y)) <= PoolWindow
           /\ ~Removes(Plan(records))'
  <1> DEFINE plan == Plan(records)
             q == Degraded(records, plan)
  <1>1. /\ records # <<>> /\ UNCHANGED <<pooling, frames>>
        /\ Apply(plan) \/ Apply(q)
    BY DEF Round
  <1>2. InOrder(records)
    BY InvInOrder
  <1> HIDE DEF q
  <1>3. Fits(plan, records) /\ Settled(plan, records)
    BY <1>2, PlanFits DEF Inv, TypeInv
  <1> HIDE DEF plan
  <1>4. Fits(q, records) /\ Settled(q, records)
    BY <1>2, <1>3, DegradedFits DEF q
  <1>5. PICK p : Fits(p, records) /\ Settled(p, records) /\ Apply(p)
    BY <1>1, <1>3, <1>4
  <1>6. PICK e \in Nat, a \in Nat, P \in Nat, N \in Nat, b \in Nat :
            Planned(records, p, e, a, P, N, b) /\ b > 0
    BY <1>1, <1>5, PlannedIs
  <1>7. Inv'
    BY <1>1, <1>5, <1>6, ApplyStep
  <1> DEFINE s == Spans(records, p)
  <1>8. Covered(s, p, e, a, P, N, b)
    BY <1>6, SpansAre
  <1> HIDE DEF s
  <1>9. Runs(row', p, e, a, P, N, b)
    <2>1. /\ Len(frames) \in Nat /\ row \in Seq(SUBSET (1 .. Len(frames)))
      BY LenProperties DEF Inv, TypeInv
    <2>2. Len(row) = e + a + N + b
      BY <1>6 DEF Inv, RecordsDescribeRow, Planned, Layout
    <2>3. row' = Rewritten(p)
      BY <1>5 DEF Apply
    <2> QED
      BY <1>6, <2>1, <2>2, <2>3, RewrittenAre
  <1>10. \A f \in 1 .. Len(frames) :
             {f} \in Range(row) /\ Age(f) <= RawWindow => {f} \in Range(row')
    BY <1>5, <1>6, <1>9, RawKept
  <1>11. Cardinality({f \in 1 .. Len(frames) : {f} \in Range(row') /\ Age(f) > RawWindow})
             < IF pooling THEN PoolRatio ELSE 1
    <2>1. Cardinality(Behind(row')) < IF pooling THEN PoolRatio ELSE 1
      BY <1>5, <1>6, <1>8, <1>9, FewAged
    <2> QED
      BY <2>1 DEF Behind
  <1>12. \A x, y \in Range(row') :
             Cardinality(x) > 1 /\ Cardinality(y) > 1 =>
                 Age(Newest(x)) - Age(Newest(y)) <= PoolWindow
    BY <1>5, <1>6, <1>8, <1>9, PooledClose
  <1>13. ~Removes(Plan(records))'
    <2>1. pooling \in BOOLEAN /\ pooling' = pooling
      BY <1>1 DEF Inv, TypeInv
    <2>2. records' = p.new
      BY <1>5 DEF Apply
    <2>3. InOrder(records')
      BY <1>7, NextInvInOrder
    <2>4. ~Removes(Plan(p.new))
      BY <1>2, <1>5, <1>6, <2>1, <2>2, <2>3, NothingLeft
    <2> QED
      BY <2>1, <2>2, <2>4 DEF Removes, Plan, Chunks
  <1> QED
    BY <1>7, <1>10, <1>11, <1>12, <1>13

\* The row starts empty.
LEMMA InitInv ==
    ASSUME Init
    PROVE  Inv
  <1>1. /\ frames = <<>> /\ records = <<>> /\ row = <<>> /\ visible = <<0>> /\ evicted = 0
        /\ pooling \in BOOLEAN
    BY DEF Init
  <1>2. TypeInv
    <2>1. Len(<<>>) = 0 /\ Len(<<0>>) = 1 /\ <<0>> \in Seq(Nat)
      OBVIOUS
    <2>2. <<>> \in Seq(Frame) /\ <<>> \in Seq(Record) /\ <<>> \in Seq(SUBSET (1 .. 0))
      OBVIOUS
    <2> QED
      BY <1>1, <2>1, <2>2 DEF TypeInv
  <1>3. DOMAIN frames = {} /\ DOMAIN row = {} /\ Len(row) = 0 /\ Len(frames) = 0
    BY <1>1
  <1>4. TimesGrow /\ RunsFull
    BY <1>1, <1>3 DEF TimesGrow, Monotone, RunsFull
  <1>5. RecordsDescribeRow
    <2>1. UNION Range(row) = {}
      BY <1>3 DEF Range
    <2>2. evicted + Cardinality(UNION Range(row)) = Len(frames)
      <3>1. Cardinality(UNION Range(row)) = 0
        BY <2>1, FS_EmptySet
      <3> QED
        BY <1>1, <1>3, <3>1
    <2> QED
      BY <1>1, <1>3, <2>2 DEF RecordsDescribeRow
  <1>6. VisibleExact
    <2> SUFFICES ASSUME NEW k \in DOMAIN visible
                 PROVE  visible[k] = Cardinality({i \in DOMAIN row : \E f \in row[i] : f < k})
      BY DEF VisibleExact
    <2>1. visible[k] = 0
      BY <1>1
    <2>2. {i \in DOMAIN row : \E f \in row[i] : f < k} = {}
      BY <1>3
    <2> QED
      BY <2>1, <2>2, FS_EmptySet
  <1> QED
    BY <1>2, <1>4, <1>5, <1>6 DEF Inv

\* The invariant holds in every state: types, times that grow, full runs, and
\* the two properties of the row.
THEOREM WindowInvariant == Spec => []Inv
  <1>1. Init => Inv
    BY InitInv
  <1>2. Inv /\ [Next]_vars => Inv'
    <2> SUFFICES ASSUME Inv, [Next]_vars PROVE Inv'
      OBVIOUS
    <2>1. CASE Round
      BY <2>1, RoundStep
    <2>2. ASSUME NEW dt \in Interval, NEW g \in Grid, CommitFrame(dt, g) PROVE Inv'
      BY <2>2, CommitStep
    <2>3. CASE UNCHANGED vars
      BY <2>3, ZenonT(60) DEF vars, Inv, TypeInv, TimesGrow, Monotone, RunsFull, RecordsDescribeRow, VisibleExact
    <2> QED
      BY <2>1, <2>2, <2>3 DEF Next
  <1> QED
    BY <1>1, <1>2, PTL DEF Spec

\* The records, the row and the count of evicted frames agree after every round,
\* for any windows, ratio, grids and number of frames: the checks by which
\* _record_slot_runs, covered_spans and plan_frame_window abort a request are
\* never hit.
THEOREM RecordsAlwaysDescribeRow == Spec => []RecordsDescribeRow
  <1>1. Inv => RecordsDescribeRow
    BY DEF Inv
  <1> QED
    BY <1>1, WindowInvariant, PTL

\* visible_count_remap composes exactly: after any rounds a token's count is the
\* number of runs with a frame from before the token.
THEOREM VisibleAlwaysExact == Spec => []VisibleExact
  <1>1. Inv => VisibleExact
    BY DEF Inv
  <1> QED
    BY <1>1, WindowInvariant, PTL

\* A round of _evaluate_frame_window keeps every raw frame within the window,
\* leaves less than a chunk behind it and no pooled frame beyond the pool window,
\* whether there were slots for its pooled frames or not.
THEOREM EveryRoundSettles == Spec => RoundSettles
  <1> DEFINE Settles ==
                 Round =>
                    /\ \A f \in 1 .. Len(frames) :
                           {f} \in Range(row) /\ Age(f) <= RawWindow => {f} \in Range(row')
                    /\ Cardinality({f \in 1 .. Len(frames) :
                                       {f} \in Range(row') /\ Age(f) > RawWindow})
                           < IF pooling THEN PoolRatio ELSE 1
                    /\ \A x, y \in Range(row') :
                           Cardinality(x) > 1 /\ Cardinality(y) > 1 =>
                               Age(Newest(x)) - Age(Newest(y)) <= PoolWindow
                    /\ ~Removes(Plan(records))'
  <1>1. Inv /\ [Next]_vars => [Settles]_vars
    BY RoundStep
  <1>2. RoundSettles <=> [][Settles]_vars
    BY DEF RoundSettles
  <1> HIDE DEF Settles
  <1> QED
    BY <1>1, <1>2, WindowInvariant, PTL DEF Spec

-----------------------------------------------------------------------------
(* The planner and the plans that RealtimeKV allows.                       *)

\* What a plan removes, in numbers of frames.
Sizing(p) ==
    [evict |-> p.evict, drop |-> Members(p.chunks, Dropped(p.chunks)),
     fold |-> Cardinality(Made(p.chunks))]

\* A round with something to remove has one of the plans of WindowPlan.
PlansAnticipated ==
    records # <<>> /\ Removes(Plan(records)) =>
        Sizing(Plan(records)) \in Plans(Len(Virtuals(records)), Len(Raws(records)), PoolRatio)

\* The frames of a tiling are those of its full chunks and those it drops.
LEMMA TilingSize ==
    ASSUME NEW chunks, NEW raws, NEW N \in Nat, Tiling(chunks, N), Uniform(chunks, raws),
           NEW P, P = Cardinality(Made(chunks)), NEW x, x = Members(chunks, Dropped(chunks))
    PROVE  /\ P \in Nat /\ x \in Nat /\ P * PoolRatio \in Nat
           /\ N = P * PoolRatio + x
           /\ chunks # <<>> => N > 0
  <1> DEFINE f == [k \in DOMAIN chunks |-> chunks[k].count]
             A == Made(chunks)
             B == Dropped(chunks)
  <1>1. chunks \in Seq(Chunk)
    BY DEF Tiling
  <1>2. /\ IsFiniteSet(DOMAIN chunks)
        /\ DOMAIN chunks = 1 .. Len(chunks) /\ Len(chunks) \in Nat
        /\ \A k \in DOMAIN chunks : chunks[k].start \in Nat /\ chunks[k].count \in Nat
    BY <1>1, ChunkTypes
  <1>3. A \cup B = DOMAIN chunks /\ A \cap B = {} /\ A \subseteq DOMAIN chunks /\ B \subseteq DOMAIN chunks
    BY DEF Made, Dropped
  <1>4. IsFiniteSet(A) /\ IsFiniteSet(B)
    BY <1>2, <1>3, FS_Subset
  <1>5. /\ \A k \in A \cup B : f[k] \in Nat
        /\ \A k \in A : f[k] = PoolRatio
    BY <1>2, <1>3 DEF Uniform
  <1>6. PoolRatio \in Nat
    BY WindowAssumption
  <1>7. x = SumFunctionOnSet(f, B) /\ Total(chunks) = SumFunctionOnSet(f, A \cup B)
    BY <1>3 DEF Members, Total
  <1>8. Total(chunks) = N
    BY TotalIs
  <1>9. x \in Nat
    BY <1>3, MembersAre
  <1> HIDE DEF f, A, B
  <1>10. SumFunctionOnSet(f, A \cup B) = SumFunctionOnSet(f, A) + SumFunctionOnSet(f, B)
    BY <1>3, <1>4, <1>5, SumSplit
  <1>11. SumFunctionOnSet(f, A) = Cardinality(A) * PoolRatio
    BY <1>4, <1>5, <1>6, SumConstant
  <1>12. P \in Nat /\ P = Cardinality(A)
    BY <1>4, FS_CardinalityType DEF A
  <1>13. P * PoolRatio \in Nat
    BY <1>6, <1>12
  <1>14. N = P * PoolRatio + x
    BY <1>7, <1>8, <1>10, <1>11, <1>12
  <1>15. ASSUME chunks # <<>> PROVE N > 0
    <2>1. 1 \in DOMAIN chunks
      BY <1>1, <1>2, <1>15, EmptySeq
    <2>2. chunks[1].count > 0 /\ chunks[1].start \in Nat /\ chunks[1].count \in Nat
      BY <1>2, <2>1 DEF Tiling
    <2>3. chunks[1].start + 1 \in Tile(chunks[1])
      BY <2>2 DEF Tile
    <2>4. Tile(chunks[1]) \subseteq 1 .. N
      BY <2>1 DEF Tiling
    <2> QED
      BY <2>2, <2>3, <2>4
  <1> QED
    BY <1>9, <1>12, <1>13, <1>14, <1>15

\* As many full chunks as fit are at most the quotient.
LEMMA FullChunks ==
    ASSUME NEW P \in Nat, NEW r \in Nat \ {0}, NEW a \in Nat, P * r <= a
    PROVE  P <= a \div r
  <1> DEFINE q == a \div r
  <1>1. q \in Nat /\ q * r \in Nat /\ a < q * r + r
    BY DivBounds
  <1> HIDE DEF q
  <1>2. ASSUME q < P PROVE FALSE
    <2>1. P * r \in Nat /\ (P - 1) * r \in Nat /\ (P - 1) * r + r = P * r /\ q * r <= (P - 1) * r
      BY <1>1, <1>2, MultiplesApart
    <2> QED
      BY <1>1, <2>1
  <1> QED
    BY <1>1, <1>2 DEF q

\* The planner's plan is one of those.
LEMMA PlanAnticipated ==
    ASSUME Inv
    PROVE  PlansAnticipated
  <1> DEFINE p == Plan(records)
             v == Len(Virtuals(records))
             w == Len(Raws(records))
             e == p.evict
             x == Members(p.chunks, Dropped(p.chunks))
             P == Cardinality(Made(p.chunks))
             N == Total(p.chunks)
  <1>1. SUFFICES ASSUME records # <<>>, Removes(p)
                 PROVE  Sizing(p) \in Plans(v, w, PoolRatio)
    BY DEF PlansAnticipated
  <1>2. InOrder(records)
    BY InvInOrder
  <1>3. /\ Fits(p, records)
        /\ e > 0 /\ e = v => P > 0
    BY <1>2, PlanFits DEF Inv, TypeInv
  <1>4. e > 0 \/ p.chunks # <<>>
    BY <1>1 DEF Removes
  <1> HIDE DEF p
  <1>5. /\ v \in Nat /\ w \in Nat /\ w > 0 /\ Raws(records) \in Seq(Record)
        /\ Raws(records) # <<>>
    <2>1. /\ Len(records) \in Nat /\ v \in 0 .. Len(records) /\ v < Len(records)
          /\ Raws(records) \in Seq(Record) /\ w = Len(records) - v
      BY <1>1, <1>2, Regions
    <2> HIDE DEF v, w
    <2>2. v \in Nat /\ w \in Nat /\ w > 0
      BY <2>1
    <2>3. Raws(records) # <<>>
      BY <2>1, <2>2, EmptySeq DEF w
    <2> QED
      BY <2>1, <2>2, <2>3
  <1>6. Aged(Raws(records)) \in Nat /\ Aged(Raws(records)) < w
    <2>1. Monotone(Raws(records))
      BY <1>2, RawsInOrder
    <2>2. Aged(Raws(records)) \in 0 .. w /\ Aged(Raws(records)) < w
      BY <1>5, <2>1, AgedAre
    <2> QED
      BY <1>5, <2>2
  <1>7. /\ e \in 0 .. v /\ N \in 0 .. Aged(Raws(records))
        /\ Tiling(p.chunks, N) /\ Uniform(p.chunks, Raws(records))
    BY <1>3 DEF Fits
  <1> HIDE DEF v, w, N
  <1>8. N \in Nat /\ N < w
    BY <1>5, <1>6, <1>7
  <1>9. /\ P \in Nat /\ x \in Nat /\ P * PoolRatio \in Nat
        /\ N = P * PoolRatio + x
        /\ p.chunks # <<>> => N > 0
    BY <1>7, <1>8, TilingSize
  <1>10. PoolRatio \in Nat \ {0, 1}
    BY WindowAssumption
  <1>11. Sizing(p) = [evict |-> e, drop |-> x, fold |-> P]
    BY DEF Sizing
  <1> HIDE DEF e, x, P
  <1>12. e \in Nat /\ e \in 0 .. v /\ x \in 0 .. w
    BY <1>5, <1>7, <1>8, <1>9
  <1>13. P \in 0 .. w \div PoolRatio
    <2>1. P * PoolRatio <= w
      BY <1>5, <1>8, <1>9
    <2>2. P <= w \div PoolRatio
      BY <1>5, <1>9, <1>10, <2>1, FullChunks
    <2>3. w \div PoolRatio \in Nat
      BY <1>5, <1>10, DivBounds
    <2> QED
      BY <1>9, <2>2, <2>3
  <1>14. e + x + P > 0
    <2>1. CASE e > 0
      BY <1>9, <1>12, <2>1
    <2>2. CASE p.chunks # <<>>
      <3>1. N > 0
        BY <1>9, <2>2
      <3>2. x > 0 \/ P > 0
        <4>1. P = 0 => P * PoolRatio = 0
          BY <1>10
        <4> QED
          BY <1>9, <3>1, <4>1
      <3> QED
        BY <1>9, <1>12, <3>2
    <2> QED
      BY <1>4, <2>1, <2>2 DEF e
  <1>15. x + PoolRatio * P < w
    <2>1. PoolRatio * P = P * PoolRatio
      BY <1>9, <1>10
    <2> QED
      BY <1>8, <1>9, <2>1
  <1>16. e > 0 /\ e = v => P > 0
    BY <1>3 DEF e, P
  <1> QED
    BY <1>11, <1>12, <1>13, <1>14, <1>15, <1>16 DEF Plans

\* Whatever frames were committed, plan_frame_window returns one of the plans
\* that RealtimeKV lets a round apply: it removes something, keeps a raw frame,
\* pools full chunks only and evicts all pooled frames only for new ones.
THEOREM PlannerKeepsToPlans == Spec => []PlansAnticipated
  <1>1. Inv => PlansAnticipated
    BY PlanAnticipated
  <1> QED
    BY <1>1, WindowInvariant, PTL
=============================================================================
