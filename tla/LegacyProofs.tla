---------------------------- MODULE LegacyProofs ----------------------------
(***************************************************************************)
(* Proofs about the reading of legacy answers: what a split makes of a     *)
(* text and of a part of it that was cut off, for texts of every length.   *)
(***************************************************************************)
EXTENDS LegacyResponse, FiniteSetTheorems, SequenceTheorems,
        WellFoundedInduction, TLAPS

-----------------------------------------------------------------------------
(* Sets of positions *)

\* The order of the natural numbers is well-founded.
LEMMA NatLess == IsWellFoundedOn({p \in Nat \X Nat : p[1] < p[2]}, Nat)
  BY NatLessThanWellFounded, Zenon DEF OpToRel

\* A set of numbers that is not empty has a least one.
LEMMA LeastOf ==
    ASSUME NEW S, S \subseteq Nat, S # {}
    PROVE  \E n \in S : \A m \in S : n <= m
<1>1. PICK n \in S :
        \A m \in S : ~ (<<m, n>> \in {p \in Nat \X Nat : p[1] < p[2]})
  BY NatLess, WFMin, Zenon
<1>2. ASSUME NEW m \in S PROVE n <= m
  <2>1. m \in Nat /\ n \in Nat
    OBVIOUS
  <2>2. m < n => <<m, n>> \in {p \in Nat \X Nat : p[1] < p[2]}
    BY <2>1
  <2>3. ~ (m < n)
    BY <1>1, <2>2, Zenon
  <2>4. QED
    BY <2>1, <2>3
<1>3. QED
  BY <1>2

\* Induction, of sets instead of predicates.
LEMMA Induct ==
    ASSUME NEW S \in SUBSET Nat, 0 \in S, \A n \in S : n + 1 \in S
    PROVE  S = Nat
<1> SUFFICES ASSUME Nat \ S # {} PROVE FALSE
  OBVIOUS
<1>1. PICK n \in Nat \ S : \A m \in Nat \ S : n <= m
  <2>1. Nat \ S \subseteq Nat
    OBVIOUS
  <2>2. QED
    BY <2>1, LeastOf, Zenon
<1>2. n # 0 /\ n - 1 \in Nat /\ n - 1 < n /\ (n - 1) + 1 = n
  BY <1>1
<1>3. n - 1 \in S
  BY <1>1, <1>2
<1>4. QED
  BY <1>1, <1>2, <1>3

Before(P, i) == {j \in P : j < i}

\* What lies before a position is finite where the positions are.
LEMMA BeforeFinite ==
    ASSUME NEW P, IsFiniteSet(P), NEW i
    PROVE  IsFiniteSet(Before(P, i)) /\ Cardinality(Before(P, i)) \in Nat
<1>1. Before(P, i) \in SUBSET P
  BY DEF Before
<1>2. IsFiniteSet(Before(P, i))
  BY <1>1, FS_Subset, Zenon
<1>3. QED
  BY <1>2, FS_CardinalityType

\* Positions come in an order: the later, the more are before.
LEMMA MoreBefore ==
    ASSUME NEW P, P \subseteq Nat, IsFiniteSet(P), NEW i \in P, NEW k \in Nat, i < k
    PROVE  Cardinality(Before(P, i)) < Cardinality(Before(P, k))
<1>1. i \notin Before(P, i)
  BY DEF Before
<1>2. Before(P, i) \cup {i} \in SUBSET Before(P, k)
  <2>1. ASSUME NEW j \in P, j < i PROVE j < k
    <3>1. j \in Nat /\ i \in Nat
      OBVIOUS
    <3>2. QED
      BY <2>1, <3>1
  <2>2. QED
    BY <2>1 DEF Before
<1>3. Cardinality(Before(P, i) \cup {i}) = Cardinality(Before(P, i)) + 1
  BY <1>1, BeforeFinite, FS_AddElement
<1>4. Cardinality(Before(P, i) \cup {i}) <= Cardinality(Before(P, k))
  BY <1>2, BeforeFinite, FS_Subset, Zenon
<1>5. Cardinality(Before(P, i)) \in Nat /\ Cardinality(Before(P, k)) \in Nat
  BY BeforeFinite
<1>6. QED
  BY <1>3, <1>4, <1>5

\* A text has finitely many positions, no more than its length.
LEMMA PositionsFinite ==
    ASSUME NEW m \in Nat, NEW P, P \subseteq 1 .. m
    PROVE  IsFiniteSet(P) /\ Cardinality(P) \in Nat /\ Cardinality(P) <= m
<1>1. IsFiniteSet(1 .. m) /\ Cardinality(1 .. m) = m
  BY FS_Interval
<1>2. P \in SUBSET (1 .. m)
  OBVIOUS
<1>3. IsFiniteSet(P) /\ Cardinality(P) <= m
  BY <1>1, <1>2, FS_Subset
<1>4. QED
  BY <1>3, FS_CardinalityType

\* There is one position with n others before it, for every n there may be.
LEMMA OnePosition ==
    ASSUME NEW m \in Nat, NEW P, P \subseteq 1 .. m, NEW i \in P \cup {m + 1},
           NEW k \in P \cup {m + 1}, Cardinality(Before(P, i)) = Cardinality(Before(P, k))
    PROVE  i = k
<1>1. IsFiniteSet(P)
  BY PositionsFinite
<1>2. i \in Nat /\ k \in Nat /\ P \subseteq Nat
  OBVIOUS
<1>3. Cardinality(Before(P, i)) \in Nat /\ Cardinality(Before(P, k)) \in Nat
  BY <1>1, BeforeFinite
<1>4. CASE i < k
  <2>1. i \in P
    BY <1>4
  <2>2. Cardinality(Before(P, i)) < Cardinality(Before(P, k))
    BY <1>1, <1>2, <1>4, <2>1, MoreBefore, Zenon
  <2>3. QED
    BY <1>3, <2>2
<1>5. CASE k < i
  <2>1. k \in P
    BY <1>5
  <2>2. Cardinality(Before(P, k)) < Cardinality(Before(P, i))
    BY <1>1, <1>2, <1>5, <2>1, MoreBefore, Zenon
  <2>3. QED
    BY <1>3, <2>2
<1>6. QED
  BY <1>2, <1>4, <1>5

\* A set has a member, or the number after them all, before which any n of them lie.
LEMMA PositionThere ==
    ASSUME NEW m \in Nat, NEW P, P \subseteq 1 .. m, NEW n \in Nat,
           n <= Cardinality(P)
    PROVE  \E i \in P \cup {m + 1} : Cardinality(Before(P, i)) = n
<1> DEFINE Q == P \cup {m + 1}
           Found(k) == \E i \in Q : Cardinality(Before(P, i)) = k
           S == {k \in Nat : k <= Cardinality(P) => Found(k)}
<1>1. IsFiniteSet(P) /\ Cardinality(P) \in Nat
  BY PositionsFinite
<1>2. Q \subseteq Nat /\ m + 1 \in Q /\ Q # {} /\ P \subseteq Q
  OBVIOUS
<1>3. Found(0)
  <2>1. PICK i \in Q : \A k \in Q : i <= k
    <3> HIDE DEF Q
    <3>1. QED
      BY <1>2, LeastOf, Zenon
  <2>2. \A k \in P : ~ (k < i)
    BY <1>2, <2>1
  <2>3. Before(P, i) = {}
    BY <2>2 DEF Before
  <2>4. QED
    BY <2>1, <2>3, FS_EmptySet
<1>4. ASSUME NEW k \in Nat, k + 1 <= Cardinality(P), Found(k)
      PROVE  Found(k + 1)
  <2>1. PICK i \in Q : Cardinality(Before(P, i)) = k
    BY <1>4
  <2>2. i \in P
    <3>1. CASE i = m + 1
      <4>1. \A l \in P : l < m + 1
        OBVIOUS
      <4>2. Before(P, i) = P
        BY <3>1, <4>1 DEF Before
      <4>3. QED
        BY <1>1, <1>4, <2>1, <4>2
    <3>2. QED
      BY <3>1
  <2> DEFINE R == {j \in Q : i < j}
  <2>3. PICK j \in R : \A l \in R : j <= l
    <3>1. R \subseteq Nat
      BY <1>2
    <3>2. m + 1 \in R
      BY <2>2
    <3>3. R # {}
      BY <3>2
    <3> HIDE DEF R
    <3>4. QED
      BY <3>1, <3>3, LeastOf, Zenon
  <2>4. j \in Q /\ j \in Nat /\ i < j /\ i \in Nat
    BY <1>2, <2>2, <2>3
  <2>5. ASSUME NEW l \in P PROVE l < j <=> l < i \/ l = i
    <3>1. l \in Nat /\ l \in Q
      BY <1>2
    <3>2. i < l => j <= l
      BY <2>3, <3>1
    <3>3. QED
      BY <2>4, <3>1, <3>2
  <2>6. Before(P, j) = Before(P, i) \cup {i}
    BY <2>2, <2>5 DEF Before
  <2>7. i \notin Before(P, i)
    BY <2>4 DEF Before
  <2>8. Cardinality(Before(P, j)) = k + 1
    BY <1>1, <2>1, <2>6, <2>7, BeforeFinite, FS_AddElement
  <2>9. QED
    BY <2>4, <2>8
<1> HIDE DEF Found
<1>5. 0 \in S
  BY <1>3
<1>6. ASSUME NEW k \in S PROVE k + 1 \in S
  BY <1>1, <1>4
<1>7. S = Nat
  <2>1. S \in SUBSET Nat
    OBVIOUS
  <2> HIDE DEF S
  <2>2. QED
    BY <1>5, <1>6, <2>1, Induct
<1>8. Found(n)
  BY <1>1, <1>7
<1>9. QED
  BY <1>8 DEF Found

-----------------------------------------------------------------------------
(* Parts of a text *)

Unit == {"section", "1", "null", "protocol", "version", "motd", "letter", "online",
         "max", "digit", "high", "low"}

\* The units that the answers are written with.
LEMMA UnitsAre ==
    /\ {"section", "1", "null", "protocol", "version", "motd"} \subseteq Unit
    /\ {"letter", "online", "max", "digit", "high", "low"} \subseteq Unit
  BY DEF Unit

\* A piece of a text, unit by unit.
LEMMA Piece ==
    ASSUME NEW w \in Seq(Unit), NEW a \in Nat \ {0}, NEW b \in 0 .. Len(w)
    PROVE  /\ SubSeq(w, a, b) \in Seq(Unit)
           /\ Len(SubSeq(w, a, b)) = IF a <= b THEN b - a + 1 ELSE 0
           /\ \A i \in 1 .. b - a + 1 : SubSeq(w, a, b)[i] = w[a + i - 1]
<1>1. Len(w) \in Nat
  BY LenProperties
<1>2. ASSUME NEW i \in a .. b PROVE w[i] \in Unit
  <2>1. i \in 1 .. Len(w)
    BY <1>1
  <2>2. QED
    BY <2>1, ElementOfSeq
<1>3. a \in Int /\ b \in Int
  BY <1>1
<1>4. QED
  BY <1>2, <1>3, SubSeqProperties

\* A part of the beginning is a part of the text.
LEMMA PieceOfBeginning ==
    ASSUME NEW w \in Seq(Unit), NEW k \in 0 .. Len(w), NEW a \in Nat \ {0},
           NEW b \in 0 .. k
    PROVE  SubSeq(SubSeq(w, 1, k), a, b) = SubSeq(w, a, b)
<1> DEFINE t == SubSeq(w, 1, k)
<1>1. Len(w) \in Nat /\ k \in Nat /\ b \in Nat /\ b \in 0 .. Len(w)
  BY LenProperties
<1>2. t \in Seq(Unit) /\ Len(t) = k /\ \A i \in 1 .. k : t[i] = w[i]
  <2>1. /\ t \in Seq(Unit) /\ Len(t) = IF 1 <= k THEN k - 1 + 1 ELSE 0
        /\ \A i \in 1 .. k - 1 + 1 : t[i] = w[1 + i - 1]
    BY Piece
  <2>2. QED
    BY <1>1, <2>1
<1> HIDE DEF t
<1>3. b \in 0 .. Len(t)
  BY <1>2
<1>4. /\ SubSeq(t, a, b) \in Seq(Unit)
      /\ Len(SubSeq(t, a, b)) = IF a <= b THEN b - a + 1 ELSE 0
      /\ \A i \in 1 .. b - a + 1 : SubSeq(t, a, b)[i] = t[a + i - 1]
  BY <1>2, <1>3, Piece
<1>5. /\ SubSeq(w, a, b) \in Seq(Unit)
      /\ Len(SubSeq(w, a, b)) = IF a <= b THEN b - a + 1 ELSE 0
      /\ \A i \in 1 .. b - a + 1 : SubSeq(w, a, b)[i] = w[a + i - 1]
  BY <1>1, Piece
<1>6. ASSUME NEW i \in 1 .. Len(SubSeq(t, a, b))
      PROVE  SubSeq(t, a, b)[i] = SubSeq(w, a, b)[i]
  <2>1. i \in 1 .. b - a + 1 /\ a + i - 1 \in 1 .. k
    BY <1>1, <1>4
  <2>2. QED
    BY <1>2, <1>4, <1>5, <2>1
<1>7. SubSeq(t, a, b) = SubSeq(w, a, b)
  BY <1>4, <1>5, <1>6, SeqEqual
<1>8. QED
  BY <1>7 DEF t

\* The places of some units in a text can be counted.
LEMMA PlacesIn ==
    ASSUME NEW text \in Seq(Unit), NEW units
    PROVE  /\ Len(text) \in Nat
           /\ Places(text, units) \subseteq 1 .. Len(text)
           /\ IsFiniteSet(Places(text, units))
           /\ Cardinality(Places(text, units)) \in 0 .. Len(text)
<1>1. Len(text) \in Nat
  BY LenProperties
<1>2. Places(text, units) \subseteq 1 .. Len(text)
  BY DEF Places
<1>3. QED
  BY <1>1, <1>2, PositionsFinite

\* The separator with n - 1 others before it is the n-th.
LEMMA SeparatorIs ==
    ASSUME NEW text \in Seq(Unit), NEW c, NEW n \in Nat \ {0},
           NEW i \in Places(text, {c}) \cup {Len(text) + 1},
           Cardinality(Before(Places(text, {c}), i)) = n - 1
    PROVE  Separator(text, c, n) = i
<1> DEFINE P == Places(text, {c})
           Q == P \cup {Len(text) + 1}
<1>1. Len(text) \in Nat /\ P \subseteq 1 .. Len(text)
  BY PlacesIn
<1>2. Separator(text, c, n) = CHOOSE k \in Q : Cardinality(Before(P, k)) = n - 1
  BY DEF Separator, Before
<1> HIDE DEF P
<1>3. i \in Q /\ Cardinality(Before(P, i)) = n - 1
  BY DEF P
<1>4. \A k \in Q : Cardinality(Before(P, k)) = n - 1 => k = i
  BY <1>1, <1>3, OnePosition
<1> HIDE DEF Q
<1>5. (CHOOSE k \in Q : Cardinality(Before(P, k)) = n - 1) = i
  BY <1>3, <1>4
<1>6. QED
  BY <1>2, <1>5

\* There is an n-th separator, or the text ends there.
LEMMA SeparatorThere ==
    ASSUME NEW text \in Seq(Unit), NEW c,
           NEW n \in 1 .. Cardinality(Places(text, {c})) + 1
    PROVE  /\ Separator(text, c, n) \in Places(text, {c}) \cup {Len(text) + 1}
           /\ Cardinality(Before(Places(text, {c}), Separator(text, c, n))) = n - 1
<1> DEFINE P == Places(text, {c})
<1>1. Len(text) \in Nat /\ P \subseteq 1 .. Len(text) /\ Cardinality(P) \in Nat
  BY PlacesIn
<1> HIDE DEF P
<1>2. n - 1 \in 0 .. Cardinality(P) /\ n \in Nat \ {0}
  BY <1>1 DEF P
<1>3. PICK i \in P \cup {Len(text) + 1} : Cardinality(Before(P, i)) = n - 1
  <2> DEFINE m == n - 1
             l == Len(text)
  <2>1. m \in Nat /\ m <= Cardinality(P) /\ l \in Nat /\ P \subseteq 1 .. l
    BY <1>1, <1>2
  <2> HIDE DEF m, l
  <2>2. \E i \in P \cup {l + 1} : Cardinality(Before(P, i)) = m
    BY <2>1, PositionThere, ZenonT(40)
  <2>3. QED
    BY <2>2 DEF m, l
<1>4. Separator(text, c, n) = i
  BY <1>2, <1>3, SeparatorIs DEF P
<1>5. QED
  BY <1>3, <1>4 DEF P

\* What is cut off the end of a text changes none of the parts that end before
\* it: only the last part of the rest is another.
LEMMA CutKeepsParts ==
    ASSUME NEW w \in Seq(Unit), NEW k \in 0 .. Len(w), NEW c
    PROVE  /\ Len(Split(SubSeq(w, 1, k), c)) \in Nat
           /\ Len(Split(w, c)) \in Nat
           /\ Len(Split(SubSeq(w, 1, k), c)) <= Len(Split(w, c))
           /\ \A n \in 1 .. Len(Split(SubSeq(w, 1, k), c)) - 1 :
                 Split(SubSeq(w, 1, k), c)[n] = Split(w, c)[n]
<1> DEFINE t == SubSeq(w, 1, k)
           P == Places(w, {c})
           R == Places(t, {c})
<1>1. /\ Len(w) \in Nat /\ P \subseteq 1 .. Len(w)
      /\ IsFiniteSet(P) /\ Cardinality(P) \in Nat
  BY PlacesIn
<1>2. t \in Seq(Unit) /\ Len(t) = k /\ \A i \in 1 .. k : t[i] = w[i]
  <2>1. /\ t \in Seq(Unit) /\ Len(t) = IF 1 <= k THEN k - 1 + 1 ELSE 0
        /\ \A i \in 1 .. k - 1 + 1 : t[i] = w[1 + i - 1]
    BY Piece
  <2>2. QED
    BY <1>1, <2>1
<1>3. R = {i \in P : i <= k}
  BY <1>1, <1>2 DEF Places
<1>4. Cardinality(R) \in Nat /\ R \subseteq 1 .. k
  <2> HIDE DEF t
  <2>1. QED
    BY <1>2, PlacesIn
<1>5. Cardinality(R) <= Cardinality(P)
  <2>1. R \in SUBSET P
    BY <1>3
  <2> HIDE DEF P, R
  <2>2. QED
    BY <1>1, <2>1, FS_Subset
<1>6. ASSUME NEW n \in 1 .. Cardinality(R)
      PROVE  /\ Separator(t, c, n) = Separator(w, c, n)
             /\ Separator(t, c, n) \in 1 .. k
  <2> DEFINE i == Separator(t, c, n)
  <2>1. i \in R \cup {k + 1} /\ Cardinality(Before(R, i)) = n - 1
    <3>1. n \in 1 .. Cardinality(Places(t, {c})) + 1
      BY <1>4
    <3> HIDE DEF t
    <3>2. QED
      BY <1>2, <3>1, SeparatorThere
  <2>2. i \in R
    <3>1. CASE i = k + 1
      <4>1. ASSUME NEW l \in R PROVE l < k + 1
        <5>1. l \in 1 .. k
          BY <1>4
        <5>2. QED
          BY <5>1
      <4>2. Before(R, i) = R
        BY <3>1, <4>1 DEF Before
      <4>3. QED
        BY <1>4, <2>1, <4>2
    <3>2. QED
      BY <2>1, <3>1
  <2>3. i \in P /\ i \in 1 .. k
    BY <1>3, <1>4, <2>2
  <2>4. Before(P, i) = Before(R, i)
    <3>1. ASSUME NEW l \in P, l < i PROVE l <= k
      <4>1. l \in 1 .. Len(w) /\ i \in 1 .. k
        BY <1>1, <2>3
      <4> HIDE DEF i
      <4>2. QED
        BY <1>1, <3>1, <4>1
    <3> HIDE DEF P, R, i
    <3>2. QED
      BY <1>3, <3>1 DEF Before
  <2>5. Separator(w, c, n) = i
    <3>1. i \in Places(w, {c}) \cup {Len(w) + 1} /\ n \in Nat \ {0}
      BY <2>3
    <3>2. Cardinality(Before(Places(w, {c}), i)) = n - 1
      BY <2>1, <2>4
    <3> HIDE DEF i
    <3>3. QED
      BY <3>1, <3>2, SeparatorIs
  <2>6. QED
    BY <2>3, <2>5
<1>7. /\ Split(t, c) = [n \in 1 .. Cardinality(R) + 1 |->
                           SubSeq(t, Separator(t, c, n - 1) + 1, Separator(t, c, n) - 1)]
      /\ Split(w, c) = [n \in 1 .. Cardinality(P) + 1 |->
                           SubSeq(w, Separator(w, c, n - 1) + 1, Separator(w, c, n) - 1)]
  BY DEF Split
<1> HIDE DEF P, R
<1>8. Len(Split(t, c)) = Cardinality(R) + 1 /\ Len(Split(w, c)) = Cardinality(P) + 1
  BY <1>1, <1>4, <1>7
<1>9. ASSUME NEW n \in 1 .. Cardinality(R)
      PROVE  Split(t, c)[n] = Split(w, c)[n]
  <2> DEFINE a == Separator(t, c, n - 1) + 1
             b == Separator(t, c, n) - 1
  <2>1. b \in 0 .. k /\ b = Separator(w, c, n) - 1
    BY <1>4, <1>6
  <2>2. a \in Nat \ {0} /\ a = Separator(w, c, n - 1) + 1
    <3>1. CASE n = 1
      BY <3>1 DEF Separator
    <3>2. CASE n # 1
      <4>1. n - 1 \in 1 .. Cardinality(R)
        BY <1>4, <3>2
      <4>2. QED
        BY <1>6, <4>1
    <3>3. QED
      BY <3>1, <3>2
  <2>3. n \in 1 .. Cardinality(R) + 1 /\ n \in 1 .. Cardinality(P) + 1
    BY <1>1, <1>4, <1>5
  <2>4. Split(t, c)[n] = SubSeq(t, a, b) /\ Split(w, c)[n] = SubSeq(w, a, b)
    BY <1>7, <2>1, <2>2, <2>3
  <2> HIDE DEF a, b
  <2>5. SubSeq(t, a, b) = SubSeq(w, a, b)
    BY <2>1, <2>2, PieceOfBeginning
  <2>6. QED
    BY <2>4, <2>5
<1>10. /\ Len(Split(t, c)) \in Nat /\ Len(Split(w, c)) \in Nat
       /\ Len(Split(t, c)) <= Len(Split(w, c))
       /\ \A n \in 1 .. Len(Split(t, c)) - 1 : Split(t, c)[n] = Split(w, c)[n]
  BY <1>1, <1>4, <1>5, <1>8, <1>9
<1>11. QED
  BY <1>10

-----------------------------------------------------------------------------
(* The prefix of the 1.4+ format, and what is left when three bytes go *)

\* What starts_with asks of a text (legacy_slp.rs:71).
LEMMA PrefixIs ==
    ASSUME NEW text \in Seq(Unit)
    PROVE  IsPrefix(<<"section", "1", "null">>, text) <=>
             /\ Len(text) >= 3
             /\ text[1] = "section" /\ text[2] = "1" /\ text[3] = "null"
<1> DEFINE p == <<"section", "1", "null">>
           b == SubSeq(text, 1, 3)
<1>1. /\ p \in Seq(Unit) /\ Len(p) = 3
      /\ p[1] = "section" /\ p[2] = "1" /\ p[3] = "null"
  <2>1. Len(p) = 3 /\ p[1] = "section" /\ p[2] = "1" /\ p[3] = "null"
    OBVIOUS
  <2>2. p \in Seq(Unit)
    BY UnitsAre
  <2>3. QED
    BY <2>1, <2>2
<1>2. Len(text) \in Nat
  BY LenProperties
<1>3. SubSeq(p, 1, Len(p)) = p
  <2> HIDE DEF p
  <2>1. QED
    BY <1>1, SubSeqFull
<1>4. IsPrefix(p, text) <=> Len(text) >= 3 /\ b = p
  BY <1>1, <1>2, <1>3 DEF IsPrefix
<1>5. ASSUME Len(text) >= 3
      PROVE  b = p <=> text[1] = "section" /\ text[2] = "1" /\ text[3] = "null"
  <2>1. /\ b \in Seq(Unit) /\ Len(b) = IF 1 <= 3 THEN 3 - 1 + 1 ELSE 0
        /\ \A i \in 1 .. 3 - 1 + 1 : b[i] = text[1 + i - 1]
    <3>1. 3 \in 0 .. Len(text) /\ 1 \in Nat \ {0}
      BY <1>2, <1>5
    <3>2. QED
      BY <3>1, Piece
  <2>2. Len(b) = 3 /\ b[1] = text[1] /\ b[2] = text[2] /\ b[3] = text[3]
    BY <2>1
  <2> HIDE DEF b, p
  <2>3. ASSUME b[1] = p[1], b[2] = p[2], b[3] = p[3] PROVE b = p
    <3>1. \A i \in 1 .. Len(b) : b[i] = p[i]
      <4>1. \A i \in 1 .. 3 : i = 1 \/ i = 2 \/ i = 3
        OBVIOUS
      <4>2. QED
        BY <2>2, <2>3, <4>1
    <3>2. QED
      BY <1>1, <2>1, <2>2, <3>1, SeqEqual
  <2>4. QED
    BY <1>1, <2>2, <2>3
<1>6. QED
  BY <1>4, <1>5

\* The section sign has two bytes: three bytes are two units of the prefix.
LEMMA SliceOfPrefix ==
    ASSUME NEW text \in Seq(Unit), IsPrefix(<<"section", "1", "null">>, text)
    PROVE  ByteSlice(text, 3) = SubSeq(text, 3, Len(text))
<1> DEFINE Wide == {"section", "high", "low"}
           B(i) == Bytes(SubSeq(text, 1, i))
<1>1. /\ Len(text) \in Nat /\ Len(text) >= 3
      /\ text[1] = "section" /\ text[2] = "1"
  BY LenProperties, PrefixIs
<1>2. ASSUME NEW i \in 0 .. Len(text)
      PROVE  /\ SubSeq(text, 1, i) \in Seq(Unit) /\ Len(SubSeq(text, 1, i)) = i
             /\ Places(SubSeq(text, 1, i), Wide) = {j \in 1 .. i : text[j] \in Wide}
  <2>1. /\ SubSeq(text, 1, i) \in Seq(Unit)
        /\ Len(SubSeq(text, 1, i)) = IF 1 <= i THEN i - 1 + 1 ELSE 0
        /\ \A j \in 1 .. i - 1 + 1 : SubSeq(text, 1, i)[j] = text[1 + j - 1]
    BY Piece
  <2>2. /\ i \in Nat /\ Len(SubSeq(text, 1, i)) = i
        /\ \A j \in 1 .. i : SubSeq(text, 1, i)[j] = text[j]
    BY <1>1, <2>1
  <2>3. QED
    BY <2>1, <2>2 DEF Places
<1>3. B(2) = 3
  <2>1. {j \in 1 .. 2 : text[j] \in Wide} = {1}
    BY <1>1
  <2>2. 2 \in 0 .. Len(text)
    BY <1>1
  <2> DEFINE x == SubSeq(text, 1, 2)
  <2>3. Len(x) = 2 /\ Places(x, Wide) = {1}
    BY <1>2, <2>1, <2>2
  <2>4. Cardinality({1}) = 1
    BY FS_Singleton
  <2> HIDE DEF x
  <2>5. Bytes(x) = 3
    BY <2>3, <2>4, SMTT(30) DEF Bytes
  <2>6. QED
    BY <2>5 DEF x
<1>4. ASSUME NEW i \in 0 .. Len(text), B(i) = 3
      PROVE  i = 2
  <2> DEFINE P == {j \in 1 .. i : text[j] \in Wide}
  <2>1. i \in Nat /\ P \subseteq 1 .. i
    BY <1>1
  <2>2. IsFiniteSet(P) /\ Cardinality(P) \in Nat /\ Cardinality(P) <= i
    <3> HIDE DEF P
    <3>1. QED
      BY <2>1, PositionsFinite
  <2>3. i + Cardinality(P) = 3
    BY <1>2, <1>4 DEF Bytes
  <2>4. Cardinality(P) >= 1
    <3>1. i >= 1
      BY <2>1, <2>2, <2>3
    <3>2. 1 \in P
      BY <1>1, <2>1, <3>1
    <3> HIDE DEF P
    <3>3. P # {}
      BY <3>2
    <3>4. QED
      BY <2>2, <3>3, FS_EmptySet
  <2> HIDE DEF P
  <2>5. QED
    BY <2>1, <2>2, <2>3, <2>4
<1>5. (CHOOSE i \in 0 .. Len(text) : B(i) = 3) = 2
  <2>1. 2 \in 0 .. Len(text)
    BY <1>1
  <2> HIDE DEF B
  <2>2. QED
    BY <1>3, <1>4, <2>1
<1>6. ByteSlice(text, 3) =
        SubSeq(text, (CHOOSE i \in 0 .. Len(text) : B(i) = 3) + 1, Len(text))
  BY DEF ByteSlice
<1> DEFINE c == CHOOSE i \in 0 .. Len(text) : B(i) = 3
<1>7. c = 2 /\ ByteSlice(text, 3) = SubSeq(text, c + 1, Len(text))
  BY <1>5, <1>6, Zenon
<1> HIDE DEF c
<1>8. QED
  BY <1>7

\* The same of a part of the text from its beginning.
LEMMA SliceOfBeginning ==
    ASSUME NEW w \in Seq(Unit), NEW k \in 0 .. Len(w),
           IsPrefix(<<"section", "1", "null">>, SubSeq(w, 1, k))
    PROVE  /\ IsPrefix(<<"section", "1", "null">>, w)
           /\ ByteSlice(w, 3) \in Seq(Unit)
           /\ k - 2 \in 0 .. Len(ByteSlice(w, 3))
           /\ ByteSlice(SubSeq(w, 1, k), 3) = SubSeq(ByteSlice(w, 3), 1, k - 2)
<1> DEFINE t == SubSeq(w, 1, k)
<1>1. Len(w) \in Nat /\ k \in Nat
  BY LenProperties
<1>2. t \in Seq(Unit) /\ Len(t) = k /\ \A i \in 1 .. k : t[i] = w[i]
  <2>1. /\ t \in Seq(Unit) /\ Len(t) = IF 1 <= k THEN k - 1 + 1 ELSE 0
        /\ \A i \in 1 .. k - 1 + 1 : t[i] = w[1 + i - 1]
    BY Piece
  <2>2. QED
    BY <1>1, <2>1
<1>3. IsPrefix(<<"section", "1", "null">>, t)
  OBVIOUS
<1> HIDE DEF t
<1>4. k >= 3 /\ t[1] = "section" /\ t[2] = "1" /\ t[3] = "null"
  BY <1>2, <1>3, PrefixIs
<1>5. IsPrefix(<<"section", "1", "null">>, w)
  <2>1. Len(w) >= 3 /\ w[1] = "section" /\ w[2] = "1" /\ w[3] = "null"
    BY <1>1, <1>2, <1>4
  <2>2. QED
    BY <2>1, PrefixIs
<1> DEFINE u == SubSeq(w, 3, Len(w))
           v == SubSeq(t, 3, k)
<1>6. ByteSlice(w, 3) = u /\ ByteSlice(t, 3) = v
  BY <1>2, <1>3, <1>5, SliceOfPrefix
<1>7. /\ u \in Seq(Unit) /\ Len(u) = Len(w) - 2
      /\ \A i \in 1 .. Len(w) - 2 : u[i] = w[i + 2]
  <2>1. /\ u \in Seq(Unit)
        /\ Len(u) = IF 3 <= Len(w) THEN Len(w) - 3 + 1 ELSE 0
        /\ \A i \in 1 .. Len(w) - 3 + 1 : u[i] = w[3 + i - 1]
    <3>1. Len(w) \in 0 .. Len(w) /\ 3 \in Nat \ {0}
      BY <1>1
    <3>2. QED
      BY <3>1, Piece
  <2> HIDE DEF u
  <2>2. QED
    BY <1>1, <1>4, <2>1
<1>8. /\ v \in Seq(Unit) /\ Len(v) = k - 2
      /\ \A i \in 1 .. k - 2 : v[i] = t[i + 2]
  <2>1. /\ v \in Seq(Unit) /\ Len(v) = IF 3 <= k THEN k - 3 + 1 ELSE 0
        /\ \A i \in 1 .. k - 3 + 1 : v[i] = t[3 + i - 1]
    <3>1. k \in 0 .. Len(t) /\ 3 \in Nat \ {0}
      BY <1>1, <1>2
    <3>2. QED
      BY <1>2, <3>1, Piece
  <2> HIDE DEF v
  <2>2. QED
    BY <1>1, <1>4, <2>1
<1> HIDE DEF u, v
<1>9. k - 2 \in 0 .. Len(u)
  BY <1>1, <1>4, <1>7
<1>10. v = SubSeq(u, 1, k - 2)
  <2> DEFINE x == SubSeq(u, 1, k - 2)
  <2>1. /\ x \in Seq(Unit) /\ Len(x) = IF 1 <= k - 2 THEN (k - 2) - 1 + 1 ELSE 0
        /\ \A i \in 1 .. (k - 2) - 1 + 1 : x[i] = u[1 + i - 1]
    BY <1>7, <1>9, Piece
  <2> HIDE DEF x
  <2>2. x \in Seq(Unit) /\ Len(x) = k - 2 /\ \A i \in 1 .. k - 2 : x[i] = u[i]
    BY <1>1, <1>4, <2>1
  <2>3. \A i \in 1 .. k - 2 : v[i] = x[i]
    <3>1. ASSUME NEW i \in 1 .. k - 2 PROVE v[i] = x[i]
      <4>1. i \in 1 .. Len(w) - 2 /\ i + 2 \in 1 .. k
        BY <1>1, <1>4
      <4>2. QED
        BY <1>2, <1>7, <1>8, <2>2, <4>1
    <3>2. QED
      BY <3>1
  <2>4. v = x
    BY <1>8, <2>2, <2>3, SeqEqual
  <2>5. QED
    BY <2>4 DEF x
<1>11. QED
  BY <1>5, <1>6, <1>7, <1>9, <1>10 DEF t

-----------------------------------------------------------------------------
(* The answers that servers send, unit by unit *)

\* x is made of s and u, one after the other.
Made(x, s, u) ==
    /\ x \in Seq(Unit) /\ Len(x) = Len(s) + Len(u)
    /\ \A i \in 1 .. Len(s) : x[i] = s[i]
    /\ \A i \in 1 .. Len(u) : x[Len(s) + i] = u[i]

\* Two texts in one, unit by unit.
LEMMA Joined ==
    ASSUME NEW s \in Seq(Unit), NEW u \in Seq(Unit)
    PROVE  Made(s \o u, s, u)
<1>1. Len(s) \in Nat /\ Len(u) \in Nat
  BY LenProperties
<1>2. /\ s \o u \in Seq(Unit) /\ Len(s \o u) = Len(s) + Len(u)
      /\ \A i \in 1 .. Len(s) + Len(u) : (s \o u)[i] =
            IF i <= Len(s) THEN s[i] ELSE u[i - Len(s)]
  BY ConcatProperties
<1>3. ASSUME NEW i \in 1 .. Len(s) PROVE (s \o u)[i] = s[i]
  <2>1. i \in 1 .. Len(s) + Len(u) /\ i <= Len(s)
    BY <1>1
  <2>2. QED
    BY <1>2, <2>1
<1>4. ASSUME NEW i \in 1 .. Len(u) PROVE (s \o u)[Len(s) + i] = u[i]
  <2>1. /\ Len(s) + i \in 1 .. Len(s) + Len(u) /\ ~ (Len(s) + i <= Len(s))
        /\ Len(s) + i - Len(s) = i
    BY <1>1
  <2>2. QED
    BY <1>2, <2>1
<1>5. QED
  BY <1>2, <1>3, <1>4 DEF Made

\* A field of an answer, unit by unit.
LEMMA FieldUnits ==
    ASSUME NEW name \in Unit
    PROVE  /\ Field(name) \in Seq(Unit) /\ Len(Field(name)) = 2
           /\ Field(name)[1] = name /\ Field(name)[2] = "digit"
<1>1. "digit" \in Unit
  BY UnitsAre
<1>2. QED
  BY <1>1 DEF Field

\* A description, unit by unit.
LEMMA MotdUnits ==
    ASSUME NEW n \in Nat \ {0}
    PROVE  /\ Motd(n) \in Seq(Unit) /\ Len(Motd(n)) = n
           /\ Motd(n)[1] = "motd"
           /\ \A i \in 1 .. n : Motd(n)[i] \in {"motd", "letter"}
<1>1. Motd(n) \in [1 .. n -> Unit]
  BY UnitsAre DEF Motd
<1>2. Motd(n) \in Seq(Unit) /\ Len(Motd(n)) = n
  <2>1. Motd(n) \in Seq(Unit)
    BY <1>1, SeqDef
  <2>2. DOMAIN Motd(n) = 1 .. n /\ n \in Nat
    BY <1>1
  <2>3. QED
    BY <2>1, <2>2, LenProperties
<1>3. QED
  BY <1>2 DEF Motd

\* A beta answer, unit by unit.
LEMMA BetaUnits ==
    ASSUME NEW n \in Nat \ {0}
    PROVE  /\ Beta(n) \in Seq(Unit) /\ Len(Beta(n)) = n + 6
           /\ \A i \in 1 .. n : Beta(n)[i] = Motd(n)[i]
           /\ Beta(n)[n + 1] = "section"
           /\ Beta(n)[n + 2] = "online" /\ Beta(n)[n + 3] = "digit"
           /\ Beta(n)[n + 4] = "section"
           /\ Beta(n)[n + 5] = "max" /\ Beta(n)[n + 6] = "digit"
<1> DEFINE section == <<"section">>
           motd == Motd(n)
           online == Field("online")
           max == Field("max")
           b == motd \o section
           c == b \o online
           d == c \o section
           w == d \o max
<1>1. Beta(n) = w
  BY DEF Beta
<1>2. /\ section \in Seq(Unit) /\ Len(section) = 1
      /\ online \in Seq(Unit) /\ Len(online) = 2
      /\ max \in Seq(Unit) /\ Len(max) = 2
  BY UnitsAre, FieldUnits
<1>3. motd \in Seq(Unit) /\ Len(motd) = n
  BY MotdUnits
<1>4. /\ section[1] = "section"
      /\ online[1] = "online" /\ online[2] = "digit"
      /\ max[1] = "max" /\ max[2] = "digit"
  BY UnitsAre, FieldUnits
<1>5. motd = Motd(n)
  OBVIOUS
<1> HIDE DEF section, motd, online, max
<1>6. /\ b \in Seq(Unit) /\ Len(b) = n + 1
      /\ \A i \in 1 .. n : b[i] = motd[i]
      /\ b[n + 1] = section[1]
  <2>1. Made(b, motd, section)
    BY <1>2, <1>3, Joined, Zenon
  <2> HIDE DEF b
  <2>2. QED
    BY <1>2, <1>3, <2>1 DEF Made
<1> HIDE DEF b
<1>7. /\ c \in Seq(Unit) /\ Len(c) = n + 3
      /\ \A i \in 1 .. n + 1 : c[i] = b[i]
      /\ c[n + 2] = online[1] /\ c[n + 3] = online[2]
  <2>1. Made(c, b, online)
    BY <1>2, <1>6, Joined, Zenon
  <2> HIDE DEF c
  <2>2. QED
    BY <1>2, <1>6, <2>1 DEF Made
<1> HIDE DEF c
<1>8. /\ d \in Seq(Unit) /\ Len(d) = n + 4
      /\ \A i \in 1 .. n + 3 : d[i] = c[i]
      /\ d[n + 4] = section[1]
  <2>1. Made(d, c, section)
    BY <1>2, <1>7, Joined, Zenon
  <2> HIDE DEF d
  <2>2. QED
    BY <1>2, <1>7, <2>1 DEF Made
<1> HIDE DEF d
<1>9. /\ w \in Seq(Unit) /\ Len(w) = n + 6
      /\ \A i \in 1 .. n + 4 : w[i] = d[i]
      /\ w[n + 5] = max[1] /\ w[n + 6] = max[2]
  <2>1. Made(w, d, max)
    BY <1>2, <1>8, Joined, Zenon
  <2> HIDE DEF w
  <2>2. QED
    BY <1>2, <1>8, <2>1 DEF Made
<1> HIDE DEF w
<1>10. \A i \in 1 .. n : w[i] = motd[i]
  BY <1>6, <1>7, <1>8, <1>9
<1>11. w[n + 1] = section[1] /\ w[n + 2] = online[1] /\ w[n + 3] = online[2]
  <2>1. w[n + 1] = d[n + 1] /\ w[n + 2] = d[n + 2] /\ w[n + 3] = d[n + 3]
    BY <1>9
  <2>2. d[n + 1] = c[n + 1] /\ d[n + 2] = c[n + 2] /\ d[n + 3] = c[n + 3]
    BY <1>8
  <2>3. c[n + 1] = b[n + 1]
    BY <1>7
  <2>4. QED
    BY <1>6, <1>7, <2>1, <2>2, <2>3
<1>12. w[n + 4] = section[1]
  BY <1>8, <1>9
<1>13. QED
  BY <1>1, <1>4, <1>5, <1>9, <1>10, <1>11, <1>12

\* A 1.4+ answer, unit by unit.
LEMMA ModernUnits ==
    ASSUME NEW n \in Nat \ {0}
    PROVE  /\ Modern(n) \in Seq(Unit) /\ Len(Modern(n)) = n + 15
           /\ Modern(n)[1] = "section" /\ Modern(n)[2] = "1" /\ Modern(n)[3] = "null"
           /\ Modern(n)[4] = "protocol" /\ Modern(n)[5] = "digit"
           /\ Modern(n)[6] = "null"
           /\ Modern(n)[7] = "version" /\ Modern(n)[8] = "digit"
           /\ Modern(n)[9] = "null"
           /\ \A i \in 1 .. n : Modern(n)[9 + i] = Motd(n)[i]
           /\ Modern(n)[n + 10] = "null"
           /\ Modern(n)[n + 11] = "online" /\ Modern(n)[n + 12] = "digit"
           /\ Modern(n)[n + 13] = "null"
           /\ Modern(n)[n + 14] = "max" /\ Modern(n)[n + 15] = "digit"
<1> DEFINE p == <<"section", "1", "null">>
           null == <<"null">>
           protocol == Field("protocol")
           version == Field("version")
           motd == Motd(n)
           online == Field("online")
           max == Field("max")
           a == p \o protocol
           b == a \o null
           c == b \o version
           d == c \o null
           e == d \o motd
           f == e \o null
           g == f \o online
           h == g \o null
           w == h \o max
<1>1. Modern(n) = w
  BY DEF Modern
<1>2. p \in Seq(Unit) /\ Len(p) = 3
  <2>1. Len(p) = 3
    OBVIOUS
  <2>2. p \in Seq(Unit)
    BY UnitsAre
  <2>3. QED
    BY <2>1, <2>2
<1>3. /\ null \in Seq(Unit) /\ Len(null) = 1
      /\ protocol \in Seq(Unit) /\ Len(protocol) = 2
      /\ version \in Seq(Unit) /\ Len(version) = 2
      /\ motd \in Seq(Unit) /\ Len(motd) = n
      /\ online \in Seq(Unit) /\ Len(online) = 2
      /\ max \in Seq(Unit) /\ Len(max) = 2
  BY UnitsAre, FieldUnits, MotdUnits
<1>4. /\ p[1] = "section" /\ p[2] = "1" /\ p[3] = "null"
      /\ null[1] = "null"
      /\ protocol[1] = "protocol" /\ protocol[2] = "digit"
      /\ version[1] = "version" /\ version[2] = "digit"
      /\ online[1] = "online" /\ online[2] = "digit"
      /\ max[1] = "max" /\ max[2] = "digit"
  BY UnitsAre, FieldUnits
<1>5. motd = Motd(n)
  OBVIOUS
<1> HIDE DEF p, null, protocol, version, motd, online, max
<1>6. /\ a \in Seq(Unit) /\ Len(a) = 5
      /\ \A i \in 1 .. 3 : a[i] = p[i]
      /\ a[4] = protocol[1] /\ a[5] = protocol[2]
  <2>1. Made(a, p, protocol)
    BY <1>3, <1>2, Joined, Zenon
  <2> HIDE DEF a
  <2>2. QED
    BY <1>3, <1>2, <2>1 DEF Made
<1> HIDE DEF a
<1>7. /\ b \in Seq(Unit) /\ Len(b) = 6
      /\ \A i \in 1 .. 5 : b[i] = a[i]
      /\ b[6] = null[1]
  <2>1. Made(b, a, null)
    BY <1>3, <1>6, Joined, Zenon
  <2> HIDE DEF b
  <2>2. QED
    BY <1>3, <1>6, <2>1 DEF Made
<1> HIDE DEF b
<1>8. /\ c \in Seq(Unit) /\ Len(c) = 8
      /\ \A i \in 1 .. 6 : c[i] = b[i]
      /\ c[7] = version[1] /\ c[8] = version[2]
  <2>1. Made(c, b, version)
    BY <1>3, <1>7, Joined, Zenon
  <2> HIDE DEF c
  <2>2. QED
    BY <1>3, <1>7, <2>1 DEF Made
<1> HIDE DEF c
<1>9. /\ d \in Seq(Unit) /\ Len(d) = 9
      /\ \A i \in 1 .. 8 : d[i] = c[i]
      /\ d[9] = null[1]
  <2>1. Made(d, c, null)
    BY <1>3, <1>8, Joined, Zenon
  <2> HIDE DEF d
  <2>2. QED
    BY <1>3, <1>8, <2>1 DEF Made
<1> HIDE DEF d
<1>10. /\ e \in Seq(Unit) /\ Len(e) = n + 9
       /\ \A i \in 1 .. 9 : e[i] = d[i]
       /\ \A i \in 1 .. n : e[9 + i] = motd[i]
  <2>1. Made(e, d, motd)
    BY <1>3, <1>9, Joined, Zenon
  <2> HIDE DEF e
  <2>2. QED
    BY <1>3, <1>9, <2>1 DEF Made
<1> HIDE DEF e
<1>11. /\ f \in Seq(Unit) /\ Len(f) = n + 10
       /\ \A i \in 1 .. n + 9 : f[i] = e[i]
       /\ f[n + 10] = null[1]
  <2>1. Made(f, e, null)
    BY <1>3, <1>10, Joined, Zenon
  <2> HIDE DEF f
  <2>2. QED
    BY <1>3, <1>10, <2>1 DEF Made
<1> HIDE DEF f
<1>12. /\ g \in Seq(Unit) /\ Len(g) = n + 12
       /\ \A i \in 1 .. n + 10 : g[i] = f[i]
       /\ g[n + 11] = online[1] /\ g[n + 12] = online[2]
  <2>1. Made(g, f, online)
    BY <1>3, <1>11, Joined, Zenon
  <2> HIDE DEF g
  <2>2. QED
    BY <1>3, <1>11, <2>1 DEF Made
<1> HIDE DEF g
<1>13. /\ h \in Seq(Unit) /\ Len(h) = n + 13
       /\ \A i \in 1 .. n + 12 : h[i] = g[i]
       /\ h[n + 13] = null[1]
  <2>1. Made(h, g, null)
    BY <1>3, <1>12, Joined, Zenon
  <2> HIDE DEF h
  <2>2. QED
    BY <1>3, <1>12, <2>1 DEF Made
<1> HIDE DEF h
<1>14. /\ w \in Seq(Unit) /\ Len(w) = n + 15
       /\ \A i \in 1 .. n + 13 : w[i] = h[i]
       /\ w[n + 14] = max[1] /\ w[n + 15] = max[2]
  <2>1. Made(w, h, max)
    BY <1>3, <1>13, Joined, Zenon
  <2> HIDE DEF w
  <2>2. QED
    BY <1>3, <1>13, <2>1 DEF Made
<1> HIDE DEF w
<1>15. \A i \in 1 .. n + 9 : w[i] = e[i]
  BY <1>11, <1>12, <1>13, <1>14
<1>16. \A i \in 1 .. 9 : w[i] = d[i]
  BY <1>10, <1>15
<1>17. \A i \in 1 .. 5 : w[i] = a[i]
  BY <1>7, <1>8, <1>9, <1>16
<1>18. w[1] = p[1] /\ w[2] = p[2] /\ w[3] = p[3]
  BY <1>6, <1>17
<1>19. w[4] = protocol[1] /\ w[5] = protocol[2]
  BY <1>6, <1>17
<1>20. w[6] = null[1]
  BY <1>7, <1>8, <1>9, <1>16
<1>21. w[7] = version[1] /\ w[8] = version[2] /\ w[9] = null[1]
  BY <1>8, <1>9, <1>16
<1>22. ASSUME NEW k \in 1 .. n PROVE w[9 + k] = motd[k]
  <2>1. 9 + k \in 1 .. n + 9
    OBVIOUS
  <2>2. QED
    BY <1>10, <1>15, <2>1
<1>23. w[n + 10] = null[1]
  BY <1>11, <1>12, <1>13, <1>14
<1>24. w[n + 11] = online[1] /\ w[n + 12] = online[2] /\ w[n + 13] = null[1]
  BY <1>12, <1>13, <1>14
<1>25. QED
  BY <1>1, <1>4, <1>5, <1>14, <1>18, <1>19, <1>20, <1>21, <1>22, <1>23, <1>24

-----------------------------------------------------------------------------
(* What is read from them *)

Cuts(text, c) == Places(text, {c})

\* The part that starts after one separator and ends before the next.
LEMMA PartIs ==
    ASSUME NEW text \in Seq(Unit), NEW c, NEW n \in Nat \ {0},
           n <= Cardinality(Cuts(text, c)) + 1,
           NEW i, Separator(text, c, n - 1) = i,
           NEW k, k \in Cuts(text, c) \cup {Len(text) + 1},
           Cardinality(Before(Cuts(text, c), k)) = n - 1
    PROVE  /\ Separator(text, c, n) = k
           /\ Split(text, c)[n] = SubSeq(text, i + 1, k - 1)
<1>1. Separator(text, c, n) = k
  BY SeparatorIs DEF Cuts
<1>2. n \in 1 .. Cardinality(Cuts(text, c)) + 1
  BY PlacesIn DEF Cuts
<1>3. Split(text, c)[n] =
        SubSeq(text, Separator(text, c, n - 1) + 1, Separator(text, c, n) - 1)
  BY <1>2 DEF Split, Cuts
<1>4. QED
  BY <1>1, <1>3

\* A split has one part more than there are separators.
LEMMA SplitLength ==
    ASSUME NEW text \in Seq(Unit), NEW c
    PROVE  Len(Split(text, c)) = Cardinality(Cuts(text, c)) + 1
<1>1. Cardinality(Cuts(text, c)) + 1 \in Nat
  BY PlacesIn DEF Cuts
<1>2. QED
  BY <1>1 DEF Split, Cuts

\* Two units of a text that are a field.
LEMMA FieldIs ==
    ASSUME NEW text \in Seq(Unit), NEW a \in Nat \ {0}, a + 1 <= Len(text),
           NEW name \in Unit, text[a] = name, text[a + 1] = "digit"
    PROVE  SubSeq(text, a, a + 1) = Field(name)
<1> DEFINE x == SubSeq(text, a, a + 1)
           f == Field(name)
<1>1. a + 1 \in 0 .. Len(text)
  BY LenProperties
<1>2. /\ x \in Seq(Unit) /\ Len(x) = IF a <= a + 1 THEN (a + 1) - a + 1 ELSE 0
      /\ \A i \in 1 .. (a + 1) - a + 1 : x[i] = text[a + i - 1]
  BY <1>1, Piece
<1>3. f \in Seq(Unit) /\ Len(f) = 2 /\ f[1] = name /\ f[2] = "digit"
  BY FieldUnits
<1> HIDE DEF x, f
<1>4. Len(x) = 2 /\ x[1] = text[a] /\ x[2] = text[a + 1]
  <2>1. (a + 1) - a + 1 = 2 /\ a + 1 - 1 = a /\ a + 2 - 1 = a + 1
    OBVIOUS
  <2>2. QED
    BY <1>2, <2>1
<1>5. \A i \in 1 .. 2 : i = 1 \/ i = 2
  OBVIOUS
<1>6. x = f
  <2>1. x[1] = f[1] /\ x[2] = f[2]
    BY <1>3, <1>4
  <2>2. \A i \in 1 .. Len(x) : x[i] = f[i]
    BY <1>4, <1>5, <2>1
  <2>3. QED
    BY <1>2, <1>3, <1>4, <2>2, SeqEqual
<1>7. QED
  BY <1>6 DEF x, f

\* The parts of a beta answer are its three fields.
LEMMA BetaParts ==
    ASSUME NEW n \in Nat \ {0}
    PROVE  /\ Len(Split(Beta(n), "section")) = 3
           /\ Split(Beta(n), "section")[1] = Motd(n)
           /\ Split(Beta(n), "section")[2] = Field("online")
           /\ Split(Beta(n), "section")[3] = Field("max")
<1> DEFINE w == Beta(n)
           c == "section"
           P == Cuts(w, c)
<1>1. /\ w \in Seq(Unit) /\ Len(w) = n + 6
      /\ \A i \in 1 .. n : w[i] = Motd(n)[i]
      /\ w[n + 1] = "section"
      /\ w[n + 2] = "online" /\ w[n + 3] = "digit"
      /\ w[n + 4] = "section"
      /\ w[n + 5] = "max" /\ w[n + 6] = "digit"
  BY BetaUnits
<1> HIDE DEF w
<1>2. P = {n + 1, n + 4}
  <2>1. \A i \in 1 .. n : w[i] # "section"
    BY <1>1, MotdUnits
  <2>2. \A i \in 1 .. n + 6 : i \in 1 .. n \/ i \in {n + 1, n + 2, n + 3, n + 4, n + 5, n + 6}
    OBVIOUS
  <2>3. \A i \in 1 .. n + 6 : w[i] = "section" <=> i = n + 1 \/ i = n + 4
    BY <1>1, <2>1, <2>2
  <2>4. P = {i \in 1 .. n + 6 : w[i] = "section"}
    BY <1>1 DEF Cuts, Places
  <2> HIDE DEF P
  <2>5. QED
    BY <2>3, <2>4
<1>3. /\ Before(P, n + 1) = {} /\ Before(P, n + 4) = {n + 1}
      /\ Before(P, n + 7) = {n + 1, n + 4}
  BY <1>2 DEF Before
<1>4. /\ Cardinality({}) = 0 /\ Cardinality({n + 1}) = 1
      /\ Cardinality({n + 1, n + 4}) = 2
  <2>1. Cardinality({}) = 0 /\ Cardinality({n + 1}) = 1 /\ IsFiniteSet({n + 1})
    BY FS_EmptySet, FS_Singleton
  <2>2. {n + 1, n + 4} = {n + 1} \cup {n + 4} /\ n + 4 \notin {n + 1}
    OBVIOUS
  <2>3. QED
    BY <2>1, <2>2, FS_AddElement
<1>5. /\ Cardinality(P) = 2
      /\ Cardinality(Before(P, n + 1)) = 0 /\ Cardinality(Before(P, n + 4)) = 1
      /\ Cardinality(Before(P, n + 7)) = 2
  BY <1>2, <1>3, <1>4
<1>6. n + 1 \in P \cup {Len(w) + 1} /\ n + 4 \in P \cup {Len(w) + 1}
      /\ n + 7 \in P \cup {Len(w) + 1}
  BY <1>1, <1>2
<1> HIDE DEF c
<1>0. w \in Seq(Unit)
  BY <1>1
<1>7. Len(Split(w, c)) = 3
  <2>1. Len(Split(w, c)) = Cardinality(Cuts(w, c)) + 1
    BY <1>0, SplitLength
  <2>2. Cardinality(Cuts(w, c)) = 2
    BY <1>5
  <2>3. QED
    BY <2>1, <2>2
<1>8. Separator(w, c, 0) = 0
  BY DEF Separator
<1>9. /\ Separator(w, c, 1) = n + 1
      /\ Split(w, c)[1] = SubSeq(w, 0 + 1, (n + 1) - 1)
  <2> DEFINE k == n + 1
  <2>1. k \in Cuts(w, c) \cup {Len(w) + 1}
    BY <1>6
  <2>2. Cardinality(Before(Cuts(w, c), k)) = 0 /\ 1 <= Cardinality(Cuts(w, c)) + 1
    BY <1>5
  <2> HIDE DEF k
  <2>3. Separator(w, c, 1) = k /\ Split(w, c)[1] = SubSeq(w, 0 + 1, k - 1)
    BY <1>0, <1>8, <2>1, <2>2, PartIs
  <2>4. QED
    BY <2>3 DEF k
<1>10. /\ Separator(w, c, 2) = n + 4
       /\ Split(w, c)[2] = SubSeq(w, (n + 1) + 1, (n + 4) - 1)
  <2> DEFINE k == n + 4
  <2>1. k \in Cuts(w, c) \cup {Len(w) + 1}
    BY <1>6
  <2>2. Cardinality(Before(Cuts(w, c), k)) = 1 /\ 2 <= Cardinality(Cuts(w, c)) + 1
    BY <1>5
  <2> HIDE DEF k
  <2>3. Separator(w, c, 2) = k /\ Split(w, c)[2] = SubSeq(w, (n + 1) + 1, k - 1)
    BY <1>0, <1>9, <2>1, <2>2, PartIs
  <2>4. QED
    BY <2>3 DEF k
<1>11. /\ Separator(w, c, 3) = n + 7
       /\ Split(w, c)[3] = SubSeq(w, (n + 4) + 1, (n + 7) - 1)
  <2> DEFINE k == n + 7
  <2>1. k \in Cuts(w, c) \cup {Len(w) + 1}
    BY <1>6
  <2>2. Cardinality(Before(Cuts(w, c), k)) = 2 /\ 3 <= Cardinality(Cuts(w, c)) + 1
    BY <1>5
  <2> HIDE DEF k
  <2>3. Separator(w, c, 3) = k /\ Split(w, c)[3] = SubSeq(w, (n + 4) + 1, k - 1)
    BY <1>0, <1>10, <2>1, <2>2, PartIs
  <2>4. QED
    BY <2>3 DEF k
<1>12. SubSeq(w, 1, n) = Motd(n)
  <2> DEFINE x == SubSeq(w, 1, n)
             m == Motd(n)
  <2>1. /\ x \in Seq(Unit) /\ Len(x) = IF 1 <= n THEN n - 1 + 1 ELSE 0
        /\ \A i \in 1 .. n - 1 + 1 : x[i] = w[1 + i - 1]
    <3>1. n \in 0 .. Len(w) /\ 1 \in Nat \ {0}
      BY <1>1
    <3>2. QED
      BY <1>1, <3>1, Piece
  <2>2. m \in Seq(Unit) /\ Len(m) = n /\ \A i \in 1 .. n : w[i] = m[i]
    BY <1>1, MotdUnits
  <2> HIDE DEF x, m
  <2>3. Len(x) = n /\ \A i \in 1 .. n : x[i] = m[i]
    BY <2>1, <2>2
  <2>4. x = m
    BY <2>1, <2>2, <2>3, SeqEqual
  <2>5. QED
    BY <2>4 DEF x, m
<1>13. /\ SubSeq(w, n + 2, (n + 2) + 1) = Field("online")
       /\ SubSeq(w, n + 5, (n + 5) + 1) = Field("max")
  <2>1. /\ n + 2 \in Nat \ {0} /\ (n + 2) + 1 = n + 3 /\ (n + 2) + 1 <= Len(w)
        /\ n + 5 \in Nat \ {0} /\ (n + 5) + 1 = n + 6 /\ (n + 5) + 1 <= Len(w)
    BY <1>1
  <2>2. w[(n + 2) + 1] = "digit" /\ w[(n + 5) + 1] = "digit"
    BY <1>1, <2>1
  <2>3. QED
    BY <1>1, <2>1, <2>2, FieldIs, UnitsAre
<1>14. /\ 0 + 1 = 1 /\ (n + 1) - 1 = n
       /\ (n + 1) + 1 = n + 2 /\ (n + 4) - 1 = (n + 2) + 1
       /\ (n + 4) + 1 = n + 5 /\ (n + 7) - 1 = (n + 5) + 1
  OBVIOUS
<1>15. /\ Split(w, c)[1] = Motd(n)
       /\ Split(w, c)[2] = Field("online") /\ Split(w, c)[3] = Field("max")
  BY <1>9, <1>10, <1>11, <1>12, <1>13, <1>14
<1>16. QED
  BY <1>7, <1>15 DEF w, c

\* The slice of a whole answer starts with a separator: the first part has nothing.
LEMMA ModernParts ==
    ASSUME NEW n \in Nat \ {0}
    PROVE  LET parts == Split(ByteSlice(Modern(n), 3), "null") IN
           /\ Len(parts) = 6
           /\ parts[1] = <<>>
           /\ parts[2] = Field("protocol") /\ parts[3] = Field("version")
           /\ parts[4] # <<>> /\ "motd" \in Range(parts[4])
           /\ parts[5] = Field("online")
<1> DEFINE w == Modern(n)
           u == SubSeq(w, 3, n + 15)
           c == "null"
           P == Cuts(u, c)
<1>1. /\ w \in Seq(Unit) /\ Len(w) = n + 15
      /\ w[1] = "section" /\ w[2] = "1" /\ w[3] = "null"
      /\ w[4] = "protocol" /\ w[5] = "digit" /\ w[6] = "null"
      /\ w[7] = "version" /\ w[8] = "digit" /\ w[9] = "null"
      /\ \A i \in 1 .. n : w[9 + i] = Motd(n)[i]
      /\ w[n + 10] = "null" /\ w[n + 11] = "online" /\ w[n + 12] = "digit"
      /\ w[n + 13] = "null" /\ w[n + 14] = "max" /\ w[n + 15] = "digit"
  BY ModernUnits
<1> HIDE DEF w
<1>2. ByteSlice(w, 3) = u
  <2>1. Len(w) >= 3
    BY <1>1
  <2>2. IsPrefix(<<"section", "1", "null">>, w)
    BY <1>1, <2>1, PrefixIs
  <2>3. QED
    BY <1>1, <2>2, SliceOfPrefix
<1>3. u \in Seq(Unit) /\ Len(u) = n + 13 /\ \A i \in 1 .. n + 13 : u[i] = w[i + 2]
  <2>1. /\ u \in Seq(Unit) /\ Len(u) = IF 3 <= n + 15 THEN (n + 15) - 3 + 1 ELSE 0
        /\ \A i \in 1 .. (n + 15) - 3 + 1 : u[i] = w[3 + i - 1]
    <3>1. n + 15 \in 0 .. Len(w) /\ 3 \in Nat \ {0}
      BY <1>1
    <3>2. QED
      BY <1>1, <3>1, Piece
  <2> HIDE DEF u
  <2>2. QED
    BY <2>1
<1> HIDE DEF u
<1>4. /\ u[1] = "null"
      /\ u[2] = "protocol" /\ u[3] = "digit" /\ u[4] = "null"
      /\ u[5] = "version" /\ u[6] = "digit" /\ u[7] = "null"
      /\ u[n + 8] = "null" /\ u[n + 9] = "online" /\ u[n + 10] = "digit"
      /\ u[n + 11] = "null" /\ u[n + 12] = "max" /\ u[n + 13] = "digit"
  <2>1. /\ u[1] = w[3] /\ u[2] = w[4] /\ u[3] = w[5] /\ u[4] = w[6] /\ u[5] = w[7]
        /\ u[6] = w[8] /\ u[7] = w[9]
    BY <1>3
  <2>2. /\ u[n + 8] = w[n + 10] /\ u[n + 9] = w[n + 11] /\ u[n + 10] = w[n + 12]
        /\ u[n + 11] = w[n + 13] /\ u[n + 12] = w[n + 14] /\ u[n + 13] = w[n + 15]
    BY <1>3
  <2>3. QED
    BY <1>1, <2>1, <2>2
<1>5. \A i \in 8 .. n + 7 : u[i] # "null" /\ (i = 8 => u[i] = "motd")
  <2>1. ASSUME NEW i \in 8 .. n + 7 PROVE u[i] # "null" /\ (i = 8 => u[i] = "motd")
    <3>1. i - 7 \in 1 .. n /\ 9 + (i - 7) = i + 2 /\ i \in 1 .. n + 13
      OBVIOUS
    <3>2. w[9 + (i - 7)] = Motd(n)[i - 7]
      BY <1>1, <3>1
    <3>3. u[i] = Motd(n)[i - 7]
      BY <1>3, <3>1, <3>2
    <3>4. QED
      BY <3>1, <3>3, MotdUnits
  <2>2. QED
    BY <2>1
<1>6a. P = {1, 4, 7, n + 8, n + 11}
  <2>1. ASSUME NEW i \in 1 .. n + 13
        PROVE  u[i] = "null" <=> i \in {1, 4, 7, n + 8, n + 11}
    <3>1. CASE i \in 8 .. n + 7
      BY <1>5, <3>1
    <3>2. CASE i \in {1, 2, 3, 4, 5, 6, 7}
      BY <1>4, <3>2
    <3>3. CASE i \in {n + 8, n + 9, n + 10, n + 11, n + 12, n + 13}
      BY <1>4, <3>3
    <3>4. QED
      BY <3>1, <3>2, <3>3
  <2>2. P = {i \in 1 .. n + 13 : u[i] = "null"}
    BY <1>3 DEF Cuts, Places
  <2> HIDE DEF P
  <2>3. {1, 4, 7, n + 8, n + 11} \subseteq 1 .. n + 13
    OBVIOUS
  <2>4. QED
    BY <2>1, <2>2, <2>3
<1>6. /\ 1 \in P \cup {Len(u) + 1} /\ 4 \in P \cup {Len(u) + 1}
      /\ 7 \in P \cup {Len(u) + 1} /\ n + 8 \in P \cup {Len(u) + 1}
      /\ n + 11 \in P \cup {Len(u) + 1}
  BY <1>6a
<1>7. /\ Cardinality({}) = 0 /\ Cardinality({1}) = 1 /\ Cardinality({1, 4}) = 2
      /\ Cardinality({1, 4, 7}) = 3 /\ Cardinality({1, 4, 7, n + 8}) = 4
      /\ Cardinality({1, 4, 7, n + 8, n + 11}) = 5
  <2>1. Cardinality({}) = 0 /\ Cardinality({1}) = 1 /\ IsFiniteSet({1})
    BY FS_EmptySet, FS_Singleton
  <2>2. IsFiniteSet({1, 4}) /\ Cardinality({1, 4}) = 2
    <3>1. {1, 4} = {1} \cup {4} /\ 4 \notin {1}
      OBVIOUS
    <3>2. QED
      BY <2>1, <3>1, FS_AddElement
  <2>3. IsFiniteSet({1, 4, 7}) /\ Cardinality({1, 4, 7}) = 3
    <3>1. {1, 4, 7} = {1, 4} \cup {7} /\ 7 \notin {1, 4}
      OBVIOUS
    <3>2. QED
      BY <2>2, <3>1, FS_AddElement
  <2>4. IsFiniteSet({1, 4, 7, n + 8}) /\ Cardinality({1, 4, 7, n + 8}) = 4
    <3>1. {1, 4, 7, n + 8} = {1, 4, 7} \cup {n + 8} /\ n + 8 \notin {1, 4, 7}
      OBVIOUS
    <3>2. QED
      BY <2>3, <3>1, FS_AddElement
  <2>5. Cardinality({1, 4, 7, n + 8, n + 11}) = 5
    <3>1. /\ {1, 4, 7, n + 8, n + 11} = {1, 4, 7, n + 8} \cup {n + 11}
          /\ n + 11 \notin {1, 4, 7, n + 8}
      OBVIOUS
    <3>2. QED
      BY <2>4, <3>1, FS_AddElement
  <2>6. QED
    BY <2>1, <2>2, <2>3, <2>4, <2>5
<1>8. /\ Cardinality(P) = 5
      /\ Cardinality(Before(P, 1)) = 0 /\ Cardinality(Before(P, 4)) = 1
      /\ Cardinality(Before(P, 7)) = 2 /\ Cardinality(Before(P, n + 8)) = 3
      /\ Cardinality(Before(P, n + 11)) = 4
  <2> HIDE DEF P
  <2>1. /\ Before(P, 1) = {} /\ Before(P, 4) = {1} /\ Before(P, 7) = {1, 4}
        /\ Before(P, n + 8) = {1, 4, 7} /\ Before(P, n + 11) = {1, 4, 7, n + 8}
    BY <1>6a DEF Before
  <2>2. QED
    BY <1>6a, <1>7, <2>1
<1> HIDE DEF c
<1>9. u \in Seq(Unit)
  BY <1>3
<1>10. Separator(u, c, 0) = 0
  BY DEF Separator
<1>11. /\ Separator(u, c, 1) = 1
       /\ Split(u, c)[1] = SubSeq(u, 0 + 1, (1) - 1)
  <2> DEFINE k == 1
  <2>1. k \in Cuts(u, c) \cup {Len(u) + 1}
    BY <1>6
  <2>2. Cardinality(Before(Cuts(u, c), k)) = 0 /\ 1 <= Cardinality(Cuts(u, c)) + 1
    BY <1>8
  <2> HIDE DEF k
  <2>3. Separator(u, c, 1) = k /\ Split(u, c)[1] = SubSeq(u, 0 + 1, k - 1)
    BY <1>9, <1>10, <2>1, <2>2, PartIs
  <2>4. QED
    BY <2>3 DEF k
<1>12. /\ Separator(u, c, 2) = 4
       /\ Split(u, c)[2] = SubSeq(u, 1 + 1, (4) - 1)
  <2> DEFINE k == 4
  <2>1. k \in Cuts(u, c) \cup {Len(u) + 1}
    BY <1>6
  <2>2. Cardinality(Before(Cuts(u, c), k)) = 1 /\ 2 <= Cardinality(Cuts(u, c)) + 1
    BY <1>8
  <2> HIDE DEF k
  <2>3. Separator(u, c, 2) = k /\ Split(u, c)[2] = SubSeq(u, 1 + 1, k - 1)
    BY <1>9, <1>11, <2>1, <2>2, PartIs
  <2>4. QED
    BY <2>3 DEF k
<1>13. /\ Separator(u, c, 3) = 7
       /\ Split(u, c)[3] = SubSeq(u, 4 + 1, (7) - 1)
  <2> DEFINE k == 7
  <2>1. k \in Cuts(u, c) \cup {Len(u) + 1}
    BY <1>6
  <2>2. Cardinality(Before(Cuts(u, c), k)) = 2 /\ 3 <= Cardinality(Cuts(u, c)) + 1
    BY <1>8
  <2> HIDE DEF k
  <2>3. Separator(u, c, 3) = k /\ Split(u, c)[3] = SubSeq(u, 4 + 1, k - 1)
    BY <1>9, <1>12, <2>1, <2>2, PartIs
  <2>4. QED
    BY <2>3 DEF k
<1>14. /\ Separator(u, c, 4) = n + 8
       /\ Split(u, c)[4] = SubSeq(u, 7 + 1, (n + 8) - 1)
  <2> DEFINE k == n + 8
  <2>1. k \in Cuts(u, c) \cup {Len(u) + 1}
    BY <1>6
  <2>2. Cardinality(Before(Cuts(u, c), k)) = 3 /\ 4 <= Cardinality(Cuts(u, c)) + 1
    BY <1>8
  <2> HIDE DEF k
  <2>3. Separator(u, c, 3) = 7
    BY <1>13
  <2>4. Separator(u, c, 4) = k /\ Split(u, c)[4] = SubSeq(u, 7 + 1, k - 1)
    BY <1>9, <2>1, <2>2, <2>3, PartIs, SMTT(30)
  <2>5. QED
    BY <2>4 DEF k
<1>15. /\ Separator(u, c, 5) = n + 11
       /\ Split(u, c)[5] = SubSeq(u, (n + 8) + 1, (n + 11) - 1)
  <2> DEFINE k == n + 11
  <2>1. k \in Cuts(u, c) \cup {Len(u) + 1}
    BY <1>6
  <2>2. Cardinality(Before(Cuts(u, c), k)) = 4 /\ 5 <= Cardinality(Cuts(u, c)) + 1
    BY <1>8
  <2> HIDE DEF k
  <2>3. Separator(u, c, 5) = k /\ Split(u, c)[5] = SubSeq(u, (n + 8) + 1, k - 1)
    BY <1>9, <1>14, <2>1, <2>2, PartIs
  <2>4. QED
    BY <2>3 DEF k
<1>16. Len(Split(u, c)) = 6
  <2>1. Len(Split(u, c)) = Cardinality(Cuts(u, c)) + 1
    BY <1>9, SplitLength
  <2>2. Cardinality(Cuts(u, c)) = 5
    BY <1>8
  <2>3. QED
    BY <2>1, <2>2
<1>17. Split(u, c)[1] = <<>>
  <2>1. SubSeq(u, 1, 0) = <<>>
    BY SubSeqEmpty
  <2>2. QED
    BY <1>11, <2>1
<1>18. Split(u, c)[2] = Field("protocol")
  <2> DEFINE a == 2
  <2>1. a \in Nat \ {0} /\ a + 1 <= Len(u) /\ u[a] = "protocol" /\ u[a + 1] = "digit"
    BY <1>3, <1>4
  <2> HIDE DEF a
  <2>2. SubSeq(u, a, a + 1) = Field("protocol")
    BY <1>9, <2>1, FieldIs, UnitsAre
  <2>3. QED
    BY <1>12, <2>2 DEF a
<1>19. Split(u, c)[3] = Field("version")
  <2> DEFINE a == 5
  <2>1. a \in Nat \ {0} /\ a + 1 <= Len(u) /\ u[a] = "version" /\ u[a + 1] = "digit"
    BY <1>3, <1>4
  <2> HIDE DEF a
  <2>2. SubSeq(u, a, a + 1) = Field("version")
    BY <1>9, <2>1, FieldIs, UnitsAre
  <2>3. QED
    BY <1>13, <2>2 DEF a
<1>20. Split(u, c)[4] # <<>> /\ "motd" \in Range(Split(u, c)[4])
  <2> DEFINE x == SubSeq(u, 8, n + 7)
  <2>1. /\ x \in Seq(Unit) /\ Len(x) = IF 8 <= n + 7 THEN (n + 7) - 8 + 1 ELSE 0
        /\ \A i \in 1 .. (n + 7) - 8 + 1 : x[i] = u[8 + i - 1]
    <3>1. n + 7 \in 0 .. Len(u) /\ 8 \in Nat \ {0}
      BY <1>3
    <3>2. QED
      BY <1>3, <3>1, Piece
  <2>2. Split(u, c)[4] = x
    BY <1>14
  <2> HIDE DEF x
  <2>3. Len(x) = n /\ x[1] = u[8] /\ 1 \in 1 .. n
    BY <2>1
  <2>4. u[8] = "motd"
    BY <1>5
  <2>5. 1 \in DOMAIN x /\ x[1] = "motd" /\ x # <<>>
    BY <2>1, <2>3, <2>4, LenProperties
  <2>6. "motd" \in Range(x)
    BY <2>5 DEF Range
  <2>7. QED
    BY <2>2, <2>5, <2>6
<1>21. Split(u, c)[5] = Field("online")
  <2>1. n + 9 \in Nat \ {0} /\ (n + 9) + 1 = n + 10 /\ (n + 9) + 1 <= Len(u)
    BY <1>3
  <2>2. SubSeq(u, n + 9, (n + 9) + 1) = Field("online")
    BY <1>3, <1>4, <2>1, FieldIs, UnitsAre
  <2>3. (n + 8) + 1 = n + 9 /\ (n + 11) - 1 = (n + 9) + 1
    OBVIOUS
  <2>4. QED
    BY <1>15, <2>2, <2>3
<1>22. QED
  BY <1>2, <1>16, <1>17, <1>18, <1>19, <1>20, <1>21 DEF w, c

-----------------------------------------------------------------------------
(* The invariant: what is read is read from what has arrived *)

\* An answer that has been parsed is an error of the reads or made of the bytes
\* that have arrived by then (legacy_slp.rs:25-125).
LegacyInv ==
    /\ sent \in ModernAnswer \cup BetaAnswer \cup OtherAnswer
    /\ parsed \in BOOLEAN
    /\ arrived \in Nat /\ arrived <= Size /\ arrived <= MaxResponse + BufferSize
    /\ ~ parsed => info = Err("none yet") /\ arrived <= MaxResponse
    /\ parsed => info \in {Err("Read error"), Err("Response too large"), Response}

\* The text of every answer is a sequence of units.
LEMMA SentText ==
    ASSUME NEW m \in ModernAnswer \cup BetaAnswer \cup OtherAnswer
    PROVE  m.text \in Seq(Unit) /\ Len(m.text) \in Nat
<1> USE LegacyAssumption
<1>1. CASE m \in ModernAnswer
  <2>1. PICK n \in MotdLength : m.text = Modern(n)
    BY <1>1 DEF ModernAnswer, Answer
  <2>2. n \in Nat \ {0}
    OBVIOUS
  <2>3. QED
    BY <2>1, <2>2, ModernUnits, LenProperties
<1>2. CASE m \in BetaAnswer
  <2>1. PICK n \in MotdLength : m.text = Beta(n)
    BY <1>2 DEF BetaAnswer, Answer
  <2>2. n \in Nat \ {0}
    OBVIOUS
  <2>3. QED
    BY <2>1, <2>2, BetaUnits, LenProperties
<1>3. CASE m \in OtherAnswer
  <2> DEFINE S == {"section", "1", "null", "high", "low"}
  <2>1. m.text \in BoundedSeq(S, MaxText) \/ m.text = <<"letter">>
    BY <1>3 DEF OtherAnswer, Answer
  <2>2. <<"letter">> \in Seq(Unit)
    BY UnitsAre
  <2>3. ASSUME m.text \in BoundedSeq(S, MaxText) PROVE m.text \in Seq(Unit)
    <3>1. S \subseteq Unit
      BY UnitsAre
    <3> HIDE DEF S
    <3>2. PICK k \in Nat : m.text \in [1 .. k -> S]
      BY <2>3 DEF BoundedSeq, SeqOf
    <3>3. m.text \in [1 .. k -> Unit]
      BY <3>1, <3>2
    <3>4. QED
      BY <3>3, SeqDef
  <2>4. QED
    BY <2>1, <2>2, <2>3, LenProperties
<1>4. QED
  BY <1>1, <1>2, <1>3

\* The reads keep within the limit, and an answer is made of what has arrived.
LEMMA LegacyInvHolds == Spec => []LegacyInv
<1>0. MaxResponse \in Nat /\ BufferSize \in Nat
  BY LegacyAssumption
<1>1. Init => LegacyInv
  <2> SUFFICES ASSUME Init PROVE LegacyInv
    OBVIOUS
  <2>1. Len(sent.text) \in Nat
    BY SentText DEF Init
  <2>2. 0 <= Size
    BY <2>1 DEF Size, StringStart
  <2>3. 0 \in Nat /\ 0 <= MaxResponse + BufferSize /\ 0 <= MaxResponse
    BY <1>0
  <2>4. QED
    BY <2>2, <2>3 DEF Init, LegacyInv
<1>2. LegacyInv /\ [Next]_vars => LegacyInv'
  <2> SUFFICES ASSUME LegacyInv, [Next]_vars PROVE LegacyInv'
    OBVIOUS
  <2>1. Size \in Nat
    <3>1. sent \in ModernAnswer \cup BetaAnswer \cup OtherAnswer
      BY DEF LegacyInv
    <3>2. Len(sent.text) \in Nat
      BY <3>1, SentText
    <3>3. QED
      BY <3>2 DEF Size, StringStart
  <2>2. CASE Read
    <3>1. sent' = sent /\ Size' = Size
      BY <2>2 DEF Read, Size
    <3>2. PICK n \in 1 .. BufferSize : arrived + n <= Size /\ arrived' = arrived + n
      BY <2>2 DEF Read
    <3>3. /\ arrived' \in Nat /\ arrived' <= Size
          /\ arrived' <= MaxResponse + BufferSize
      <4>1. arrived \in Nat /\ arrived <= MaxResponse
        BY <2>2 DEF Read, LegacyInv
      <4>2. n \in Nat /\ n <= BufferSize
        BY <1>0
      <4>3. QED
        BY <1>0, <2>1, <3>2, <4>1, <4>2
    <3>4. CASE TooLarge(arrived')
      <4>1. parsed' = TRUE /\ info' = Err("Response too large")
        BY <2>2, <3>4 DEF Read, Fails
      <4>2. QED
        BY <3>1, <3>3, <4>1 DEF LegacyInv
    <3>5. CASE ~ TooLarge(arrived')
      <4>1. arrived' <= MaxResponse
        BY <1>0, <3>3, <3>5 DEF TooLarge
      <4>2. ~ parsed /\ parsed' = parsed /\ info' = info
        BY <2>2, <3>5 DEF Read
      <4>3. QED
        BY <3>1, <3>3, <4>1, <4>2 DEF LegacyInv
    <3>6. QED
      BY <3>4, <3>5
  <2>3. CASE ReadFails
    <3>1. Size' = Size
      BY <2>3 DEF ReadFails, Size
    <3>2. QED
      BY <2>3, <3>1 DEF ReadFails, Fails, LegacyInv
  <2>4. CASE Parse
    <3>1. Size' = Size /\ Response' = Response
      BY <2>4 DEF Parse, Size, Response, Text
    <3>2. QED
      BY <2>4, <3>1 DEF Parse, LegacyInv
  <2>5. CASE UNCHANGED vars
    <3>1. Size' = Size /\ Response' = Response
      BY <2>5 DEF vars, Size, Response, Text
    <3>2. QED
      BY <2>5, <3>1 DEF vars, LegacyInv
  <2>6. QED
    BY <2>2, <2>3, <2>4, <2>5 DEF Next
<1>3. QED
  BY <1>1, <1>2, PTL DEF Spec

\* The answer that is kept has a bound, whatever a server sends: the check comes
\* after each read (legacy_slp.rs:28-41).
THEOREM LegacyTypes == Spec => []TypeOK
<1>1. LegacyInv => TypeOK
  BY DEF LegacyInv, TypeOK, Refused, Err
<1>2. QED
  BY <1>1, LegacyInvHolds, PTL

\* What has been read and not refused comes from the beginning of the text.
LEMMA ReadIs ==
    ASSUME LegacyInv, parsed, ~ Refused
    PROVE  /\ info = Info(Text)
           /\ sent.text \in Seq(Unit) /\ Text \in Seq(Unit)
           /\ Units(arrived) \in 0 .. Len(sent.text)
           /\ Text = SubSeq(sent.text, 1, Units(arrived))
<1>1. sent.text \in Seq(Unit) /\ Len(sent.text) \in Nat
  <2>1. sent \in ModernAnswer \cup BetaAnswer \cup OtherAnswer
    BY DEF LegacyInv
  <2>2. QED
    BY <2>1, SentText
<1>2. ASSUME NEW message PROVE info # Err(message)
  BY DEF Refused, Err
<1>3. info = Response
  BY <1>2 DEF LegacyInv
<1>4. info = Info(Text) /\ ~ (arrived < StringStart)
  BY <1>2, <1>3 DEF Response
<1>5. Units(arrived) \in 0 .. Len(sent.text)
  <2>1. arrived \in Nat /\ arrived <= 3 + 2 * Len(sent.text) /\ arrived >= 3
    <3>1. arrived \in Nat /\ arrived <= 3 + 2 * Len(sent.text)
      BY DEF LegacyInv, Size, StringStart
    <3>2. ~ (arrived < 3)
      BY <1>4 DEF StringStart
    <3>3. QED
      BY <3>1, <3>2
  <2> DEFINE l == Len(sent.text)
  <2>2. l \in Nat /\ arrived <= 3 + 2 * l
    BY <1>1, <2>1
  <2> HIDE DEF l
  <2>3. (arrived - 3) \div 2 \in 0 .. l
    BY <2>1, <2>2
  <2>4. QED
    BY <2>3 DEF Units, StringStart, l
<1>6. Text = SubSeq(sent.text, 1, Units(arrived))
  BY DEF Text
<1>7. Text \in Seq(Unit)
  <2> DEFINE k == Units(arrived)
  <2>1. k \in 0 .. Len(sent.text) /\ 1 \in Nat \ {0}
    BY <1>5
  <2> HIDE DEF k
  <2>2. SubSeq(sent.text, 1, k) \in Seq(Unit)
    BY <1>1, <2>1, Piece
  <2>3. QED
    BY <1>6, <2>2 DEF k
<1>8. QED
  BY <1>1, <1>4, <1>5, <1>6, <1>7

\* When the whole answer has arrived, the text is the server's.
LEMMA WholeText ==
    ASSUME LegacyInv, arrived = Size
    PROVE  /\ Text = sent.text
           /\ sent.id = "0xFF" => Response = Info(sent.text)
<1>1. sent.text \in Seq(Unit) /\ Len(sent.text) \in Nat
  <2>1. sent \in ModernAnswer \cup BetaAnswer \cup OtherAnswer
    BY DEF LegacyInv
  <2>2. QED
    BY <2>1, SentText
<1> DEFINE l == Len(sent.text)
<1>2. arrived = 3 + 2 * l /\ l \in Nat
  BY <1>1 DEF Size, StringStart
<1>3. Units(arrived) = l
  <2> HIDE DEF l
  <2>1. ((3 + 2 * l) - 3) \div 2 = l
    BY <1>2
  <2>2. QED
    BY <1>2, <2>1 DEF Units, StringStart
<1>4. Text = sent.text
  BY <1>1, <1>3, SubSeqFull DEF Text
<1>5. arrived # 0 /\ ~ (arrived < StringStart)
  <2> HIDE DEF l
  <2>1. QED
    BY <1>2 DEF StringStart
<1>6. QED
  BY <1>4, <1>5 DEF Response

\* An answer that is read has the parts of one of the two formats.
LEMMA InfoIs ==
    ASSUME NEW text, "error" \notin DOMAIN Info(text)
    PROVE  \/ /\ IsPrefix(<<"section", "1", "null">>, text)
              /\ ~ (Len(Split(ByteSlice(text, 3), "null")) < 5)
           \/ /\ ~ IsPrefix(<<"section", "1", "null">>, text)
              /\ ~ (Len(Split(text, "section")) < 3)
<1>1. ASSUME NEW message PROVE Info(text) # Err(message)
  BY DEF Err
<1>2. Info(text) \in {ModernInfo(text), BetaInfo(text)}
  BY <1>1 DEF Info
<1>3. CASE IsPrefix(<<"section", "1", "null">>, text)
  <2>1. Info(text) = ModernInfo(text)
    BY <1>1, <1>3 DEF Info
  <2>2. QED
    BY <1>1, <1>3, <2>1 DEF ModernInfo
<1>4. CASE ~ IsPrefix(<<"section", "1", "null">>, text)
  <2>1. Info(text) = BetaInfo(text)
    BY <1>1, <1>4 DEF Info
  <2>2. QED
    BY <1>1, <1>4, <2>1 DEF BetaInfo
<1>5. QED
  BY <1>3, <1>4

\* Two answers of the 1.4+ format whose first four parts agree.
LEMMA ModernAgree ==
    ASSUME NEW t, NEW w,
           ~ (Len(Split(ByteSlice(t, 3), "null")) < 5),
           ~ (Len(Split(ByteSlice(w, 3), "null")) < 5),
           \A n \in 1 .. 4 :
               Split(ByteSlice(t, 3), "null")[n] = Split(ByteSlice(w, 3), "null")[n]
    PROVE  /\ DOMAIN ModernInfo(t) = DOMAIN ModernInfo(w)
           /\ \A name \in DOMAIN ModernInfo(t) \ {"max"} :
                 ModernInfo(t)[name] = ModernInfo(w)[name]
<1> DEFINE p == Split(ByteSlice(t, 3), "null")
           q == Split(ByteSlice(w, 3), "null")
<1>1. p[1] = q[1] /\ p[2] = q[2] /\ p[3] = q[3] /\ p[4] = q[4]
  OBVIOUS
<1>2. /\ ModernInfo(t) = [protocol |-> Number(p[1]), name |-> p[2], description |-> p[3],
                          online |-> Number(p[4]), max |-> Number(p[5])]
      /\ ModernInfo(w) = [protocol |-> Number(q[1]), name |-> q[2], description |-> q[3],
                          online |-> Number(q[4]), max |-> Number(q[5])]
  BY DEF ModernInfo
<1> HIDE DEF p, q
<1>3. QED
  BY <1>1, <1>2

\* Two answers of the beta format whose first two parts agree.
LEMMA BetaAgree ==
    ASSUME NEW t, NEW w,
           ~ (Len(Split(t, "section")) < 3), ~ (Len(Split(w, "section")) < 3),
           \A n \in 1 .. 2 : Split(t, "section")[n] = Split(w, "section")[n]
    PROVE  /\ DOMAIN BetaInfo(t) = DOMAIN BetaInfo(w)
           /\ \A name \in DOMAIN BetaInfo(t) \ {"max"} :
                 BetaInfo(t)[name] = BetaInfo(w)[name]
<1> DEFINE p == Split(t, "section")
           q == Split(w, "section")
<1>1. p[1] = q[1] /\ p[2] = q[2]
  OBVIOUS
<1>2. /\ BetaInfo(t) = [description |-> p[1], online |-> Number(p[2]), max |-> Number(p[3])]
      /\ BetaInfo(w) = [description |-> q[1], online |-> Number(q[2]), max |-> Number(q[3])]
  BY DEF BetaInfo, BetaPart
<1> HIDE DEF p, q
<1>3. QED
  BY <1>1, <1>2

\* A part of a 1.4+ answer that is too short to have the prefix has one section
\* sign at most: it is no answer of the beta format.
LEMMA ShortIsNotBeta ==
    ASSUME NEW w \in Seq(Unit), NEW k \in 0 .. Len(w),
           IsPrefix(<<"section", "1", "null">>, w),
           ~ IsPrefix(<<"section", "1", "null">>, SubSeq(w, 1, k))
    PROVE  Len(Split(SubSeq(w, 1, k), "section")) < 3
<1> DEFINE t == SubSeq(w, 1, k)
           c == "section"
<1>1. Len(w) \in Nat /\ w[1] = "section" /\ w[2] = "1" /\ w[3] = "null"
  BY LenProperties, PrefixIs
<1>2. t \in Seq(Unit) /\ Len(t) = k /\ \A i \in 1 .. k : t[i] = w[i]
  <2>1. /\ t \in Seq(Unit) /\ Len(t) = IF 1 <= k THEN k - 1 + 1 ELSE 0
        /\ \A i \in 1 .. k - 1 + 1 : t[i] = w[1 + i - 1]
    BY Piece
  <2>2. QED
    BY <1>1, <2>1
<1>3. ~ IsPrefix(<<"section", "1", "null">>, t)
  OBVIOUS
<1> HIDE DEF t
<1>4. k < 3
  <2>1. ASSUME k >= 3 PROVE FALSE
    <3>1. Len(t) >= 3 /\ t[1] = "section" /\ t[2] = "1" /\ t[3] = "null"
      BY <1>1, <1>2, <2>1
    <3>2. QED
      BY <1>2, <1>3, <3>1, PrefixIs
  <2>2. QED
    BY <1>1, <2>1
<1>5. Cuts(t, c) \subseteq 1 .. 1
  <2>1. ASSUME NEW i \in Cuts(t, c) PROVE i = 1
    <3>1. i \in 1 .. k /\ t[i] = "section"
      BY <1>2, <2>1 DEF Cuts, Places
    <3>2. i = 1 \/ i = 2
      BY <1>1, <1>4, <3>1
    <3>3. i # 2
      BY <1>1, <1>2, <3>1
    <3>4. QED
      BY <3>2, <3>3
  <2>2. QED
    BY <2>1
<1> HIDE DEF c
<1>6. Cardinality(Cuts(t, c)) \in Nat /\ Cardinality(Cuts(t, c)) <= 1
  BY <1>5, PositionsFinite
<1>7. Len(Split(t, c)) = Cardinality(Cuts(t, c)) + 1
  BY <1>2, SplitLength
<1>8. QED
  BY <1>6, <1>7 DEF t, c

-----------------------------------------------------------------------------
(* What holds of the answers *)

\* Of the parts that are enough for an answer, the last does not matter.
LEMMA EnoughParts ==
    ASSUME NEW a, NEW b, a \in Nat, b \in Nat, a <= b
    PROVE  /\ ~ (a < 5) => ~ (b < 5) /\ 1 .. 4 \subseteq 1 .. a - 1
           /\ ~ (a < 3) => ~ (b < 3) /\ 1 .. 2 \subseteq 1 .. a - 1
OBVIOUS

\* Wherever a text of any length is cut, by the second of silence that ends the
\* reading or by the server, the part is refused or only the last value of it
\* differs from the whole (legacy_slp.rs:36, 57-59, 73-125).
THEOREM CutLosesLast == Spec => []OnlyLastValueCut
<1>1. LegacyInv => OnlyLastValueCut
  <2> SUFFICES ASSUME LegacyInv, parsed, ~ Refused, Info(sent.text) # Err("Invalid UTF-16")
               PROVE  LET whole == Info(sent.text) IN
                      /\ DOMAIN info = DOMAIN whole
                      /\ \A name \in DOMAIN info \ {"max"} : info[name] = whole[name]
    BY DEF OnlyLastValueCut
  <2> DEFINE w == sent.text
             k == Units(arrived)
             t == SubSeq(w, 1, k)
             prefix == <<"section", "1", "null">>
  <2>1. /\ info = Info(t) /\ w \in Seq(Unit) /\ t \in Seq(Unit)
        /\ k \in 0 .. Len(w)
    BY ReadIs
  <2>2. "error" \notin DOMAIN Info(t)
    BY <2>1 DEF Refused
  <2>3. Info(w) # Err("Invalid UTF-16")
    OBVIOUS
  <2> HIDE DEF k, w
  <2>4. CASE IsPrefix(prefix, t)
    <3> DEFINE u == ByteSlice(w, 3)
               v == ByteSlice(t, 3)
               j == k - 2
    <3>1. /\ IsPrefix(prefix, w) /\ u \in Seq(Unit)
          /\ j \in 0 .. Len(u) /\ v = SubSeq(u, 1, j)
      BY <2>1, <2>4, SliceOfBeginning
    <3>2. ~ (Len(Split(v, "null")) < 5)
      BY <2>2, <2>4, InfoIs
    <3>3. Info(t) = ModernInfo(t)
      BY <2>2, <2>4 DEF Info, Err
    <3>4. Info(w) = ModernInfo(w)
      BY <2>3, <3>1 DEF Info
    <3> HIDE DEF t, u, v, j
    <3>5. /\ Len(Split(v, "null")) \in Nat /\ Len(Split(u, "null")) \in Nat
          /\ Len(Split(v, "null")) <= Len(Split(u, "null"))
          /\ \A n \in 1 .. Len(Split(v, "null")) - 1 :
                Split(v, "null")[n] = Split(u, "null")[n]
      BY <3>1, CutKeepsParts
    <3>6. /\ ~ (Len(Split(u, "null")) < 5)
          /\ \A n \in 1 .. 4 : Split(v, "null")[n] = Split(u, "null")[n]
      <4> DEFINE p == Split(v, "null")
                 q == Split(u, "null")
      <4>1. /\ Len(p) \in Nat /\ Len(q) \in Nat /\ Len(p) <= Len(q)
            /\ \A n \in 1 .. Len(p) - 1 : p[n] = q[n]
            /\ ~ (Len(p) < 5)
        BY <3>2, <3>5
      <4>2. /\ ~ (Len(q) < 5)
            /\ \A n \in 1 .. 4 : p[n] = q[n]
        <5>1. ~ (Len(q) < 5) /\ 1 .. 4 \subseteq 1 .. Len(p) - 1
          <6> HIDE DEF p, q
          <6>1. QED
            BY <4>1, EnoughParts
        <5>2. QED
          <6> HIDE DEF p, q
          <6>1. QED
            BY <4>1, <5>1, Zenon
      <4>3. QED
        BY <4>2
    <3>8. /\ DOMAIN ModernInfo(t) = DOMAIN ModernInfo(w)
          /\ \A name \in DOMAIN ModernInfo(t) \ {"max"} :
                ModernInfo(t)[name] = ModernInfo(w)[name]
      BY <3>2, <3>6, ModernAgree DEF u, v
    <3>9. QED
      BY <2>1, <3>3, <3>4, <3>8 DEF t, w
  <2>5. CASE ~ IsPrefix(prefix, t)
    <3>1. ~ (Len(Split(t, "section")) < 3)
      BY <2>2, <2>5, InfoIs
    <3>2. ~ IsPrefix(prefix, w)
      BY <2>1, <2>5, <3>1, ShortIsNotBeta
    <3>3. Info(t) = BetaInfo(t)
      BY <2>2, <2>5 DEF Info, Err
    <3>4. Info(w) = BetaInfo(w)
      BY <2>3, <3>2 DEF Info
    <3>5. /\ Len(Split(t, "section")) \in Nat /\ Len(Split(w, "section")) \in Nat
          /\ Len(Split(t, "section")) <= Len(Split(w, "section"))
          /\ \A n \in 1 .. Len(Split(t, "section")) - 1 :
                Split(t, "section")[n] = Split(w, "section")[n]
      BY <2>1, CutKeepsParts
    <3> HIDE DEF t
    <3>6. /\ ~ (Len(Split(w, "section")) < 3)
          /\ \A n \in 1 .. 2 : Split(t, "section")[n] = Split(w, "section")[n]
      <4> DEFINE p == Split(t, "section")
                 q == Split(w, "section")
      <4>1. /\ Len(p) \in Nat /\ Len(q) \in Nat /\ Len(p) <= Len(q)
            /\ \A n \in 1 .. Len(p) - 1 : p[n] = q[n]
            /\ ~ (Len(p) < 3)
        BY <3>1, <3>5
      <4>2. /\ ~ (Len(q) < 3)
            /\ \A n \in 1 .. 2 : p[n] = q[n]
        <5>1. ~ (Len(q) < 3) /\ 1 .. 2 \subseteq 1 .. Len(p) - 1
          <6> HIDE DEF p, q
          <6>1. QED
            BY <4>1, EnoughParts
        <5>2. QED
          <6> HIDE DEF p, q
          <6>1. QED
            BY <4>1, <5>1, Zenon
      <4>3. QED
        BY <4>2
    <3>8. /\ DOMAIN BetaInfo(t) = DOMAIN BetaInfo(w)
          /\ \A name \in DOMAIN BetaInfo(t) \ {"max"} :
                BetaInfo(t)[name] = BetaInfo(w)[name]
      BY <3>1, <3>6, BetaAgree
    <3>9. QED
      BY <2>1, <3>3, <3>4, <3>8 DEF t, w
  <2>6. QED
    BY <2>4, <2>5
<1>2. QED
  BY <1>1, LegacyInvHolds, PTL

\* The numbers of a server, and an empty part, as parse().unwrap_or(0) reads them.
LEMMA FieldNumber ==
    /\ Number(Field("online")) = Field("online")
    /\ Number(Field("max")) = Field("max")
    /\ Number(<<>>) = <<"0">>
<1>1. ASSUME NEW name \in {"online", "max"} PROVE Number(Field(name)) = Field(name)
  <2>1. name \in Unit
    BY UnitsAre
  <2>2. /\ Field(name) \in Seq(Unit) /\ Len(Field(name)) = 2
        /\ Field(name)[1] = name /\ Field(name)[2] = "digit"
    BY <2>1, FieldUnits
  <2>3. DOMAIN Field(name) = 1 .. 2
    BY <2>2, LenProperties
  <2>4. \A i \in 1 .. 2 : i = 1 \/ i = 2
    OBVIOUS
  <2>5. \A i \in DOMAIN Field(name) : Field(name)[i] \in Digit
    BY <2>2, <2>3, <2>4 DEF Digit
  <2>6. Range(Field(name)) \subseteq Digit
    BY <2>5 DEF Range
  <2>7. Field(name) # <<>>
    BY <2>2
  <2>8. QED
    BY <2>6, <2>7 DEF Number
<1>2. Number(<<>>) = <<"0">>
  BY DEF Number
<1>3. QED
  BY <1>1, <1>2

\* A description of any length in an answer of the beta format that has arrived as
\* a whole is read with the numbers after it (legacy_slp.rs:103-122).
THEOREM BetaIsRead == Spec => []BetaFieldsRead
<1>1. LegacyInv => BetaFieldsRead
  <2> SUFFICES ASSUME LegacyInv, sent \in BetaAnswer, arrived = Size, parsed
               PROVE  IF Refused THEN info.error \in {"Read error", "Response too large"}
                      ELSE /\ sent.text = Beta(Len(info.description))
                           /\ info.description = Motd(Len(info.description))
                           /\ info.online = Field("online")
                           /\ info.max = Field("max")
    BY DEF BetaFieldsRead
  <2>1. PICK n \in MotdLength : sent.text = Beta(n) /\ sent.id = "0xFF"
    BY DEF BetaAnswer, Answer
  <2>2. n \in Nat \ {0}
    BY LegacyAssumption
  <2> DEFINE w == Beta(n)
  <2>3. /\ w \in Seq(Unit) /\ Len(w) = n + 6
        /\ \A i \in 1 .. n : w[i] = Motd(n)[i]
        /\ w[n + 1] = "section"
        /\ w[n + 2] = "online" /\ w[n + 3] = "digit"
        /\ w[n + 4] = "section"
        /\ w[n + 5] = "max" /\ w[n + 6] = "digit"
    BY <2>2, BetaUnits
  <2> HIDE DEF w
  <2>4. ValidUtf16(w)
    <3>1. ASSUME NEW i \in 1 .. n + 6 PROVE w[i] # "high" /\ w[i] # "low"
      <4>1. CASE i \in 1 .. n
        BY <2>2, <2>3, <4>1, MotdUnits
      <4>2. CASE i \in {n + 1, n + 2, n + 3, n + 4, n + 5, n + 6}
        BY <2>3, <4>2
      <4>3. QED
        BY <2>2, <4>1, <4>2
    <3>2. QED
      BY <2>3, <3>1 DEF ValidUtf16
  <2>5. ~ IsPrefix(<<"section", "1", "null">>, w)
    <3>1. Motd(n)[1] = "motd" /\ 1 \in 1 .. n
      BY <2>2, MotdUnits
    <3>2. w[1] = "motd"
      BY <2>3, <3>1
    <3>3. QED
      BY <2>3, <3>2, PrefixIs
  <2>6. Info(w) = [description |-> Motd(n), online |-> Field("online"), max |-> Field("max")]
    <3>1. Info(w) = BetaInfo(w)
      BY <2>4, <2>5 DEF Info
    <3> DEFINE p == Split(w, "section")
    <3>2. /\ Len(p) = 3 /\ p[1] = Motd(n)
          /\ p[2] = Field("online") /\ p[3] = Field("max")
      BY <2>2, BetaParts DEF w
    <3>3. BetaInfo(w) = IF Len(p) < 3 THEN Err("Invalid legacy beta response format")
                        ELSE [description |-> p[1], online |-> Number(p[2]),
                              max |-> Number(p[3])]
      BY DEF BetaInfo, BetaPart
    <3> HIDE DEF p
    <3>4. QED
      BY <3>1, <3>2, <3>3, FieldNumber
  <2>7. Response = Info(w)
    BY <2>1, WholeText DEF w
  <2>8. CASE info \in {Err("Read error"), Err("Response too large")}
    <3>1. ASSUME NEW m, info = Err(m) PROVE Refused /\ info.error = m
      BY <3>1 DEF Refused, Err
    <3>2. QED
      BY <2>8, <3>1
  <2>9. CASE info = Response
    <3>1. /\ info.description = Motd(n) /\ info.online = Field("online")
          /\ info.max = Field("max") /\ ~ Refused
      BY <2>6, <2>7, <2>9 DEF Refused
    <3>2. Len(info.description) = n
      BY <2>2, <3>1, MotdUnits
    <3>3. QED
      BY <2>1, <3>1, <3>2
  <2>10. QED
    BY <2>8, <2>9 DEF LegacyInv
<1>2. QED
  BY <1>1, LegacyInvHolds, PTL

\* What becomes of the fields of a 1.4+ answer: the slice starts with the
\* separator after the "1" (legacy_slp.rs:73 skips three bytes of a prefix that
\* has four), so every field is taken for the next one, and a description for a
\* number.
LegacyFieldsShifted ==
    sent \in ModernAnswer /\ arrived = Size /\ parsed /\ ~ Refused =>
        info = [protocol    |-> <<"0">>,
                name        |-> Field("protocol"),
                description |-> Field("version"),
                online      |-> <<"0">>,
                max         |-> Field("online")]

\* Every answer of the 1.4+ format that has arrived as a whole and is not refused
\* is read with each field in the place of the one before it (legacy_slp.rs:73-90).
THEOREM FieldsAreShifted == Spec => []LegacyFieldsShifted
<1>1. LegacyInv => LegacyFieldsShifted
  <2> SUFFICES ASSUME LegacyInv, sent \in ModernAnswer, arrived = Size, parsed, ~ Refused
               PROVE  info = [protocol |-> <<"0">>, name |-> Field("protocol"),
                              description |-> Field("version"), online |-> <<"0">>,
                              max |-> Field("online")]
    BY DEF LegacyFieldsShifted
  <2>1. PICK n \in MotdLength : sent.text = Modern(n)
    BY DEF ModernAnswer, Answer
  <2>2. n \in Nat \ {0}
    BY LegacyAssumption
  <2> DEFINE w == Modern(n)
             p == Split(ByteSlice(w, 3), "null")
  <2>3. info = Info(w)
    BY <2>1, ReadIs, WholeText
  <2>4. "error" \notin DOMAIN Info(w)
    BY <2>3 DEF Refused
  <2>5. IsPrefix(<<"section", "1", "null">>, w)
    <3>1. /\ w \in Seq(Unit) /\ Len(w) = n + 15
          /\ w[1] = "section" /\ w[2] = "1" /\ w[3] = "null"
      BY <2>2, ModernUnits
    <3> HIDE DEF w
    <3>2. Len(w) >= 3
      BY <2>2, <3>1
    <3>3. QED
      BY <3>1, <3>2, PrefixIs
  <2>6. /\ Len(p) = 6 /\ p[1] = <<>>
        /\ p[2] = Field("protocol") /\ p[3] = Field("version")
        /\ p[4] # <<>> /\ "motd" \in Range(p[4])
        /\ p[5] = Field("online")
    BY <2>2, ModernParts
  <2> HIDE DEF w
  <2>7. Info(w) = ModernInfo(w)
    BY <2>4, <2>5 DEF Info, Err
  <2>8. ModernInfo(w) =
          IF Len(p) < 5 THEN Err("Invalid legacy response format")
          ELSE [protocol |-> Number(p[1]), name |-> p[2], description |-> p[3],
                online |-> Number(p[4]), max |-> Number(p[5])]
    BY DEF ModernInfo
  <2> HIDE DEF p
  <2>9. Number(p[4]) = <<"0">>
    <3>1. "motd" \notin Digit
      BY DEF Digit
    <3>2. QED
      BY <2>6, <3>1 DEF Number
  <2>10. /\ Number(p[1]) = <<"0">> /\ Number(p[5]) = Field("online")
    BY <2>6, FieldNumber
  <2>11. QED
    BY <2>3, <2>6, <2>7, <2>8, <2>9, <2>10
<1>2. QED
  BY <1>1, LegacyInvHolds, PTL

=============================================================================
