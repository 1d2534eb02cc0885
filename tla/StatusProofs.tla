---------------------------- MODULE StatusProofs ----------------------------
(***************************************************************************)
(* Proofs about the reading of a status: VarInts of any width are read as  *)
(* they were written, and packets of any lengths as they were sent.        *)
(***************************************************************************)
EXTENDS StatusProperties, FiniteSetTheorems, SequenceTheorems,
        WellFoundedInduction, TLAPS

-----------------------------------------------------------------------------
(* Induction over the numbers: the library states it for operators, which   *)
(* the provers cannot instantiate, so it is stated for sets here            *)

LEMMA NatLess == IsWellFoundedOn({p \in Nat \X Nat : p[1] < p[2]}, Nat)
  BY NatLessThanWellFounded, Zenon DEF OpToRel

LEMMA Induct ==
    ASSUME NEW S \in SUBSET Nat, 0 \in S, \A n \in S : n + 1 \in S
    PROVE  S = Nat
<1> SUFFICES ASSUME Nat \ S # {} PROVE FALSE
  OBVIOUS
<1>1. PICK n \in Nat \ S :
        \A m \in Nat \ S : ~ <<m, n>> \in {p \in Nat \X Nat : p[1] < p[2]}
  BY NatLess, WFMin, Zenon
<1>2. n # 0 /\ n - 1 \in Nat /\ n - 1 < n /\ (n - 1) + 1 = n
  BY <1>1
<1>3. n - 1 \in S
  BY <1>1, <1>2
<1>4. QED
  BY <1>1, <1>2, <1>3

-----------------------------------------------------------------------------
(* Powers of two: all that is known of ^ is how many subsets a set has *)

LEMMA SubsetsOfInterval ==
    ASSUME NEW n \in Nat
    PROVE  /\ 2 ^ n = Cardinality(SUBSET (1 .. n)) /\ IsFiniteSet(SUBSET (1 .. n))
           /\ 2 ^ n \in Nat
<1>1. IsFiniteSet(1 .. n) /\ Cardinality(1 .. n) = n
  BY FS_Interval
<1>2. IsFiniteSet(SUBSET (1 .. n)) /\ Cardinality(SUBSET (1 .. n)) = 2 ^ n
  BY <1>1, FS_SUBSET
<1>3. QED
  BY <1>2, FS_CardinalityType

LEMMA PowerOfZero == 2 ^ 0 = 1
<1>1. SUBSET (1 .. 0) = {{}}
  OBVIOUS
<1>2. QED
  BY <1>1, SubsetsOfInterval, FS_Singleton

\* The subsets with a last element are as many as those without.
LEMMA TwiceAsMany ==
    ASSUME NEW A, NEW x, IsFiniteSet(A), \A s \in A : x \notin s
    PROVE  LET B == {s \cup {x} : s \in A} IN
           IsFiniteSet(A \cup B) /\ Cardinality(A \cup B) = 2 * Cardinality(A)
<1> DEFINE B == {s \cup {x} : s \in A}
           f == [s \in A |-> s \cup {x}]
<1>1. \A s, t \in A : s \cup {x} = t \cup {x} => s = t
  <2> SUFFICES ASSUME NEW s \in A, NEW t \in A, s \cup {x} = t \cup {x}
               PROVE  s \subseteq t
    OBVIOUS
  <2>1. ASSUME NEW e \in s PROVE e \in t
    <3>1. e # x
      OBVIOUS
    <3>2. e \in t \cup {x}
      OBVIOUS
    <3>3. QED
      BY <3>1, <3>2
  <2>2. QED
    BY <2>1
<1>2. f \in [A -> B] /\ \A s \in A : f[s] = s \cup {x}
  OBVIOUS
<1>3. \A y \in B : \E s \in A : f[s] = y
  BY <1>2
<1>4. f \in Bijection(A, B)
  BY <1>1, <1>2, <1>3 DEF Bijection, Injection, Surjection, IsInjective
<1>5. IsFiniteSet(B) /\ Cardinality(B) = Cardinality(A)
  BY <1>4, FS_Bijection DEF ExistsBijection
<1>6. A \cap B = {}
  OBVIOUS
<1>7. QED
  <2> HIDE DEF B
  <2>1. Cardinality(A) \in Nat /\ Cardinality({}) = 0
    BY FS_CardinalityType, FS_EmptySet
  <2>2. IsFiniteSet(A \cup B)
        /\ Cardinality(A \cup B) = Cardinality(A) + Cardinality(B) - Cardinality({})
    BY <1>5, <1>6, FS_Union
  <2>3. QED
    BY <1>5, <2>1, <2>2 DEF B

LEMMA PowerOfNext == ASSUME NEW n \in Nat PROVE 2 ^ (n + 1) = 2 * 2 ^ n
<1> DEFINE A == SUBSET (1 .. n)
           B == {s \cup {n + 1} : s \in A}
<1>1. IsFiniteSet(A) /\ Cardinality(A) = 2 ^ n
  BY SubsetsOfInterval
<1>2. \A s \in A : n + 1 \notin s
  OBVIOUS
<1>3. Cardinality(A \cup B) = 2 * 2 ^ n
  BY <1>1, <1>2, TwiceAsMany
<1>4. ASSUME NEW s \in SUBSET (1 .. n + 1) PROVE s \in A \cup B
  <2>1. CASE n + 1 \in s
    <3>1. s \ {n + 1} \in A /\ s = (s \ {n + 1}) \cup {n + 1}
      BY <2>1
    <3>2. QED
      BY <3>1
  <2>2. CASE n + 1 \notin s
    BY <2>2
  <2>3. QED
    BY <2>1, <2>2
<1>5. ASSUME NEW s \in A \cup B PROVE s \in SUBSET (1 .. n + 1)
  <2>1. 1 .. n \subseteq 1 .. n + 1 /\ n + 1 \in 1 .. n + 1
    OBVIOUS
  <2>2. QED
    BY <2>1
<1>6. SUBSET (1 .. n + 1) = A \cup B
  BY <1>4, <1>5, Zenon
<1>7. n + 1 \in Nat
  OBVIOUS
<1>8. 2 ^ (n + 1) = Cardinality(SUBSET (1 .. n + 1))
  BY <1>7, SubsetsOfInterval
<1>9. QED
  BY <1>3, <1>6, <1>8, Zenon

LEMMA PowerIsPositive == ASSUME NEW n \in Nat PROVE 2 ^ n \in Nat \ {0}
<1> DEFINE S == {k \in Nat : 2 ^ k > 0}
<1>1. 0 \in S
  BY PowerOfZero
<1>2. \A k \in S : k + 1 \in S
  BY PowerOfNext, SubsetsOfInterval
<1>3. S = Nat
  BY <1>1, <1>2, Induct
<1>4. QED
  BY <1>3, SubsetsOfInterval

LEMMA PowerOfSum ==
    ASSUME NEW m \in Nat, NEW n \in Nat
    PROVE  2 ^ (m + n) = 2 ^ m * 2 ^ n
<1> DEFINE S == {k \in Nat : 2 ^ (m + k) = 2 ^ m * 2 ^ k}
<1>1. 0 \in S
  <2>1. m + 0 = m
    OBVIOUS
  <2>2. QED
    BY <2>1, PowerOfZero, SubsetsOfInterval
<1>2. ASSUME NEW k \in S PROVE k + 1 \in S
  <2>1. 2 ^ ((m + k) + 1) = 2 * 2 ^ (m + k) /\ 2 ^ (k + 1) = 2 * 2 ^ k
    BY PowerOfNext
  <2>2. (m + k) + 1 = m + (k + 1)
    OBVIOUS
  <2>3. 2 ^ m \in Nat /\ 2 ^ k \in Nat /\ 2 ^ (m + k) = 2 ^ m * 2 ^ k
    BY SubsetsOfInterval
  <2>4. 2 * (2 ^ m * 2 ^ k) = 2 ^ m * (2 * 2 ^ k)
    BY <2>3
  <2>5. QED
    BY <2>1, <2>2, <2>3, <2>4
<1>3. S = Nat
  BY <1>1, <1>2, Induct
<1>4. QED
  BY <1>3

LEMMA PowerGrows ==
    ASSUME NEW m \in Nat, NEW n \in Nat, m <= n
    PROVE  2 ^ m <= 2 ^ n
<1>1. PICK k \in Nat : n = m + k
  BY n - m \in Nat /\ n = m + (n - m)
<1>2. 2 ^ n = 2 ^ m * 2 ^ k /\ 2 ^ m \in Nat \ {0} /\ 2 ^ k \in Nat \ {0}
  BY <1>1, PowerOfSum, PowerIsPositive
<1>3. \A a, b \in Nat \ {0} : a <= a * b
  OBVIOUS
<1>4. QED
  BY <1>2, <1>3

-----------------------------------------------------------------------------
(* Numbers as they are written *)

LEMMA Sizes ==
    /\ Group \in Nat /\ Group >= 2
    /\ Word \in Nat /\ Word >= 2
    /\ WordBits \in Nat \ {0} /\ GroupBits \in Nat \ {0}
<1>1. 2 ^ (0 + 1) = 2
  BY PowerOfZero, PowerOfNext
<1>2. WordBits \in Nat \ {0} /\ GroupBits \in Nat \ {0}
  BY VarIntAssumption
<1>3. 2 ^ 1 <= 2 ^ WordBits /\ 2 ^ 1 <= 2 ^ GroupBits
  <2>1. 1 \in Nat /\ 1 <= WordBits /\ 1 <= GroupBits
    BY <1>2
  <2>2. QED
    BY <1>2, <2>1, PowerGrows
<1>4. QED
  BY <1>1, <1>2, <1>3, SubsetsOfInterval DEF Group, Word

\* Taking a group off a number.
LEMMA Division ==
    ASSUME NEW v \in Nat, NEW g \in Nat, g >= 2
    PROVE  /\ v \div g \in Nat /\ v % g \in Nat /\ v % g < g
           /\ v = g * (v \div g) + (v % g)
           /\ v >= g => v \div g < v
           /\ v < g => v % g = v
<1>1. v \div g \in Nat /\ v % g \in Nat /\ v % g < g
  OBVIOUS
<1>2. v - g * (v \div g) = v % g
  OBVIOUS
<1>3. PICK p \in Int : p = g * (v \div g)
  BY <1>1
<1>4. v = p + (v % g)
  BY <1>1, <1>2, <1>3
<1>5. \A q, m \in Nat : q # 0 => g * q + m > q
  OBVIOUS
<1>6. v >= g => v \div g < v
  BY <1>1, <1>3, <1>4, <1>5
<1>7. v < g => v % g = v
  OBVIOUS
<1>8. QED
  BY <1>1, <1>3, <1>4, <1>6, <1>7

LEMMA Groups ==
    ASSUME NEW v \in Nat
    PROVE  /\ v \in 0 .. Word - 1 => v \div Group \in 0 .. Word - 1
           /\ (v % Group) + Group \in 0 .. 2 * Group - 1
           /\ v \div Group \in Nat /\ v % Group \in Nat /\ v % Group < Group
           /\ v = Group * (v \div Group) + (v % Group)
           /\ v >= Group => v \div Group < v
           /\ v < Group => v % Group = v
<1>1. /\ v \div Group \in Nat /\ v % Group \in Nat /\ v % Group < Group
      /\ v = Group * (v \div Group) + (v % Group)
      /\ v >= Group => v \div Group < v
      /\ v < Group => v % Group = v
  BY Sizes, Division
<1>2. PICK q \in Nat : q = v \div Group
  BY <1>1
<1>3. PICK r \in Nat : r = v % Group
  BY <1>1
<1>4. v < Group => q = 0
  <2>1. \A g, k, m \in Nat : g * k + m < g => k = 0
    OBVIOUS
  <2>2. QED
    BY <1>1, <1>2, <1>3, <2>1, Sizes
<1>5. v \in 0 .. Word - 1 => q \in 0 .. Word - 1
  BY <1>1, <1>2, <1>4, Sizes
<1>6. r + Group \in 0 .. 2 * Group - 1
  BY <1>1, <1>3, Sizes
<1>7. QED
  BY <1>1, <1>2, <1>3, <1>5, <1>6

LEMMA OneGroupLess ==
    ASSUME NEW v \in 0 .. Word - 1, v >= Group
    PROVE  v \div Group \in 0 .. Word - 1 /\ v \div Group < v
<1>1. v \in Nat
  BY Sizes
<1>2. QED
  BY <1>1, Groups, Zenon

Byte == 0 .. 2 * Group - 1

\* What Written says of one number.
WriteStep(f, v) ==
    IF IsLast(v) THEN <<v>> ELSE <<(v % Group) + Group>> \o f[v \div Group]

LEMMA WriteStepType ==
    ASSUME NEW v \in Nat, NEW f, v >= Group => f[v \div Group] \in Seq(Byte)
    PROVE  WriteStep(f, v) \in Seq(Byte)
<1>1. CASE v < Group
  <2>1. v \in Byte
    BY <1>1, Sizes DEF Byte
  <2>2. QED
    BY <1>1, <2>1 DEF WriteStep, IsLast
<1>2. CASE ~ (v < Group)
  <2>1. (v % Group) + Group \in Byte
    BY Groups, Sizes DEF Byte
  <2>2. <<(v % Group) + Group>> \in Seq(Byte)
    BY <2>1
  <2>3. f[v \div Group] \in Seq(Byte)
    BY <1>2, Sizes
  <2>4. QED
    BY <1>2, <2>2, <2>3, ConcatProperties DEF WriteStep, IsLast
<1>3. QED
  BY <1>1, <1>2

\* There is such a function: it grows by one number after the other.
LEMMA WrittenExists == Written = [v \in 0 .. Word - 1 |-> WriteStep(Written, v)]
<1> DEFINE S == {n \in Nat : \E f : \A v \in Nat : v < n => f[v] = WriteStep(f, v)}
<1>1. 0 \in S
  OBVIOUS
<1>2. ASSUME NEW n \in S PROVE n + 1 \in S
  <2>1. PICK f : \A v \in Nat : v < n => f[v] = WriteStep(f, v)
    OBVIOUS
  <2> DEFINE g == [v \in Nat |-> IF v = n THEN WriteStep(f, n) ELSE f[v]]
  <2>2. ASSUME NEW v \in Nat, v < n + 1 PROVE g[v] = WriteStep(g, v)
    <3>1. v >= Group => v \div Group \in Nat /\ v \div Group < n
      BY <2>2, Groups
    <3>2. v >= Group => g[v \div Group] = f[v \div Group]
      BY <3>1
    <3>3. WriteStep(g, v) = WriteStep(f, v)
      BY <3>2, Sizes DEF WriteStep, IsLast
    <3>4. g[v] = WriteStep(f, v)
      BY <2>1, <2>2
    <3>5. QED
      BY <3>3, <3>4
  <2> HIDE DEF g
  <2>3. QED
    BY <2>2
<1>3. Word \in S
  <2> HIDE DEF S
  <2>1. QED
    BY <1>1, <1>2, Induct, Sizes DEF S
<1>4. PICK f : \A v \in Nat : v < Word => f[v] = WriteStep(f, v)
  BY <1>3
<1> DEFINE g == [v \in 0 .. Word - 1 |-> f[v]]
<1>5. ASSUME NEW v \in 0 .. Word - 1 PROVE g[v] = WriteStep(g, v)
  <2>1. v \in Nat /\ v < Word
    BY Sizes
  <2>2. v >= Group => v \div Group \in 0 .. Word - 1
    BY <2>1, Groups, Sizes
  <2>3. WriteStep(g, v) = WriteStep(f, v)
    BY <2>2, Sizes, <2>1 DEF WriteStep, IsLast
  <2>4. QED
    BY <1>4, <2>1, <2>3
<1>6. g = [v \in 0 .. Word - 1 |-> WriteStep(g, v)]
  <2> HIDE DEF g
  <2>1. g = [v \in 0 .. Word - 1 |-> g[v]]
    BY DEF g
  <2>2. QED
    BY <1>5, <2>1
<1>7. Written = CHOOSE h : h = [v \in 0 .. Word - 1 |-> WriteStep(h, v)]
  BY Zenon DEF Written, WriteStep
<1>8. QED
  BY <1>6, <1>7, Zenon

LEMMA WrittenStep ==
    ASSUME NEW v \in 0 .. Word - 1
    PROVE  Written[v] = WriteStep(Written, v)
<1>1. [u \in 0 .. Word - 1 |-> WriteStep(Written, u)][v] = WriteStep(Written, v)
  OBVIOUS
<1>2. QED
  BY <1>1, WrittenExists

\* Every number is written as bytes: some with a continuation bit, and one
\* without it at the end; as few as the number has groups.
LEMMA WrittenBytes ==
    \A v \in 0 .. Word - 1 :
        /\ Written[v] \in Seq(Byte)
        /\ Len(Written[v]) \in Nat \ {0}
        /\ \A i \in 1 .. Len(Written[v]) :
              Written[v][i] >= Group <=> i < Len(Written[v])
        /\ v < Group => Written[v] = <<v>>
        /\ v >= Group =>
              /\ v \div Group \in 0 .. Word - 1
              /\ Len(Written[v]) = 1 + Len(Written[v \div Group])
              /\ Written[v][1] = (v % Group) + Group
              /\ \A i \in 1 .. Len(Written[v \div Group]) :
                    Written[v][i + 1] = Written[v \div Group][i]
<1> DEFINE P(v) ==
              /\ Written[v] \in Seq(Byte)
              /\ Len(Written[v]) \in Nat \ {0}
              /\ \A i \in 1 .. Len(Written[v]) :
                    Written[v][i] >= Group <=> i < Len(Written[v])
           Q(v) ==
              v >= Group =>
                /\ v \div Group \in 0 .. Word - 1
                /\ Len(Written[v]) = 1 + Len(Written[v \div Group])
                /\ Written[v][1] = (v % Group) + Group
                /\ \A i \in 1 .. Len(Written[v \div Group]) :
                      Written[v][i + 1] = Written[v \div Group][i]
           S == {n \in Nat : \A v \in 0 .. Word - 1 : v < n => P(v) /\ Q(v)}
<1>1. ASSUME NEW v \in 0 .. Word - 1, v >= Group => P(v \div Group)
      PROVE  P(v) /\ Q(v)
  <2>1. v \in Nat /\ v < Word
    BY Sizes
  <2>2. CASE v < Group
    <3>1. Written[v] = <<v>>
      BY <2>2, WrittenStep DEF WriteStep, IsLast
    <3>2. v \in Byte /\ ~ (v >= Group)
      BY <2>1, <2>2, Sizes DEF Byte
    <3>3. <<v>> \in Seq(Byte) /\ Len(<<v>>) = 1 /\ <<v>>[1] = v
      BY <3>2
    <3>4. QED
      BY <3>1, <3>2, <3>3
  <2>3. CASE ~ (v < Group)
    <3>0. v >= Group
      BY <2>1, <2>3, Sizes
    <3>15. v \div Group \in 0 .. Word - 1
      BY <3>0, OneGroupLess
    <3>1. v >= Group /\ v \div Group \in 0 .. Word - 1 /\ P(v \div Group)
      BY <1>1, <3>0, <3>15, Zenon
    <3>2. PICK s : s = Written[v \div Group]
      OBVIOUS
    <3>3. PICK b \in Byte : b = (v % Group) + Group
      BY <2>1, Groups, Sizes DEF Byte
    <3>4. Written[v] = <<b>> \o s
      BY <2>3, <3>2, <3>3, WrittenStep DEF WriteStep, IsLast
    <3>5. s \in Seq(Byte) /\ Len(s) \in Nat \ {0}
          /\ \A i \in 1 .. Len(s) : s[i] >= Group <=> i < Len(s)
      BY <3>1, <3>2
    <3>6. b >= Group
      BY <2>1, <3>3, Groups, Sizes
    <3>7. PICK w : w = <<b>> \o s
      OBVIOUS
    <3>8. /\ w \in Seq(Byte) /\ Len(w) = 1 + Len(s) /\ w[1] = b
          /\ \A i \in 1 .. Len(w) : i # 1 => w[i] = s[i - 1]
      <4>1. <<b>> \in Seq(Byte) /\ Len(<<b>>) = 1 /\ <<b>>[1] = b
        OBVIOUS
      <4>2. QED
        BY <3>5, <3>7, <4>1, ConcatProperties
    <3>9. ASSUME NEW i \in 1 .. Len(w) PROVE w[i] >= Group <=> i < Len(w)
      <4>1. CASE i = 1
        BY <3>5, <3>6, <3>8, <4>1
      <4>2. CASE i # 1
        <5>1. i - 1 \in 1 .. Len(s) /\ (i < Len(w) <=> i - 1 < Len(s))
          BY <3>5, <3>8, <4>2
        <5>2. QED
          BY <3>5, <3>8, <4>2, <5>1
      <4>3. QED
        BY <4>1, <4>2
    <3>10. \A i \in 1 .. Len(s) : i + 1 \in 1 .. Len(w) /\ (i + 1) - 1 = i /\ i + 1 # 1
      BY <3>5, <3>8
    <3>11. \A i \in 1 .. Len(s) : w[i + 1] = s[i]
      BY <3>8, <3>10
    <3>12. P(v)
      BY <3>4, <3>5, <3>7, <3>8, <3>9
    <3>13. Q(v)
      BY <3>1, <3>2, <3>3, <3>4, <3>7, <3>8, <3>11
    <3>14. QED
      BY <3>12, <3>13
  <2>4. QED
    BY <2>2, <2>3
<1>2. 0 \in S
  OBVIOUS
<1>3. ASSUME NEW n \in S PROVE n + 1 \in S
  <2>1. ASSUME NEW v \in 0 .. Word - 1, v < n + 1 PROVE P(v) /\ Q(v)
    <3>1. v >= Group => v \div Group \in 0 .. Word - 1 /\ v \div Group < n
      <4>1. v >= Group => v \div Group \in 0 .. Word - 1 /\ v \div Group < v
        BY OneGroupLess
      <4>2. \A u \in 0 .. Word - 1 : u < v => u < n
        BY <2>1, Sizes
      <4>3. QED
        BY <4>1, <4>2
    <3>2. v >= Group => P(v \div Group)
      BY <1>3, <3>1
    <3> HIDE DEF P, Q
    <3>3. QED
      BY <1>1, <3>2
  <2> HIDE DEF P, Q
  <2>2. QED
    BY <2>1
<1>4. S = Nat
  <2> HIDE DEF P, Q
  <2>1. QED
    BY <1>2, <1>3, Induct
<1>5. ASSUME NEW v \in 0 .. Word - 1 PROVE P(v) /\ Q(v)
  <2>1. v + 1 \in Nat /\ v < v + 1
    BY Sizes
  <2> HIDE DEF P, Q
  <2>2. v + 1 \in S
    BY <1>4, <2>1, Zenon
  <2>3. QED
    BY <2>1, <2>2
<1>6. \A v \in 0 .. Word - 1 : v < Group => Written[v] = <<v>>
  BY WrittenStep DEF WriteStep, IsLast
<1>7. QED
  BY <1>5, <1>6, Zenon

\* A number of so many groups takes no more bytes.
LEMMA WrittenLength ==
    ASSUME NEW k \in Nat \ {0}, NEW v \in 0 .. Word - 1, v < 2 ^ (GroupBits * k)
    PROVE  Len(Written[v]) <= k
<1> DEFINE S == {n \in Nat : \A u \in 0 .. Word - 1 :
                    u < 2 ^ (GroupBits * (n + 1)) => Len(Written[u]) <= n + 1}
<1>1. 0 \in S
  <2>1. GroupBits * (0 + 1) = GroupBits
    BY Sizes
  <2>2. \A u \in 0 .. Word - 1 : u < Group => Len(Written[u]) <= 0 + 1
    BY WrittenBytes
  <2>3. QED
    BY <2>1, <2>2 DEF Group
<1>2. ASSUME NEW n \in S PROVE n + 1 \in S
  <2>1. SUFFICES ASSUME NEW u \in 0 .. Word - 1, u < 2 ^ (GroupBits * ((n + 1) + 1))
                 PROVE  Len(Written[u]) <= (n + 1) + 1
    OBVIOUS
  <2>2. CASE u < Group
    <3>1. Written[u] = <<u>> /\ Len(<<u>>) = 1
      BY <2>2, WrittenBytes
    <3>2. QED
      BY <3>1
  <2>3. CASE u >= Group
    <3>1. PICK q \in Nat : q = u \div Group
      BY Groups
    <3>2. GroupBits * ((n + 1) + 1) = GroupBits + GroupBits * (n + 1)
          /\ GroupBits * (n + 1) \in Nat
      BY Sizes
    <3>3. PICK p \in Nat : p = 2 ^ (GroupBits * (n + 1))
      BY <3>2, SubsetsOfInterval
    <3>4. 2 ^ (GroupBits * ((n + 1) + 1)) = Group * p
      BY <3>2, <3>3, PowerOfSum, Sizes DEF Group
    <3>5. u < Group * p /\ Group * q <= u
      BY <2>1, <3>1, <3>4, Groups, Sizes
    <3>6. \A g, a, b \in Nat : g * a < g * b => a < b
      OBVIOUS
    <3>7. q < p
      <4>1. Group * q \in Nat /\ Group * p \in Nat /\ u \in Nat
        BY Sizes
      <4>2. Group * q < Group * p
        BY <3>5, <4>1
      <4>3. QED
        BY <3>6, <4>2, Sizes
    <3>8. Len(Written[q]) <= n + 1 /\ Len(Written[u]) = 1 + Len(Written[q])
          /\ Len(Written[q]) \in Nat
      BY <2>3, <3>1, <3>3, <3>7, WrittenBytes
    <3>9. QED
      BY <3>8
  <2>4. QED
    BY <2>2, <2>3, Sizes
<1>3. S = Nat
  <2> HIDE DEF S
  <2>1. QED
    BY <1>1, <1>2, Induct DEF S
<1>4. k - 1 \in Nat /\ (k - 1) + 1 = k
  OBVIOUS
<1>5. k - 1 \in S
  BY <1>3, <1>4, Zenon
<1>6. QED
  BY <1>4, <1>5

-----------------------------------------------------------------------------
(* Numbers as they are read *)

\* One turn of the loop of read_varint, and the function of all its turns.
TurnStep(f, d, o, i) ==
    LET position == GroupBits * i
        at       == o + i
        byte     == d[at + 1]
        rest     == f[i + 1]
    IN  CASE at >= Len(d) -> Error("exceeds data length")
          [] at < Len(d) /\ byte < Group ->
                [value |-> Shifted(byte, position), offset |-> at + 1]
          [] at < Len(d) /\ byte >= Group ->
                IF position + GroupBits >= WordBits THEN Error("too big")
                ELSE IF Failed(rest) THEN rest
                ELSE [rest EXCEPT !.value = @ + Shifted(byte, position)]

Turns(d, o) == CHOOSE f : f = [i \in 0 .. WordBits |-> TurnStep(f, d, o, i)]

LEMMA ReadByTurns ==
    ASSUME NEW d, NEW o
    PROVE  ReadVarint(d, o) = Turns(d, o)[0]
  BY Zenon DEF ReadVarint, Turns, TurnStep

\* As many turns as a word has bits are enough.
LEMMA LastTurn ==
    ASSUME NEW i \in 0 .. WordBits
    PROVE  /\ GroupBits * i \in Nat
           /\ GroupBits * i + GroupBits < WordBits => i + 1 \in 0 .. WordBits
<1>1. \A g \in Nat \ {0}, k \in Nat : g * k \in Nat /\ g * k + g >= k + 1
  <2>1. ASSUME NEW g \in Nat \ {0}, NEW k \in Nat PROVE g * k >= k
    <3>1. PICK h \in Nat : g = h + 1
      BY g - 1 \in Nat /\ g = (g - 1) + 1
    <3>2. g * k = h * k + k /\ h * k >= 0
      BY <3>1
    <3>3. QED
      BY <3>2
  <2>2. QED
    BY <2>1
<1>2. i \in Nat
  BY Sizes
<1>3. QED
  BY <1>1, <1>2, Sizes

LEMMA ByteAt ==
    ASSUME NEW d \in Seq(Byte), NEW o \in Nat, NEW i \in 0 .. WordBits, o + i < Len(d)
    PROVE  d[(o + i) + 1] \in Byte
           /\ (d[(o + i) + 1] < Group \/ d[(o + i) + 1] >= Group)
<1>1. (o + i) + 1 \in 1 .. Len(d)
  BY Sizes
<1>2. d[(o + i) + 1] \in Byte
  BY <1>1
<1>3. QED
  BY <1>2, Sizes DEF Byte

\* A turn depends on the next one only.
LEMMA TurnLocal ==
    ASSUME NEW d \in Seq(Byte), NEW o \in Nat, NEW i \in 0 .. WordBits, NEW f, NEW g,
           i + 1 \in 0 .. WordBits => f[i + 1] = g[i + 1]
    PROVE  TurnStep(f, d, o, i) = TurnStep(g, d, o, i)
<1>1. Len(d) \in Nat /\ o + i \in Nat
  BY Sizes
<1>2. CASE o + i >= Len(d)
  BY <1>1, <1>2 DEF TurnStep
<1>3. CASE o + i < Len(d) /\ d[(o + i) + 1] < Group
  BY <1>1, <1>3 DEF TurnStep
<1>4. CASE o + i < Len(d) /\ d[(o + i) + 1] >= Group
  <2>1. CASE GroupBits * i + GroupBits < WordBits
    BY <1>1, <1>4, <2>1, LastTurn DEF TurnStep
  <2>2. CASE ~ (GroupBits * i + GroupBits < WordBits)
    <3>1. GroupBits * i + GroupBits >= WordBits
      BY <2>2, LastTurn, Sizes
    <3>2. QED
      BY <1>1, <1>4, <3>1 DEF TurnStep
  <2>3. QED
    BY <2>1, <2>2
<1>5. o + i >= Len(d) \/ o + i < Len(d)
  BY <1>1
<1>6. o + i < Len(d) => d[(o + i) + 1] < Group \/ d[(o + i) + 1] >= Group
  BY ByteAt
<1>7. QED
  BY <1>2, <1>3, <1>4, <1>5, <1>6, Zenon

LEMMA TurnsExist ==
    ASSUME NEW d \in Seq(Byte), NEW o \in Nat
    PROVE  Turns(d, o) = [i \in 0 .. WordBits |-> TurnStep(Turns(d, o), d, o, i)]
<1> DEFINE Fits(f, k) == \A i \in 0 .. WordBits : i + k > WordBits =>
                            f[i] = TurnStep(f, d, o, i)
           S == {k \in Nat : \E f : Fits(f, k)}
<1>1. 0 \in S
  BY Sizes
<1>2. ASSUME NEW k \in S PROVE k + 1 \in S
  <2>1. PICK f : Fits(f, k)
    OBVIOUS
  <2> DEFINE g == [i \in 0 .. WordBits |->
                     IF i + k = WordBits THEN TurnStep(f, d, o, i) ELSE f[i]]
  <2>2. ASSUME NEW i \in 0 .. WordBits, i + (k + 1) > WordBits
        PROVE  g[i] = TurnStep(g, d, o, i)
    <3>1. g[i] = TurnStep(f, d, o, i)
      <4>1. i + k = WordBits \/ i + k > WordBits
        BY <2>2, Sizes
      <4>2. QED
        BY <2>1, <4>1
    <3>2. i + 1 \in 0 .. WordBits => f[i + 1] = g[i + 1]
      <4>1. (i + 1) + k # WordBits
        BY <2>2, Sizes
      <4>2. QED
        BY <4>1
    <3>3. TurnStep(f, d, o, i) = TurnStep(g, d, o, i)
      <4> HIDE DEF g, Fits, S
      <4>1. QED
        BY <3>2, TurnLocal
    <3>4. QED
      BY <3>1, <3>3
  <2>3. Fits(g, k + 1)
    BY <2>2
  <2> HIDE DEF g, Fits
  <2>4. QED
    BY <2>3
<1>3. WordBits + 1 \in S
  <2> HIDE DEF S
  <2>1. S \in SUBSET Nat
    BY DEF S
  <2>2. S = Nat
    BY <1>1, <1>2, <2>1, Induct
  <2>3. QED
    BY <2>2, Sizes
<1>4. PICK f : Fits(f, WordBits + 1)
  BY <1>3
<1> DEFINE g == [i \in 0 .. WordBits |-> f[i]]
<1>5. ASSUME NEW i \in 0 .. WordBits PROVE g[i] = TurnStep(g, d, o, i)
  <2>1. f[i] = TurnStep(f, d, o, i)
    BY <1>4, Sizes
  <2>2. i + 1 \in 0 .. WordBits => f[i + 1] = g[i + 1]
    OBVIOUS
  <2>3. g[i] = f[i]
    OBVIOUS
  <2> HIDE DEF g
  <2>4. QED
    BY <2>1, <2>2, <2>3, TurnLocal
<1>6. g = [i \in 0 .. WordBits |-> TurnStep(g, d, o, i)]
  <2>1. g = [i \in 0 .. WordBits |-> g[i]]
    OBVIOUS
  <2> HIDE DEF g
  <2>2. QED
    BY <1>5, <2>1
<1>7. QED
  BY <1>6, Zenon DEF Turns

\* What a turn returns: nothing is left; the last byte; too many bytes; or
\* this byte's bits and those of the turns to come.
LEMMA Turn ==
    ASSUME NEW d \in Seq(Byte), NEW o \in Nat, NEW i \in 0 .. WordBits
    PROVE  LET this == Turns(d, o)[i]
               byte == d[(o + i) + 1]
           IN  /\ o + i >= Len(d) => Failed(this)
               /\ o + i < Len(d) /\ byte < Group =>
                     this = [value |-> Shifted(byte, GroupBits * i), offset |-> o + i + 1]
               /\ o + i < Len(d) /\ byte >= Group =>
                     \/ GroupBits * i + GroupBits >= WordBits /\ Failed(this)
                     \/ /\ GroupBits * i + GroupBits < WordBits
                        /\ i + 1 \in 0 .. WordBits
                        /\ LET rest == Turns(d, o)[i + 1] IN
                           this = IF Failed(rest) THEN rest
                                  ELSE [rest EXCEPT !.value =
                                           @ + Shifted(byte, GroupBits * i)]
<1>1. Turns(d, o)[i] = TurnStep(Turns(d, o), d, o, i)
  <2>1. [j \in 0 .. WordBits |-> TurnStep(Turns(d, o), d, o, j)][i]
           = TurnStep(Turns(d, o), d, o, i)
    OBVIOUS
  <2>2. QED
    BY <2>1, TurnsExist
<1>2. Len(d) \in Nat /\ o + i \in Nat
  BY Sizes
<1>3. \A m : Failed(Error(m))
  BY DEF Failed, Error
<1>4. CASE o + i >= Len(d)
  <2>1. ~ (o + i < Len(d))
    BY <1>2, <1>4
  <2>2. Turns(d, o)[i] = Error("exceeds data length")
    BY <1>1, <1>4, <2>1 DEF TurnStep
  <2>3. QED
    BY <1>3, <2>1, <2>2, Zenon
<1>5. CASE o + i < Len(d) /\ d[(o + i) + 1] < Group
  <2>1. ~ (d[(o + i) + 1] >= Group) /\ ~ (o + i >= Len(d))
    BY <1>2, <1>5, ByteAt, Sizes DEF Byte
  <2>2. Turns(d, o)[i]
           = [value |-> Shifted(d[(o + i) + 1], GroupBits * i), offset |-> o + i + 1]
    BY <1>1, <1>5, <2>1 DEF TurnStep
  <2>3. QED
    BY <2>1, <2>2, Zenon
<1>6. CASE o + i < Len(d) /\ d[(o + i) + 1] >= Group
  <2>1. ~ (d[(o + i) + 1] < Group) /\ ~ (o + i >= Len(d))
    BY <1>2, <1>6, ByteAt, Sizes DEF Byte
  <2>2. CASE GroupBits * i + GroupBits >= WordBits
    <3>1. Turns(d, o)[i] = Error("too big")
      BY <1>1, <1>6, <2>1, <2>2 DEF TurnStep
    <3>2. QED
      BY <1>3, <2>1, <2>2, <3>1, Zenon
  <2>3. CASE ~ (GroupBits * i + GroupBits >= WordBits)
    <3>1. GroupBits * i + GroupBits < WordBits /\ i + 1 \in 0 .. WordBits
      BY <2>3, LastTurn, Sizes
    <3> DEFINE rest == Turns(d, o)[i + 1]
               more == Shifted(d[(o + i) + 1], GroupBits * i)
    <3>2. Turns(d, o)[i] = IF Failed(rest) THEN rest ELSE [rest EXCEPT !.value = @ + more]
      BY <1>1, <1>6, <2>1, <2>3 DEF TurnStep
    <3>3. QED
      BY <2>1, <3>1, <3>2, Zenon
  <2>4. QED
    BY <2>2, <2>3
<1>7. o + i >= Len(d) \/ o + i < Len(d)
  BY <1>2
<1>8. o + i < Len(d) => d[(o + i) + 1] < Group \/ d[(o + i) + 1] >= Group
  BY ByteAt
<1>9. QED
  BY <1>4, <1>5, <1>6, <1>7, <1>8, Zenon

\* What holds of a turn if it holds of the next one, holds of the first.
LEMMA FirstTurn ==
    ASSUME NEW G \in SUBSET (0 .. WordBits),
           \A i \in 0 .. WordBits : (i + 1 \in 0 .. WordBits => i + 1 \in G) => i \in G
    PROVE  0 \in G
<1> DEFINE S == {k \in Nat : \A i \in 0 .. WordBits : i + k > WordBits => i \in G}
<1>1. 0 \in S
  BY Sizes
<1>2. ASSUME NEW k \in S PROVE k + 1 \in S
  <2>1. ASSUME NEW i \in 0 .. WordBits, i + (k + 1) > WordBits PROVE i \in G
    <3>1. (i + 1) + k > WordBits
      BY <2>1, Sizes
    <3>2. i + 1 \in 0 .. WordBits => i + 1 \in G
      BY <3>1
    <3>3. QED
      BY <3>2
  <2>2. QED
    BY <2>1
<1>3. S = Nat
  <2> HIDE DEF S
  <2>1. S \in SUBSET Nat
    BY DEF S
  <2>2. QED
    BY <1>1, <1>2, <2>1, Induct
<1>4. WordBits + 1 \in Nat /\ 0 \in 0 .. WordBits /\ 0 + (WordBits + 1) > WordBits
  BY Sizes
<1>5. WordBits + 1 \in S
  BY <1>3, <1>4, Zenon
<1>6. QED
  BY <1>4, <1>5

\* What read_varint returns is an error, or a number and an offset behind the
\* bytes that it has read.
LEMMA ReadType ==
    ASSUME NEW d \in Seq(Byte), NEW o \in Nat
    PROVE  \/ Failed(ReadVarint(d, o))
           \/ /\ ReadVarint(d, o).value \in Nat
              /\ ReadVarint(d, o).offset \in o + 1 .. Len(d)
<1> DEFINE Good(i) == \/ Failed(Turns(d, o)[i])
                      \/ Turns(d, o)[i] \in [value : Nat, offset : o + 1 .. Len(d)]
           G == {i \in 0 .. WordBits : Good(i)}
<1>1. \A r : r \in [value : Nat, offset : o + 1 .. Len(d)] => ~ Failed(r)
  BY DEF Failed
<1>2. ASSUME NEW i \in 0 .. WordBits, i + 1 \in 0 .. WordBits => Good(i + 1)
      PROVE  Good(i)
  <2>1. CASE o + i >= Len(d)
    BY <2>1, Turn
  <2>2. CASE o + i < Len(d)
    <3> DEFINE byte == d[(o + i) + 1]
               more == Shifted(byte, GroupBits * i)
    <3>1. byte \in Byte /\ (byte < Group \/ byte >= Group)
      BY <2>2, ByteAt
    <3>2. more \in Nat
      <4>0. byte \in Nat
        BY <3>1, Sizes DEF Byte
      <4>1. byte % Group \in Nat
        BY <4>0, Groups
      <4>2. 2 ^ (GroupBits * i) \in Nat
        BY LastTurn, SubsetsOfInterval
      <4>3. (byte % Group) * 2 ^ (GroupBits * i) \in Nat
        BY <4>1, <4>2
      <4>4. \A m, w \in Nat : w > 0 => m % w \in Nat
        OBVIOUS
      <4>5. QED
        BY <4>3, <4>4, Sizes DEF Shifted
    <3>3. o + i + 1 \in o + 1 .. Len(d)
      BY <2>2, Sizes
    <3>4. CASE byte < Group
      <4>1. Turns(d, o)[i] = [value |-> more, offset |-> o + i + 1]
        BY <2>2, <3>4, Turn
      <4>2. QED
        BY <3>2, <3>3, <4>1
    <3>5. CASE byte >= Group /\ ~ Failed(Turns(d, o)[i])
      <4> DEFINE rest == Turns(d, o)[i + 1]
      <4>1. /\ i + 1 \in 0 .. WordBits
            /\ Turns(d, o)[i]
                  = IF Failed(rest) THEN rest ELSE [rest EXCEPT !.value = @ + more]
        BY <2>2, <3>5, Turn, Zenon
      <4>2. rest \in [value : Nat, offset : o + 1 .. Len(d)] /\ ~ Failed(rest)
        BY <1>2, <3>5, <4>1, Zenon
      <4>3. Turns(d, o)[i] = [rest EXCEPT !.value = @ + more]
        BY <4>1, <4>2, Zenon
      <4> HIDE DEF rest, more
      <4>4. QED
        BY <3>2, <4>2, <4>3
    <3>6. QED
      BY <3>1, <3>4, <3>5
  <2>3. QED
    BY <2>1, <2>2, Sizes
<1>3. 0 \in G
  <2> HIDE DEF Good
  <2>1. \A i \in 0 .. WordBits : (i + 1 \in 0 .. WordBits => i + 1 \in G) => i \in G
    BY <1>2
  <2>2. G \in SUBSET (0 .. WordBits)
    OBVIOUS
  <2> HIDE DEF G
  <2>3. QED
    BY <2>1, <2>2, FirstTurn
<1>4. QED
  BY <1>3, ReadByTurns

\* A number that is cut off within its bytes is refused.
LEMMA CutOffIsRefused ==
    ASSUME NEW d \in Seq(Byte), NEW o \in Nat,
           \A j \in o + 1 .. Len(d) : d[j] >= Group
    PROVE  Failed(ReadVarint(d, o))
<1> DEFINE Good(i) == Failed(Turns(d, o)[i])
           G == {i \in 0 .. WordBits : Good(i)}
<1>1. ASSUME NEW i \in 0 .. WordBits, i + 1 \in 0 .. WordBits => Good(i + 1)
      PROVE  Good(i)
  <2>1. CASE o + i >= Len(d)
    BY <2>1, Turn
  <2>2. CASE o + i < Len(d)
    <3>1. d[(o + i) + 1] >= Group
      BY <2>2, Sizes
    <3>2. \/ Good(i)
          \/ /\ i + 1 \in 0 .. WordBits
             /\ LET rest == Turns(d, o)[i + 1] IN
                Turns(d, o)[i] = IF Failed(rest) THEN rest
                                 ELSE [rest EXCEPT !.value =
                                          @ + Shifted(d[(o + i) + 1], GroupBits * i)]
      BY <2>2, <3>1, Turn, Zenon
    <3>3. QED
      BY <1>1, <3>2, Zenon
  <2>3. QED
    BY <2>1, <2>2, Sizes
<1>2. 0 \in G
  <2> HIDE DEF Good
  <2>1. \A i \in 0 .. WordBits : (i + 1 \in 0 .. WordBits => i + 1 \in G) => i \in G
    BY <1>1
  <2>2. G \in SUBSET (0 .. WordBits)
    OBVIOUS
  <2> HIDE DEF G
  <2>3. QED
    BY <2>1, <2>2, FirstTurn
<1>3. QED
  BY <1>2, ReadByTurns

\* The bits that a byte adds to a number.
LEMMA Remainders ==
    ASSUME NEW g \in Nat, g >= 2, NEW r \in Nat, r < g
    PROVE  r % g = r /\ (r + g) % g = r
<1>1. PICK q \in Nat, m \in Nat : /\ q = (r + g) \div g /\ m = (r + g) % g
                                  /\ r + g = g * q + m /\ m < g
  BY Division, r + g \in Nat
<1>2. q # 0
  BY <1>1
<1>3. ~ (q >= 2)
  <2>1. \A k \in Nat : k >= 2 => g * k >= 2 * g
    <3>1. ASSUME NEW k \in Nat, k >= 2 PROVE g * k >= 2 * g
      <4>1. PICK j \in Nat : k = j + 2
        BY <3>1, k - 2 \in Nat /\ k = (k - 2) + 2
      <4>2. g * k = g * j + 2 * g /\ g * j >= 0
        BY <4>1
      <4>3. QED
        BY <4>2
    <3>2. QED
      BY <3>1
  <2>2. PICK p \in Nat : p = g * q
    OBVIOUS
  <2>3. QED
    BY <1>1, <2>1, <2>2
<1>4. q = 1
  BY <1>2, <1>3
<1>5. r = m
  BY <1>1, <1>4
<1>6. QED
  BY <1>1, <1>5, Division

\* A number that fits the word after a shift: so does what is left without its
\* first group, after one more.
LEMMA NextGroup ==
    ASSUME NEW v \in Nat, NEW i \in 0 .. WordBits, v * 2 ^ (GroupBits * i) < Word,
           v >= Group
    PROVE  /\ GroupBits * i + GroupBits < WordBits
           /\ (v \div Group) * 2 ^ (GroupBits * (i + 1)) < Word
           /\ (v \div Group) * 2 ^ (GroupBits * (i + 1))
                 + (v % Group) * 2 ^ (GroupBits * i) = v * 2 ^ (GroupBits * i)
           /\ (v % Group) * 2 ^ (GroupBits * i) < Word
<1>1. PICK p \in Nat \ {0} : p = 2 ^ (GroupBits * i)
  BY LastTurn, PowerIsPositive
<1>2. PICK q \in Nat, r \in Nat : /\ q = v \div Group /\ r = v % Group
                                  /\ v = Group * q + r
  BY Groups
<1>3. GroupBits * (i + 1) = GroupBits * i + GroupBits /\ GroupBits * i \in Nat
  BY LastTurn, Sizes
<1>4. 2 ^ (GroupBits * (i + 1)) = p * Group
  BY <1>1, <1>3, PowerOfSum, Sizes DEF Group
<1>5. GroupBits * i + GroupBits < WordBits
  <2>1. SUFFICES ASSUME GroupBits * i + GroupBits >= WordBits PROVE FALSE
    BY <1>3, Sizes
  <2>2. Word <= p * Group
    BY <1>3, <1>4, <2>1, PowerGrows, Sizes DEF Word
  <2>3. \A g, u \in Nat : u >= g => p * g <= u * p
    <3>1. ASSUME NEW g \in Nat, NEW u \in Nat, u >= g PROVE p * g <= u * p
      <4>1. PICK k \in Nat : u = g + k
        BY <3>1, u - g \in Nat /\ u = g + (u - g)
      <4>2. u * p = p * g + k * p /\ k * p >= 0
        BY <4>1
      <4>3. p * g \in Nat /\ k * p \in Nat
        OBVIOUS
      <4>4. QED
        BY <4>2, <4>3
    <3>2. QED
      BY <3>1
  <2>4. p * Group <= v * p
    BY <2>3, Sizes
  <2>5. v * p < Word /\ v * p \in Nat /\ p * Group \in Nat
    BY <1>1, Sizes
  <2>6. QED
    BY <2>2, <2>4, <2>5, Sizes
<1>6. q * (p * Group) + r * p = v * p
  BY <1>2, Sizes
<1>7. q * (p * Group) \in Nat /\ r * p \in Nat
  BY Sizes
<1>8. v * p < Word
  BY <1>1
<1>9. q * (p * Group) < Word /\ r * p < Word
  BY <1>6, <1>7, <1>8, Sizes
<1>10. QED
  BY <1>1, <1>2, <1>4, <1>5, <1>6, <1>9

\* The bytes of a number in a buffer, after so many others.
Holds(d, at, v) ==
    /\ at + Len(Written[v]) <= Len(d)
    /\ \A j \in 1 .. Len(Written[v]) : d[at + j] = Written[v][j]

LEMMA TurnsReadBack ==
    ASSUME NEW d \in Seq(Byte), NEW o \in Nat
    PROVE  \A v \in 0 .. Word - 1, i \in 0 .. WordBits :
              Holds(d, o + i, v) /\ v * 2 ^ (GroupBits * i) < Word =>
                 Turns(d, o)[i] = [value |-> v * 2 ^ (GroupBits * i),
                                   offset |-> o + i + Len(Written[v])]
<1> DEFINE Good(v, i) ==
              Holds(d, o + i, v) /\ v * 2 ^ (GroupBits * i) < Word =>
                 Turns(d, o)[i] = [value |-> v * 2 ^ (GroupBits * i),
                                   offset |-> o + i + Len(Written[v])]
           S == {n \in Nat : \A v \in 0 .. Word - 1, i \in 0 .. WordBits :
                                v < n => Good(v, i)}
<1>1. ASSUME NEW v \in 0 .. Word - 1, NEW i \in 0 .. WordBits,
             v >= Group /\ i + 1 \in 0 .. WordBits => Good(v \div Group, i + 1)
      PROVE  Good(v, i)
  <2>1. SUFFICES ASSUME Holds(d, o + i, v), v * 2 ^ (GroupBits * i) < Word
                 PROVE  Turns(d, o)[i] = [value |-> v * 2 ^ (GroupBits * i),
                                          offset |-> o + i + Len(Written[v])]
    OBVIOUS
  <2>2. /\ v \in Nat /\ i \in Nat /\ o + i \in Nat /\ Len(d) \in Nat
        /\ Len(Written[v]) \in Nat \ {0}
    BY Sizes, WrittenBytes
  <2>3. o + i < Len(d) /\ d[(o + i) + 1] = Written[v][1]
    <3>1. 1 \in 1 .. Len(Written[v])
      BY <2>2
    <3>2. o + i + Len(Written[v]) <= Len(d)
      BY <2>1 DEF Holds
    <3>3. o + i < Len(d)
      <4>1. \A a, b \in Nat, n \in Nat \ {0} : a + n <= b => a < b
        OBVIOUS
      <4>2. QED
        BY <2>2, <3>2, <4>1
    <3>4. QED
      BY <2>1, <3>1, <3>3, Zenon DEF Holds
  <2>4. PICK p \in Nat : p = 2 ^ (GroupBits * i)
    BY LastTurn, SubsetsOfInterval
  <2>5. \A m \in Nat : m < Word => m % Word = m
    BY Sizes, Division
  <2>6. CASE v < Group
    <3>1. Written[v] = <<v>> /\ Len(<<v>>) = 1 /\ <<v>>[1] = v
      BY <2>6, WrittenBytes
    <3>2. Turns(d, o)[i] = [value |-> Shifted(v, GroupBits * i), offset |-> o + i + 1]
      <4>1. d[(o + i) + 1] = v
        BY <2>3, <3>1
      <4>2. d[(o + i) + 1] < Group
        BY <2>6, <4>1
      <4>3. QED
        BY <2>3, <4>1, <4>2, Turn
    <3>3. v % Group = v
      BY <2>2, <2>6, Groups
    <3>4. v * p \in Nat /\ v * p < Word
      BY <2>1, <2>2, <2>4
    <3>5. Shifted(v, GroupBits * i) = v * p
      BY <2>4, <2>5, <3>3, <3>4 DEF Shifted
    <3>6. QED
      BY <2>4, <3>1, <3>2, <3>5
  <2>7. CASE v >= Group
    <3>1. PICK q \in 0 .. Word - 1 : q = v \div Group
      BY <2>7, OneGroupLess
    <3>2. PICK r \in Nat : r = v % Group /\ r < Group
      BY <2>2, Groups
    <3>3. /\ Len(Written[v]) = 1 + Len(Written[q]) /\ Len(Written[q]) \in Nat \ {0}
          /\ Written[v][1] = r + Group
          /\ \A j \in 1 .. Len(Written[q]) : Written[v][j + 1] = Written[q][j]
      BY <2>7, <3>1, <3>2, WrittenBytes
    <3>4. /\ GroupBits * i + GroupBits < WordBits
          /\ q * 2 ^ (GroupBits * (i + 1)) < Word
          /\ q * 2 ^ (GroupBits * (i + 1)) + r * p = v * p
          /\ r * p < Word
      BY <2>1, <2>2, <2>4, <2>7, <3>1, <3>2, NextGroup
    <3>5. i + 1 \in 0 .. WordBits
      BY <3>4, LastTurn
    <3>6. Holds(d, o + (i + 1), q)
      <4>1. \A j \in 1 .. Len(Written[q]) :
               j + 1 \in 1 .. Len(Written[v]) /\ (o + i) + (j + 1) = (o + (i + 1)) + j
        <5>1. SUFFICES ASSUME NEW j \in 1 .. Len(Written[q])
                       PROVE  /\ j + 1 \in 1 .. Len(Written[v])
                              /\ (o + i) + (j + 1) = (o + (i + 1)) + j
          OBVIOUS
        <5>2. j \in Nat /\ (o + i) + (j + 1) = (o + (i + 1)) + j
          BY <2>2
        <5>3. j + 1 \in 1 .. Len(Written[v])
          BY <3>3, <5>2
        <5>4. QED
          BY <5>2, <5>3
      <4>2. \A j \in 1 .. Len(Written[q]) : d[(o + (i + 1)) + j] = Written[q][j]
        <5>1. SUFFICES ASSUME NEW j \in 1 .. Len(Written[q])
                       PROVE  d[(o + (i + 1)) + j] = Written[q][j]
          OBVIOUS
        <5>2. d[(o + i) + (j + 1)] = Written[v][j + 1]
          BY <2>1, <4>1 DEF Holds
        <5>3. QED
          BY <3>3, <4>1, <5>2
      <4>3. o + i + Len(Written[v]) <= Len(d)
        BY <2>1 DEF Holds
      <4>4. \A m \in Nat : (o + i) + (1 + m) = (o + (i + 1)) + m
        BY <2>2
      <4>5. (o + (i + 1)) + Len(Written[q]) <= Len(d)
        BY <3>3, <4>3, <4>4
      <4>6. QED
        BY <4>2, <4>5 DEF Holds
    <3>7. Turns(d, o)[i + 1] = [value |-> q * 2 ^ (GroupBits * (i + 1)),
                                offset |-> o + (i + 1) + Len(Written[q])]
      BY <1>1, <2>7, <3>1, <3>4, <3>5, <3>6
    <3>8. ~ Failed(Turns(d, o)[i + 1])
      BY <3>7 DEF Failed
    <3>9. Shifted(r + Group, GroupBits * i) = r * p
      <4>1. (r + Group) % Group = r
        BY <3>2, Remainders, Sizes
      <4>2. r * p \in Nat
        OBVIOUS
      <4>3. QED
        BY <2>4, <2>5, <3>4, <4>1, <4>2 DEF Shifted
    <3>10. Turns(d, o)[i] = [Turns(d, o)[i + 1] EXCEPT !.value = @ + r * p]
      <4>1. d[(o + i) + 1] = r + Group /\ d[(o + i) + 1] >= Group
        BY <2>3, <3>2, <3>3, Sizes
      <4>2. ~ (GroupBits * i + GroupBits >= WordBits)
        BY <3>4, LastTurn, Sizes
      <4>3. Turns(d, o)[i] = [Turns(d, o)[i + 1] EXCEPT !.value =
                                @ + Shifted(d[(o + i) + 1], GroupBits * i)]
        <5>1. /\ o + i < Len(d) /\ d[(o + i) + 1] >= Group
              /\ ~ (GroupBits * i + GroupBits >= WordBits)
              /\ ~ Failed(Turns(d, o)[i + 1])
          BY <2>3, <3>8, <4>1, <4>2
        <5> DEFINE this == Turns(d, o)[i]
                   byte == d[(o + i) + 1]
                   rest == Turns(d, o)[i + 1]
                   Follows == this = IF Failed(rest) THEN rest
                                   ELSE [rest EXCEPT !.value = @ + Shifted(byte, GroupBits * i)]
        <5>2. o + i < Len(d) /\ byte >= Group =>
                 \/ GroupBits * i + GroupBits >= WordBits /\ Failed(this)
                 \/ GroupBits * i + GroupBits < WordBits /\ i + 1 \in 0 .. WordBits /\ Follows
          BY Turn, Zenon
        <5>3. Follows
          <6> HIDE DEF Follows
          <6>1. QED
            BY <5>1, <5>2
        <5>4. QED
          BY <5>1, <5>3, Zenon
      <4>4. QED
        BY <3>9, <4>1, <4>3
    <3>11. Turns(d, o)[i] = [value |-> q * 2 ^ (GroupBits * (i + 1)) + r * p,
                             offset |-> o + (i + 1) + Len(Written[q])]
      BY <3>7, <3>10
    <3>12. o + (i + 1) + Len(Written[q]) = o + i + Len(Written[v])
      <4>1. \A m \in Nat : o + (i + 1) + m = o + i + (1 + m)
        BY <2>2
      <4>2. QED
        BY <3>3, <4>1
    <3>13. QED
      BY <2>4, <3>4, <3>11, <3>12
  <2>8. QED
    BY <2>2, <2>6, <2>7, Sizes
<1>2. 0 \in S
  <2> HIDE DEF Good
  <2>1. QED
    BY Sizes
<1>3. ASSUME NEW n \in S PROVE n + 1 \in S
  <2> HIDE DEF Good
  <2>1. ASSUME NEW v \in 0 .. Word - 1, NEW i \in 0 .. WordBits, v < n + 1
        PROVE  Good(v, i)
    <3>1. v >= Group => v \div Group \in 0 .. Word - 1 /\ v \div Group < v
      BY OneGroupLess
    <3>2. \A u \in 0 .. Word - 1 : u < v => u < n
      BY <2>1, Sizes
    <3>3. v >= Group /\ i + 1 \in 0 .. WordBits => Good(v \div Group, i + 1)
      BY <3>1, <3>2
    <3>4. QED
      BY <1>1, <3>3
  <2>2. QED
    BY <2>1
<1>4. S = Nat
  <2> HIDE DEF S
  <2>1. S \in SUBSET Nat
    BY DEF S
  <2>2. QED
    BY <1>2, <1>3, <2>1, Induct
<1>5. ASSUME NEW v \in 0 .. Word - 1, NEW i \in 0 .. WordBits PROVE Good(v, i)
  <2>1. v < Word /\ Word \in Nat
    BY Sizes
  <2> HIDE DEF Good
  <2>2. QED
    BY <1>4, <2>1
<1>6. QED
  BY <1>5

\* read_varint undoes write_varint, for every number and any width of words
\* and groups: it returns the number and stands behind its last byte.
THEOREM NumbersAreReadBack ==
    ASSUME NEW d \in Seq(Byte), NEW o \in Nat, NEW v \in 0 .. Word - 1, Holds(d, o, v)
    PROVE  ReadVarint(d, o) = [value |-> v, offset |-> o + Len(Written[v])]
<1>1. GroupBits * 0 = 0 /\ v * 1 = v /\ o + 0 = o /\ v < Word
      /\ 0 \in 0 .. WordBits
  BY Sizes
<1>2. v * 2 ^ (GroupBits * 0) = v
  BY <1>1, PowerOfZero
<1>3. Turns(d, o)[0] = [value |-> v * 2 ^ (GroupBits * 0),
                        offset |-> o + 0 + Len(Written[v])]
  BY <1>1, <1>2, TurnsReadBack
<1>4. QED
  BY <1>1, <1>2, <1>3, ReadByTurns

-----------------------------------------------------------------------------
(* Packets *)

Packet == RightPacket \cup OddPacket

\* s is what stands in whole after k bytes.
Piece(s, whole, k) ==
    /\ k + Len(s) <= Len(whole)
    /\ \A i \in 1 .. Len(s) : s[i] = whole[k + i]

\* Every variable has its type; nothing is consumed of a packet that has not
\* been read.
TypeInv ==
    /\ packet \in Packet \cup {NoPacket}
    /\ cut \in Seq(Byte) /\ stream \in Seq(Byte) /\ data \in Seq(Byte)
    /\ TypeOK
    /\ pc = "length" => Len(cut) < MaxLength
    /\ pc = "data" => length <= MaxPacket
    /\ pc \in {"length", "cut", "data"} => data = <<>>
    /\ pc \in {"length", "cut", "data", "id"} => offset = 0

\* While the length is cut out, every byte of it so far announces another.
CutInv ==
    /\ pc = "length" =>
          /\ Piece(cut, Sent(packet), 0)
          /\ \A i \in 1 .. Len(cut) : cut[i] >= Group
    /\ pc \in {"length", "cut", "data"} => Piece(stream, Sent(packet), Len(cut))
    /\ pc \in {"cut", "data"} => cut = Written[packet.length]

\* What has been read of the packet starts where its body starts.
BodyInv ==
    /\ pc \in {"data", "id"} => length = AsSize(packet.length)
    /\ pc = "id" => Len(data) = length
    /\ pc \in {"id", "text length", "text"} => Piece(data, Body(packet), 0)
    /\ pc = "text length" => offset = 1 /\ data # <<>>
    /\ pc = "text" =>
          /\ length = AsSize(packet.textLength)
          /\ offset = 1 + Len(Written[packet.textLength])

\* A packet with the right lengths is not refused once it is read.
RightInv ==
    /\ pc \in {"text length", "text"} => Len(data) = Len(Body(packet))
    /\ pc # "panicked"
    /\ pc = "failed" => ~ Whole

ReadingInv ==
    /\ TypeInv
    /\ packet # NoPacket => CutInv /\ BodyInv /\ TextIsTheServers
    /\ Expected => RightInv
    /\ PanicsAreKnown

-----------------------------------------------------------------------------
(* Sizes of packets and of their parts *)

USize == 2 ^ SizeBits

LEMMA Widths ==
    /\ USize \in Nat /\ Word <= USize
    /\ Word \div 2 \in Nat /\ 2 * (Word \div 2) = Word
    /\ MaxPacket \in Nat /\ MaxPacket < Word \div 2
    /\ MaxLength \in Nat \ {0} /\ MaxText \in Nat
    /\ 1 + MaxLength + MaxText <= MaxPacket
<1>1. SizeBits \in Nat /\ WordBits \in Nat /\ WordBits <= SizeBits
  BY StatusAssumption, Sizes
<1>2. USize \in Nat /\ Word <= USize
  BY <1>1, PowerGrows, PowerIsPositive DEF Word, USize
<1>3. PICK h \in Nat : Word = 2 * h
  <2>1. WordBits - 1 \in Nat /\ (WordBits - 1) + 1 = WordBits
    BY Sizes
  <2>2. 2 ^ ((WordBits - 1) + 1) = 2 * 2 ^ (WordBits - 1) /\ 2 ^ (WordBits - 1) \in Nat
    BY <2>1, PowerOfNext, PowerIsPositive
  <2>3. QED
    BY <2>1, <2>2 DEF Word
<1>4. Word \div 2 = h
  BY <1>3
<1>5. MaxLength # 0
  <2>1. GroupBits * 0 = 0
    BY Sizes
  <2>2. QED
    BY <2>1, Sizes, StatusAssumption
<1>6. QED
  BY <1>2, <1>3, <1>4, <1>5, StatusAssumption

\* A remainder is one of a kind.
LEMMA RemainderOf ==
    ASSUME NEW g \in Nat \ {0}, NEW x \in Int
    PROVE  /\ x % g \in 0 .. g - 1
           /\ x \in 0 .. g - 1 => x % g = x
           /\ x \in g .. 2 * g - 1 => x % g = x - g
           /\ x \in (- g) .. -1 => x % g = x + g
<1>1. x % g \in 0 .. g - 1
  OBVIOUS
<1>2. x \in 0 .. g - 1 => x % g = x
  OBVIOUS
<1>3. x \in g .. 2 * g - 1 => x % g = x - g
  OBVIOUS
<1>4. x \in (- g) .. -1 => x % g = x + g
  OBVIOUS
<1>5. QED
  BY <1>1, <1>2, <1>3, <1>4

\* A length of the lower half of the words is itself as a usize; a negative
\* one is larger than any packet.
LEMMA LengthsAsSizes ==
    /\ \A n \in Nat : AsSize(n) \in 0 .. USize - 1
    /\ \A v \in 0 .. Word - 1 :
          /\ v < Word \div 2 => AsSize(v) = v /\ Signed(v) = v
          /\ v >= Word \div 2 => AsSize(v) > MaxPacket
<1>1. USize \in Nat \ {0}
  BY Widths, Sizes
<1>2. ASSUME NEW n \in Nat PROVE AsSize(n) \in 0 .. USize - 1
  <2>1. Signed(n) \in Int
    BY Widths, Sizes DEF Signed
  <2>2. QED
    BY <1>1, <2>1, RemainderOf DEF AsSize, USize
<1>3. ASSUME NEW v \in 0 .. Word - 1
      PROVE  /\ v < Word \div 2 => AsSize(v) = v /\ Signed(v) = v
             /\ v >= Word \div 2 => AsSize(v) > MaxPacket
  <2>1. CASE v < Word \div 2
    <3>1. Signed(v) = v /\ v \in 0 .. USize - 1
      BY <2>1, Widths, Sizes DEF Signed
    <3>2. v % USize = v
      <4>1. ASSUME NEW g \in Nat \ {0}, NEW u \in 0 .. g - 1 PROVE u % g = u
        OBVIOUS
      <4>2. QED
        BY <1>1, <3>1, <4>1
    <3>3. QED
      BY <2>1, <3>1, <3>2, Widths DEF AsSize, USize
  <2>2. CASE v >= Word \div 2
    <3>1. Signed(v) = v - Word /\ v - Word \in (- USize) .. -1
      BY <2>2, Widths, Sizes DEF Signed
    <3>2. Signed(v) % USize = v - Word + USize
      BY <1>1, <3>1, RemainderOf
    <3>3. AsSize(v) = v - Word + USize
      BY <3>2 DEF AsSize, USize
    <3>4. QED
      BY <2>2, <3>3, Widths, Sizes
  <2>3. QED
    BY <2>1, <2>2, Widths, Sizes
<1>4. QED
  BY <1>2, <1>3

LEMMA WrittenFits ==
    ASSUME NEW v \in 0 .. Word - 1
    PROVE  Len(Written[v]) <= MaxLength
<1>1. GroupBits * MaxLength \in Nat /\ WordBits <= GroupBits * MaxLength
  BY Widths, Sizes, StatusAssumption
<1>2. Word <= 2 ^ (GroupBits * MaxLength)
  BY <1>1, Sizes, PowerGrows DEF Word
<1>3. 2 ^ (GroupBits * MaxLength) \in Nat
  BY <1>1, PowerIsPositive
<1>4. v < 2 ^ (GroupBits * MaxLength)
  BY <1>2, <1>3, Sizes
<1>5. QED
  BY <1>4, Widths, WrittenLength

-----------------------------------------------------------------------------
(* Packets and what arrives of them *)

Known(p) ==
    /\ p.id \in {0, 1}
    /\ p.letters \in 0 .. MaxText
    /\ p.textLength \in 0 .. Word - 1

LEMMA LettersAre ==
    ASSUME NEW n \in 0 .. MaxText
    PROVE  /\ Letters(n) \in Seq(Byte) /\ Len(Letters(n)) = n
           /\ \A i \in 1 .. n : Letters(n)[i] = i % Group
<1>1. n \in Nat /\ \A i \in 1 .. n : i % Group \in Byte
  <2>1. ASSUME NEW i \in Nat PROVE i % Group \in Byte
    <3>1. i % Group \in Nat /\ i % Group < Group
      BY Groups
    <3>2. QED
      BY <3>1, Sizes DEF Byte
  <2>2. QED
    BY <2>1, Widths
<1>2. QED
  BY <1>1 DEF Letters

LEMMA Joined ==
    ASSUME NEW w \in Seq(Byte), NEW b \in Seq(Byte)
    PROVE  /\ w \o b \in Seq(Byte) /\ Len(w \o b) = Len(w) + Len(b)
           /\ \A j \in 1 .. Len(w) : (w \o b)[j] = w[j]
           /\ \A j \in 1 .. Len(b) : (w \o b)[Len(w) + j] = b[j]
<1>1. Len(w) \in Nat /\ Len(b) \in Nat
  OBVIOUS
<1>2. /\ \A j \in 1 .. Len(w) : j \in 1 .. Len(w) + Len(b) /\ j <= Len(w)
      /\ \A j \in 1 .. Len(b) : /\ Len(w) + j \in 1 .. Len(w) + Len(b)
                                /\ ~ (Len(w) + j <= Len(w)) /\ (Len(w) + j) - Len(w) = j
  BY <1>1
<1>3. QED
  BY <1>2, ConcatProperties

\* A body: its id, the length of its text, its text.
LEMMA BodyParts ==
    ASSUME NEW p, Known(p)
    PROVE  LET head == Len(Written[p.textLength]) IN
           /\ head \in 1 .. MaxLength
           /\ Body(p) \in Seq(Byte)
           /\ Len(Body(p)) = 1 + head + p.letters
           /\ Len(Body(p)) \in 1 .. MaxPacket
           /\ Body(p)[1] = p.id
           /\ \A j \in 1 .. head : Body(p)[1 + j] = Written[p.textLength][j]
           /\ \A j \in 1 .. p.letters : Body(p)[1 + head + j] = j % Group
<1> DEFINE w == Written[p.textLength]
           l == Letters(p.letters)
           first == <<p.id>>
<1>1. /\ w \in Seq(Byte) /\ Len(w) \in 1 .. MaxLength
      /\ l \in Seq(Byte) /\ Len(l) = p.letters
      /\ \A j \in 1 .. p.letters : l[j] = j % Group
  BY WrittenBytes, WrittenFits, LettersAre DEF Known
<1>2. first \in Seq(Byte) /\ Len(first) = 1 /\ first[1] = p.id
  BY Sizes DEF Byte, Known
<1>3. Body(p) = first \o w \o l
  BY DEF Body
<1>4. p.letters \in Nat /\ p.letters <= MaxText
  BY Widths DEF Known
<1> HIDE DEF w, l, first
<1>5. /\ first \o w \in Seq(Byte) /\ Len(first \o w) = 1 + Len(w)
      /\ (first \o w)[1] = p.id
      /\ \A j \in 1 .. Len(w) : (first \o w)[1 + j] = w[j]
  <2>1. /\ first \o w \in Seq(Byte) /\ Len(first \o w) = Len(first) + Len(w)
        /\ \A j \in 1 .. Len(first) : (first \o w)[j] = first[j]
        /\ \A j \in 1 .. Len(w) : (first \o w)[Len(first) + j] = w[j]
    BY <1>1, <1>2, Joined
  <2>2. QED
    BY <1>2, <2>1
<1>6. /\ Body(p) \in Seq(Byte) /\ Len(Body(p)) = 1 + Len(w) + p.letters
      /\ Body(p)[1] = p.id
      /\ \A j \in 1 .. Len(w) : Body(p)[1 + j] = w[j]
      /\ \A j \in 1 .. p.letters : Body(p)[1 + Len(w) + j] = j % Group
  <2> DEFINE a == first \o w
  <2>1. /\ a \in Seq(Byte) /\ Len(a) = 1 + Len(w) /\ a[1] = p.id
        /\ \A j \in 1 .. Len(w) : a[1 + j] = w[j]
    BY <1>5
  <2>2. Body(p) = a \o l
    BY <1>3
  <2> HIDE DEF a
  <2>3. /\ Body(p) \in Seq(Byte) /\ Len(Body(p)) = 1 + Len(w) + p.letters
        /\ \A j \in 1 .. 1 + Len(w) : Body(p)[j] = a[j]
        /\ \A j \in 1 .. p.letters : Body(p)[1 + Len(w) + j] = l[j]
    <3>1. /\ a \o l \in Seq(Byte) /\ Len(a \o l) = Len(a) + Len(l)
          /\ \A j \in 1 .. Len(a) : (a \o l)[j] = a[j]
          /\ \A j \in 1 .. Len(l) : (a \o l)[Len(a) + j] = l[j]
      BY <1>1, <2>1, Joined
    <3>2. QED
      BY <1>1, <2>1, <2>2, <3>1
  <2>4. 1 \in 1 .. 1 + Len(w) /\ \A j \in 1 .. Len(w) : 1 + j \in 1 .. 1 + Len(w)
    BY <1>1
  <2>5. QED
    BY <1>1, <2>1, <2>3, <2>4
<1>7. Len(Body(p)) \in 1 .. MaxPacket
  BY <1>1, <1>4, <1>6, Widths
<1>8. QED
  BY <1>1, <1>6, <1>7 DEF w

LEMMA PacketsAreKnown ==
    /\ \A p \in Packet : Known(p) /\ p.length \in 0 .. Word - 1
    /\ \A p \in RightPacket :
          p.textLength = p.letters /\ p.length = Len(Body(p))
    /\ NoPacket \notin Packet
<1>1. ASSUME NEW p \in RightPacket
      PROVE  /\ Known(p) /\ p.textLength = p.letters
             /\ p.length = Len(Body(p)) /\ p.length \in 0 .. Word - 1
             /\ p = [id |-> p.id, letters |-> p.letters,
                     textLength |-> p.textLength, length |-> p.length]
  <2>1. PICK id \in {0, 1}, n \in 0 .. MaxText : p = Right(id, n)
    BY DEF RightPacket
  <2> DEFINE q == [id |-> id, letters |-> n, textLength |-> n, length |-> 0]
  <2>2. p = [id |-> id, letters |-> n, textLength |-> n, length |-> Len(Body(q))]
    BY <2>1 DEF Right, Measured
  <2>3. Body(q) = Body(p)
    BY <2>2 DEF Body
  <2>4. Known(p)
    BY <2>2, Widths, Sizes DEF Known
  <2>5. Len(Body(p)) \in 1 .. MaxPacket
    BY <2>4, BodyParts
  <2>6. QED
    BY <2>2, <2>3, <2>4, <2>5, Widths, Sizes
<1>2. ASSUME NEW o \in OddPacket
      PROVE  /\ Known(o) /\ o.length \in 0 .. Word - 1
             /\ o = [id |-> o.id, letters |-> o.letters,
                     textLength |-> o.textLength, length |-> o.length]
  <2>1. PICK p \in RightPacket, l \in 0 .. Word - 1 :
           o = WithLength(p, l) \/ o = WithTextLength(p, l)
    BY DEF OddPacket
  <2>2. /\ Known(p)
        /\ p = [id |-> p.id, letters |-> p.letters,
                textLength |-> p.textLength, length |-> p.length]
    BY <1>1
  <2>3. CASE o = WithLength(p, l)
    BY <2>2, <2>3 DEF Known, WithLength
  <2>4. CASE o = WithTextLength(p, l)
    <3> DEFINE q == [p EXCEPT !.textLength = l]
               n == Len(Body(q))
    <3>1. Known(q)
      BY <2>2 DEF Known
    <3>2. n \in 0 .. Word - 1
      <4>1. n \in 1 .. MaxPacket
        BY <3>1, BodyParts
      <4> HIDE DEF n
      <4>2. QED
        BY <4>1, Widths, Sizes
    <3> HIDE DEF n
    <3>3. o = [q EXCEPT !.length = n]
      BY <2>4 DEF n, Measured, WithTextLength
    <3>4. QED
      BY <2>2, <3>2, <3>3 DEF Known
  <2>5. QED
    BY <2>1, <2>3, <2>4
<1>3. ASSUME NEW p \in Packet PROVE p # NoPacket
  <2>1. p = [id |-> p.id, letters |-> p.letters,
             textLength |-> p.textLength, length |-> p.length]
    BY <1>1, <1>2 DEF Packet
  <2>2. "id" \in DOMAIN p /\ "id" \notin DOMAIN NoPacket
    BY <2>1 DEF NoPacket
  <2>3. QED
    BY <2>2
<1>4. QED
  BY <1>1, <1>2, <1>3 DEF Packet

\* What is sent: the packet's length, and its body.
LEMMA SentParts ==
    ASSUME NEW p \in Packet
    PROVE  LET head == Len(Written[p.length]) IN
           /\ head \in 1 .. MaxLength
           /\ Sent(p) \in Seq(Byte)
           /\ Len(Sent(p)) = head + Len(Body(p))
           /\ \A j \in 1 .. head : Sent(p)[j] = Written[p.length][j]
           /\ \A j \in 1 .. Len(Body(p)) : Sent(p)[head + j] = Body(p)[j]
<1> DEFINE w == Written[p.length]
           b == Body(p)
<1>1. w \in Seq(Byte) /\ Len(w) \in 1 .. MaxLength
  BY PacketsAreKnown, WrittenBytes, WrittenFits
<1>2. b \in Seq(Byte) /\ Len(b) \in Nat
  BY PacketsAreKnown, BodyParts
<1>3. Sent(p) = w \o b
  BY DEF Sent
<1> HIDE DEF w, b
<1>5. /\ Sent(p) \in Seq(Byte)
      /\ Len(Sent(p)) = Len(w) + Len(b)
      /\ \A j \in 1 .. Len(w) : Sent(p)[j] = w[j]
      /\ \A j \in 1 .. Len(b) : Sent(p)[Len(w) + j] = b[j]
  BY <1>1, <1>2, <1>3, Joined
<1>6. QED
  BY <1>1, <1>5 DEF w, b

LEMMA ArrivingIs ==
    ASSUME NEW p \in Packet \cup {NoPacket}, NEW s \in Arriving(p)
    PROVE  /\ s \in Seq(Byte)
           /\ p # NoPacket => Piece(s, Sent(p), 0)
<1>1. CASE p = NoPacket
  <2>1. PICK m \in 0 .. MaxNoise : s \in [1 .. m -> Noise]
    BY <1>1 DEF Arriving, BoundedSeq, SeqOf
  <2>2. m \in Nat /\ Noise \subseteq Byte
    BY StatusAssumption DEF Byte
  <2>3. QED
    BY <1>1, <2>1, <2>2
<1>2. CASE p # NoPacket
  <2>1. PICK n \in 0 .. Len(Sent(p)) : s = SubSeq(Sent(p), 1, n)
    BY <1>2 DEF Arriving
  <2>2. p \in Packet
    BY <1>2
  <2>3. Sent(p) \in Seq(Byte)
    BY <2>2, SentParts
  <2>4. \A i \in 1 .. n : Sent(p)[i] \in Byte
    BY <2>3
  <2>5. s \in Seq(Byte) /\ Len(s) = n /\ \A i \in 1 .. n : s[i] = Sent(p)[i]
    BY <2>1, <2>3, <2>4
  <2>6. QED
    BY <2>3, <2>5 DEF Piece
<1>3. QED
  BY <1>1, <1>2

-----------------------------------------------------------------------------
(* The initial states and the steps *)

LEMMA TypeInit == Init => TypeInv
<1>1. SUFFICES ASSUME Init PROVE TypeInv
  OBVIOUS
<1>2. packet \in Packet \cup {NoPacket} /\ stream \in Seq(Byte)
  BY <1>1, ArrivingIs DEF Init, Packet
<1>3. << >> \in Seq(Byte) /\ Len(<< >>) = 0
  OBVIOUS
<1>4. QED
  BY <1>1, <1>2, <1>3, Widths, Sizes DEF Init, TypeInv, TypeOK, USize

\* What the types say, in one place.
LEMMA TypeFacts ==
    ASSUME TypeInv
    PROVE  /\ cut \in Seq(Byte) /\ stream \in Seq(Byte) /\ data \in Seq(Byte)
           /\ Len(cut) \in Nat /\ Len(stream) \in Nat /\ Len(data) \in Nat
           /\ Len(data) <= MaxPacket
           /\ length \in 0 .. USize - 1 /\ length \in Nat
           /\ offset \in 0 .. Len(data) /\ offset \in 0 .. USize - 1 /\ offset \in Nat
           /\ packet # NoPacket =>
                 /\ packet \in Packet /\ Known(packet)
                 /\ packet.textLength \in 0 .. Word - 1
                 /\ packet.length \in 0 .. Word - 1
<1>1. cut \in Seq(Byte) /\ stream \in Seq(Byte) /\ data \in Seq(Byte)
  BY DEF TypeInv
<1>2. length \in 0 .. USize - 1
  BY DEF TypeInv, TypeOK, USize
<1>3. offset \in 0 .. Len(data) /\ Len(data) <= MaxPacket
  BY DEF TypeInv, TypeOK
<1>4. packet # NoPacket => packet \in Packet
  BY DEF TypeInv
<1>5. packet # NoPacket =>
         /\ packet \in Packet /\ Known(packet)
         /\ packet.textLength \in 0 .. Word - 1
         /\ packet.length \in 0 .. Word - 1
  BY <1>4, PacketsAreKnown DEF Known
<1>6. Len(cut) \in Nat /\ Len(stream) \in Nat /\ Len(data) \in Nat
  BY <1>1
<1>7. length \in Nat /\ offset \in 0 .. USize - 1 /\ offset \in Nat
  BY <1>2, <1>3, <1>6, Widths, Sizes
<1>8. QED
  BY <1>1, <1>2, <1>3, <1>5, <1>6, <1>7

LEMMA TypeStep == TypeInv /\ Next => TypeInv'
<1>1. SUFFICES ASSUME TypeInv, Next PROVE TypeInv'
  OBVIOUS
<1>2. /\ cut \in Seq(Byte) /\ stream \in Seq(Byte) /\ data \in Seq(Byte)
      /\ Len(cut) \in Nat /\ Len(stream) \in Nat /\ Len(data) \in Nat
      /\ length \in 0 .. USize - 1 /\ offset \in 0 .. Len(data)
      /\ MaxPacket \in 0 .. USize - 1 /\ MaxLength \in Nat \ {0}
  <2>1. MaxPacket \in 0 .. USize - 1 /\ MaxLength \in Nat \ {0}
    BY Widths, Sizes
  <2>2. QED
    BY <1>1, <2>1, TypeFacts
<1>3. ASSUME NEW how \in {"failed", "panicked"}, Ends(how) PROVE TypeInv'
  BY <1>1, <1>3 DEF Ends, TypeInv, TypeOK
<1>4. CASE ReadLengthByte
  <2>1. Head(stream) \in Byte /\ Tail(stream) \in Seq(Byte)
    BY <1>2, <1>4, HeadTailProperties DEF ReadLengthByte
  <2>2. cut' \in Seq(Byte) /\ Len(cut') = Len(cut) + 1
    BY <1>2, <1>4, <2>1, AppendProperties DEF ReadLengthByte
  <2>3. Len(cut) < MaxLength
    BY <1>1, <1>4 DEF ReadLengthByte, TypeInv
  <2>4. Len(cut') <= MaxLength
    BY <1>2, <2>2, <2>3
  <2>5. pc' \in {"length", "cut"} /\ (pc' = "length" => Len(cut') # MaxLength)
    BY <1>4 DEF ReadLengthByte, Complete
  <2>6. stream' \in Seq(Byte) /\ pc = "length"
        /\ UNCHANGED <<packet, length, data, offset, text>>
    BY <1>4, <2>1 DEF ReadLengthByte
  <2>7. pc' = "length" => Len(cut') < MaxLength
    BY <1>2, <2>2, <2>4, <2>5
  <2>8. QED
    BY <1>1, <2>2, <2>4, <2>5, <2>6, <2>7 DEF TypeInv, TypeOK
<1>5. CASE StreamEnds
  BY <1>3, <1>5 DEF StreamEnds
<1>6. CASE ParseLength
  <2> DEFINE number == ReadVarint(cut, 0)
  <2>1. CASE Ends("failed")
    BY <1>3, <2>1
  <2>2. CASE ~ Ends("failed")
    <3>1. /\ length' = AsSize(number.value) /\ ~ (AsSize(number.value) > MaxPacket)
          /\ ~ Failed(number)
          /\ pc = "cut" /\ pc' = "data"
          /\ UNCHANGED <<packet, stream, cut, data, offset, text>>
      BY <1>6, <2>2 DEF ParseLength
    <3>2. number.value \in Nat
      BY <1>2, <3>1, ReadType
    <3>3. length' \in 0 .. USize - 1
      BY <3>1, <3>2, LengthsAsSizes
    <3>4. length' <= MaxPacket
      BY <1>2, <3>1, <3>3, Widths
    <3>5. QED
      BY <1>1, <3>1, <3>3, <3>4 DEF TypeInv, TypeOK, USize
  <2>3. QED
    BY <2>1, <2>2
<1>7. CASE ReadData
  <2>1. length \in Nat /\ length <= MaxPacket /\ length <= Len(stream)
    BY <1>1, <1>2, <1>7 DEF ReadData, TypeInv
  <2>2. /\ \A i \in 1 .. length : stream[i] \in Byte
        /\ \A i \in length + 1 .. Len(stream) : stream[i] \in Byte
    BY <1>2, <2>1
  <2>3. /\ data' \in Seq(Byte) /\ Len(data') = length
    BY <1>2, <1>7, <2>1, <2>2 DEF ReadData
  <2>4. stream' \in Seq(Byte)
    BY <1>2, <1>7, <2>1, <2>2 DEF ReadData
  <2>5. pc = "data" /\ pc' = "id" /\ UNCHANGED <<packet, cut, length, offset, text>>
    BY <1>7 DEF ReadData
  <2>6. offset' = 0 /\ 0 \in 0 .. Len(data')
    BY <1>1, <2>1, <2>3, <2>5 DEF TypeInv
  <2>7. QED
    BY <1>1, <2>1, <2>3, <2>4, <2>5, <2>6 DEF TypeInv, TypeOK
<1>8. CASE ReadId
  <2>1. CASE \E how \in {"failed", "panicked"} : Ends(how)
    BY <1>3, <2>1
  <2>2. CASE ~ \E how \in {"failed", "panicked"} : Ends(how)
    <3>1. /\ data # << >> /\ offset' = 1 /\ pc' = "text length"
          /\ UNCHANGED <<packet, stream, cut, length, data, text>>
      BY <1>8, <2>2 DEF ReadId
    <3>2. 1 \in 0 .. Len(data)
      <4>1. Len(data) \in Nat \ {0}
        BY <1>2, <3>1, EmptySeq
      <4>2. QED
        BY <4>1
    <3>3. QED
      BY <1>1, <3>1, <3>2 DEF TypeInv, TypeOK
  <2>3. QED
    BY <2>1, <2>2
<1>9. CASE ReadTextLength
  <2> DEFINE number == ReadVarint(data, offset)
  <2>1. CASE Ends("failed")
    BY <1>3, <2>1
  <2>2. CASE ~ Ends("failed")
    <3>1. /\ length' = AsSize(number.value) /\ offset' = number.offset
          /\ ~ Failed(number) /\ pc' = "text"
          /\ UNCHANGED <<packet, stream, cut, data, text>>
      BY <1>9, <2>2 DEF ReadTextLength
    <3>2. offset \in Nat
      BY <1>2
    <3>3. number.value \in Nat /\ number.offset \in offset + 1 .. Len(data)
      BY <1>2, <3>1, <3>2, ReadType
    <3>4. length' \in 0 .. USize - 1
      BY <3>1, <3>3, LengthsAsSizes
    <3>5. offset' \in 0 .. Len(data)
      BY <1>2, <3>1, <3>2, <3>3
    <3>6. QED
      BY <1>1, <3>1, <3>4, <3>5 DEF TypeInv, TypeOK, USize
  <2>3. QED
    BY <2>1, <2>2
<1>10. CASE ReadText
  <2>1. CASE \E how \in {"failed", "panicked"} : Ends(how)
    BY <1>3, <2>1
  <2>2. CASE ~ \E how \in {"failed", "panicked"} : Ends(how)
    <3>1. /\ End(offset, length) \in offset .. Len(data)
          /\ offset' = End(offset, length) /\ pc' = "done"
          /\ UNCHANGED <<packet, stream, cut, length, data>>
      BY <1>10, <2>2, Zenon DEF ReadText
    <3>2. offset' \in 0 .. Len(data)
      BY <1>2, <3>1
    <3>3. QED
      BY <1>1, <3>1, <3>2 DEF TypeInv, TypeOK
  <2>3. QED
    BY <2>1, <2>2
<1>11. QED
  BY <1>1, <1>4, <1>5, <1>6, <1>7, <1>8, <1>9, <1>10 DEF Next

\* The loop that cuts the packet's length out of the stream stops at its end.
LEMMA CutOut ==
    ASSUME NEW p \in Packet, NEW c \in Seq(Byte), Piece(c, Sent(p), 0),
           Len(c) \in 1 .. MaxLength, Complete(c[Len(c)], Len(c)),
           \A i \in 1 .. Len(c) - 1 : c[i] >= Group
    PROVE  c = Written[p.length]
<1> DEFINE w == Written[p.length]
<1>1. /\ w \in Seq(Byte) /\ Len(w) \in 1 .. MaxLength /\ p.length \in 0 .. Word - 1
      /\ \A i \in 1 .. Len(w) : w[i] >= Group <=> i < Len(w)
      /\ \A i \in 1 .. Len(w) : Sent(p)[i] = w[i]
  BY PacketsAreKnown, WrittenBytes, SentParts
<1> HIDE DEF w
<1>2. /\ Len(c) \in Nat /\ Len(w) \in Nat /\ MaxLength \in Nat /\ Group \in Nat
      /\ \A i \in 1 .. Len(c) : i \in 1 .. Len(w) => c[i] = w[i]
      /\ \A i \in 1 .. Len(c) : c[i] \in Nat
  BY <1>1, Widths, Sizes DEF Piece, Byte
<1>3. ~ (Len(c) < Len(w))
  <2>1. SUFFICES ASSUME Len(c) < Len(w) PROVE FALSE
    OBVIOUS
  <2>2. Len(c) \in 1 .. Len(c) /\ Len(c) \in 1 .. Len(w)
    BY <1>2, <2>1
  <2>3. c[Len(c)] >= Group
    BY <1>1, <1>2, <2>1, <2>2
  <2>4. Len(c) = MaxLength
    BY <1>2, <2>2, <2>3 DEF Complete
  <2>5. QED
    BY <1>1, <1>2, <2>1, <2>4
<1>4. ~ (Len(w) < Len(c))
  <2>1. SUFFICES ASSUME Len(w) < Len(c) PROVE FALSE
    OBVIOUS
  <2>2. Len(w) \in 1 .. Len(c) - 1 /\ Len(w) \in 1 .. Len(c) /\ Len(w) \in 1 .. Len(w)
    BY <1>1, <1>2, <2>1
  <2>3. c[Len(w)] >= Group /\ c[Len(w)] = w[Len(w)]
    BY <1>2, <2>2
  <2>4. ~ (w[Len(w)] >= Group)
    BY <1>1, <1>2, <2>2
  <2>5. QED
    BY <2>3, <2>4
<1>5. Len(c) = Len(w)
  BY <1>2, <1>3, <1>4
<1>6. \A i \in 1 .. Len(c) : c[i] = w[i]
  BY <1>2, <1>5
<1>7. c = w
  BY <1>1, <1>5, <1>6, SeqEqual
<1>8. QED
  BY <1>7 DEF w

\* What reading the length of the text returns, of a packet that may be cut off.
LEMMA TextLengthIsRead ==
    ASSUME NEW p, Known(p), NEW d \in Seq(Byte), Piece(d, Body(p), 0), Len(d) >= 1
    PROVE  LET read == ReadVarint(d, 1)
               right == [value |-> p.textLength,
                         offset |-> 1 + Len(Written[p.textLength])]
           IN  /\ read = right \/ Failed(read)
               /\ Len(d) = Len(Body(p)) => read = right
<1> DEFINE w == Written[p.textLength]
           right == [value |-> p.textLength, offset |-> 1 + Len(w)]
<1>1. /\ p.textLength \in 0 .. Word - 1 /\ Len(w) \in Nat \ {0}
      /\ \A i \in 1 .. Len(w) : w[i] >= Group <=> i < Len(w)
      /\ \A j \in 1 .. Len(w) : Body(p)[1 + j] = w[j]
      /\ Len(Body(p)) \in Nat /\ Len(Body(p)) >= 1 + Len(w)
  <2>1. p.textLength \in 0 .. Word - 1 /\ p.letters \in Nat
    BY DEF Known
  <2>2. QED
    BY <2>1, WrittenBytes, BodyParts
<1>2. Len(d) \in Nat /\ 1 \in Nat
  OBVIOUS
<1>3. CASE 1 + Len(w) <= Len(d)
  <2>1. \A j \in 1 .. Len(w) : 1 + j \in 1 .. Len(d)
    BY <1>1, <1>2, <1>3
  <2>2. \A i \in 1 .. Len(d) : d[i] = Body(p)[i]
    BY DEF Piece
  <2>3. \A j \in 1 .. Len(w) : d[1 + j] = w[j]
    BY <1>1, <2>1, <2>2
  <2>4. Holds(d, 1, p.textLength)
    BY <1>3, <2>3 DEF Holds
  <2>5. ReadVarint(d, 1) = right
    BY <1>1, <1>2, <2>4, NumbersAreReadBack
  <2>6. QED
    BY <2>5
<1>4. CASE Len(d) < 1 + Len(w)
  <2>1. ASSUME NEW j \in 1 + 1 .. Len(d) PROVE d[j] >= Group
    <3>1. j \in 1 .. Len(d) /\ j - 1 \in 1 .. Len(w) /\ j - 1 < Len(w) /\ 1 + (j - 1) = j
      BY <1>1, <1>2, <1>4
    <3>2. d[j] = w[j - 1]
      <4>1. d[j] = Body(p)[j]
        BY <3>1 DEF Piece
      <4>2. Body(p)[1 + (j - 1)] = w[j - 1]
        BY <1>1, <3>1
      <4>3. QED
        BY <3>1, <4>1, <4>2
    <3>3. QED
      BY <1>1, <3>1, <3>2
  <2>2. Failed(ReadVarint(d, 1))
    BY <1>2, <2>1, CutOffIsRefused
  <2>3. QED
    BY <1>1, <1>2, <1>4, <2>2
<1>5. QED
  BY <1>1, <1>2, <1>3, <1>4

LEMMA LengthIsRead ==
    ASSUME NEW p \in Packet
    PROVE  ReadVarint(Written[p.length], 0)
              = [value |-> p.length, offset |-> Len(Written[p.length])]
<1> DEFINE w == Written[p.length]
<1>1. p.length \in 0 .. Word - 1 /\ w \in Seq(Byte) /\ Len(w) \in Nat
  BY PacketsAreKnown, WrittenBytes
<1>2. 0 + Len(w) = Len(w) /\ \A j \in 1 .. Len(w) : 0 + j = j
  BY <1>1
<1>3. Holds(w, 0, p.length)
  <2>1. Len(w) <= Len(w)
    BY <1>1
  <2>2. QED
    BY <1>2, <2>1 DEF Holds
<1>4. ReadVarint(w, 0) = [value |-> p.length, offset |-> 0 + Len(w)]
  BY <1>1, <1>3, NumbersAreReadBack
<1>5. QED
  BY <1>2, <1>4

LEMMA CutInit == TypeInv /\ Init /\ packet # NoPacket => CutInv
<1>1. SUFFICES ASSUME TypeInv, Init, packet # NoPacket PROVE CutInv
  OBVIOUS
<1>2. packet \in Packet /\ cut = << >> /\ Len(cut) = 0 /\ pc = "length"
  BY <1>1 DEF TypeInv, Init
<1>3. Piece(stream, Sent(packet), 0)
  BY <1>1, <1>2, ArrivingIs DEF Init
<1>4. Sent(packet) \in Seq(Byte)
  BY <1>2, SentParts
<1>5. Piece(cut, Sent(packet), 0) /\ \A i \in 1 .. Len(cut) : cut[i] >= Group
  BY <1>2, <1>4 DEF Piece
<1>6. QED
  BY <1>2, <1>3, <1>5 DEF CutInv

LEMMA CutStep == TypeInv /\ TypeInv' /\ packet # NoPacket /\ CutInv /\ Next => CutInv'
<1>1. SUFFICES ASSUME TypeInv, TypeInv', packet # NoPacket, CutInv, Next
               PROVE  CutInv'
  OBVIOUS
<1>2. /\ cut \in Seq(Byte) /\ stream \in Seq(Byte) /\ packet \in Packet
      /\ Len(cut) \in Nat /\ Len(stream) \in Nat
  BY <1>1 DEF TypeInv
<1>3. ASSUME NEW how \in {"failed", "panicked"}, Ends(how) PROVE CutInv'
  BY <1>3 DEF Ends, CutInv
<1>4. CASE ReadLengthByte
  <2> DEFINE s == Sent(packet)
             k == Len(cut)
             byte == Head(stream)
  <2>1. /\ pc = "length" /\ stream # << >> /\ packet' = packet
        /\ cut' = Append(cut, byte) /\ stream' = Tail(stream)
        /\ pc' = IF Complete(byte, Len(cut')) THEN "cut" ELSE "length"
    BY <1>4, Zenon DEF ReadLengthByte
  <2>2. /\ Piece(cut, s, 0) /\ Piece(stream, s, k)
        /\ \A i \in 1 .. k : cut[i] >= Group
    BY <1>1, <2>1 DEF CutInv
  <2>3. /\ s \in Seq(Byte) /\ Len(s) \in Nat
    BY <1>2, SentParts
  <2> HIDE DEF s
  <2>4. /\ Len(stream) >= 1 /\ byte = stream[1] /\ byte \in Byte
        /\ Len(stream') = Len(stream) - 1
        /\ \A i \in 1 .. Len(stream') : stream'[i] = stream[i + 1]
    <3>1. Len(stream) \in Nat \ {0}
      BY <1>2, <2>1, EmptySeq
    <3>2. QED
      BY <1>2, <2>1, <3>1, HeadTailProperties
  <2> HIDE DEF byte
  <2>5. /\ Len(cut') = k + 1 /\ cut'[k + 1] = byte
        /\ \A i \in 1 .. k : cut'[i] = cut[i]
    BY <1>2, <2>1, <2>4, AppendProperties
  <2>6. k + 1 <= Len(s) /\ byte = s[k + 1]
    BY <1>2, <2>2, <2>3, <2>4 DEF Piece
  <2>7. \A i \in 1 .. k : cut'[i] = s[i]
    BY <1>2, <2>2, <2>5 DEF Piece
  <2>8. Piece(cut', s, 0)
    <3>1. \A i \in 1 .. k + 1 : (i \in 1 .. k \/ i = k + 1) /\ 0 + i = i
      BY <1>2
    <3>2. \A i \in 1 .. k + 1 : cut'[i] = s[0 + i]
      BY <2>5, <2>6, <2>7, <3>1
    <3>3. 0 + (k + 1) <= Len(s)
      BY <1>2, <2>6
    <3>4. QED
      BY <2>5, <3>2, <3>3 DEF Piece
  <2>9. Piece(stream', s, k + 1)
    <3>1. \A i \in 1 .. Len(stream') :
             i + 1 \in 1 .. Len(stream) /\ k + (i + 1) = (k + 1) + i
      BY <1>2, <2>4
    <3>2. \A i \in 1 .. Len(stream) : stream[i] = s[k + i]
      BY <2>2 DEF Piece
    <3>3. \A i \in 1 .. Len(stream') : stream'[i] = s[(k + 1) + i]
      BY <2>4, <3>1, <3>2
    <3>4. (k + 1) + Len(stream') <= Len(s)
      BY <1>2, <2>2, <2>3, <2>4 DEF Piece
    <3>5. QED
      BY <3>3, <3>4 DEF Piece
  <2>10. CASE Complete(byte, k + 1)
    <3>1. pc' = "cut"
      BY <2>1, <2>5, <2>10 DEF byte
    <3>2. cut' = Written[packet.length]
      <4>1. cut' \in Seq(Byte) /\ Len(cut') \in 1 .. MaxLength
        <5>1. cut' \in Seq(Byte) /\ Len(cut') <= MaxLength
          BY <1>1 DEF TypeInv, TypeOK
        <5>2. QED
          BY <1>2, <2>5, <5>1, Widths
      <4>2. \A i \in 1 .. Len(cut') - 1 : cut'[i] >= Group
        BY <1>2, <2>2, <2>5
      <4>3. QED
        BY <1>2, <2>5, <2>8, <2>10, <4>1, <4>2, CutOut DEF s
    <3>3. QED
      BY <2>1, <2>5, <2>9, <3>1, <3>2 DEF CutInv, s
  <2>11. CASE ~ Complete(byte, k + 1)
    <3>1. pc' = "length"
      BY <2>1, <2>5, <2>11 DEF byte
    <3>2. byte >= Group
      BY <2>4, <2>11, Sizes DEF Complete, Byte
    <3>3. \A i \in 1 .. Len(cut') : cut'[i] >= Group
      <4>1. \A i \in 1 .. Len(cut') : i \in 1 .. k \/ i = k + 1
        BY <1>2, <2>5
      <4>2. QED
        BY <2>2, <2>5, <3>2, <4>1
    <3>4. QED
      BY <2>1, <2>5, <2>8, <2>9, <3>1, <3>3 DEF CutInv, s
  <2>12. QED
    BY <2>10, <2>11
<1>5. CASE StreamEnds
  BY <1>3, <1>5 DEF StreamEnds
<1>6. CASE ParseLength
  BY <1>1, <1>3, <1>6 DEF ParseLength, CutInv
<1>7. CASE ReadData
  BY <1>1, <1>7 DEF ReadData, CutInv
<1>8. CASE ReadId
  BY <1>1, <1>3, <1>8 DEF ReadId, CutInv
<1>9. CASE ReadTextLength
  BY <1>1, <1>3, <1>9 DEF ReadTextLength, CutInv
<1>10. CASE ReadText
  BY <1>1, <1>3, <1>10 DEF ReadText, CutInv
<1>11. QED
  BY <1>1, <1>4, <1>5, <1>6, <1>7, <1>8, <1>9, <1>10 DEF Next

LEMMA BodyStep ==
    TypeInv /\ packet # NoPacket /\ CutInv /\ BodyInv /\ Next => BodyInv'
<1>1. SUFFICES ASSUME TypeInv, packet # NoPacket, CutInv, BodyInv, Next
               PROVE  BodyInv'
  OBVIOUS
<1>2. /\ cut \in Seq(Byte) /\ stream \in Seq(Byte) /\ data \in Seq(Byte)
      /\ packet \in Packet /\ Known(packet) /\ length \in Nat
      /\ Len(cut) \in Nat /\ Len(stream) \in Nat
  BY <1>1, TypeFacts
<1>3. ASSUME NEW how \in {"failed", "panicked"}, Ends(how) PROVE BodyInv'
  BY <1>3 DEF Ends, BodyInv
<1>4. CASE ReadLengthByte
  BY <1>4 DEF ReadLengthByte, BodyInv
<1>5. CASE StreamEnds
  BY <1>3, <1>5 DEF StreamEnds
<1>6. CASE ParseLength
  <2>1. CASE Ends("failed")
    BY <1>3, <2>1
  <2>2. CASE ~ Ends("failed")
    <3>1. /\ length' = AsSize(ReadVarint(cut, 0).value) /\ pc = "cut" /\ pc' = "data"
          /\ packet' = packet
      BY <1>6, <2>2 DEF ParseLength
    <3>2. cut = Written[packet.length]
      BY <1>1, <3>1 DEF CutInv
    <3>3. length' = AsSize(packet.length)
      <4>1. ReadVarint(cut, 0) = [value |-> packet.length,
                                  offset |-> Len(Written[packet.length])]
        BY <1>2, <3>2, LengthIsRead
      <4>2. QED
        BY <3>1, <4>1
    <3>4. QED
      BY <3>1, <3>3 DEF BodyInv
  <2>3. QED
    BY <2>1, <2>2
<1>7. CASE ReadData
  <2> DEFINE s == Sent(packet)
             b == Body(packet)
             h == Len(cut)
  <2>1. /\ pc = "data" /\ pc' = "id" /\ length <= Len(stream)
        /\ data' = SubSeq(stream, 1, length)
        /\ packet' = packet /\ length' = length
    BY <1>2, <1>7 DEF ReadData
  <2>2. cut = Written[packet.length] /\ Piece(stream, s, h) /\ length = AsSize(packet.length)
    BY <1>1, <2>1 DEF CutInv, BodyInv
  <2>3. /\ Len(b) \in Nat /\ Len(s) = h + Len(b)
        /\ \A j \in 1 .. Len(b) : s[h + j] = b[j]
    <3>1. Len(b) \in Nat
      BY <1>2, BodyParts
    <3>2. /\ Len(s) = Len(Written[packet.length]) + Len(b)
          /\ \A j \in 1 .. Len(b) : s[Len(Written[packet.length]) + j] = b[j]
      BY <1>2, SentParts
    <3>3. QED
      BY <2>2, <3>1, <3>2
  <2> HIDE DEF s, b
  <2>4. Len(data') = length /\ \A i \in 1 .. length : data'[i] = stream[i]
    <3>1. \A i \in 1 .. length : stream[i] \in Byte
      BY <1>2, <2>1
    <3>2. QED
      BY <1>2, <2>1, <3>1
  <2>5. length <= Len(b)
    BY <1>2, <2>1, <2>2, <2>3 DEF Piece
  <2>6. Piece(data', b, 0)
    <3>1. \A i \in 1 .. length : i \in 1 .. Len(b) /\ i \in 1 .. Len(stream) /\ 0 + i = i
      BY <1>2, <2>1, <2>3, <2>5
    <3>2. \A i \in 1 .. Len(stream) : stream[i] = s[h + i]
      BY <2>2 DEF Piece
    <3>3. \A i \in 1 .. length : data'[i] = b[0 + i]
      BY <2>3, <2>4, <3>1, <3>2
    <3>4. 0 + length <= Len(b)
      BY <1>2, <2>5
    <3>5. QED
      BY <2>4, <3>3, <3>4 DEF Piece
  <2>7. QED
    BY <2>1, <2>2, <2>4, <2>6 DEF BodyInv, b
<1>8. CASE ReadId
  BY <1>1, <1>3, <1>8 DEF ReadId, BodyInv
<1>9. CASE ReadTextLength
  <2>1. CASE Ends("failed")
    BY <1>3, <2>1
  <2>2. CASE ~ Ends("failed")
    <3>1. /\ length' = AsSize(ReadVarint(data, offset).value)
          /\ offset' = ReadVarint(data, offset).offset
          /\ ~ Failed(ReadVarint(data, offset))
          /\ pc = "text length" /\ pc' = "text"
          /\ packet' = packet /\ data' = data
      BY <1>9, <2>2 DEF ReadTextLength
    <3>2. Piece(data, Body(packet), 0) /\ offset = 1 /\ Len(data) >= 1
      <4>1. Piece(data, Body(packet), 0) /\ offset = 1 /\ data # << >>
        BY <1>1, <3>1 DEF BodyInv
      <4>2. Len(data) \in Nat \ {0}
        BY <1>2, <4>1, EmptySeq
      <4>3. QED
        BY <4>1, <4>2
    <3>3. ReadVarint(data, 1) = [value |-> packet.textLength,
                                 offset |-> 1 + Len(Written[packet.textLength])]
      BY <1>2, <3>1, <3>2, TextLengthIsRead
    <3>4. /\ length' = AsSize(packet.textLength)
          /\ offset' = 1 + Len(Written[packet.textLength])
      <4> DEFINE read == ReadVarint(data, 1)
      <4>1. length' = AsSize(read.value) /\ offset' = read.offset
        BY <3>1, <3>2
      <4>2. /\ read.value = packet.textLength
            /\ read.offset = 1 + Len(Written[packet.textLength])
        BY <3>3
      <4> HIDE DEF read
      <4>3. QED
        BY <4>1, <4>2
    <3>5. QED
      BY <3>1, <3>2, <3>4 DEF BodyInv
  <2>3. QED
    BY <2>1, <2>2
<1>10. CASE ReadText
  BY <1>3, <1>10 DEF ReadText, BodyInv
<1>11. QED
  BY <1>1, <1>4, <1>5, <1>6, <1>7, <1>8, <1>9, <1>10 DEF Next

\* Where a slice ends, when the sum wraps and when it does not.
LEMMA Ending ==
    ASSUME NEW o \in 0 .. USize - 1, NEW n \in 0 .. USize - 1
    PROVE  /\ End(o, n) \in Nat
           /\ End(o, n) >= o => End(o, n) = o + n
           /\ End(o, n) < o => n \in USize - o .. USize - 1
           /\ o + n < USize => End(o, n) = o + n
<1>1. USize \in Nat \ {0} /\ o + n \in Nat /\ o \in Nat /\ n \in Nat
  BY Widths, Sizes
<1>2. End(o, n) = (o + n) % USize
  BY DEF End, USize
<1>3. CASE o + n < USize
  <2>1. o + n \in 0 .. USize - 1
    BY <1>1, <1>3
  <2>2. ASSUME NEW g \in Nat \ {0}, NEW u \in 0 .. g - 1 PROVE u % g = u
    OBVIOUS
  <2>3. (o + n) % USize = o + n
    BY <1>1, <2>1, <2>2
  <2>4. QED
    BY <1>1, <1>2, <2>3
<1>4. CASE o + n >= USize
  <2>1. o + n \in USize .. 2 * USize - 1
    BY <1>1, <1>4
  <2>2. ASSUME NEW g \in Nat \ {0}, NEW u \in g .. 2 * g - 1 PROVE u % g = u - g
    <3>1. u \in Int
      OBVIOUS
    <3>2. QED
      BY <3>1, RemainderOf
  <2>3. (o + n) % USize = o + n - USize
    BY <1>1, <2>1, <2>2
  <2>4. End(o, n) < o
    BY <1>1, <1>2, <2>3
  <2>5. QED
    BY <1>1, <1>2, <1>4, <2>3, <2>4
<1>5. QED
  BY <1>1, <1>3, <1>4

\* A slice that starts behind the length of the text has the text's letters.
LEMMA SliceIsText ==
    ASSUME NEW p, Known(p), NEW d \in Seq(Byte), Piece(d, Body(p), 0),
           NEW o, o = 1 + Len(Written[p.textLength]), NEW n \in Nat, o + n <= Len(d)
    PROVE  /\ SubSeq(d, o + 1, o + n) = SubSeq(Letters(p.letters), 1, n)
           /\ \A i \in DOMAIN SubSeq(d, o + 1, o + n) :
                 SubSeq(d, o + 1, o + n)[i] < Group
<1> DEFINE w == Written[p.textLength]
           b == Body(p)
           l == Letters(p.letters)
           slice == SubSeq(d, o + 1, o + n)
           letters == SubSeq(l, 1, n)
<1>1. /\ Len(w) \in Nat /\ Len(b) \in Nat /\ p.letters \in Nat /\ p.letters <= MaxText
      /\ Len(b) = 1 + Len(w) + p.letters
      /\ \A j \in 1 .. p.letters : b[1 + Len(w) + j] = j % Group
      /\ l \in Seq(Byte) /\ Len(l) = p.letters /\ \A i \in 1 .. p.letters : l[i] = i % Group
  <2>1. p.letters \in 0 .. MaxText /\ p.letters \in Nat /\ p.letters <= MaxText
    BY Widths DEF Known
  <2>2. l \in Seq(Byte) /\ Len(l) = p.letters /\ \A i \in 1 .. p.letters : l[i] = i % Group
    BY <2>1, LettersAre
  <2>3. /\ Len(w) \in Nat /\ Len(b) \in Nat
        /\ Len(b) = 1 + Len(w) + p.letters
        /\ \A j \in 1 .. p.letters : b[1 + Len(w) + j] = j % Group
    BY BodyParts
  <2>4. QED
    BY <2>1, <2>2, <2>3
<1>2. Len(d) \in Nat /\ Len(d) <= Len(b) /\ o = 1 + Len(w)
  <2>1. Len(d) \in Nat
    OBVIOUS
  <2>2. 0 + Len(d) <= Len(b)
    BY DEF Piece
  <2>3. QED
    BY <1>1, <2>1, <2>2
<1>3. \A i \in 1 .. Len(d) : d[i] = b[i]
  BY DEF Piece
<1> HIDE DEF w, b, l
<1>4. n <= p.letters /\ o \in Nat
  BY <1>1, <1>2
<1>5. \A i \in 1 .. n : /\ i \in 1 .. p.letters /\ o + i \in 1 .. Len(d)
                        /\ o + 1 <= o + i /\ o + i <= o + n
  BY <1>1, <1>2, <1>4
<1>6. \A i \in 1 .. n : d[o + i] = i % Group
  BY <1>1, <1>2, <1>3, <1>5
<1>7. /\ slice \in Seq(Byte) /\ Len(slice) = n
      /\ \A i \in 1 .. n : slice[i] = i % Group
  <2>1. ASSUME NEW j \in o + 1 .. o + n PROVE d[j] \in Byte
    <3>1. j \in 1 .. Len(d)
      BY <1>2, <1>4, <2>1
    <3>2. QED
      BY <3>1
  <2>2. o + 1 \in Int /\ o + n \in Int
    BY <1>4
  <2>3. /\ slice \in Seq(Byte)
        /\ Len(slice) = IF o + 1 <= o + n THEN (o + n) - (o + 1) + 1 ELSE 0
        /\ \A i \in 1 .. (o + n) - (o + 1) + 1 : slice[i] = d[(o + 1) + i - 1]
    BY <2>1, <2>2, SubSeqProperties
  <2>4. \A i \in 1 .. n : i \in 1 .. (o + n) - (o + 1) + 1 /\ (o + 1) + i - 1 = o + i
    BY <1>4
  <2>5. Len(slice) = n
    BY <1>4, <2>3
  <2>6. QED
    BY <1>6, <2>3, <2>4, <2>5
<1>8. /\ letters \in Seq(Byte) /\ Len(letters) = n
      /\ \A i \in 1 .. n : letters[i] = i % Group
  <2>1. \A i \in 1 .. n : l[i] \in Byte
    BY <1>1, <1>5
  <2>2. QED
    BY <1>1, <1>5, <2>1
<1> HIDE DEF slice, letters
<1>9. slice = letters
  BY <1>7, <1>8, SeqEqual
<1>10. \A i \in DOMAIN slice : slice[i] < Group
  <2>1. \A i \in DOMAIN slice : i \in 1 .. n
    BY <1>7
  <2>2. \A i \in Nat : i % Group < Group
    BY Groups
  <2>3. QED
    BY <1>7, <2>1, <2>2
<1>11. QED
  BY <1>9, <1>10 DEF slice, letters, l

LEMMA TextStep ==
    TypeInv /\ packet # NoPacket /\ BodyInv /\ Next => TextIsTheServers'
<1>1. SUFFICES ASSUME TypeInv, packet # NoPacket, BodyInv, Next, pc' = "done"
               PROVE  text' = SubSeq(Letters(packet'.letters), 1, Signed(packet'.textLength))
  BY DEF TextIsTheServers
<1>2. /\ pc = "text" /\ packet' = packet
      /\ ~ Exceeds(offset, length) /\ End(offset, length) \in offset .. Len(data)
      /\ text' = Slice(offset, length)
  BY <1>1 DEF Next, ReadLengthByte, StreamEnds, ParseLength, ReadData, ReadId,
              ReadTextLength, ReadText, Ends
<1>3. /\ packet \in Packet /\ Known(packet) /\ data \in Seq(Byte)
      /\ packet.textLength \in 0 .. Word - 1
      /\ Len(data) \in Nat /\ Len(data) <= MaxPacket
      /\ length \in 0 .. USize - 1 /\ offset \in 0 .. Len(data)
  BY <1>1, TypeFacts
<1>4. /\ Piece(data, Body(packet), 0)
      /\ length = AsSize(packet.textLength)
      /\ offset = 1 + Len(Written[packet.textLength])
  BY <1>1, <1>2 DEF BodyInv
<1>5. offset + length <= Len(data) /\ offset \in Nat /\ length \in Nat
  <2>1. offset \in 0 .. USize - 1 /\ offset \in Nat /\ length \in Nat
    BY <1>3, Widths, Sizes
  <2>2. End(offset, length) \in Nat /\ End(offset, length) >= offset
        /\ End(offset, length) <= Len(data)
    BY <1>2, <1>3, <2>1
  <2>3. End(offset, length) = offset + length
    BY <1>3, <2>1, <2>2, Ending
  <2>4. QED
    BY <2>1, <2>2, <2>3
<1>6. Signed(packet.textLength) = length
  <2>1. length <= MaxPacket
    BY <1>3, <1>5, Widths
  <2>2. packet.textLength < Word \div 2
    <3>1. ~ (AsSize(packet.textLength) > MaxPacket)
      BY <1>4, <1>5, <2>1, Widths
    <3>2. ~ (packet.textLength >= Word \div 2)
      BY <1>3, <3>1, LengthsAsSizes
    <3>3. QED
      BY <1>3, <3>2, Widths, Sizes
  <2>3. QED
    BY <1>3, <1>4, <2>2, LengthsAsSizes
<1>7. Slice(offset, length) = SubSeq(Letters(packet.letters), 1, length)
  BY <1>3, <1>4, <1>5, SliceIsText DEF Slice
<1>8. QED
  BY <1>2, <1>6, <1>7

LEMMA PanicStep == TypeInv /\ Next => PanicsAreKnown'
<1>1. SUFFICES ASSUME TypeInv, Next, pc' = "panicked"
               PROVE  \/ data' = << >>
                      \/ length' \in USize - offset' .. USize - 1
  BY DEF PanicsAreKnown, USize
<1>2. /\ UNCHANGED <<data, length, offset>>
      /\ \/ data = << >>
         \/ ~ Exceeds(offset, length) /\ End(offset, length) \notin offset .. Len(data)
  BY <1>1 DEF Next, ReadLengthByte, StreamEnds, ParseLength, ReadData, ReadId,
              ReadTextLength, ReadText, Ends
<1>3. /\ data \in Seq(Byte) /\ Len(data) \in Nat /\ Len(data) <= MaxPacket
      /\ length \in 0 .. USize - 1 /\ offset \in 0 .. Len(data)
  BY <1>1, TypeFacts
<1>4. offset \in 0 .. USize - 1 /\ offset \in Nat
  BY <1>1, TypeFacts
<1>5. ASSUME ~ Exceeds(offset, length), End(offset, length) \notin offset .. Len(data)
      PROVE  length \in USize - offset .. USize - 1
  <2>1. End(offset, length) \in Nat
    BY <1>3, <1>4, Ending
  <2>2. End(offset, length) < offset
    BY <1>3, <1>4, <1>5, <2>1 DEF Exceeds
  <2>3. QED
    BY <1>3, <1>4, <2>2, Ending
<1>6. QED
  BY <1>2, <1>5

\* How much has arrived of a packet that has arrived as a whole.
LEMMA WholeIsLong ==
    ASSUME TypeInv, Whole
    PROVE  Len(cut) + Len(data) + Len(stream) = Len(Sent(packet))
<1>1. cut \in Seq(Byte) /\ stream \in Seq(Byte) /\ data \in Seq(Byte)
  BY TypeFacts
<1>2. cut \o data \in Seq(Byte) /\ Len(cut \o data) = Len(cut) + Len(data)
  BY <1>1, Joined
<1>3. Len((cut \o data) \o stream) = Len(cut \o data) + Len(stream)
  BY <1>1, <1>2, Joined
<1>4. QED
  BY <1>2, <1>3 DEF Whole

LEMMA RightStep ==
    /\ TypeInv /\ CutInv /\ BodyInv /\ Next
    /\ Expected => RightInv
    => (Expected => RightInv)'
<1> DEFINE b == Body(packet)
<1>1. SUFFICES ASSUME TypeInv, CutInv, BodyInv, Next, Expected => RightInv, Expected'
               PROVE  RightInv'
  OBVIOUS
<1>2. packet' = packet
  BY <1>1 DEF Next, ReadLengthByte, StreamEnds, ParseLength, ReadData, ReadId,
              ReadTextLength, ReadText, Ends
<1>3. Expected /\ RightInv /\ packet \in RightPacket /\ packet.id = 0
  BY <1>1, <1>2 DEF Expected
<1>4. packet # NoPacket /\ packet \in Packet
  BY <1>3, PacketsAreKnown DEF Packet
<1>5. /\ Known(packet) /\ packet.length = Len(b) /\ Len(b) \in 1 .. MaxPacket
      /\ packet.textLength = packet.letters /\ b[1] = 0
      /\ packet.length \in 0 .. Word - 1 /\ packet.textLength \in 0 .. Word - 1
  BY <1>1, <1>3, <1>4, PacketsAreKnown, BodyParts, TypeFacts
<1>6. /\ AsSize(packet.length) = Len(b)
      /\ AsSize(packet.textLength) = packet.letters
  <2>1. packet.length < Word \div 2 /\ packet.textLength < Word \div 2
    BY <1>5, Widths DEF Known
  <2>2. QED
    BY <1>5, <2>1, LengthsAsSizes
<1>7. /\ cut \in Seq(Byte) /\ stream \in Seq(Byte) /\ data \in Seq(Byte)
      /\ Len(cut) \in Nat /\ Len(stream) \in Nat /\ Len(data) \in Nat
  BY <1>1, TypeFacts
<1>8. ASSUME Ends("failed"), ~ Whole PROVE RightInv'
  BY <1>2, <1>8 DEF RightInv, Ends, Whole
<1>9. CASE ReadLengthByte
  BY <1>9 DEF ReadLengthByte, RightInv
<1>10. CASE StreamEnds
  <2>1. SUFFICES ASSUME Whole PROVE FALSE
    BY <1>8, <1>10 DEF StreamEnds
  <2>2. data = << >> /\ Len(data) = 0 /\ pc \in {"length", "data"}
    BY <1>1, <1>10 DEF StreamEnds, TypeInv
  <2>3. Len(cut) + Len(stream) = Len(Sent(packet))
    BY <1>1, <1>7, <2>1, <2>2, WholeIsLong
  <2> DEFINE w == Written[packet.length]
  <2>4. /\ Len(w) \in Nat \ {0} /\ Len(Sent(packet)) = Len(w) + Len(b)
        /\ Sent(packet)[Len(w)] = w[Len(w)]
        /\ ~ (w[Len(w)] >= Group)
    <3>1. /\ Len(w) \in Nat \ {0}
          /\ \A i \in 1 .. Len(w) : w[i] >= Group <=> i < Len(w)
      BY <1>5, WrittenBytes
    <3>2. /\ Len(Sent(packet)) = Len(w) + Len(b)
          /\ \A j \in 1 .. Len(w) : Sent(packet)[j] = w[j]
      BY <1>4, SentParts
    <3>3. Len(w) \in 1 .. Len(w) /\ ~ (Len(w) < Len(w))
      BY <3>1
    <3>4. QED
      BY <3>1, <3>2, <3>3
  <2> HIDE DEF w
  <2>5. CASE pc = "length"
    <3>1. stream = << >> /\ Len(stream) = 0
      BY <1>10, <2>5 DEF StreamEnds
    <3>2. Len(w) \in 1 .. Len(cut)
      BY <1>5, <1>7, <2>3, <2>4, <3>1
    <3>3. cut[Len(w)] >= Group /\ cut[Len(w)] = Sent(packet)[0 + Len(w)]
      BY <1>1, <2>5, <3>2 DEF CutInv, Piece
    <3>4. 0 + Len(w) = Len(w)
      BY <2>4
    <3>5. QED
      BY <2>4, <3>3, <3>4
  <2>6. CASE pc = "data"
    <3>1. Len(stream) < length
      BY <1>10, <2>6 DEF StreamEnds
    <3>2. cut = w /\ length = Len(b)
      BY <1>1, <1>6, <2>6 DEF CutInv, BodyInv, w
    <3>3. QED
      BY <1>5, <1>7, <2>3, <2>4, <3>1, <3>2
  <2>7. QED
    BY <2>2, <2>5, <2>6
<1>11. CASE ParseLength
  <2>1. cut = Written[packet.length]
    BY <1>1, <1>11 DEF ParseLength, CutInv
  <2>2. ReadVarint(cut, 0) = [value |-> packet.length, offset |-> Len(cut)]
    BY <1>4, <2>1, LengthIsRead
  <2>3. ~ Failed(ReadVarint(cut, 0)) /\ AsSize(ReadVarint(cut, 0).value) = Len(b)
    BY <1>6, <2>2 DEF Failed
  <2>4. ~ (Len(b) > MaxPacket)
    BY <1>5, Widths
  <2>5. pc' = "data"
    BY <1>11, <2>3, <2>4 DEF ParseLength
  <2>6. QED
    BY <2>5 DEF RightInv
<1>12. CASE ReadData
  BY <1>12 DEF ReadData, RightInv
<1>13. CASE ReadId
  <2>1. Len(data) = Len(b) /\ Piece(data, b, 0)
    BY <1>1, <1>6, <1>13 DEF ReadId, BodyInv
  <2>2. data # << >> /\ data[1] = 0
    <3>1. 1 \in 1 .. Len(data) /\ 0 + 1 = 1
      BY <1>5, <2>1
    <3>2. data[1] = b[1]
      BY <2>1, <3>1 DEF Piece
    <3>3. Len(<< >>) = 0
      OBVIOUS
    <3>4. QED
      BY <1>5, <2>1, <3>2, <3>3
  <2>3. pc' = "text length" /\ data' = data
    BY <1>13, <2>2 DEF ReadId
  <2>4. QED
    BY <1>2, <2>1, <2>3 DEF RightInv
<1>14. CASE ReadTextLength
  <2>1. Len(data) = Len(b) /\ Piece(data, b, 0) /\ offset = 1
    BY <1>1, <1>3, <1>14 DEF ReadTextLength, BodyInv, RightInv
  <2>2. Len(data) >= 1
    BY <1>5, <2>1
  <2>3. ReadVarint(data, 1) = [value |-> packet.textLength,
                               offset |-> 1 + Len(Written[packet.textLength])]
    BY <1>5, <1>7, <2>1, <2>2, TextLengthIsRead
  <2>4. ~ Failed(ReadVarint(data, offset))
    BY <2>1, <2>3 DEF Failed
  <2>5. pc' = "text" /\ data' = data
    BY <1>14, <2>4 DEF ReadTextLength
  <2>6. QED
    BY <1>2, <2>1, <2>5 DEF RightInv
<1>15. CASE ReadText
  <2> DEFINE head == Len(Written[packet.textLength])
  <2>1. /\ Len(data) = Len(b) /\ Piece(data, b, 0)
        /\ offset = 1 + head /\ length = packet.letters
    BY <1>1, <1>3, <1>6, <1>15 DEF ReadText, BodyInv, RightInv
  <2>2. head \in Nat /\ Len(b) = 1 + head + packet.letters /\ packet.letters \in Nat
    BY <1>5, BodyParts DEF Known
  <2> HIDE DEF head
  <2>3. offset + length = Len(data) /\ offset + length < USize
        /\ offset \in 0 .. USize - 1 /\ length \in 0 .. USize - 1
        /\ offset <= Len(data) /\ length \in Nat
    BY <1>5, <2>1, <2>2, Widths, Sizes
  <2>4. End(offset, length) = Len(data)
    BY <2>3, Ending
  <2>5. ~ Exceeds(offset, length) /\ End(offset, length) \in offset .. Len(data)
    BY <1>7, <2>1, <2>2, <2>4 DEF Exceeds
  <2>6. Utf8(Slice(offset, length))
    <3>1. offset + length <= Len(data)
      BY <1>7, <2>3
    <3>2. QED
      BY <1>5, <1>7, <2>1, <2>3, <3>1, SliceIsText DEF Slice, Utf8, head
  <2>7. pc' = "done"
    BY <1>15, <2>5, <2>6 DEF ReadText
  <2>8. QED
    BY <2>7 DEF RightInv
<1>16. QED
  BY <1>1, <1>9, <1>10, <1>11, <1>12, <1>13, <1>14, <1>15 DEF Next

-----------------------------------------------------------------------------
(* Theorems *)

\* Every reachable state satisfies the invariant of the reading.
THEOREM ReadingIsInvariant == Spec => []ReadingInv
<1>1. Init => ReadingInv
  <2>1. SUFFICES ASSUME Init PROVE ReadingInv
    OBVIOUS
  <2>2. TypeInv /\ (packet # NoPacket => CutInv)
    BY <2>1, TypeInit, CutInit
  <2>3. pc = "length"
    BY <2>1 DEF Init
  <2>4. BodyInv /\ TextIsTheServers /\ RightInv /\ PanicsAreKnown
    BY <2>3 DEF BodyInv, TextIsTheServers, RightInv, PanicsAreKnown
  <2>5. QED
    BY <2>2, <2>4 DEF ReadingInv
<1>2. ReadingInv /\ [Next]_vars => ReadingInv'
  <2>1. SUFFICES ASSUME ReadingInv, [Next]_vars PROVE ReadingInv'
    OBVIOUS
  <2>2. CASE Next
    <3>1. TypeInv /\ TypeInv'
      BY <2>1, <2>2, TypeStep DEF ReadingInv
    <3>2. packet' = packet
      BY <2>2 DEF Next, ReadLengthByte, StreamEnds, ParseLength, ReadData, ReadId,
                  ReadTextLength, ReadText, Ends
    <3>3. packet # NoPacket => CutInv' /\ BodyInv' /\ TextIsTheServers'
      BY <2>1, <2>2, <3>1, CutStep, BodyStep, TextStep DEF ReadingInv
    <3>4. (Expected => RightInv)'
      <4>1. SUFFICES ASSUME Expected' PROVE RightInv'
        OBVIOUS
      <4>2. Expected /\ packet # NoPacket
        BY <3>2, <4>1, PacketsAreKnown DEF Expected, Packet
      <4>3. QED
        BY <2>1, <2>2, <3>1, <4>1, <4>2, RightStep DEF ReadingInv
    <3>5. PanicsAreKnown'
      BY <2>2, <3>1, PanicStep
    <3>6. QED
      BY <3>1, <3>2, <3>3, <3>4, <3>5 DEF ReadingInv
  <2>3. CASE UNCHANGED vars
    BY <2>1, <2>3 DEF vars, ReadingInv, TypeInv, TypeOK, CutInv, BodyInv, RightInv,
       TextIsTheServers, PanicsAreKnown, Expected, Whole
  <2>4. QED
    BY <2>1, <2>2, <2>3
<1>3. QED
  BY <1>1, <1>2, PTL DEF Spec

\* What is read has its types, whatever arrives: no more bytes of a length than
\* a length has, no packet beyond the limit, nothing consumed beyond its end.
THEOREM StatusTypes == Spec => []TypeOK
<1>1. ReadingInv => TypeOK
  BY DEF ReadingInv, TypeInv
<1>2. QED
  BY <1>1, ReadingIsInvariant, PTL

\* The two lengths are read as the server has written them, and their bytes
\* are consumed and no others, for every width of words and groups.
THEOREM LengthsAreRead == Spec => []LengthsAreTheServers
<1>1. ReadingInv => LengthsAreTheServers
  BY DEF ReadingInv, CutInv, BodyInv, LengthsAreTheServers
<1>2. QED
  BY <1>1, ReadingIsInvariant, PTL

\* A text that is accepted is the one that the server has sent.
THEOREM TextIsRead == Spec => []TextIsTheServers
<1>1. ReadingInv => TextIsTheServers
  BY DEF ReadingInv, TextIsTheServers
<1>2. QED
  BY <1>1, ReadingIsInvariant, PTL

\* A status with the right lengths that arrives as a whole is not refused.
THEOREM RightIsRead == Spec => []RightPacketIsRead
<1>1. ReadingInv => RightPacketIsRead
  BY DEF ReadingInv, RightInv, RightPacketIsRead
<1>2. QED
  BY <1>1, ReadingIsInvariant, PTL

\* The ping panics on an empty packet or on a text of a negative length that
\* reaches back into the packet, and on nothing else that a server sends.
THEOREM PanicsKnown == Spec => []PanicsAreKnown
<1>1. ReadingInv => PanicsAreKnown
  BY DEF ReadingInv
<1>2. QED
  BY <1>1, ReadingIsInvariant, PTL

=============================================================================
