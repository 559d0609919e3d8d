----------------------- MODULE FileCompressionProofs -----------------------
(***************************************************************************)
(* What compressFile writes and decompressFile makes of it, for any width  *)
(* of a byte, any files, any keystream, any order of equal frequencies in  *)
(* the queue, and a disk that may be full at any byte.                     *)
(*                                                                         *)
(* The trees in the queue share out the bytes of the file (HeapInv). The   *)
(* file is a whole number of bytes of what compressFile writes (FileInv).  *)
(* Each node of the tree has a place in the serialized tree, behind the    *)
(* nodes that are written in front of it: recursiveBuildTree is at the     *)
(* place of the node its path leads to (ReadInv). The encoded file is the  *)
(* codes of its bytes one after the other, and no code begins another: the *)
(* decoder is in the code of the byte that comes next (DecodeInv).         *)
(*                                                                         *)
(* The tree is an optimal one (OptInv): of all lengths of codes that fit   *)
(* in a tree, some that cost least make the two nodes siblings that are    *)
(* merged next, so no merge leads away from the least cost.                *)
(***************************************************************************)
EXTENDS FileCompression, TLAPS, SequenceTheorems, WellFoundedInduction, FiniteSetTheorems,
        FunctionTheorems

-----------------------------------------------------------------------------
(* Numbers.                                                                *)

\* A set of natural numbers that is not empty has a least member.
LEMMA LeastNumber ==
  ASSUME NEW S, S \subseteq Nat, S # {}
  PROVE  \E x \in S : \A y \in S : x <= y
<1> DEFINE R == {p \in Nat \X Nat : p[1] < p[2]}
<1>1. IsWellFoundedOn(R, Nat)
  BY NatLessThanWellFounded DEF OpToRel
<1>2. PICK x \in S : \A y \in S : ~ (<<y, x>> \in R)
  <2> HIDE DEF R
  <2> QED BY <1>1, WFMin
<1>3. ASSUME NEW y \in S PROVE x <= y
  <2>1. y < x => <<y, x>> \in R
    OBVIOUS
  <2>2. ~ (y < x)
    BY <1>2, <2>1, Zenon
  <2> QED BY <2>2
<1> QED BY <1>3

\* Induction over the numbers up to n, as a set.
LEMMA UpTo ==
  ASSUME NEW n \in Nat, NEW S, 0 \in S, \A k \in 0..(n - 1) : k \in S => k + 1 \in S
  PROVE  \A k \in 0..n : k \in S
<1> SUFFICES ASSUME NEW m \in 0..n, m \notin S PROVE FALSE
  OBVIOUS
<1> DEFINE Out == {k \in 0..n : k \notin S}
<1>1. PICK k \in Out : \A j \in Out : k <= j
  <2>1. Out \subseteq Nat /\ m \in Out
    OBVIOUS
  <2> HIDE DEF Out
  <2> QED BY <2>1, LeastNumber
<1>2. k - 1 \in 0..(n - 1) /\ k - 1 \notin Out
  BY <1>1
<1>3. k - 1 \in S /\ (k - 1) + 1 = k
  BY <1>2
<1> QED BY <1>1, <1>2, <1>3

\* And over those from n down.
LEMMA DownFrom ==
  ASSUME NEW n \in Nat, NEW S, n \in S, \A k \in 0..(n - 1) : k + 1 \in S => k \in S
  PROVE  \A k \in 0..n : k \in S
<1> DEFINE T == {k \in 0..n : n - k \in S}
<1>1. 0 \in T
  OBVIOUS
<1>2. ASSUME NEW k \in 0..(n - 1), k \in T PROVE k + 1 \in T
  <2>1. n - (k + 1) \in 0..(n - 1) /\ (n - (k + 1)) + 1 = n - k
    OBVIOUS
  <2> QED BY <1>2, <2>1
<1>3. \A k \in 0..n : k \in T
  <2> HIDE DEF T
  <2> QED BY <1>1, <1>2, UpTo
<1>4. ASSUME NEW k \in 0..n PROVE k \in S
  <2>1. n - k \in 0..n /\ n - (n - k) = k
    OBVIOUS
  <2>2. n - k \in T
    BY <1>3, <2>1
  <2> QED BY <2>1, <2>2
<1> QED BY <1>4

\* Division with remainder.
LEMMA Division ==
  ASSUME NEW n \in Nat, NEW b \in Nat \ {0}
  PROVE  \E q \in Nat : \E r \in 0..(b - 1) : n = b * q + r /\ n \div b = q /\ n % b = r
<1> DEFINE S == {m \in Nat : \E q \in Nat : n = b * q + m}
<1>1. n = b * 0 + n
  OBVIOUS
<1>2. S \subseteq Nat /\ n \in S
  BY <1>1
<1>3. PICK r \in S : \A m \in S : r <= m
  BY <1>2, LeastNumber
<1>4. PICK q \in Nat : n = b * q + r
  OBVIOUS
<1>5. r \in 0..(b - 1)
  <2> SUFFICES ASSUME r >= b PROVE FALSE
    OBVIOUS
  <2>1. b * (q + 1) = b * q + b
    OBVIOUS
  <2>2. n = b * (q + 1) + (r - b) /\ r - b \in Nat /\ q + 1 \in Nat
    BY <1>4, <2>1
  <2>3. r - b \in S /\ r \in Nat
    BY <2>2
  <2>4. r <= r - b
    BY <1>3, <2>3
  <2> QED BY <2>3, <2>4
<1>6. \A x \in Nat : \A y \in 0..(b - 1) : (b * x + y) % b = y /\ (b * x + y) \div b = x
  OBVIOUS
<1> QED BY <1>4, <1>5, <1>6

LEMMA Multiple ==
  ASSUME NEW q \in Nat, NEW b \in Nat \ {0}
  PROVE  (b * q) \div b = q
OBVIOUS

\* The padding fills the last byte.
LEMMA PaddingFills ==
  ASSUME NEW n \in Nat
  PROVE  Padding(n) \in 0..(ByteBits - 1) /\ \E q \in Nat : n + Padding(n) = ByteBits * q
<1> DEFINE b == ByteBits
<1>1. b \in Nat \ {0}
  BY FileAssumption
<1> HIDE DEF b
<1>2. PICK q \in Nat, r \in 0..(b - 1) : n = b * q + r /\ n % b = r
  BY <1>1, Division
<1>3. CASE r = 0
  <2>1. b % b = 0 /\ b - 0 = b
    BY <1>1
  <2>2. Padding(n) = 0
    BY <1>2, <1>3, <2>1 DEF Padding, b
  <2>3. n + 0 = b * q
    BY <1>1, <1>2, <1>3
  <2> QED BY <1>1, <2>2, <2>3 DEF b
<1>4. CASE r # 0
  <2>1. b - r \in 1..(b - 1)
    BY <1>1, <1>4
  <2>2. (b - r) % b = b - r
    BY <1>1, <2>1
  <2>3. b * q + b = b * (q + 1)
    BY <1>1
  <2>4. n + (b - r) = b * (q + 1) /\ q + 1 \in Nat
    BY <1>1, <1>2, <2>3
  <2> QED BY <1>2, <2>1, <2>2, <2>4 DEF Padding, b
<1> QED BY <1>3, <1>4

\* Powers of two, by counting subsets.
LEMMA PowerType == \A n \in Nat : 2 ^ n \in Nat \ {0}
<1> SUFFICES ASSUME NEW n \in Nat PROVE 2 ^ n \in Nat \ {0}
  OBVIOUS
<1>1. IsFiniteSet(1..n) /\ Cardinality(1..n) = n
  BY FS_Interval
<1>2. IsFiniteSet(SUBSET (1..n)) /\ Cardinality(SUBSET (1..n)) = 2 ^ n
  BY <1>1, FS_SUBSET
<1>3. SUBSET (1..n) # {}
  OBVIOUS
<1> QED BY <1>2, <1>3, FS_CardinalityType, FS_EmptySet

LEMMA PowerZero == 2 ^ 0 = 1
<1>1. IsFiniteSet({}) /\ Cardinality({}) = 0
  BY FS_EmptySet
<1>2. Cardinality(SUBSET {}) = 2 ^ 0
  BY <1>1, FS_SUBSET
<1>3. SUBSET {} = {{}}
  OBVIOUS
<1> QED BY <1>2, <1>3, FS_Singleton

LEMMA PowerStep == \A n \in Nat : 2 ^ (n + 1) = 2 * 2 ^ n
<1> SUFFICES ASSUME NEW n \in Nat PROVE 2 ^ (n + 1) = 2 * 2 ^ n
  OBVIOUS
<1> DEFINE A == SUBSET (1..n)
           B == {s \cup {n + 1} : s \in A}
           f == [s \in A |-> s \cup {n + 1}]
<1>1. IsFiniteSet(A) /\ Cardinality(A) = 2 ^ n
  <2>1. IsFiniteSet(1..n) /\ Cardinality(1..n) = n
    BY FS_Interval
  <2> QED BY <2>1, FS_SUBSET
<1>2. Cardinality(SUBSET (1..(n + 1))) = 2 ^ (n + 1)
  <2>1. IsFiniteSet(1..(n + 1)) /\ Cardinality(1..(n + 1)) = n + 1
    BY FS_Interval
  <2> QED BY <2>1, FS_SUBSET
<1>3. SUBSET (1..(n + 1)) = A \cup B
  <2>1. \A s \in A : s \in SUBSET (1..(n + 1)) /\ s \cup {n + 1} \in SUBSET (1..(n + 1))
    OBVIOUS
  <2>3. A \cup B \subseteq SUBSET (1..(n + 1))
    <3>1. A \subseteq SUBSET (1..(n + 1))
      BY <2>1
    <3>2. ASSUME NEW t \in B PROVE t \in SUBSET (1..(n + 1))
      BY <2>1
    <3> HIDE DEF A, B
    <3> QED BY <3>1, <3>2
  <2>2. ASSUME NEW s \in SUBSET (1..(n + 1)) PROVE s \in A \cup B
    <3>1. CASE n + 1 \in s
      <4>1. s \ {n + 1} \in A /\ s = (s \ {n + 1}) \cup {n + 1}
        BY <3>1
      <4> QED BY <4>1
    <3>2. CASE n + 1 \notin s
      BY <3>2
    <3> QED BY <3>1, <3>2
  <2> HIDE DEF A, B
  <2> QED BY <2>2, <2>3
<1>4. A \cap B = {}
  OBVIOUS
<1>5. f \in Bijection(A, B)
  <2>1. \A s \in A : n + 1 \notin s
    OBVIOUS
  <2>2. \A s, t \in A : s \cup {n + 1} = t \cup {n + 1} => s = t
    BY <2>1
  <2>3. f \in [A -> B] /\ \A s \in A : f[s] = s \cup {n + 1}
    OBVIOUS
  <2>4. \A t \in B : \E s \in A : f[s] = t
    OBVIOUS
  <2> HIDE DEF A, B, f
  <2> QED BY <2>2, <2>3, <2>4, Fun_IsBij
<1>6. IsFiniteSet(B) /\ Cardinality(B) = 2 ^ n
  <2> HIDE DEF A, B, f
  <2> QED BY <1>1, <1>5, FS_Bijection DEF ExistsBijection
<1>7. Cardinality(A \cup B) = 2 ^ n + 2 ^ n - 0
  <2> HIDE DEF A, B, f
  <2> QED BY <1>1, <1>4, <1>6, FS_Union, FS_EmptySet
<1>8. 2 ^ n \in Nat
  BY PowerType
<1>9. \A k \in Nat : k + k - 0 = 2 * k
  OBVIOUS
<1> QED BY <1>2, <1>3, <1>7, <1>8, <1>9

-----------------------------------------------------------------------------
(* Bits and bytes.                                                         *)

LEMMA BitsAndBytes == /\ ByteBits \in Nat \ {0}
                      /\ 2 ^ ByteBits \in Nat \ {0}
                      /\ Bytes = 0..(2 ^ ByteBits - 1)
BY FileAssumption, PowerType DEF Bytes

LEMMA BitsOfType ==
  ASSUME NEW v \in Bytes
  PROVE  /\ BitsOf(v) \in Seq(Bits)
         /\ Len(BitsOf(v)) = ByteBits
         /\ \A i \in 1..ByteBits : BitsOf(v)[i] = (v \div 2 ^ (ByteBits - i)) % 2
<1>1. ASSUME NEW i \in 1..ByteBits PROVE (v \div 2 ^ (ByteBits - i)) % 2 \in Bits
  <2> DEFINE p == 2 ^ (ByteBits - i)
  <2>1. v \in Nat /\ p \in Nat \ {0}
    BY BitsAndBytes, PowerType
  <2> HIDE DEF p
  <2>2. v \div p \in Nat
    BY <2>1
  <2>3. \A w \in Nat : w % 2 \in {0, 1}
    OBVIOUS
  <2> QED BY <2>2, <2>3 DEF Bits, p
<1>2. BitsOf(v) \in [1..ByteBits -> Bits]
  BY <1>1 DEF BitsOf
<1>3. \A i \in 1..ByteBits : BitsOf(v)[i] = (v \div 2 ^ (ByteBits - i)) % 2
  BY DEF BitsOf
<1>4. Len(BitsOf(v)) = ByteBits /\ BitsOf(v) \in Seq(Bits)
  BY <1>2, BitsAndBytes
<1> QED BY <1>3, <1>4

\* The function behind the fold of ByteOf.
IsFold(f, bs, n) ==
  f = [s \in SUBSET (1..n) |->
         IF s = {} THEN 0 ELSE (2 * f[s \ {Max(s)}] + bs[Max(s)]) % 2 ^ ByteBits]

LEMMA MaxOfInterval ==
  ASSUME NEW k \in Nat, NEW s \in SUBSET (1..(k + 1)), k + 1 \in s
  PROVE  Max(s) = k + 1
<1>1. \A y \in s : k + 1 >= y
  OBVIOUS
<1>2. \A x \in s : (\A y \in s : x >= y) => x = k + 1
  OBVIOUS
<1> QED BY <1>1, <1>2, Zenon DEF Max

LEMMA FoldExists ==
  ASSUME NEW bs, NEW n \in Nat
  PROVE  \E f : IsFold(f, bs, n)
<1> DEFINE S == {k \in Nat : \E f : IsFold(f, bs, k)}
<1>1. 0 \in S
  <2> DEFINE f == [s \in SUBSET (1..0) |-> 0]
  <2>1. 1..0 = {}
    OBVIOUS
  <2>2. \A s \in SUBSET (1..0) : s = {}
    BY <2>1
  <2>3. IsFold(f, bs, 0)
    BY <2>2 DEF IsFold
  <2> QED BY <2>3
<1>2. ASSUME NEW k \in Nat, k \in S PROVE k + 1 \in S
  <2>1. PICK f : IsFold(f, bs, k)
    BY <1>2
  <2> DEFINE g == [s \in SUBSET (1..(k + 1)) |->
                     IF k + 1 \in s THEN (2 * f[s \ {k + 1}] + bs[k + 1]) % 2 ^ ByteBits ELSE f[s]]
             e(s) == IF s = {} THEN 0 ELSE (2 * g[s \ {Max(s)}] + bs[Max(s)]) % 2 ^ ByteBits
  <2>2. ASSUME NEW s \in SUBSET (1..k) PROVE g[s] = f[s]
    <3>1. s \in SUBSET (1..(k + 1)) /\ k + 1 \notin s
      OBVIOUS
    <3> QED BY <3>1
  <2>3. ASSUME NEW s \in SUBSET (1..(k + 1)) PROVE g[s] = e(s)
    <3>1. CASE k + 1 \in s
      <4>1. Max(s) = k + 1
        BY <3>1, MaxOfInterval
      <4>2. s \ {k + 1} \in SUBSET (1..k)
        OBVIOUS
      <4>3. g[s] = (2 * f[s \ {k + 1}] + bs[k + 1]) % 2 ^ ByteBits
        BY <3>1
      <4>4. g[s \ {k + 1}] = f[s \ {k + 1}]
        BY <4>2, <2>2
      <4> HIDE DEF g
      <4> QED BY <3>1, <4>1, <4>3, <4>4
    <3>2. CASE k + 1 \notin s
      <4>1. s \in SUBSET (1..k)
        BY <3>2
      <4>2. CASE s = {}
        <5>1. f[s] = 0
          BY <2>1, <4>1, <4>2, Zenon DEF IsFold
        <5>2. g[s] = 0
          BY <5>1, <2>2, <4>1
        <5> HIDE DEF g
        <5> QED BY <5>2, <4>2
      <4>3. CASE s # {}
        <5>1. f[s] = (2 * f[s \ {Max(s)}] + bs[Max(s)]) % 2 ^ ByteBits
          BY <2>1, <4>1, <4>3, Zenon DEF IsFold
        <5>2. g[s] = f[s] /\ g[s \ {Max(s)}] = f[s \ {Max(s)}]
          BY <4>1, <2>2
        <5> HIDE DEF g
        <5> QED BY <5>1, <5>2, <4>3
      <4> QED BY <4>2, <4>3
    <3> QED BY <3>1, <3>2
  <2>4. g = [s \in SUBSET (1..(k + 1)) |-> e(s)]
    <3>1. g = [s \in SUBSET (1..(k + 1)) |-> g[s]]
      OBVIOUS
    <3> HIDE DEF g, e
    <3> QED BY <3>1, <2>3
  <2>5. IsFold(g, bs, k + 1)
    BY <2>4, Zenon DEF IsFold
  <2> QED BY <2>5
<1> HIDE DEF S
<1>3. \A k \in 0..n : k \in S
  BY <1>1, <1>2, UpTo
<1> QED BY <1>3 DEF S

LEMMA FoldStep ==
  ASSUME NEW bs, NEW n \in Nat, NEW f, IsFold(f, bs, n)
  PROVE  /\ f[1..0] = 0
         /\ \A k \in 0..(n - 1) : f[1..(k + 1)] = (2 * f[1..k] + bs[k + 1]) % 2 ^ ByteBits
<1>1. \A s \in SUBSET (1..n) :
        f[s] = IF s = {} THEN 0 ELSE (2 * f[s \ {Max(s)}] + bs[Max(s)]) % 2 ^ ByteBits
  BY Zenon DEF IsFold
<1>2. f[1..0] = 0
  <2>1. 1..0 = {}
    OBVIOUS
  <2> QED BY <1>1, <2>1
<1>3. ASSUME NEW k \in 0..(n - 1)
      PROVE  f[1..(k + 1)] = (2 * f[1..k] + bs[k + 1]) % 2 ^ ByteBits
  <2>1. /\ 1..(k + 1) \in SUBSET (1..n)
        /\ 1..(k + 1) # {}
        /\ (1..(k + 1)) \ {k + 1} = 1..k
    <3>1. \A i \in 1..(k + 1) : i \in 1..n
      OBVIOUS
    <3>2. k + 1 \in 1..(k + 1)
      OBVIOUS
    <3>3. \A i : i \in (1..(k + 1)) \ {k + 1} <=> i \in 1..k
      OBVIOUS
    <3> QED BY <3>1, <3>2, <3>3
  <2>2. Max(1..(k + 1)) = k + 1
    BY MaxOfInterval
  <2> QED BY <1>1, <2>1, <2>2
<1> QED BY <1>2, <1>3

LEMMA ByteOfFolds ==
  ASSUME NEW bs \in Seq(Bits)
  PROVE  \E f : IsFold(f, bs, Len(bs)) /\ ByteOf(bs) = f[1..Len(bs)]
<1> DEFINE F == CHOOSE f : IsFold(f, bs, Len(bs))
<1>1. Len(bs) \in Nat /\ DOMAIN bs = 1..Len(bs)
  BY LenProperties
<1>2. IsFold(F, bs, Len(bs))
  BY <1>1, FoldExists
<1>3. ByteOf(bs) = F[1..Len(bs)]
  BY <1>1, Zenon DEF ByteOf, FoldLeft, MapThenFoldSet, IsFold
<1> QED BY <1>2, <1>3

\* A byte is read from as many bits as it has.
LEMMA ByteOfType ==
  ASSUME NEW bs \in Seq(Bits), Len(bs) = ByteBits
  PROVE  ByteOf(bs) \in Bytes
<1> DEFINE n == ByteBits
           p == 2 ^ ByteBits
<1>1. n \in Nat \ {0} /\ p \in Nat \ {0} /\ Bytes = 0..(p - 1)
  BY BitsAndBytes
<1>2. PICK f : IsFold(f, bs, n) /\ ByteOf(bs) = f[1..n]
  BY ByteOfFolds
<1> DEFINE S == {k \in Nat : f[1..k] \in Nat}
<1> HIDE DEF n, p
<1>3. /\ f[1..0] = 0
      /\ \A k \in 0..(n - 1) : f[1..(k + 1)] = (2 * f[1..k] + bs[k + 1]) % p
  BY <1>1, <1>2, FoldStep DEF p
<1>4. \A x \in Nat : x % p \in 0..(p - 1)
  BY <1>1
<1>5. ASSUME NEW k \in 0..(n - 1), k \in S PROVE f[1..(k + 1)] \in 0..(p - 1)
  <2>1. bs[k + 1] \in Nat
    BY <1>1, ElementOfSeq DEF n, Bits
  <2>2. f[1..k] \in Nat
    BY <1>5
  <2>3. 2 * f[1..k] + bs[k + 1] \in Nat
    BY <2>1, <2>2
  <2> QED BY <2>3, <1>3, <1>4
<1>6. \A k \in 0..n : k \in S
  <2>1. 0 \in S
    BY <1>3
  <2>2. \A k \in 0..(n - 1) : k \in S => k + 1 \in S
    BY <1>5, <1>1
  <2> HIDE DEF S
  <2> QED BY <1>1, <2>1, <2>2, UpTo
<1>7. n - 1 \in 0..(n - 1) /\ n - 1 \in S /\ (n - 1) + 1 = n
  BY <1>1, <1>6
<1>8. f[1..n] \in 0..(p - 1)
  BY <1>5, <1>7
<1> QED BY <1>1, <1>2, <1>8

\* What recursiveBuildTree reads is the byte that serializeTree wrote.
LEMMA ByteReadBack ==
  ASSUME NEW v \in Bytes
  PROVE  ByteOf(BitsOf(v)) = v
<1> DEFINE n == ByteBits
           p == 2 ^ ByteBits
           bs == BitsOf(v)
           top(k) == v \div 2 ^ (n - k)
<1>1. n \in Nat \ {0} /\ p \in Nat \ {0} /\ v \in Nat /\ v < p
  BY BitsAndBytes
<1>2. bs \in Seq(Bits) /\ Len(bs) = n /\ \A i \in 1..n : bs[i] = top(i) % 2
  BY BitsOfType
<1> HIDE DEF bs
<1>3. PICK f : IsFold(f, bs, n) /\ ByteOf(bs) = f[1..n]
  BY <1>2, ByteOfFolds
<1>4. /\ f[1..0] = 0
      /\ \A k \in 0..(n - 1) : f[1..(k + 1)] = (2 * f[1..k] + bs[k + 1]) % p
  BY <1>1, <1>3, FoldStep
<1> DEFINE S == {k \in Nat : f[1..k] = top(k)}
<1>5. 0 \in S
  <2>1. top(0) = v \div p
    BY <1>1
  <2>2. v \div p = 0
    <3> HIDE DEF p
    <3> QED BY <1>1
  <2> QED BY <2>1, <2>2, <1>4
<1>6. ASSUME NEW k \in 0..(n - 1), k \in S PROVE k + 1 \in S
  <2> DEFINE q == 2 ^ (n - (k + 1))
             w == v \div q
  <2>1. n - (k + 1) \in Nat /\ (n - (k + 1)) + 1 = n - k
    BY <1>1
  <2>2. q \in Nat \ {0} /\ 2 ^ (n - k) = 2 * q
    BY <2>1, PowerType, PowerStep
  <2>3. top(k) = v \div (2 * q) /\ top(k + 1) = w
    BY <2>2
  <2> HIDE DEF q
  <2>4. v \div (2 * q) = w \div 2
    BY <1>1, <2>2
  <2>5. w \in 0..v
    BY <1>1, <2>2
  <2> HIDE DEF w, top, p
  <2>6. bs[k + 1] = w % 2
    BY <1>2, <2>3
  <2>7. 2 * (w \div 2) + (w % 2) = w
    BY <1>1, <2>5
  <2>8. w % p = w
    BY <1>1, <2>5
  <2>9. f[1..k] = w \div 2
    BY <1>6, <2>3, <2>4
  <2>10. f[1..(k + 1)] = w
    BY <1>4, <2>6, <2>7, <2>8, <2>9, Zenon
  <2> QED BY <2>3, <2>10
<1>7. n \in S
  <2> HIDE DEF S
  <2>1. \A k \in 0..n : k \in S
    BY <1>1, <1>5, <1>6, UpTo
  <2> QED BY <1>1, <2>1
<1>8. top(n) = v
  <2>1. n - n = 0
    BY <1>1
  <2>2. v \div 1 = v
    BY <1>1
  <2> QED BY <2>1, <2>2, PowerZero
<1> QED BY <1>3, <1>7, <1>8 DEF bs

-----------------------------------------------------------------------------
(* Paths and trees.                                                        *)

Paths == Seq(Bits)

\* The node at p is the one at q, or above it.
OnWay(p, q) == Len(p) <= Len(q) /\ \A i \in 1..Len(p) : p[i] = q[i]

Nodes(t) == DOMAIN t \cup Inner(t)

\* A tree as Huffman's algorithm builds it: a byte in every leaf, and two
\* children of every other node.
FullTree(t) ==
  /\ TreeTypeOK(t)
  /\ t = [p \in DOMAIN t |-> t[p]]
  /\ DOMAIN t # {}
  /\ \A p, q \in DOMAIN t : OnWay(p, q) => p = q
  /\ \A p \in Inner(t) : \A b \in Bits : Append(p, b) \in Nodes(t)
  /\ \E n \in Nat : \A p \in DOMAIN t : Len(p) <= n

LEMMA PathProperties ==
  ASSUME NEW p \in Paths
  PROVE  /\ Len(p) \in Nat
         /\ DOMAIN p = 1..Len(p)
         /\ \A i \in 1..Len(p) : p[i] \in Bits
BY LenProperties, ElementOfSeq DEF Paths

LEMMA SamePath ==
  ASSUME NEW p \in Paths, NEW q \in Paths, Len(p) = Len(q), \A i \in 1..Len(p) : p[i] = q[i]
  PROVE  p = q
BY SeqEqual DEF Paths

LEMMA AppendPath ==
  ASSUME NEW p \in Paths, NEW b \in Bits
  PROVE  /\ Append(p, b) \in Paths
         /\ Len(Append(p, b)) = Len(p) + 1
         /\ \A i \in 1..Len(p) : Append(p, b)[i] = p[i]
         /\ Append(p, b)[Len(p) + 1] = b
BY AppendProperties DEF Paths

LEMMA FirstPart ==
  ASSUME NEW p \in Paths, NEW l \in 0..Len(p)
  PROVE  /\ SubSeq(p, 1, l) \in Paths
         /\ Len(SubSeq(p, 1, l)) = l
         /\ \A i \in 1..l : SubSeq(p, 1, l)[i] = p[i]
<1>1. Len(p) \in Nat /\ \A i \in 1..Len(p) : p[i] \in Bits
  BY PathProperties
<1>2. \A i \in 1..l : p[i] \in Bits
  BY <1>1
<1>3. l - 1 + 1 = l /\ \A i \in 1..l : 1 + i - 1 = i
  BY <1>1
<1> QED BY <1>1, <1>2, <1>3, SubSeqProperties DEF Paths

LEMMA EmptyPath == << >> \in Paths /\ Len(<< >>) = 0 /\ \A p \in Paths : Len(p) = 0 => p = << >>
BY EmptySeq DEF Paths

LEMMA OnWayIsPart ==
  ASSUME NEW p \in Paths, NEW q \in Paths
  PROVE  OnWay(p, q) <=> \E l \in 0..Len(q) : p = SubSeq(q, 1, l)
<1>1. Len(p) \in Nat /\ Len(q) \in Nat
  BY PathProperties
<1>2. ASSUME OnWay(p, q) PROVE \E l \in 0..Len(q) : p = SubSeq(q, 1, l)
  <2>1. Len(p) \in 0..Len(q)
    BY <1>1, <1>2 DEF OnWay
  <2>2. p = SubSeq(q, 1, Len(p))
    <3>1. /\ SubSeq(q, 1, Len(p)) \in Paths
          /\ Len(SubSeq(q, 1, Len(p))) = Len(p)
          /\ \A i \in 1..Len(p) : SubSeq(q, 1, Len(p))[i] = q[i]
      BY <2>1, FirstPart
    <3> QED BY <1>2, <3>1, SamePath DEF OnWay
  <2> QED BY <2>1, <2>2
<1>3. ASSUME NEW l \in 0..Len(q), p = SubSeq(q, 1, l) PROVE OnWay(p, q)
  BY <1>1, <1>3, FirstPart DEF OnWay
<1> QED BY <1>2, <1>3

LEMMA OnWayOrder ==
  ASSUME NEW p \in Paths, NEW q \in Paths
  PROVE  /\ OnWay(p, p)
         /\ OnWay(p, q) /\ OnWay(q, p) => p = q
         /\ OnWay(<< >>, p)
         /\ \A r \in Paths : OnWay(p, q) /\ OnWay(q, r) => OnWay(p, r)
<1>1. Len(p) \in Nat /\ Len(q) \in Nat
  BY PathProperties
<1>2. OnWay(p, q) /\ OnWay(q, p) => p = q
  BY <1>1, SamePath DEF OnWay
<1>3. ASSUME NEW r \in Paths, OnWay(p, q), OnWay(q, r) PROVE OnWay(p, r)
  BY <1>1, <1>3, PathProperties DEF OnWay
<1>4. OnWay(<< >>, p)
  BY <1>1, EmptyPath DEF OnWay
<1> QED BY <1>1, <1>2, <1>3, <1>4 DEF OnWay

\* The nodes of a tree are those on the ways to its leaves.
LEMMA NodeOnWay ==
  ASSUME NEW t, TreeTypeOK(t), NEW p
  PROVE  /\ p \in Nodes(t) <=> p \in Paths /\ \E q \in DOMAIN t : OnWay(p, q)
         /\ p \in Inner(t) <=> p \in Nodes(t) /\ p \notin DOMAIN t
<1>1. \A q \in DOMAIN t : q \in Paths
  BY DEF TreeTypeOK, Paths
<1>2. ASSUME NEW q \in DOMAIN t PROVE p \in Prefixes(q) <=> p \in Paths /\ OnWay(p, q)
  <2>1. ASSUME p \in Prefixes(q) PROVE p \in Paths
    BY <1>1, <2>1, FirstPart DEF Prefixes
  <2>2. p \in Prefixes(q) <=> \E l \in 0..Len(q) : p = SubSeq(q, 1, l)
    BY DEF Prefixes
  <2> QED BY <1>1, <2>1, <2>2, OnWayIsPart
<1>3. p \in Inner(t) <=> p \notin DOMAIN t /\ \E q \in DOMAIN t : p \in Prefixes(q)
  BY DEF Inner
<1>4. p \in DOMAIN t => p \in Paths /\ OnWay(p, p)
  BY <1>1, OnWayOrder
<1> QED BY <1>2, <1>3, <1>4 DEF Nodes

\* What is above a node is a node, and not a leaf.
LEMMA NodesAbove ==
  ASSUME NEW t, FullTree(t), NEW q \in Nodes(t), NEW p \in Paths, OnWay(p, q)
  PROVE  p \in Nodes(t) /\ (p # q => p \in Inner(t))
<1>1. PICK r \in DOMAIN t : q \in Paths /\ OnWay(q, r)
  BY NodeOnWay DEF FullTree
<1>2. r \in Paths
  BY DEF FullTree, TreeTypeOK, Paths
<1>3. OnWay(p, r)
  BY <1>1, <1>2, OnWayOrder
<1>4. p \in Nodes(t)
  BY <1>3, NodeOnWay DEF FullTree
<1>5. p \in DOMAIN t => p = q
  <2> SUFFICES ASSUME p \in DOMAIN t PROVE p = q
    OBVIOUS
  <2>1. p = r
    BY <1>3 DEF FullTree
  <2> QED BY <2>1, <1>1, OnWayOrder
<1> QED BY <1>4, <1>5, NodeOnWay DEF FullTree

LEMMA RootIsNode ==
  ASSUME NEW t, FullTree(t)
  PROVE  << >> \in Nodes(t)
<1>1. PICK q \in DOMAIN t : TRUE
  BY DEF FullTree
<1>2. q \in Paths
  BY DEF FullTree, TreeTypeOK, Paths
<1> QED BY <1>2, EmptyPath, OnWayOrder, NodeOnWay DEF FullTree

\* A leaf is a tree.
LEMMA LeafIsFull ==
  ASSUME NEW v \in Bytes
  PROVE  FullTree(Leaf(v)) /\ DOMAIN Leaf(v) = {<< >>} /\ Leaf(v)[<< >>] = v
<1>5. Leaf(v) = [p \in DOMAIN Leaf(v) |-> Leaf(v)[p]]
  BY DEF Leaf
<1>1. DOMAIN Leaf(v) = {<< >>} /\ Leaf(v)[<< >>] = v
  BY DEF Leaf
<1> HIDE DEF Leaf
<1>2. TreeTypeOK(Leaf(v))
  BY <1>1, EmptyPath DEF TreeTypeOK, Paths
<1>3. Inner(Leaf(v)) = {}
  <2> SUFFICES ASSUME NEW p \in Inner(Leaf(v)) PROVE FALSE
    OBVIOUS
  <2>1. p \in Paths /\ OnWay(p, << >>) /\ p # << >>
    BY <1>1, <1>2, NodeOnWay
  <2> QED BY <2>1, EmptyPath, OnWayOrder
<1>4. \A p \in DOMAIN Leaf(v) : Len(p) <= 0
  BY <1>1, EmptyPath
<1> QED BY <1>1, <1>2, <1>3, <1>4, <1>5 DEF FullTree

LEMMA ConsPath ==
  ASSUME NEW b \in Bits, NEW q \in Paths
  PROVE  /\ <<b>> \o q \in Paths
         /\ Len(<<b>> \o q) = Len(q) + 1
         /\ (<<b>> \o q)[1] = b
         /\ \A i \in 1..Len(q) : (<<b>> \o q)[i + 1] = q[i]
         /\ Head(<<b>> \o q) = b
         /\ Tail(<<b>> \o q) = q
<1> DEFINE s == <<b>>
           p == s \o q
<1>1. s \in Seq(Bits) /\ Len(s) = 1 /\ s[1] = b /\ Len(q) \in Nat
  BY PathProperties
<1>2. /\ p \in Seq(Bits)
      /\ Len(p) = Len(s) + Len(q)
      /\ \A i \in 1..(Len(s) + Len(q)) : p[i] = IF i <= Len(s) THEN s[i] ELSE q[i - Len(s)]
  <2> HIDE DEF s
  <2> QED BY <1>1, ConcatProperties DEF Paths
<1> HIDE DEF s
<1>3. p[1] = b /\ \A i \in 1..Len(q) : p[i + 1] = q[i]
  BY <1>1, <1>2
<1>4. p # << >>
  BY <1>1, <1>2, EmptyPath
<1> HIDE DEF p
<1>5. /\ Tail(p) \in Seq(Bits) /\ Len(Tail(p)) = Len(p) - 1
      /\ \A i \in 1..Len(Tail(p)) : Tail(p)[i] = p[i + 1]
  BY <1>2, <1>4, HeadTailProperties
<1>6. Tail(p) = q
  BY <1>1, <1>2, <1>3, <1>5, SamePath DEF Paths
<1>7. Head(p) = b
  BY <1>2, <1>3, <1>4
<1>8. p \in Paths /\ Len(p) = Len(q) + 1
  BY <1>1, <1>2 DEF Paths
<1> QED BY <1>3, <1>6, <1>7, <1>8 DEF p, s

LEMMA ConsSplit ==
  ASSUME NEW p \in Paths, p # << >>
  PROVE  \E b \in Bits : \E q \in Paths : p = <<b>> \o q
<1> DEFINE b == p[1]
           q == Tail(p)
<1>1. Len(p) \in Nat \ {0}
  BY PathProperties, EmptyPath
<1>2. b \in Bits
  BY <1>1, PathProperties
<1>3. /\ q \in Paths /\ Len(q) = Len(p) - 1
      /\ \A i \in 1..Len(q) : q[i] = p[i + 1]
  BY HeadTailProperties DEF Paths
<1>4. \A i \in 1..Len(p) : i = 1 \/ i - 1 \in 1..Len(q)
  BY <1>1, <1>3
<1> HIDE DEF b, q
<1>5. ASSUME NEW i \in 1..Len(p) PROVE p[i] = (<<b>> \o q)[i]
  <2>1. CASE i = 1
    BY <1>2, <1>3, <2>1, ConsPath DEF b
  <2>2. CASE i - 1 \in 1..Len(q)
    <3>1. (<<b>> \o q)[(i - 1) + 1] = q[i - 1] /\ q[i - 1] = p[(i - 1) + 1]
      BY <1>2, <1>3, <2>2, ConsPath
    <3>2. (i - 1) + 1 = i
      OBVIOUS
    <3> QED BY <3>1, <3>2
  <2> QED BY <1>4, <2>1, <2>2
<1>6. Len(<<b>> \o q) = Len(p) /\ <<b>> \o q \in Paths
  BY <1>1, <1>2, <1>3, ConsPath
<1>7. p = <<b>> \o q
  BY <1>5, <1>6, SamePath
<1> QED BY <1>2, <1>3, <1>7

LEMMA ConsOnWay ==
  ASSUME NEW b \in Bits, NEW c \in Bits, NEW p \in Paths, NEW q \in Paths
  PROVE  OnWay(<<b>> \o p, <<c>> \o q) <=> b = c /\ OnWay(p, q)
<1> DEFINE P == <<b>> \o p
           Q == <<c>> \o q
<1>1. /\ Len(p) \in Nat /\ Len(q) \in Nat
      /\ Len(P) = Len(p) + 1 /\ P[1] = b /\ \A i \in 1..Len(p) : P[i + 1] = p[i]
      /\ Len(Q) = Len(q) + 1 /\ Q[1] = c /\ \A i \in 1..Len(q) : Q[i + 1] = q[i]
  BY PathProperties, ConsPath
<1> HIDE DEF P, Q
<1>2. ASSUME OnWay(P, Q) PROVE b = c /\ OnWay(p, q)
  <2>1. Len(p) <= Len(q) /\ 1 \in 1..Len(P)
    BY <1>1, <1>2 DEF OnWay
  <2>2. ASSUME NEW i \in 1..Len(p) PROVE p[i] = q[i]
    <3>1. i + 1 \in 1..Len(P) /\ i \in 1..Len(q)
      BY <1>1, <2>1
    <3>2. P[i + 1] = Q[i + 1]
      BY <1>2, <3>1 DEF OnWay
    <3> QED BY <1>1, <3>1, <3>2
  <2>3. P[1] = Q[1]
    BY <1>2, <2>1 DEF OnWay
  <2> QED BY <1>1, <2>1, <2>2, <2>3 DEF OnWay
<1>3. ASSUME b = c, OnWay(p, q) PROVE OnWay(P, Q)
  <2>1. Len(P) <= Len(Q)
    BY <1>1, <1>3 DEF OnWay
  <2>2. ASSUME NEW i \in 1..Len(P) PROVE P[i] = Q[i]
    <3>1. CASE i = 1
      BY <1>1, <1>3, <3>1
    <3>2. CASE i # 1
      <4>1. i - 1 \in 1..Len(p) /\ i - 1 \in 1..Len(q) /\ (i - 1) + 1 = i
        BY <1>1, <1>3, <3>2 DEF OnWay
      <4>2. P[(i - 1) + 1] = p[i - 1] /\ Q[(i - 1) + 1] = q[i - 1] /\ p[i - 1] = q[i - 1]
        BY <1>1, <1>3, <4>1 DEF OnWay
      <4> QED BY <4>1, <4>2
    <3> QED BY <3>1, <3>2
  <2> QED BY <2>1, <2>2 DEF OnWay
<1> QED BY <1>2, <1>3 DEF P, Q

LEMMA ConsAppend ==
  ASSUME NEW b \in Bits, NEW c \in Bits, NEW p \in Paths
  PROVE  /\ Append(<<b>> \o p, c) = <<b>> \o Append(p, c)
         /\ Append(<< >>, c) = <<c>> \o << >>
<1> DEFINE P == <<b>> \o p
           Q == Append(p, c)
           R == <<b>> \o Q
<1>1. /\ Len(p) \in Nat
      /\ P \in Paths /\ Len(P) = Len(p) + 1 /\ P[1] = b /\ \A i \in 1..Len(p) : P[i + 1] = p[i]
      /\ Q \in Paths /\ Len(Q) = Len(p) + 1 /\ Q[Len(p) + 1] = c /\ \A i \in 1..Len(p) : Q[i] = p[i]
  BY PathProperties, ConsPath, AppendPath
<1>2. R \in Paths /\ Len(R) = Len(Q) + 1 /\ R[1] = b /\ \A i \in 1..Len(Q) : R[i + 1] = Q[i]
  BY <1>1, ConsPath
<1>3. /\ Append(P, c) \in Paths /\ Len(Append(P, c)) = Len(P) + 1
      /\ \A i \in 1..Len(P) : Append(P, c)[i] = P[i]
      /\ Append(P, c)[Len(P) + 1] = c
  BY <1>1, AppendPath
<1> HIDE DEF P, Q, R
<1>4. ASSUME NEW i \in 1..(Len(p) + 2) PROVE Append(P, c)[i] = R[i]
  <2>1. CASE i = 1
    BY <1>1, <1>2, <1>3, <2>1
  <2>2. CASE i = Len(p) + 2
    <3>1. R[(Len(p) + 1) + 1] = Q[Len(p) + 1]
      BY <1>1, <1>2
    <3>2. (Len(p) + 1) + 1 = Len(p) + 2
      BY <1>1
    <3> QED BY <1>1, <1>2, <1>3, <2>2, <3>1, <3>2
  <2>3. CASE i # 1 /\ i # Len(p) + 2
    <3> DEFINE j == i - 1
    <3>1. j \in 1..Len(p) /\ j \in 1..Len(Q) /\ j + 1 \in 1..Len(P) /\ j + 1 = i
      BY <1>1, <2>3
    <3> HIDE DEF j
    <3>2. Append(P, c)[j + 1] = P[j + 1] /\ P[j + 1] = p[j] /\ R[j + 1] = Q[j] /\ Q[j] = p[j]
      BY <1>1, <1>2, <1>3, <3>1
    <3> QED BY <3>1, <3>2
  <2> QED BY <2>1, <2>2, <2>3
<1>5. Append(P, c) = R
  <2>1. Len(Append(P, c)) = Len(p) + 2 /\ Len(R) = Len(p) + 2
    BY <1>1, <1>2, <1>3
  <2> QED BY <1>2, <1>3, <1>4, <2>1, SamePath
<1>6. Append(<< >>, c) = <<c>> \o << >>
  <2>1. <<c>> \in Seq(Bits)
    OBVIOUS
  <2>2. <<c>> \o << >> = <<c>>
    BY <2>1, ConcatEmptySeq
  <2> QED BY <2>2
<1> QED BY <1>5, <1>6 DEF P, Q, R

\* The leaves of a joined tree.
LEMMA JoinedLeaves ==
  ASSUME NEW left, NEW right, TreeTypeOK(left), TreeTypeOK(right)
  PROVE  /\ \A p : p \in DOMAIN Join(left, right) <=>
                     \/ \E q \in DOMAIN left : p = <<0>> \o q
                     \/ \E q \in DOMAIN right : p = <<1>> \o q
         /\ \A q \in DOMAIN left : Join(left, right)[<<0>> \o q] = left[q]
         /\ \A q \in DOMAIN right : Join(left, right)[<<1>> \o q] = right[q]
<1> DEFINE D == {<<0>> \o q : q \in DOMAIN left} \cup {<<1>> \o q : q \in DOMAIN right}
           t == Join(left, right)
<1>1. DOMAIN t = D /\ \A p \in D : t[p] = IF Head(p) = 0 THEN left[Tail(p)] ELSE right[Tail(p)]
  BY DEF Join
<1>2. DOMAIN left \subseteq Paths /\ DOMAIN right \subseteq Paths /\ 0 \in Bits /\ 1 \in Bits
  BY DEF TreeTypeOK, Paths, Bits
<1> HIDE DEF t
<1>3. ASSUME NEW q \in DOMAIN left PROVE t[<<0>> \o q] = left[q]
  <2>1. Head(<<0>> \o q) = 0 /\ Tail(<<0>> \o q) = q
    BY <1>2, ConsPath
  <2>2. <<0>> \o q \in D
    OBVIOUS
  <2> QED BY <1>1, <2>1, <2>2
<1>4. ASSUME NEW q \in DOMAIN right PROVE t[<<1>> \o q] = right[q]
  <2> DEFINE p == <<1>> \o q
  <2>1. Head(p) = 1 /\ Tail(p) = q
    BY <1>2, ConsPath
  <2>2. p \in D
    OBVIOUS
  <2> HIDE DEF p, D
  <2>3. t[p] = IF Head(p) = 0 THEN left[Tail(p)] ELSE right[Tail(p)]
    BY <1>1, <2>2
  <2>5. Head(p) # 0
    BY <2>1
  <2>4. t[p] = right[q]
    BY <2>1, <2>3, <2>5, Zenon
  <2> QED BY <2>4 DEF p
<1>5. \A p : p \in D <=> \/ \E q \in DOMAIN left : p = <<0>> \o q
                         \/ \E q \in DOMAIN right : p = <<1>> \o q
  OBVIOUS
<1> HIDE DEF D
<1>6. \A p : p \in DOMAIN t <=> \/ \E q \in DOMAIN left : p = <<0>> \o q
                                \/ \E q \in DOMAIN right : p = <<1>> \o q
  BY <1>1, <1>5, Zenon
<1> QED BY <1>3, <1>4, <1>6, Zenon DEF t

\* Tree t has tree of[0] under the left child of its root, and of[1] under the
\* right one.
IsJoined(t, of) ==
  /\ \A p : p \in DOMAIN t <=> \E b \in Bits : \E q \in DOMAIN of[b] : p = <<b>> \o q
  /\ \A b \in Bits : \A q \in DOMAIN of[b] : t[<<b>> \o q] = of[b][q]

LEMMA JoinJoins ==
  ASSUME NEW left, NEW right, FullTree(left), FullTree(right)
  PROVE  \E of : /\ of[0] = left /\ of[1] = right
                 /\ IsJoined(Join(left, right), of)
<1>3. TreeTypeOK(left) /\ TreeTypeOK(right)
  BY DEF FullTree
<1>1. /\ \A p : p \in DOMAIN Join(left, right) <=>
                  \/ \E q \in DOMAIN left : p = <<0>> \o q
                  \/ \E q \in DOMAIN right : p = <<1>> \o q
      /\ \A q \in DOMAIN left : Join(left, right)[<<0>> \o q] = left[q]
      /\ \A q \in DOMAIN right : Join(left, right)[<<1>> \o q] = right[q]
  <2>1. \A p : p \in DOMAIN Join(left, right) <=>
                 \/ \E q \in DOMAIN left : p = <<0>> \o q
                 \/ \E q \in DOMAIN right : p = <<1>> \o q
    BY <1>3, JoinedLeaves
  <2>2. \A q \in DOMAIN left : Join(left, right)[<<0>> \o q] = left[q]
    BY <1>3, JoinedLeaves
  <2>3. \A q \in DOMAIN right : Join(left, right)[<<1>> \o q] = right[q]
    BY <1>3, JoinedLeaves
  <2> QED BY <2>1, <2>2, <2>3
<1> DEFINE of == [b \in Bits |-> IF b = 0 THEN left ELSE right]
<1>2. of[0] = left /\ of[1] = right /\ Bits = {0, 1}
  BY DEF Bits
<1> HIDE DEF of
<1>4. IsJoined(Join(left, right), of)
  BY <1>1, <1>2 DEF IsJoined
<1> QED BY <1>2, <1>4

LEMMA JoinIsFull ==
  ASSUME NEW left, NEW right, FullTree(left), FullTree(right)
  PROVE  FullTree(Join(left, right))
<1> DEFINE t == Join(left, right)
<1>0. PICK of : of[0] = left /\ of[1] = right /\ IsJoined(t, of)
  BY JoinJoins
<1>10. t = [p \in DOMAIN t |-> t[p]]
  BY DEF Join
<1> DEFINE C(b) == of[b]
<1>1. /\ \A b \in Bits : FullTree(C(b))
      /\ \A p : p \in DOMAIN t <=> \E b \in Bits : \E q \in DOMAIN C(b) : p = <<b>> \o q
      /\ \A b \in Bits : \A q \in DOMAIN C(b) : t[<<b>> \o q] = C(b)[q]
  <2>1. \A b \in Bits : FullTree(C(b))
    BY <1>0 DEF Bits
  <2> QED BY <2>1, <1>0 DEF IsJoined
<1>2. 0 \in Bits /\ 1 \in Bits
  BY DEF Bits
<1> HIDE DEF t, C
<1>3. \A b \in Bits : \A q \in DOMAIN C(b) : q \in Paths /\ C(b)[q] \in Bytes
  BY <1>1 DEF FullTree, TreeTypeOK, Paths
<1>4. TreeTypeOK(t)
  <2>1. ASSUME NEW p \in DOMAIN t PROVE p \in Paths /\ t[p] \in Bytes
    <3>1. PICK b \in Bits : \E q \in DOMAIN C(b) : p = <<b>> \o q
      BY <1>1
    <3>2. PICK q \in DOMAIN C(b) : p = <<b>> \o q
      BY <3>1
    <3> QED BY <1>1, <1>3, <3>2, ConsPath
  <2> QED BY <2>1 DEF TreeTypeOK, Paths
<1>5. DOMAIN t # {}
  <2>1. PICK q \in DOMAIN C(0) : TRUE
    BY <1>1, <1>2 DEF FullTree
  <2> QED BY <1>1, <1>2, <2>1
<1>6. ASSUME NEW p \in DOMAIN t, NEW r \in DOMAIN t, OnWay(p, r) PROVE p = r
  <2>1. PICK b \in Bits : \E q \in DOMAIN C(b) : p = <<b>> \o q
    BY <1>1
  <2>2. PICK q \in DOMAIN C(b) : p = <<b>> \o q
    BY <2>1
  <2>3. PICK c \in Bits : \E s \in DOMAIN C(c) : r = <<c>> \o s
    BY <1>1
  <2>4. PICK s \in DOMAIN C(c) : r = <<c>> \o s
    BY <2>3
  <2>5. b = c /\ OnWay(q, s)
    BY <1>3, <1>6, <2>2, <2>4, ConsOnWay
  <2>6. q = s
    BY <1>1, <2>5 DEF FullTree
  <2> QED BY <2>2, <2>4, <2>5, <2>6
<1>7. ASSUME NEW b \in Bits, NEW q \in Nodes(C(b)) PROVE <<b>> \o q \in Nodes(t)
  <2>1. PICK r \in DOMAIN C(b) : q \in Paths /\ OnWay(q, r)
    BY <1>1, <1>7, NodeOnWay DEF FullTree
  <2>2. <<b>> \o r \in DOMAIN t /\ <<b>> \o q \in Paths
    BY <1>1, <2>1, ConsPath
  <2>3. OnWay(<<b>> \o q, <<b>> \o r)
    BY <1>3, <2>1, ConsOnWay
  <2> QED BY <1>4, <2>2, <2>3, NodeOnWay
<1>8. ASSUME NEW p \in Inner(t), NEW b \in Bits PROVE Append(p, b) \in Nodes(t)
  <2>1. CASE p = << >>
    <3>1. << >> \in Nodes(C(b))
      BY <1>1, RootIsNode
    <3>2. Append(p, b) = <<b>> \o << >>
      BY <2>1, <1>2, EmptyPath, ConsAppend
    <3> QED BY <1>7, <3>1, <3>2
  <2>2. CASE p # << >>
    <3>1. PICK r \in DOMAIN t : p \in Paths /\ OnWay(p, r) /\ p \notin DOMAIN t
      BY <1>4, <1>8, NodeOnWay
    <3>2. PICK c \in Bits : \E q \in Paths : p = <<c>> \o q
      BY <2>2, <3>1, ConsSplit
    <3>3. PICK q \in Paths : p = <<c>> \o q
      BY <3>2
    <3>4. PICK d \in Bits : \E s \in DOMAIN C(d) : r = <<d>> \o s
      BY <1>1
    <3>5. PICK s \in DOMAIN C(d) : r = <<d>> \o s
      BY <3>4
    <3>6. c = d /\ OnWay(q, s)
      BY <1>3, <3>1, <3>3, <3>5, ConsOnWay
    <3>7. q \notin DOMAIN C(c)
      BY <1>1, <3>1, <3>3
    <3>8. q \in Inner(C(c))
      BY <1>1, <3>6, <3>7, NodeOnWay DEF FullTree
    <3>9. Append(q, b) \in Nodes(C(c))
      BY <1>1, <3>8 DEF FullTree
    <3>10. Append(p, b) = <<c>> \o Append(q, b)
      BY <3>3, ConsAppend
    <3> QED BY <1>7, <3>9, <3>10
  <2> QED BY <2>1, <2>2
<1>9. \E n \in Nat : \A p \in DOMAIN t : Len(p) <= n
  <2>1. PICK m \in Nat : \A q \in DOMAIN C(0) : Len(q) <= m
    BY <1>1, <1>2 DEF FullTree
  <2>2. PICK n \in Nat : \A q \in DOMAIN C(1) : Len(q) <= n
    BY <1>1, <1>2 DEF FullTree
  <2>3. ASSUME NEW p \in DOMAIN t PROVE Len(p) <= m + n + 1
    <3>1. PICK b \in Bits : \E q \in DOMAIN C(b) : p = <<b>> \o q
      BY <1>1
    <3>2. PICK q \in DOMAIN C(b) : p = <<b>> \o q
      BY <3>1
    <3>3. Len(p) = Len(q) + 1 /\ Len(q) \in Nat
      BY <1>3, <3>2, ConsPath, PathProperties
    <3>4. Len(q) <= m \/ Len(q) <= n
      BY <2>1, <2>2 DEF Bits
    <3> QED BY <3>3, <3>4
  <2>4. m + n + 1 \in Nat
    OBVIOUS
  <2> QED BY <2>3, <2>4
<1> QED BY <1>4, <1>5, <1>6, <1>8, <1>9, <1>10 DEF FullTree, t

-----------------------------------------------------------------------------
(* The serialized tree.                                                    *)

\* What serializeTree writes from each node.
Serialized(t) ==
  LET from[p \in DOMAIN t \cup Inner(t)] ==
        IF p \in DOMAIN t THEN <<1>> \o BitsOf(t[p])
                          ELSE <<0>> \o from[Append(p, 0)] \o from[Append(p, 1)]
  IN  from

LEMMA SerializedFromRoot == \A t : SerializeTree(t) = Serialized(t)[<< >>]
BY Zenon DEF SerializeTree, Serialized

LEMMA DepthOfNodes ==
  ASSUME NEW t, FullTree(t)
  PROVE  \E n \in Nat : \A p \in Nodes(t) : Len(p) \in 0..n
<1>1. PICK n \in Nat : \A p \in DOMAIN t : Len(p) <= n
  BY DEF FullTree
<1>2. ASSUME NEW p \in Nodes(t) PROVE Len(p) \in 0..n
  <2>1. PICK q \in DOMAIN t : p \in Paths /\ OnWay(p, q)
    BY NodeOnWay DEF FullTree
  <2>2. q \in Paths
    BY DEF FullTree, TreeTypeOK, Paths
  <2>3. Len(p) <= Len(q) /\ Len(q) <= n /\ Len(p) \in Nat /\ Len(q) \in Nat
    BY <1>1, <2>1, <2>2, PathProperties DEF OnWay
  <2> QED BY <2>3
<1> QED BY <1>2

LEMMA ChildNodes ==
  ASSUME NEW t, FullTree(t), NEW p \in Inner(t), NEW b \in Bits
  PROVE  /\ p \in Paths /\ p \in Nodes(t) /\ p \notin DOMAIN t
         /\ Append(p, b) \in Nodes(t) /\ Len(Append(p, b)) = Len(p) + 1
<1>1. p \in Paths /\ p \in Nodes(t) /\ p \notin DOMAIN t
  BY NodeOnWay DEF FullTree
<1>2. Append(p, b) \in Nodes(t)
  BY DEF FullTree
<1> QED BY <1>1, <1>2, AppendPath

LEMMA SerializedExists ==
  ASSUME NEW t, FullTree(t)
  PROVE  \E f : f = [p \in Nodes(t) |->
                       IF p \in DOMAIN t THEN <<1>> \o BitsOf(t[p])
                                         ELSE <<0>> \o f[Append(p, 0)] \o f[Append(p, 1)]]
<1> DEFINE e(f, p) == IF p \in DOMAIN t THEN <<1>> \o BitsOf(t[p])
                                        ELSE <<0>> \o f[Append(p, 0)] \o f[Append(p, 1)]
           D(k) == {p \in Nodes(t) : Len(p) >= k}
           S == {k \in Nat : \E f : f = [p \in D(k) |-> e(f, p)]}
<1>1. PICK n \in Nat : \A p \in Nodes(t) : Len(p) \in 0..n
  BY DepthOfNodes
<1>2. n + 1 \in S
  <2> DEFINE f == [p \in D(n + 1) |-> 0]
  <2>1. D(n + 1) = {}
    BY <1>1
  <2>2. f = [p \in D(n + 1) |-> e(f, p)]
    <3> HIDE DEF D, e
    <3> QED BY <2>1
  <2>3. n + 1 \in Nat
    OBVIOUS
  <2> HIDE DEF f, e, D
  <2> QED BY <2>2, <2>3
<1>3. ASSUME NEW k \in 0..n, k + 1 \in S PROVE k \in S
  <2>1. PICK f : f = [p \in D(k + 1) |-> e(f, p)]
    BY <1>3
  <2> DEFINE g == [p \in D(k) |-> e(f, p)]
  <2>2. ASSUME NEW p \in D(k + 1) PROVE g[p] = f[p]
    <3>1. p \in D(k)
      BY <1>1
    <3>2. f[p] = e(f, p)
      <4> HIDE DEF e, D
      <4> QED BY <2>1
    <3> HIDE DEF e, D
    <3> QED BY <3>1, <3>2
  <2>3. ASSUME NEW p \in D(k) PROVE e(f, p) = e(g, p)
    <3>1. CASE p \in DOMAIN t
      BY <3>1
    <3>2. CASE p \notin DOMAIN t
      <4>1. p \in Inner(t)
        BY <3>2, NodeOnWay DEF FullTree
      <4>2. ASSUME NEW b \in Bits PROVE Append(p, b) \in D(k + 1)
        BY <1>1, <4>1, ChildNodes
      <4>3. 0 \in Bits /\ 1 \in Bits
        BY DEF Bits
      <4> HIDE DEF D, g
      <4> QED BY <2>2, <3>2, <4>2, <4>3
    <3> QED BY <3>1, <3>2
  <2>4. g = [p \in D(k) |-> e(g, p)]
    <3>1. g = [p \in D(k) |-> e(f, p)]
      OBVIOUS
    <3> HIDE DEF g, e, D
    <3> QED BY <3>1, <2>3
  <2> HIDE DEF g, e, D
  <2> QED BY <2>4
<1>4. \A k \in 0..(n + 1) : k \in S
  <2> HIDE DEF S
  <2>1. \A k \in 0..n : k + 1 \in S => k \in S
    BY <1>3
  <2>2. n + 1 \in Nat /\ (n + 1) - 1 = n
    OBVIOUS
  <2> QED BY <1>2, <2>1, <2>2, DownFrom
<1>5. PICK f : f = [p \in D(0) |-> e(f, p)]
  <2> HIDE DEF S
  <2>1. 0 \in 0..(n + 1)
    OBVIOUS
  <2>2. 0 \in S
    BY <1>4, <2>1
  <2> HIDE DEF D, e
  <2> QED BY <2>2 DEF S
<1>6. D(0) = Nodes(t)
  BY <1>1
<1> QED BY <1>5, <1>6

LEMMA SerializedNode ==
  ASSUME NEW t, FullTree(t)
  PROVE  /\ \A p \in DOMAIN t : Serialized(t)[p] = <<1>> \o BitsOf(t[p])
         /\ \A p \in Inner(t) :
              Serialized(t)[p] = <<0>> \o Serialized(t)[Append(p, 0)] \o Serialized(t)[Append(p, 1)]
<1> DEFINE f == Serialized(t)
<1>1. f = [p \in Nodes(t) |-> IF p \in DOMAIN t THEN <<1>> \o BitsOf(t[p])
                              ELSE <<0>> \o f[Append(p, 0)] \o f[Append(p, 1)]]
  BY SerializedExists, Zenon DEF Serialized, Nodes
<1> HIDE DEF f
<1>2. \A p \in Nodes(t) : f[p] = IF p \in DOMAIN t THEN <<1>> \o BitsOf(t[p])
                                 ELSE <<0>> \o f[Append(p, 0)] \o f[Append(p, 1)]
  BY <1>1, Zenon
<1>3. DOMAIN t \subseteq Nodes(t) /\ \A p \in Inner(t) : p \in Nodes(t) /\ p \notin DOMAIN t
  BY NodeOnWay DEF FullTree, Nodes
<1> QED BY <1>2, <1>3, Zenon DEF f

LEMMA SerializedType ==
  ASSUME NEW t, FullTree(t), NEW p \in Nodes(t)
  PROVE  Serialized(t)[p] \in Seq(Bits)
<1> DEFINE f == Serialized(t)
           S == {k \in Nat : \A q \in Nodes(t) : Len(q) >= k => f[q] \in Seq(Bits)}
<1>1. PICK n \in Nat : \A q \in Nodes(t) : Len(q) \in 0..n
  BY DepthOfNodes
<1>2. n + 1 \in S
  BY <1>1
<1>3. <<0>> \in Seq(Bits) /\ <<1>> \in Seq(Bits) /\ 0 \in Bits /\ 1 \in Bits
  BY DEF Bits
<1>4. ASSUME NEW k \in 0..n, k + 1 \in S, NEW q \in Nodes(t), Len(q) >= k PROVE f[q] \in Seq(Bits)
  <2>1. CASE q \in DOMAIN t
    <3>1. f[q] = <<1>> \o BitsOf(t[q])
      BY <2>1, SerializedNode
    <3>2. t[q] \in Bytes
      BY <2>1 DEF FullTree, TreeTypeOK
    <3>3. BitsOf(t[q]) \in Seq(Bits)
      BY <3>2, BitsOfType
    <3> HIDE DEF f
    <3> QED BY <3>1, <3>3, <1>3, ConcatProperties
  <2>2. CASE q \notin DOMAIN t
    <3>1. q \in Inner(t)
      BY <2>2, NodeOnWay DEF FullTree
    <3>2. f[q] = <<0>> \o f[Append(q, 0)] \o f[Append(q, 1)]
      BY <3>1, SerializedNode
    <3>3. ASSUME NEW b \in Bits PROVE f[Append(q, b)] \in Seq(Bits)
      <4>1. Append(q, b) \in Nodes(t) /\ Len(Append(q, b)) >= k + 1
        BY <1>1, <1>4, <3>1, ChildNodes
      <4> QED BY <1>4, <4>1
    <3> HIDE DEF f
    <3>4. <<0>> \o f[Append(q, 0)] \in Seq(Bits)
      BY <1>3, <3>3, ConcatProperties
    <3> QED BY <3>2, <3>4, <1>3, <3>3, ConcatProperties
  <2> QED BY <2>1, <2>2
<1>5. \A k \in 0..(n + 1) : k \in S
  <2>1. \A k \in 0..n : k + 1 \in S => k \in S
    BY <1>4
  <2> HIDE DEF S
  <2>2. n + 1 \in Nat /\ (n + 1) - 1 = n
    OBVIOUS
  <2> QED BY <1>2, <2>1, <2>2, DownFrom
<1>6. 0 \in S /\ Len(p) >= 0
  BY <1>1, <1>5
<1> QED BY <1>6

-----------------------------------------------------------------------------
(* Where each node is in the serialized tree.                              *)

Parent(p) == SubSeq(p, 1, Len(p) - 1)

\* The bits in front of what serializeTree writes for each node.
Start(t) ==
  LET start[p \in Nodes(t)] ==
        IF p = << >> THEN 0
        ELSE IF p[Len(p)] = 0 THEN start[Parent(p)] + 1
        ELSE start[Parent(p)] + 1 + Len(Serialized(t)[Append(Parent(p), 0)])
  IN  start

Size(t, p) == Len(Serialized(t)[p])

LEMMA ParentOfChild ==
  ASSUME NEW p \in Paths, NEW b \in Bits
  PROVE  Parent(Append(p, b)) = p /\ Append(p, b)[Len(Append(p, b))] = b /\ Append(p, b) # << >>
<1> DEFINE q == Append(p, b)
<1>1. /\ q \in Paths /\ Len(q) = Len(p) + 1 /\ Len(p) \in Nat
      /\ \A i \in 1..Len(p) : q[i] = p[i]
      /\ q[Len(p) + 1] = b
  BY AppendPath, PathProperties
<1> HIDE DEF q
<1>2. Len(q) - 1 = Len(p) /\ Len(p) \in 0..Len(q)
  BY <1>1
<1>3. Parent(q) = p
  <2>1. /\ SubSeq(q, 1, Len(p)) \in Paths /\ Len(SubSeq(q, 1, Len(p))) = Len(p)
        /\ \A i \in 1..Len(p) : SubSeq(q, 1, Len(p))[i] = q[i]
    BY <1>1, <1>2, FirstPart
  <2>2. SubSeq(q, 1, Len(p)) = p
    BY <1>1, <2>1, SamePath
  <2> QED BY <1>2, <2>2 DEF Parent
<1>4. q # << >>
  BY <1>1, EmptyPath
<1> QED BY <1>1, <1>3, <1>4 DEF q

LEMMA ParentOfPath ==
  ASSUME NEW p \in Paths, p # << >>
  PROVE  /\ Parent(p) \in Paths /\ Len(p) = Len(Parent(p)) + 1 /\ Len(p) \in Nat \ {0}
         /\ p[Len(p)] \in Bits /\ p = Append(Parent(p), p[Len(p)])
         /\ OnWay(Parent(p), p)
<1> DEFINE a == Parent(p)
<1>1. Len(p) \in Nat \ {0} /\ \A i \in 1..Len(p) : p[i] \in Bits
  BY EmptyPath, PathProperties
<1>2. a \in Paths /\ Len(a) = Len(p) - 1 /\ \A i \in 1..(Len(p) - 1) : a[i] = p[i]
  <2>1. Len(p) - 1 \in 0..Len(p)
    BY <1>1
  <2> QED BY <2>1, FirstPart DEF Parent
<1> HIDE DEF a
<1>3. p[Len(p)] \in Bits
  BY <1>1
<1>4. /\ Append(a, p[Len(p)]) \in Paths /\ Len(Append(a, p[Len(p)])) = Len(p)
      /\ \A i \in 1..Len(p) : Append(a, p[Len(p)])[i] = p[i]
  <2>1. /\ Append(a, p[Len(p)]) \in Paths /\ Len(Append(a, p[Len(p)])) = Len(a) + 1
        /\ \A i \in 1..Len(a) : Append(a, p[Len(p)])[i] = a[i]
        /\ Append(a, p[Len(p)])[Len(a) + 1] = p[Len(p)]
    BY <1>2, <1>3, AppendPath
  <2>2. Len(a) + 1 = Len(p)
    BY <1>1, <1>2
  <2>3. \A i \in 1..Len(p) : i \in 1..(Len(p) - 1) \/ i = Len(p)
    BY <1>1
  <2> QED BY <1>2, <2>1, <2>2, <2>3
<1>5. p = Append(a, p[Len(p)])
  BY <1>4, SamePath
<1>6. OnWay(a, p)
  BY <1>1, <1>2 DEF OnWay
<1>7. Len(p) = Len(a) + 1
  BY <1>1, <1>2
<1> QED BY <1>1, <1>2, <1>3, <1>5, <1>6, <1>7 DEF a

LEMMA ParentNode ==
  ASSUME NEW t, FullTree(t), NEW p \in Nodes(t), p # << >>
  PROVE  /\ p \in Paths /\ Parent(p) \in Inner(t) /\ Parent(p) \in Paths /\ Parent(p) \in Nodes(t)
         /\ p[Len(p)] \in Bits /\ p = Append(Parent(p), p[Len(p)])
         /\ Len(p) = Len(Parent(p)) + 1
<1>1. p \in Paths
  BY NodeOnWay DEF FullTree
<1>2. /\ Parent(p) \in Paths /\ Len(p) = Len(Parent(p)) + 1 /\ Len(p) \in Nat \ {0}
      /\ p[Len(p)] \in Bits /\ p = Append(Parent(p), p[Len(p)])
      /\ OnWay(Parent(p), p)
  BY <1>1, ParentOfPath
<1>3. p # Parent(p)
  <2>1. Len(Parent(p)) \in Nat /\ Len(p) # Len(Parent(p))
    BY <1>2, PathProperties
  <2> QED BY <2>1
<1> QED BY <1>1, <1>2, <1>3, NodesAbove

LEMMA StartExists ==
  ASSUME NEW t, FullTree(t)
  PROVE  \E f : f = [p \in Nodes(t) |->
                       IF p = << >> THEN 0
                       ELSE IF p[Len(p)] = 0 THEN f[Parent(p)] + 1
                       ELSE f[Parent(p)] + 1 + Len(Serialized(t)[Append(Parent(p), 0)])]
<1> DEFINE e(f, p) == IF p = << >> THEN 0
                      ELSE IF p[Len(p)] = 0 THEN f[Parent(p)] + 1
                      ELSE f[Parent(p)] + 1 + Len(Serialized(t)[Append(Parent(p), 0)])
           D(k) == {p \in Nodes(t) : Len(p) <= k}
           S == {k \in Nat : \E f : f = [p \in D(k) |-> e(f, p)]}
<1>1. PICK n \in Nat : \A p \in Nodes(t) : Len(p) \in 0..n
  BY DepthOfNodes
<1>2. 0 \in S
  <2> DEFINE f == [p \in D(0) |-> 0]
  <2>1. ASSUME NEW p \in D(0) PROVE e(f, p) = 0
    <3>1. Len(p) = 0 /\ p \in Paths
      BY <1>1, NodeOnWay DEF FullTree
    <3>2. p = << >>
      BY <3>1, EmptyPath
    <3> QED BY <3>2
  <2>2. f = [p \in D(0) |-> e(f, p)]
    <3>1. f = [p \in D(0) |-> 0]
      OBVIOUS
    <3> HIDE DEF f, e, D
    <3> QED BY <2>1, <3>1
  <2> HIDE DEF f, e, D
  <2> QED BY <2>2
<1>3. ASSUME NEW k \in 0..(n - 1), k \in S PROVE k + 1 \in S
  <2>1. PICK f : f = [p \in D(k) |-> e(f, p)]
    BY <1>3
  <2> DEFINE g == [p \in D(k + 1) |-> e(f, p)]
  <2>2. ASSUME NEW p \in D(k) PROVE g[p] = f[p]
    <3>1. p \in D(k + 1)
      BY <1>1
    <3>2. f[p] = e(f, p)
      <4> HIDE DEF e, D
      <4> QED BY <2>1
    <3> HIDE DEF e, D
    <3> QED BY <3>1, <3>2
  <2>3. ASSUME NEW p \in D(k + 1) PROVE e(f, p) = e(g, p)
    <3>1. CASE p = << >>
      BY <3>1
    <3>2. CASE p # << >>
      <4>1. Parent(p) \in D(k)
        BY <1>1, <3>2, ParentNode
      <4>2. g[Parent(p)] = f[Parent(p)]
        BY <2>2, <4>1
      <4> HIDE DEF D, g
      <4> QED BY <4>2
    <3> QED BY <3>1, <3>2
  <2>4. g = [p \in D(k + 1) |-> e(g, p)]
    <3>1. g = [p \in D(k + 1) |-> e(f, p)]
      OBVIOUS
    <3> HIDE DEF g, e, D
    <3> QED BY <3>1, <2>3
  <2>5. k + 1 \in Nat
    OBVIOUS
  <2> HIDE DEF g, e, D
  <2> QED BY <2>4, <2>5
<1>4. n \in S
  <2> HIDE DEF S
  <2>1. \A k \in 0..n : k \in S
    BY <1>2, <1>3, UpTo
  <2> QED BY <2>1
<1>5. D(n) = Nodes(t)
  BY <1>1
<1>6. PICK f : f = [p \in D(n) |-> e(f, p)]
  <2> HIDE DEF D, e
  <2> QED BY <1>4
<1> QED BY <1>5, <1>6

LEMMA StartSteps ==
  ASSUME NEW t, FullTree(t)
  PROVE  /\ Start(t)[<< >>] = 0
         /\ \A p \in Inner(t) :
              /\ Start(t)[Append(p, 0)] = Start(t)[p] + 1
              /\ Start(t)[Append(p, 1)] = Start(t)[p] + 1 + Size(t, Append(p, 0))
<1> DEFINE f == Start(t)
<1>1. f = [p \in Nodes(t) |->
            IF p = << >> THEN 0
            ELSE IF p[Len(p)] = 0 THEN f[Parent(p)] + 1
            ELSE f[Parent(p)] + 1 + Len(Serialized(t)[Append(Parent(p), 0)])]
  BY StartExists, Zenon DEF Start
<1> HIDE DEF f
<1>2. \A p \in Nodes(t) : f[p] = IF p = << >> THEN 0
            ELSE IF p[Len(p)] = 0 THEN f[Parent(p)] + 1
            ELSE f[Parent(p)] + 1 + Len(Serialized(t)[Append(Parent(p), 0)])
  BY <1>1, Zenon
<1>3. f[<< >>] = 0
  BY <1>2, RootIsNode
<1>4. ASSUME NEW p \in Inner(t)
      PROVE  /\ f[Append(p, 0)] = f[p] + 1
             /\ f[Append(p, 1)] = f[p] + 1 + Size(t, Append(p, 0))
  <2>1. 0 \in Bits /\ 1 \in Bits
    BY DEF Bits
  <2>2. p \in Paths /\ Append(p, 0) \in Nodes(t) /\ Append(p, 1) \in Nodes(t)
    BY <2>1, ChildNodes
  <2>3. f[Append(p, 0)] = f[p] + 1
    <3> DEFINE q == Append(p, 0)
    <3>1. q # << >> /\ q[Len(q)] = 0 /\ Parent(q) = p /\ q \in Nodes(t)
      BY <2>1, <2>2, ParentOfChild
    <3> HIDE DEF q
    <3>2. f[q] = f[p] + 1
      BY <1>2, <3>1
    <3> QED BY <3>2 DEF q
  <2>4. f[Append(p, 1)] = f[p] + 1 + Size(t, Append(p, 0))
    <3> DEFINE q == Append(p, 1)
    <3>1. q # << >> /\ q[Len(q)] # 0 /\ Parent(q) = p /\ q \in Nodes(t)
      BY <2>1, <2>2, ParentOfChild
    <3> HIDE DEF q
    <3>2. f[q] = f[p] + 1 + Len(Serialized(t)[Append(p, 0)])
      BY <1>2, <3>1
    <3> QED BY <3>2 DEF q, Size
  <2> QED BY <2>3, <2>4
<1> QED BY <1>3, <1>4 DEF f

LEMMA ThreeParts ==
  ASSUME NEW c \in Bits, NEW a \in Seq(Bits), NEW b \in Seq(Bits)
  PROVE  /\ Len(<<c>> \o a \o b) = 1 + Len(a) + Len(b)
         /\ (<<c>> \o a \o b)[1] = c
         /\ \A j \in 1..Len(a) : (<<c>> \o a \o b)[1 + j] = a[j]
         /\ \A j \in 1..Len(b) : (<<c>> \o a \o b)[1 + Len(a) + j] = b[j]
<1> DEFINE s == <<c>> \o a
           u == s \o b
<1>1. Len(a) \in Nat /\ Len(b) \in Nat
  OBVIOUS
<1>2. s \in Seq(Bits) /\ Len(s) = Len(a) + 1 /\ s[1] = c /\ \A j \in 1..Len(a) : s[j + 1] = a[j]
  BY ConsPath DEF Paths
<1> HIDE DEF s
<1>3. /\ Len(u) = Len(s) + Len(b)
      /\ \A i \in 1..(Len(s) + Len(b)) : u[i] = IF i <= Len(s) THEN s[i] ELSE b[i - Len(s)]
  BY <1>2, ConcatProperties
<1> HIDE DEF u
<1>4. u[1] = c
  BY <1>1, <1>2, <1>3
<1>5. ASSUME NEW j \in 1..Len(a) PROVE u[1 + j] = a[j]
  <2>1. 1 + j \in 1..(Len(s) + Len(b)) /\ 1 + j <= Len(s) /\ 1 + j = j + 1
    BY <1>1, <1>2
  <2> QED BY <1>2, <1>3, <2>1
<1>6. ASSUME NEW j \in 1..Len(b) PROVE u[1 + Len(a) + j] = b[j]
  <2>1. /\ 1 + Len(a) + j \in 1..(Len(s) + Len(b)) /\ ~ (1 + Len(a) + j <= Len(s))
        /\ (1 + Len(a) + j) - Len(s) = j
    BY <1>1, <1>2
  <2> QED BY <1>3, <2>1
<1>7. Len(u) = 1 + Len(a) + Len(b)
  BY <1>1, <1>2, <1>3
<1> QED BY <1>4, <1>5, <1>6, <1>7 DEF u, s

\* What is written for an inner node, and for a leaf.
LEMMA InnerBits ==
  ASSUME NEW t, FullTree(t), NEW p \in Inner(t)
  PROVE  /\ Size(t, p) = 1 + Size(t, Append(p, 0)) + Size(t, Append(p, 1))
         /\ Serialized(t)[p][1] = 0
         /\ \A j \in 1..Size(t, Append(p, 0)) : Serialized(t)[p][1 + j] = Serialized(t)[Append(p, 0)][j]
         /\ \A j \in 1..Size(t, Append(p, 1)) :
              Serialized(t)[p][1 + Size(t, Append(p, 0)) + j] = Serialized(t)[Append(p, 1)][j]
<1> DEFINE f == Serialized(t)
<1>1. 0 \in Bits /\ 1 \in Bits
  BY DEF Bits
<1>2. Append(p, 0) \in Nodes(t) /\ Append(p, 1) \in Nodes(t)
  BY <1>1, ChildNodes
<1>3. f[Append(p, 0)] \in Seq(Bits) /\ f[Append(p, 1)] \in Seq(Bits)
  BY <1>2, SerializedType
<1>4. f[p] = <<0>> \o f[Append(p, 0)] \o f[Append(p, 1)]
  BY SerializedNode
<1> HIDE DEF f
<1> DEFINE a == f[Append(p, 0)]
           b == f[Append(p, 1)]
<1> HIDE DEF a, b
<1>5. /\ Len(f[p]) = 1 + Len(a) + Len(b)
      /\ f[p][1] = 0
      /\ \A j \in 1..Len(a) : f[p][1 + j] = a[j]
      /\ \A j \in 1..Len(b) : f[p][1 + Len(a) + j] = b[j]
  <2>1. a \in Seq(Bits) /\ b \in Seq(Bits) /\ f[p] = <<0>> \o a \o b
    BY <1>3, <1>4 DEF a, b
  <2> QED BY <1>1, <2>1, ThreeParts
<1> QED BY <1>5 DEF Size, f, a, b

LEMMA LeafBits ==
  ASSUME NEW t, FullTree(t), NEW p \in DOMAIN t
  PROVE  /\ Size(t, p) = 1 + ByteBits
         /\ Serialized(t)[p][1] = 1
         /\ \A j \in 1..ByteBits : Serialized(t)[p][1 + j] = BitsOf(t[p])[j]
<1>1. t[p] \in Bytes
  BY DEF FullTree, TreeTypeOK
<1>2. BitsOf(t[p]) \in Seq(Bits) /\ Len(BitsOf(t[p])) = ByteBits /\ ByteBits \in Nat \ {0}
  BY <1>1, BitsOfType, BitsAndBytes
<1>3. Serialized(t)[p] = <<1>> \o BitsOf(t[p])
  BY SerializedNode
<1> DEFINE a == BitsOf(t[p])
<1> HIDE DEF a
<1>4. /\ Len(<<1>> \o a) = Len(a) + 1 /\ (<<1>> \o a)[1] = 1
      /\ \A j \in 1..Len(a) : (<<1>> \o a)[j + 1] = a[j]
  <2>1. a \in Paths /\ 1 \in Bits
    BY <1>2 DEF a, Paths, Bits
  <2> QED BY <2>1, ConsPath
<1>5. Len(a) = ByteBits /\ \A j \in 1..ByteBits : j + 1 = 1 + j
  BY <1>2 DEF a
<1> HIDE DEF a
<1>6. Len(<<1>> \o a) = 1 + ByteBits
  BY <1>2, <1>4, <1>5
<1>7. \A j \in 1..ByteBits : (<<1>> \o a)[1 + j] = a[j]
  BY <1>4, <1>5
<1> QED BY <1>3, <1>4, <1>6, <1>7 DEF Size, a

LEMMA SizeType ==
  ASSUME NEW t, FullTree(t), NEW p \in Nodes(t)
  PROVE  Size(t, p) \in Nat \ {0}
<1>1. Size(t, p) \in Nat
  BY SerializedType DEF Size
<1>2. CASE p \in DOMAIN t
  BY <1>1, <1>2, LeafBits, BitsAndBytes
<1>3. CASE p \in Inner(t)
  <2>1. Append(p, 0) \in Nodes(t) /\ Append(p, 1) \in Nodes(t)
    BY <1>3, ChildNodes DEF Bits
  <2>2. Size(t, Append(p, 0)) \in Nat /\ Size(t, Append(p, 1)) \in Nat
    BY <2>1, SerializedType DEF Size
  <2> QED BY <1>1, <1>3, <2>2, InnerBits
<1> QED BY <1>2, <1>3 DEF Nodes

\* What is written for a node is a part of what is written for the tree.
LEMMA StartSound ==
  ASSUME NEW t, FullTree(t)
  PROVE  \A p \in Nodes(t) :
           /\ Start(t)[p] \in Nat
           /\ Start(t)[p] + Size(t, p) <= Size(t, << >>)
           /\ \A j \in 1..Size(t, p) : Serialized(t)[<< >>][Start(t)[p] + j] = Serialized(t)[p][j]
<1> DEFINE s == Start(t)
           f == Serialized(t)
           Good(p) == /\ s[p] \in Nat
                      /\ s[p] + Size(t, p) <= Size(t, << >>)
                      /\ \A j \in 1..Size(t, p) : f[<< >>][s[p] + j] = f[p][j]
           S == {k \in Nat : \A p \in Nodes(t) : Len(p) = k => Good(p)}
<1>1. PICK n \in Nat : \A p \in Nodes(t) : Len(p) \in 0..n
  BY DepthOfNodes
<1>2. 0 \in S
  <2> SUFFICES ASSUME NEW p \in Nodes(t), Len(p) = 0 PROVE Good(p)
    OBVIOUS
  <2>1. p = << >>
    BY NodeOnWay, EmptyPath DEF FullTree
  <2>2. s[p] = 0 /\ Size(t, p) \in Nat
    BY <2>1, StartSteps, SizeType
  <2> HIDE DEF s, f
  <2>3. \A j \in 1..Size(t, p) : s[p] + j = j
    BY <2>2
  <2> QED BY <2>1, <2>2, <2>3
<1>3. ASSUME NEW k \in 0..(n - 1), k \in S PROVE k + 1 \in S
  <2> SUFFICES ASSUME NEW q \in Nodes(t), Len(q) = k + 1 PROVE Good(q)
    OBVIOUS
  <2> DEFINE p == Parent(q)
  <2>1. q # << >>
    BY EmptyPath
  <2>2. p \in Inner(t) /\ p \in Nodes(t) /\ q[Len(q)] \in Bits /\ q = Append(p, q[Len(q)]) /\ Len(q) = Len(p) + 1
    BY <2>1, ParentNode
  <2>3. Len(p) = k
    BY <1>1, <2>2
  <2>4. Good(p)
    BY <1>3, <2>2, <2>3
  <2> DEFINE l == Append(p, 0)
             r == Append(p, 1)
  <2>5. l \in Nodes(t) /\ r \in Nodes(t)
    BY <2>2, ChildNodes DEF Bits
  <2>6. Size(t, l) \in Nat /\ Size(t, r) \in Nat /\ Size(t, p) \in Nat /\ Size(t, << >>) \in Nat
    BY <2>2, <2>5, SizeType, RootIsNode
  <2>7. s[l] = s[p] + 1 /\ s[r] = s[p] + 1 + Size(t, l)
    BY <2>2, StartSteps
  <2>8. /\ Size(t, p) = 1 + Size(t, l) + Size(t, r)
        /\ \A j \in 1..Size(t, l) : f[p][1 + j] = f[l][j]
        /\ \A j \in 1..Size(t, r) : f[p][1 + Size(t, l) + j] = f[r][j]
    BY <2>2, InnerBits
  <2>9. q = l \/ q = r
    BY <2>2 DEF Bits
  <2> HIDE DEF s, f, p, l, r
  <2>10. Good(l)
    <3>1. s[l] \in Nat /\ s[l] + Size(t, l) <= Size(t, << >>)
      BY <2>4, <2>6, <2>7, <2>8
    <3>2. ASSUME NEW j \in 1..Size(t, l) PROVE f[<< >>][s[l] + j] = f[l][j]
      <4>1. 1 + j \in 1..Size(t, p) /\ s[l] + j = s[p] + (1 + j)
        <5>1. s[p] \in Nat /\ Size(t, p) = 1 + Size(t, l) + Size(t, r)
          BY <2>4, <2>8
        <5> QED BY <2>6, <2>7, <5>1
      <4>2. f[<< >>][s[p] + (1 + j)] = f[p][1 + j]
        BY <2>4, <4>1
      <4> QED BY <2>8, <4>1, <4>2
    <3> QED BY <3>1, <3>2
  <2>11. Good(r)
    <3>1. s[r] \in Nat /\ s[r] + Size(t, r) <= Size(t, << >>)
      BY <2>4, <2>6, <2>7, <2>8
    <3>2. ASSUME NEW j \in 1..Size(t, r) PROVE f[<< >>][s[r] + j] = f[r][j]
      <4> DEFINE i == 1 + Size(t, l) + j
      <4>1. i \in 1..Size(t, p) /\ s[r] + j = s[p] + i
        <5>1. s[p] \in Nat /\ Size(t, p) = 1 + Size(t, l) + Size(t, r)
          BY <2>4, <2>8
        <5>2. i \in 1..Size(t, p)
          BY <2>6, <5>1
        <5>3. s[r] + j = s[p] + i
          BY <2>6, <2>7, <5>1
        <5> QED BY <5>2, <5>3
      <4>3. f[p][i] = f[r][j]
        BY <2>8
      <4> HIDE DEF i
      <4>2. f[<< >>][s[p] + i] = f[p][i]
        BY <2>4, <4>1
      <4> QED BY <4>1, <4>2, <4>3
    <3> QED BY <3>1, <3>2
  <2> QED BY <2>9, <2>10, <2>11
<1>4. \A k \in 0..n : k \in S
  <2> HIDE DEF S
  <2> QED BY <1>2, <1>3, UpTo
<1>5. \A p \in Nodes(t) : Good(p)
  <2> HIDE DEF Good
  <2> QED BY <1>1, <1>4
<1> QED BY <1>5

\* Where what is written for a node ends.
End(t, p) == Start(t)[p] + Size(t, p)

LEMMA ChildParts ==
  ASSUME NEW t, FullTree(t), NEW p \in Inner(t)
  PROVE  /\ Start(t)[Append(p, 0)] = Start(t)[p] + 1
         /\ Start(t)[Append(p, 1)] = End(t, Append(p, 0))
         /\ End(t, Append(p, 1)) = End(t, p)
         /\ \A b \in Bits : /\ Start(t)[p] <= Start(t)[Append(p, b)]
                            /\ End(t, Append(p, b)) <= End(t, p)
<1> DEFINE l == Append(p, 0)
           r == Append(p, 1)
<1>1. l \in Nodes(t) /\ r \in Nodes(t) /\ p \in Nodes(t)
  BY ChildNodes DEF Bits
<1>2. Start(t)[l] = Start(t)[p] + 1 /\ Start(t)[r] = Start(t)[p] + 1 + Size(t, l)
  BY StartSteps
<1>3. Size(t, p) = 1 + Size(t, l) + Size(t, r)
  BY InnerBits
<1>4. /\ Start(t)[p] \in Nat /\ Start(t)[l] \in Nat /\ Start(t)[r] \in Nat
      /\ Size(t, l) \in Nat /\ Size(t, r) \in Nat
  BY <1>1, SizeType, StartSound
<1> HIDE DEF l, r
<1>5. Start(t)[r] = End(t, l) /\ End(t, r) = End(t, p)
  BY <1>2, <1>3, <1>4 DEF End
<1>6. \A b \in Bits : b = 0 \/ b = 1
  BY DEF Bits
<1>7. /\ Start(t)[p] <= Start(t)[l] /\ Start(t)[p] <= Start(t)[r]
      /\ End(t, l) <= End(t, p) /\ End(t, r) <= End(t, p)
  BY <1>2, <1>3, <1>4 DEF End
<1>8. Start(t)[l] = Start(t)[p] + 1
  BY <1>2
<1> QED BY <1>5, <1>6, <1>7, <1>8 DEF l, r

LEMMA EndType ==
  ASSUME NEW t, FullTree(t), NEW p \in Nodes(t)
  PROVE  /\ Start(t)[p] \in Nat /\ End(t, p) \in Nat /\ Start(t)[p] < End(t, p)
         /\ End(t, p) <= Size(t, << >>) /\ Size(t, << >>) \in Nat
<1>1. Size(t, p) \in Nat \ {0} /\ Size(t, << >>) \in Nat
  BY SizeType, RootIsNode
<1>2. Start(t)[p] \in Nat /\ Start(t)[p] + Size(t, p) <= Size(t, << >>)
  BY StartSound
<1> QED BY <1>1, <1>2 DEF End

\* What is written for a node is within what is written for those above it.
LEMMA PartsNest ==
  ASSUME NEW t, FullTree(t)
  PROVE  \A p, q \in Nodes(t) :
           OnWay(p, q) => Start(t)[p] <= Start(t)[q] /\ End(t, q) <= End(t, p)
<1> DEFINE s == Start(t)
           Good(p, q) == s[p] <= s[q] /\ End(t, q) <= End(t, p)
           S == {k \in Nat : \A p, q \in Nodes(t) : Len(q) = k /\ OnWay(p, q) => Good(p, q)}
<1>1. PICK n \in Nat : \A p \in Nodes(t) : Len(p) \in 0..n
  BY DepthOfNodes
<1>2. \A p \in Nodes(t) : p \in Paths /\ s[p] \in Nat /\ End(t, p) \in Nat
  BY NodeOnWay, EndType DEF FullTree
<1>3. 0 \in S
  <2> SUFFICES ASSUME NEW p \in Nodes(t), NEW q \in Nodes(t), Len(q) = 0, OnWay(p, q) PROVE Good(p, q)
    OBVIOUS
  <2>1. p = q
    <3>1. q = << >>
      BY <1>2, EmptyPath
    <3>2. Len(p) = 0
      BY <1>1 DEF OnWay
    <3> QED BY <1>2, <3>1, <3>2, EmptyPath
  <2> HIDE DEF s
  <2> QED BY <1>2, <2>1
<1>4. ASSUME NEW k \in 0..(n - 1), k \in S PROVE k + 1 \in S
  <2> SUFFICES ASSUME NEW p \in Nodes(t), NEW q \in Nodes(t), Len(q) = k + 1, OnWay(p, q) PROVE Good(p, q)
    OBVIOUS
  <2>1. CASE p = q
    <3> HIDE DEF s
    <3> QED BY <1>2, <2>1
  <2>2. CASE p # q
    <3> DEFINE a == Parent(q)
    <3>1. q # << >>
      BY EmptyPath
    <3>2. a \in Inner(t) /\ a \in Nodes(t) /\ q[Len(q)] \in Bits /\ q = Append(a, q[Len(q)]) /\ Len(q) = Len(a) + 1
      BY <3>1, ParentNode
    <3>3. Len(a) = k
      BY <1>1, <3>2
    <3>4. OnWay(p, a)
      <4>1. Len(p) # Len(q)
        BY <1>2, <2>2, SamePath DEF OnWay
      <4>2. Len(p) <= Len(a)
        BY <1>1, <3>2, <4>1 DEF OnWay
      <4>3. \A i \in 1..Len(a) : q[i] = a[i]
        BY <1>2, <3>2, AppendPath
      <4>4. \A i \in 1..Len(p) : i \in 1..Len(a)
        BY <1>1, <3>2, <4>2
      <4> HIDE DEF a
      <4> QED BY <4>2, <4>3, <4>4 DEF OnWay
    <3>5. Good(p, a)
      BY <1>4, <3>2, <3>3, <3>4
    <3>6. s[a] <= s[q] /\ End(t, q) <= End(t, a)
      BY <3>2, ChildParts
    <3> HIDE DEF s, a
    <3> QED BY <1>2, <3>2, <3>5, <3>6
  <2> QED BY <2>1, <2>2
<1>5. \A k \in 0..n : k \in S
  <2> HIDE DEF S
  <2> QED BY <1>3, <1>4, UpTo
<1> HIDE DEF Good
<1> SUFFICES ASSUME NEW p \in Nodes(t), NEW q \in Nodes(t), OnWay(p, q) PROVE Good(p, q)
  BY DEF Good
<1> QED BY <1>1, <1>5

\* Two paths of which neither is on the way to the other part at a node.
LEMMA PathsPart ==
  ASSUME NEW p \in Paths, NEW q \in Paths, ~OnWay(p, q), ~OnWay(q, p)
  PROVE  \E a \in Paths : \/ OnWay(Append(a, 0), p) /\ OnWay(Append(a, 1), q)
                          \/ OnWay(Append(a, 1), p) /\ OnWay(Append(a, 0), q)
<1>1. Len(p) \in Nat /\ Len(q) \in Nat
  BY PathProperties
<1> DEFINE S == {i \in 1..Len(p) : i <= Len(q) /\ p[i] # q[i]}
<1>2. S # {}
  <2> SUFFICES ASSUME S = {} PROVE FALSE
    OBVIOUS
  <2>1. \A i \in 1..Len(p) : i <= Len(q) => p[i] = q[i]
    OBVIOUS
  <2>2. CASE Len(p) <= Len(q)
    BY <1>1, <2>1, <2>2 DEF OnWay
  <2>3. CASE Len(q) <= Len(p)
    BY <1>1, <2>1, <2>3 DEF OnWay
  <2> QED BY <1>1, <2>2, <2>3
<1>3. PICK i \in S : \A j \in S : i <= j
  <2>1. S \subseteq Nat
    BY <1>1
  <2> HIDE DEF S
  <2> QED BY <1>2, <2>1, LeastNumber
<1> DEFINE a == SubSeq(p, 1, i - 1)
<1>4. /\ i \in 1..Len(p) /\ i \in 1..Len(q) /\ p[i] # q[i] /\ i - 1 \in 0..Len(p)
      /\ \A j \in 1..(i - 1) : p[j] = q[j]
  <2>1. i \in 1..Len(p) /\ i \in 1..Len(q) /\ p[i] # q[i] /\ i - 1 \in 0..Len(p)
    BY <1>1
  <2>2. ASSUME NEW j \in 1..(i - 1) PROVE p[j] = q[j]
    <3>1. j \in 1..Len(p) /\ j <= Len(q) /\ ~(i <= j)
      BY <1>1, <2>1
    <3> QED BY <1>3, <3>1
  <2> QED BY <2>1, <2>2
<1>5. a \in Paths /\ Len(a) = i - 1 /\ \A j \in 1..(i - 1) : a[j] = p[j]
  BY <1>4, FirstPart
<1>6. p[i] \in Bits /\ q[i] \in Bits
  BY <1>4, PathProperties
<1> HIDE DEF a
<1>7. ASSUME NEW r \in Paths, i \in 1..Len(r), r[i] \in Bits, \A j \in 1..(i - 1) : a[j] = r[j]
      PROVE  OnWay(Append(a, r[i]), r)
  <2> DEFINE u == Append(a, r[i])
  <2>1. /\ Len(u) = Len(a) + 1 /\ \A j \in 1..Len(a) : u[j] = a[j]
        /\ u[Len(a) + 1] = r[i]
    BY <1>5, <1>7, AppendPath
  <2> HIDE DEF u
  <2>2. Len(u) = i /\ u[i] = r[i] /\ Len(r) \in Nat
    BY <1>4, <1>5, <1>7, <2>1, PathProperties
  <2>3. \A j \in 1..i : j \in 1..(i - 1) \/ j = i
    BY <1>4
  <2>4. \A j \in 1..i : u[j] = r[j]
    BY <1>5, <1>7, <2>1, <2>2, <2>3
  <2>5. i <= Len(r)
    BY <1>7, <2>2
  <2> QED BY <2>2, <2>4, <2>5 DEF OnWay, u
<1>8. OnWay(Append(a, p[i]), p)
  BY <1>4, <1>5, <1>6, <1>7
<1>9. OnWay(Append(a, q[i]), q)
  <2>1. \A j \in 1..(i - 1) : a[j] = q[j]
    BY <1>4, <1>5
  <2> QED BY <1>4, <1>6, <1>7, <2>1
<1>10. (p[i] = 0 /\ q[i] = 1) \/ (p[i] = 1 /\ q[i] = 0)
  BY <1>4, <1>6 DEF Bits
<1> QED BY <1>5, <1>8, <1>9, <1>10

\* No two leaves are written to one place.
LEMMA LeavesApart ==
  ASSUME NEW t, FullTree(t), NEW p \in DOMAIN t, NEW q \in DOMAIN t, p # q
  PROVE  End(t, p) <= Start(t)[q] \/ End(t, q) <= Start(t)[p]
<1>1. p \in Paths /\ q \in Paths /\ ~OnWay(p, q) /\ ~OnWay(q, p) /\ p \in Nodes(t) /\ q \in Nodes(t)
  BY DEF FullTree, TreeTypeOK, Paths, Nodes
<1>2. PICK a \in Paths : \/ OnWay(Append(a, 0), p) /\ OnWay(Append(a, 1), q)
                         \/ OnWay(Append(a, 1), p) /\ OnWay(Append(a, 0), q)
  BY <1>1, PathsPart
<1>3. ASSUME NEW x \in DOMAIN t, NEW y \in DOMAIN t, x \in Paths, y \in Paths,
             OnWay(Append(a, 0), x), OnWay(Append(a, 1), y)
      PROVE  End(t, x) <= Start(t)[y]
  <2> DEFINE l == Append(a, 0)
             r == Append(a, 1)
  <2>1. l \in Paths /\ r \in Paths /\ 0 \in Bits /\ Len(l) = Len(a) + 1 /\ Len(a) \in Nat
        /\ \A i \in 1..Len(a) : l[i] = a[i]
    BY AppendPath, PathProperties DEF Bits
  <2>2. l \in Nodes(t) /\ r \in Nodes(t) /\ x \in Nodes(t) /\ y \in Nodes(t)
    BY <1>3, <2>1, NodeOnWay DEF FullTree, Nodes
  <2> HIDE DEF l, r
  <2>3. OnWay(a, l) /\ a # l
    BY <2>1 DEF OnWay
  <2>4. a \in Inner(t)
    BY <2>2, <2>3, NodesAbove
  <2>5. Start(t)[r] = End(t, l)
    BY <2>4, ChildParts DEF l, r
  <2>6. End(t, x) <= End(t, l) /\ Start(t)[r] <= Start(t)[y]
    BY <1>3, <2>2, PartsNest DEF l, r
  <2>7. End(t, x) \in Nat /\ End(t, l) \in Nat /\ Start(t)[y] \in Nat
    BY <2>2, EndType
  <2> QED BY <2>5, <2>6, <2>7
<1> QED BY <1>1, <1>2, <1>3

\* Where recursiveBuildTree goes on after the leaf at p is where what is
\* written for the leaf ends.
ReturnsTo(t, p) ==
  IF Turns(p) = {} THEN End(t, p) = Size(t, << >>)
                   ELSE /\ Return(p) \in Nodes(t)
                        /\ Return(p) # << >>
                        /\ Start(t)[Return(p)] = End(t, p)

LEMMA LastLeftIsLast ==
  ASSUME NEW p \in Paths, NEW i \in Turns(p), \A j \in Turns(p) : j <= i
  PROVE  LastLeft(p) = i
<1>1. Len(p) \in Nat /\ Turns(p) \subseteq 1..Len(p)
  BY PathProperties DEF Turns
<1>2. \A k \in Turns(p) : (\A j \in Turns(p) : j <= k) => k = i
  BY <1>1
<1> QED BY <1>2, Zenon DEF LastLeft

LEMMA TurnsOfLeft ==
  ASSUME NEW a \in Paths
  PROVE  Turns(Append(a, 0)) # {} /\ Return(Append(a, 0)) = Append(a, 1)
<1> DEFINE p == Append(a, 0)
           n == Len(a) + 1
<1>1. /\ p \in Paths /\ Len(p) = n /\ n \in Nat /\ p[n] = 0 /\ n \in 1..n /\ n - 1 = Len(a)
      /\ \A i \in 1..Len(a) : p[i] = a[i]
  <2>1. 0 \in Bits /\ Len(a) \in Nat
    BY PathProperties DEF Bits
  <2>2. /\ p \in Paths /\ Len(p) = n /\ p[n] = 0
        /\ \A i \in 1..Len(a) : p[i] = a[i]
    BY <2>1, AppendPath
  <2>3. n \in Nat /\ n \in 1..n /\ n - 1 = Len(a)
    BY <2>1
  <2> QED BY <2>2, <2>3
<1>2. Parent(p) = a
  BY ParentOfChild DEF Bits
<1> HIDE DEF p, n
<1>3. n \in Turns(p) /\ \A j \in Turns(p) : j <= n
  BY <1>1 DEF Turns
<1>4. LastLeft(p) = n
  BY <1>1, <1>3, LastLeftIsLast
<1>5. Turns(p) # {}
  BY <1>3
<1>6. Return(p) = Append(Parent(p), 1)
  BY <1>1, <1>4, <1>5 DEF Return, Parent
<1> QED BY <1>2, <1>5, <1>6 DEF p

LEMMA TurnsOfRight ==
  ASSUME NEW a \in Paths
  PROVE  Turns(Append(a, 1)) = Turns(a) /\ Return(Append(a, 1)) = Return(a)
<1> DEFINE p == Append(a, 1)
<1>1. /\ p \in Paths /\ Len(p) = Len(a) + 1 /\ Len(a) \in Nat /\ p[Len(a) + 1] = 1
      /\ \A i \in 1..Len(a) : p[i] = a[i]
  BY AppendPath, PathProperties DEF Bits
<1> HIDE DEF p
<1>2. Turns(p) = Turns(a)
  <2>1. ASSUME NEW i \in Turns(p) PROVE i \in Turns(a)
    <3>1. i \in 1..(Len(a) + 1) /\ p[i] = 0
      BY <1>1 DEF Turns
    <3>2. p[Len(a) + 1] # 0
      BY <1>1
    <3>3. i # Len(a) + 1
      BY <3>1, <3>2
    <3>4. i \in 1..Len(a)
      BY <1>1, <3>1, <3>3
    <3> QED BY <1>1, <3>1, <3>4 DEF Turns
  <2>2. ASSUME NEW i \in Turns(a) PROVE i \in Turns(p)
    <3>1. i \in 1..Len(a) /\ a[i] = 0 /\ i \in 1..(Len(a) + 1)
      BY <1>1 DEF Turns
    <3> QED BY <1>1, <3>1 DEF Turns
  <2> QED BY <2>1, <2>2
<1>3. LastLeft(p) = LastLeft(a)
  BY <1>2 DEF LastLeft
<1>4. CASE Turns(a) = {}
  <2>1. Turns(p) = {}
    BY <1>2, <1>4
  <2>2. Return(p) = << >> /\ Return(a) = << >>
    BY <1>4, <2>1, Zenon DEF Return
  <2> QED BY <1>2, <2>2 DEF p
<1>5. CASE Turns(a) # {}
  <2>1. PICK i \in Turns(a) : \A j \in Turns(a) : j <= i
    <3>1. Turns(a) \subseteq 1..Len(a)
      BY DEF Turns
    <3>2. \A j \in {Len(a) - k : k \in Turns(a)} : j \in Nat
      BY <1>1, <3>1
    <3>3. PICK m \in {Len(a) - k : k \in Turns(a)} : \A j \in {Len(a) - k : k \in Turns(a)} : m <= j
      <4> DEFINE M == {Len(a) - k : k \in Turns(a)}
      <4>1. M # {} /\ M \subseteq Nat
        BY <1>5, <3>2
      <4> HIDE DEF M
      <4>2. \E m \in M : \A j \in M : m <= j
        BY <4>1, LeastNumber
      <4> QED BY <4>2 DEF M
    <3>4. PICK i \in Turns(a) : m = Len(a) - i
      BY <3>3
    <3>5. ASSUME NEW j \in Turns(a) PROVE j <= i
      <4>1. m <= Len(a) - j
        BY <3>3
      <4>2. i \in Nat /\ j \in Nat
        BY <1>1, <3>1
      <4> QED BY <1>1, <3>4, <4>1, <4>2
    <3> QED BY <3>4, <3>5
  <2>2. LastLeft(a) = i
    BY <2>1, LastLeftIsLast
  <2>3. i \in 1..Len(a) /\ i - 1 \in 0..Len(a) /\ i - 1 \in 0..Len(p)
    BY <1>1, <2>1 DEF Turns
  <2>4. SubSeq(p, 1, i - 1) = SubSeq(a, 1, i - 1)
    <3>1. /\ SubSeq(p, 1, i - 1) \in Paths /\ Len(SubSeq(p, 1, i - 1)) = i - 1
          /\ \A j \in 1..(i - 1) : SubSeq(p, 1, i - 1)[j] = p[j]
      BY <1>1, <2>3, FirstPart
    <3>2. /\ SubSeq(a, 1, i - 1) \in Paths /\ Len(SubSeq(a, 1, i - 1)) = i - 1
          /\ \A j \in 1..(i - 1) : SubSeq(a, 1, i - 1)[j] = a[j]
      BY <1>1, <2>3, FirstPart
    <3>3. \A j \in 1..(i - 1) : j \in 1..Len(a)
      BY <1>1, <2>3
    <3>4. \A j \in 1..(i - 1) : SubSeq(p, 1, i - 1)[j] = SubSeq(a, 1, i - 1)[j]
      BY <1>1, <3>1, <3>2, <3>3
    <3> QED BY <3>1, <3>2, <3>4, SamePath
  <2>5. Turns(p) # {}
    BY <1>2, <1>5
  <2>6. /\ Return(p) = Append(SubSeq(p, 1, LastLeft(p) - 1), 1)
        /\ Return(a) = Append(SubSeq(a, 1, LastLeft(a) - 1), 1)
    BY <1>5, <2>5, Zenon DEF Return
  <2> QED BY <1>2, <1>3, <2>2, <2>4, <2>6 DEF p
<1> QED BY <1>4, <1>5

LEMMA ReturnType ==
  ASSUME NEW p \in Paths
  PROVE  Return(p) \in Paths /\ (Turns(p) # {} => Return(p) # << >>)
<1> DEFINE S == {k \in Nat : \A q \in Paths : Len(q) = k =>
                   Return(q) \in Paths /\ (Turns(q) # {} => Return(q) # << >>)}
<1>1. 0 \in S
  <2> SUFFICES ASSUME NEW q \in Paths, Len(q) = 0
               PROVE  Return(q) \in Paths /\ (Turns(q) # {} => Return(q) # << >>)
    OBVIOUS
  <2>1. Turns(q) = {}
    BY DEF Turns
  <2> QED BY <2>1, EmptyPath DEF Return
<1>2. ASSUME NEW k \in 0..(Len(p) - 1), k \in S PROVE k + 1 \in S
  <2> SUFFICES ASSUME NEW q \in Paths, Len(q) = k + 1
               PROVE  Return(q) \in Paths /\ (Turns(q) # {} => Return(q) # << >>)
    BY PathProperties
  <2> DEFINE a == Parent(q)
  <2>1. q # << >>
    BY EmptyPath, PathProperties
  <2>2. a \in Paths /\ Len(q) = Len(a) + 1 /\ q[Len(q)] \in Bits /\ q = Append(a, q[Len(q)])
    BY <2>1, ParentOfPath
  <2>3. Len(a) = k
    BY <2>2, PathProperties
  <2> HIDE DEF a
  <2>4. CASE q = Append(a, 0)
    <3>1. Append(a, 1) \in Paths /\ Append(a, 1) # << >>
      BY <2>2, AppendPath, ParentOfChild DEF Bits
    <3> QED BY <2>2, <2>4, <3>1, TurnsOfLeft
  <2>5. CASE q = Append(a, 1)
    <3>1. Return(a) \in Paths /\ (Turns(a) # {} => Return(a) # << >>)
      BY <1>2, <2>2, <2>3
    <3> QED BY <2>2, <2>5, <3>1, TurnsOfRight
  <2> QED BY <2>2, <2>4, <2>5 DEF Bits
<1>3. \A k \in 0..Len(p) : k \in S
  <2> HIDE DEF S
  <2> QED BY <1>1, <1>2, UpTo, PathProperties
<1>4. Len(p) \in S
  BY <1>3, PathProperties
<1> QED BY <1>4

LEMMA ReturnSound ==
  ASSUME NEW t, FullTree(t)
  PROVE  \A p \in Nodes(t) : ReturnsTo(t, p)
<1> DEFINE S == {k \in Nat : \A p \in Nodes(t) : Len(p) = k => ReturnsTo(t, p)}
<1>1. PICK n \in Nat : \A p \in Nodes(t) : Len(p) \in 0..n
  BY DepthOfNodes
<1>2. 0 \in S
  <2> SUFFICES ASSUME NEW p \in Nodes(t), Len(p) = 0 PROVE ReturnsTo(t, p)
    OBVIOUS
  <2>1. p = << >>
    BY NodeOnWay, EmptyPath DEF FullTree
  <2>2. Turns(p) = {}
    BY <2>1 DEF Turns
  <2>3. Start(t)[p] = 0 /\ Size(t, p) \in Nat
    BY <2>1, StartSteps, SizeType
  <2>4. End(t, p) = Size(t, << >>)
    BY <2>1, <2>3 DEF End
  <2> QED BY <2>2, <2>4 DEF ReturnsTo
<1>3. ASSUME NEW k \in 0..(n - 1), k \in S PROVE k + 1 \in S
  <2> SUFFICES ASSUME NEW q \in Nodes(t), Len(q) = k + 1 PROVE ReturnsTo(t, q)
    OBVIOUS
  <2> DEFINE a == Parent(q)
  <2>1. q # << >>
    BY EmptyPath
  <2>2. a \in Paths /\ a \in Inner(t) /\ a \in Nodes(t) /\ q[Len(q)] \in Bits
        /\ q = Append(a, q[Len(q)]) /\ Len(q) = Len(a) + 1
    BY <2>1, ParentNode
  <2>3. Len(a) = k
    BY <1>1, <2>2
  <2>4. ReturnsTo(t, a)
    BY <1>3, <2>2, <2>3
  <2>5. Append(a, 1) \in Nodes(t) /\ Append(a, 1) # << >>
    BY <2>2, ChildNodes, ParentOfChild DEF Bits
  <2>6. Start(t)[Append(a, 1)] = End(t, Append(a, 0)) /\ End(t, Append(a, 1)) = End(t, a)
    BY <2>2, ChildParts
  <2> HIDE DEF a
  <2>7. CASE q = Append(a, 0)
    <3>1. Turns(q) # {} /\ Return(q) = Append(a, 1)
      BY <2>2, <2>7, TurnsOfLeft
    <3> QED BY <2>5, <2>6, <2>7, <3>1 DEF ReturnsTo
  <2>8. CASE q = Append(a, 1)
    <3>1. Turns(q) = Turns(a) /\ Return(q) = Return(a)
      BY <2>2, <2>8, TurnsOfRight
    <3> QED BY <2>4, <2>6, <2>8, <3>1 DEF ReturnsTo
  <2> QED BY <2>2, <2>7, <2>8 DEF Bits
<1>4. \A k \in 0..n : k \in S
  <2> HIDE DEF S
  <2> QED BY <1>2, <1>3, UpTo
<1> QED BY <1>1, <1>4

-----------------------------------------------------------------------------
(* The file.                                                               *)

\* What packing does: whole bytes, the bits in front.
LEMMA PackFacts ==
  ASSUME NEW bs \in Seq(Bits)
  PROVE  /\ Pack(bs) \in Seq(Bits)
         /\ Len(Pack(bs)) \in Len(bs)..(Len(bs) + ByteBits - 1)
         /\ \A i \in 1..Len(bs) : Pack(bs)[i] = bs[i]
         /\ TreeSize(bs) \in Nat
         /\ Len(Pack(bs)) = ByteBits * TreeSize(bs)
<1> DEFINE n == Len(bs)
           k == Padding(n)
           z == [i \in 1..k |-> 0]
<1>1. n \in Nat
  OBVIOUS
<1>2. k \in 0..(ByteBits - 1) /\ ByteBits \in Nat \ {0}
  BY <1>1, PaddingFills, BitsAndBytes
<1>3. PICK q \in Nat : n + k = ByteBits * q
  BY <1>1, PaddingFills
<1> HIDE DEF k
<1>4. z \in Seq(Bits) /\ Len(z) = k
  BY <1>2 DEF Bits
<1>5. Pack(bs) = bs \o z
  BY DEF Pack, k
<1> HIDE DEF z
<1>6. /\ Pack(bs) \in Seq(Bits)
      /\ Len(Pack(bs)) = Len(bs) + Len(z)
      /\ \A i \in 1..(Len(bs) + Len(z)) : Pack(bs)[i] = IF i <= Len(bs) THEN bs[i] ELSE z[i - Len(bs)]
  BY <1>4, <1>5, ConcatProperties
<1>7. \A i \in 1..Len(bs) : Pack(bs)[i] = bs[i]
  BY <1>1, <1>2, <1>4, <1>6
<1>8. Len(Pack(bs)) = n + k
  BY <1>4, <1>6
<1>9. TreeSize(bs) = q
  BY <1>2, <1>3, <1>8, Multiple DEF TreeSize
<1>10. Len(Pack(bs)) = ByteBits * TreeSize(bs)
  BY <1>3, <1>8, <1>9
<1>11. Len(Pack(bs)) \in Len(bs)..(Len(bs) + ByteBits - 1)
  BY <1>1, <1>2, <1>8
<1> QED BY <1>6, <1>7, <1>9, <1>10, <1>11

LEMMA PackNothing == Pack(<< >>) = << >>
<1>1. << >> \in Seq(Bits) /\ Len(<< >>) = 0
  OBVIOUS
<1>2. ByteBits \in Nat \ {0}
  BY BitsAndBytes
<1> DEFINE e == << >>
<1> HIDE DEF e
<1>3. e \in Seq(Bits) /\ Len(e) = 0
  BY <1>1 DEF e
<1>6. /\ TreeSize(e) \in Nat /\ Len(Pack(e)) = ByteBits * TreeSize(e)
      /\ Len(Pack(e)) \in 0..(0 + ByteBits - 1)
      /\ Pack(e) \in Seq(Bits)
  BY <1>3, PackFacts
<1> DEFINE q == TreeSize(e)
           l == Len(Pack(e))
           b == ByteBits
<1>7. q \in Nat /\ l = b * q /\ l \in Nat /\ l < b /\ b \in Nat
  BY <1>2, <1>6
<1> HIDE DEF q, l, b
<1>8. q = 0
  <2>1. q >= 1 => b * q >= b
    BY <1>7
  <2> QED BY <1>7, <2>1
<1>9. l = 0
  BY <1>7, <1>8
<1>10. Pack(e) = << >>
  BY <1>6, <1>9, EmptyPath DEF l, Paths
<1> QED BY <1>10 DEF e

\* Encrypted bits are bits, as many, and encrypting a beginning of them again
\* gives the bits.
LEMMA EncryptFacts ==
  ASSUME NEW nonce, NEW bs \in Seq(Bits)
  PROVE  /\ Encrypt(bs, nonce) \in Seq(Bits)
         /\ Len(Encrypt(bs, nonce)) = Len(bs)
         /\ \A i \in 1..Len(bs) :
              Encrypt(bs, nonce)[i] = IF Pattern(nonce, i) = 1 THEN 1 - bs[i] ELSE bs[i]
<1> DEFINE e == [i \in 1..Len(bs) |-> IF Pattern(nonce, i) = 1 THEN 1 - bs[i] ELSE bs[i]]
<1>1. Len(bs) \in Nat /\ \A i \in 1..Len(bs) : bs[i] \in Bits
  OBVIOUS
<1>2. \A i \in 1..Len(bs) : (IF Pattern(nonce, i) = 1 THEN 1 - bs[i] ELSE bs[i]) \in Bits
  BY <1>1 DEF Bits
<1>3. e \in Seq(Bits) /\ Len(e) = Len(bs)
  BY <1>1, <1>2
<1>4. \A i \in 1..Len(bs) : e[i] = IF Pattern(nonce, i) = 1 THEN 1 - bs[i] ELSE bs[i]
  OBVIOUS
<1>5. e = Encrypt(bs, nonce)
  BY DEF Encrypt
<1> HIDE DEF e
<1> QED BY <1>3, <1>4, <1>5

LEMMA DecryptsAgain ==
  ASSUME NEW nonce, NEW bs \in Seq(Bits), NEW part \in Seq(Bits), Len(part) <= Len(bs),
         \A i \in 1..Len(part) : part[i] = Encrypt(bs, nonce)[i]
  PROVE  \A i \in 1..Len(part) : Encrypt(part, nonce)[i] = bs[i]
<1> SUFFICES ASSUME NEW i \in 1..Len(part) PROVE Encrypt(part, nonce)[i] = bs[i]
  OBVIOUS
<1>1. i \in 1..Len(bs) /\ bs[i] \in Bits
  OBVIOUS
<1>2. part[i] = IF Pattern(nonce, i) = 1 THEN 1 - bs[i] ELSE bs[i]
  BY <1>1, EncryptFacts
<1>3. Encrypt(part, nonce)[i] = IF Pattern(nonce, i) = 1 THEN 1 - part[i] ELSE part[i]
  BY EncryptFacts
<1>4. CASE Pattern(nonce, i) = 1
  BY <1>1, <1>2, <1>3, <1>4 DEF Bits
<1>5. CASE Pattern(nonce, i) # 1
  BY <1>1, <1>2, <1>3, <1>5
<1> QED BY <1>4, <1>5

LEMMA MinOfTwo ==
  ASSUME NEW a \in Nat, NEW b \in Nat
  PROVE  Min({a, b}) = IF a <= b THEN a ELSE b
<1> DEFINE m == IF a <= b THEN a ELSE b
<1>1. m \in {a, b} /\ \A y \in {a, b} : m <= y
  OBVIOUS
<1>2. \A x \in {a, b} : (\A y \in {a, b} : x <= y) => x = m
  OBVIOUS
<1> HIDE DEF m
<1>3. Min({a, b}) = m
  BY <1>1, <1>2, Zenon DEF Min
<1> QED BY <1>3 DEF m

\* The first m bits of a after b, and what is in front of and behind a's end.
LEMMA CutBits ==
  ASSUME NEW a \in Seq(Bits), NEW b \in Seq(Bits), NEW m \in 0..(Len(a) + Len(b))
  PROVE  /\ SubSeq(a \o b, 1, m) \in Seq(Bits)
         /\ Len(SubSeq(a \o b, 1, m)) = m
         /\ \A i \in 1..m : SubSeq(a \o b, 1, m)[i] = IF i <= Len(a) THEN a[i] ELSE b[i - Len(a)]
<1> DEFINE s == a \o b
<1>1. /\ s \in Seq(Bits)
      /\ Len(s) = Len(a) + Len(b)
      /\ \A i \in 1..(Len(a) + Len(b)) : s[i] = IF i <= Len(a) THEN a[i] ELSE b[i - Len(a)]
  BY ConcatProperties
<1>2. Len(a) \in Nat /\ Len(b) \in Nat
  OBVIOUS
<1> HIDE DEF s
<1>3. /\ SubSeq(s, 1, m) \in Paths /\ Len(SubSeq(s, 1, m)) = m
      /\ \A i \in 1..m : SubSeq(s, 1, m)[i] = s[i]
  BY <1>1, <1>2, FirstPart DEF Paths
<1>4. \A i \in 1..m : i \in 1..(Len(a) + Len(b))
  BY <1>2
<1> QED BY <1>1, <1>3, <1>4 DEF s, Paths

LEMMA LaterPart ==
  ASSUME NEW s \in Seq(Bits), NEW k \in 0..Len(s)
  PROVE  /\ SubSeq(s, k + 1, Len(s)) \in Seq(Bits)
         /\ Len(SubSeq(s, k + 1, Len(s))) = Len(s) - k
         /\ \A i \in 1..(Len(s) - k) : SubSeq(s, k + 1, Len(s))[i] = s[k + i]
<1> DEFINE m == k + 1
           n == Len(s)
<1>1. /\ n \in Nat /\ m \in Int /\ n \in Int /\ (m <= n => n - m + 1 = n - k)
      /\ (~(m <= n) => n - k = 0) /\ n - m + 1 = n - k
  OBVIOUS
<1>2. \A i \in m..n : s[i] \in Bits
  OBVIOUS
<1>3. /\ SubSeq(s, m, n) \in Seq(Bits)
      /\ Len(SubSeq(s, m, n)) = IF m <= n THEN n - m + 1 ELSE 0
      /\ \A i \in 1..(n - m + 1) : SubSeq(s, m, n)[i] = s[m + i - 1]
  <2> HIDE DEF m, n
  <2> QED BY <1>1, <1>2, SubSeqProperties
<1>4. Len(SubSeq(s, m, n)) = n - k
  BY <1>1, <1>3
<1>5. \A i \in 1..(n - k) : m + i - 1 = k + i
  OBVIOUS
<1>6. \A i \in 1..(n - k) : SubSeq(s, m, n)[i] = s[k + i]
  BY <1>1, <1>3, <1>5
<1> QED BY <1>3, <1>4, <1>6

-----------------------------------------------------------------------------
(* The encoded file.                                                       *)

\* Where the parts of a concatenation begin and end.
IsOffset(off, seqs) ==
  /\ off[0] = 0
  /\ \A k \in 0..Len(seqs) : off[k] \in Nat
  /\ \A k \in 1..Len(seqs) : off[k] = off[k - 1] + Len(seqs[k])
  /\ FlattenSeq(seqs) \in Seq(Bits)
  /\ Len(FlattenSeq(seqs)) = off[Len(seqs)]
  /\ \A k \in 1..Len(seqs) : \A j \in 1..Len(seqs[k]) : FlattenSeq(seqs)[off[k - 1] + j] = seqs[k][j]

Offset(seqs) == CHOOSE off : IsOffset(off, seqs)

LEMMA FlattenExists ==
  ASSUME NEW seqs, NEW n \in Nat
  PROVE  \E f : f = [i \in 1..n |-> IF i = 1 THEN seqs[i] ELSE f[i - 1] \o seqs[i]]
<1> DEFINE e(f, i) == IF i = 1 THEN seqs[i] ELSE f[i - 1] \o seqs[i]
           S == {k \in Nat : \E f : f = [i \in 1..k |-> e(f, i)]}
<1>1. 0 \in S
  <2> DEFINE f == [i \in {} |-> 0]
  <2>1. 1..0 = {}
    OBVIOUS
  <2>2. f = [i \in 1..0 |-> e(f, i)]
    <3> HIDE DEF e
    <3> QED BY <2>1
  <2> HIDE DEF f, e
  <2> QED BY <2>2
<1>2. ASSUME NEW k \in 0..(n - 1), k \in S PROVE k + 1 \in S
  <2>1. PICK f : f = [i \in 1..k |-> e(f, i)]
    BY <1>2
  <2> DEFINE g == [i \in 1..(k + 1) |-> e(f, i)]
  <2>2. ASSUME NEW i \in 1..k PROVE g[i] = f[i]
    <3>1. i \in 1..(k + 1)
      OBVIOUS
    <3>2. f[i] = e(f, i)
      <4> HIDE DEF e
      <4> QED BY <2>1
    <3> HIDE DEF e
    <3> QED BY <3>1, <3>2
  <2>3. ASSUME NEW i \in 1..(k + 1) PROVE e(f, i) = e(g, i)
    <3>1. CASE i = 1
      BY <3>1
    <3>2. CASE i # 1
      <4>1. i - 1 \in 1..k
        BY <3>2
      <4>2. g[i - 1] = f[i - 1]
        BY <2>2, <4>1
      <4> HIDE DEF g
      <4> QED BY <4>2
    <3> QED BY <3>1, <3>2
  <2>4. g = [i \in 1..(k + 1) |-> e(g, i)]
    <3>1. g = [i \in 1..(k + 1) |-> e(f, i)]
      OBVIOUS
    <3> HIDE DEF g, e
    <3> QED BY <2>3, <3>1
  <2>5. k + 1 \in Nat
    OBVIOUS
  <2> HIDE DEF g, e
  <2> QED BY <2>4, <2>5
<1>3. n \in S
  <2> HIDE DEF S
  <2>1. \A k \in 0..n : k \in S
    BY <1>1, <1>2, UpTo
  <2> QED BY <2>1
<1> QED BY <1>3

LEMMA OffsetExists ==
  ASSUME NEW seqs, Len(seqs) \in Nat \ {0}, \A k \in 1..Len(seqs) : seqs[k] \in Seq(Bits)
  PROVE  IsOffset(Offset(seqs), seqs)
<1> DEFINE n == Len(seqs)
           F == CHOOSE f : f = [i \in 1..n |-> IF i = 1 THEN seqs[i] ELSE f[i - 1] \o seqs[i]]
           off == [k \in 0..n |-> IF k = 0 THEN 0 ELSE Len(F[k])]
<1>1. n \in Nat \ {0} /\ \A k \in 1..n : seqs[k] \in Seq(Bits) /\ Len(seqs[k]) \in Nat
  OBVIOUS
<1>2. F = [i \in 1..n |-> IF i = 1 THEN seqs[i] ELSE F[i - 1] \o seqs[i]]
  <2>1. n \in Nat
    BY <1>1
  <2>2. \E f : f = [i \in 1..n |-> IF i = 1 THEN seqs[i] ELSE f[i - 1] \o seqs[i]]
    BY <2>1, FlattenExists
  <2> QED BY <2>2, Zenon
<1>3. FlattenSeq(seqs) = F[n]
  <2>1. ~(Len(seqs) = 0)
    BY <1>1
  <2> QED BY <2>1, Zenon DEF FlattenSeq
<1> HIDE DEF F, n
<1>4. /\ F[1] = seqs[1]
      /\ \A k \in 1..(n - 1) : F[k + 1] = F[k] \o seqs[k + 1]
  <2>1. \A i \in 1..n : F[i] = IF i = 1 THEN seqs[i] ELSE F[i - 1] \o seqs[i]
    BY <1>2, Zenon
  <2>2. 1 \in 1..n
    BY <1>1
  <2>3. ASSUME NEW k \in 1..(n - 1) PROVE F[k + 1] = F[k] \o seqs[k + 1]
    <3>1. k + 1 \in 1..n /\ k + 1 # 1 /\ (k + 1) - 1 = k
      BY <1>1
    <3> QED BY <2>1, <3>1
  <2>4. F[1] = seqs[1]
    BY <2>1, <2>2
  <2> QED BY <2>3, <2>4
<1> DEFINE Good(k) == /\ F[k] \in Seq(Bits)
                      /\ Len(F[k]) = off[k] /\ off[k] \in Nat
                      /\ off[k] = off[k - 1] + Len(seqs[k])
                      /\ \A m \in 1..k : /\ off[m - 1] \in Nat
                                         /\ off[m - 1] + Len(seqs[m]) <= off[k]
                                         /\ \A j \in 1..Len(seqs[m]) : F[k][off[m - 1] + j] = seqs[m][j]
           S == {k \in Nat : k = 0 \/ Good(k)}
<1>5. off[0] = 0 /\ \A k \in 1..n : off[k] = Len(F[k])
  BY <1>1
<1> HIDE DEF off
<1>6. 0 \in S
  OBVIOUS
<1>7. ASSUME NEW k \in 0..(n - 1), k \in S PROVE k + 1 \in S
  <2> SUFFICES Good(k + 1)
    BY <1>1
  <2>1. CASE k = 0
    <3>1. 1 \in 1..n /\ seqs[1] \in Seq(Bits) /\ Len(seqs[1]) \in Nat
      BY <1>1
    <3>2. off[1] = Len(seqs[1]) /\ off[0] = 0 /\ F[1] = seqs[1]
      BY <1>4, <1>5, <3>1
    <3>3. Good(1)
      <4>1. \A j \in 1..Len(seqs[1]) : off[0] + j = j
        BY <3>1, <3>2
      <4>2. \A m \in 1..1 : m = 1 /\ m - 1 = 0
        OBVIOUS
      <4>3. 1 - 1 = 0
        OBVIOUS
      <4>4. \A j \in 1..Len(seqs[1]) : F[1][off[0] + j] = seqs[1][j]
        BY <3>2, <4>1
      <4>5. off[1] = off[0] + Len(seqs[1]) /\ off[0] \in Nat /\ off[1] \in Nat
        BY <3>1, <3>2
      <4> QED BY <3>1, <3>2, <4>2, <4>3, <4>4, <4>5
    <3> HIDE DEF Good
    <3> QED BY <2>1, <3>3
  <2>2. CASE k # 0
    <3> DEFINE a == F[k]
               b == seqs[k + 1]
               c == F[k + 1]
    <3>1. Good(k)
      BY <1>7, <2>2
    <3>2. k \in 1..n /\ k \in 1..(n - 1) /\ k + 1 \in 1..n /\ (k + 1) - 1 = k /\ k \in Nat
      BY <1>1, <2>2
    <3>3. a \in Seq(Bits) /\ Len(a) = off[k] /\ off[k] \in Nat /\ b \in Seq(Bits) /\ Len(b) \in Nat
      BY <1>1, <3>1, <3>2
    <3>4. c = a \o b
      BY <1>4, <3>2
    <3>5. off[k + 1] = Len(c)
      BY <1>5, <3>2
    <3>6. \A m \in 1..k : /\ off[m - 1] \in Nat
                          /\ off[m - 1] + Len(seqs[m]) <= off[k]
                          /\ \A j \in 1..Len(seqs[m]) : a[off[m - 1] + j] = seqs[m][j]
      BY <3>1
    <3> HIDE DEF a, b, c
    <3>7. /\ c \in Seq(Bits) /\ Len(c) = Len(a) + Len(b)
          /\ \A i \in 1..(Len(a) + Len(b)) : c[i] = IF i <= Len(a) THEN a[i] ELSE b[i - Len(a)]
      BY <3>3, <3>4, ConcatProperties
    <3>8. off[k + 1] = off[k] + Len(b) /\ off[k + 1] \in Nat
      BY <3>3, <3>5, <3>7
    <3>9. ASSUME NEW m \in 1..(k + 1)
          PROVE  /\ off[m - 1] \in Nat
                 /\ off[m - 1] + Len(seqs[m]) <= off[k + 1]
                 /\ \A j \in 1..Len(seqs[m]) : c[off[m - 1] + j] = seqs[m][j]
      <4>0. m \in 1..n /\ Len(seqs[m]) \in Nat
        BY <1>1
      <4>1. CASE m \in 1..k
        <5>1. ASSUME NEW j \in 1..Len(seqs[m]) PROVE c[off[m - 1] + j] = seqs[m][j]
          <6>0. off[m - 1] \in Nat /\ off[m - 1] + Len(seqs[m]) <= off[k]
            BY <3>6, <4>1
          <6>1. off[m - 1] + j \in 1..(Len(a) + Len(b)) /\ off[m - 1] + j <= Len(a)
            BY <3>3, <4>0, <6>0
          <6>2. a[off[m - 1] + j] = seqs[m][j]
            BY <3>6, <4>1
          <6> QED BY <3>7, <6>1, <6>2
        <5> QED BY <3>3, <3>6, <3>8, <4>0, <4>1, <5>1
      <4>2. CASE m = k + 1
        <5>1. m - 1 = k
          BY <3>2, <4>2
        <5>2. ASSUME NEW j \in 1..Len(b) PROVE c[off[k] + j] = b[j]
          <6>1. off[k] + j \in 1..(Len(a) + Len(b)) /\ ~(off[k] + j <= Len(a)) /\ (off[k] + j) - Len(a) = j
            BY <3>3
          <6> QED BY <3>7, <6>1
        <5>3. seqs[m] = b
          BY <4>2 DEF b
        <5> QED BY <3>3, <3>8, <5>1, <5>2, <5>3
      <4> QED BY <4>1, <4>2
    <3> QED BY <3>2, <3>5, <3>7, <3>8, <3>9 DEF b, c
  <2> QED BY <2>1, <2>2
<1>8. \A k \in 1..n : Good(k)
  <2>1. \A k \in 0..n : k \in S
    <3> HIDE DEF S
    <3> QED BY <1>1, <1>6, <1>7, UpTo
  <2>2. \A k \in 1..n : k \in 0..n /\ k # 0
    BY <1>1
  <2> HIDE DEF Good
  <2> QED BY <2>1, <2>2
<1>9. n \in 1..n /\ n \in 0..n
  BY <1>1
<1>10. IsOffset(off, seqs)
  <2>1. \A k \in 0..n : off[k] \in Nat
    <3>1. \A k \in 0..n : k = 0 \/ k \in 1..n
      BY <1>1
    <3> QED BY <1>5, <1>8, <3>1
  <2>2. \A k \in 1..n : off[k] = off[k - 1] + Len(seqs[k])
    BY <1>8
  <2>3. F[n] \in Seq(Bits) /\ Len(F[n]) = off[n]
    BY <1>8, <1>9
  <2>4. \A k \in 1..n : \A j \in 1..Len(seqs[k]) : F[n][off[k - 1] + j] = seqs[k][j]
    BY <1>8, <1>9
  <2> QED BY <1>3, <1>5, <2>1, <2>2, <2>3, <2>4 DEF IsOffset, n
<1> QED BY <1>10, Zenon DEF Offset

\* No two leaves have one byte.
Injective(t) == \A p, q \in DOMAIN t : t[p] = t[q] => p = q

LEMMA EncodingsInvert ==
  ASSUME NEW t, Injective(t), NEW p \in DOMAIN t
  PROVE  Encodings(t)[t[p]] = p
<1>1. t[p] \in {t[q] : q \in DOMAIN t}
  OBVIOUS
<1>2. Encodings(t)[t[p]] = CHOOSE q \in DOMAIN t : t[q] = t[p]
  BY <1>1, Zenon DEF Encodings
<1>3. \A q \in DOMAIN t : t[q] = t[p] => q = p
  BY DEF Injective
<1> QED BY <1>2, <1>3, Zenon

\* The code of each byte of a file.
CodesOf(t, b) == [i \in 1..Len(b) |-> Encodings(t)[b[i]]]

LEMMA CodesFacts ==
  ASSUME NEW t, FullTree(t), Injective(t), NEW b \in Seq(Bytes), Len(b) # 0,
         \A i \in 1..Len(b) : \E p \in DOMAIN t : t[p] = b[i]
  PROVE  /\ Len(CodesOf(t, b)) = Len(b)
         /\ \A i \in 1..Len(b) : /\ CodesOf(t, b)[i] \in DOMAIN t
                                 /\ CodesOf(t, b)[i] \in Paths
                                 /\ t[CodesOf(t, b)[i]] = b[i]
         /\ IsOffset(Offset(CodesOf(t, b)), CodesOf(t, b))
<1> DEFINE c == CodesOf(t, b)
<1>1. Len(b) \in Nat \ {0}
  OBVIOUS
<1>2. Len(c) = Len(b) /\ \A i \in 1..Len(b) : c[i] = Encodings(t)[b[i]]
  BY <1>1 DEF CodesOf
<1> HIDE DEF c
<1>3. ASSUME NEW i \in 1..Len(b) PROVE c[i] \in DOMAIN t /\ t[c[i]] = b[i]
  <2>1. PICK p \in DOMAIN t : t[p] = b[i]
    OBVIOUS
  <2>2. c[i] = p
    BY <1>2, <2>1, EncodingsInvert
  <2> QED BY <2>1, <2>2
<1>4. DOMAIN t \subseteq Paths
  BY DEF FullTree, TreeTypeOK, Paths
<1>5. \A i \in 1..Len(c) : c[i] \in Seq(Bits)
  BY <1>2, <1>3, <1>4 DEF Paths
<1>6. Len(c) \in Nat \ {0}
  BY <1>1, <1>2
<1>7. IsOffset(Offset(c), c)
  BY <1>5, <1>6, OffsetExists
<1>8. \A i \in 1..Len(b) : c[i] \in Paths
  BY <1>3, <1>4
<1> QED BY <1>2, <1>3, <1>7, <1>8 DEF c

LEMMA OffsetGrows ==
  ASSUME NEW off, NEW seqs, Len(seqs) \in Nat, IsOffset(off, seqs),
         \A i \in 1..Len(seqs) : Len(seqs[i]) \in Nat
  PROVE  \A k \in 0..Len(seqs) : off[k] <= off[Len(seqs)]
<1> DEFINE n == Len(seqs)
           S == {k \in Nat : k \in 0..n /\ off[k] <= off[n]}
<1>1. n \in Nat
  OBVIOUS
<1>2. n \in S
  BY <1>1 DEF IsOffset
<1>3. ASSUME NEW k \in 0..(n - 1), k + 1 \in S PROVE k \in S
  <2>1. k + 1 \in 1..n /\ (k + 1) - 1 = k /\ k \in 0..n /\ k + 1 \in 0..n /\ n \in 0..n
    BY <1>1
  <2>2. off[k + 1] = off[(k + 1) - 1] + Len(seqs[k + 1]) /\ Len(seqs[k + 1]) \in Nat
    BY <2>1 DEF IsOffset
  <2>3. off[k] \in Nat /\ off[k + 1] \in Nat /\ off[n] \in Nat
    BY <2>1 DEF IsOffset
  <2>4. off[k + 1] <= off[n]
    BY <1>3
  <2>5. off[k] <= off[n]
    BY <2>1, <2>2, <2>3, <2>4
  <2> QED BY <2>1, <2>5
<1>4. \A k \in 0..n : k \in S
  <2> HIDE DEF S
  <2> QED BY <1>1, <1>2, <1>3, DownFrom
<1> QED BY <1>4

\* A tree that is one leaf codes every byte with no bits.
LEMMA OneLeafCodesNothing ==
  ASSUME NEW t, FullTree(t), Injective(t), NEW b \in Seq(Bytes), Len(b) # 0,
         \A i \in 1..Len(b) : \E p \in DOMAIN t : t[p] = b[i],
         << >> \in DOMAIN t
  PROVE  FlattenSeq(CodesOf(t, b)) = << >>
<1> DEFINE c == CodesOf(t, b)
           off == Offset(c)
           n == Len(b)
           S == {k \in Nat : k \in 0..n /\ off[k] = 0}
<1>1. n \in Nat
  OBVIOUS
<1>2. Len(c) = n /\ \A i \in 1..n : c[i] \in DOMAIN t
  BY CodesFacts
<1>3. IsOffset(off, c)
  BY CodesFacts
<1> HIDE DEF c, off, n
<1>4. \A p \in DOMAIN t : p = << >>
  BY OnWayOrder DEF FullTree, TreeTypeOK, Paths
<1>5. \A i \in 1..n : Len(c[i]) = 0
  BY <1>2, <1>4, EmptyPath
<1>6. 0 \in S
  BY <1>1, <1>3 DEF IsOffset
<1>7. ASSUME NEW k \in 0..(n - 1), k \in S PROVE k + 1 \in S
  <2>1. k + 1 \in 1..n /\ (k + 1) - 1 = k /\ k + 1 \in 0..n
    BY <1>1
  <2>2. off[k + 1] = off[(k + 1) - 1] + Len(c[k + 1])
    BY <1>2, <1>3, <2>1 DEF IsOffset
  <2>3. off[k + 1] = 0
    BY <1>5, <1>7, <2>1, <2>2
  <2> QED BY <2>1, <2>3
<1>8. off[n] = 0
  <2>1. \A k \in 0..n : k \in S
    <3> HIDE DEF S
    <3> QED BY <1>1, <1>6, <1>7, UpTo
  <2> QED BY <1>1, <2>1
<1>9. FlattenSeq(c) \in Seq(Bits) /\ Len(FlattenSeq(c)) = 0
  BY <1>2, <1>3, <1>8 DEF IsOffset
<1> QED BY <1>9, EmptyPath DEF Paths, c

-----------------------------------------------------------------------------
(* The invariant.                                                          *)

TheTree  == Root.tree
TreeBits == SerializeTree(TheTree)
Codes    == CodesOf(TheTree, binary)

\* The trees in the queue are whole, and have each byte of the file in one
\* leaf of one of them.
HeapInv ==
  /\ IsFiniteSet(minHeap)
  /\ \A n \in minHeap : n.freq \in Nat \ {0} /\ FullTree(n.tree)
  /\ \A v \in Values(binary) : \E n \in minHeap : \E p \in DOMAIN n.tree : n.tree[p] = v
  /\ \A n \in minHeap : \A p \in DOMAIN n.tree : n.tree[p] \in Values(binary)
  /\ \A n, m \in minHeap : \A p \in DOMAIN n.tree : \A q \in DOMAIN m.tree :
       n.tree[p] = m.tree[q] => n = m /\ p = q

\* The bytes of the file that got to the disk.
FileIs(nonce, n) ==
  file = [nonce    |-> nonce,
          treeSize |-> TreeSize(TreeBits),
          bits     |-> SubSeq(Pack(TreeBits) \o Encrypt(Pack(CompressedData), nonce),
                              1, ByteBits * n)]

FileInv ==
  /\ pc = "buildTreeFromMap" =>
       file = << >> /\ tree = << >> /\ path = << >> /\ index = 0 /\ output = << >>
  /\ pc \notin {"buildTreeFromMap", "undefined"} => file # << >>
  /\ file # << >> =>
       /\ Cardinality(minHeap) = 1
       /\ \E nonce \in Nonces : \E n \in Nat :
            /\ ByteBits * n <= Len(Pack(TreeBits)) + Len(Pack(CompressedData))
            /\ FileIs(nonce, n)

\* recursiveBuildTree is where what was written for the node it is at begins,
\* and has made the leaves that were written in front of it.
ReadInv ==
  pc = "recursiveBuildTree" =>
    /\ output = << >>
    /\ path = << >> => index = 0
    /\ TreeWritten =>
         /\ path \in Nodes(TheTree)
         /\ index = Start(TheTree)[path]
         /\ tree = [p \in {q \in DOMAIN TheTree : Start(TheTree)[q] < index} |-> TheTree[p]]

\* k bytes are decoded, and the path is a beginning of the code of the next.
InCode(k) ==
  /\ k \in 0..(Len(binary) - 1)
  /\ Len(output) = k /\ \A i \in 1..k : output[i] = binary[i]
  /\ index = Offset(Codes)[k] + Len(path)
  /\ Len(path) < Len(Codes[k + 1])
  /\ \A i \in 1..Len(path) : path[i] = Codes[k + 1][i]

\* The file is decoded, and no more bytes than bits after it.
PastCodes ==
  /\ Len(binary) <= Len(output) /\ \A i \in 1..Len(binary) : output[i] = binary[i]
  /\ Len(CompressedData) <= index
  /\ Len(output) - Len(binary) <= index - Len(CompressedData)

DecodeInv ==
  pc \in {"decode", "done"} =>
    /\ index <= Len(BitsToDecode)
    /\ pc = "done" => index = Len(BitsToDecode)
    /\ ~TreeWritten => output = << >>
    /\ TreeWritten =>
         /\ tree = TheTree
         /\ << >> \in DOMAIN TheTree => output = << >>
         /\ << >> \notin DOMAIN TheTree =>
              path \in Inner(TheTree) /\ (PastCodes \/ \E k \in 0..Len(binary) : InCode(k))

UndefInv == pc = "undefined" => file = << >> \/ ~TreeWritten

Inv == TypeOK /\ HeapInv /\ FileInv /\ ReadInv /\ DecodeInv /\ UndefInv

\* What follows when one tree is left.
LEMMA OneTree ==
  ASSUME binary \in Seq(Bytes), HeapInv, Cardinality(minHeap) = 1
  PROVE  /\ minHeap = {Root}
         /\ FullTree(TheTree) /\ Injective(TheTree)
         /\ \A v \in Values(binary) : \E p \in DOMAIN TheTree : TheTree[p] = v
         /\ \A p \in DOMAIN TheTree : TheTree[p] \in Values(binary)
<1>1. PICK r : minHeap = {r}
  BY FS_Singleton DEF HeapInv
<1>2. Root = r
  BY <1>1 DEF Root
<1>3. minHeap = {Root} /\ Root \in minHeap
  BY <1>1, <1>2
<1>4. FullTree(TheTree)
  BY <1>3 DEF HeapInv, TheTree
<1>5. Injective(TheTree)
  BY <1>3 DEF HeapInv, TheTree, Injective
<1>6. \A v \in Values(binary) : \E p \in DOMAIN TheTree : TheTree[p] = v
  BY <1>3 DEF HeapInv, TheTree
<1>7. \A p \in DOMAIN TheTree : TheTree[p] \in Values(binary)
  BY <1>3 DEF HeapInv, TheTree
<1> QED BY <1>3, <1>4, <1>5, <1>6, <1>7

LEMMA TheCode ==
  ASSUME binary \in Seq(Bytes), HeapInv, Cardinality(minHeap) = 1
  PROVE  /\ binary \in Seq(Bytes) /\ Len(binary) \in Nat \ {0}
         /\ TreeBits = Serialized(TheTree)[<< >>]
         /\ TreeBits \in Seq(Bits) /\ Len(TreeBits) = Size(TheTree, << >>)
         /\ Len(Codes) = Len(binary)
         /\ \A i \in 1..Len(binary) : /\ Codes[i] \in DOMAIN TheTree
                                      /\ Codes[i] \in Paths
                                      /\ Len(Codes[i]) \in Nat
                                      /\ TheTree[Codes[i]] = binary[i]
         /\ IsOffset(Offset(Codes), Codes)
         /\ CompressedData = FlattenSeq(Codes)
         /\ CompressedData \in Seq(Bits)
         /\ Len(CompressedData) = Offset(Codes)[Len(binary)]
         /\ << >> \in DOMAIN TheTree => CompressedData = << >>
<1>1. FullTree(TheTree) /\ Injective(TheTree) /\ binary \in Seq(Bytes)
  BY OneTree
<1>2. \A i \in 1..Len(binary) : \E p \in DOMAIN TheTree : TheTree[p] = binary[i]
  BY OneTree DEF Values
<1>3. Len(binary) \in Nat \ {0}
  <2>1. PICK p \in DOMAIN TheTree : TRUE
    BY <1>1 DEF FullTree
  <2>2. TheTree[p] \in Values(binary)
    BY OneTree
  <2>3. PICK i \in 1..Len(binary) : TRUE
    BY <2>2 DEF Values
  <2> QED BY <1>1, <2>3
<1>4. TreeBits = Serialized(TheTree)[<< >>]
  BY SerializedFromRoot DEF TreeBits
<1>5. TreeBits \in Seq(Bits) /\ Len(TreeBits) = Size(TheTree, << >>)
  BY <1>1, <1>4, RootIsNode, SerializedType DEF Size
<1>6. /\ Len(Codes) = Len(binary)
      /\ \A i \in 1..Len(binary) : /\ Codes[i] \in DOMAIN TheTree
                                   /\ Codes[i] \in Paths
                                   /\ TheTree[Codes[i]] = binary[i]
      /\ IsOffset(Offset(Codes), Codes)
  BY <1>1, <1>2, <1>3, CodesFacts DEF Codes
<1>7. CompressedData = FlattenSeq(Codes)
  BY DEF CompressedData, Codes, CodesOf, TheTree
<1>8. CompressedData \in Seq(Bits) /\ Len(CompressedData) = Offset(Codes)[Len(binary)]
  BY <1>6, <1>7 DEF IsOffset
<1>9. << >> \in DOMAIN TheTree => CompressedData = << >>
  BY <1>1, <1>2, <1>3, <1>7, OneLeafCodesNothing DEF Codes
<1>10. \A i \in 1..Len(binary) : Len(Codes[i]) \in Nat
  BY <1>6, PathProperties
<1> QED BY <1>1, <1>3, <1>4, <1>5, <1>6, <1>7, <1>8, <1>9, <1>10

\* What the two programs know of the file: of the tree and of the data, as
\* much as was written, and as it was before it was encrypted.
LEMMA FileFacts ==
  ASSUME binary \in Seq(Bytes), HeapInv, FileInv, file # << >>
  PROVE  /\ Cardinality(minHeap) = 1
         /\ file.nonce \in Nonces /\ file.treeSize \in Nat /\ file.bits \in Seq(Bits)
         /\ CompressedTree \in Seq(Bits)
         /\ TreeWritten => /\ Len(TreeBits) <= Len(CompressedTree)
                           /\ \A i \in 1..Len(TreeBits) : CompressedTree[i] = TreeBits[i]
         /\ BitsToDecode \in Seq(Bits)
         /\ Len(BitsToDecode) <= Len(Pack(CompressedData))
         /\ \A i \in 1..Len(BitsToDecode) : BitsToDecode[i] = Pack(CompressedData)[i]
         /\ ~TreeWritten => Len(BitsToDecode) = 0
         /\ AllWritten => Len(BitsToDecode) = Len(Pack(CompressedData))
         /\ TreeWritten /\ ~AllWritten => Len(BitsToDecode) + ByteBits <= Len(Pack(CompressedData))
<1> DEFINE P == Pack(TreeBits)
           D == Pack(CompressedData)
           B == file.bits
<1>1. PICK nonce \in Nonces : \E n \in Nat :
            /\ ByteBits * n <= Len(Pack(TreeBits)) + Len(Pack(CompressedData))
            /\ FileIs(nonce, n)
  BY DEF FileInv
<1>2. PICK n \in Nat : /\ ByteBits * n <= Len(Pack(TreeBits)) + Len(Pack(CompressedData))
                       /\ FileIs(nonce, n)
  BY <1>1
<1>3. Cardinality(minHeap) = 1
  BY DEF FileInv
<1>4. TreeBits \in Seq(Bits) /\ CompressedData \in Seq(Bits)
  BY <1>3, TheCode
<1>5. /\ P \in Seq(Bits) /\ Len(TreeBits) <= Len(P) /\ \A i \in 1..Len(TreeBits) : P[i] = TreeBits[i]
      /\ TreeSize(TreeBits) \in Nat
      /\ Len(P) = ByteBits * TreeSize(TreeBits)
      /\ Len(TreeBits) \in Nat /\ Len(P) \in Nat
  <2>1. /\ P \in Seq(Bits) /\ \A i \in 1..Len(TreeBits) : P[i] = TreeBits[i]
        /\ TreeSize(TreeBits) \in Nat
        /\ Len(P) = ByteBits * TreeSize(TreeBits)
    BY <1>4, PackFacts
  <2>2. Len(P) \in Len(TreeBits)..(Len(TreeBits) + ByteBits - 1)
    BY <1>4, PackFacts
  <2>3. Len(TreeBits) \in Nat /\ ByteBits \in Nat
    BY <1>4, BitsAndBytes
  <2> HIDE DEF P
  <2>4. Len(TreeBits) <= Len(P) /\ Len(P) \in Nat
    BY <2>2, <2>3
  <2> QED BY <2>1, <2>3, <2>4
<1>6. /\ D \in Seq(Bits) /\ Len(D) \in Nat
      /\ TreeSize(CompressedData) \in Nat
      /\ Len(D) = ByteBits * TreeSize(CompressedData)
  BY <1>4, PackFacts
<1>7. TreeWritten <=> Len(B) >= Len(P)
  BY DEF TreeWritten, Written, TreeBits, TheTree
<1>8. AllWritten <=> Len(B) >= Len(P) + Len(D)
  BY DEF AllWritten, Written, TreeBits, TheTree
<1> DEFINE E == Encrypt(D, nonce)
           m == ByteBits * n
           b == ByteBits
<1>9. file.nonce = nonce /\ file.treeSize = TreeSize(TreeBits) /\ B = SubSeq(P \o E, 1, m)
  BY <1>2 DEF FileIs
<1> HIDE DEF P, D, B
<1>10. E \in Seq(Bits) /\ Len(E) = Len(D)
  BY <1>6, EncryptFacts
<1>11. b \in Nat \ {0} /\ m = b * n /\ m \in Nat /\ m <= Len(P) + Len(D)
  <2>1. b \in Nat \ {0}
    BY BitsAndBytes
  <2>2. m \in Nat
    BY <2>1
  <2> QED BY <1>2, <2>1, <2>2 DEF P, D
<1> HIDE DEF E, m
<1>12. /\ B \in Seq(Bits) /\ Len(B) = m
       /\ \A i \in 1..m : B[i] = IF i <= Len(P) THEN P[i] ELSE E[i - Len(P)]
  <2>1. m \in 0..(Len(P) + Len(E))
    BY <1>5, <1>6, <1>10, <1>11
  <2> QED BY <1>5, <1>9, <1>10, <2>1, CutBits
<1> DEFINE end == IF Len(P) <= m THEN Len(P) ELSE m
<1>13. TreeEnd = end /\ end \in 0..m
  <2>1. ByteBits * file.treeSize = Len(P) /\ Len(file.bits) = m
    BY <1>5, <1>9, <1>12 DEF B
  <2>2. TreeEnd = Min({Len(P), m})
    BY <2>1 DEF TreeEnd
  <2>3. TreeEnd = end
    BY <1>5, <1>11, <2>2, MinOfTwo
  <2> QED BY <1>5, <1>11, <2>3
<1>14. /\ CompressedTree \in Seq(Bits) /\ Len(CompressedTree) = end
       /\ \A i \in 1..end : CompressedTree[i] = B[i]
  <2>1. CompressedTree = SubSeq(B, 1, end)
    BY <1>13 DEF CompressedTree, B
  <2> HIDE DEF end
  <2>2. end \in 0..Len(B)
    BY <1>12, <1>13
  <2> QED BY <1>12, <2>1, <2>2, FirstPart DEF Paths
<1>15. ASSUME TreeWritten
       PROVE  /\ Len(TreeBits) <= Len(CompressedTree)
              /\ \A i \in 1..Len(TreeBits) : CompressedTree[i] = TreeBits[i]
  <2>1. end = Len(P) /\ Len(P) <= m
    BY <1>5, <1>7, <1>11, <1>12, <1>15
  <2> HIDE DEF end
  <2>2. Len(TreeBits) <= Len(CompressedTree)
    BY <1>5, <1>14, <2>1
  <2>3. ASSUME NEW i \in 1..Len(TreeBits) PROVE CompressedTree[i] = TreeBits[i]
    <3>1. i \in 1..end /\ i \in 1..m /\ i <= Len(P)
      BY <1>5, <1>11, <2>1
    <3> QED BY <1>5, <1>12, <1>14, <3>1
  <2> QED BY <2>2, <2>3
<1> DEFINE part == SubSeq(B, end + 1, Len(B))
<1>16. BitsToDecode = Encrypt(part, nonce)
  BY <1>9, <1>13 DEF BitsToDecode, B
<1>17. /\ part \in Seq(Bits) /\ Len(part) = m - end
       /\ \A i \in 1..(m - end) : part[i] = B[end + i]
  <2>1. end \in 0..Len(B)
    BY <1>12, <1>13
  <2> HIDE DEF end
  <2> QED BY <1>12, <2>1, LaterPart
<1> HIDE DEF part
<1>18. Len(part) <= Len(D) /\ \A i \in 1..Len(part) : part[i] = E[i]
  <2>1. CASE Len(P) <= m
    <3>1. end = Len(P)
      BY <2>1
    <3> HIDE DEF end
    <3>2. Len(part) <= Len(D)
      BY <1>5, <1>6, <1>11, <1>17, <3>1
    <3>3. ASSUME NEW i \in 1..Len(part) PROVE part[i] = E[i]
      <4>1. end + i \in 1..m /\ ~(end + i <= Len(P)) /\ (end + i) - Len(P) = i /\ i \in 1..(m - end)
        <5>1. Len(P) \in Nat /\ m \in Nat /\ Len(part) = m - Len(P) /\ Len(P) <= m
          BY <1>5, <1>11, <1>17, <2>1, <3>1
        <5>2. i \in 1..(m - Len(P))
          BY <5>1
        <5>3. Len(P) + i \in 1..m /\ ~(Len(P) + i <= Len(P)) /\ (Len(P) + i) - Len(P) = i
          BY <5>1, <5>2
        <5> QED BY <3>1, <5>2, <5>3
      <4> QED BY <1>12, <1>17, <4>1
    <3> QED BY <3>2, <3>3
  <2>2. CASE ~(Len(P) <= m)
    <3>1. end = m
      BY <2>2
    <3> HIDE DEF end
    <3>2. Len(part) = 0
      BY <1>11, <1>17, <3>1
    <3> QED BY <1>6, <3>2
  <2> QED BY <2>1, <2>2
<1>19. /\ BitsToDecode \in Seq(Bits) /\ Len(BitsToDecode) = Len(part)
       /\ \A i \in 1..Len(part) : BitsToDecode[i] = D[i]
  <2>1. Encrypt(part, nonce) \in Seq(Bits) /\ Len(Encrypt(part, nonce)) = Len(part)
    BY <1>17, EncryptFacts
  <2>2. \A i \in 1..Len(part) : Encrypt(part, nonce)[i] = D[i]
    BY <1>6, <1>17, <1>18, DecryptsAgain DEF E
  <2> QED BY <1>16, <2>1, <2>2
<1>20. ~TreeWritten => Len(BitsToDecode) = 0
  BY <1>5, <1>7, <1>11, <1>12, <1>17, <1>19
<1>21. AllWritten => Len(BitsToDecode) = Len(D)
  BY <1>5, <1>6, <1>8, <1>11, <1>12, <1>17, <1>19
<1>22. ASSUME TreeWritten, ~AllWritten PROVE Len(BitsToDecode) + b <= Len(D)
  <2> DEFINE p == TreeSize(TreeBits)
             d == TreeSize(CompressedData)
  <2>1. /\ p \in Nat /\ d \in Nat /\ Len(P) = b * p /\ Len(D) = b * d
        /\ m < Len(P) + Len(D) /\ m >= Len(P)
    BY <1>5, <1>6, <1>7, <1>8, <1>11, <1>12, <1>22
  <2> HIDE DEF p, d, b
  <2>2. b * n < b * (p + d)
    <3>1. b * (p + d) = b * p + b * d
      BY <1>11, <2>1
    <3> QED BY <1>11, <2>1, <3>1
  <2>3. n < p + d
    <3>1. n >= p + d => b * n >= b * (p + d)
      BY <1>11, <2>1
    <3> QED BY <1>11, <2>1, <2>2, <3>1
  <2>4. b * (n + 1) <= b * (p + d)
    BY <1>11, <2>1, <2>3
  <2>5. m + b <= Len(P) + Len(D)
    <3>1. b * (p + d) = b * p + b * d /\ b * (n + 1) = b * n + b
      BY <1>11, <2>1
    <3> QED BY <1>11, <2>1, <2>4, <3>1
  <2>6. Len(BitsToDecode) = m - Len(P)
    BY <1>5, <1>11, <1>17, <1>19, <2>1
  <2> QED BY <1>5, <1>6, <1>11, <2>5, <2>6
<1>23. file.nonce \in Nonces /\ file.treeSize \in Nat /\ file.bits \in Seq(Bits)
  BY <1>5, <1>9, <1>12 DEF B
<1> HIDE DEF end, b
<1>24. Len(BitsToDecode) <= Len(D) /\ \A i \in 1..Len(BitsToDecode) : BitsToDecode[i] = D[i]
  BY <1>18, <1>19
<1> QED BY <1>3, <1>14, <1>15, <1>19, <1>20, <1>21, <1>22, <1>23, <1>24 DEF D, b

LEMMA FrequencyType ==
  ASSUME NEW b \in Seq(Bytes), NEW v \in Values(b)
  PROVE  FindFrequency(b)[v] \in Nat \ {0}
<1> DEFINE S == {i \in 1..Len(b) : b[i] = v}
<1>1. FindFrequency(b)[v] = Cardinality(S)
  BY DEF FindFrequency
<1>2. IsFiniteSet(1..Len(b))
  BY FS_Interval
<1>3. IsFiniteSet(S)
  BY <1>2, FS_Subset
<1>4. S # {}
  BY DEF Values
<1> QED BY <1>1, <1>3, <1>4, FS_CardinalityType, FS_EmptySet

LEMMA ImageIsFinite ==
  ASSUME NEW S, IsFiniteSet(S), NEW f
  PROVE  IsFiniteSet({f[x] : x \in S})
<1> DEFINE T == {f[x] : x \in S}
           g == [x \in S |-> f[x]]
<1>1. g \in Surjection(S, T)
  BY DEF Surjection
<1> HIDE DEF g, T
<1>2. IsFiniteSet(T)
  BY <1>1, FS_Surjection
<1> QED BY <1>2 DEF T

LEMMA ValuesFacts ==
  ASSUME NEW b \in Seq(Bytes)
  PROVE  IsFiniteSet(Values(b)) /\ Values(b) \subseteq Bytes
<1>1. IsFiniteSet(1..Len(b))
  BY FS_Interval
<1>2. IsFiniteSet({b[i] : i \in 1..Len(b)})
  BY <1>1, ImageIsFinite
<1> QED BY <1>2 DEF Values

LEMMA InitInv == Init => Inv
<1> SUFFICES ASSUME Init PROVE Inv
  OBVIOUS
<1> USE DEF Init
<1>1. binary \in Seq(Bytes)
  BY FileAssumption
<1>2. ASSUME NEW n \in minHeap
      PROVE  \E v \in Values(binary) : n.freq = FindFrequency(binary)[v] /\ n.tree = Leaf(v) /\
               n = [freq |-> FindFrequency(binary)[v], tree |-> Leaf(v)]
  BY DEF Leaves
<1>3. ASSUME NEW n \in minHeap
      PROVE  /\ n.freq \in Nat \ {0} /\ FullTree(n.tree)
             /\ \E v \in Values(binary) :
                  /\ n = [freq |-> FindFrequency(binary)[v], tree |-> Leaf(v)]
                  /\ DOMAIN n.tree = {<< >>} /\ n.tree[<< >>] = v
  <2>1. PICK v \in Values(binary) : n.freq = FindFrequency(binary)[v] /\ n.tree = Leaf(v) /\
               n = [freq |-> FindFrequency(binary)[v], tree |-> Leaf(v)]
    BY <1>2
  <2>2. v \in Bytes
    BY <1>1, ValuesFacts
  <2>3. FullTree(Leaf(v)) /\ DOMAIN Leaf(v) = {<< >>} /\ Leaf(v)[<< >>] = v
    BY <2>2, LeafIsFull
  <2>4. n.freq \in Nat \ {0}
    BY <1>1, <2>1, FrequencyType
  <2> QED BY <2>1, <2>3, <2>4
<1>4. HeapInv
  <2>1. IsFiniteSet(minHeap)
    <3> DEFINE f == [v \in Values(binary) |-> [freq |-> FindFrequency(binary)[v], tree |-> Leaf(v)]]
    <3>1. IsFiniteSet({f[v] : v \in Values(binary)})
      <4>1. IsFiniteSet(Values(binary))
        BY <1>1, ValuesFacts
      <4> HIDE DEF f
      <4> QED BY <4>1, ImageIsFinite
    <3>2. {f[v] : v \in Values(binary)} = Leaves(binary)
      BY DEF Leaves
    <3> QED BY <3>1, <3>2
  <2>2. ASSUME NEW v \in Values(binary) PROVE \E n \in minHeap : \E p \in DOMAIN n.tree : n.tree[p] = v
    <3> DEFINE n == [freq |-> FindFrequency(binary)[v], tree |-> Leaf(v)]
    <3>1. n \in minHeap /\ n.tree = Leaf(v)
      BY DEF Leaves
    <3>2. DOMAIN Leaf(v) = {<< >>} /\ Leaf(v)[<< >>] = v
      BY <1>1, ValuesFacts, LeafIsFull
    <3> HIDE DEF n
    <3> QED BY <3>1, <3>2
  <2>3. \A n \in minHeap : \A p \in DOMAIN n.tree : n.tree[p] \in Values(binary)
    BY <1>3
  <2>4. ASSUME NEW n \in minHeap, NEW m \in minHeap, NEW p \in DOMAIN n.tree, NEW q \in DOMAIN m.tree,
               n.tree[p] = m.tree[q]
        PROVE  n = m /\ p = q
    BY <1>3, <2>4
  <2> QED BY <1>3, <2>1, <2>2, <2>3, <2>4 DEF HeapInv
<1>5. TypeOK
  <2>1. \A n \in minHeap : n.freq \in Nat \ {0} /\ TreeTypeOK(n.tree)
    BY <1>3 DEF FullTree
  <2>2. TreeTypeOK(tree)
    BY DEF TreeTypeOK
  <2> QED BY <1>1, <2>1, <2>2 DEF TypeOK
<1>6. FileInv /\ ReadInv /\ DecodeInv /\ UndefInv
  BY DEF FileInv, ReadInv, DecodeInv, UndefInv
<1> QED BY <1>4, <1>5, <1>6 DEF Inv

LEMMA MergeKeepsHeap ==
  ASSUME TypeOK, HeapInv, MergeNodes
  PROVE  HeapInv'
<1>1. PICK left \in Rarest(minHeap) : \E right \in Rarest(minHeap \ {left}) :
        minHeap' = (minHeap \ {left, right})
                     \cup {[freq |-> left.freq + right.freq, tree |-> Join(left.tree, right.tree)]}
  BY DEF MergeNodes
<1>2. PICK right \in Rarest(minHeap \ {left}) :
        minHeap' = (minHeap \ {left, right})
                     \cup {[freq |-> left.freq + right.freq, tree |-> Join(left.tree, right.tree)]}
  BY <1>1
<1> DEFINE new == [freq |-> left.freq + right.freq, tree |-> Join(left.tree, right.tree)]
           J == Join(left.tree, right.tree)
<1>3. left \in minHeap /\ right \in minHeap /\ left # right
  BY DEF Rarest
<1>4. new.freq = left.freq + right.freq /\ new.tree = J
  OBVIOUS
<1>5. FullTree(left.tree) /\ FullTree(right.tree) /\ FullTree(J)
  BY <1>3, JoinIsFull DEF HeapInv
<1>6. /\ \A p : p \in DOMAIN J <=>
                     \/ \E q \in DOMAIN left.tree : p = <<0>> \o q
                     \/ \E q \in DOMAIN right.tree : p = <<1>> \o q
      /\ \A q \in DOMAIN left.tree : J[<<0>> \o q] = left.tree[q]
      /\ \A q \in DOMAIN right.tree : J[<<1>> \o q] = right.tree[q]
  <2>1. TreeTypeOK(left.tree) /\ TreeTypeOK(right.tree)
    BY <1>5 DEF FullTree
  <2>2. \A p : p \in DOMAIN J <=>
                     \/ \E q \in DOMAIN left.tree : p = <<0>> \o q
                     \/ \E q \in DOMAIN right.tree : p = <<1>> \o q
    BY <2>1, JoinedLeaves, SMTT(30)
  <2>3. \A q \in DOMAIN left.tree : J[<<0>> \o q] = left.tree[q]
    BY <2>1, JoinedLeaves
  <2>4. \A q \in DOMAIN right.tree : J[<<1>> \o q] = right.tree[q]
    BY <2>1, JoinedLeaves
  <2> QED BY <2>2, <2>3, <2>4
<1>7. minHeap' = (minHeap \ {left, right}) \cup {new}
  BY <1>2
<1>8. binary' = binary
  BY DEF MergeNodes
<1> HIDE DEF new, J
<1>9. IsFiniteSet(minHeap')
  <2>1. IsFiniteSet(minHeap \ {left, right})
    BY FS_Subset DEF HeapInv
  <2> QED BY <1>7, <2>1, FS_AddElement
<1>10. \A n \in minHeap' : n.freq \in Nat \ {0} /\ FullTree(n.tree)
  <2>1. left.freq + right.freq \in Nat \ {0}
    BY <1>3 DEF HeapInv
  <2> QED BY <1>4, <1>5, <1>7, <2>1 DEF HeapInv
\* The leaf of a tree that is merged, in the new tree.
<1>11. ASSUME NEW p \in DOMAIN J
       PROVE  \E n \in {left, right} : \E q \in DOMAIN n.tree : n.tree[q] = J[p]
  BY <1>6
<1>12. ASSUME NEW n \in {left, right}, NEW q \in DOMAIN n.tree
       PROVE  \E p \in DOMAIN J : J[p] = n.tree[q]
  BY <1>6
<1>13. ASSUME NEW v \in Values(binary)
       PROVE  \E n \in minHeap' : \E p \in DOMAIN n.tree : n.tree[p] = v
  <2>1. PICK n \in minHeap : \E p \in DOMAIN n.tree : n.tree[p] = v
    BY DEF HeapInv
  <2>2. CASE n \in {left, right}
    <3>1. \E p \in DOMAIN new.tree : new.tree[p] = v
      BY <1>4, <1>12, <2>1, <2>2
    <3> QED BY <1>7, <3>1
  <2>3. CASE n \notin {left, right}
    BY <1>7, <2>1, <2>3
  <2> QED BY <2>2, <2>3
<1>14. ASSUME NEW n \in minHeap', NEW p \in DOMAIN n.tree PROVE n.tree[p] \in Values(binary)
  <2>1. CASE n = new
    BY <1>3, <1>4, <1>11, <2>1 DEF HeapInv
  <2>2. CASE n \in minHeap
    BY <2>2 DEF HeapInv
  <2> QED BY <1>7, <2>1, <2>2
<1>15. ASSUME NEW m \in minHeap, m \notin {left, right}, NEW q \in DOMAIN m.tree, NEW p \in DOMAIN J,
              m.tree[q] = J[p]
       PROVE  FALSE
  <2>1. PICK n \in {left, right} : \E r \in DOMAIN n.tree : n.tree[r] = J[p]
    BY <1>11
  <2>2. PICK r \in DOMAIN n.tree : n.tree[r] = m.tree[q]
    BY <1>15, <2>1
  <2>3. n = m
    BY <1>3, <2>2 DEF HeapInv
  <2> QED BY <1>15, <2>3
<1>16. ASSUME NEW p \in DOMAIN J, NEW q \in DOMAIN J, J[p] = J[q] PROVE p = q
  <2>1. \A n, m \in minHeap : \A r \in DOMAIN n.tree : \A s \in DOMAIN m.tree :
          n.tree[r] = m.tree[s] => n = m /\ r = s
    BY DEF HeapInv
  <2>2. CASE \E r \in DOMAIN left.tree : p = <<0>> \o r
    <3>1. PICK r \in DOMAIN left.tree : p = <<0>> \o r
      BY <2>2
    <3>2. J[p] = left.tree[r]
      BY <1>6, <3>1
    <3>3. CASE \E s \in DOMAIN left.tree : q = <<0>> \o s
      BY <1>3, <1>6, <1>16, <2>1, <3>1, <3>2, <3>3
    <3>4. CASE \E s \in DOMAIN right.tree : q = <<1>> \o s
      <4>1. PICK s \in DOMAIN right.tree : q = <<1>> \o s
        BY <3>4
      <4>2. left.tree[r] = right.tree[s]
        BY <1>6, <1>16, <3>2, <4>1
      <4> QED BY <1>3, <2>1, <4>2
    <3> QED BY <1>6, <3>3, <3>4
  <2>3. CASE \E r \in DOMAIN right.tree : p = <<1>> \o r
    <3>1. PICK r \in DOMAIN right.tree : p = <<1>> \o r
      BY <2>3
    <3>2. J[p] = right.tree[r]
      BY <1>6, <3>1
    <3>3. CASE \E s \in DOMAIN right.tree : q = <<1>> \o s
      BY <1>3, <1>6, <1>16, <2>1, <3>1, <3>2, <3>3
    <3>4. CASE \E s \in DOMAIN left.tree : q = <<0>> \o s
      <4>1. PICK s \in DOMAIN left.tree : q = <<0>> \o s
        BY <3>4
      <4>2. left.tree[s] = right.tree[r]
        BY <1>6, <1>16, <3>2, <4>1
      <4> QED BY <1>3, <2>1, <4>2
    <3> QED BY <1>6, <3>3, <3>4
  <2> QED BY <1>6, <2>2, <2>3
<1>17. ASSUME NEW n \in minHeap', NEW m \in minHeap', NEW p \in DOMAIN n.tree, NEW q \in DOMAIN m.tree,
              n.tree[p] = m.tree[q]
       PROVE  n = m /\ p = q
  <2>1. CASE n = new /\ m = new
    BY <1>4, <1>16, <1>17, <2>1
  <2>2. CASE n = new /\ m # new
    BY <1>4, <1>7, <1>15, <1>17, <2>2
  <2>3. CASE n # new /\ m = new
    BY <1>4, <1>7, <1>15, <1>17, <2>3
  <2>4. CASE n # new /\ m # new
    <3>1. n \in minHeap /\ m \in minHeap
      BY <1>7, <2>4
    <3> QED BY <1>17, <3>1 DEF HeapInv
  <2> QED BY <2>1, <2>2, <2>3, <2>4
<1> QED BY <1>8, <1>9, <1>10, <1>13, <1>14, <1>17 DEF HeapInv

-----------------------------------------------------------------------------
(* Each action keeps the invariant.                                        *)

\* While the file and what it was made from stay, what is in it stays.
LEMMA SameFile ==
  ASSUME minHeap' = minHeap, binary' = binary, file' = file
  PROVE  /\ TheTree' = TheTree /\ TreeBits' = TreeBits
         /\ Codes' = Codes /\ CompressedData' = CompressedData
         /\ CompressedTree' = CompressedTree /\ BitsToDecode' = BitsToDecode
         /\ (TreeWritten' <=> TreeWritten) /\ (AllWritten' <=> AllWritten)
         /\ (HeapInv => HeapInv')
<1>1. TheTree' = TheTree
  BY DEF TheTree, Root
<1>2. TreeBits' = TreeBits
  BY <1>1 DEF TreeBits
<1>3. Codes' = Codes
  BY <1>1 DEF Codes
<1>4. CompressedData' = CompressedData
  BY <1>1 DEF CompressedData, TheTree
<1>5. CompressedTree' = CompressedTree
  BY DEF CompressedTree, TreeEnd
<1>6. BitsToDecode' = BitsToDecode
  BY DEF BitsToDecode, TreeEnd
<1>7. TreeWritten' <=> TreeWritten
  BY <1>2 DEF TreeWritten, Written, TreeBits, TheTree
<1>8. AllWritten' <=> AllWritten
  BY <1>2, <1>4 DEF AllWritten, Written, TreeBits, TheTree
<1>9. HeapInv => HeapInv'
  BY DEF HeapInv
<1> QED BY <1>1, <1>2, <1>3, <1>4, <1>5, <1>6, <1>7, <1>8, <1>9

\* What was made from the file is there as soon as one tree is left.
LEMMA SameCode ==
  ASSUME minHeap' = minHeap, binary' = binary
  PROVE  /\ TheTree' = TheTree /\ TreeBits' = TreeBits
         /\ CompressedData' = CompressedData
         /\ (HeapInv => HeapInv')
<1>1. TheTree' = TheTree
  BY DEF TheTree, Root
<1>2. TreeBits' = TreeBits
  BY <1>1 DEF TreeBits
<1>3. CompressedData' = CompressedData
  BY <1>1 DEF CompressedData, TheTree
<1>4. HeapInv => HeapInv'
  BY DEF HeapInv
<1> QED BY <1>1, <1>2, <1>3, <1>4

LEMMA MergeKeepsInv == Inv /\ MergeNodes => Inv'
<1> SUFFICES ASSUME Inv, MergeNodes PROVE Inv'
  OBVIOUS
<1>1. HeapInv'
  BY MergeKeepsHeap DEF Inv
<1>2. /\ pc = "buildTreeFromMap" /\ pc' = pc /\ binary' = binary /\ file' = file /\ tree' = tree
      /\ path' = path /\ index' = index /\ output' = output
  BY DEF MergeNodes
<1>3. TypeOK'
  <2>1. \A n \in minHeap' : n.freq \in Nat \ {0} /\ TreeTypeOK(n.tree)
    BY <1>1 DEF HeapInv, FullTree
  <2> QED BY <1>2, <2>1 DEF Inv, TypeOK
<1>4. FileInv'
  BY <1>2 DEF Inv, FileInv
<1>5. ReadInv' /\ DecodeInv' /\ UndefInv'
  BY <1>2 DEF ReadInv, DecodeInv, UndefInv
<1> QED BY <1>1, <1>3, <1>4, <1>5 DEF Inv

LEMMA NoRootKeepsInv == Inv /\ (NoRoot \/ WriteCutHeader) => Inv'
<1> SUFFICES ASSUME Inv, NoRoot \/ WriteCutHeader PROVE Inv'
  OBVIOUS
<1>1. /\ pc = "buildTreeFromMap" /\ pc' = "undefined" /\ binary' = binary /\ file' = file
      /\ minHeap' = minHeap /\ tree' = tree /\ path' = path /\ index' = index /\ output' = output
  BY DEF NoRoot, WriteCutHeader
<1>2. HeapInv'
  BY <1>1, SameFile DEF Inv
<1>3. TypeOK'
  BY <1>1 DEF Inv, TypeOK
<1>4. file = << >>
  BY <1>1 DEF Inv, FileInv
<1>5. FileInv' /\ UndefInv'
  BY <1>1, <1>4 DEF FileInv, UndefInv
<1>6. ReadInv' /\ DecodeInv'
  BY <1>1 DEF ReadInv, DecodeInv
<1> QED BY <1>2, <1>3, <1>5, <1>6 DEF Inv

\* All that WriteFile writes, a whole number of bytes.
LEMMA ContentsFacts ==
  ASSUME binary \in Seq(Bytes), HeapInv, Cardinality(minHeap) = 1, NEW nonce
  PROVE  LET all == Pack(TreeBits) \o Encrypt(Pack(CompressedData), nonce)
         IN  /\ Contents(nonce) = [nonce |-> nonce, treeSize |-> TreeSize(TreeBits), bits |-> all]
             /\ Len(Pack(TreeBits)) \in Nat /\ Len(Pack(CompressedData)) \in Nat
             /\ all \in Seq(Bits)
             /\ Len(all) = Len(Pack(TreeBits)) + Len(Pack(CompressedData))
             /\ TreeSize(TreeBits) \in Nat
             /\ \E q \in Nat : Len(all) = ByteBits * q
<1> DEFINE P == Pack(TreeBits)
           D == Pack(CompressedData)
           E == Encrypt(D, nonce)
<1>1. TreeBits \in Seq(Bits) /\ CompressedData \in Seq(Bits)
  BY TheCode
<1>2. P \in Seq(Bits) /\ TreeSize(TreeBits) \in Nat /\ Len(P) = ByteBits * TreeSize(TreeBits)
  BY <1>1, PackFacts
<1>3. D \in Seq(Bits) /\ TreeSize(CompressedData) \in Nat /\ Len(D) = ByteBits * TreeSize(CompressedData)
  BY <1>1, PackFacts
<1>4. E \in Seq(Bits) /\ Len(E) = Len(D)
  BY <1>3, EncryptFacts
<1>5. Contents(nonce) = [nonce |-> nonce, treeSize |-> TreeSize(TreeBits), bits |-> P \o E]
  BY DEF Contents, TreeBits, TheTree
<1> HIDE DEF P, D, E
<1>6. P \o E \in Seq(Bits) /\ Len(P \o E) = Len(P) + Len(D)
  <2>1. P \in Seq(Bits) /\ E \in Seq(Bits)
    BY <1>2, <1>4
  <2>2. P \o E \in Seq(Bits) /\ Len(P \o E) = Len(P) + Len(E)
    BY <2>1, ConcatProperties
  <2> QED BY <1>4, <2>2
<1>7. Len(P \o E) = ByteBits * (TreeSize(TreeBits) + TreeSize(CompressedData))
  BY <1>2, <1>3, <1>6, BitsAndBytes
<1>8. TreeSize(TreeBits) + TreeSize(CompressedData) \in Nat
  BY <1>2, <1>3
<1>9. Len(P) \in Nat /\ Len(D) \in Nat
  BY <1>2, <1>3
<1> QED BY <1>2, <1>5, <1>6, <1>7, <1>8, <1>9 DEF P, D, E

LEMMA WriteKeepsInv == Inv /\ (WriteFile \/ WriteCutFile) => Inv'
<1> SUFFICES ASSUME Inv, WriteFile \/ WriteCutFile PROVE Inv'
  OBVIOUS
<1>1. /\ pc = "buildTreeFromMap" /\ Cardinality(minHeap) = 1 /\ pc' = "recursiveBuildTree"
      /\ binary' = binary /\ minHeap' = minHeap /\ tree' = tree /\ path' = path
      /\ index' = index /\ output' = output
  BY DEF WriteFile, WriteCutFile
<1>2. binary \in Seq(Bytes) /\ HeapInv
  BY DEF Inv, TypeOK
<1> DEFINE all(nonce) == Pack(TreeBits) \o Encrypt(Pack(CompressedData), nonce)
<1>3. \E nonce \in Nonces : \E n \in Nat :
        /\ ByteBits * n <= Len(Pack(TreeBits)) + Len(Pack(CompressedData))
        /\ file' = [nonce |-> nonce, treeSize |-> TreeSize(TreeBits),
                    bits |-> SubSeq(all(nonce), 1, ByteBits * n)]
  <2>1. CASE WriteFile
    <3>1. PICK nonce \in Nonces : file' = Contents(nonce)
      BY <2>1 DEF WriteFile
    <3>2. PICK q \in Nat : Len(all(nonce)) = ByteBits * q
      BY <1>1, <1>2, ContentsFacts
    <3>3. /\ Contents(nonce) = [nonce |-> nonce, treeSize |-> TreeSize(TreeBits), bits |-> all(nonce)]
          /\ all(nonce) \in Seq(Bits)
          /\ Len(all(nonce)) = Len(Pack(TreeBits)) + Len(Pack(CompressedData))
          /\ Len(all(nonce)) \in Nat
      BY <1>1, <1>2, ContentsFacts
    <3> HIDE DEF all
    <3>4. SubSeq(all(nonce), 1, Len(all(nonce))) = all(nonce)
      BY <3>3
    <3>5. ByteBits * q <= Len(Pack(TreeBits)) + Len(Pack(CompressedData))
      BY <3>2, <3>3
    <3> QED BY <3>1, <3>2, <3>3, <3>4, <3>5
  <2>2. CASE WriteCutFile
    <3>1. PICK nonce \in Nonces : \E n \in 0..(Len(Contents(nonce).bits) \div ByteBits - 1) :
            file' = [Contents(nonce) EXCEPT !.bits = SubSeq(@, 1, ByteBits * n)]
      BY <2>2 DEF WriteCutFile
    <3>2. PICK n \in 0..(Len(Contents(nonce).bits) \div ByteBits - 1) :
            file' = [Contents(nonce) EXCEPT !.bits = SubSeq(@, 1, ByteBits * n)]
      BY <3>1
    <3>3. PICK q \in Nat : Len(all(nonce)) = ByteBits * q
      BY <1>1, <1>2, ContentsFacts
    <3>4. /\ Contents(nonce) = [nonce |-> nonce, treeSize |-> TreeSize(TreeBits), bits |-> all(nonce)]
          /\ Len(all(nonce)) = Len(Pack(TreeBits)) + Len(Pack(CompressedData))
      BY <1>1, <1>2, ContentsFacts
    <3> HIDE DEF all
    <3>5. Contents(nonce).bits = all(nonce)
      BY <3>4
    <3>6. file' = [nonce |-> nonce, treeSize |-> TreeSize(TreeBits),
                   bits |-> SubSeq(all(nonce), 1, ByteBits * n)]
      <4> DEFINE c == [nonce |-> nonce, treeSize |-> TreeSize(TreeBits), bits |-> all(nonce)]
      <4>1. [c EXCEPT !.bits = SubSeq(@, 1, ByteBits * n)] =
              [nonce |-> nonce, treeSize |-> TreeSize(TreeBits),
               bits |-> SubSeq(all(nonce), 1, ByteBits * n)]
        <5>1. ASSUME NEW x, NEW y, NEW z, NEW w
              PROVE  [[nonce |-> x, treeSize |-> y, bits |-> z] EXCEPT !.bits = w] =
                       [nonce |-> x, treeSize |-> y, bits |-> w]
          OBVIOUS
        <5>2. c.bits = all(nonce)
          OBVIOUS
        <5>3. [c EXCEPT !.bits = SubSeq(@, 1, ByteBits * n)] =
                [c EXCEPT !.bits = SubSeq(all(nonce), 1, ByteBits * n)]
          BY <5>2, Zenon
        <5> DEFINE w == SubSeq(all(nonce), 1, ByteBits * n)
                   size == TreeSize(TreeBits)
                   a == all(nonce)
        <5> HIDE DEF w, size, a
        <5>4. [[nonce |-> nonce, treeSize |-> size, bits |-> a] EXCEPT !.bits = w] =
                [nonce |-> nonce, treeSize |-> size, bits |-> w]
          BY <5>1
        <5> QED BY <5>3, <5>4, Zenon DEF w, size, a
      <4>2. Contents(nonce) = c
        BY <3>4
      <4> HIDE DEF c
      <4>3. file' = [c EXCEPT !.bits = SubSeq(@, 1, ByteBits * n)]
        BY <3>2, <4>2
      <4> QED BY <4>1, <4>3
    <3>7. Len(Contents(nonce).bits) \div ByteBits = q
      BY <3>3, <3>5, Multiple, BitsAndBytes
    <3>8. n \in Nat /\ n <= q
      BY <3>7
    <3>9. ByteBits * n <= ByteBits * q
      BY <3>8, BitsAndBytes
    <3> QED BY <3>3, <3>4, <3>6, <3>8, <3>9
  <2> QED BY <2>1, <2>2
<1>4. PICK nonce \in Nonces : \E n \in Nat :
        /\ ByteBits * n <= Len(Pack(TreeBits)) + Len(Pack(CompressedData))
        /\ file' = [nonce |-> nonce, treeSize |-> TreeSize(TreeBits),
                    bits |-> SubSeq(all(nonce), 1, ByteBits * n)]
  BY <1>3
<1>5. PICK n \in Nat :
        /\ ByteBits * n <= Len(Pack(TreeBits)) + Len(Pack(CompressedData))
        /\ file' = [nonce |-> nonce, treeSize |-> TreeSize(TreeBits),
                    bits |-> SubSeq(all(nonce), 1, ByteBits * n)]
  BY <1>4
<1>6. /\ TheTree' = TheTree /\ TreeBits' = TreeBits /\ CompressedData' = CompressedData /\ HeapInv'
  BY <1>1, <1>2, SameCode
<1>7. file' # << >>
  BY <1>5
<1>8. FileInv'
  <2>1. FileIs(nonce, n)'
    BY <1>5, <1>6 DEF FileIs
  <2>2. (\E k \in Nat : /\ ByteBits * k <= Len(Pack(TreeBits)) + Len(Pack(CompressedData))
                        /\ FileIs(nonce, k))'
    BY <1>5, <1>6, <2>1
  <2> QED BY <1>1, <1>7, <2>2 DEF FileInv
<1>9. TypeOK'
  <2>1. /\ all(nonce) \in Seq(Bits) /\ TreeSize(TreeBits) \in Nat /\ Len(all(nonce)) \in Nat
        /\ Len(all(nonce)) = Len(Pack(TreeBits)) + Len(Pack(CompressedData))
    BY <1>1, <1>2, ContentsFacts
  <2>2. ByteBits * n \in 0..Len(all(nonce))
    BY <1>5, <2>1, BitsAndBytes
  <2> HIDE DEF all
  <2>3. SubSeq(all(nonce), 1, ByteBits * n) \in Seq(Bits)
    BY <2>1, <2>2, FirstPart DEF Paths
  <2>4. file'.nonce \in Nonces /\ file'.treeSize \in Nat /\ file'.bits \in Seq(Bits)
    BY <1>5, <2>1, <2>3
  <2> QED BY <1>1, <2>4 DEF Inv, TypeOK
<1>10. ReadInv'
  <2>1. FullTree(TheTree)
    BY <1>1, <1>2, OneTree
  <2>2. << >> \in Nodes(TheTree) /\ Start(TheTree)[<< >>] = 0
    BY <2>1, RootIsNode, StartSteps
  <2>3. tree = << >> /\ path = << >> /\ index = 0 /\ output = << >>
    BY <1>1 DEF Inv, FileInv
  <2>4. {q \in DOMAIN TheTree : Start(TheTree)[q] < 0} = {}
    <3>1. \A q \in DOMAIN TheTree : Start(TheTree)[q] \in Nat
      BY <2>1, StartSound DEF Nodes
    <3> QED BY <3>1
  <2> DEFINE S == {q \in DOMAIN TheTree : Start(TheTree)[q] < 0}
  <2>5. << >> = [p \in S |-> TheTree[p]]
    <3> HIDE DEF S
    <3>1. S = {}
      BY <2>4 DEF S
    <3> QED BY <3>1
  <2> QED BY <1>1, <1>6, <2>2, <2>3, <2>5 DEF ReadInv
<1>11. DecodeInv' /\ UndefInv'
  BY <1>1 DEF DecodeInv, UndefInv
<1> QED BY <1>6, <1>8, <1>9, <1>10, <1>11 DEF Inv

\* Where recursiveBuildTree is in the serialized tree.
LEMMA ReadContext ==
  ASSUME Inv, pc = "recursiveBuildTree"
  PROVE  /\ file # << >> /\ Cardinality(minHeap) = 1 /\ HeapInv /\ binary \in Seq(Bytes)
         /\ FullTree(TheTree)
         /\ CompressedTree \in Seq(Bits) /\ Len(CompressedTree) \in Nat
         /\ TreeWritten =>
              /\ path \in Nodes(TheTree)
              /\ index = Start(TheTree)[path]
              /\ Size(TheTree, path) \in Nat \ {0}
              /\ index + Size(TheTree, path) <= Len(CompressedTree)
              /\ \A j \in 1..Size(TheTree, path) :
                   CompressedTree[index + j] = Serialized(TheTree)[path][j]
<1>1. file # << >>
  BY DEF Inv, FileInv
<1>2. Cardinality(minHeap) = 1 /\ HeapInv /\ binary \in Seq(Bytes) /\ index \in Nat
  BY <1>1 DEF Inv, FileInv, TypeOK
<1>3. FullTree(TheTree)
  BY <1>2, OneTree
<1>4. CompressedTree \in Seq(Bits) /\ Len(CompressedTree) \in Nat
  <2>1. CompressedTree \in Seq(Bits)
    BY <1>1, <1>2, FileFacts DEF Inv
  <2> QED BY <2>1
<1>5. ASSUME TreeWritten
      PROVE  /\ path \in Nodes(TheTree)
             /\ index = Start(TheTree)[path]
             /\ Size(TheTree, path) \in Nat \ {0}
             /\ index + Size(TheTree, path) <= Len(CompressedTree)
             /\ \A j \in 1..Size(TheTree, path) :
                  CompressedTree[index + j] = Serialized(TheTree)[path][j]
  <2>1. path \in Nodes(TheTree) /\ index = Start(TheTree)[path]
    BY <1>5 DEF Inv, ReadInv
  <2>2. Size(TheTree, path) \in Nat \ {0}
    BY <1>3, <2>1, SizeType
  <2>3. /\ index + Size(TheTree, path) <= Size(TheTree, << >>)
        /\ \A j \in 1..Size(TheTree, path) :
             Serialized(TheTree)[<< >>][index + j] = Serialized(TheTree)[path][j]
    BY <1>3, <2>1, StartSound
  <2>4. /\ Len(TreeBits) <= Len(CompressedTree)
        /\ \A i \in 1..Len(TreeBits) : CompressedTree[i] = TreeBits[i]
    BY <1>1, <1>2, <1>5, FileFacts DEF Inv
  <2>5. TreeBits = Serialized(TheTree)[<< >>] /\ Len(TreeBits) = Size(TheTree, << >>)
        /\ Len(TreeBits) \in Nat
    <3>1. TreeBits \in Seq(Bits)
      BY <1>2, TheCode
    <3> QED BY <1>2, <3>1, TheCode
  <2>6. index + Size(TheTree, path) <= Len(CompressedTree)
    BY <1>2, <1>4, <2>2, <2>3, <2>4, <2>5
  <2>7. ASSUME NEW j \in 1..Size(TheTree, path)
        PROVE  CompressedTree[index + j] = Serialized(TheTree)[path][j]
    <3>1. index + j \in 1..Len(TreeBits)
      BY <1>2, <2>2, <2>3, <2>5
    <3> QED BY <2>3, <2>4, <2>5, <3>1
  <2> QED BY <2>1, <2>2, <2>6, <2>7
<1> QED BY <1>1, <1>2, <1>3, <1>4, <1>5

\* While the decoder is not reached, only the reading of the tree is left.
LEMMA ReadingKeeps ==
  ASSUME Inv, minHeap' = minHeap, binary' = binary, file' = file, file # << >>,
         output' = output \/ output' \in Seq(Bytes),
         pc' \in {"recursiveBuildTree", "decode", "done", "undefined"},
         TreeTypeOK(tree'), path' \in Paths, index' \in Nat, ReadInv', DecodeInv', UndefInv'
  PROVE  Inv'
<1>1. /\ TheTree' = TheTree /\ TreeBits' = TreeBits /\ CompressedData' = CompressedData
      /\ HeapInv'
  BY SameFile DEF Inv
<1>2. file.nonce \in Nonces /\ file.treeSize \in Nat /\ file.bits \in Seq(Bits)
  BY FileFacts DEF Inv, TypeOK
<1>3. TypeOK'
  BY <1>2 DEF Inv, TypeOK, Paths
<1>4. FileInv'
  <2>1. PICK nonce \in Nonces : \E n \in Nat :
            /\ ByteBits * n <= Len(Pack(TreeBits)) + Len(Pack(CompressedData))
            /\ FileIs(nonce, n)
    BY DEF Inv, FileInv
  <2>2. PICK n \in Nat : /\ ByteBits * n <= Len(Pack(TreeBits)) + Len(Pack(CompressedData))
                         /\ FileIs(nonce, n)
    BY <2>1
  <2>3. FileIs(nonce, n)'
    BY <1>1, <2>2 DEF FileIs
  <2>4. (\E k \in Nat : /\ ByteBits * k <= Len(Pack(TreeBits)) + Len(Pack(CompressedData))
                        /\ FileIs(nonce, k))'
    BY <1>1, <2>2, <2>3
  <2>5. Cardinality(minHeap) = 1
    BY DEF Inv, FileInv
  <2> QED BY <2>4, <2>5 DEF FileInv
<1> QED BY <1>1, <1>3, <1>4 DEF Inv

LEMMA InnerKeepsInv == Inv /\ ReadInner => Inv'
<1> SUFFICES ASSUME Inv, ReadInner PROVE Inv'
  OBVIOUS
<1> DEFINE T == TheTree
<1>1. /\ pc = "recursiveBuildTree" /\ pc' = pc /\ index < Len(CompressedTree)
      /\ CompressedTree[index + 1] = 0
      /\ path' = Append(path, 0) /\ index' = index + 1
      /\ minHeap' = minHeap /\ binary' = binary /\ file' = file /\ output' = output /\ tree' = tree
  BY DEF ReadInner
<1>2. path \in Paths /\ index \in Nat /\ TreeTypeOK(tree) /\ 0 \in Bits
  BY DEF Inv, TypeOK, Paths, Bits
<1>3. path' \in Paths /\ path' # << >> /\ index' \in Nat
  BY <1>1, <1>2, AppendPath, ParentOfChild
<1>4. file # << >> /\ FullTree(T)
  BY <1>1, ReadContext
<1>5. TheTree' = TheTree /\ (TreeWritten' <=> TreeWritten)
  BY <1>1, SameFile
<1>6. ASSUME TreeWritten
      PROVE  /\ Append(path, 0) \in Nodes(T)
             /\ index + 1 = Start(T)[Append(path, 0)]
             /\ tree = [p \in {q \in DOMAIN T : Start(T)[q] < index + 1} |-> T[p]]
  <2>1. /\ path \in Nodes(T) /\ index = Start(T)[path]
        /\ Size(T, path) \in Nat \ {0}
        /\ \A j \in 1..Size(T, path) : CompressedTree[index + j] = Serialized(T)[path][j]
    BY <1>1, <1>6, ReadContext
  <2>2. Serialized(T)[path][1] = 0
    <3>1. 1 \in 1..Size(T, path)
      BY <2>1
    <3> QED BY <1>1, <2>1, <3>1
  <2>3. path \in Inner(T)
    <3>1. path \notin DOMAIN T
      BY <1>4, <2>2, LeafBits
    <3> QED BY <1>4, <2>1, <3>1, NodeOnWay DEF FullTree
  <2>4. Append(path, 0) \in Nodes(T) /\ index + 1 = Start(T)[Append(path, 0)]
    BY <1>2, <1>4, <2>1, <2>3, ChildNodes, StartSteps
  <2>5. ASSUME NEW q \in DOMAIN T PROVE Start(T)[q] < index + 1 <=> Start(T)[q] < index
    <3>1. q \in Nodes(T) /\ Start(T)[q] \in Nat
      BY <1>4, StartSound DEF Nodes
    <3>2. Start(T)[q] # index
      <4> SUFFICES ASSUME Start(T)[q] = index PROVE FALSE
        OBVIOUS
      <4>1. 1 \in 1..Size(T, q)
        BY <1>4, <3>1, SizeType
      <4>2. Serialized(T)[<< >>][index + 1] = Serialized(T)[q][1]
        BY <1>4, <3>1, <4>1, StartSound
      <4>3. Serialized(T)[<< >>][index + 1] = Serialized(T)[path][1]
        <5>1. 1 \in 1..Size(T, path)
          BY <2>1
        <5> QED BY <1>4, <2>1, <5>1, StartSound
      <4>4. Serialized(T)[q][1] = 1
        BY <1>4, LeafBits
      <4>5. Serialized(T)[q][1] = Serialized(T)[path][1]
        BY <4>2, <4>3, Zenon
      <4> QED BY <2>2, <4>4, <4>5
    <3> QED BY <1>2, <3>1, <3>2
  <2>6. {q \in DOMAIN T : Start(T)[q] < index + 1} = {q \in DOMAIN T : Start(T)[q] < index}
    BY <2>5
  <2>7. tree = [p \in {q \in DOMAIN T : Start(T)[q] < index} |-> T[p]]
    BY <1>1, <1>6 DEF Inv, ReadInv
  <2> QED BY <2>4, <2>6, <2>7
<1>7. ReadInv'
  <2>1. output' = << >>
    BY <1>1 DEF Inv, ReadInv
  <2> QED BY <1>1, <1>3, <1>5, <1>6, <2>1 DEF ReadInv
<1>8. DecodeInv' /\ UndefInv'
  BY <1>1 DEF DecodeInv, UndefInv
<1>9. TreeTypeOK(tree')
  BY <1>1, <1>2
<1> QED BY <1>1, <1>3, <1>4, <1>7, <1>8, <1>9, ReadingKeeps

\* A reading that finds less than a byte, or nothing, is of a cut tree.
LEMMA CutKeepsInv == Inv /\ ReadCutLeaf => Inv'
<1> SUFFICES ASSUME Inv, ReadCutLeaf PROVE Inv'
  OBVIOUS
<1> DEFINE T == TheTree
<1>1. /\ pc = "recursiveBuildTree" /\ pc' = "undefined" /\ index < Len(CompressedTree)
      /\ CompressedTree[index + 1] = 1 /\ index + ByteBits > Len(CompressedTree)
      /\ minHeap' = minHeap /\ binary' = binary /\ file' = file /\ output' = output /\ tree' = tree
      /\ path' = path /\ index' = index
  BY DEF ReadCutLeaf
<1>2. path \in Paths /\ index \in Nat /\ TreeTypeOK(tree) /\ ByteBits \in Nat
  BY BitsAndBytes DEF Inv, TypeOK, Paths
<1>3. file # << >> /\ FullTree(T) /\ Len(CompressedTree) \in Nat
  BY <1>1, ReadContext
<1>4. ~TreeWritten
  <2> SUFFICES ASSUME TreeWritten PROVE FALSE
    OBVIOUS
  <2>1. /\ path \in Nodes(T)
        /\ Size(T, path) \in Nat \ {0}
        /\ index + Size(T, path) <= Len(CompressedTree)
        /\ \A j \in 1..Size(T, path) : CompressedTree[index + j] = Serialized(T)[path][j]
    BY <1>1, ReadContext
  <2>2. Serialized(T)[path][1] # 0
    <3>1. 1 \in 1..Size(T, path)
      BY <2>1
    <3> QED BY <1>1, <2>1, <3>1
  <2>3. path \in DOMAIN T
    BY <1>3, <2>1, <2>2, InnerBits DEF Nodes
  <2>4. Size(T, path) = 1 + ByteBits
    BY <1>3, <2>3, LeafBits
  <2> QED BY <1>1, <1>2, <1>3, <2>1, <2>4
<1>5. ~TreeWritten'
  BY <1>1, <1>4, SameFile
<1>6. ReadInv' /\ DecodeInv' /\ UndefInv'
  BY <1>1, <1>5 DEF ReadInv, DecodeInv, UndefInv
<1>7. TreeTypeOK(tree') /\ path' \in Paths /\ index' \in Nat
  BY <1>1, <1>2
<1>8. pc' \in {"recursiveBuildTree", "decode", "done", "undefined"}
  BY <1>1
<1> QED BY <1>1, <1>3, <1>6, <1>7, <1>8, ReadingKeeps

LEMMA NothingKeepsInv == Inv /\ ReadNothing => Inv'
<1> SUFFICES ASSUME Inv, ReadNothing PROVE Inv'
  OBVIOUS
<1> DEFINE T == TheTree
<1>1. /\ pc = "recursiveBuildTree" /\ index >= Len(CompressedTree)
      /\ pc' = IF path = << >> THEN "decode" ELSE "undefined"
      /\ minHeap' = minHeap /\ binary' = binary /\ file' = file /\ output' = output /\ tree' = tree
      /\ path' = path /\ index' = index
  BY DEF ReadNothing
<1>2. path \in Paths /\ index \in Nat /\ TreeTypeOK(tree)
  BY DEF Inv, TypeOK, Paths
<1>3. file # << >> /\ Len(CompressedTree) \in Nat
  BY <1>1, ReadContext
<1>4. ~TreeWritten
  <2> SUFFICES ASSUME TreeWritten PROVE FALSE
    OBVIOUS
  <2>1. Size(T, path) \in Nat \ {0} /\ index + Size(T, path) <= Len(CompressedTree)
    BY <1>1, ReadContext
  <2> QED BY <1>1, <1>2, <1>3, <2>1
<1>5. ~TreeWritten' /\ BitsToDecode' = BitsToDecode
  BY <1>1, <1>4, SameFile
<1>6. Len(BitsToDecode) = 0
  BY <1>3, <1>4, FileFacts DEF Inv, TypeOK
<1>7. output = << >> /\ (path = << >> => index = 0)
  BY <1>1 DEF Inv, ReadInv
<1>8. pc' \in {"decode", "undefined"} /\ (pc' = "decode" => path = << >>)
  BY <1>1
<1>9. ReadInv' /\ UndefInv'
  BY <1>5, <1>8 DEF ReadInv, UndefInv
<1>10. DecodeInv'
  <2>1. pc' = "decode" => index' <= Len(BitsToDecode')
    BY <1>1, <1>5, <1>6, <1>7, <1>8
  <2>2. pc' # "done"
    BY <1>8
  <2> QED BY <1>1, <1>5, <1>7, <1>8, <2>1, <2>2 DEF DecodeInv
<1>11. TreeTypeOK(tree') /\ path' \in Paths /\ index' \in Nat
  BY <1>1, <1>2
<1>12. pc' \in {"recursiveBuildTree", "decode", "done", "undefined"}
  BY <1>8
<1> QED BY <1>1, <1>3, <1>9, <1>10, <1>11, <1>12, ReadingKeeps

\* The byte of a leaf is a byte, and where the tree is there, the leaf's.
LEMMA ByteRead ==
  ASSUME CompressedTree \in Seq(Bits), index \in Nat, index + ByteBits <= Len(CompressedTree)
  PROVE  ByteOf([i \in 1..ByteBits |-> TreeBit(index + i)]) \in Bytes
<1> DEFINE bs == [i \in 1..ByteBits |-> TreeBit(index + i)]
<1>1. ByteBits \in Nat \ {0} /\ Len(CompressedTree) \in Nat
  BY BitsAndBytes
<1>2. ASSUME NEW i \in 1..ByteBits PROVE TreeBit(index + i) \in Bits
  <2>1. CASE index + i = Len(CompressedTree)
    BY <2>1 DEF TreeBit, Bits
  <2>2. CASE index + i # Len(CompressedTree)
    <3>1. index + i + 1 \in 1..Len(CompressedTree)
      BY <1>1, <2>2
    <3>2. CompressedTree[index + i + 1] \in Bits
      BY <3>1
    <3> QED BY <2>2, <3>2 DEF TreeBit
  <2> QED BY <2>1, <2>2
<1>3. bs \in Seq(Bits) /\ Len(bs) = ByteBits
  BY <1>1, <1>2
<1> HIDE DEF bs
<1>4. ByteOf(bs) \in Bytes
  BY <1>3, ByteOfType
<1> QED BY <1>4 DEF bs

LEMMA LeafKeepsInv == Inv /\ ReadLeaf => Inv'
<1> SUFFICES ASSUME Inv, ReadLeaf PROVE Inv'
  OBVIOUS
<1> DEFINE T == TheTree
           byte == ByteOf([i \in 1..ByteBits |-> TreeBit(index + i)])
           added == [p \in DOMAIN tree \cup {path} |-> IF p = path THEN byte ELSE tree[p]]
<1>1. /\ pc = "recursiveBuildTree" /\ index < Len(CompressedTree)
      /\ CompressedTree[index + 1] = 1 /\ index + ByteBits <= Len(CompressedTree)
      /\ tree' = added /\ path' = Return(path)
      /\ IF Turns(path) = {} THEN pc' = "decode" /\ index' = 0
                             ELSE index' = index + 1 + ByteBits /\ pc' = pc
      /\ minHeap' = minHeap /\ binary' = binary /\ file' = file /\ output' = output
  BY DEF ReadLeaf
<1>2. path \in Paths /\ index \in Nat /\ TreeTypeOK(tree) /\ ByteBits \in Nat \ {0}
  BY BitsAndBytes DEF Inv, TypeOK, Paths
<1>3. /\ file # << >> /\ FullTree(T) /\ CompressedTree \in Seq(Bits) /\ Len(CompressedTree) \in Nat
      /\ binary \in Seq(Bytes) /\ HeapInv /\ Cardinality(minHeap) = 1
  BY <1>1, ReadContext
<1>4. byte \in Bytes
  BY <1>1, <1>2, <1>3, ByteRead
<1>5. /\ TheTree' = TheTree /\ Codes' = Codes /\ CompressedData' = CompressedData
      /\ BitsToDecode' = BitsToDecode /\ (TreeWritten' <=> TreeWritten)
  BY <1>1, SameFile
<1>6. output = << >>
  BY <1>1 DEF Inv, ReadInv
<1>7. path' \in Paths /\ (Turns(path) # {} => path' # << >>)
  BY <1>1, <1>2, ReturnType
<1> HIDE DEF byte
<1>8. TreeTypeOK(tree')
  BY <1>1, <1>2, <1>4 DEF TreeTypeOK, Paths
<1>9. index' \in Nat /\ pc' \in {"recursiveBuildTree", "decode"}
  BY <1>1, <1>2
<1> HIDE DEF added
\* What is read where the tree is there.
<1>10. ASSUME TreeWritten
       PROVE  /\ path \in DOMAIN T
              /\ index = Start(T)[path]
              /\ End(T, path) = index + 1 + ByteBits
              /\ added = [p \in {q \in DOMAIN T : Start(T)[q] < End(T, path)} |-> T[p]]
  <2>1. /\ path \in Nodes(T) /\ index = Start(T)[path]
        /\ Size(T, path) \in Nat \ {0}
        /\ index + Size(T, path) <= Len(CompressedTree)
        /\ \A j \in 1..Size(T, path) : CompressedTree[index + j] = Serialized(T)[path][j]
    BY <1>1, <1>10, ReadContext
  <2>2. Serialized(T)[path][1] # 0
    <3>1. 1 \in 1..Size(T, path)
      BY <2>1
    <3> QED BY <1>1, <2>1, <3>1
  <2>3. path \in DOMAIN T
    BY <1>3, <2>1, <2>2, InnerBits DEF Nodes
  <2>4. /\ Size(T, path) = 1 + ByteBits
        /\ \A j \in 1..ByteBits : Serialized(T)[path][1 + j] = BitsOf(T[path])[j]
    BY <1>3, <2>3, LeafBits
  <2>5. T[path] \in Bytes
    BY <1>3, <2>3 DEF FullTree, TreeTypeOK
  <2>6. byte = T[path]
    <3>1. BitsOf(T[path]) \in Seq(Bits) /\ Len(BitsOf(T[path])) = ByteBits
      BY <2>5, BitsOfType
    <3>2. ASSUME NEW i \in 1..ByteBits PROVE TreeBit(index + i) = BitsOf(T[path])[i]
      <4>1. index + i # Len(CompressedTree) /\ 1 + i \in 1..Size(T, path) /\ index + i + 1 = index + (1 + i)
        BY <1>2, <1>3, <2>1, <2>4
      <4>2. TreeBit(index + i) = CompressedTree[index + (1 + i)]
        BY <4>1 DEF TreeBit
      <4> QED BY <2>1, <2>4, <4>1, <4>2
    <3> DEFINE bs == [i \in 1..ByteBits |-> TreeBit(index + i)]
               v == BitsOf(T[path])
    <3>3. bs = v
      <4>1. v = [i \in 1..ByteBits |-> v[i]]
        BY <3>1
      <4>2. \A i \in 1..ByteBits : TreeBit(index + i) = v[i]
        BY <3>2
      <4> HIDE DEF v
      <4> QED BY <4>1, <4>2
    <3>4. ByteOf(bs) = T[path]
      BY <2>5, <3>3, ByteReadBack
    <3> QED BY <3>4 DEF byte
  <2>7. End(T, path) = index + 1 + ByteBits
    <3>1. End(T, path) = Start(T)[path] + Size(T, path)
      BY DEF End
    <3>2. End(T, path) = index + (1 + ByteBits)
      BY <2>1, <2>4, <3>1
    <3> QED BY <1>2, <3>2
  <2> DEFINE read == {q \in DOMAIN T : Start(T)[q] < index}
             now  == {q \in DOMAIN T : Start(T)[q] < End(T, path)}
  <2>8. tree = [p \in read |-> T[p]]
    BY <1>1, <1>10 DEF Inv, ReadInv
  <2>9. now = read \cup {path}
    <3>1. ASSUME NEW q \in DOMAIN T, Start(T)[q] < End(T, path), q # path PROVE Start(T)[q] < index
      <4>1. End(T, q) <= Start(T)[path] \/ End(T, path) <= Start(T)[q]
        BY <1>3, <2>3, <3>1, LeavesApart
      <4>2. /\ Start(T)[q] \in Nat /\ End(T, q) \in Nat /\ Start(T)[q] < End(T, q)
            /\ End(T, path) \in Nat
        BY <1>3, <2>1, EndType DEF Nodes
      <4> QED BY <1>2, <2>1, <3>1, <4>1, <4>2
    <3>2. ASSUME NEW q \in DOMAIN T, Start(T)[q] < index PROVE Start(T)[q] < End(T, path)
      <4>1. Start(T)[q] \in Nat
        BY <1>3, StartSound DEF Nodes
      <4> QED BY <1>2, <2>7, <3>2, <4>1
    <3>3. Start(T)[path] < End(T, path)
      BY <1>3, <2>1, EndType
    <3> QED BY <2>3, <3>1, <3>2, <3>3
  <2>10. added = [p \in now |-> T[p]]
    <3> HIDE DEF read, now
    <3>1. DOMAIN tree = read /\ \A p \in read : tree[p] = T[p]
      BY <2>8
    <3>2. added = [p \in read \cup {path} |-> IF p = path THEN byte ELSE tree[p]]
      BY <3>1 DEF added
    <3>3. \A p \in read \cup {path} : (IF p = path THEN byte ELSE tree[p]) = T[p]
      BY <2>6, <3>1
    <3>4. added = [p \in read \cup {path} |-> T[p]]
      BY <3>2, <3>3
    <3> QED BY <2>9, <3>4
  <2> QED BY <2>1, <2>3, <2>7, <2>10
<1>11. CASE Turns(path) # {}
  <2>1. pc' = "recursiveBuildTree" /\ index' = index + 1 + ByteBits
    BY <1>1, <1>11
  <2>2. ASSUME TreeWritten
        PROVE  /\ path' \in Nodes(T)
               /\ index' = Start(T)[path']
               /\ tree' = [p \in {q \in DOMAIN T : Start(T)[q] < index'} |-> T[p]]
    <3>1. path \in Nodes(T)
      BY <1>10, <2>2 DEF Nodes
    <3>2. Return(path) \in Nodes(T) /\ Start(T)[Return(path)] = End(T, path)
      BY <1>3, <1>11, <3>1, ReturnSound DEF ReturnsTo
    <3>3. index' = End(T, path)
      BY <1>10, <2>1, <2>2
    <3>4. tree' = [p \in {q \in DOMAIN T : Start(T)[q] < End(T, path)} |-> T[p]]
      BY <1>1, <1>10, <2>2
    <3> QED BY <1>1, <3>2, <3>3, <3>4
  <2>3. ReadInv'
    <3>1. output' = << >> /\ path' # << >>
      BY <1>1, <1>6, <1>7, <1>11
    <3> QED BY <1>5, <2>2, <3>1 DEF ReadInv
  <2>4. DecodeInv' /\ UndefInv'
    BY <2>1 DEF DecodeInv, UndefInv
  <2>5. pc' \in {"recursiveBuildTree", "decode", "done", "undefined"}
    BY <2>1
  <2> QED BY <1>1, <1>3, <1>7, <1>8, <1>9, <2>3, <2>4, <2>5, ReadingKeeps
<1>12. CASE Turns(path) = {}
  <2>1. pc' = "decode" /\ index' = 0 /\ path' = << >>
    BY <1>1, <1>12 DEF Return
  <2>2. ASSUME TreeWritten PROVE tree' = T
    <3>1. path \in Nodes(T)
      BY <1>10, <2>2 DEF Nodes
    <3>2. End(T, path) = Size(T, << >>)
      BY <1>3, <1>12, <3>1, ReturnSound DEF ReturnsTo
    <3>3. ASSUME NEW q \in DOMAIN T PROVE Start(T)[q] < End(T, path)
      <4>1. q \in Nodes(T)
        BY DEF Nodes
      <4> QED BY <1>3, <3>2, <4>1, EndType
    <3>4. {q \in DOMAIN T : Start(T)[q] < End(T, path)} = DOMAIN T
      BY <3>3
    <3>5. tree' = [p \in DOMAIN T |-> T[p]]
      BY <1>1, <1>10, <2>2, <3>4
    <3>6. T = [p \in DOMAIN T |-> T[p]]
      BY <1>3 DEF FullTree
    <3> QED BY <3>5, <3>6, Zenon
  <2>3. ASSUME TreeWritten, << >> \notin DOMAIN T
        PROVE  << >> \in Inner(T) /\ InCode(0)'
    <3>1. << >> \in Inner(T)
      BY <1>3, <2>3, RootIsNode DEF Nodes
    <3>2. /\ Len(binary) \in Nat \ {0} /\ IsOffset(Offset(Codes), Codes)
          /\ Codes[1] \in DOMAIN T /\ Codes[1] \in Paths
      <4>1. Len(binary) \in Nat \ {0} /\ IsOffset(Offset(Codes), Codes)
        BY <1>3, TheCode
      <4>2. 1 \in 1..Len(binary)
        BY <4>1
      <4>3. Codes[1] \in DOMAIN T /\ Codes[1] \in Paths
        BY <1>3, <4>2, TheCode
      <4> QED BY <4>1, <4>3
    <3>3. Len(Codes[1]) > 0
      <4>1. Len(Codes[1]) \in Nat /\ Codes[1] # << >>
        BY <2>3, <3>2, PathProperties
      <4>2. Len(Codes[1]) # 0
        BY <3>2, <4>1, EmptyPath
      <4> QED BY <4>1, <4>2
    <3>4. Offset(Codes)[0] = 0
      BY <3>2 DEF IsOffset
    <3>5. 0 \in 0..(Len(binary) - 1)
      BY <3>2
    <3>6. Len(output') = 0 /\ Len(path') = 0 /\ index' = 0
      BY <1>1, <1>6, <2>1
    <3>7. InCode(0)'
      BY <1>1, <1>5, <3>3, <3>4, <3>5, <3>6 DEF InCode
    <3> QED BY <3>1, <3>7
  <2>4. ReadInv' /\ UndefInv'
    BY <2>1 DEF ReadInv, UndefInv
  <2>5. Len(BitsToDecode) \in Nat
    <3>1. BitsToDecode \in Seq(Bits)
      BY <1>3, FileFacts DEF Inv
    <3> QED BY <3>1
  <2>6. 0 \in 0..Len(binary')
    BY <1>1, <1>3
  <2>7. DecodeInv'
    <3>1. index' <= Len(BitsToDecode')
      BY <1>5, <2>1, <2>5
    <3>2. output' = << >>
      BY <1>1, <1>6
    <3>3. TreeWritten' => tree' = TheTree'
      BY <1>5, <2>2
    <3>4. TreeWritten' /\ << >> \notin DOMAIN TheTree' =>
            path' \in Inner(TheTree') /\ \E k \in 0..Len(binary') : InCode(k)'
      BY <1>5, <2>1, <2>3, <2>6
    <3> QED BY <2>1, <3>1, <3>2, <3>3, <3>4 DEF DecodeInv
  <2>8. pc' \in {"recursiveBuildTree", "decode", "done", "undefined"}
    BY <2>1
  <2> QED BY <1>1, <1>3, <1>7, <1>8, <1>9, <2>4, <2>7, <2>8, ReadingKeeps
<1> QED BY <1>11, <1>12

LEMMA DecodeKeepsInv == Inv /\ DecodeBit => Inv'
<1> SUFFICES ASSUME Inv, DecodeBit PROVE Inv'
  OBVIOUS
<1> DEFINE T == TheTree
           bit == BitsToDecode[index + 1]
           p == Append(path, bit)
           n == Len(binary)
           off == Offset(Codes)
<1>1. /\ pc = "decode" /\ index < Len(BitsToDecode)
      /\ pc' = IF p \in DOMAIN tree \cup Inner(tree) THEN pc ELSE "undefined"
      /\ path' = IF p \in Inner(tree) THEN p ELSE << >>
      /\ output' = IF p \in DOMAIN tree THEN Append(output, tree[p]) ELSE output
      /\ index' = index + 1
      /\ minHeap' = minHeap /\ binary' = binary /\ file' = file /\ tree' = tree
  BY DEF DecodeBit
<1>2. /\ path \in Paths /\ index \in Nat /\ TreeTypeOK(tree) /\ output \in Seq(Bytes)
      /\ binary \in Seq(Bytes) /\ HeapInv
  BY DEF Inv, TypeOK, Paths
<1>3. file # << >> /\ Cardinality(minHeap) = 1
  BY <1>1 DEF Inv, FileInv
<1>4. /\ FullTree(T) /\ n \in Nat \ {0}
      /\ CompressedData \in Seq(Bits) /\ Len(CompressedData) \in Nat
      /\ Len(CompressedData) = off[n]
      /\ Len(Codes) = n /\ IsOffset(off, Codes) /\ CompressedData = FlattenSeq(Codes)
  <2>1. FullTree(T)
    BY <1>2, <1>3, OneTree
  <2>2. n \in Nat \ {0} /\ CompressedData \in Seq(Bits)
    BY <1>2, <1>3, TheCode
  <2>3. Len(CompressedData) = off[n] /\ Len(Codes) = n /\ IsOffset(off, Codes)
        /\ CompressedData = FlattenSeq(Codes)
    BY <1>2, <1>3, TheCode
  <2> QED BY <2>1, <2>2, <2>3
<1>5. \A i \in 1..n : /\ Codes[i] \in DOMAIN T /\ Codes[i] \in Paths
                      /\ Len(Codes[i]) \in Nat /\ T[Codes[i]] = binary[i]
  BY <1>2, <1>3, TheCode
<1>6. /\ BitsToDecode \in Seq(Bits) /\ Len(BitsToDecode) \in Nat
      /\ Len(BitsToDecode) <= Len(Pack(CompressedData))
      /\ \A i \in 1..Len(BitsToDecode) : BitsToDecode[i] = Pack(CompressedData)[i]
      /\ TreeWritten
  <2>1. BitsToDecode \in Seq(Bits) /\ Len(BitsToDecode) <= Len(Pack(CompressedData))
    BY <1>2, <1>3, FileFacts DEF Inv
  <2>2. \A i \in 1..Len(BitsToDecode) : BitsToDecode[i] = Pack(CompressedData)[i]
    BY <1>2, <1>3, FileFacts DEF Inv
  <2>3. ~TreeWritten => Len(BitsToDecode) = 0
    BY <1>2, <1>3, FileFacts DEF Inv
  <2> QED BY <1>1, <1>2, <2>1, <2>2, <2>3
<1>7. tree = T
  BY <1>1, <1>6 DEF Inv, DecodeInv
<1>8. << >> \notin DOMAIN T
  <2> SUFFICES ASSUME << >> \in DOMAIN T PROVE FALSE
    OBVIOUS
  <2>1. CompressedData = << >>
    BY <1>2, <1>3, TheCode
  <2>2. Len(Pack(CompressedData)) = 0
    BY <2>1, PackNothing
  <2> QED BY <1>1, <1>2, <1>6, <2>2
<1>9. path \in Inner(T) /\ (PastCodes \/ \E k \in 0..n : InCode(k))
  BY <1>1, <1>6, <1>8 DEF Inv, DecodeInv
<1>10. bit \in Bits /\ index + 1 \in 1..Len(BitsToDecode)
  <2>1. index + 1 \in 1..Len(BitsToDecode)
    BY <1>1, <1>2, <1>6
  <2> QED BY <1>6, <2>1
<1>11. /\ TheTree' = TheTree /\ Codes' = Codes /\ CompressedData' = CompressedData
       /\ BitsToDecode' = BitsToDecode /\ (TreeWritten' <=> TreeWritten)
  BY <1>1, SameFile
<1> HIDE DEF bit
<1>12. /\ p \in Paths /\ Len(p) = Len(path) + 1 /\ Len(path) \in Nat
       /\ \A i \in 1..Len(path) : p[i] = path[i]
       /\ p[Len(path) + 1] = bit
       /\ p \in Nodes(T)
  BY <1>2, <1>4, <1>9, <1>10, AppendPath, ChildNodes, PathProperties
<1> HIDE DEF p
<1>13. p \in Inner(T) <=> p \notin DOMAIN T
  BY <1>4, <1>12, NodeOnWay DEF FullTree
<1>14. pc' = "decode"
  BY <1>1, <1>7, <1>12 DEF Nodes
<1>15. path' \in Inner(T) /\ path' \in Paths
  BY <1>1, <1>4, <1>7, <1>8, <1>12, RootIsNode, EmptyPath DEF Nodes
<1>16. output' \in Seq(Bytes)
  <2>1. p \in DOMAIN tree => tree[p] \in Bytes
    BY <1>2 DEF TreeTypeOK
  <2> QED BY <1>1, <1>2, <2>1, AppendProperties
<1> HIDE DEF n, off
<1>17. ASSUME NEW k \in 0..n, InCode(k)
       PROVE  PastCodes' \/ \E j \in 0..n : InCode(j)'
  <2> DEFINE code == Codes[k + 1]
  <2>1. /\ k \in 0..(n - 1) /\ Len(output) = k /\ \A i \in 1..k : output[i] = binary[i]
        /\ index = off[k] + Len(path) /\ Len(path) < Len(code)
        /\ \A i \in 1..Len(path) : path[i] = code[i]
    BY <1>17 DEF InCode, n, off
  <2>2. k + 1 \in 1..n /\ (k + 1) - 1 = k /\ k \in 0..n /\ k + 1 \in 0..n /\ k \in Nat
    BY <1>4, <2>1
  <2>3. code \in DOMAIN T /\ code \in Paths /\ Len(code) \in Nat /\ T[code] = binary[k + 1]
    BY <1>5, <2>2
  <2>4. off[k + 1] = off[k] + Len(code) /\ off[k] \in Nat /\ off[k + 1] \in Nat
    <3>1. off[k + 1] = off[(k + 1) - 1] + Len(Codes[k + 1])
      BY <1>4, <2>2 DEF IsOffset
    <3>2. off[k] \in Nat /\ off[k + 1] \in Nat
      BY <1>4, <2>2 DEF IsOffset
    <3> QED BY <2>2, <3>1, <3>2
  <2>5. \A j \in 1..Len(code) : CompressedData[off[k] + j] = code[j]
    <3>1. \A i \in 1..Len(Codes) : \A j \in 1..Len(Codes[i]) :
            FlattenSeq(Codes)[off[i - 1] + j] = Codes[i][j]
      BY <1>4 DEF IsOffset
    <3> QED BY <1>4, <2>2, <3>1
  <2>6. off[k + 1] <= Len(CompressedData)
    <3>1. \A i \in 0..Len(Codes) : off[i] <= off[Len(Codes)]
      <4>1. \A i \in 1..Len(Codes) : Len(Codes[i]) \in Nat
        BY <1>4, <1>5
      <4>2. Len(Codes) \in Nat
        BY <1>4
      <4> QED BY <1>4, <4>1, <4>2, OffsetGrows
    <3> QED BY <1>4, <2>2, <3>1
  <2> HIDE DEF code
  <2>7. bit = code[Len(path) + 1]
    <3>1. /\ index + 1 = off[k] + (Len(path) + 1) /\ Len(path) + 1 \in 1..Len(code)
          /\ index + 1 \in 1..Len(CompressedData)
      <4>1. /\ index = off[k] + Len(path) /\ Len(path) < Len(code) /\ Len(path) \in Nat
            /\ off[k + 1] = off[k] + Len(code) /\ off[k] \in Nat /\ Len(code) \in Nat
        BY <1>12, <2>1, <2>3, <2>4
      <4>2. off[k + 1] <= Len(CompressedData) /\ Len(CompressedData) \in Nat
        BY <1>4, <2>6
      <4>3. index + 1 = off[k] + (Len(path) + 1)
        BY <4>1
      <4>4. Len(path) + 1 \in 1..Len(code)
        BY <4>1
      <4>5. index + 1 \in 1..Len(CompressedData)
        BY <4>1, <4>2
      <4> QED BY <4>3, <4>4, <4>5
    <3>2. bit = Pack(CompressedData)[index + 1]
      BY <1>6, <1>10 DEF bit
    <3>3. Pack(CompressedData)[index + 1] = CompressedData[index + 1]
      BY <1>4, <3>1, PackFacts
    <3>4. CompressedData[index + 1] = code[Len(path) + 1]
      BY <2>5, <3>1
    <3> QED BY <3>2, <3>3, <3>4
  <2>8. \A i \in 1..Len(p) : p[i] = code[i]
    <3>1. \A i \in 1..Len(p) : i \in 1..Len(path) \/ i = Len(path) + 1
      BY <1>12
    <3> QED BY <1>12, <2>1, <2>7, <3>1
  <2>9. CASE Len(p) = Len(code)
    <3>1. p = code
      BY <1>12, <2>3, <2>8, <2>9, SamePath
    <3>2. path' = << >> /\ output' = Append(output, binary[k + 1])
      BY <1>1, <1>7, <1>13, <2>3, <3>1
    <3>3. binary[k + 1] \in Bytes
      BY <1>2, <2>2 DEF n
    <3>4. /\ Len(output') = k + 1 /\ \A i \in 1..k : output'[i] = output[i]
          /\ output'[k + 1] = binary[k + 1]
      BY <1>2, <2>1, <3>2, <3>3, AppendProperties
    <3>5. \A i \in 1..(k + 1) : output'[i] = binary[i]
      <4>1. \A i \in 1..(k + 1) : i \in 1..k \/ i = k + 1
        BY <2>2
      <4> QED BY <2>1, <3>4, <4>1
    <3>6. index' = off[k + 1]
      BY <1>1, <1>12, <2>1, <2>3, <2>4, <2>9
    <3>7. CASE k + 1 = n
      <4>1. index' = Len(CompressedData) /\ Len(output') = n
        BY <1>4, <3>4, <3>6, <3>7
      <4>2. \A i \in 1..n : output'[i] = binary[i]
        BY <3>5, <3>7
      <4>3. PastCodes'
        BY <1>1, <1>4, <1>11, <4>1, <4>2 DEF PastCodes, n
      <4> QED BY <4>3
    <3>8. CASE k + 1 # n
      <4>1. k + 1 \in 0..(n - 1) /\ (k + 1) + 1 \in 1..n
        BY <1>4, <2>2, <3>8
      <4>2. Codes[(k + 1) + 1] \in DOMAIN T /\ Codes[(k + 1) + 1] \in Paths
            /\ Len(Codes[(k + 1) + 1]) \in Nat
        BY <1>5, <4>1
      <4>3. Len(Codes[(k + 1) + 1]) # 0
        BY <1>8, <4>2, EmptyPath
      <4>4. Len(path') = 0
        BY <3>2
      <4>5. Len(path') < Len(Codes[(k + 1) + 1])
        BY <4>2, <4>3, <4>4
      <4>6. index' = off[k + 1] + Len(path')
        BY <2>4, <3>6, <4>4
      <4>7. \A i \in 1..Len(path') : path'[i] = Codes[(k + 1) + 1][i]
        BY <4>4
      <4>8. InCode(k + 1)'
        BY <1>1, <1>11, <3>4, <3>5, <4>1, <4>5, <4>6, <4>7 DEF InCode, n, off
      <4> QED BY <2>2, <4>8
    <3> QED BY <3>7, <3>8
  <2>10. CASE Len(p) # Len(code)
    <3>1. Len(p) < Len(code)
      BY <1>12, <2>1, <2>3, <2>10
    <3>2. OnWay(p, code) /\ p # code
      BY <1>12, <2>3, <2>8, <3>1 DEF OnWay
    <3>3. p \in Inner(T)
      BY <1>4, <1>12, <2>3, <3>2, NodesAbove DEF Nodes
    <3>4. path' = p /\ output' = output
      BY <1>1, <1>7, <1>13, <3>3
    <3>5. index' = off[k] + Len(p)
      <4>1. /\ index = off[k] + Len(path) /\ Len(path) \in Nat /\ off[k] \in Nat
            /\ Len(p) = Len(path) + 1 /\ index' = index + 1
        BY <1>1, <1>12, <2>1, <2>4
      <4> QED BY <4>1
    <3>6. InCode(k)'
      BY <1>1, <1>11, <2>1, <2>8, <3>1, <3>4, <3>5 DEF InCode, n, off, code
    <3> QED BY <2>2, <3>6
  <2> QED BY <2>9, <2>10
<1>18. ASSUME PastCodes
       PROVE  PastCodes'
  <2>1. /\ n <= Len(output) /\ \A i \in 1..n : output[i] = binary[i]
        /\ Len(CompressedData) <= index
        /\ Len(output) - n <= index - Len(CompressedData)
    BY <1>18 DEF PastCodes, n
  <2>2. Len(output) \in Nat
    BY <1>2
  <2>3. /\ Len(output') \in Nat /\ Len(output) <= Len(output') /\ Len(output') <= Len(output) + 1
        /\ \A i \in 1..Len(output) : output'[i] = output[i]
    <3>1. CASE p \in DOMAIN tree
      <4>1. tree[p] \in Bytes
        BY <1>2, <3>1 DEF TreeTypeOK
      <4>2. output' = Append(output, tree[p])
        BY <1>1, <3>1
      <4>3. Len(output') = Len(output) + 1 /\ \A i \in 1..Len(output) : output'[i] = output[i]
        BY <1>2, <4>1, <4>2, AppendProperties
      <4> QED BY <2>2, <4>3
    <3>2. CASE p \notin DOMAIN tree
      BY <1>1, <2>2, <3>2
    <3> QED BY <3>1, <3>2
  <2>4. \A i \in 1..n : output'[i] = binary[i]
    <3>1. \A i \in 1..n : i \in 1..Len(output)
      BY <1>4, <2>1, <2>2
    <3> QED BY <2>1, <2>3, <3>1
  <2>5. /\ n <= Len(output') /\ Len(CompressedData) <= index'
        /\ Len(output') - n <= index' - Len(CompressedData)
    BY <1>1, <1>2, <1>4, <2>1, <2>2, <2>3
  <2> QED BY <1>1, <1>11, <2>4, <2>5 DEF PastCodes, n
<1>19. ReadInv' /\ UndefInv'
  BY <1>14 DEF ReadInv, UndefInv
<1>20. DecodeInv'
  <2>1. index' <= Len(BitsToDecode')
    BY <1>1, <1>2, <1>6, <1>11
  <2>2. PastCodes' \/ \E k \in 0..Len(binary') : InCode(k)'
    <3>1. Len(binary') = n
      BY <1>1 DEF n
    <3> QED BY <1>9, <1>17, <1>18, <3>1 DEF n
  <2>3. tree' = TheTree' /\ << >> \notin DOMAIN TheTree' /\ path' \in Inner(TheTree')
    BY <1>1, <1>7, <1>8, <1>11, <1>15
  <2> QED BY <1>6, <1>11, <1>14, <2>1, <2>2, <2>3 DEF DecodeInv
<1>21. TreeTypeOK(tree') /\ index' \in Nat
  BY <1>1, <1>2
<1>22. pc' \in {"recursiveBuildTree", "decode", "done", "undefined"}
  BY <1>14
<1> QED BY <1>1, <1>3, <1>15, <1>16, <1>19, <1>20, <1>21, <1>22, ReadingKeeps

LEMMA OutputKeepsInv == Inv /\ WriteOutput => Inv'
<1> SUFFICES ASSUME Inv, WriteOutput PROVE Inv'
  OBVIOUS
<1>1. /\ pc = "decode" /\ pc' = "done" /\ index = Len(BitsToDecode)
      /\ minHeap' = minHeap /\ binary' = binary /\ file' = file /\ output' = output /\ tree' = tree
      /\ path' = path /\ index' = index
  BY DEF WriteOutput
<1>2. path \in Paths /\ index \in Nat /\ TreeTypeOK(tree)
  BY DEF Inv, TypeOK, Paths
<1>3. file # << >>
  BY <1>1 DEF Inv, FileInv
<1>4. /\ TheTree' = TheTree /\ Codes' = Codes /\ CompressedData' = CompressedData
      /\ BitsToDecode' = BitsToDecode /\ (TreeWritten' <=> TreeWritten)
  BY <1>1, SameFile
<1>5. ReadInv' /\ UndefInv'
  BY <1>1 DEF ReadInv, UndefInv
<1>6. PastCodes => PastCodes'
  BY <1>1, <1>4 DEF PastCodes
<1>7. \A k \in 0..Len(binary) : InCode(k) => InCode(k)'
  BY <1>1, <1>4 DEF InCode
<1>8. DecodeInv'
  <2>1. PastCodes \/ (\E k \in 0..Len(binary) : InCode(k)) =>
          PastCodes' \/ \E k \in 0..Len(binary') : InCode(k)'
    BY <1>1, <1>6, <1>7
  <2>2. /\ index <= Len(BitsToDecode)
        /\ ~TreeWritten => output = << >>
        /\ TreeWritten =>
             /\ tree = TheTree
             /\ << >> \in DOMAIN TheTree => output = << >>
             /\ << >> \notin DOMAIN TheTree =>
                  path \in Inner(TheTree) /\ (PastCodes \/ \E k \in 0..Len(binary) : InCode(k))
    BY <1>1 DEF Inv, DecodeInv
  <2> QED BY <1>1, <1>4, <2>1, <2>2 DEF DecodeInv
<1>9. TreeTypeOK(tree') /\ path' \in Paths /\ index' \in Nat
  BY <1>1, <1>2
<1> QED BY <1>1, <1>3, <1>5, <1>8, <1>9, ReadingKeeps

LEMMA StutterKeepsInv == Inv /\ UNCHANGED vars => Inv'
<1> SUFFICES ASSUME Inv, UNCHANGED vars PROVE Inv'
  OBVIOUS
<1>1. /\ pc' = pc /\ minHeap' = minHeap /\ binary' = binary /\ file' = file /\ output' = output
      /\ tree' = tree /\ path' = path /\ index' = index
  BY DEF vars
<1>2. /\ TheTree' = TheTree /\ TreeBits' = TreeBits /\ Codes' = Codes
      /\ CompressedData' = CompressedData
      /\ BitsToDecode' = BitsToDecode /\ (TreeWritten' <=> TreeWritten) /\ HeapInv'
  BY <1>1, SameFile DEF Inv
<1>3. TypeOK'
  BY <1>1 DEF Inv, TypeOK
<1>4. FileInv'
  <2>1. \A nonce, n : FileIs(nonce, n)' <=> FileIs(nonce, n)
    BY <1>1, <1>2 DEF FileIs
  <2> QED BY <1>1, <1>2, <2>1 DEF Inv, FileInv
<1>5. ReadInv'
  BY <1>1, <1>2 DEF Inv, ReadInv
<1>6. DecodeInv'
  <2>1. PastCodes => PastCodes'
    BY <1>1, <1>2 DEF PastCodes
  <2>2. \A k \in 0..Len(binary) : InCode(k) => InCode(k)'
    BY <1>1, <1>2 DEF InCode
  <2> QED BY <1>1, <1>2, <2>1, <2>2 DEF Inv, DecodeInv
<1>7. UndefInv'
  BY <1>1, <1>2 DEF Inv, UndefInv
<1> QED BY <1>2, <1>3, <1>4, <1>5, <1>6, <1>7 DEF Inv

\* The invariant: the trees in the queue share out the bytes of the file, the
\* .cmp file is a whole number of the bytes that compressFile writes,
\* recursiveBuildTree is where the node it makes was written, and the decoder
\* is in the code of the byte that comes next.
THEOREM CodecInvariant == Spec => []Inv
<1>1. Inv /\ [Next]_vars => Inv'
  <2>1. Inv /\ Next => Inv'
    BY MergeKeepsInv, NoRootKeepsInv, WriteKeepsInv, InnerKeepsInv, LeafKeepsInv, CutKeepsInv,
       NothingKeepsInv, DecodeKeepsInv, OutputKeepsInv DEF Next
  <2> QED BY <2>1, StutterKeepsInv
<1> QED BY <1>1, InitInv, PTL DEF Spec

\* Every function of the two programs finds bits, bytes, paths and trees of
\* them where it looks for them.
THEOREM AlwaysTypeOK == Spec => []TypeOK
<1>1. Inv => TypeOK
  BY DEF Inv
<1> QED BY <1>1, CodecInvariant, PTL

\* When recursiveBuildTree has returned, and all that serializeTree wrote is in
\* the file, the tree is the one buildTreeFromMap made.
THEOREM AlwaysTreeRebuilt == Spec => []TreeRebuilt
<1>1. Inv => TreeRebuilt
  BY DEF Inv, DecodeInv, TreeRebuilt, TheTree
<1> QED BY <1>1, CodecInvariant, PTL

\* Only a file without bytes, or one that could not be opened, or a disk that
\* is full, leads the programs to memory that holds nothing.
THEOREM AlwaysDefinedUnlessEmptyOrCut == Spec => []DefinedUnlessEmptyOrCut
<1>1. Inv => DefinedUnlessEmptyOrCut
  <2> SUFFICES ASSUME Inv, pc = "undefined", file # << >> PROVE ~AllWritten
    BY DEF DefinedUnlessEmptyOrCut
  <2>1. ~TreeWritten
    BY DEF Inv, UndefInv
  <2>2. Cardinality(minHeap) = 1 /\ HeapInv /\ binary \in Seq(Bytes)
    BY DEF Inv, FileInv, TypeOK
  <2>3. Len(Pack(TreeBits)) \in Nat /\ Len(Pack(CompressedData)) \in Nat
    BY <2>2, ContentsFacts
  <2>4. Len(file.bits) \in Nat
    <3>1. file.bits \in Seq(Bits)
      BY <2>2, FileFacts DEF Inv
    <3> QED BY <3>1
  <2> QED BY <2>1, <2>3, <2>4 DEF AllWritten, TreeWritten, Written, TreeBits, TheTree
<1> QED BY <1>1, CodecInvariant, PTL

\* A file that has only one byte has a tree that is one leaf, and no other has.
LEMMA OneValueOneLeaf ==
  ASSUME binary \in Seq(Bytes), HeapInv, Cardinality(minHeap) = 1
  PROVE  Cardinality(Values(binary)) = 1 <=> << >> \in DOMAIN TheTree
<1> DEFINE T == TheTree
<1>1. /\ FullTree(T) /\ Injective(T)
      /\ \A v \in Values(binary) : \E p \in DOMAIN T : T[p] = v
      /\ \A p \in DOMAIN T : T[p] \in Values(binary)
  BY OneTree
<1>2. IsFiniteSet(Values(binary))
  BY ValuesFacts
<1>3. ASSUME << >> \in DOMAIN T PROVE Cardinality(Values(binary)) = 1
  <2>1. \A p \in DOMAIN T : p = << >>
    BY <1>1, <1>3, OnWayOrder DEF FullTree, TreeTypeOK, Paths
  <2>2. Values(binary) = {T[<< >>]}
    BY <1>1, <1>3, <2>1
  <2> QED BY <2>2, FS_Singleton
<1>4. ASSUME Cardinality(Values(binary)) = 1, << >> \notin DOMAIN T PROVE FALSE
  <2>1. PICK v : Values(binary) = {v}
    BY <1>2, <1>4, FS_Singleton
  <2>2. << >> \in Inner(T)
    BY <1>1, <1>4, RootIsNode DEF Nodes
  <2>3. ASSUME NEW b \in Bits
        PROVE  \E p \in DOMAIN T : p[1] = b
    <3>1. Append(<< >>, b) \in Nodes(T) /\ Append(<< >>, b) \in Paths
          /\ Len(Append(<< >>, b)) = 1 /\ Append(<< >>, b)[1] = b
      <4>1. Append(<< >>, b) \in Nodes(T)
        BY <1>1, <2>2, ChildNodes
      <4>2. << >> \in Paths /\ Len(<< >>) = 0
        BY EmptyPath
      <4>3. /\ Append(<< >>, b) \in Paths /\ Len(Append(<< >>, b)) = 0 + 1
            /\ Append(<< >>, b)[0 + 1] = b
        BY <4>2, AppendPath
      <4> QED BY <4>1, <4>3
    <3>2. PICK p \in DOMAIN T : OnWay(Append(<< >>, b), p)
      BY <1>1, <3>1, NodeOnWay DEF FullTree
    <3> QED BY <3>1, <3>2 DEF OnWay
  <2>4. PICK p \in DOMAIN T : p[1] = 0
    BY <2>3 DEF Bits
  <2>5. PICK q \in DOMAIN T : q[1] = 1
    BY <2>3 DEF Bits
  <2>6. T[p] = T[q]
    BY <1>1, <2>1
  <2>7. p = q
    BY <1>1, <2>6 DEF Injective
  <2> QED BY <2>4, <2>5, <2>7
<1> QED BY <1>3, <1>4

LEMMA PrefixByElements ==
  ASSUME NEW s \in Seq(Bytes), NEW u \in Seq(Bytes), Len(s) <= Len(u), \A i \in 1..Len(s) : s[i] = u[i]
  PROVE  IsPrefix(s, u)
<1>1. Len(s) \in Nat /\ Len(u) \in Nat
  OBVIOUS
<1>2. ASSUME NEW r \in Seq(Bytes), Len(s) <= Len(r)
      PROVE  /\ SubSeq(r, 1, Len(s)) \in Seq(Bytes) /\ Len(SubSeq(r, 1, Len(s))) = Len(s)
             /\ \A i \in 1..Len(s) : SubSeq(r, 1, Len(s))[i] = r[i]
  <2> DEFINE n == Len(s)
  <2>1. n \in Nat /\ Len(r) \in Nat /\ n <= Len(r)
    BY <1>2
  <2> HIDE DEF n
  <2>2. \A i \in 1..n : r[i] \in Bytes
    BY <2>1
  <2>3. /\ SubSeq(r, 1, n) \in Seq(Bytes)
        /\ Len(SubSeq(r, 1, n)) = IF 1 <= n THEN n - 1 + 1 ELSE 0
        /\ \A i \in 1..(n - 1 + 1) : SubSeq(r, 1, n)[i] = r[1 + i - 1]
    BY <2>1, <2>2, SubSeqProperties
  <2>4. n - 1 + 1 = n /\ (~(1 <= n) => n = 0) /\ \A i \in 1..n : 1 + i - 1 = i
    BY <2>1
  <2> QED BY <2>3, <2>4 DEF n
<1> DEFINE a == SubSeq(s, 1, Len(s))
           b == SubSeq(u, 1, Len(s))
<1>3. /\ a \in Seq(Bytes) /\ Len(a) = Len(s) /\ \A i \in 1..Len(s) : a[i] = s[i]
      /\ b \in Seq(Bytes) /\ Len(b) = Len(s) /\ \A i \in 1..Len(s) : b[i] = u[i]
  BY <1>1, <1>2
<1> HIDE DEF a, b
<1>4. a = b
  BY <1>3
<1> QED BY <1>4 DEF IsPrefix, a, b

\* At any time the decoder has written a beginning of the file that was
\* compressed; in the end all of it, and less than a byte's bits more in bytes
\* that the padding is taken for, when the .cmp file was written whole; and
\* nothing of a file that has only one byte, however often.
THEOREM AlwaysOutputFollowsInput == Spec => []OutputFollowsInput
<1>1. Inv => OutputFollowsInput
  <2> SUFFICES ASSUME Inv PROVE OutputFollowsInput
    OBVIOUS
  <2> DEFINE n == Len(binary)
             off == Offset(Codes)
  <2>1. ASSUME pc \in {"decode", "done"}
        PROVE  /\ file # << >> /\ Cardinality(minHeap) = 1 /\ HeapInv
               /\ binary \in Seq(Bytes) /\ output \in Seq(Bytes) /\ index \in Nat
               /\ n \in Nat /\ Len(output) \in Nat
    BY <2>1 DEF Inv, FileInv, TypeOK
  <2>2. IsPrefix(<< >>, binary)
    <3>1. binary \in Seq(Bytes) /\ << >> \in Seq(Bytes) /\ Len(<< >>) = 0
      BY DEF Inv, TypeOK
    <3> DEFINE e == << >>
    <3>2. /\ e \in Seq(Bytes) /\ Len(e) <= Len(binary) /\ binary \in Seq(Bytes)
          /\ \A i \in 1..Len(e) : e[i] = binary[i]
      BY <3>1
    <3> HIDE DEF e
    <3>3. IsPrefix(e, binary)
      BY <3>2, PrefixByElements
    <3> QED BY <3>3 DEF e
  <2>3. ASSUME pc \in {"decode", "done"}, NEW k \in 0..n, InCode(k)
        PROVE  IsPrefix(output, binary) /\ index < Len(CompressedData)
    <3>1. /\ k \in 0..(n - 1) /\ Len(output) = k /\ \A i \in 1..k : output[i] = binary[i]
          /\ index = off[k] + Len(path) /\ Len(path) < Len(Codes[k + 1])
      BY <2>3 DEF InCode
    <3>2. IsPrefix(output, binary)
      BY <2>1, <2>3, <3>1, PrefixByElements
    <3>3. /\ Len(Codes) = n /\ IsOffset(off, Codes) /\ n \in Nat \ {0}
          /\ Len(CompressedData) = off[n]
      BY <2>1, <2>3, TheCode
    <3>4. \A i \in 1..n : Len(Codes[i]) \in Nat
      BY <2>1, <2>3, TheCode
    <3>5. Len(path) \in Nat
      BY DEF Inv, TypeOK
    <3> HIDE DEF n, off
    <3>6. k + 1 \in 1..n /\ (k + 1) - 1 = k /\ k \in 0..n /\ k + 1 \in 0..n /\ n \in 0..n /\ n \in Nat
      BY <3>1, <3>3
    <3>7. off[k + 1] = off[(k + 1) - 1] + Len(Codes[k + 1])
      BY <3>3, <3>6 DEF IsOffset
    <3>8. off[k] \in Nat /\ off[k + 1] \in Nat /\ off[n] \in Nat
      BY <3>3, <3>6 DEF IsOffset
    <3>9. off[k + 1] <= off[n]
      BY <3>3, <3>4, <3>6, OffsetGrows
    <3>10. index < Len(CompressedData)
      <4>1. index = off[k] + Len(path) /\ Len(path) < Len(Codes[k + 1]) /\ Len(Codes[k + 1]) \in Nat
        BY <3>1, <3>4, <3>6
      <4>2. off[k + 1] = off[k] + Len(Codes[k + 1]) /\ Len(CompressedData) = off[n]
        BY <3>3, <3>6, <3>7
      <4> QED BY <3>5, <3>8, <3>9, <4>1, <4>2
    <3> QED BY <3>2, <3>10
  <2>4. ASSUME pc \in {"decode", "done"}, PastCodes PROVE IsPrefix(binary, output)
    BY <2>1, <2>4, PrefixByElements DEF PastCodes
  <2>5. ASSUME pc \in {"decode", "done"}
        PROVE  \/ output = << >>
               \/ PastCodes
               \/ \E k \in 0..n : InCode(k)
    BY <2>5 DEF Inv, DecodeInv
  <2>6. pc = "decode" => IsPrefix(output, binary) \/ IsPrefix(binary, output)
    BY <2>2, <2>3, <2>4, <2>5
  <2>7. ASSUME pc = "done"
        PROVE  CASE ~AllWritten                      -> IsPrefix(output, binary)
                 [] Cardinality(Values(binary)) = 1  -> output = << >>
                 [] OTHER -> IsPrefix(binary, output) /\ Len(output) < Len(binary) + ByteBits
    <3>1. /\ file # << >> /\ Cardinality(minHeap) = 1 /\ HeapInv
          /\ binary \in Seq(Bytes) /\ output \in Seq(Bytes) /\ index \in Nat
          /\ n \in Nat /\ Len(output) \in Nat
      BY <2>1, <2>7
    <3>2. /\ CompressedData \in Seq(Bits) /\ Len(CompressedData) \in Nat
          /\ Len(Pack(CompressedData)) \in Len(CompressedData)..(Len(CompressedData) + ByteBits - 1)
          /\ ByteBits \in Nat \ {0}
      <4>1. CompressedData \in Seq(Bits)
        BY <3>1, TheCode
      <4>2. Len(Pack(CompressedData)) \in Len(CompressedData)..(Len(CompressedData) + ByteBits - 1)
        BY <4>1, PackFacts
      <4> QED BY <4>1, <4>2, BitsAndBytes
    <3>3. index = Len(BitsToDecode)
      BY <2>7 DEF Inv, DecodeInv
    <3>4. ~TreeWritten => output = << >>
      BY <2>7 DEF Inv, DecodeInv
    <3>5. TreeWritten => /\ << >> \in DOMAIN TheTree => output = << >>
                         /\ << >> \notin DOMAIN TheTree => PastCodes \/ \E k \in 0..n : InCode(k)
      BY <2>7 DEF Inv, DecodeInv
    <3>6. Cardinality(Values(binary)) = 1 <=> << >> \in DOMAIN TheTree
      BY <3>1, OneValueOneLeaf
    <3>7. /\ AllWritten => Len(BitsToDecode) = Len(Pack(CompressedData))
          /\ TreeWritten /\ ~AllWritten => Len(BitsToDecode) + ByteBits <= Len(Pack(CompressedData))
      BY <3>1, FileFacts DEF Inv
    <3>8. AllWritten => TreeWritten
      <4>1. Len(Pack(TreeBits)) \in Nat /\ Len(Pack(CompressedData)) \in Nat
        BY <3>1, ContentsFacts
      <4>2. Len(file.bits) \in Nat
        <5>1. file.bits \in Seq(Bits)
          BY <3>1, FileFacts DEF Inv
        <5> QED BY <5>1
      <4> QED BY <4>1, <4>2 DEF AllWritten, TreeWritten, Written, TreeBits, TheTree
    <3>9. ~AllWritten => IsPrefix(output, binary)
      <4> SUFFICES ASSUME ~AllWritten PROVE IsPrefix(output, binary)
        OBVIOUS
      <4>1. CASE output = << >>
        BY <2>2, <4>1
      <4>2. CASE output # << >>
        <5>1. TreeWritten /\ (PastCodes \/ \E k \in 0..n : InCode(k))
          BY <3>4, <3>5, <4>2
        <5>2. ~PastCodes
          <6>1. index < Len(CompressedData)
            BY <3>1, <3>2, <3>3, <3>7, <5>1
          <6> QED BY <3>1, <3>2, <6>1 DEF PastCodes
        <5> QED BY <2>3, <2>7, <5>1, <5>2
      <4> QED BY <4>1, <4>2
    <3>10. Cardinality(Values(binary)) = 1 => output = << >>
      BY <3>4, <3>5, <3>6
    <3>11. AllWritten /\ Cardinality(Values(binary)) # 1 =>
             IsPrefix(binary, output) /\ Len(output) < Len(binary) + ByteBits
      <4> SUFFICES ASSUME AllWritten, Cardinality(Values(binary)) # 1
                   PROVE  IsPrefix(binary, output) /\ Len(output) < Len(binary) + ByteBits
        OBVIOUS
      <4>1. PastCodes \/ \E k \in 0..n : InCode(k)
        BY <3>5, <3>6, <3>8
      <4>2. index \in Len(CompressedData)..(Len(CompressedData) + ByteBits - 1)
        BY <3>2, <3>3, <3>7
      <4>3. PastCodes
        <5>1. ASSUME NEW k \in 0..n, InCode(k) PROVE FALSE
          <6>1. index < Len(CompressedData)
            BY <2>3, <2>7, <5>1
          <6> QED BY <3>1, <3>2, <4>2, <6>1
        <5> QED BY <4>1, <5>1
      <4>4. IsPrefix(binary, output)
        BY <2>4, <2>7, <4>3
      <4>5. Len(output) < Len(binary) + ByteBits
        <5>1. Len(output) - Len(binary) <= index - Len(CompressedData)
          BY <4>3 DEF PastCodes
        <5> QED BY <3>1, <3>2, <4>2, <5>1
      <4> QED BY <4>4, <4>5
    <3> QED BY <3>9, <3>10, <3>11
  <2> QED BY <2>6, <2>7 DEF OutputFollowsInput
<1> QED BY <1>1, CodecInvariant, PTL

-----------------------------------------------------------------------------
(* Sums.                                                                   *)

\* Induction over the subsets of a finite set, as a set of them.
LEMMA SetInduction ==
  ASSUME NEW A, IsFiniteSet(A), NEW P, {} \in P,
         \A B \in SUBSET A : \A x \in A \ B : B \in P => B \cup {x} \in P
  PROVE  A \in P
<1> DEFINE S == {k \in Nat : \A B \in SUBSET A : Cardinality(B) = k => B \in P}
<1>1. Cardinality(A) \in Nat
  BY FS_CardinalityType
<1>2. \A B \in SUBSET A : IsFiniteSet(B)
  BY FS_Subset
<1>3. 0 \in S
  <2>1. ASSUME NEW B \in SUBSET A, Cardinality(B) = 0 PROVE B \in P
    <3>1. B = {}
      BY <1>2, <2>1, FS_EmptySet
    <3> QED BY <3>1
  <2> QED BY <2>1
<1>4. ASSUME NEW k \in Nat, k \in S PROVE k + 1 \in S
  <2>1. ASSUME NEW B \in SUBSET A, Cardinality(B) = k + 1 PROVE B \in P
    <3>1. B # {}
      BY <2>1, FS_EmptySet
    <3>2. PICK x \in B : TRUE
      BY <3>1
    <3>3. Cardinality(B \ {x}) = Cardinality(B) - 1
      BY <1>2, <3>2, FS_RemoveElement
    <3>4. B \ {x} \in SUBSET A /\ x \in A \ (B \ {x}) /\ (B \ {x}) \cup {x} = B
      BY <3>2
    <3>5. Cardinality(B \ {x}) = k
      BY <2>1, <3>3
    <3>6. B \ {x} \in P
      BY <1>4, <3>4, <3>5
    <3>7. (B \ {x}) \cup {x} \in P
      BY <3>4, <3>6
    <3> QED BY <3>4, <3>7
  <2> QED BY <2>1
<1>5. Cardinality(A) \in S
  <2> HIDE DEF S
  <2>1. \A k \in 0..Cardinality(A) : k \in S
    BY <1>1, <1>3, <1>4, UpTo
  <2> QED BY <1>1, <2>1
<1> QED BY <1>5

\* F gives the sum of g over each subset of A.
Additive(A, g, F) ==
  /\ F \in [SUBSET A -> Nat]
  /\ F[{}] = 0
  /\ \A B \in SUBSET A : \A x \in B : F[B] = g[x] + F[B \ {x}]

SumOf(A, g) == (CHOOSE F : Additive(A, g, F))[A]

LEMMA AdditiveExists ==
  ASSUME NEW A, IsFiniteSet(A), NEW g, \A x \in A : g[x] \in Nat
  PROVE  \E F : Additive(A, g, F)
<1> DEFINE P == {B \in SUBSET A : \E F : Additive(B, g, F)}
<1>1. {} \in P
  <2> DEFINE F == [B \in SUBSET {} |-> 0]
  <2>1. F \in [SUBSET {} -> Nat] /\ F[{}] = 0
    OBVIOUS
  <2>2. \A B \in SUBSET {} : \A x \in B : F[B] = g[x] + F[B \ {x}]
    OBVIOUS
  <2>3. Additive({}, g, F)
    BY <2>1, <2>2 DEF Additive
  <2> QED BY <2>3
<1>2. ASSUME NEW B \in SUBSET A, NEW y \in A \ B, B \in P PROVE B \cup {y} \in P
  <2>1. PICK F : Additive(B, g, F)
    BY <1>2
  <2> DEFINE T == SUBSET (B \cup {y})
             G == [C \in T |-> IF y \in C THEN g[y] + F[C \ {y}] ELSE F[C]]
  <2>2. \A C \in T : C \ {y} \in SUBSET B /\ (y \notin C => C \in SUBSET B)
    OBVIOUS
  <2>3. /\ \A C \in SUBSET B : F[C] \in Nat
        /\ F[{}] = 0
        /\ \A C \in SUBSET B : \A x \in C : F[C] = g[x] + F[C \ {x}]
    BY <2>1 DEF Additive
  <2>4. ASSUME NEW C \in T PROVE G[C] = IF y \in C THEN g[y] + F[C \ {y}] ELSE F[C]
    OBVIOUS
  <2>5. G \in [T -> Nat]
    <3>1. G = [C \in T |-> G[C]]
      OBVIOUS
    <3>2. ASSUME NEW C \in T PROVE G[C] \in Nat
      <4>1. g[y] \in Nat
        OBVIOUS
      <4>2. F[C \ {y}] \in Nat /\ (y \notin C => F[C] \in Nat)
        BY <2>2, <2>3
      <4> HIDE DEF G
      <4> QED BY <2>4, <4>1, <4>2
    <3> HIDE DEF G, T
    <3> QED BY <3>1, <3>2
  <2>6. {} \in T /\ G[{}] = 0
    BY <2>3
  <2>7. ASSUME NEW C \in T, NEW x \in C PROVE G[C] = g[x] + G[C \ {x}]
    <3>1. C \ {x} \in T /\ x \in B \cup {y}
      OBVIOUS
    <3>2. CASE x = y
      <4>1. G[C] = g[y] + F[C \ {y}] /\ G[C \ {y}] = F[C \ {y}]
        BY <2>4, <3>1, <3>2
      <4> HIDE DEF G
      <4> QED BY <3>2, <4>1
    <3>3. CASE x # y /\ y \in C
      <4>1. G[C] = g[y] + F[C \ {y}] /\ G[C \ {x}] = g[y] + F[(C \ {x}) \ {y}]
        BY <2>4, <3>1, <3>3
      <4>2. (C \ {x}) \ {y} = (C \ {y}) \ {x} /\ x \in C \ {y} /\ C \ {y} \in SUBSET B
        BY <3>3
      <4>3. F[C \ {y}] = g[x] + F[(C \ {y}) \ {x}]
        BY <2>3, <4>2
      <4>4. g[y] \in Nat /\ g[x] \in Nat /\ F[(C \ {y}) \ {x}] \in Nat
        <5>1. (C \ {y}) \ {x} \in SUBSET B /\ x \in A /\ y \in A
          BY <3>1, <4>2
        <5> QED BY <2>3, <5>1
      <4>5. G[C] = g[y] + (g[x] + F[(C \ {y}) \ {x}]) /\ G[C \ {x}] = g[y] + F[(C \ {y}) \ {x}]
        BY <4>1, <4>2, <4>3, Zenon
      <4> HIDE DEF G
      <4> QED BY <4>4, <4>5
    <3>4. CASE y \notin C
      <4>1. G[C] = F[C] /\ G[C \ {x}] = F[C \ {x}] /\ C \in SUBSET B
        BY <2>2, <2>4, <3>1, <3>4
      <4> HIDE DEF G
      <4> QED BY <2>3, <4>1
    <3> QED BY <3>2, <3>3, <3>4
  <2>8. Additive(B \cup {y}, g, G)
    <3> HIDE DEF G
    <3> QED BY <2>5, <2>6, <2>7 DEF Additive
  <2>9. B \cup {y} \in SUBSET A
    OBVIOUS
  <2> QED BY <2>8, <2>9
<1>3. A \in P
  <2> HIDE DEF P
  <2> QED BY <1>1, <1>2, SetInduction
<1> QED BY <1>3

LEMMA AdditiveUnique ==
  ASSUME NEW A, IsFiniteSet(A), NEW B, A \subseteq B, NEW g, NEW h, \A x \in A : g[x] = h[x],
         NEW F, NEW G, Additive(A, g, F), Additive(B, h, G)
  PROVE  F[A] = G[A]
<1> DEFINE P == {C \in SUBSET A : F[C] = G[C]}
<1>1. {} \in P
  BY DEF Additive
<1>2. ASSUME NEW C \in SUBSET A, NEW x \in A \ C, C \in P PROVE C \cup {x} \in P
  <2>1. x \in C \cup {x} /\ C \cup {x} \in SUBSET A /\ C \cup {x} \in SUBSET B /\ (C \cup {x}) \ {x} = C
    OBVIOUS
  <2>2. F[C \cup {x}] = g[x] + F[C]
    BY <2>1 DEF Additive
  <2>3. G[C \cup {x}] = h[x] + G[C]
    BY <2>1 DEF Additive
  <2> QED BY <1>2, <2>1, <2>2, <2>3
<1>3. A \in P
  <2> HIDE DEF P
  <2> QED BY <1>1, <1>2, SetInduction
<1> QED BY <1>3

LEMMA SumIs ==
  ASSUME NEW A, IsFiniteSet(A), NEW g, \A x \in A : g[x] \in Nat
  PROVE  \E F : Additive(A, g, F) /\ SumOf(A, g) = F[A]
<1>1. Additive(A, g, CHOOSE F : Additive(A, g, F))
  BY AdditiveExists, Zenon
<1> QED BY <1>1, Zenon DEF SumOf

LEMMA SumType ==
  ASSUME NEW A, IsFiniteSet(A), NEW g, \A x \in A : g[x] \in Nat
  PROVE  SumOf(A, g) \in Nat
<1>1. PICK F : Additive(A, g, F) /\ SumOf(A, g) = F[A]
  BY SumIs
<1> QED BY <1>1 DEF Additive

LEMMA SumEmpty ==
  ASSUME NEW g
  PROVE  SumOf({}, g) = 0
<1>1. IsFiniteSet({}) /\ \A x \in {} : g[x] \in Nat
  BY FS_EmptySet
<1>2. PICK F : Additive({}, g, F) /\ SumOf({}, g) = F[{}]
  BY <1>1, SumIs
<1> QED BY <1>2 DEF Additive

LEMMA SumSame ==
  ASSUME NEW A, IsFiniteSet(A), NEW g, NEW h, \A x \in A : g[x] = h[x] /\ g[x] \in Nat
  PROVE  SumOf(A, g) = SumOf(A, h)
<1>1. PICK F : Additive(A, g, F) /\ SumOf(A, g) = F[A]
  BY SumIs
<1>2. PICK G : Additive(A, h, G) /\ SumOf(A, h) = G[A]
  BY SumIs
<1> QED BY <1>1, <1>2, AdditiveUnique

LEMMA SumSplit ==
  ASSUME NEW A, IsFiniteSet(A), NEW g, \A x \in A : g[x] \in Nat, NEW x \in A
  PROVE  SumOf(A, g) = g[x] + SumOf(A \ {x}, g)
<1>1. PICK F : Additive(A, g, F) /\ SumOf(A, g) = F[A]
  BY SumIs
<1>2. IsFiniteSet(A \ {x})
  BY FS_Subset
<1>3. PICK G : Additive(A \ {x}, g, G) /\ SumOf(A \ {x}, g) = G[A \ {x}]
  BY <1>2, SumIs
<1>4. G[A \ {x}] = F[A \ {x}]
  BY <1>1, <1>2, <1>3, AdditiveUnique
<1>5. F[A] = g[x] + F[A \ {x}]
  BY <1>1 DEF Additive
<1> QED BY <1>1, <1>3, <1>4, <1>5

LEMMA SumAdd ==
  ASSUME NEW A, IsFiniteSet(A), NEW g, \A x \in A : g[x] \in Nat, NEW x, x \notin A, g[x] \in Nat
  PROVE  SumOf(A \cup {x}, g) = SumOf(A, g) + g[x]
<1>1. (A \cup {x}) \ {x} = A /\ x \in A \cup {x} /\ \A y \in A \cup {x} : g[y] \in Nat
  OBVIOUS
<1>2. IsFiniteSet(A \cup {x})
  BY FS_AddElement
<1>3. SumOf(A \cup {x}, g) = g[x] + SumOf((A \cup {x}) \ {x}, g)
  BY <1>1, <1>2, SumSplit
<1>4. SumOf(A, g) \in Nat
  BY SumType
<1> QED BY <1>1, <1>3, <1>4

\* The sum over two sets that have no member in common.
LEMMA SumUnion ==
  ASSUME NEW A, IsFiniteSet(A), NEW B, IsFiniteSet(B), A \cap B = {},
         NEW g, \A x \in A \cup B : g[x] \in Nat
  PROVE  SumOf(A \cup B, g) = SumOf(A, g) + SumOf(B, g)
<1> DEFINE P == {C \in SUBSET B : SumOf(A \cup C, g) = SumOf(A, g) + SumOf(C, g)}
<1>1. SumOf(A, g) \in Nat
  BY SumType
<1>2. {} \in P
  <2>1. A \cup {} = A /\ SumOf({}, g) = 0
    BY SumEmpty
  <2> QED BY <1>1, <2>1
<1>3. ASSUME NEW C \in SUBSET B, NEW x \in B \ C, C \in P PROVE C \cup {x} \in P
  <2>1. IsFiniteSet(C) /\ IsFiniteSet(A \cup C)
    BY FS_Subset, FS_Union
  <2>2. x \notin A \cup C /\ g[x] \in Nat /\ (A \cup C) \cup {x} = A \cup (C \cup {x})
    OBVIOUS
  <2>3. \A y \in A \cup C : g[y] \in Nat
    OBVIOUS
  <2>4. SumOf((A \cup C) \cup {x}, g) = SumOf(A \cup C, g) + g[x]
    BY <2>1, <2>2, <2>3, SumAdd
  <2>5. SumOf(C \cup {x}, g) = SumOf(C, g) + g[x]
    BY <2>1, <2>2, <2>3, SumAdd
  <2>6. SumOf(C, g) \in Nat
    BY <2>1, <2>3, SumType
  <2>7. SumOf(A \cup (C \cup {x}), g) = SumOf(A, g) + SumOf(C \cup {x}, g)
    <3>1. SumOf(A \cup C, g) = SumOf(A, g) + SumOf(C, g) /\ g[x] \in Nat
      BY <1>3, <2>2
    <3>2. SumOf((A \cup C) \cup {x}, g) = (SumOf(A, g) + SumOf(C, g)) + g[x]
      BY <2>4, <3>1
    <3>3. SumOf((A \cup C) \cup {x}, g) = SumOf(A, g) + SumOf(C \cup {x}, g)
      BY <1>1, <2>5, <2>6, <3>1, <3>2
    <3> QED BY <2>2, <3>3
  <2> QED BY <2>7
<1>4. B \in P
  <2> HIDE DEF P
  <2> QED BY <1>2, <1>3, SetInduction
<1> QED BY <1>4

\* The sum of the sums.
LEMMA SumPlus ==
  ASSUME NEW A, IsFiniteSet(A), NEW g, NEW h, NEW k,
         \A x \in A : g[x] \in Nat /\ h[x] \in Nat /\ k[x] = g[x] + h[x]
  PROVE  SumOf(A, k) = SumOf(A, g) + SumOf(A, h)
<1> DEFINE P == {C \in SUBSET A : SumOf(C, k) = SumOf(C, g) + SumOf(C, h)}
<1>1. \A x \in A : k[x] \in Nat
  OBVIOUS
<1>2. {} \in P
  BY SumEmpty
<1>3. ASSUME NEW C \in SUBSET A, NEW x \in A \ C, C \in P PROVE C \cup {x} \in P
  <2>1. IsFiniteSet(C)
    BY FS_Subset
  <2>2. \A y \in C : g[y] \in Nat /\ h[y] \in Nat /\ k[y] \in Nat
    BY <1>1
  <2>3. g[x] \in Nat /\ h[x] \in Nat /\ k[x] \in Nat /\ k[x] = g[x] + h[x]
    BY <1>1
  <2>4. SumOf(C \cup {x}, g) = SumOf(C, g) + g[x]
    BY <2>1, <2>2, <2>3, SumAdd
  <2>5. SumOf(C \cup {x}, h) = SumOf(C, h) + h[x]
    BY <2>1, <2>2, <2>3, SumAdd
  <2>6. SumOf(C \cup {x}, k) = SumOf(C, k) + k[x]
    BY <2>1, <2>2, <2>3, SumAdd
  <2>7. SumOf(C, g) \in Nat /\ SumOf(C, h) \in Nat
    BY <2>1, <2>2, SumType
  <2>8. SumOf(C \cup {x}, k) = SumOf(C \cup {x}, g) + SumOf(C \cup {x}, h)
    BY <1>3, <2>3, <2>4, <2>5, <2>6, <2>7
  <2> QED BY <2>8
<1>4. A \in P
  <2> HIDE DEF P
  <2> QED BY <1>2, <1>3, SetInduction
<1> QED BY <1>4

\* A sum of multiples of d is one.
Multiples(d) == {d * q : q \in Nat}

LEMMA SumOfMultiples ==
  ASSUME NEW A, IsFiniteSet(A), NEW d \in Nat, NEW g, \A x \in A : g[x] \in Multiples(d)
  PROVE  SumOf(A, g) \in Multiples(d)
<1> USE DEF Multiples
<1> DEFINE P == {C \in SUBSET A : \E q \in Nat : SumOf(C, g) = d * q}
<1>1. {} \in P
  <2>1. SumOf({}, g) = d * 0
    BY SumEmpty
  <2> QED BY <2>1
<1>2. ASSUME NEW C \in SUBSET A, NEW x \in A \ C, C \in P PROVE C \cup {x} \in P
  <2>1. IsFiniteSet(C)
    BY FS_Subset
  <2>2. \A y \in A : g[y] \in Nat
    OBVIOUS
  <2>3. SumOf(C \cup {x}, g) = SumOf(C, g) + g[x]
    BY <2>1, <2>2, SumAdd
  <2>4. PICK q \in Nat : SumOf(C, g) = d * q
    BY <1>2
  <2>5. PICK r \in Nat : g[x] = d * r
    OBVIOUS
  <2>6. d * q + d * r = d * (q + r) /\ q + r \in Nat
    OBVIOUS
  <2>7. SumOf(C \cup {x}, g) = d * (q + r)
    BY <2>3, <2>4, <2>5, <2>6
  <2> QED BY <2>6, <2>7
<1>3. A \in P
  <2> HIDE DEF P
  <2> QED BY <1>1, <1>2, SetInduction
<1> QED BY <1>3

\* A sum over the images of the members of A, which are all different.
LEMMA SumOfImages ==
  ASSUME NEW A, IsFiniteSet(A), NEW f, \A x, y \in A : f[x] = f[y] => x = y,
         NEW g, NEW h, \A x \in A : g[x] \in Nat /\ h[f[x]] = g[x]
  PROVE  SumOf({f[x] : x \in A}, h) = SumOf(A, g)
<1> DEFINE I(C) == {f[x] : x \in C}
           P == {C \in SUBSET A : SumOf(I(C), h) = SumOf(C, g)}
<1>1. {} \in P
  <2>1. I({}) = {}
    OBVIOUS
  <2>2. SumOf(I({}), h) = SumOf({}, g)
    BY <2>1, SumEmpty
  <2> QED BY <2>2
<1>2. ASSUME NEW C \in SUBSET A, NEW x \in A \ C, C \in P PROVE C \cup {x} \in P
  <2>1. IsFiniteSet(C)
    BY FS_Subset
  <2>2. IsFiniteSet(I(C))
    BY <2>1, ImageIsFinite
  <2>3. I(C \cup {x}) = I(C) \cup {f[x]} /\ f[x] \notin I(C)
    OBVIOUS
  <2>4. \A z \in I(C) : h[z] \in Nat
    OBVIOUS
  <2>5. SumOf(C \cup {x}, g) = SumOf(C, g) + g[x]
    BY <2>1, SumAdd
  <2>6. SumOf(I(C) \cup {f[x]}, h) = SumOf(I(C), h) + h[f[x]]
    <3>1. f[x] \notin I(C) /\ h[f[x]] \in Nat
      BY <2>3
    <3> HIDE DEF I
    <3> QED BY <2>2, <2>4, <3>1, SumAdd
  <2>7. SumOf(I(C \cup {x}), h) = SumOf(C \cup {x}, g)
    <3>1. SumOf(I(C), h) = SumOf(C, g) /\ h[f[x]] = g[x]
      BY <1>2
    <3> HIDE DEF I, P
    <3> QED BY <2>3, <2>5, <2>6, <3>1
  <2>8. C \cup {x} \in SUBSET A
    OBVIOUS
  <2> HIDE DEF I
  <2> QED BY <2>7, <2>8
<1>3. A \in P
  <2> HIDE DEF P
  <2> QED BY <1>1, <1>2, SetInduction
<1> QED BY <1>3

\* FoldFunction with + is the sum.
Total(g) == FoldFunction(+, 0, g)

LEMMA TotalIsSum ==
  ASSUME NEW A, IsFiniteSet(A), NEW g, DOMAIN g = A, \A x \in A : g[x] \in Nat
  PROVE  Total(g) = SumOf(A, g)
<1> DEFINE step(f) == [s \in SUBSET A |-> IF s = {} THEN 0
                                          ELSE g[CHOOSE x \in s : TRUE] + f[s \ {CHOOSE x \in s : TRUE}]]
           fold == CHOOSE f : f = step(f)
<1>1. Total(g) = fold[A]
  BY DEF Total, FoldFunction, FoldFunctionOnSet, MapThenFoldSet
<1>2. PICK F : Additive(A, g, F) /\ SumOf(A, g) = F[A]
  BY SumIs
<1>3. F = step(F)
  <2>1. F = [s \in SUBSET A |-> F[s]] /\ F[{}] = 0
    BY <1>2 DEF Additive
  <2>2. ASSUME NEW s \in SUBSET A, s # {}
        PROVE  F[s] = g[CHOOSE x \in s : TRUE] + F[s \ {CHOOSE x \in s : TRUE}]
    <3>1. (CHOOSE x \in s : TRUE) \in s
      BY <2>2
    <3> QED BY <1>2, <3>1 DEF Additive
  <2>3. ASSUME NEW s \in SUBSET A
        PROVE  F[s] = IF s = {} THEN 0
                      ELSE g[CHOOSE x \in s : TRUE] + F[s \ {CHOOSE x \in s : TRUE}]
    BY <2>1, <2>2, Zenon
  <2> QED BY <2>1, <2>3, Zenon
<1>4. fold = step(fold)
  BY <1>3, Zenon
<1>5. ASSUME NEW s \in SUBSET A, s # {}
      PROVE  fold[s] = g[CHOOSE x \in s : TRUE] + fold[s \ {CHOOSE x \in s : TRUE}]
  <2> HIDE DEF fold
  <2>1. step(fold)[s] = g[CHOOSE x \in s : TRUE] + fold[s \ {CHOOSE x \in s : TRUE}]
    BY <1>5, Zenon
  <2> QED BY <1>4, <2>1, Zenon
<1>6. fold[{}] = 0
  <2> HIDE DEF fold
  <2>1. step(fold)[{}] = 0
    BY Zenon
  <2> QED BY <1>4, <2>1, Zenon
\* Both recurse in the same way: induction on the number of members.
<1> DEFINE S == {n \in Nat : \A s \in SUBSET A : Cardinality(s) = n => fold[s] = F[s]}
<1>7. \A s \in SUBSET A : IsFiniteSet(s)
  BY FS_Subset
<1>8. 0 \in S
  <2>1. ASSUME NEW s \in SUBSET A, Cardinality(s) = 0 PROVE fold[s] = F[s]
    <3>1. s = {}
      BY <1>7, <2>1, FS_EmptySet
    <3>2. F[{}] = 0
      BY <1>2 DEF Additive
    <3> HIDE DEF fold
    <3> QED BY <1>6, <3>1, <3>2
  <2> HIDE DEF fold
  <2> QED BY <2>1
<1>9. ASSUME NEW n \in Nat, n \in S PROVE n + 1 \in S
  <2>1. ASSUME NEW s \in SUBSET A, Cardinality(s) = n + 1 PROVE fold[s] = F[s]
    <3> DEFINE x == CHOOSE x \in s : TRUE
    <3>1. s # {}
      BY <2>1, FS_EmptySet
    <3>2. x \in s
      BY <3>1
    <3>3. fold[s] = g[x] + fold[s \ {x}]
      BY <1>5, <3>1
    <3> HIDE DEF x, fold
    <3>4. F[s] = g[x] + F[s \ {x}]
      BY <1>2, <3>2 DEF Additive
    <3>5. Cardinality(s \ {x}) = n /\ s \ {x} \in SUBSET A
      <4>1. Cardinality(s \ {x}) = Cardinality(s) - 1
        BY <1>7, <3>2, FS_RemoveElement
      <4> QED BY <2>1, <4>1
    <3>6. fold[s \ {x}] = F[s \ {x}]
      BY <1>9, <3>5
    <3> QED BY <3>3, <3>4, <3>6
  <2> HIDE DEF fold
  <2> QED BY <2>1
<1>10. fold[A] = F[A]
  <2>1. Cardinality(A) \in Nat
    BY FS_CardinalityType
  <2>2. Cardinality(A) \in S
    <3> HIDE DEF S
    <3>1. \A n \in 0..Cardinality(A) : n \in S
      BY <1>8, <1>9, <2>1, UpTo
    <3> QED BY <2>1, <3>1
  <2> HIDE DEF fold
  <2> QED BY <2>2
<1> QED BY <1>1, <1>2, <1>10, Zenon

-----------------------------------------------------------------------------
(* Huffman's algorithm. Kraft's inequality is about lengths L of up to K   *)
(* bits for the members of H: if it holds, there is a tree with leaves at  *)
(* these depths.                                                           *)

Fits(H, K, L)     == L \in [H -> 0..K] /\ SumOf(H, [x \in H |-> 2 ^ (K - L[x])]) <= 2 ^ K
Weighted(H, w, L) == SumOf(H, [x \in H |-> w[x] * L[x]])

LEMMA SumTwo ==
  ASSUME NEW H, IsFiniteSet(H), NEW g, \A x \in H : g[x] \in Nat,
         NEW a \in H, NEW b \in H, a # b
  PROVE  /\ SumOf(H, g) = g[a] + g[b] + SumOf(H \ {a, b}, g)
         /\ g[a] \in Nat /\ g[b] \in Nat /\ SumOf(H \ {a, b}, g) \in Nat
         /\ IsFiniteSet(H \ {a, b})
<1>1. IsFiniteSet(H \ {a}) /\ IsFiniteSet(H \ {a, b})
  BY FS_Subset
<1>2. b \in H \ {a} /\ (H \ {a}) \ {b} = H \ {a, b}
  OBVIOUS
<1>3. \A x \in H \ {a} : g[x] \in Nat
  OBVIOUS
<1>4. SumOf(H, g) = g[a] + SumOf(H \ {a}, g)
  BY SumSplit
<1>5. SumOf(H \ {a}, g) = g[b] + SumOf((H \ {a}) \ {b}, g)
  BY <1>1, <1>2, <1>3, SumSplit
<1>6. SumOf(H \ {a, b}, g) \in Nat
  BY <1>1, <1>3, SumType
<1>7. g[a] \in Nat /\ g[b] \in Nat
  OBVIOUS
<1>8. SumOf(H, g) = g[a] + (g[b] + SumOf(H \ {a, b}, g))
  BY <1>2, <1>4, <1>5
<1> QED BY <1>1, <1>6, <1>7, <1>8

\* What is summed is a number of bits.
LEMMA FitsType ==
  ASSUME NEW H, IsFiniteSet(H), NEW K \in Nat, NEW w \in [H -> Nat], NEW L \in [H -> 0..K]
  PROVE  /\ \A x \in H : 2 ^ (K - L[x]) \in Nat /\ K - L[x] \in Nat
         /\ \A x \in H : w[x] * L[x] \in Nat
         /\ Weighted(H, w, L) \in Nat
<1>1. \A x \in H : K - L[x] \in Nat
  OBVIOUS
<1>2. \A x \in H : 2 ^ (K - L[x]) \in Nat
  BY <1>1, PowerType
<1>3. \A x \in H : w[x] * L[x] \in Nat
  <2> SUFFICES ASSUME NEW x \in H PROVE w[x] * L[x] \in Nat
    OBVIOUS
  <2>1. w[x] \in Nat /\ L[x] \in Nat
    OBVIOUS
  <2> QED BY <2>1
<1>4. Weighted(H, w, L) \in Nat
  <2> DEFINE g == [x \in H |-> w[x] * L[x]]
  <2>1. \A x \in H : g[x] \in Nat
    BY <1>3
  <2> HIDE DEF g
  <2>2. SumOf(H, g) \in Nat
    BY <2>1, SumType
  <2> QED BY <2>2 DEF Weighted, g
<1> QED BY <1>1, <1>2, <1>3, <1>4

LEMMA Rearrange ==
  ASSUME NEW u \in Nat, NEW v \in Nat, NEW k \in Nat, NEW l \in Nat, u <= v, k <= l
  PROVE  u * l + v * k <= u * k + v * l
<1> DEFINE d == v - u
           e == l - k
<1>1. d \in Nat /\ e \in Nat /\ v = u + d /\ l = k + e
  OBVIOUS
<1>2. d * e \in Nat
  BY <1>1
<1> HIDE DEF d, e
<1>3. u * l = u * k + u * e
  BY <1>1
<1>4. v * k = u * k + d * k
  BY <1>1
<1>5. v * l = (u * k + u * e) + (d * k + d * e)
  BY <1>1
<1>6. u * k \in Nat /\ u * e \in Nat /\ d * k \in Nat
  BY <1>1
<1> QED BY <1>2, <1>3, <1>4, <1>5, <1>6

\* The longer of two lengths for the lighter of two members costs no more.
LEMMA Exchange ==
  ASSUME NEW H, IsFiniteSet(H), NEW K \in Nat, NEW w \in [H -> Nat], NEW L, Fits(H, K, L),
         NEW a \in H, NEW x \in H, w[a] <= w[x], L[a] <= L[x]
  PROVE  LET M == [y \in H |-> IF y = a THEN L[x] ELSE IF y = x THEN L[a] ELSE L[y]]
         IN  Fits(H, K, M) /\ Weighted(H, w, M) <= Weighted(H, w, L)
<1> DEFINE M == [y \in H |-> IF y = a THEN L[x] ELSE IF y = x THEN L[a] ELSE L[y]]
<1>1. L \in [H -> 0..K]
  BY DEF Fits
<1>2. M \in [H -> 0..K]
  BY <1>1
<1>3. M[a] = L[x] /\ M[x] = L[a] /\ \A y \in H \ {a, x} : M[y] = L[y]
  OBVIOUS
<1>4. CASE a = x
  <2>1. M = L
    <3>1. \A y \in H : M[y] = L[y]
      BY <1>3, <1>4
    <3>2. M = [y \in H |-> M[y]] /\ L = [y \in H |-> L[y]]
      BY <1>1
    <3> HIDE DEF M
    <3> QED BY <3>1, <3>2
  <2> HIDE DEF M
  <2>2. Weighted(H, w, L) \in Nat
    BY <1>1, FitsType
  <2> QED BY <2>1, <2>2 DEF M
<1>5. CASE a # x
  <2> HIDE DEF M
  <2> DEFINE R == H \ {a, x}
             k == [y \in H |-> 2 ^ (K - L[y])]
             l == [y \in H |-> 2 ^ (K - M[y])]
             f == [y \in H |-> w[y] * L[y]]
             g == [y \in H |-> w[y] * M[y]]
  <2>1. /\ \A y \in H : k[y] \in Nat /\ l[y] \in Nat /\ f[y] \in Nat /\ g[y] \in Nat
        /\ \A y \in R : k[y] = l[y] /\ f[y] = g[y]
    BY <1>1, <1>2, <1>3, FitsType
  <2>2. /\ k[a] = l[x] /\ k[x] = l[a]
        /\ f[a] = w[a] * L[a] /\ f[x] = w[x] * L[x] /\ g[a] = w[a] * L[x] /\ g[x] = w[x] * L[a]
    BY <1>3
  <2> HIDE DEF k, l, f, g
  <2>3. ASSUME NEW z, \A y \in H : z[y] \in Nat
        PROVE  SumOf(H, z) = z[a] + z[x] + SumOf(R, z) /\ SumOf(R, z) \in Nat
    <3> HIDE DEF R, k, l, f, g
    <3>1. SumOf(H, z) = z[a] + z[x] + SumOf(H \ {a, x}, z)
      BY <1>5, <2>3, SumTwo
    <3>2. SumOf(H \ {a, x}, z) \in Nat
      BY <1>5, <2>3, SumTwo
    <3> QED BY <3>1, <3>2 DEF R
  <2> HIDE DEF R
  <2>4. SumOf(H, k) = k[a] + k[x] + SumOf(R, k) /\ SumOf(R, k) \in Nat
    BY <2>1, <2>3
  <2>5. SumOf(H, l) = l[a] + l[x] + SumOf(R, l)
    BY <2>1, <2>3
  <2>6. /\ SumOf(H, f) = f[a] + f[x] + SumOf(R, f) /\ SumOf(R, f) \in Nat
        /\ SumOf(H, g) = g[a] + g[x] + SumOf(R, g)
    BY <2>1, <2>3
  <2>7. SumOf(R, k) = SumOf(R, l) /\ SumOf(R, f) = SumOf(R, g)
    <3>1. IsFiniteSet(R) /\ \A y \in R : k[y] \in Nat /\ f[y] \in Nat
      BY <2>1, FS_Subset DEF R
    <3> QED BY <2>1, <3>1, SumSame
  <2>8. g[a] + g[x] <= f[a] + f[x]
    <3>1. w[a] \in Nat /\ w[x] \in Nat /\ L[a] \in Nat /\ L[x] \in Nat
      BY <1>1
    <3>2. w[a] * L[x] + w[x] * L[a] <= w[a] * L[a] + w[x] * L[x]
      BY <3>1, Rearrange
    <3> QED BY <2>2, <3>2
  <2>9. SumOf(H, k) = SumOf(H, l)
    BY <2>1, <2>2, <2>4, <2>5, <2>7
  <2>10. SumOf(H, g) <= SumOf(H, f)
    <3>1. f[a] \in Nat /\ f[x] \in Nat /\ g[a] \in Nat /\ g[x] \in Nat
      BY <2>1
    <3> QED BY <2>6, <2>7, <2>8, <3>1
  <2>11. SumOf(H, k) <= 2 ^ K
    BY DEF Fits, k
  <2>12. Fits(H, K, M)
    BY <1>2, <2>9, <2>11 DEF Fits, l
  <2>13. Weighted(H, w, M) <= Weighted(H, w, L)
    BY <2>10 DEF Weighted, f, g
  <2> QED BY <2>12, <2>13 DEF M
<1> QED BY <1>4, <1>5

LEMMA PowerMultiple ==
  ASSUME NEW d \in Nat, NEW n \in Nat
  PROVE  \E q \in Nat : 2 ^ (d + n) = 2 ^ d * q
<1> DEFINE S == {m \in Nat : \E q \in Nat : 2 ^ (d + m) = 2 ^ d * q}
<1>1. 0 \in S
  <2>1. 2 ^ (d + 0) = 2 ^ d * 1
    BY PowerType
  <2> QED BY <2>1
<1>2. ASSUME NEW m \in Nat, m \in S PROVE m + 1 \in S
  <2>1. PICK q \in Nat : 2 ^ (d + m) = 2 ^ d * q
    BY <1>2
  <2>2. d + m \in Nat /\ d + (m + 1) = (d + m) + 1
    OBVIOUS
  <2>3. 2 ^ (d + (m + 1)) = 2 * 2 ^ (d + m)
    BY <2>2, PowerStep
  <2>4. 2 ^ d \in Nat
    BY PowerType
  <2>5. 2 * (2 ^ d * q) = 2 ^ d * (2 * q) /\ 2 * q \in Nat
    BY <2>4
  <2>6. 2 ^ (d + (m + 1)) = 2 ^ d * (2 * q)
    BY <2>1, <2>3, <2>5
  <2>7. \E r \in Nat : 2 ^ (d + (m + 1)) = 2 ^ d * r
    BY <2>5, <2>6, Zenon
  <2> QED BY <2>7
<1>3. \A k \in 0..n : k \in S
  <2> HIDE DEF S
  <2> QED BY <1>1, <1>2, UpTo
<1>4. n \in S
  BY <1>3
<1> QED BY <1>4

\* A member whose length is the only longest can have it one shorter.
LEMMA Shorten ==
  ASSUME NEW H, IsFiniteSet(H), NEW K \in Nat, NEW w \in [H -> Nat \ {0}], NEW L, Fits(H, K, L),
         NEW a \in H, NEW b \in H, a # b, \A y \in H \ {a} : L[y] < L[a]
  PROVE  \E M : Fits(H, K, M) /\ Weighted(H, w, M) < Weighted(H, w, L)
<1> DEFINE m == L[a]
           M == [y \in H |-> IF y = a THEN m - 1 ELSE L[y]]
           R == H \ {a}
           k == [y \in H |-> 2 ^ (K - L[y])]
           l == [y \in H |-> 2 ^ (K - M[y])]
           f == [y \in H |-> w[y] * L[y]]
           g == [y \in H |-> w[y] * M[y]]
<1>1. L \in [H -> 0..K] /\ w \in [H -> Nat]
  BY DEF Fits
<1>2. m \in 1..K
  <2>1. L[b] < L[a] /\ L[b] \in 0..K /\ L[a] \in 0..K
    BY <1>1
  <2> QED BY <2>1
<1>3. M \in [H -> 0..K] /\ M[a] = m - 1 /\ \A y \in R : M[y] = L[y]
  BY <1>1, <1>2
<1> HIDE DEF M
<1>4. /\ \A y \in H : k[y] \in Nat /\ l[y] \in Nat /\ f[y] \in Nat /\ g[y] \in Nat
      /\ \A y \in R : k[y] = l[y] /\ f[y] = g[y]
  BY <1>1, <1>3, FitsType
<1>5. k[a] = 2 ^ (K - m) /\ l[a] = 2 ^ (K - (m - 1)) /\ f[a] = w[a] * m /\ g[a] = w[a] * (m - 1)
  BY <1>3
<1>6. 2 ^ (K - (m - 1)) = 2 * 2 ^ (K - m)
  <2>1. K - m \in Nat /\ K - (m - 1) = (K - m) + 1
    BY <1>2
  <2> QED BY <2>1, PowerStep
<1>7. ASSUME NEW y \in R PROVE \E q \in Nat : k[y] = 2 ^ (K - (m - 1)) * q
  <2>1. L[y] < m /\ L[y] \in 0..K
    BY <1>1
  <2> DEFINE d == K - (m - 1)
             n == (m - 1) - L[y]
  <2>2. d \in Nat /\ n \in Nat /\ d + n = K - L[y]
    BY <1>2, <2>1
  <2>3. k[y] = 2 ^ (K - L[y])
    OBVIOUS
  <2> HIDE DEF d, n
  <2>4. \E q \in Nat : 2 ^ (d + n) = 2 ^ d * q
    BY <2>2, PowerMultiple
  <2> HIDE DEF k
  <2> QED BY <2>2, <2>3, <2>4 DEF d
<1>8. SumOf(H, k) <= 2 ^ K
  BY DEF Fits
<1> DEFINE D == 2 ^ (K - (m - 1))
<1>9. PICK r \in Nat : 2 ^ K = D * r
  <2> DEFINE d == K - (m - 1)
             n == m - 1
  <2>1. d \in Nat /\ n \in Nat /\ d + n = K
    BY <1>2
  <2> HIDE DEF d, n
  <2>2. \E r \in Nat : 2 ^ (d + n) = 2 ^ d * r
    BY <2>1, PowerMultiple
  <2> QED BY <2>1, <2>2 DEF d
<1>10. D \in Nat \ {0} /\ 2 ^ (K - m) \in Nat \ {0}
  <2>1. K - (m - 1) \in Nat /\ K - m \in Nat
    BY <1>2
  <2> QED BY <2>1, PowerType
<1> DEFINE e == 2 ^ (K - m)
<1> HIDE DEF k, l, f, g, R, D, e
<1>11. IsFiniteSet(R) /\ \A y \in R : y \in H
  BY FS_Subset DEF R
<1>12. PICK q \in Nat : SumOf(R, k) = D * q
  <2>1. \A y \in R : k[y] \in Multiples(D)
    BY <1>7 DEF D, Multiples
  <2>2. SumOf(R, k) \in Multiples(D)
    BY <1>10, <1>11, <2>1, SumOfMultiples
  <2> QED BY <2>2 DEF Multiples
<1>13. ASSUME NEW z, \A y \in H : z[y] \in Nat
       PROVE  SumOf(H, z) = z[a] + SumOf(R, z) /\ SumOf(R, z) \in Nat
  BY <1>11, <1>13, SumSplit, SumType DEF R
<1>14. SumOf(H, k) = e + D * q
  BY <1>4, <1>5, <1>12, <1>13 DEF e
<1>15. SumOf(R, k) = SumOf(R, l) /\ SumOf(R, f) = SumOf(R, g)
  BY <1>4, <1>11, SumSame
<1>16. SumOf(H, l) = D + D * q
  BY <1>4, <1>5, <1>12, <1>13, <1>15 DEF D
<1>17. D + D * q <= D * r
  <2>1. D * q < D * r
    <3>1. e + D * q <= D * r /\ e \in Nat \ {0} /\ D * q \in Nat /\ D * r \in Nat
      BY <1>8, <1>9, <1>10, <1>14 DEF e
    <3> QED BY <3>1
  <2>2. q < r
    <3> SUFFICES ASSUME r <= q PROVE FALSE
      OBVIOUS
    <3>1. q - r \in Nat /\ q = r + (q - r)
      OBVIOUS
    <3>2. D * (q - r) \in Nat /\ D * q = D * r + D * (q - r)
      BY <1>10, <3>1
    <3>3. D * r \in Nat
      BY <1>10
    <3> QED BY <2>1, <3>2, <3>3
  <2>3. r - (q + 1) \in Nat /\ r = (q + 1) + (r - (q + 1))
    BY <2>2
  <2>4. D * r = D * (q + 1) + D * (r - (q + 1)) /\ D * (r - (q + 1)) \in Nat
    BY <1>10, <2>3
  <2>5. D * (q + 1) = D + D * q /\ D * q \in Nat
    BY <1>10
  <2> QED BY <1>10, <2>4, <2>5
<1>18. Fits(H, K, M)
  BY <1>3, <1>9, <1>16, <1>17 DEF Fits, l
<1>19. g[a] < f[a] /\ g[a] \in Nat /\ f[a] \in Nat
  <2>1. w[a] \in Nat \ {0}
    OBVIOUS
  <2>2. w[a] * m = w[a] * (m - 1) + w[a]
    BY <1>2, <2>1
  <2> QED BY <1>4, <1>5, <2>1, <2>2
<1>20. SumOf(H, g) < SumOf(H, f)
  <2>1. SumOf(H, g) = g[a] + SumOf(R, g) /\ SumOf(R, g) \in Nat /\ SumOf(H, f) = f[a] + SumOf(R, f)
    BY <1>4, <1>13
  <2> QED BY <1>15, <1>19, <2>1
<1>21. Weighted(H, w, M) < Weighted(H, w, L)
  BY <1>20 DEF Weighted, f, g
<1> QED BY <1>18, <1>21

\* Whatever lengths fit, some that cost no more make the lightest two members
\* siblings: of lengths that cost least, the lightest can take the longest, and
\* another has the same, or it could be shorter.
LEMMA LightestTwo ==
  ASSUME NEW H, IsFiniteSet(H), NEW K \in Nat, NEW w \in [H -> Nat \ {0}], NEW L, Fits(H, K, L),
         NEW a \in H, \A x \in H : w[a] <= w[x],
         NEW b \in H \ {a}, \A x \in H \ {a} : w[b] <= w[x]
  PROVE  \E M : /\ Fits(H, K, M) /\ Weighted(H, w, M) <= Weighted(H, w, L)
                /\ M[a] = M[b] /\ M[a] \in 1..K
<1> DEFINE Costs == {Weighted(H, w, M) : M \in {N \in [H -> 0..K] : Fits(H, K, N)}}
<1>1. w \in [H -> Nat] /\ a # b /\ b \in H
  OBVIOUS
<1>2. \A M : Fits(H, K, M) => M \in [H -> 0..K] /\ Weighted(H, w, M) \in Nat
  BY <1>1, FitsType DEF Fits
<1>3. PICK c \in Costs : \A d \in Costs : c <= d
  <2>1. Costs \subseteq Nat
    BY <1>2
  <2>2. Weighted(H, w, L) \in Costs
    BY <1>2
  <2> HIDE DEF Costs
  <2> QED BY <2>1, <2>2, LeastNumber
<1>4. PICK M1 : Fits(H, K, M1) /\ Weighted(H, w, M1) = c
  OBVIOUS
<1>5. ASSUME NEW M, Fits(H, K, M) PROVE c <= Weighted(H, w, M) /\ Weighted(H, w, M) \in Nat
  BY <1>2, <1>3, <1>5
<1>6. c \in Nat
  BY <1>2, <1>4
<1> HIDE DEF Costs
\* One of the longest.
<1>7. PICK x \in H : \A y \in H : M1[y] <= M1[x]
  <2>1. M1 \in [H -> 0..K]
    BY <1>2, <1>4
  <2> DEFINE S == {K - M1[y] : y \in H}
  <2>2. S \subseteq Nat /\ K - M1[a] \in S
    BY <2>1
  <2>3. PICK s \in S : \A r \in S : s <= r
    <3> HIDE DEF S
    <3> QED BY <2>2, LeastNumber
  <2>4. PICK x \in H : s = K - M1[x]
    OBVIOUS
  <2>5. ASSUME NEW y \in H PROVE M1[y] <= M1[x]
    <3>1. K - M1[x] <= K - M1[y]
      BY <2>3, <2>4
    <3>2. M1[x] \in 0..K /\ M1[y] \in 0..K
      BY <2>1
    <3> QED BY <3>1, <3>2
  <2> QED BY <2>5
<1> DEFINE M2 == [y \in H |-> IF y = a THEN M1[x] ELSE IF y = x THEN M1[a] ELSE M1[y]]
<1>8. Fits(H, K, M2) /\ Weighted(H, w, M2) <= c
  BY <1>1, <1>4, <1>7, Exchange
<1>9. M2 \in [H -> 0..K] /\ \A y \in H : M2[y] <= M2[a]
  <2>1. M1 \in [H -> 0..K]
    BY <1>2, <1>4
  <2>2. M2 \in [H -> 0..K]
    BY <1>2, <1>8
  <2>3. M2[a] = M1[x] /\ \A y \in H : \E z \in H : M2[y] = M1[z]
    OBVIOUS
  <2> HIDE DEF M2
  <2> QED BY <1>7, <2>2, <2>3
<1> HIDE DEF M2
<1>10. PICK y \in H \ {a} : M2[y] = M2[a]
  <2> SUFFICES ASSUME \A y \in H \ {a} : M2[y] # M2[a] PROVE FALSE
    OBVIOUS
  <2>1. ASSUME NEW y \in H \ {a} PROVE M2[y] < M2[a]
    <3>1. M2[y] <= M2[a] /\ M2[y] # M2[a] /\ M2[y] \in 0..K /\ M2[a] \in 0..K
      BY <1>9
    <3> QED BY <3>1
  <2>2. PICK M : Fits(H, K, M) /\ Weighted(H, w, M) < Weighted(H, w, M2)
    BY <1>1, <1>8, <2>1, Shorten
  <2>3. c <= Weighted(H, w, M) /\ Weighted(H, w, M) \in Nat /\ Weighted(H, w, M2) \in Nat
    BY <1>5, <1>8, <2>2
  <2> QED BY <1>6, <1>8, <2>2, <2>3
<1> DEFINE M3 == [z \in H |-> IF z = b THEN M2[y] ELSE IF z = y THEN M2[b] ELSE M2[z]]
<1>11. Fits(H, K, M3) /\ Weighted(H, w, M3) <= Weighted(H, w, M2)
  <2>1. w[b] <= w[y] /\ M2[b] <= M2[y] /\ y \in H
    BY <1>1, <1>9, <1>10
  <2> QED BY <1>1, <1>8, <2>1, Exchange
<1>12. M3[a] = M2[a] /\ M3[b] = M2[a]
  BY <1>1, <1>10
<1> HIDE DEF M3
<1>13. Weighted(H, w, M3) <= Weighted(H, w, L)
  <2>1. c <= Weighted(H, w, L) /\ Weighted(H, w, L) \in Nat
    BY <1>5
  <2>2. Weighted(H, w, M3) \in Nat /\ Weighted(H, w, M2) \in Nat
    BY <1>5, <1>8, <1>11
  <2> QED BY <1>6, <1>8, <1>11, <2>1, <2>2
<1>14. M2[a] \in 1..K
  <2> SUFFICES ASSUME M2[a] = 0 PROVE FALSE
    BY <1>9
  <2> DEFINE k == [z \in H |-> 2 ^ (K - M3[z])]
  <2>1. \A z \in H : k[z] \in Nat
    BY <1>1, <1>2, <1>11, FitsType
  <2>2. k[a] = 2 ^ K /\ k[b] = 2 ^ K
    <3>1. K - 0 = K /\ M3[a] = 0 /\ M3[b] = 0
      BY <1>12
    <3> QED BY <1>1, <3>1
  <2>3. SumOf(H, k) <= 2 ^ K
    BY <1>11 DEF Fits
  <2> HIDE DEF k
  <2>4. SumOf(H, k) = k[a] + SumOf(H \ {a}, k) /\ IsFiniteSet(H \ {a})
    BY <2>1, SumSplit, FS_Subset
  <2>6. SumOf(H \ {a}, k) = k[b] + SumOf((H \ {a}) \ {b}, k)
    <3>1. \A z \in H \ {a} : k[z] \in Nat
      BY <2>1
    <3> QED BY <2>4, <3>1, SumSplit
  <2>7. SumOf((H \ {a}) \ {b}, k) \in Nat
    <3>1. IsFiniteSet((H \ {a}) \ {b}) /\ \A z \in (H \ {a}) \ {b} : k[z] \in Nat
      BY <2>1, <2>4, FS_Subset
    <3> QED BY <3>1, SumType
  <2>5. 2 ^ K \in Nat \ {0}
    BY PowerType
  <2> QED BY <2>2, <2>3, <2>4, <2>5, <2>6, <2>7
<1> QED BY <1>11, <1>12, <1>13, <1>14

-----------------------------------------------------------------------------
(* The tree that Huffman's algorithm builds costs least.                   *)

ValuesIn(t) == {t[p] : p \in DOMAIN t}

\* The bits for the bytes of a tree, when it is the whole tree.
TreeCost(f, t) == SumOf(ValuesIn(t), [v \in ValuesIn(t) |-> f[v] * Len(Encodings(t)[v])])

\* And for those of all trees, when the root of tree n is at depth L[n].
HeapCost(H, f, L) == Weighted(H, [n \in H |-> n.freq], L)
                       + SumOf(H, [n \in H |-> TreeCost(f, n.tree)])

OptInv ==
  LET f == FindFrequency(binary)
  IN  /\ \A n \in minHeap : n.freq = SumOf(ValuesIn(n.tree), f)
      /\ \A len \in CodeLengths(binary) :
           \E L : /\ Fits(minHeap, Cardinality(Values(binary)), L)
                  /\ HeapCost(minHeap, f, L) <= TotalBits(binary, len)

LEMMA LengthType ==
  ASSUME NEW t, FullTree(t), Injective(t), NEW v \in ValuesIn(t)
  PROVE  /\ Encodings(t)[v] \in DOMAIN t /\ t[Encodings(t)[v]] = v
         /\ Encodings(t)[v] \in Paths /\ Len(Encodings(t)[v]) \in Nat
<1>1. PICK p \in DOMAIN t : v = t[p]
  BY DEF ValuesIn
<1>2. Encodings(t)[v] = p
  BY <1>1, EncodingsInvert
<1>3. p \in Paths
  BY DEF FullTree, TreeTypeOK, Paths
<1> QED BY <1>1, <1>2, <1>3, PathProperties

LEMMA CostType ==
  ASSUME NEW t, FullTree(t), Injective(t), IsFiniteSet(ValuesIn(t)),
         NEW f, \A v \in ValuesIn(t) : f[v] \in Nat
  PROVE  /\ \A v \in ValuesIn(t) : f[v] * Len(Encodings(t)[v]) \in Nat
         /\ TreeCost(f, t) \in Nat
<1>1. \A v \in ValuesIn(t) : f[v] * Len(Encodings(t)[v]) \in Nat
  <2> SUFFICES ASSUME NEW v \in ValuesIn(t) PROVE f[v] * Len(Encodings(t)[v]) \in Nat
    OBVIOUS
  <2>1. f[v] \in Nat /\ Len(Encodings(t)[v]) \in Nat
    BY LengthType
  <2> QED BY <2>1
<1> DEFINE g == [v \in ValuesIn(t) |-> f[v] * Len(Encodings(t)[v])]
<1>2. \A v \in ValuesIn(t) : g[v] \in Nat
  BY <1>1
<1> HIDE DEF g
<1>3. SumOf(ValuesIn(t), g) \in Nat
  BY <1>2, SumType
<1> QED BY <1>1, <1>3 DEF TreeCost, g

\* In a joined tree the bytes are a bit further from the root.
LEMMA LongerByOne ==
  ASSUME NEW t, FullTree(t), Injective(t), NEW J, FullTree(J), Injective(J), NEW b \in Bits,
         \A q \in DOMAIN t : <<b>> \o q \in DOMAIN J /\ J[<<b>> \o q] = t[q],
         IsFiniteSet(ValuesIn(t)), NEW f, \A v \in ValuesIn(t) : f[v] \in Nat
  PROVE  SumOf(ValuesIn(t), [v \in ValuesIn(J) |-> f[v] * Len(Encodings(J)[v])])
           = TreeCost(f, t) + SumOf(ValuesIn(t), f)
<1> DEFINE V == ValuesIn(t)
           g == [v \in V |-> f[v] * Len(Encodings(t)[v])]
           k == [v \in ValuesIn(J) |-> f[v] * Len(Encodings(J)[v])]
<1>1. ASSUME NEW v \in V PROVE v \in ValuesIn(J) /\ Len(Encodings(J)[v]) = Len(Encodings(t)[v]) + 1
  <2>1. PICK p \in DOMAIN t : v = t[p]
    BY DEF ValuesIn
  <2>2. p \in Paths
    BY DEF FullTree, TreeTypeOK, Paths
  <2>3. <<b>> \o p \in DOMAIN J /\ J[<<b>> \o p] = v
    BY <2>1
  <2>4. Encodings(t)[v] = p
    BY <2>1, EncodingsInvert
  <2>5. Encodings(J)[v] = <<b>> \o p
    BY <2>3, EncodingsInvert
  <2>6. Len(<<b>> \o p) = Len(p) + 1
    BY <2>2, ConsPath
  <2>7. v \in ValuesIn(J)
    BY <2>3 DEF ValuesIn
  <2> QED BY <2>4, <2>5, <2>6, <2>7
<1>2. ASSUME NEW v \in V PROVE g[v] \in Nat /\ f[v] \in Nat /\ k[v] = g[v] + f[v]
  <2>1. g[v] = f[v] * Len(Encodings(t)[v]) /\ g[v] \in Nat
    BY CostType
  <2>2. k[v] = f[v] * Len(Encodings(J)[v])
    BY <1>1
  <2>3. f[v] \in Nat /\ Len(Encodings(t)[v]) \in Nat
    BY LengthType
  <2>4. f[v] * (Len(Encodings(t)[v]) + 1) = f[v] * Len(Encodings(t)[v]) + f[v]
    BY <2>3
  <2> HIDE DEF g, k
  <2> QED BY <1>1, <2>1, <2>2, <2>3, <2>4
<1> HIDE DEF g, k, V
<1>3. SumOf(V, k) = SumOf(V, g) + SumOf(V, f)
  <2>1. IsFiniteSet(V)
    BY DEF V
  <2> QED BY <1>2, <2>1, SumPlus
<1> QED BY <1>3 DEF V, g, k, TreeCost

LEMMA JoinCost ==
  ASSUME NEW left, FullTree(left), Injective(left), NEW right, FullTree(right), Injective(right),
         Injective(Join(left, right)),
         IsFiniteSet(ValuesIn(left)), IsFiniteSet(ValuesIn(right)),
         ValuesIn(left) \cap ValuesIn(right) = {},
         NEW f, \A v \in ValuesIn(left) \cup ValuesIn(right) : f[v] \in Nat
  PROVE  LET J == Join(left, right)
         IN  /\ ValuesIn(J) = ValuesIn(left) \cup ValuesIn(right)
             /\ SumOf(ValuesIn(J), f) = SumOf(ValuesIn(left), f) + SumOf(ValuesIn(right), f)
             /\ TreeCost(f, J) = (TreeCost(f, left) + SumOf(ValuesIn(left), f))
                                   + (TreeCost(f, right) + SumOf(ValuesIn(right), f))
<1> DEFINE J == Join(left, right)
           A == ValuesIn(left)
           B == ValuesIn(right)
           k == [v \in ValuesIn(J) |-> f[v] * Len(Encodings(J)[v])]
<1>1. /\ \A p : p \in DOMAIN J <=>
                   \/ \E q \in DOMAIN left : p = <<0>> \o q
                   \/ \E q \in DOMAIN right : p = <<1>> \o q
      /\ \A q \in DOMAIN left : J[<<0>> \o q] = left[q]
      /\ \A q \in DOMAIN right : J[<<1>> \o q] = right[q]
  <2>1. TreeTypeOK(left) /\ TreeTypeOK(right)
    BY DEF FullTree
  <2>2. \A q \in DOMAIN left : J[<<0>> \o q] = left[q]
    BY <2>1, JoinedLeaves
  <2>3. \A q \in DOMAIN right : J[<<1>> \o q] = right[q]
    BY <2>1, JoinedLeaves
  <2>4. \A p : p \in DOMAIN J <=>
                  \/ \E q \in DOMAIN left : p = <<0>> \o q
                  \/ \E q \in DOMAIN right : p = <<1>> \o q
    BY <2>1, JoinedLeaves, SMTT(30)
  <2> QED BY <2>2, <2>3, <2>4
<1>2. FullTree(J)
  BY JoinIsFull
<1> HIDE DEF J
<1>3. ValuesIn(J) = A \cup B
  <2>1. ASSUME NEW v \in ValuesIn(J) PROVE v \in A \cup B
    <3>1. PICK p \in DOMAIN J : v = J[p]
      BY DEF ValuesIn
    <3>2. CASE \E q \in DOMAIN left : p = <<0>> \o q
      <4>1. PICK q \in DOMAIN left : p = <<0>> \o q
        BY <3>2
      <4>2. v = left[q]
        BY <1>1, <3>1, <4>1
      <4> QED BY <4>2 DEF ValuesIn
    <3>3. CASE \E q \in DOMAIN right : p = <<1>> \o q
      <4>1. PICK q \in DOMAIN right : p = <<1>> \o q
        BY <3>3
      <4>2. v = right[q]
        BY <1>1, <3>1, <4>1
      <4> QED BY <4>2 DEF ValuesIn
    <3> QED BY <1>1, <3>1, <3>2, <3>3
  <2>2. ASSUME NEW v \in A \cup B PROVE v \in ValuesIn(J)
    <3>1. CASE v \in A
      <4>1. PICK q \in DOMAIN left : v = left[q]
        BY <3>1 DEF ValuesIn
      <4>2. <<0>> \o q \in DOMAIN J /\ J[<<0>> \o q] = v
        BY <1>1, <4>1
      <4> QED BY <4>2 DEF ValuesIn
    <3>2. CASE v \in B
      <4>1. PICK q \in DOMAIN right : v = right[q]
        BY <3>2 DEF ValuesIn
      <4>2. <<1>> \o q \in DOMAIN J /\ J[<<1>> \o q] = v
        BY <1>1, <4>1
      <4> QED BY <4>2 DEF ValuesIn
    <3> QED BY <3>1, <3>2
  <2> HIDE DEF A, B
  <2> QED BY <2>1, <2>2
<1>4. Injective(J)
  BY DEF J
<1>5. IsFiniteSet(A) /\ IsFiniteSet(B) /\ A \cap B = {}
  OBVIOUS
<1>6. SumOf(A, k) = TreeCost(f, left) + SumOf(A, f)
  <2>1. \A q \in DOMAIN left : <<0>> \o q \in DOMAIN J /\ J[<<0>> \o q] = left[q]
    BY <1>1
  <2>2. 0 \in Bits
    BY DEF Bits
  <2> QED BY <1>2, <1>4, <2>1, <2>2, LongerByOne
<1>7. SumOf(B, k) = TreeCost(f, right) + SumOf(B, f)
  <2>1. \A q \in DOMAIN right : <<1>> \o q \in DOMAIN J /\ J[<<1>> \o q] = right[q]
    BY <1>1
  <2>2. 1 \in Bits
    BY DEF Bits
  <2> QED BY <1>2, <1>4, <2>1, <2>2, LongerByOne
<1>8. \A v \in A \cup B : k[v] \in Nat /\ f[v] \in Nat
  <2>1. IsFiniteSet(ValuesIn(J)) /\ \A v \in ValuesIn(J) : f[v] \in Nat
    BY <1>3, <1>5, FS_Union
  <2>2. \A v \in ValuesIn(J) : f[v] * Len(Encodings(J)[v]) \in Nat
    BY <1>2, <1>4, <2>1, CostType
  <2> QED BY <1>3, <2>1, <2>2
<1> HIDE DEF k, A, B
<1>9. SumOf(A \cup B, k) = SumOf(A, k) + SumOf(B, k)
  BY <1>5, <1>8, SumUnion
<1>10. SumOf(A \cup B, f) = SumOf(A, f) + SumOf(B, f)
  BY <1>5, <1>8, SumUnion
<1>11. TreeCost(f, J) = SumOf(A \cup B, k)
  BY <1>3 DEF TreeCost, k
<1> QED BY <1>3, <1>6, <1>7, <1>9, <1>10, <1>11 DEF A, B, J

-----------------------------------------------------------------------------
(* At first each byte is a tree of its own, and lengths of codes are depths *)
(* of roots.                                                               *)

LEMMA OneLeafCost ==
  ASSUME NEW v \in Bytes, NEW f, f[v] \in Nat
  PROVE  ValuesIn(Leaf(v)) = {v} /\ SumOf({v}, f) = f[v] /\ TreeCost(f, Leaf(v)) = 0
<1>1. FullTree(Leaf(v)) /\ DOMAIN Leaf(v) = {<< >>} /\ Leaf(v)[<< >>] = v
  BY LeafIsFull
<1> DEFINE t == Leaf(v)
<1> HIDE DEF t
<1>2. ValuesIn(t) = {v}
  BY <1>1 DEF ValuesIn, t
<1>3. Injective(t)
  BY <1>1 DEF Injective, t
<1>4. ASSUME NEW g, g[v] \in Nat PROVE SumOf({v}, g) = g[v]
  <2>1. IsFiniteSet({v}) /\ {v} \ {v} = {}
    BY FS_Singleton
  <2>2. SumOf({v}, g) = g[v] + SumOf({v} \ {v}, g)
    BY <1>4, <2>1, SumSplit
  <2> QED BY <1>4, <2>1, <2>2, SumEmpty
<1> DEFINE g == [x \in ValuesIn(t) |-> f[x] * Len(Encodings(t)[x])]
<1>5. g[v] = 0
  <2>1. Encodings(t)[v] \in DOMAIN t
    BY <1>1, <1>2, <1>3, LengthType DEF t
  <2>2. Len(Encodings(t)[v]) = 0
    BY <1>1, <2>1, EmptyPath DEF t
  <2>3. g[v] = f[v] * Len(Encodings(t)[v])
    BY <1>2
  <2> HIDE DEF g
  <2> QED BY <2>2, <2>3
<1> HIDE DEF g
<1>6. TreeCost(f, t) = 0
  <2>1. SumOf({v}, g) = g[v]
    BY <1>4, <1>5
  <2>2. TreeCost(f, t) = SumOf(ValuesIn(t), g)
    BY DEF TreeCost, g
  <2> QED BY <1>2, <1>5, <2>1, <2>2
<1> QED BY <1>2, <1>4, <1>6 DEF t

LEMMA SumOfZeros ==
  ASSUME NEW A, IsFiniteSet(A), NEW g, \A x \in A : g[x] = 0
  PROVE  SumOf(A, g) = 0
<1>1. \A x \in A : g[x] \in Multiples(0)
  BY DEF Multiples
<1>2. SumOf(A, g) \in Multiples(0)
  BY <1>1, SumOfMultiples
<1> QED BY <1>2 DEF Multiples

\* What a length function of bytes says of the bits of a file.
LEMMA LengthFacts ==
  ASSUME NEW b \in Seq(Bytes), NEW len \in CodeLengths(b)
  PROVE  LET V == Values(b)
             K == Cardinality(V)
             f == FindFrequency(b)
         IN  /\ IsFiniteSet(V) /\ K \in Nat
             /\ len \in [V -> 1..K]
             /\ \A v \in V : 2 ^ (K - len[v]) \in Nat /\ f[v] * len[v] \in Nat
             /\ SumOf(V, [v \in V |-> 2 ^ (K - len[v])]) <= 2 ^ K
             /\ TotalBits(b, len) = SumOf(V, [v \in V |-> f[v] * len[v]])
<1> DEFINE V == Values(b)
           K == Cardinality(V)
           f == FindFrequency(b)
           g == [v \in V |-> f[v] * len[v]]
           k == [v \in V |-> 2 ^ (K - len[v])]
<1>1. IsFiniteSet(V) /\ K \in Nat
  BY ValuesFacts, FS_CardinalityType
<1>2. len \in [V -> 1..K] /\ Total(k) <= 2 ^ K
  BY DEF CodeLengths, Total
<1>3. \A v \in V : f[v] \in Nat
  BY FrequencyType
<1>4. ASSUME NEW v \in V PROVE 2 ^ (K - len[v]) \in Nat /\ f[v] * len[v] \in Nat
  <2>1. len[v] \in 1..K
    BY <1>2
  <2>2. K - len[v] \in Nat /\ len[v] \in Nat
    BY <1>1, <2>1
  <2>3. 2 ^ (K - len[v]) \in Nat
    BY <2>2, PowerType
  <2> HIDE DEF K, f
  <2>4. f[v] * len[v] \in Nat
    BY <1>3, <2>2
  <2> QED BY <2>3, <2>4
<1>5. \A v \in V : g[v] \in Nat /\ k[v] \in Nat
  BY <1>4
<1>6. DOMAIN g = V /\ DOMAIN k = V
  OBVIOUS
<1>7. TotalBits(b, len) = Total(g)
  BY DEF TotalBits, Total
<1> HIDE DEF g, k, V, K, f
<1>8. Total(k) = SumOf(V, k) /\ Total(g) = SumOf(V, g)
  BY <1>1, <1>5, <1>6, TotalIsSum
<1> QED BY <1>1, <1>2, <1>4, <1>7, <1>8 DEF V, K, f, g, k

LEMMA InitOpt == Init => OptInv
<1> SUFFICES ASSUME Init PROVE OptInv
  OBVIOUS
<1> DEFINE V == Values(binary)
           K == Cardinality(V)
           f == FindFrequency(binary)
           nodeOf == [v \in V |-> [freq |-> f[v], tree |-> Leaf(v)]]
<1>1. binary \in Seq(Bytes) /\ minHeap = Leaves(binary)
  BY FileAssumption DEF Init
<1>2. IsFiniteSet(V) /\ V \subseteq Bytes /\ \A v \in V : f[v] \in Nat
  BY <1>1, ValuesFacts, FrequencyType
<1>3. minHeap = {nodeOf[v] : v \in V}
  BY <1>1 DEF Leaves
<1>4. ASSUME NEW v \in V
      PROVE  /\ nodeOf[v].freq = f[v] /\ nodeOf[v].tree = Leaf(v) /\ Leaf(v)[<< >>] = v
             /\ ValuesIn(Leaf(v)) = {v} /\ SumOf({v}, f) = f[v] /\ TreeCost(f, Leaf(v)) = 0
  BY <1>2, OneLeafCost, LeafIsFull
<1> HIDE DEF f, nodeOf
<1>5. ASSUME NEW n \in minHeap PROVE n.freq = SumOf(ValuesIn(n.tree), f)
  <2>1. PICK v \in V : n = nodeOf[v]
    BY <1>3
  <2>2. n.freq = f[v] /\ n.tree = Leaf(v)
    BY <1>4, <2>1
  <2>3. ValuesIn(n.tree) = {v} /\ SumOf({v}, f) = f[v]
    BY <1>4, <2>2
  <2> QED BY <2>2, <2>3
<1>6. ASSUME NEW v \in V, NEW x \in V, nodeOf[v] = nodeOf[x] PROVE v = x
  <2>1. Leaf(v) = Leaf(x)
    BY <1>4, <1>6
  <2>2. Leaf(v)[<< >>] = v /\ Leaf(x)[<< >>] = x
    BY <1>4
  <2> QED BY <2>1, <2>2
<1>7. ASSUME NEW len \in CodeLengths(binary)
      PROVE  \E L : Fits(minHeap, K, L) /\ HeapCost(minHeap, f, L) <= TotalBits(binary, len)
  <2> DEFINE L == [n \in minHeap |-> len[n.tree[<< >>]]]
             w == [n \in minHeap |-> n.freq]
             k == [n \in minHeap |-> 2 ^ (K - L[n])]
             g == [n \in minHeap |-> w[n] * L[n]]
             c == [n \in minHeap |-> TreeCost(f, n.tree)]
             kV == [v \in V |-> 2 ^ (K - len[v])]
             gV == [v \in V |-> f[v] * len[v]]
  <2>1. /\ K \in Nat
        /\ len \in [V -> 1..K]
        /\ \A v \in V : 2 ^ (K - len[v]) \in Nat /\ f[v] * len[v] \in Nat
        /\ SumOf(V, kV) <= 2 ^ K
        /\ TotalBits(binary, len) = SumOf(V, gV)
    BY <1>1, LengthFacts DEF f
  <2>2. ASSUME NEW v \in V
        PROVE  /\ nodeOf[v] \in minHeap
               /\ L[nodeOf[v]] = len[v] /\ w[nodeOf[v]] = f[v] /\ c[nodeOf[v]] = 0
    BY <1>3, <1>4
  <2>3. \A v \in V : /\ kV[v] \in Nat /\ k[nodeOf[v]] = kV[v]
                     /\ gV[v] \in Nat /\ g[nodeOf[v]] = gV[v]
    BY <2>1, <2>2
  <2>4. L \in [minHeap -> 0..K]
    <3>1. ASSUME NEW n \in minHeap PROVE L[n] \in 0..K
      <4>1. PICK v \in V : n = nodeOf[v]
        BY <1>3
      <4>2. L[n] = len[v] /\ len[v] \in 1..K
        BY <2>1, <2>2, <4>1
      <4> HIDE DEF L, K
      <4> QED BY <2>1, <4>2
    <3>2. L = [n \in minHeap |-> L[n]]
      OBVIOUS
    <3> HIDE DEF L, K
    <3> QED BY <3>1, <3>2
  <2>5. \A n \in minHeap : c[n] = 0
    BY <1>3, <2>2
  <2>6. IsFiniteSet(minHeap)
    <3> HIDE DEF V
    <3> QED BY <1>2, <1>3, ImageIsFinite
  <2> HIDE DEF L, w, k, g, c, kV, gV, V, K
  <2>7. SumOf({nodeOf[v] : v \in V}, k) = SumOf(V, kV)
    BY <1>2, <1>6, <2>3, SumOfImages
  <2>8. SumOf({nodeOf[v] : v \in V}, g) = SumOf(V, gV)
    BY <1>2, <1>6, <2>3, SumOfImages
  <2>9. SumOf(minHeap, c) = 0
    BY <2>5, <2>6, SumOfZeros
  <2>10. Fits(minHeap, K, L)
    BY <1>3, <2>1, <2>4, <2>7 DEF Fits, k
  <2>11. Weighted(minHeap, w, L) = TotalBits(binary, len)
    BY <1>3, <2>1, <2>8 DEF Weighted, g
  <2>12. SumOf(V, gV) \in Nat
    BY <1>2, <2>3, SumType
  <2>13. HeapCost(minHeap, f, L) = Weighted(minHeap, w, L) + SumOf(minHeap, c)
    BY DEF HeapCost, w, c
  <2>14. HeapCost(minHeap, f, L) <= TotalBits(binary, len)
    BY <2>1, <2>9, <2>11, <2>12, <2>13
  <2> QED BY <2>10, <2>14
<1> QED BY <1>5, <1>7 DEF OptInv, f

-----------------------------------------------------------------------------
(* Merging makes the lightest two trees siblings.                          *)

\* What HeapInv says of the bytes of the trees.
LEMMA HeapTrees ==
  ASSUME binary \in Seq(Bytes), HeapInv
  PROVE  \A n \in minHeap : /\ FullTree(n.tree) /\ Injective(n.tree)
                            /\ IsFiniteSet(ValuesIn(n.tree))
                            /\ ValuesIn(n.tree) \subseteq Values(binary)
                            /\ ValuesIn(n.tree) # {}
                            /\ \A m \in minHeap : m # n => ValuesIn(n.tree) \cap ValuesIn(m.tree) = {}
<1> SUFFICES ASSUME NEW n \in minHeap
             PROVE  /\ FullTree(n.tree) /\ Injective(n.tree)
                    /\ IsFiniteSet(ValuesIn(n.tree))
                    /\ ValuesIn(n.tree) \subseteq Values(binary)
                    /\ ValuesIn(n.tree) # {}
                    /\ \A m \in minHeap : m # n => ValuesIn(n.tree) \cap ValuesIn(m.tree) = {}
  OBVIOUS
<1>1. FullTree(n.tree)
  BY DEF HeapInv
<1>2. Injective(n.tree)
  BY DEF HeapInv, Injective
<1>3. ValuesIn(n.tree) \subseteq Values(binary)
  BY DEF HeapInv, ValuesIn
<1>4. IsFiniteSet(ValuesIn(n.tree))
  BY <1>3, ValuesFacts, FS_Subset
<1>5. ValuesIn(n.tree) # {}
  BY <1>1 DEF FullTree, ValuesIn
<1>6. ASSUME NEW m \in minHeap, m # n PROVE ValuesIn(n.tree) \cap ValuesIn(m.tree) = {}
  <2> SUFFICES ASSUME NEW v \in ValuesIn(n.tree), v \in ValuesIn(m.tree) PROVE FALSE
    OBVIOUS
  <2>1. PICK p \in DOMAIN n.tree : v = n.tree[p]
    BY DEF ValuesIn
  <2>2. PICK q \in DOMAIN m.tree : v = m.tree[q]
    BY DEF ValuesIn
  <2>3. \A a, b \in minHeap : \A p1 \in DOMAIN a.tree : \A q1 \in DOMAIN b.tree :
          a.tree[p1] = b.tree[q1] => a = b /\ p1 = q1
    BY DEF HeapInv
  <2>4. n.tree[p] = m.tree[q]
    BY <2>1, <2>2
  <2>5. n = m
    BY <2>3, <2>4, Zenon
  <2> QED BY <1>6, <2>5
<1> QED BY <1>1, <1>2, <1>3, <1>4, <1>5, <1>6

\* new is the tree that left and right are merged to.
Merged(H, f, left, right, new) ==
  /\ IsFiniteSet(H) /\ left \in H /\ right \in H /\ left # right /\ new \notin H
  /\ \A n \in H : n.freq \in Nat /\ TreeCost(f, n.tree) \in Nat
  /\ new.freq = left.freq + right.freq
  /\ TreeCost(f, new.tree) = (TreeCost(f, left.tree) + left.freq)
                               + (TreeCost(f, right.tree) + right.freq)

\* Lengths for the trees in which left and right are siblings, and those for
\* the trees after the merge: the same bits fit, and they cost the same.
LEMMA MergedLengths ==
  ASSUME NEW H, NEW f, NEW left, NEW right, NEW new, Merged(H, f, left, right, new),
         NEW N, N = (H \ {left, right}) \cup {new},
         NEW K \in Nat, NEW M, Fits(H, K, M), M[left] = M[right], M[left] \in 1..K
  PROVE  \E L : Fits(N, K, L) /\ HeapCost(N, f, L) = HeapCost(H, f, M)
<1> USE DEF Merged
<1> DEFINE R == H \ {left, right}
           L == [n \in N |-> IF n = new THEN M[left] - 1 ELSE M[n]]
           w == [n \in H |-> n.freq]
           x == [n \in N |-> n.freq]
           k == [n \in H |-> 2 ^ (K - M[n])]
           l == [n \in N |-> 2 ^ (K - L[n])]
           g == [n \in H |-> w[n] * M[n]]
           h == [n \in N |-> x[n] * L[n]]
           c == [n \in H |-> TreeCost(f, n.tree)]
           d == [n \in N |-> TreeCost(f, n.tree)]
<1>1. M \in [H -> 0..K] /\ w \in [H -> Nat] /\ IsFiniteSet(R) /\ IsFiniteSet(N)
  BY FS_Subset, FS_AddElement DEF Fits
<1>2. L \in [N -> 0..K] /\ L[new] = M[left] - 1 /\ \A n \in R : L[n] = M[n]
  <2>1. M[left] - 1 \in 0..K /\ \A n \in R : M[n] \in 0..K
    BY <1>1
  <2>2. L \in [N -> 0..K]
    BY <2>1
  <2> QED BY <2>2
<1>3. x \in [N -> Nat] /\ x[new] = left.freq + right.freq /\ \A n \in R : x[n] = w[n]
  <2>1. left.freq + right.freq \in Nat
    OBVIOUS
  <2>2. \A n \in N : n.freq \in Nat
    BY <2>1
  <2> QED BY <2>2
<1>4. w[left] = left.freq /\ w[right] = right.freq
  OBVIOUS
<1>5. TreeCost(f, new.tree) \in Nat
  OBVIOUS
<1>6. /\ \A n \in H : k[n] \in Nat /\ g[n] \in Nat /\ c[n] \in Nat
      /\ \A n \in N : l[n] \in Nat /\ h[n] \in Nat /\ d[n] \in Nat
      /\ \A n \in R : k[n] = l[n] /\ g[n] = h[n] /\ c[n] = d[n]
  <2> HIDE DEF L, w, x
  <2>1. \A n \in H : k[n] \in Nat /\ g[n] \in Nat
    BY <1>1, FitsType
  <2>2. \A n \in N : l[n] \in Nat /\ h[n] \in Nat
    <3> QED BY <1>1, <1>2, <1>3, FitsType
  <2>3. \A n \in H : c[n] \in Nat
    OBVIOUS
  <2>4. \A n \in N : d[n] \in Nat
    BY <1>5
  <2>5. \A n \in R : k[n] = l[n] /\ g[n] = h[n] /\ c[n] = d[n]
    BY <1>2, <1>3
  <2> QED BY <2>1, <2>2, <2>3, <2>4, <2>5
<1>7. /\ k[left] = 2 ^ (K - M[left]) /\ k[right] = 2 ^ (K - M[left])
      /\ l[new] = 2 ^ (K - (M[left] - 1))
  BY <1>2
<1>8. /\ g[left] = left.freq * M[left] /\ g[right] = right.freq * M[left]
      /\ h[new] = (left.freq + right.freq) * (M[left] - 1)
  BY <1>2, <1>3, <1>4
<1>9. /\ c[left] = TreeCost(f, left.tree) /\ c[right] = TreeCost(f, right.tree)
      /\ d[new] = (TreeCost(f, left.tree) + left.freq) + (TreeCost(f, right.tree) + right.freq)
  OBVIOUS
<1>10. R = (H \ {left}) \ {right} /\ new \notin R /\ R \subseteq H /\ R \subseteq N
  OBVIOUS
<1>11. Fits(H, K, M) <=> M \in [H -> 0..K] /\ SumOf(H, k) <= 2 ^ K
  BY DEF Fits
<1>12. Fits(N, K, L) <=> L \in [N -> 0..K] /\ SumOf(N, l) <= 2 ^ K
  BY DEF Fits
<1>13. HeapCost(H, f, M) = SumOf(H, g) + SumOf(H, c)
  BY DEF HeapCost, Weighted
<1>14. HeapCost(N, f, L) = SumOf(N, h) + SumOf(N, d)
  BY DEF HeapCost, Weighted
<1> HIDE DEF L, w, x, k, l, g, h, c, d
<1>15. ASSUME NEW y, NEW z, \A n \in H : y[n] \in Nat, \A n \in N : z[n] \in Nat, \A n \in R : y[n] = z[n]
       PROVE  \E s \in Nat : SumOf(H, y) = y[left] + (y[right] + s) /\ SumOf(N, z) = s + z[new]
  <2>1. IsFiniteSet(H \ {left}) /\ right \in H \ {left} /\ \A n \in H \ {left} : y[n] \in Nat
    BY <1>15, FS_Subset
  <2>2. SumOf(H, y) = y[left] + SumOf(H \ {left}, y)
    BY <1>15, SumSplit
  <2>3. SumOf(H \ {left}, y) = y[right] + SumOf((H \ {left}) \ {right}, y)
    BY <2>1, SumSplit
  <2> HIDE DEF R
  <2>4. \A n \in R : y[n] \in Nat /\ z[n] \in Nat
    BY <1>10, <1>15
  <2>5. SumOf(R, y) = SumOf(R, z) /\ SumOf(R, y) \in Nat
    BY <1>1, <1>15, <2>4, SumSame, SumType
  <2>6. z[new] \in Nat
    BY <1>15
  <2>7. SumOf(R \cup {new}, z) = SumOf(R, z) + z[new]
    <3>1. IsFiniteSet(R) /\ new \notin R /\ \A n \in R : z[n] \in Nat
      BY <1>1, <1>10, <2>4
    <3> QED BY <2>6, <3>1, SumAdd
  <2>8. SumOf(H, y) = y[left] + (y[right] + SumOf(R, y))
    BY <1>10, <2>2, <2>3
  <2>9. SumOf(N, z) = SumOf(R, y) + z[new]
    BY <2>5, <2>7 DEF R
  <2> QED BY <2>5, <2>8, <2>9
<1> HIDE DEF R
<1>16. PICK s \in Nat : SumOf(H, k) = k[left] + (k[right] + s) /\ SumOf(N, l) = s + l[new]
  BY <1>6, <1>15
<1>17. PICK t \in Nat : SumOf(H, g) = g[left] + (g[right] + t) /\ SumOf(N, h) = t + h[new]
  BY <1>6, <1>15
<1>18. PICK u \in Nat : SumOf(H, c) = c[left] + (c[right] + u) /\ SumOf(N, d) = u + d[new]
  BY <1>6, <1>15
<1>19. SumOf(H, k) = SumOf(N, l)
  <2>1. K - M[left] \in Nat /\ K - (M[left] - 1) = (K - M[left]) + 1
    OBVIOUS
  <2>2. 2 ^ (K - (M[left] - 1)) = 2 * 2 ^ (K - M[left]) /\ 2 ^ (K - M[left]) \in Nat
    BY <2>1, PowerStep, PowerType
  <2> DEFINE p == 2 ^ (K - M[left])
  <2>3. k[left] = p /\ k[right] = p /\ l[new] = 2 * p /\ p \in Nat
    BY <1>7, <2>2
  <2> HIDE DEF p
  <2> QED BY <1>16, <2>3
<1>20. SumOf(H, g) + SumOf(H, c) = SumOf(N, h) + SumOf(N, d)
  <2> DEFINE p == left.freq
             q == right.freq
             m == M[left]
             i == TreeCost(f, left.tree)
             j == TreeCost(f, right.tree)
  <2>1. p \in Nat /\ q \in Nat /\ m \in Nat /\ i \in Nat /\ j \in Nat
    OBVIOUS
  <2>2. /\ SumOf(H, g) = p * m + (q * m + t) /\ SumOf(N, h) = t + (p + q) * (m - 1)
        /\ SumOf(H, c) = i + (j + u) /\ SumOf(N, d) = u + ((i + p) + (j + q))
    BY <1>8, <1>9, <1>17, <1>18
  <2> HIDE DEF p, q, m, i, j
  <2>3. (p + q) * (m - 1) = ((p * m + q * m) - p) - q /\ p * m \in Nat /\ q * m \in Nat
    BY <2>1
  <2> QED BY <2>1, <2>2, <2>3
<1>21. Fits(N, K, L)
  BY <1>2, <1>11, <1>12, <1>19
<1>22. HeapCost(N, f, L) = HeapCost(H, f, M)
  BY <1>13, <1>14, <1>20
<1> QED BY <1>21, <1>22

LEMMA MergeKeepsOpt ==
  ASSUME TypeOK, HeapInv, HeapInv', OptInv, MergeNodes
  PROVE  OptInv'
<1> DEFINE f == FindFrequency(binary)
           K == Cardinality(Values(binary))
<1>1. PICK left \in Rarest(minHeap) : \E right \in Rarest(minHeap \ {left}) :
        minHeap' = (minHeap \ {left, right})
                     \cup {[freq |-> left.freq + right.freq, tree |-> Join(left.tree, right.tree)]}
  BY DEF MergeNodes
<1>2. PICK right \in Rarest(minHeap \ {left}) :
        minHeap' = (minHeap \ {left, right})
                     \cup {[freq |-> left.freq + right.freq, tree |-> Join(left.tree, right.tree)]}
  BY <1>1
<1> DEFINE new == [freq |-> left.freq + right.freq, tree |-> Join(left.tree, right.tree)]
           R == minHeap \ {left, right}
<1>3. /\ left \in minHeap /\ right \in minHeap \ {left}
      /\ \A n \in minHeap : left.freq <= n.freq
      /\ \A n \in minHeap \ {left} : right.freq <= n.freq
  BY DEF Rarest
<1>4. new.freq = left.freq + right.freq /\ new.tree = Join(left.tree, right.tree)
  OBVIOUS
<1>5. minHeap' = R \cup {new} /\ binary' = binary /\ binary \in Seq(Bytes) /\ binary' \in Seq(Bytes)
  BY <1>2 DEF MergeNodes, TypeOK
<1> HIDE DEF new, f
<1>6. \A n \in minHeap : /\ FullTree(n.tree) /\ Injective(n.tree)
                         /\ IsFiniteSet(ValuesIn(n.tree))
                         /\ ValuesIn(n.tree) \subseteq Values(binary)
                         /\ ValuesIn(n.tree) # {}
                         /\ \A m \in minHeap : m # n => ValuesIn(n.tree) \cap ValuesIn(m.tree) = {}
  BY <1>5, HeapTrees
<1>7. Injective(new.tree)
  <2>1. \A n \in minHeap' : \A p, q \in DOMAIN n.tree : n.tree[p] = n.tree[q] => p = q
    BY DEF HeapInv
  <2>2. new \in minHeap'
    BY <1>5
  <2> QED BY <2>1, <2>2 DEF Injective
<1>8. \A v \in Values(binary) : f[v] \in Nat
  BY <1>5, FrequencyType DEF f
<1>9. \A n \in minHeap : /\ n.freq = SumOf(ValuesIn(n.tree), f) /\ n.freq \in Nat \ {0}
                         /\ TreeCost(f, n.tree) \in Nat
  <2>1. ASSUME NEW n \in minHeap PROVE TreeCost(f, n.tree) \in Nat
    <3>1. FullTree(n.tree) /\ Injective(n.tree) /\ IsFiniteSet(ValuesIn(n.tree))
      BY <1>6
    <3>2. \A v \in ValuesIn(n.tree) : f[v] \in Nat
      BY <1>6, <1>8
    <3> QED BY <3>1, <3>2, CostType
  <2>2. \A n \in minHeap : n.freq = SumOf(ValuesIn(n.tree), f)
    BY DEF OptInv, f
  <2>3. \A n \in minHeap : n.freq \in Nat \ {0}
    BY DEF HeapInv
  <2> QED BY <2>1, <2>2, <2>3
<1>10. /\ ValuesIn(new.tree) = ValuesIn(left.tree) \cup ValuesIn(right.tree)
       /\ SumOf(ValuesIn(new.tree), f) = new.freq
       /\ TreeCost(f, new.tree) = (TreeCost(f, left.tree) + left.freq)
                                    + (TreeCost(f, right.tree) + right.freq)
  <2>1. /\ FullTree(left.tree) /\ Injective(left.tree) /\ IsFiniteSet(ValuesIn(left.tree))
        /\ FullTree(right.tree) /\ Injective(right.tree) /\ IsFiniteSet(ValuesIn(right.tree))
        /\ ValuesIn(left.tree) \cap ValuesIn(right.tree) = {}
    BY <1>3, <1>6
  <2>2. \A v \in ValuesIn(left.tree) \cup ValuesIn(right.tree) : f[v] \in Nat
    BY <1>3, <1>6, <1>8
  <2>3. left.freq = SumOf(ValuesIn(left.tree), f) /\ right.freq = SumOf(ValuesIn(right.tree), f)
    BY <1>3, <1>9
  <2>4. Injective(Join(left.tree, right.tree))
    BY <1>4, <1>7
  <2> DEFINE J == Join(left.tree, right.tree)
  <2>5. /\ ValuesIn(J) = ValuesIn(left.tree) \cup ValuesIn(right.tree)
        /\ SumOf(ValuesIn(J), f) = SumOf(ValuesIn(left.tree), f) + SumOf(ValuesIn(right.tree), f)
        /\ TreeCost(f, J) = (TreeCost(f, left.tree) + SumOf(ValuesIn(left.tree), f))
                              + (TreeCost(f, right.tree) + SumOf(ValuesIn(right.tree), f))
    BY <2>1, <2>2, <2>4, JoinCost
  <2> HIDE DEF J
  <2> QED BY <1>4, <2>3, <2>5 DEF J
<1>11. new \notin minHeap
  <2> SUFFICES ASSUME new \in minHeap PROVE FALSE
    OBVIOUS
  <2>1. \A n \in {left, right} : ValuesIn(n.tree) \subseteq ValuesIn(new.tree) /\ ValuesIn(n.tree) # {}
    BY <1>3, <1>6, <1>10
  <2>2. \A n \in {left, right} : n = new
    BY <1>3, <1>6, <2>1
  <2> QED BY <1>3, <2>2
<1>12. \A n \in minHeap' : n.freq = SumOf(ValuesIn(n.tree), f)
  BY <1>5, <1>9, <1>10
<1>13. IsFiniteSet(minHeap) /\ K \in Nat
  BY <1>5, ValuesFacts, FS_CardinalityType DEF HeapInv
<1> HIDE DEF K, R
<1>14. ASSUME NEW len \in CodeLengths(binary)
       PROVE  \E L : Fits(minHeap', K, L) /\ HeapCost(minHeap', f, L) <= TotalBits(binary, len)
  <2>1. PICK L : Fits(minHeap, K, L) /\ HeapCost(minHeap, f, L) <= TotalBits(binary, len)
    BY DEF OptInv, f, K
  <2> DEFINE w == [n \in minHeap |-> n.freq]
             c == [n \in minHeap |-> TreeCost(f, n.tree)]
  <2>2. w \in [minHeap -> Nat \ {0}] /\ w[left] = left.freq /\ w[right] = right.freq
    BY <1>3, <1>9
  <2>3. (\A n \in minHeap : w[left] <= w[n]) /\ \A n \in minHeap \ {left} : w[right] <= w[n]
    BY <1>3
  <2>4. \A N : HeapCost(minHeap, f, N) = Weighted(minHeap, w, N) + SumOf(minHeap, c)
    BY DEF HeapCost
  <2>5. \A n \in minHeap : c[n] \in Nat
    BY <1>9
  <2> HIDE DEF w, c
  <2>6. PICK M : /\ Fits(minHeap, K, M) /\ Weighted(minHeap, w, M) <= Weighted(minHeap, w, L)
                 /\ M[left] = M[right] /\ M[left] \in 1..K
    BY <1>3, <1>13, <2>1, <2>2, <2>3, LightestTwo
  <2>7. PICK L1 : Fits(minHeap', K, L1) /\ HeapCost(minHeap', f, L1) = HeapCost(minHeap, f, M)
    <3>1. /\ \A n \in minHeap : n.freq \in Nat /\ TreeCost(f, n.tree) \in Nat
          /\ left \in minHeap /\ right \in minHeap /\ left # right
      BY <1>3, <1>9
    <3>2. Merged(minHeap, f, left, right, new)
      BY <1>4, <1>10, <1>11, <1>13, <3>1 DEF Merged
    <3>3. minHeap' = (minHeap \ {left, right}) \cup {new}
      BY <1>5 DEF R
    <3> DEFINE N == minHeap'
    <3> HIDE DEF N
    <3>4. N = (minHeap \ {left, right}) \cup {new}
      BY <3>3 DEF N
    <3>5. \E L1 : Fits(N, K, L1) /\ HeapCost(N, f, L1) = HeapCost(minHeap, f, M)
      BY <1>13, <2>6, <3>2, <3>4, MergedLengths
    <3> QED BY <3>5 DEF N
  <2>8. HeapCost(minHeap, f, M) <= HeapCost(minHeap, f, L)
    <3>1. L \in [minHeap -> 0..K] /\ M \in [minHeap -> 0..K] /\ w \in [minHeap -> Nat]
      BY <2>1, <2>2, <2>6 DEF Fits
    <3>2. Weighted(minHeap, w, L) \in Nat /\ Weighted(minHeap, w, M) \in Nat
      BY <1>13, <3>1, FitsType
    <3>3. SumOf(minHeap, c) \in Nat
      BY <1>13, <2>5, SumType
    <3> QED BY <2>4, <2>6, <3>2, <3>3
  <2>9. HeapCost(minHeap, f, M) \in Nat /\ HeapCost(minHeap, f, L) \in Nat /\ TotalBits(binary, len) \in Nat
    <3>1. L \in [minHeap -> 0..K] /\ M \in [minHeap -> 0..K] /\ w \in [minHeap -> Nat]
      BY <2>1, <2>2, <2>6 DEF Fits
    <3>2. Weighted(minHeap, w, L) \in Nat /\ Weighted(minHeap, w, M) \in Nat
      BY <1>13, <3>1, FitsType
    <3>3. SumOf(minHeap, c) \in Nat
      BY <1>13, <2>5, SumType
    <3>4. TotalBits(binary, len) \in Nat
      <4> DEFINE V == Values(binary)
                 g == [v \in V |-> FindFrequency(binary)[v] * len[v]]
      <4>1. IsFiniteSet(V) /\ \A v \in V : g[v] \in Nat
        BY <1>5, LengthFacts
      <4>2. TotalBits(binary, len) = SumOf(V, g)
        BY <1>5, LengthFacts
      <4> HIDE DEF V, g
      <4> QED BY <4>1, <4>2, SumType
    <3> QED BY <2>4, <3>2, <3>3, <3>4
  <2>10. HeapCost(minHeap', f, L1) <= TotalBits(binary, len)
    BY <2>1, <2>7, <2>8, <2>9
  <2> QED BY <2>7, <2>10
<1>15. FindFrequency(binary') = f /\ CodeLengths(binary') = CodeLengths(binary) /\ Values(binary') = Values(binary)
  BY <1>5 DEF f
<1> QED BY <1>5, <1>12, <1>14, <1>15 DEF OptInv, K

LEMMA OthersKeepOpt ==
  ASSUME OptInv, UNCHANGED <<binary, minHeap>>
  PROVE  OptInv'
BY DEF OptInv, Fits

LEMMA OptimalTree ==
  ASSUME Inv, OptInv, pc = "buildTreeFromMap", Cardinality(minHeap) = 1, NEW len \in CodeLengths(binary)
  PROVE  TotalBits(binary, [v \in Values(binary) |-> Len(Encodings(Root.tree)[v])])
           <= TotalBits(binary, len)
<1> DEFINE V == Values(binary)
           f == FindFrequency(binary)
           K == Cardinality(V)
           t == Root.tree
           ours == [v \in V |-> Len(Encodings(t)[v])]
           g == [v \in V |-> f[v] * ours[v]]
           w == [n \in minHeap |-> n.freq]
           c == [n \in minHeap |-> TreeCost(f, n.tree)]
<1>1. binary \in Seq(Bytes) /\ HeapInv
  BY DEF Inv, TypeOK
<1>2. minHeap = {Root} /\ Root \in minHeap
  BY <1>1, OneTree
<1>3. FullTree(t) /\ Injective(t) /\ ValuesIn(t) = V
  <2>1. FullTree(t) /\ Injective(t)
    BY <1>1, OneTree DEF TheTree
  <2>2. /\ \A v \in V : \E p \in DOMAIN t : t[p] = v
        /\ \A p \in DOMAIN t : t[p] \in V
    BY <1>1, OneTree DEF TheTree
  <2> QED BY <2>1, <2>2 DEF ValuesIn
<1>4. IsFiniteSet(V) /\ K \in Nat /\ \A v \in V : f[v] \in Nat
  BY <1>1, ValuesFacts, FS_CardinalityType, FrequencyType
<1>5. PICK L : Fits(minHeap, K, L) /\ HeapCost(minHeap, f, L) <= TotalBits(binary, len)
  BY DEF OptInv
<1>6. HeapCost(minHeap, f, L) = Weighted(minHeap, w, L) + SumOf(minHeap, c)
  BY DEF HeapCost
<1>7. TotalBits(binary, ours) = Total(g)
  BY DEF TotalBits, Total
<1>8. \A v \in V : f[v] * Len(Encodings(t)[v]) \in Nat
  BY <1>3, <1>4, CostType
<1>9. g = [v \in ValuesIn(t) |-> f[v] * Len(Encodings(t)[v])]
  <2>1. \A v \in V : g[v] = f[v] * Len(Encodings(t)[v])
    OBVIOUS
  <2> QED BY <1>3
<1>10. DOMAIN g = V /\ \A v \in V : g[v] \in Nat
  BY <1>8
<1> HIDE DEF V, f, K, t, ours, g, c
<1>11. Total(g) = SumOf(V, g)
  BY <1>4, <1>10, TotalIsSum
<1>12. TreeCost(f, t) = SumOf(V, g)
  BY <1>3, <1>9 DEF TreeCost
<1>13. TreeCost(f, t) \in Nat
  BY <1>4, <1>10, <1>12, SumType
<1>14. SumOf(minHeap, c) = TreeCost(f, t)
  <2>1. c[Root] = TreeCost(f, t)
    BY <1>2 DEF c, t
  <2>2. IsFiniteSet({Root}) /\ {Root} \ {Root} = {}
    BY FS_Singleton
  <2>3. \A n \in {Root} : c[n] \in Nat
    BY <1>13, <2>1
  <2>4. SumOf({Root}, c) = c[Root] + SumOf({Root} \ {Root}, c)
    BY <2>2, <2>3, SumSplit
  <2> QED BY <1>2, <1>13, <2>1, <2>2, <2>4, SumEmpty
<1>15. Weighted(minHeap, w, L) \in Nat
  <2>1. L \in [minHeap -> 0..K] /\ w \in [minHeap -> Nat] /\ IsFiniteSet(minHeap)
    BY <1>1, <1>5 DEF Fits, HeapInv
  <2> HIDE DEF w
  <2> QED BY <1>4, <2>1, FitsType
<1>16. TotalBits(binary, len) \in Nat
  <2> DEFINE e == [v \in V |-> f[v] * len[v]]
  <2>1. (\A v \in V : e[v] \in Nat) /\ TotalBits(binary, len) = SumOf(V, e)
    BY <1>1, LengthFacts DEF V, f
  <2> HIDE DEF e
  <2> QED BY <1>4, <2>1, SumType
<1>17. TotalBits(binary, ours) <= TotalBits(binary, len)
  BY <1>5, <1>6, <1>7, <1>11, <1>12, <1>13, <1>14, <1>15, <1>16
<1> QED BY <1>17 DEF V, ours, t

LEMMA NextKeepsOpt == Inv /\ Inv' /\ OptInv /\ [Next]_vars => OptInv'
<1> SUFFICES ASSUME Inv, Inv', OptInv, [Next]_vars PROVE OptInv'
  OBVIOUS
<1>1. CASE MergeNodes
  BY <1>1, MergeKeepsOpt DEF Inv
<1>2. CASE UNCHANGED <<binary, minHeap>>
  BY <1>2, OthersKeepOpt
<1>3. MergeNodes \/ UNCHANGED <<binary, minHeap>>
  BY DEF Next, vars, NoRoot, WriteFile, WriteCutFile, WriteCutHeader, ReadInner, ReadLeaf,
         ReadCutLeaf, ReadNothing, DecodeBit, WriteOutput
<1> QED BY <1>1, <1>2, <1>3

\* While the tree is built, no lengths of codes for which there is a tree make
\* the file smaller than some tree that is still to come does: in it the trees
\* in the queue hang at depths that fit.
THEOREM HuffmanInvariant == Spec => []OptInv
<1> QED BY InitOpt, NextKeepsOpt, CodecInvariant, PTL DEF Spec

\* Whichever nodes of one frequency are merged, and for any file, the tree
\* that buildTreeFromMap makes gives the shortest code that a tree can.
THEOREM AlwaysTreeOptimal == Spec => []TreeOptimal
<1>1. Inv /\ OptInv => TreeOptimal
  <2> SUFFICES ASSUME Inv, OptInv, pc = "buildTreeFromMap", Cardinality(minHeap) = 1,
                      NEW len \in CodeLengths(binary)
               PROVE  TotalBits(binary, [v \in Values(binary) |-> Len(Encodings(Root.tree)[v])])
                        <= TotalBits(binary, len)
    BY Zenon DEF TreeOptimal
  <2> QED BY OptimalTree
<1> QED BY <1>1, CodecInvariant, HuffmanInvariant, PTL
=============================================================================
