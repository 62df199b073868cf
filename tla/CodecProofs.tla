------------------------------ MODULE CodecProofs ------------------------------
(***************************************************************************)
(* The codec of the two ends of the serial line, for data of every length, *)
(* every content and every Full: what is encoded decodes to itself, holds  *)
(* no delimiter and fits in the room it is given; so do packets.           *)
(*                                                                         *)
(* The encoder folds over the data and the decoder is a recursive function *)
(* over the frame: both are unfolded a step at a time, by induction over   *)
(* lengths.  What the encoder keeps while it folds: the closed blocks      *)
(* decode to a prefix of the data whatever follows them (Prefix), the open *)
(* block holds the rest (Pending), and the room taken is one byte a full   *)
(* block (Sized).                                                          *)
(***************************************************************************)
EXTENDS Packet, MCCobs, SequenceTheorems, WellFoundedInduction, TLAPS

(* Induction over the naturals, from a least counterexample.                  *)
LEMMA Induction ==
  ASSUME NEW S, 0 \in S, \A n \in Nat : n \in S => n + 1 \in S
  PROVE  Nat \subseteq S
<1> DEFINE R == {p \in Nat \X Nat : p[1] < p[2]}
           T == Nat \ S
<1>1. IsWellFoundedOn(R, Nat)
  <2>1. R = OpToRel(<, Nat)
    BY DEF OpToRel
  <2> QED
    BY <2>1, NatLessThanWellFounded, Zenon
<1>2. \A y, n \in Nat : y < n => <<y, n>> \in R
  OBVIOUS
<1> HIDE DEF R
<1>3. SUFFICES ASSUME T # {}
               PROVE  FALSE
  OBVIOUS
<1>4. PICK n \in T : \A y \in T : ~(<<y, n>> \in R)
  <2>1. T \subseteq Nat
    OBVIOUS
  <2> HIDE DEF T
  <2> QED
    BY <1>1, <1>3, <2>1, WFMin
<1>5. n \in Nat \ {0}
  OBVIOUS
<1>6. n - 1 \in Nat /\ n - 1 < n /\ (n - 1) + 1 = n
  BY <1>5
<1>7. n - 1 \in S
  BY <1>2, <1>4, <1>5, <1>6
<1> QED
  BY <1>6, <1>7

-------------------------------------------------------------------------------
(* The encoder's state before any data.                                       *)
Start == [out |-> <<0>>, code_index |-> 1, code |-> 1]

(* And after d.                                                               *)
Encoded(d) == FoldLeft(EncodeByte, Start, d)

(* The folding of d: what the fold makes of the bytes at some places of d.    *)
Folds(g, d) ==
  g = [s \in SUBSET (DOMAIN d) |->
         IF s = {} THEN Start ELSE EncodeByte(g[s \ {Max(s)}], d[Max(s)])]

LEMMA FoldIsFold ==
  ASSUME NEW d
  PROVE  Encoded(d) = (CHOOSE g : Folds(g, d))[DOMAIN d]
BY DEF Encoded, FoldLeft, MapThenFoldSet, Folds

(* A finite set of numbers has its maximum.                                   *)
LEMMA MaxOf ==
  ASSUME NEW n \in Nat, NEW s \in SUBSET (1 .. n), s # {}
  PROVE  Max(s) \in s /\ \A y \in s : y <= Max(s)
<1> DEFINE HasMax(k) == \A t \in SUBSET (1 .. k) : t # {} => \E x \in t : \A y \in t : x >= y
           S == {k \in Nat : HasMax(k)}
<1>1. HasMax(0)
  <2>1. 1 .. 0 = {}
    OBVIOUS
  <2> QED
    BY <2>1
<1>2. ASSUME NEW k \in Nat, HasMax(k)
      PROVE  HasMax(k + 1)
  <2> SUFFICES ASSUME NEW t \in SUBSET (1 .. k + 1), t # {}
               PROVE  \E x \in t : \A y \in t : x >= y
    OBVIOUS
  <2>1. CASE k + 1 \in t
    BY <2>1
  <2>2. CASE k + 1 \notin t
    <3>1. t \in SUBSET (1 .. k)
      BY <2>2
    <3> QED
      BY <1>2, <3>1
  <2> QED
    BY <2>1, <2>2
<1>3. Nat \subseteq S
  <2>1. 0 \in S
    BY <1>1
  <2>2. \A k \in Nat : k \in S => k + 1 \in S
    BY <1>2
  <2> HIDE DEF S
  <2> QED
    BY <2>1, <2>2, Induction
<1>4. \E x \in s : \A y \in s : x >= y
  BY <1>3
<1>5. Max(s) \in s /\ \A y \in s : Max(s) >= y
  BY <1>4 DEF Max
<1> QED
  BY <1>5

(* g folds d over the sets of its first n places.                             *)
FoldsTo(g, d, n) ==
  g = [s \in SUBSET (1 .. n) |->
         IF s = {} THEN Start ELSE EncodeByte(g[s \ {Max(s)}], d[Max(s)])]

LEMMA FoldExists ==
  ASSUME NEW d, NEW n \in Nat
  PROVE  \E g : FoldsTo(g, d, n)
<1> DEFINE S == {k \in Nat : \E g : FoldsTo(g, d, k)}
<1>1. 0 \in S
  <2> DEFINE g == [s \in SUBSET (1 .. 0) |-> Start]
  <2>1. \A s \in SUBSET (1 .. 0) : s = {}
    OBVIOUS
  <2>2. FoldsTo(g, d, 0)
    BY <2>1 DEF FoldsTo
  <2> QED
    BY <2>2
<1>2. ASSUME NEW k \in Nat, k \in S
      PROVE  k + 1 \in S
  <2>1. PICK f : FoldsTo(f, d, k)
    BY <1>2
  <2> DEFINE g == [s \in SUBSET (1 .. k + 1) |->
                     IF k + 1 \in s THEN EncodeByte(f[s \ {k + 1}], d[k + 1]) ELSE f[s]]
  <2>2. ASSUME NEW s \in SUBSET (1 .. k + 1)
        PROVE  g[s] = IF s = {} THEN Start ELSE EncodeByte(g[s \ {Max(s)}], d[Max(s)])
    <3>1. CASE k + 1 \in s
      <4>1. Max(s) = k + 1
        <5>1. k + 1 \in Nat
          OBVIOUS
        <5>2. Max(s) \in s /\ \A y \in s : y <= Max(s)
          BY <3>1, <5>1, MaxOf
        <5>3. Max(s) \in 1 .. k + 1 /\ k + 1 <= Max(s)
          BY <3>1, <5>2
        <5> HIDE DEF g
        <5> QED
          BY <5>3
      <4>2. s \ {k + 1} \in SUBSET (1 .. k + 1) /\ k + 1 \notin s \ {k + 1}
        OBVIOUS
      <4>3. g[s \ {k + 1}] = f[s \ {k + 1}]
        BY <4>2
      <4>4. g[s] = EncodeByte(f[s \ {k + 1}], d[k + 1])
        BY <3>1
      <4> HIDE DEF g
      <4> QED
        BY <3>1, <4>1, <4>3, <4>4
    <3>2. CASE k + 1 \notin s
      <4>1. s \in SUBSET (1 .. k) /\ s \ {Max(s)} \in SUBSET (1 .. k)
        <5>1. s \subseteq 1 .. k
          BY <3>2
        <5> HIDE DEF g
        <5> QED
          BY <5>1
      <4>2. g[s] = f[s] /\ g[s \ {Max(s)}] = f[s \ {Max(s)}]
        BY <3>2, <4>1
      <4>3. f[s] = IF s = {} THEN Start ELSE EncodeByte(f[s \ {Max(s)}], d[Max(s)])
        BY <2>1, <4>1 DEF FoldsTo
      <4> QED
        BY <4>2, <4>3
    <3> QED
      BY <3>1, <3>2
  <2>3. FoldsTo(g, d, k + 1)
    BY <2>2 DEF FoldsTo
  <2> QED
    BY <2>3
<1>3. Nat \subseteq S
  <2> HIDE DEF S
  <2> QED
    BY <1>1, <1>2, Induction
<1> QED
  BY <1>3

(* One step of it.                                                            *)
LEMMA FoldStep ==
  ASSUME NEW g, NEW d, NEW n \in Nat, FoldsTo(g, d, n), NEW k \in 1 .. n
  PROVE  g[1 .. k] = EncodeByte(g[1 .. k - 1], d[k])
<1> DEFINE s == 1 .. k
<1>1. s \in SUBSET (1 .. n) /\ s # {} /\ k \in s
  OBVIOUS
<1>2. Max(s) \in s /\ \A y \in s : y <= Max(s)
  BY <1>1, MaxOf
<1>3. Max(s) = k /\ s \ {k} = 1 .. k - 1
  BY <1>1, <1>2
<1>4. g[s] = EncodeByte(g[s \ {Max(s)}], d[Max(s)])
  BY <1>1 DEF FoldsTo
<1> HIDE DEF s
<1>5. g[s] = EncodeByte(g[1 .. k - 1], d[k])
  BY <1>3, <1>4, Zenon
<1> QED
  BY <1>5 DEF s

(* What is folded depends on those places only.                               *)
LEMMA FoldUnique ==
  ASSUME NEW d, NEW e, NEW f, NEW g, NEW m \in Nat,
         FoldsTo(f, d, m), FoldsTo(g, e, m + 1), \A i \in 1 .. m : d[i] = e[i]
  PROVE  f[1 .. m] = g[1 .. m]
<1> DEFINE S == {k \in Nat : k <= m => f[1 .. k] = g[1 .. k]}
<1>1. 0 \in S
  <2>1. 1 .. 0 = {} /\ 1 .. 0 \in SUBSET (1 .. m) /\ 1 .. 0 \in SUBSET (1 .. m + 1)
    OBVIOUS
  <2>2. f[1 .. 0] = Start /\ g[1 .. 0] = Start
    BY <2>1 DEF FoldsTo
  <2> QED
    BY <2>2
<1>2. ASSUME NEW k \in Nat, k \in S, k + 1 <= m
      PROVE  f[1 .. k + 1] = g[1 .. k + 1]
  <2>1. /\ k + 1 \in 1 .. m /\ k + 1 \in 1 .. m + 1 /\ m + 1 \in Nat /\ k + 1 - 1 = k
    BY <1>2
  <2>2. f[1 .. k + 1] = EncodeByte(f[1 .. k + 1 - 1], d[k + 1])
    BY <2>1, FoldStep
  <2>3. g[1 .. k + 1] = EncodeByte(g[1 .. k + 1 - 1], e[k + 1])
    BY <2>1, FoldStep
  <2>4. f[1 .. k] = g[1 .. k] /\ d[k + 1] = e[k + 1]
    BY <1>2
  <2> QED
    BY <2>1, <2>2, <2>3, <2>4
<1>3. Nat \subseteq S
  <2>1. \A k \in Nat : k \in S => k + 1 \in S
    BY <1>2
  <2> HIDE DEF S
  <2> QED
    BY <1>1, <2>1, Induction
<1> QED
  BY <1>3

LEMMA EncodedEmpty == Encoded(<<>>) = Start
<1> DEFINE g == CHOOSE h : Folds(h, <<>>)
<1>1. DOMAIN <<>> = 1 .. 0 /\ 1 .. 0 = {}
  OBVIOUS
<1>2. \E h : FoldsTo(h, <<>>, 0)
  BY FoldExists
<1>3. \A h : Folds(h, <<>>) <=> FoldsTo(h, <<>>, 0)
  BY <1>1 DEF Folds, FoldsTo
<1>4. FoldsTo(g, <<>>, 0)
  BY <1>2, <1>3
<1>5. g[{}] = Start
  BY <1>1, <1>4 DEF FoldsTo
<1> QED
  BY <1>1, <1>5, FoldIsFold

LEMMA FoldOf ==
  ASSUME NEW d \in Seq(Byte)
  PROVE  \E g : FoldsTo(g, d, Len(d)) /\ Encoded(d) = g[1 .. Len(d)]
<1> DEFINE g == CHOOSE h : Folds(h, d)
<1>1. DOMAIN d = 1 .. Len(d) /\ Len(d) \in Nat
  OBVIOUS
<1>2. \E h : FoldsTo(h, d, Len(d))
  BY <1>1, FoldExists
<1>3. \A h : Folds(h, d) <=> FoldsTo(h, d, Len(d))
  BY <1>1 DEF Folds, FoldsTo
<1>4. FoldsTo(g, d, Len(d))
  BY <1>2, <1>3
<1>5. Encoded(d) = g[1 .. Len(d)]
  BY <1>1, FoldIsFold
<1> HIDE DEF g
<1> QED
  BY <1>4, <1>5

(* The fold, a byte at a time.                                                *)
LEMMA EncodedAppend ==
  ASSUME NEW d \in Seq(Byte), NEW b \in Byte
  PROVE  Encoded(Append(d, b)) = EncodeByte(Encoded(d), b)
<1> DEFINE n == Len(d)
           e == Append(d, b)
<1>1. n \in Nat /\ e \in Seq(Byte) /\ Len(e) = n + 1 /\ e[n + 1] = b /\ \A i \in 1 .. n : d[i] = e[i]
  OBVIOUS
<1>2. PICK f : FoldsTo(f, d, n) /\ Encoded(d) = f[1 .. n]
  BY FoldOf
<1>3. PICK g : FoldsTo(g, e, n + 1) /\ Encoded(e) = g[1 .. n + 1]
  <2> HIDE DEF e, n
  <2> QED
    BY <1>1, FoldOf
<1> HIDE DEF e, n
<1>4. f[1 .. n] = g[1 .. n]
  <2>1. \A i \in 1 .. n : d[i] = e[i]
    BY <1>1
  <2>2. FoldsTo(f, d, n) /\ FoldsTo(g, e, n + 1) /\ n \in Nat
    BY <1>1, <1>2, <1>3
  <2> QED
    BY <2>1, <2>2, FoldUnique
<1>5. n + 1 \in 1 .. n + 1 /\ n + 1 \in Nat /\ n + 1 - 1 = n
  BY <1>1
<1>6. g[1 .. n + 1] = EncodeByte(g[1 .. n + 1 - 1], e[n + 1])
  BY <1>1, <1>3, <1>5, FoldStep
<1> QED
  BY <1>1, <1>2, <1>3, <1>4, <1>5, <1>6 DEF e

(* What holds of the empty string and is kept by another byte holds of all.   *)
LEMMA ByteStrings ==
  ASSUME NEW S, <<>> \in S, \A d \in Seq(Byte), b \in Byte : d \in S => Append(d, b) \in S
  PROVE  Seq(Byte) \subseteq S
<1> DEFINE N == {n \in Nat : \A d \in Seq(Byte) : Len(d) = n => d \in S}
<1>1. 0 \in N
  <2>1. \A d \in Seq(Byte) : Len(d) = 0 => d = <<>>
    OBVIOUS
  <2> QED
    BY <2>1
<1>2. ASSUME NEW n \in Nat, n \in N
      PROVE  n + 1 \in N
  <2> SUFFICES ASSUME NEW d \in Seq(Byte), Len(d) = n + 1
               PROVE  d \in S
    OBVIOUS
  <2> DEFINE c == SubSeq(d, 1, n)
             b == d[n + 1]
  <2>1. c \in Seq(Byte) /\ Len(c) = n /\ b \in Byte /\ d = Append(c, b)
    OBVIOUS
  <2>2. c \in S
    BY <1>2, <2>1
  <2> HIDE DEF c, b
  <2> QED
    BY <2>1, <2>2
<1>3. Nat \subseteq N
  <2> HIDE DEF N
  <2> QED
    BY <1>1, <1>2, Induction
<1> QED
  BY <1>3
-------------------------------------------------------------------------------
(* The decoder's recursion: the data from the i-th byte on, given blocks.     *)
Block(blocks, f, i) ==
  LET next == i + f[i] IN
  IF i > Len(f) THEN Decoded(<<>>)
  ELSE IF f[i] = 0 \/ next > Len(f) + 1 \/ ~blocks[next].ok THEN Malformed
  ELSE Decoded(SubSeq(f, i + 1, next - 1) \o BlockEnd(f[i], next > Len(f)) \o blocks[next].data)

BlocksOf(f) == CHOOSE blocks : blocks = [i \in 1 .. Len(f) + 1 |-> Block(blocks, f, i)]

(* What is decoded is the recursion's value at the first byte.                *)
LEMMA DecodeIsBlocks ==
  ASSUME NEW f
  PROVE  DecodeCobs(f) = BlocksOf(f)[1]
BY DEF DecodeCobs, BlocksOf, Block

(* blocks is right from the k-th byte on.                                     *)
RightFrom(blocks, f, k) ==
  /\ blocks = [i \in 1 .. Len(f) + 1 |-> blocks[i]]
  /\ \A i \in k .. Len(f) + 1 : blocks[i] = Block(blocks, f, i)

(* Right from the k-th byte on, right from the one before.                    *)
LEMMA OneMoreRight ==
  ASSUME NEW f \in Seq(Byte), NEW k \in 1 .. Len(f) + 1, NEW b, RightFrom(b, f, k + 1)
  PROVE  \E c : RightFrom(c, f, k)
<1> DEFINE c == [i \in 1 .. Len(f) + 1 |-> IF i = k THEN Block(b, f, k) ELSE b[i]]
<1>0. Len(f) \in Nat
  OBVIOUS
<1>1. \A i \in 1 .. Len(f) + 1 : i # k => c[i] = b[i]
  OBVIOUS
<1>2. c[k] = Block(b, f, k)
  OBVIOUS
<1>3. c = [i \in 1 .. Len(f) + 1 |-> c[i]]
  OBVIOUS
<1> HIDE DEF c
<1>4. ASSUME NEW i \in k .. Len(f) + 1
      PROVE  Block(c, f, i) = Block(b, f, i)
  <2>1. CASE i > Len(f)
    BY <2>1 DEF Block
  <2>2. CASE i <= Len(f) /\ (f[i] = 0 \/ i + f[i] > Len(f) + 1)
    BY <1>0, <2>2 DEF Block
  <2>3. CASE i <= Len(f) /\ ~(f[i] = 0 \/ i + f[i] > Len(f) + 1)
    <3>1. f[i] \in Nat \ {0}
      BY <1>0, <2>3, FullAssumption DEF Byte
    <3>2. i + f[i] \in 1 .. Len(f) + 1 /\ i + f[i] # k
      BY <1>0, <2>3, <3>1
    <3>3. c[i + f[i]] = b[i + f[i]]
      BY <1>1, <3>2
    <3> QED
      BY <3>3 DEF Block
  <2> QED
    BY <1>0, <2>1, <2>2, <2>3
<1>5. ASSUME NEW i \in k .. Len(f) + 1
      PROVE  c[i] = Block(c, f, i)
  <2>1. CASE i = k
    BY <1>2, <1>4, <2>1
  <2>2. CASE i # k
    <3>1. i \in k + 1 .. Len(f) + 1 /\ i \in 1 .. Len(f) + 1
      BY <1>0, <2>2
    <3> QED
      BY <1>1, <1>4, <2>2, <3>1 DEF RightFrom
  <2> QED
    BY <2>1, <2>2
<1> QED
  BY <1>3, <1>5 DEF RightFrom

(* So the decoder's recursion has its function.                               *)
LEMMA BlocksRight ==
  ASSUME NEW f \in Seq(Byte), NEW i \in 1 .. Len(f) + 1
  PROVE  BlocksOf(f)[i] = Block(BlocksOf(f), f, i)
<1> DEFINE n == Len(f) + 1
           S == {m \in Nat : m <= n => \E b : RightFrom(b, f, n + 1 - m)}
<1>0. Len(f) \in Nat /\ n \in Nat
  OBVIOUS
<1>1. 0 \in S
  <2> DEFINE b == [j \in 1 .. n |-> 0]
  <2>1. b = [j \in 1 .. n |-> b[j]]
    OBVIOUS
  <2> HIDE DEF b
  <2>2. RightFrom(b, f, n + 1)
    BY <1>0, <2>1 DEF RightFrom
  <2> QED
    BY <1>0, <2>2
<1>2. ASSUME NEW m \in Nat, m \in S
      PROVE  m + 1 \in S
  <2> SUFFICES ASSUME m + 1 <= n
               PROVE  \E b : RightFrom(b, f, n + 1 - (m + 1))
    OBVIOUS
  <2>1. PICK b : RightFrom(b, f, n + 1 - m)
    BY <1>0, <1>2
  <2> DEFINE k == n + 1 - (m + 1)
  <2>2. k \in 1 .. Len(f) + 1 /\ k + 1 = n + 1 - m
    BY <1>0
  <2> HIDE DEF k
  <2>3. \E c : RightFrom(c, f, k)
    BY <2>1, <2>2, OneMoreRight
  <2> QED
    BY <2>3 DEF k
<1>3. Nat \subseteq S
  <2> HIDE DEF S
  <2> QED
    BY <1>1, <1>2, Induction
<1>4. PICK b : RightFrom(b, f, 1)
  <2>1. n \in S /\ n + 1 - n = 1
    BY <1>0, <1>3
  <2> QED
    BY <1>0, <2>1
<1>5. b = [j \in 1 .. Len(f) + 1 |-> Block(b, f, j)]
  BY <1>4 DEF RightFrom
<1>6. BlocksOf(f) = [j \in 1 .. Len(f) + 1 |-> Block(BlocksOf(f), f, j)]
  BY <1>5 DEF BlocksOf
<1> QED
  BY <1>6

(* The last block, and one that is followed by another.                       *)
LEMMA LastBlock ==
  ASSUME NEW f \in Seq(Byte), NEW i \in 1 .. Len(f), f[i] # 0, i + f[i] = Len(f) + 1
  PROVE  BlocksOf(f)[i] = Decoded(SubSeq(f, i + 1, Len(f)))
<1> DEFINE b == BlocksOf(f)
           n == Len(f)
<1>1. n \in Nat /\ n + 1 \in 1 .. n + 1 /\ i \in 1 .. n + 1 /\ (n + 1) - 1 = n /\ ~(i > n) /\ n + 1 > n
  OBVIOUS
<1>2. b[n + 1] = Block(b, f, n + 1) /\ b[i] = Block(b, f, i)
  BY <1>1, BlocksRight
<1>3. SubSeq(f, i + 1, n) \o <<>> \o <<>> = SubSeq(f, i + 1, n)
  OBVIOUS
<1> HIDE DEF b, n
<1>4. b[n + 1] = Decoded(<<>>)
  BY <1>1, <1>2 DEF Block, n
<1>5. b[n + 1].ok /\ b[n + 1].data = <<>>
  BY <1>4 DEF Decoded
<1>6. BlockEnd(f[i], i + f[i] > Len(f)) = <<>>
  BY <1>1 DEF BlockEnd, n
<1>7. i + f[i] = n + 1 /\ ~(i + f[i] > Len(f) + 1) /\ i + f[i] - 1 = n
  <2>1. f[i] \in Nat /\ i \in Nat /\ Len(f) \in Nat
    BY FullAssumption DEF Byte
  <2> QED
    BY <2>1 DEF n
<1>8. Block(b, f, i) = Decoded(SubSeq(f, i + 1, i + f[i] - 1)
                                \o BlockEnd(f[i], i + f[i] > Len(f)) \o b[i + f[i]].data)
  BY <1>1, <1>5, <1>7 DEF Block, n
<1> QED
  BY <1>2, <1>3, <1>5, <1>6, <1>7, <1>8 DEF b, n

(* A block before the last, and what follows it.                              *)
LEMMA NextBlock ==
  ASSUME NEW f \in Seq(Byte), NEW i \in 1 .. Len(f), f[i] # 0, i + f[i] <= Len(f),
         NEW rest, BlocksOf(f)[i + f[i]] = Decoded(rest)
  PROVE  BlocksOf(f)[i] = Decoded(SubSeq(f, i + 1, (i + f[i]) - 1) \o BlockEnd(f[i], FALSE) \o rest)
<1> DEFINE n == i + f[i]
           b == BlocksOf(f)
           head == SubSeq(f, i + 1, n - 1)
<1>1. Len(f) \in Nat /\ f[i] \in Nat /\ i \in 1 .. Len(f) + 1
  BY FullAssumption DEF Byte
<1>2. ~(i > Len(f)) /\ ~(n > Len(f)) /\ ~(n > Len(f) + 1)
  BY <1>1
<1>3. b[i] = Block(b, f, i)
  BY <1>1, BlocksRight
<1>4. b[n].ok /\ b[n].data = rest
  BY DEF Decoded
<1>5. Block(b, f, i) = Decoded(head \o BlockEnd(f[i], n > Len(f)) \o b[n].data)
  <2> HIDE DEF b
  <2> QED
    BY <1>2, <1>4 DEF Block
<1>6. BlockEnd(f[i], n > Len(f)) = BlockEnd(f[i], FALSE)
  BY <1>2 DEF BlockEnd
<1> HIDE DEF n, b, head
<1>7. b[i] = Decoded(head \o BlockEnd(f[i], FALSE) \o rest)
  BY <1>3, <1>4, <1>5, <1>6
<1> QED
  BY <1>7 DEF n, b, head
-------------------------------------------------------------------------------
(* Sequences of bytes.                                                        *)
LEMMA SubSeqAppend ==
  ASSUME NEW S, NEW s \in Seq(S), NEW e \in S, NEW k \in 1 .. Len(s)
  PROVE  SubSeq(Append(s, e), k + 1, Len(s) + 1) = Append(SubSeq(s, k + 1, Len(s)), e)
<1> DEFINE n == Len(s)
           t == Append(s, e)
           u == SubSeq(s, k + 1, n)
<1>1. n \in Nat /\ t \in Seq(S) /\ Len(t) = n + 1 /\ t[n + 1] = e /\ \A i \in 1 .. n : t[i] = s[i]
  OBVIOUS
<1>2. u \in Seq(S) /\ Len(u) = n - k /\ \A i \in 1 .. n - k : u[i] = s[k + i]
  BY <1>1
<1>3. /\ Append(u, e) \in Seq(S) /\ Len(Append(u, e)) = n - k + 1 /\ Append(u, e)[n - k + 1] = e
      /\ \A i \in 1 .. n - k : Append(u, e)[i] = u[i]
  <2> HIDE DEF u, n
  <2>1. n - k \in Nat
    BY <1>1 DEF n
  <2> QED
    BY <1>2, <2>1
<1> HIDE DEF t, u
<1>4. /\ SubSeq(t, k + 1, n + 1) \in Seq(S) /\ Len(SubSeq(t, k + 1, n + 1)) = n - k + 1
      /\ \A i \in 1 .. n - k + 1 : SubSeq(t, k + 1, n + 1)[i] = t[k + i]
  BY <1>1
<1>5. \A i \in 1 .. n - k + 1 : SubSeq(t, k + 1, n + 1)[i] = Append(u, e)[i]
  <2> TAKE i \in 1 .. n - k + 1
  <2>1. CASE i = n - k + 1
    BY <1>1, <1>3, <1>4, <2>1
  <2>2. CASE i # n - k + 1
    <3>1. i \in 1 .. n - k /\ k + i \in 1 .. n
      BY <1>1, <2>2
    <3> QED
      BY <1>1, <1>2, <1>3, <1>4, <3>1
  <2> QED
    BY <2>1, <2>2
<1>6. SubSeq(t, k + 1, n + 1) = Append(u, e)
  BY <1>3, <1>4, <1>5, SeqEqual
<1> QED
  BY <1>6 DEF t, u

LEMMA Associative == \A p, q, e \in Seq(Byte) : p \o (q \o e) = (p \o q) \o e
OBVIOUS

(* Concatenations regrouped.                                                  *)
LEMMA Regroup ==
  ASSUME NEW q \in Seq(Byte), NEW e \in Seq(Byte)
  PROVE  \A p, r \in Seq(Byte) : p \o ((q \o e) \o r) = ((p \o q) \o e) \o r
<1> DEFINE u == q \o e
<1>1. u \in Seq(Byte)
  OBVIOUS
<1>2. \A p \in Seq(Byte) : p \o u = (p \o q) \o e
  BY Associative
<1> HIDE DEF u
<1>3. \A p, r \in Seq(Byte) : p \o (u \o r) = (p \o u) \o r
  BY <1>1, Associative
<1> QED
  BY <1>2, <1>3 DEF u

LEMMA ConcatAppend ==
  ASSUME NEW S, NEW s \in Seq(S), NEW t \in Seq(S), NEW e \in S
  PROVE  Append(s \o t, e) = s \o Append(t, e)
<1>1. Append(s \o t, e) = (s \o t) \o <<e>> /\ Append(t, e) = t \o <<e>> /\ <<e>> \in Seq(S)
  BY AppendIsConcat, ConcatProperties
<1> QED
  BY <1>1, ConcatAssociative

-------------------------------------------------------------------------------
(* The encoder's state: code_index is where the open block begins, all that   *)
(* follows is its data, and no byte but the one left for its code is zero.    *)
States == [out : Seq(Byte), code_index : Nat, code : Nat]

Open(s) ==
  /\ s \in States
  /\ s.code_index \in 1 .. Len(s.out) /\ s.code \in 1 .. Full
  /\ s.code_index + s.code = Len(s.out) + 1
  /\ \A i \in 1 .. Len(s.out) : i # s.code_index => s.out[i] # 0

Added(s, b) == [s EXCEPT !.out = Append(@, b), !.code = @ + 1]
Closed(s)   == [s.out EXCEPT ![s.code_index] = s.code]
Pending(s)  == SubSeq(s.out, s.code_index + 1, Len(s.out))

LEMMA ByteFacts == Byte \subseteq Nat /\ 0 \in Byte /\ 1 .. Full \subseteq Byte \ {0} /\ Full \in Nat /\ Full >= 2
BY FullAssumption DEF Byte

LEMMA EncodeByteCases ==
  ASSUME NEW s, NEW b
  PROVE  EncodeByte(s, b) = IF b = 0 THEN NewBlock(s)
                            ELSE IF Added(s, b).code = Full THEN NewBlock(Added(s, b)) ELSE Added(s, b)
BY DEF EncodeByte, Added

LEMMA EncodeIsClosed ==
  ASSUME NEW d
  PROVE  EncodeCobs(d) = Closed(Encoded(d))
BY DEF EncodeCobs, Closed, Encoded, Start

LEMMA OpenTypes ==
  ASSUME NEW s, Open(s)
  PROVE  /\ s.out \in Seq(Byte) /\ s.code_index \in Nat /\ s.code \in Nat /\ Len(s.out) \in Nat
         /\ s.code_index \in 1 .. Len(s.out) /\ s.code \in 1 .. Full /\ s.code \in Byte \ {0}
         /\ s.code_index + s.code = Len(s.out) + 1
BY ByteFacts DEF Open, States

LEMMA ClosedFacts ==
  ASSUME NEW s, Open(s)
  PROVE  /\ Closed(s) \in Seq(Byte \ {0}) /\ Closed(s) \in Seq(Byte) /\ Len(Closed(s)) = Len(s.out)
         /\ Closed(s)[s.code_index] = s.code
         /\ \A i \in 1 .. Len(s.out) : i # s.code_index => Closed(s)[i] = s.out[i]
<1> DEFINE out == s.out
           n == Len(s.out)
<1>1. /\ out \in Seq(Byte) /\ n \in Nat /\ n = Len(out) /\ s.code_index \in 1 .. n
      /\ s.code \in Byte \ {0}
  BY OpenTypes
<1>2. \A i \in 1 .. n : i # s.code_index => out[i] # 0
  BY DEF Open
<1>3. Closed(s) = [i \in 1 .. n |-> IF i = s.code_index THEN s.code ELSE out[i]]
  BY <1>1 DEF Closed
<1>4. \A i \in 1 .. n : out[i] \in Byte
  BY <1>1
<1> HIDE DEF out, n
<1>5. \A i \in 1 .. n : Closed(s)[i] \in Byte \ {0}
  BY <1>1, <1>2, <1>3, <1>4
<1>6. Closed(s) \in [1 .. n -> Byte \ {0}] /\ Closed(s) \in [1 .. n -> Byte]
  BY <1>3, <1>5
<1>7. Closed(s) \in Seq(Byte \ {0}) /\ Closed(s) \in Seq(Byte) /\ Len(Closed(s)) = n
  BY <1>1, <1>6
<1>8. Closed(s)[s.code_index] = s.code /\ \A i \in 1 .. n : i # s.code_index => Closed(s)[i] = out[i]
  BY <1>1, <1>3
<1> QED
  BY <1>7, <1>8 DEF out, n

LEMMA AddedFacts ==
  ASSUME NEW s, Open(s), s.code < Full, NEW b \in Byte \ {0}
  PROVE  /\ Open(Added(s, b))
         /\ Added(s, b).out = Append(s.out, b) /\ Added(s, b).code_index = s.code_index
         /\ Added(s, b).code = s.code + 1
<1> DEFINE t == Added(s, b)
<1>1. /\ s.out \in Seq(Byte) /\ s.code_index \in Nat /\ s.code \in Nat /\ Len(s.out) \in Nat
      /\ s.code_index \in 1 .. Len(s.out) /\ s.code_index + s.code = Len(s.out) + 1
  BY OpenTypes
<1>2. t.out = Append(s.out, b) /\ t.code_index = s.code_index /\ t.code = s.code + 1 /\ t \in States
  <2>1. Append(s.out, b) \in Seq(Byte) /\ s.code + 1 \in Nat
    BY <1>1
  <2>2. s \in States
    BY DEF Open
  <2> QED
    BY <2>1, <2>2 DEF Added, States
<1>3. /\ Append(s.out, b) \in Seq(Byte) /\ Len(Append(s.out, b)) = Len(s.out) + 1
      /\ \A i \in 1 .. Len(s.out) : Append(s.out, b)[i] = s.out[i]
      /\ Append(s.out, b)[Len(s.out) + 1] = b
  BY <1>1
<1> HIDE DEF t
<1>4. \A i \in 1 .. Len(t.out) : i # t.code_index => t.out[i] # 0
  BY <1>1, <1>2, <1>3 DEF Open
<1>5. t.code_index \in 1 .. Len(t.out) /\ t.code \in 1 .. Full /\ t.code_index + t.code = Len(t.out) + 1
  <2>1. Len(t.out) = Len(s.out) + 1
    BY <1>2, <1>3
  <2>2. s.code \in 1 .. Full /\ s.code < Full /\ Full \in Nat
    BY OpenTypes, ByteFacts
  <2> DEFINE n == Len(s.out)
             i == s.code_index
             c == s.code
  <2>3. i \in 1 .. n + 1 /\ c + 1 \in 1 .. Full /\ i + (c + 1) = (n + 1) + 1
    <3>1. n \in Nat /\ i \in 1 .. n /\ c \in 1 .. Full /\ c < Full /\ i + c = n + 1
      BY <1>1, <2>2
    <3> HIDE DEF n, i, c
    <3> QED
      BY <3>1, <2>2
  <2> QED
    BY <1>2, <2>1, <2>3
<1> QED
  BY <1>2, <1>4, <1>5 DEF Open, t

LEMMA NewBlockFacts ==
  ASSUME NEW s, Open(s)
  PROVE  /\ Open(NewBlock(s))
         /\ NewBlock(s).out = Append(Closed(s), 0) /\ NewBlock(s).code_index = Len(s.out) + 1
         /\ NewBlock(s).code = 1
<1> DEFINE t == NewBlock(s)
           c == Closed(s)
<1>1. /\ Len(s.out) \in Nat /\ c \in Seq(Byte) /\ Len(c) = Len(s.out)
      /\ \A i \in 1 .. Len(s.out) : c[i] # 0
  <2>1. Len(s.out) \in Nat /\ c \in Seq(Byte \ {0}) /\ c \in Seq(Byte) /\ Len(c) = Len(s.out)
    BY OpenTypes, ClosedFacts
  <2> HIDE DEF c
  <2> QED
    BY <2>1
<1>2. t = [out |-> Append(c, 0), code_index |-> Len(s.out) + 1, code |-> 1]
  BY DEF NewBlock, Closed
<1> HIDE DEF c, t
<1>3. /\ Append(c, 0) \in Seq(Byte) /\ Len(Append(c, 0)) = Len(s.out) + 1
      /\ \A i \in 1 .. Len(s.out) : Append(c, 0)[i] = c[i]
  BY <1>1, ByteFacts
<1>4. t.out = Append(c, 0) /\ t.code_index = Len(s.out) + 1 /\ t.code = 1 /\ t \in States
  BY <1>1, <1>2, <1>3 DEF States
<1>5. \A i \in 1 .. Len(t.out) : i # t.code_index => t.out[i] # 0
  BY <1>1, <1>3, <1>4
<1>6. t.code_index \in 1 .. Len(t.out) /\ t.code \in 1 .. Full /\ t.code_index + t.code = Len(t.out) + 1
  BY <1>1, <1>3, <1>4, ByteFacts
<1> QED
  BY <1>4, <1>5, <1>6 DEF Open, t, c

-------------------------------------------------------------------------------
(* What comes before the open block decodes to p: a frame that begins so and  *)
(* has rest in its blocks from there on has p and rest in all of them.        *)
Prefix(s, p) ==
  \A f \in Seq(Byte), rest \in Seq(Byte) :
    /\ s.code_index <= Len(f) /\ \A i \in 1 .. s.code_index - 1 : f[i] = s.out[i]
    /\ BlocksOf(f)[s.code_index] = Decoded(rest)
    => BlocksOf(f)[1] = Decoded(p \o rest)

Holds(s, d) == \E p \in Seq(Byte) : d = p \o Pending(s) /\ Prefix(s, p)

(* The three ways the encoder's state changes keep what it holds.             *)
LEMMA StartHolds == Open(Start) /\ Holds(Start, <<>>)
<1>1. /\ Start.out = <<0>> /\ Start.code_index = 1 /\ Start.code = 1 /\ Len(<<0>>) = 1
      /\ <<0>> \in Seq(Byte) /\ Start \in States
  BY ByteFacts DEF Start, States
<1>2. Open(Start)
  BY <1>1, ByteFacts DEF Open
<1>3. <<>> = <<>> \o Pending(Start) /\ <<>> \in Seq(Byte)
  BY <1>1 DEF Pending
<1>4. Prefix(Start, <<>>)
  BY <1>1 DEF Prefix
<1> QED
  BY <1>2, <1>3, <1>4 DEF Holds

LEMMA PendingType ==
  ASSUME NEW s, Open(s)
  PROVE  Pending(s) \in Seq(Byte)
BY OpenTypes DEF Pending

LEMMA AddedHolds ==
  ASSUME NEW s, Open(s), s.code < Full, NEW b \in Byte \ {0}, NEW d, Holds(s, d)
  PROVE  Holds(Added(s, b), Append(d, b))
<1> DEFINE t == Added(s, b)
<1>1. PICK p \in Seq(Byte) : d = p \o Pending(s) /\ Prefix(s, p)
  BY DEF Holds
<1>2. t.out = Append(s.out, b) /\ t.code_index = s.code_index
  BY AddedFacts
<1>3. /\ s.out \in Seq(Byte) /\ s.code_index \in 1 .. Len(s.out) /\ Len(s.out) \in Nat
  BY OpenTypes
<1> HIDE DEF t
<1>4. Pending(t) = Append(Pending(s), b)
  <2>1. Len(Append(s.out, b)) = Len(s.out) + 1
    BY <1>3
  <2>2. SubSeq(Append(s.out, b), s.code_index + 1, Len(s.out) + 1)
          = Append(SubSeq(s.out, s.code_index + 1, Len(s.out)), b)
    BY <1>3, SubSeqAppend
  <2> QED
    BY <1>2, <2>1, <2>2 DEF Pending
<1>5. Append(d, b) = p \o Append(Pending(s), b)
  <2>1. b \in Byte /\ Pending(s) \in Seq(Byte)
    BY PendingType
  <2> QED
    BY <1>1, <2>1, ConcatAppend
<1>6. Prefix(t, p)
  <2>1. \A i \in 1 .. s.code_index - 1 : t.out[i] = s.out[i]
    BY <1>2, <1>3
  <2> QED
    BY <1>1, <1>2, <1>3, <2>1 DEF Prefix
<1> QED
  BY <1>4, <1>5, <1>6 DEF Holds, t

LEMMA BlockEndType ==
  ASSUME NEW c, NEW last
  PROVE  BlockEnd(c, last) \in Seq(Byte)
BY ByteFacts DEF BlockEnd

LEMMA HoldsType ==
  ASSUME NEW s, Open(s), NEW d, Holds(s, d)
  PROVE  d \in Seq(Byte)
<1>1. PICK p \in Seq(Byte) : d = p \o Pending(s)
  BY DEF Holds
<1> QED
  BY <1>1, PendingType, ConcatProperties

(* The data of a block whose code has been written.                           *)
LEMMA BlockData ==
  ASSUME NEW s, Open(s), NEW f \in Seq(Byte), Len(s.out) <= Len(f),
         \A i \in 1 .. Len(s.out) : f[i] = Closed(s)[i]
  PROVE  /\ s.code_index \in 1 .. Len(f) /\ f[s.code_index] = s.code /\ s.code # 0
         /\ s.code_index + f[s.code_index] = Len(s.out) + 1
         /\ \A i \in 1 .. s.code_index - 1 : f[i] = s.out[i]
         /\ SubSeq(f, s.code_index + 1, Len(s.out)) = Pending(s)
<1> DEFINE k == s.code_index
           n == Len(s.out)
           out == s.out
           c == Closed(s)
<1>1. /\ n \in Nat /\ k \in 1 .. n /\ s.code \in Byte \ {0} /\ k + s.code = n + 1 /\ Len(f) \in Nat
      /\ out \in Seq(Byte) /\ n = Len(out)
  BY OpenTypes
<1>2. c[k] = s.code /\ \A i \in 1 .. n : i # k => c[i] = out[i]
  BY ClosedFacts
<1>3. n <= Len(f) /\ \A i \in 1 .. n : f[i] = c[i]
  OBVIOUS
<1>4. SubSeq(f, k + 1, n) = Pending(s) <=> SubSeq(f, k + 1, n) = SubSeq(out, k + 1, n)
  BY DEF Pending
<1> HIDE DEF k, n, out, c
<1>5. k \in 1 .. Len(f) /\ f[k] = s.code /\ s.code # 0 /\ k + f[k] = n + 1
  BY <1>1, <1>2, <1>3
<1>6. \A i \in 1 .. n : i # k => f[i] = out[i]
  BY <1>2, <1>3
<1>7. \A i \in 1 .. k - 1 : f[i] = out[i]
  BY <1>1, <1>6
<1>8. SubSeq(f, k + 1, n) = SubSeq(out, k + 1, n)
  <2>1. \A i \in k + 1 .. n : f[i] \in Byte /\ out[i] \in Byte
    BY <1>1, <1>3
  <2>2. k + 1 \in Int /\ n \in Int /\ n - (k + 1) + 1 = n - k /\ n - k \in Nat
    BY <1>1
  <2>3. /\ SubSeq(f, k + 1, n) \in Seq(Byte) /\ SubSeq(out, k + 1, n) \in Seq(Byte)
        /\ Len(SubSeq(f, k + 1, n)) = n - k /\ Len(SubSeq(out, k + 1, n)) = n - k
        /\ \A i \in 1 .. n - k : SubSeq(f, k + 1, n)[i] = f[k + i] /\ SubSeq(out, k + 1, n)[i] = out[k + i]
    BY <1>1, <1>3
  <2>4. \A i \in 1 .. n - k : f[k + i] = out[k + i]
    BY <1>1, <1>6
  <2> QED
    BY <2>3, <2>4, SeqEqual
<1> QED
  BY <1>4, <1>5, <1>7, <1>8 DEF k, n, out, c

LEMMA NewBlockHolds ==
  ASSUME NEW s, Open(s), NEW d, Holds(s, d)
  PROVE  Holds(NewBlock(s), d \o BlockEnd(s.code, FALSE))
<1> DEFINE t == NewBlock(s)
           e == BlockEnd(s.code, FALSE)
           n == Len(s.out)
           k == s.code_index
           c == Closed(s)
<1>1. PICK p \in Seq(Byte) : d = p \o Pending(s) /\ Prefix(s, p)
  BY DEF Holds
<1>2. t.out = Append(c, 0) /\ t.code_index = n + 1 /\ c \in Seq(Byte) /\ Len(c) = n /\ n \in Nat
  BY NewBlockFacts, ClosedFacts, OpenTypes
<1>3. /\ \A i \in 1 .. n : Append(c, 0)[i] = c[i]
      /\ Len(Append(c, 0)) = n + 1 /\ Append(c, 0) \in Seq(Byte)
  <2> HIDE DEF c, n
  <2> QED
    BY <1>2, ByteFacts
<1>4. e \in Seq(Byte) /\ d \in Seq(Byte) /\ Pending(s) \in Seq(Byte)
  BY BlockEndType, HoldsType, PendingType
<1>5. k \in Nat /\ k <= n
  BY OpenTypes
<1>6. d \o e = (d \o e) \o Pending(t) /\ d \o e \in Seq(Byte)
  <2>1. Pending(t) = <<>>
    <3> HIDE DEF t, c, n
    <3> QED
      BY <1>2, <1>3, SubSeqEmpty DEF Pending
  <2>2. d \o e \in Seq(Byte)
    BY <1>4, ConcatProperties
  <2> QED
    BY <2>1, <2>2, ConcatEmptySeq
<1>7. \A r \in Seq(Byte) : p \o ((Pending(s) \o e) \o r) = (d \o e) \o r
  <2> DEFINE q == Pending(s)
  <2>1. p \in Seq(Byte) /\ q \in Seq(Byte) /\ e \in Seq(Byte)
    BY <1>4
  <2> HIDE DEF q, e
  <2>2. \A a, r \in Seq(Byte) : a \o ((q \o e) \o r) = ((a \o q) \o e) \o r
    BY <2>1, Regroup
  <2>3. \A r \in Seq(Byte) : p \o ((q \o e) \o r) = ((p \o q) \o e) \o r
    BY <2>1, <2>2
  <2> QED
    BY <1>1, <2>3 DEF q
<1>8. Prefix(t, d \o e)
  <2> SUFFICES ASSUME NEW f \in Seq(Byte), NEW rest \in Seq(Byte), t.code_index <= Len(f),
                      \A i \in 1 .. t.code_index - 1 : f[i] = t.out[i],
                      BlocksOf(f)[t.code_index] = Decoded(rest)
               PROVE  BlocksOf(f)[1] = Decoded((d \o e) \o rest)
    BY DEF Prefix
  <2> HIDE DEF t, e, c
  <2>1. /\ n + 1 <= Len(f) /\ Len(f) \in Nat /\ BlocksOf(f)[n + 1] = Decoded(rest)
        /\ \A i \in 1 .. n : f[i] = c[i]
    BY <1>2, <1>3
  <2>2. Len(s.out) <= Len(f)
    BY <1>2, <2>1
  <2>3. \A i \in 1 .. Len(s.out) : f[i] = Closed(s)[i]
    BY <2>1 DEF c
  <2>4. /\ k \in 1 .. Len(f) /\ f[k] = s.code /\ s.code # 0 /\ k + f[k] = n + 1
        /\ \A i \in 1 .. k - 1 : f[i] = s.out[i]
        /\ SubSeq(f, k + 1, n) = Pending(s)
    BY <2>2, <2>3, BlockData
  <2> HIDE DEF k, n
  <2>5. BlocksOf(f)[k] = Decoded(SubSeq(f, k + 1, (k + f[k]) - 1) \o BlockEnd(f[k], FALSE) \o rest)
    <3>1. f[k] # 0 /\ k + f[k] <= Len(f) /\ BlocksOf(f)[k + f[k]] = Decoded(rest) /\ k \in 1 .. Len(f)
      BY <2>1, <2>4
    <3> QED
      BY <3>1, NextBlock
  <2>6. (k + f[k]) - 1 = n
    BY <1>2, <2>4
  <2>7. BlocksOf(f)[k] = Decoded((Pending(s) \o e) \o rest)
    BY <2>4, <2>5, <2>6 DEF e
  <2>8. Pending(s) \o e \in Seq(Byte) /\ (Pending(s) \o e) \o rest \in Seq(Byte)
    BY <1>4, ConcatProperties
  <2>9. BlocksOf(f)[1] = Decoded(p \o ((Pending(s) \o e) \o rest))
    <3>1. k <= Len(f)
      BY <1>2, <1>5, <2>1
    <3> QED
      BY <1>1, <2>4, <2>7, <2>8, <3>1 DEF Prefix, k
  <2>10. p \o ((Pending(s) \o e) \o rest) = (d \o e) \o rest
    BY <1>7
  <2> QED
    BY <2>9, <2>10
<1> QED
  BY <1>6, <1>8 DEF Holds

(* Closing the open block makes a frame that decodes to what is held.         *)
LEMMA ClosedDecodes ==
  ASSUME NEW s, Open(s), NEW d, Holds(s, d)
  PROVE  DecodeCobs(Closed(s)) = Decoded(d)
<1> DEFINE f == Closed(s)
           n == Len(s.out)
           k == s.code_index
<1>1. PICK p \in Seq(Byte) : d = p \o Pending(s) /\ Prefix(s, p)
  BY DEF Holds
<1>2. f \in Seq(Byte) /\ Len(f) = n /\ n \in Nat
  BY ClosedFacts, OpenTypes
<1>3. n <= Len(f) /\ \A i \in 1 .. n : f[i] = Closed(s)[i]
  BY <1>2
<1>4. /\ k \in 1 .. Len(f) /\ f[k] # 0 /\ k + f[k] = Len(f) + 1
      /\ \A i \in 1 .. k - 1 : f[i] = s.out[i]
      /\ SubSeq(f, k + 1, Len(f)) = Pending(s)
  <2> HIDE DEF f
  <2> QED
    BY <1>2, <1>3, BlockData
<1>5. Pending(s) \in Seq(Byte)
  BY PendingType
<1> HIDE DEF f, n
<1>6. BlocksOf(f)[k] = Decoded(Pending(s))
  BY <1>2, <1>4, LastBlock
<1>7. BlocksOf(f)[1] = Decoded(p \o Pending(s))
  BY <1>1, <1>2, <1>4, <1>5, <1>6 DEF Prefix
<1> QED
  BY <1>1, <1>7, DecodeIsBlocks DEF f

(* How long the encoder's output is: the string, a code for the open block    *)
(* and one for each of the k full ones.                                       *)
Sized(s, n) == \E k \in Nat : Len(s.out) = n + 1 + k /\ k * (Full - 1) + s.code <= n + 1

LEMMA NewBlockSized ==
  ASSUME NEW s, Open(s), NEW n \in Nat, Sized(s, n)
  PROVE  /\ Sized(NewBlock(s), n + 1)
         /\ s.code = Full => Sized(NewBlock(s), n)
<1> DEFINE t == NewBlock(s)
           m == Full - 1
<1>1. PICK k \in Nat : Len(s.out) = n + 1 + k /\ k * m + s.code <= n + 1
  BY DEF Sized
<1>2. /\ t.code = 1 /\ t.out = Append(Closed(s), 0) /\ Closed(s) \in Seq(Byte)
      /\ Len(Closed(s)) = Len(s.out) /\ s.code \in 1 .. Full /\ Len(s.out) \in Nat
  BY NewBlockFacts, ClosedFacts, OpenTypes
<1>3. Len(t.out) = Len(s.out) + 1
  <2> HIDE DEF t
  <2> QED
    BY <1>2, ByteFacts
<1>4. m \in Nat /\ Full = m + 1
  BY ByteFacts
<1>5. k * m \in Nat /\ (k + 1) * m = k * m + m
  BY <1>4
<1> HIDE DEF t
<1>6. Sized(t, n + 1)
  <2>1. Len(t.out) = (n + 1) + 1 + k /\ k * m + t.code <= (n + 1) + 1
    <3> HIDE DEF m
    <3> QED
      BY <1>1, <1>2, <1>3, <1>4, <1>5
  <2> QED
    BY <2>1 DEF Sized
<1>7. ASSUME s.code = Full
      PROVE  Sized(t, n)
  <2>1. Len(t.out) = n + 1 + (k + 1) /\ (k + 1) * m + t.code <= n + 1
    <3> HIDE DEF m
    <3> QED
      BY <1>1, <1>2, <1>3, <1>4, <1>5, <1>7
  <2>2. k + 1 \in Nat
    OBVIOUS
  <2> QED
    BY <2>1, <2>2 DEF Sized
<1> QED
  BY <1>6, <1>7 DEF t

LEMMA AddedSized ==
  ASSUME NEW s, Open(s), s.code < Full, NEW b \in Byte \ {0}, NEW n \in Nat, Sized(s, n)
  PROVE  Sized(Added(s, b), n + 1)
<1> DEFINE t == Added(s, b)
           m == Full - 1
<1>1. PICK k \in Nat : Len(s.out) = n + 1 + k /\ k * m + s.code <= n + 1
  BY DEF Sized
<1>2. t.code = s.code + 1 /\ t.out = Append(s.out, b) /\ s.out \in Seq(Byte) /\ s.code \in Nat
  BY AddedFacts, OpenTypes
<1>3. Len(t.out) = Len(s.out) + 1
  <2> HIDE DEF t
  <2> QED
    BY <1>2
<1>4. k * m \in Nat
  BY ByteFacts
<1> HIDE DEF t
<1>5. Len(t.out) = (n + 1) + 1 + k /\ k * m + t.code <= (n + 1) + 1
  <2> HIDE DEF m
  <2> QED
    BY <1>1, <1>2, <1>3, <1>4
<1> QED
  BY <1>5 DEF Sized, t

-------------------------------------------------------------------------------
Encodes(s, d) == Open(s) /\ s.code < Full /\ Holds(s, d) /\ Sized(s, Len(d))

LEMMA EncodeByteEncodes ==
  ASSUME NEW s, NEW d \in Seq(Byte), Encodes(s, d), NEW b \in Byte
  PROVE  Encodes(EncodeByte(s, b), Append(d, b))
<1> DEFINE e == Append(d, b)
<1>0. Open(s) /\ s.code < Full /\ Holds(s, d) /\ Sized(s, Len(d))
  BY DEF Encodes
<1>1. Len(d) \in Nat /\ e \in Seq(Byte) /\ Len(e) = Len(d) + 1
  OBVIOUS
<1>2. 1 < Full
  BY ByteFacts
<1>3. CASE b = 0
  <2>1. EncodeByte(s, b) = NewBlock(s)
    BY <1>3, EncodeByteCases
  <2>2. d \o BlockEnd(s.code, FALSE) = e
    <3>1. BlockEnd(s.code, FALSE) = <<0>>
      <4>1. s.code # Full
        BY <1>0, ByteFacts
      <4> QED
        BY <4>1 DEF BlockEnd
    <3> QED
      BY <1>3, <3>1, AppendIsConcat
  <2> HIDE DEF e
  <2>3. Open(NewBlock(s)) /\ NewBlock(s).code = 1
    BY <1>0, NewBlockFacts
  <2>4. Holds(NewBlock(s), e)
    BY <1>0, <2>2, NewBlockHolds
  <2>5. Sized(NewBlock(s), Len(e))
    BY <1>0, <1>1, NewBlockSized
  <2> QED
    BY <1>2, <2>1, <2>3, <2>4, <2>5 DEF Encodes, e
<1>4. CASE b # 0
  <2> DEFINE t == Added(s, b)
  <2>0. b \in Byte \ {0}
    BY <1>4
  <2>1. Open(t) /\ t.code = s.code + 1
    BY <1>0, <2>0, AddedFacts
  <2>2. Holds(t, e)
    BY <1>0, <2>0, AddedHolds
  <2>3. Sized(t, Len(e))
    BY <1>0, <1>1, <2>0, AddedSized
  <2>4. EncodeByte(s, b) = IF t.code = Full THEN NewBlock(t) ELSE t
    BY <1>4, EncodeByteCases
  <2>5. s.code \in Nat
    BY <1>0, OpenTypes
  <2> HIDE DEF t, e
  <2>6. CASE t.code = Full
    <3>1. BlockEnd(t.code, FALSE) = <<>> /\ e \o <<>> = e
      BY <1>1, <2>6, ConcatEmptySeq DEF BlockEnd
    <3>2. Open(NewBlock(t)) /\ NewBlock(t).code = 1
      BY <2>1, NewBlockFacts
    <3>3. Holds(NewBlock(t), e)
      BY <2>1, <2>2, <3>1, NewBlockHolds
    <3>4. Sized(NewBlock(t), Len(e))
      BY <1>1, <2>1, <2>3, <2>6, NewBlockSized
    <3> QED
      BY <1>2, <2>4, <2>6, <3>2, <3>3, <3>4 DEF Encodes, e
  <2>7. CASE t.code # Full
    <3>1. t.code < Full
      BY <1>0, <2>1, <2>5, <2>7, ByteFacts
    <3> QED
      BY <2>1, <2>2, <2>3, <2>4, <2>7, <3>1 DEF Encodes, e
  <2> QED
    BY <2>6, <2>7
<1> QED
  BY <1>3, <1>4

LEMMA EncodedEncodes ==
  ASSUME NEW d \in Seq(Byte)
  PROVE  Encodes(Encoded(d), d)
<1> DEFINE S == {c \in Seq(Byte) : Encodes(Encoded(c), c)}
<1>1. <<>> \in S
  <2>1. Sized(Start, 0)
    <3>1. Start.out = <<0>> /\ Start.code = 1 /\ Len(<<0>>) = 0 + 1 + 0 /\ 0 * (Full - 1) + 1 <= 0 + 1
      BY ByteFacts DEF Start
    <3> QED
      BY <3>1 DEF Sized
  <2>2. Start.code < Full
    BY ByteFacts DEF Start
  <2>3. Len(<<>>) = 0 /\ <<>> \in Seq(Byte)
    OBVIOUS
  <2>4. Encodes(Start, <<>>)
    BY <2>1, <2>2, <2>3, StartHolds DEF Encodes
  <2> QED
    BY <2>3, <2>4, EncodedEmpty
<1>2. ASSUME NEW c \in Seq(Byte), NEW b \in Byte, c \in S
      PROVE  Append(c, b) \in S
  <2>1. Encodes(Encoded(c), c)
    BY <1>2
  <2>2. Encodes(EncodeByte(Encoded(c), b), Append(c, b))
    BY <2>1, EncodeByteEncodes
  <2>3. Append(c, b) \in Seq(Byte)
    OBVIOUS
  <2> QED
    BY <2>2, <2>3, EncodedAppend
<1>3. Seq(Byte) \subseteq S
  <2> HIDE DEF S
  <2> QED
    BY <1>1, <1>2, ByteStrings
<1> QED
  BY <1>3

(* cobs.cpp on both ends: what one end encodes the other decodes, for every   *)
(* byte string and every size of a full block, and the encoding never         *)
(* contains the delimiter.                                                    *)
THEOREM EncodingDecodes ==
  ASSUME NEW d \in Seq(Byte)
  PROVE  EncodeCobs(d) \in Seq(Byte \ {0}) /\ DecodeCobs(EncodeCobs(d)) = Decoded(d)
<1>1. Open(Encoded(d)) /\ Holds(Encoded(d), d)
  BY EncodedEncodes DEF Encodes
<1>2. Closed(Encoded(d)) \in Seq(Byte \ {0})
  BY <1>1, ClosedFacts
<1>3. DecodeCobs(Closed(Encoded(d))) = Decoded(d)
  BY <1>1, ClosedDecodes
<1> QED
  BY <1>2, <1>3, EncodeIsClosed

(* As many full blocks as there are take their data from the string.          *)
LEMMA FullBlocks ==
  ASSUME NEW n \in Nat, NEW m \in Nat \ {0}, NEW k \in Nat, k * m <= n
  PROVE  k <= n \div m
<1> DEFINE q == n \div m
<1>1. q \in Nat /\ m * q <= n /\ n < m * q + m
  OBVIOUS
<1>2. SUFFICES ASSUME q + 1 <= k
               PROVE  FALSE
  <2> HIDE DEF q
  <2>1. k <= q \/ q + 1 <= k
    BY <1>1
  <2> QED
    BY <2>1 DEF q
<1> HIDE DEF q
<1>3. PICK j \in Nat : k = q + 1 + j
  <2>1. k - (q + 1) \in Nat /\ k = q + 1 + (k - (q + 1))
    BY <1>1, <1>2
  <2> QED
    BY <2>1
<1>4. k * m = m * q + m + j * m /\ j * m \in Nat /\ m * q \in Nat
  BY <1>1, <1>3
<1> QED
  BY <1>1, <1>4

(* cobs.cpp: the encoder writes no more than the room that both ends give it, *)
(* for every byte string, one that ends with a full block included.           *)
THEOREM EncodingFits ==
  ASSUME NEW d \in Seq(Byte)
  PROVE  Len(EncodeCobs(d)) <= EncodedSize(Len(d))
<1> DEFINE n == Len(d)
           m == Full - 1
           s == Encoded(d)
<1>1. n \in Nat /\ m \in Nat \ {0}
  BY ByteFacts
<1>2. Open(s) /\ Sized(s, n)
  BY EncodedEncodes DEF Encodes
<1>3. PICK k \in Nat : Len(s.out) = n + 1 + k /\ k * m + s.code <= n + 1
  BY <1>2 DEF Sized
<1>4. s.code \in Nat \ {0}
  BY <1>2, OpenTypes
<1>5. k * m \in Nat
  BY <1>1
<1>6. Len(EncodeCobs(d)) = n + 1 + k
  BY <1>2, <1>3, EncodeIsClosed, ClosedFacts
<1>7. EncodedSize(n) = n + n \div m + 1
  BY DEF EncodedSize
<1> HIDE DEF n, m, s
<1>8. k * m <= n
  BY <1>1, <1>3, <1>4, <1>5
<1>9. k <= n \div m
  BY <1>1, <1>8, FullBlocks
<1>10. n \div m \in Nat
  BY <1>1
<1>11. Len(EncodeCobs(d)) <= EncodedSize(n)
  BY <1>1, <1>6, <1>7, <1>9, <1>10
<1> QED
  BY <1>11 DEF n
-------------------------------------------------------------------------------
Packets == [packet_id : Byte, device_id : Byte, payload : Seq(Byte)]
Body(p) == <<p.packet_id, p.device_id>> \o p.payload
Framed(p) == Append(Body(p), Crc(Body(p)))

LEMMA FramedFacts ==
  ASSUME NEW p \in Packets, Crc(Body(p)) \in Byte
  PROVE  LET n == Len(p.payload) + 2 IN
         /\ Framed(p) \in Seq(Byte) /\ Len(Framed(p)) = n + 1 /\ n \in Nat /\ Framed(p)[n + 1] = Crc(Body(p))
         /\ SubSeq(Framed(p), 1, n) = Body(p)
         /\ Body(p)[1] = p.packet_id /\ Body(p)[2] = p.device_id /\ SubSeq(Body(p), 3, n) = p.payload
<1> DEFINE n == Len(p.payload) + 2
           head == <<p.packet_id, p.device_id>>
           load == p.payload
           body == Body(p)
           crc == Crc(body)
           framed == Framed(p)
<1>1. p.packet_id \in Byte /\ p.device_id \in Byte /\ load \in Seq(Byte) /\ crc \in Byte
  BY DEF Packets
<1>2. head \in Seq(Byte) /\ Len(head) = 2 /\ head[1] = p.packet_id /\ head[2] = p.device_id
  BY <1>1
<1>3. n \in Nat /\ n = Len(load) + 2 /\ Len(load) \in Nat
  BY <1>1
<1>4. body = head \o load /\ framed = Append(body, crc)
  BY DEF Body, Framed
<1>5. (n = Len(p.payload) + 2) /\ load = p.payload
  OBVIOUS
<1> HIDE DEF n, head, load, body, crc, framed
<1>6. /\ body \in Seq(Byte) /\ Len(body) = n
      /\ \A i \in 1 .. n : body[i] = IF i <= 2 THEN head[i] ELSE load[i - 2]
  <2>1. /\ head \o load \in Seq(Byte) /\ Len(head \o load) = Len(head) + Len(load)
        /\ \A i \in 1 .. Len(head) + Len(load) :
             (head \o load)[i] = IF i <= Len(head) THEN head[i] ELSE load[i - Len(head)]
    BY <1>1, <1>2, ConcatProperties
  <2>2. Len(head) = 2 /\ 2 + Len(load) = n
    BY <1>2, <1>3
  <2> QED
    BY <1>4, <2>1, <2>2
<1>7. body[1] = head[1] /\ body[2] = head[2] /\ \A i \in 1 .. Len(load) : body[i + 2] = load[i]
  BY <1>3, <1>6
<1>8. /\ framed \in Seq(Byte) /\ Len(framed) = n + 1 /\ framed[n + 1] = crc
      /\ \A i \in 1 .. n : framed[i] = body[i]
  BY <1>1, <1>3, <1>4, <1>6
<1>9. SubSeq(framed, 1, n) = body
  <2>1. SubSeq(framed, 1, n) \in Seq(Byte) /\ Len(SubSeq(framed, 1, n)) = n
    BY <1>3, <1>8
  <2>2. \A i \in 1 .. n : SubSeq(framed, 1, n)[i] = body[i]
    BY <1>3, <1>8
  <2> QED
    BY <1>6, <2>1, <2>2, SeqEqual
<1>10. SubSeq(body, 3, n) = load
  <2>1. SubSeq(body, 3, n) \in Seq(Byte) /\ Len(SubSeq(body, 3, n)) = Len(load)
    BY <1>3, <1>6
  <2>2. \A i \in 1 .. Len(load) : SubSeq(body, 3, n)[i] = body[i + 2]
    BY <1>3, <1>6
  <2> QED
    BY <1>1, <1>7, <2>1, <2>2, SeqEqual
<1> QED
  BY <1>2, <1>3, <1>7, <1>8, <1>9, <1>10 DEF n, head, load, body, crc, framed

(* The encoding of a packet: the frame, which has no zero, and the delimiter. *)
LEMMA EncodePacketIs ==
  ASSUME NEW p
  PROVE  EncodePacket(p) = EncodeCobs(Framed(p)) \o <<0>>
BY DEF EncodePacket, Framed, Body

(* packet.cpp on both ends: a packet that one end encodes is the packet that  *)
(* the other decodes, whatever its payload; the Teensy's decoder has room for *)
(* every payload up to MAX_PAYLOAD_SIZE.                                      *)
THEOREM PacketDecodes ==
  ASSUME NEW p \in Packets, Crc(Body(p)) \in Byte
  PROVE  /\ EncodePacket(p) = EncodeCobs(Framed(p)) \o <<0>>
         /\ EncodeCobs(Framed(p)) \in Seq(Byte \ {0})
         /\ DecodePacket(EncodeCobs(Framed(p))) = [ok |-> TRUE, packet |-> p]
         /\ Len(p.payload) <= MAX_PAYLOAD_SIZE =>
              Decode(EncodeCobs(Framed(p))) = [ok |-> TRUE, packet |-> p]
<1> DEFINE f == Framed(p)
           decoded == DecodeCobs(EncodeCobs(f))
           n == Len(p.payload) + 2
<1>1. /\ f \in Seq(Byte) /\ Len(f) = n + 1 /\ n \in Nat /\ f[n + 1] = Crc(Body(p))
      /\ SubSeq(f, 1, n) = Body(p)
      /\ Body(p)[1] = p.packet_id /\ Body(p)[2] = p.device_id /\ SubSeq(Body(p), 3, n) = p.payload
      /\ Len(p.payload) \in Nat
  BY FramedFacts DEF Packets
<1>2. EncodeCobs(f) \in Seq(Byte \ {0}) /\ decoded = Decoded(f)
  <2> HIDE DEF f
  <2> QED
    BY <1>1, EncodingDecodes
<1> HIDE DEF f
<1>3. decoded.ok = TRUE /\ decoded.data = f
  BY <1>2 DEF Decoded
<1>4. Len(decoded.data) - CRC_SIZE = n /\ n >= HEADER_SIZE /\ HEADER_SIZE + 1 = 3
  BY <1>1, <1>3 DEF CRC_SIZE, HEADER_SIZE
<1>5. p = [packet_id |-> p.packet_id, device_id |-> p.device_id, payload |-> p.payload]
  BY DEF Packets
<1> HIDE DEF n, decoded
<1>6. ParsePacket(decoded) =
        [ok |-> TRUE, packet |-> [packet_id |-> p.packet_id, device_id |-> p.device_id, payload |-> p.payload]]
  BY <1>1, <1>3, <1>4 DEF ParsePacket
<1>7. DecodePacket(EncodeCobs(f)) = [ok |-> TRUE, packet |-> p]
  BY <1>5, <1>6 DEF DecodePacket, decoded
<1>8. ASSUME Len(p.payload) <= MAX_PAYLOAD_SIZE
      PROVE  Decode(EncodeCobs(f)) = DecodePacket(EncodeCobs(f))
  <2>1. Len(decoded.data) <= MAX_FRAME_SIZE
    BY <1>1, <1>3, <1>8, PayloadAssumption DEF MAX_FRAME_SIZE, HEADER_SIZE, CRC_SIZE, n
  <2> QED
    BY <2>1 DEF Decode, DecodePacket, decoded
<1> QED
  BY <1>2, <1>7, <1>8, EncodePacketIs DEF f

(* serial_buffer.h: a packet whose payload is no larger than MAX_PAYLOAD_SIZE *)
(* fits in the buffer, with its delimiter.                                    *)
THEOREM PacketFits ==
  ASSUME NEW p \in Packets, Crc(Body(p)) \in Byte, Len(p.payload) <= MAX_PAYLOAD_SIZE
  PROVE  EncodePacket(p) \in Seq(Byte) /\ Len(EncodePacket(p)) <= MAX_ENCODED_SIZE
<1> DEFINE f == EncodeCobs(Framed(p))
           a == Len(p.payload) + 3
           b == MAX_PAYLOAD_SIZE + 3
           m == Full - 1
<1>1. Framed(p) \in Seq(Byte) /\ Len(Framed(p)) = a /\ a \in Nat
  BY FramedFacts DEF Packets
<1>2. b \in Nat /\ a <= b /\ m \in Nat \ {0}
  BY <1>1, PayloadAssumption, ByteFacts
<1>3. f \in Seq(Byte \ {0}) /\ Len(f) <= EncodedSize(a)
  BY <1>1, EncodingDecodes, EncodingFits
<1>4. EncodedSize(a) = a + a \div m + 1 /\ EncodedSize(b) = b + b \div m + 1
  BY DEF EncodedSize
<1>5. MAX_ENCODED_SIZE = EncodedSize(b) + 1 /\ EncodePacket(p) = f \o <<0>>
  BY EncodePacketIs DEF MAX_ENCODED_SIZE
<1> HIDE DEF f, a, b, m
<1>6. a \div m \in Nat /\ b \div m \in Nat /\ m * (a \div m) <= a
  BY <1>1, <1>2
<1>7. a \div m <= b \div m
  <2>1. (a \div m) * m <= b
    BY <1>1, <1>2, <1>6
  <2> QED
    BY <1>2, <1>6, <2>1, FullBlocks
<1>8. f \in Seq(Byte) /\ Len(f) \in Nat
  BY <1>3
<1>9. EncodePacket(p) \in Seq(Byte) /\ Len(EncodePacket(p)) = Len(f) + 1
  BY <1>5, <1>8, ByteFacts
<1> QED
  BY <1>1, <1>2, <1>3, <1>4, <1>5, <1>6, <1>7, <1>8, <1>9
-------------------------------------------------------------------------------
(* The strings of MCCobs, for every MaxLen.                                   *)
IsByteString == data \in Seq(Byte)

LEMMA StringsAreBytes == StringSpec => []IsByteString
<1>1. StringInit => IsByteString
  BY DEF StringInit, IsByteString
<1>2. IsByteString /\ [StringNext]_data => IsByteString'
  BY DEF StringNext, IsByteString
<1> QED
  BY <1>1, <1>2, PTL DEF StringSpec

(* RoundTrip of MCCobs (cobs.cpp on both ends), for strings of every length.  *)
THEOREM StringsRoundTrip == StringSpec => []RoundTrip
<1>1. IsByteString => RoundTrip
  <2> SUFFICES ASSUME data \in Seq(Byte)
               PROVE  RoundTrip
    BY DEF IsByteString
  <2>1. EncodeCobs(data) \in Seq(Byte \ {0}) /\ DecodeCobs(EncodeCobs(data)) = Decoded(data)
    BY EncodingDecodes
  <2>2. \A i \in 1 .. Len(EncodeCobs(data)) : EncodeCobs(data)[i] \in Byte \ {0}
    BY <2>1
  <2> QED
    BY <2>1, <2>2 DEF RoundTrip
<1> QED
  BY <1>1, StringsAreBytes, PTL

(* EncodedFits of MCCobs (cobs.cpp on both ends), for strings of every length.*)
THEOREM StringsFit == StringSpec => []EncodedFits
<1>1. IsByteString => EncodedFits
  BY EncodingFits DEF IsByteString, EncodedFits
<1> QED
  BY <1>1, StringsAreBytes, PTL
===============================================================================
