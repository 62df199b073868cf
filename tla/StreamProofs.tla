---------------------------- MODULE StreamProofs ----------------------------
(***************************************************************************)
(* Both receivers of the serial line, for every buffer size, every number  *)
(* of faults and every checksum: the Teensy's keeps within its buffer, the *)
(* Pi's keeps no delimiter, what either delivers is what FrameStream       *)
(* delivers of the bytes it has received, and what is transmitted without  *)
(* a fault after a delimiter arrives in order.                             *)
(*                                                                         *)
(* What is buffered is the frame that has not ended (Rest), unless that is *)
(* too long, and then it is marked (Buffered).  FrameStream's delivery,    *)
(* which speaks of all the bytes, is unfolded at the last one              *)
(* (DeliveredAppend), and the Pi's folds of the bytes and the packets of   *)
(* one read likewise (TakeAppend, DispatchAppend).  What is on the line is *)
(* followed as if it had been received (CleanArrives).                     *)
(***************************************************************************)
EXTENDS CommandStream, TelemetryStream, CodecProofs

-------------------------------------------------------------------------------
(* Where the frame before the n-th byte begins, and the frame.                *)
Zeros(bytes, n) == {0} \cup {i \in 1 .. n - 1 : bytes[i] = 0}

FrameOf(bytes, n) == SubSeq(bytes, Max(Zeros(bytes, n)) + 1, n - 1)

LEMMA LastZero ==
  ASSUME NEW n \in Nat, NEW bytes
  PROVE  LET z == Max(Zeros(bytes, n)) IN
         /\ z \in Zeros(bytes, n) /\ \A y \in Zeros(bytes, n) : y <= z
         /\ FrameOf(bytes, n) = SubSeq(bytes, z + 1, n - 1)
<1> DEFINE Z == Zeros(bytes, n)
           P == {i \in 1 .. n - 1 : bytes[i] = 0}
<1>1. \E x \in Z : \A y \in Z : x >= y
  <2>1. CASE P = {}
    BY <2>1 DEF Zeros
  <2>2. CASE P # {}
    <3>1. P \in SUBSET (1 .. n)
      OBVIOUS
    <3> HIDE DEF P
    <3>2. Max(P) \in P /\ \A y \in P : y <= Max(P)
      BY <2>2, <3>1, MaxOf
    <3>3. Z = {0} \cup P
      BY DEF P, Zeros
    <3> DEFINE m == Max(P)
    <3>4. m \in P /\ m \in 1 .. n /\ \A y \in P : y <= m
      BY <3>1, <3>2
    <3> HIDE DEF m
    <3>5. m \in Nat /\ m >= 0
      BY <3>4
    <3>6. \A y \in Z : m >= y
      BY <3>1, <3>3, <3>4, <3>5
    <3> QED
      BY <3>3, <3>4, <3>6
  <2> QED
    BY <2>1, <2>2
<1>2. Max(Z) \in Z /\ \A y \in Z : Max(Z) >= y
  <2> HIDE DEF Z
  <2> QED
    BY <1>1 DEF Max
<1>3. Z \subseteq Nat
  BY DEF Zeros
<1>4. FrameOf(bytes, n) = SubSeq(bytes, Max(Z) + 1, n - 1)
  BY DEF FrameOf
<1> QED
  BY <1>2, <1>3, <1>4

(* A frame depends on the bytes before its end only.                          *)
LEMMA FrameSame ==
  ASSUME NEW b \in Seq(Byte), NEW c \in Seq(Byte), NEW n \in Nat, n <= Len(b) + 1, n <= Len(c) + 1,
         \A i \in 1 .. n - 1 : b[i] = c[i]
  PROVE  FrameOf(b, n) = FrameOf(c, n)
<1>1. Zeros(b, n) = Zeros(c, n)
  BY DEF Zeros
<1> DEFINE z == Max(Zeros(b, n))
<1>2. z \in Zeros(b, n) /\ FrameOf(b, n) = SubSeq(b, z + 1, n - 1)
  BY LastZero
<1>3. FrameOf(c, n) = SubSeq(c, z + 1, n - 1)
  BY <1>1, LastZero
<1>4. z \in Nat /\ (z <= n - 1 \/ z = 0)
  BY <1>2 DEF Zeros
<1> HIDE DEF z
<1>5. CASE z + 1 > n - 1
  BY <1>2, <1>3, <1>4, <1>5, SubSeqEmpty
<1>6. CASE z + 1 <= n - 1
  <2> DEFINE x == SubSeq(b, z + 1, n - 1)
             y == SubSeq(c, z + 1, n - 1)
             m == n - 1 - z
  <2>1. /\ x \in Seq(Byte) /\ y \in Seq(Byte) /\ Len(x) = m /\ Len(y) = m
        /\ \A i \in 1 .. m : x[i] = b[z + i] /\ y[i] = c[z + i]
    BY <1>4, <1>6
  <2>2. \A i \in 1 .. m : b[z + i] = c[z + i]
    BY <1>4, <1>6
  <2> HIDE DEF x, y, m
  <2>3. x = y
    BY <2>1, <2>2, SeqEqual
  <2> QED
    BY <1>2, <1>3, <2>3 DEF x, y
<1> QED
  BY <1>4, <1>5, <1>6

(* The bytes of a frame that has not ended.                                   *)
Rest(bytes) == FrameOf(bytes, Len(bytes) + 1)

LEMMA RestEmpty == Rest(<<>>) = <<>>
<1>1. Len(<<>>) = 0 /\ Zeros(<<>>, 1) = {0} /\ 0 + 1 \in Nat
  BY DEF Zeros
<1>2. Rest(<<>>) = SubSeq(<<>>, Max(Zeros(<<>>, 1)) + 1, 1 - 1) /\ Max(Zeros(<<>>, 1)) \in {0}
  BY <1>1, LastZero DEF Rest
<1> QED
  BY <1>2, SubSeqEmpty

LEMMA RestType ==
  ASSUME NEW bytes \in Seq(Byte)
  PROVE  Rest(bytes) \in Seq(Byte) /\ Len(Rest(bytes)) \in Nat
<1> DEFINE n == Len(bytes)
           z == Max(Zeros(bytes, n + 1))
<1>1. n \in Nat /\ n + 1 \in Nat
  OBVIOUS
<1>2. z \in Zeros(bytes, n + 1) /\ Rest(bytes) = SubSeq(bytes, z + 1, (n + 1) - 1)
  BY <1>1, LastZero DEF Rest
<1>3. z \in Nat /\ (n + 1) - 1 = n
  BY <1>1, <1>2 DEF Zeros
<1> HIDE DEF z
<1>4. SubSeq(bytes, z + 1, n) \in Seq(Byte)
  BY <1>3
<1> QED
  BY <1>2, <1>3, <1>4

LEMMA RestGrows ==
  ASSUME NEW bytes \in Seq(Byte), NEW b \in Byte
  PROVE  /\ b # 0 => Rest(Append(bytes, b)) = Append(Rest(bytes), b)
         /\ b = 0 => Rest(Append(bytes, b)) = <<>>
<1> DEFINE n == Len(bytes)
           c == Append(bytes, b)
           z == Max(Zeros(bytes, n + 1))
           y == Max(Zeros(c, n + 2))
<1>1. n \in Nat /\ c \in Seq(Byte) /\ Len(c) = n + 1 /\ c[n + 1] = b /\ \A i \in 1 .. n : c[i] = bytes[i]
  OBVIOUS
<1>2. /\ z \in Zeros(bytes, n + 1) /\ \A x \in Zeros(bytes, n + 1) : x <= z
      /\ Rest(bytes) = SubSeq(bytes, z + 1, (n + 1) - 1)
  <2>1. n + 1 \in Nat
    BY <1>1
  <2> QED
    BY <2>1, LastZero DEF Rest
<1>3. /\ y \in Zeros(c, n + 2) /\ \A x \in Zeros(c, n + 2) : x <= y
      /\ Rest(c) = SubSeq(c, y + 1, (n + 2) - 1)
  <2>1. n + 2 \in Nat /\ Len(c) + 1 = n + 2
    BY <1>1
  <2> HIDE DEF c, n
  <2> QED
    BY <2>1, LastZero DEF Rest
<1>4. (n + 1) - 1 = n /\ (n + 2) - 1 = n + 1 /\ z \in Nat /\ z <= n
  BY <1>1, <1>2 DEF Zeros
<1> HIDE DEF c, n, z, y
<1>5. ASSUME b # 0
      PROVE  Rest(c) = Append(Rest(bytes), b)
  <2>1. Zeros(c, n + 2) = Zeros(bytes, n + 1)
    BY <1>1, <1>4, <1>5 DEF Zeros
  <2>2. y = z
    BY <2>1 DEF y, z
  <2>3. Rest(c) = SubSeq(c, z + 1, n + 1) /\ Rest(bytes) = SubSeq(bytes, z + 1, n)
    BY <1>2, <1>3, <1>4, <2>2
  <2>4. CASE z # 0
    <3>1. z \in 1 .. Len(bytes)
      BY <1>4, <2>4 DEF n
    <3>2. SubSeq(Append(bytes, b), z + 1, Len(bytes) + 1) = Append(SubSeq(bytes, z + 1, Len(bytes)), b)
      BY <3>1, SubSeqAppend
    <3> QED
      BY <2>3, <3>2 DEF c, n
  <2>5. CASE z = 0
    <3>1. SubSeq(c, 1, n + 1) = c
      <4>1. SubSeq(c, 1, Len(c)) = c
        BY <1>1, SubSeqFull
      <4> QED
        BY <1>1, <4>1
    <3>2. SubSeq(bytes, 1, n) = bytes
      BY SubSeqFull DEF n
    <3>3. Rest(c) = c /\ Rest(bytes) = bytes
      BY <2>3, <2>5, <3>1, <3>2
    <3> QED
      BY <3>3 DEF c
  <2> QED
    BY <2>4, <2>5
<1>6. ASSUME b = 0
      PROVE  Rest(c) = <<>>
  <2>1. n + 1 \in Zeros(c, n + 2)
    BY <1>1, <1>4, <1>6 DEF Zeros
  <2>2. y \in Int /\ n + 1 <= y
    BY <1>3, <2>1 DEF Zeros
  <2> QED
    BY <1>1, <1>3, <1>4, <2>2, SubSeqEmpty
<1> QED
  BY <1>5, <1>6 DEF c
-------------------------------------------------------------------------------
(* What the first n bytes deliver, given by for the ones before the n-th.     *)
Delivery(good, by, bytes, n) ==
  IF n = 0 THEN <<>>
  ELSE LET frame == FrameOf(bytes, n) IN
       IF bytes[n] = 0 /\ frame \in good
       THEN Append(by[n - 1], DecodePacket(frame).packet) ELSE by[n - 1]

Delivers(good, by, bytes) == by = [n \in 0 .. Len(bytes) |-> Delivery(good, by, bytes, n)]

Delivered(good, bytes) == (CHOOSE by : Delivers(good, by, bytes))[Len(bytes)]

LEMMA DeliversStep ==
  ASSUME NEW good, NEW bytes, NEW by, Delivers(good, by, bytes), NEW n \in 0 .. Len(bytes)
  PROVE  by[n] = Delivery(good, by, bytes, n)
BY DEF Delivers

(* A delivery is of the bytes up to its place.                                *)
LEMMA DeliverySame ==
  ASSUME NEW good, NEW b \in Seq(Byte), NEW c \in Seq(Byte), NEW n \in Nat, n <= Len(b), n <= Len(c),
         \A i \in 1 .. n : b[i] = c[i], NEW f, NEW g, n # 0 => f[n - 1] = g[n - 1]
  PROVE  Delivery(good, f, b, n) = Delivery(good, g, c, n)
<1>1. CASE n = 0
  BY <1>1 DEF Delivery
<1>2. CASE n # 0
  <2>1. n <= Len(b) + 1 /\ n <= Len(c) + 1 /\ n \in 1 .. n /\ \A i \in 1 .. n - 1 : b[i] = c[i]
    BY <1>2
  <2>2. FrameOf(b, n) = FrameOf(c, n)
    BY <2>1, FrameSame
  <2>3. b[n] = c[n] /\ f[n - 1] = g[n - 1]
    BY <1>2, <2>1
  <2> QED
    BY <1>2, <2>2, <2>3, Zenon DEF Delivery
<1> QED
  BY <1>1, <1>2

(* So the recursion has its function.                                         *)
LEMMA DeliveryExists ==
  ASSUME NEW good, NEW d \in Seq(Byte)
  PROVE  \E by : Delivers(good, by, d)
<1> DEFINE S == {c \in Seq(Byte) : \E by : Delivers(good, by, c)}
<1>1. <<>> \in S
  <2> DEFINE by == [n \in 0 .. 0 |-> <<>>]
  <2>1. Len(<<>>) = 0 /\ \A n \in 0 .. 0 : Delivery(good, by, <<>>, n) = <<>>
    BY DEF Delivery
  <2>2. by = [n \in 0 .. Len(<<>>) |-> Delivery(good, by, <<>>, n)]
    BY <2>1
  <2>3. Delivers(good, by, <<>>)
    BY <2>2 DEF Delivers
  <2> QED
    BY <2>3
<1>2. ASSUME NEW c \in Seq(Byte), NEW b \in Byte, c \in S
      PROVE  Append(c, b) \in S
  <2>1. PICK f : Delivers(good, f, c)
    BY <1>2
  <2> DEFINE m == Len(c)
             e == Append(c, b)
             g == [n \in 0 .. m + 1 |-> IF n <= m THEN f[n] ELSE Delivery(good, f, e, n)]
  <2>2. m \in Nat /\ e \in Seq(Byte) /\ Len(e) = m + 1 /\ \A i \in 1 .. m : c[i] = e[i]
    OBVIOUS
  <2>3. ASSUME NEW n \in 0 .. m + 1
        PROVE  g[n] = Delivery(good, g, e, n)
    <3>1. n # 0 => g[n - 1] = f[n - 1]
      BY <2>2
    <3>2. CASE n <= m
      <4>1. n \in Nat /\ n \in 0 .. Len(c) /\ n <= Len(c) /\ n <= Len(e) /\ \A i \in 1 .. n : c[i] = e[i]
        BY <2>2, <3>2
      <4>2. f[n] = Delivery(good, f, c, n)
        BY <2>1, <4>1, DeliversStep
      <4>3. g[n] = f[n]
        BY <3>2
      <4> HIDE DEF g, e, m
      <4>4. Delivery(good, f, c, n) = Delivery(good, g, e, n)
        BY <2>2, <3>1, <4>1, DeliverySame
      <4> QED
        BY <4>2, <4>3, <4>4
    <3>3. CASE ~(n <= m)
      <4>1. n # 0
        BY <2>2, <3>3
      <4>2. g[n] = Delivery(good, f, e, n)
        BY <3>3
      <4> HIDE DEF g, e, m
      <4>3. f[n - 1] = g[n - 1]
        BY <3>1, <4>1
      <4>4. Delivery(good, f, e, n) = Delivery(good, g, e, n)
        BY <4>1, <4>3, Zenon DEF Delivery
      <4> QED
        BY <4>2, <4>4
    <3> QED
      BY <3>2, <3>3
  <2>4. g = [n \in 0 .. Len(e) |-> g[n]]
    BY <2>2
  <2> HIDE DEF g, e, m
  <2>5. Delivers(good, g, e)
    BY <2>2, <2>3, <2>4 DEF Delivers
  <2> QED
    BY <2>2, <2>5 DEF e
<1>3. Seq(Byte) \subseteq S
  <2>1. \A c \in Seq(Byte), b \in Byte : c \in S => Append(c, b) \in S
    BY <1>2
  <2> HIDE DEF S
  <2> QED
    BY <1>1, <2>1, ByteStrings
<1> QED
  BY <1>3

LEMMA DeliveredBy ==
  ASSUME NEW good, NEW d \in Seq(Byte)
  PROVE  \E by : Delivers(good, by, d) /\ Delivered(good, d) = by[Len(d)]
<1> DEFINE by == CHOOSE f : Delivers(good, f, d)
<1>1. Delivers(good, by, d)
  BY DeliveryExists
<1>2. Delivered(good, d) = by[Len(d)]
  BY DEF Delivered
<1> HIDE DEF by
<1> QED
  BY <1>1, <1>2

(* Nothing is delivered of no bytes, and another byte delivers the frame that *)
(* it ends, if it ends one that is to be delivered.                           *)
LEMMA DeliveredEmpty ==
  ASSUME NEW good
  PROVE  Delivered(good, <<>>) = <<>>
<1>1. <<>> \in Seq(Byte) /\ Len(<<>>) = 0 /\ 0 \in 0 .. 0
  OBVIOUS
<1>2. PICK by : Delivers(good, by, <<>>) /\ Delivered(good, <<>>) = by[0]
  BY <1>1, DeliveredBy
<1>3. by[0] = Delivery(good, by, <<>>, 0)
  BY <1>1, <1>2, DeliversStep
<1> QED
  BY <1>2, <1>3 DEF Delivery

LEMMA DeliveredAppend ==
  ASSUME NEW good, NEW bytes \in Seq(Byte), NEW b \in Byte
  PROVE  Delivered(good, Append(bytes, b)) =
           IF b = 0 /\ Rest(bytes) \in good
           THEN Append(Delivered(good, bytes), DecodePacket(Rest(bytes)).packet)
           ELSE Delivered(good, bytes)
<1> DEFINE m == Len(bytes)
           c == Append(bytes, b)
<1>1. /\ m \in Nat /\ m = Len(bytes) /\ c \in Seq(Byte) /\ Len(c) = m + 1 /\ c[m + 1] = b
      /\ \A i \in 1 .. m : bytes[i] = c[i]
  OBVIOUS
<1>2. PICK f : Delivers(good, f, bytes) /\ Delivered(good, bytes) = f[m]
  BY DeliveredBy
<1>3. PICK g : Delivers(good, g, c) /\ Delivered(good, c) = g[m + 1]
  <2>1. \A d \in Seq(Byte) : \E by : Delivers(good, by, d) /\ Delivered(good, d) = by[Len(d)]
    BY DeliveredBy
  <2>2. \E by : Delivers(good, by, c) /\ Delivered(good, c) = by[Len(c)]
    BY <1>1, <2>1
  <2> QED
    BY <1>1, <2>2
<1> HIDE DEF m, c
<1>4. f[m] = g[m]
  <2> DEFINE S == {k \in Nat : k <= m => f[k] = g[k]}
  <2>1. 0 \in S
    <3>1. 0 \in 0 .. Len(bytes) /\ 0 \in 0 .. Len(c)
      BY <1>1
    <3>2. f[0] = Delivery(good, f, bytes, 0) /\ g[0] = Delivery(good, g, c, 0)
      BY <1>2, <1>3, <3>1, DeliversStep
    <3> QED
      BY <3>2 DEF Delivery
  <2>2. ASSUME NEW k \in Nat, k \in S, k + 1 <= m
        PROVE  f[k + 1] = g[k + 1]
    <3>1. /\ k + 1 \in Nat /\ k + 1 \in 0 .. Len(bytes) /\ k + 1 \in 0 .. Len(c) /\ (k + 1) - 1 = k
          /\ k + 1 <= Len(bytes) /\ k + 1 <= Len(c) /\ \A i \in 1 .. k + 1 : bytes[i] = c[i]
      BY <1>1, <2>2
    <3>2. f[k + 1] = Delivery(good, f, bytes, k + 1) /\ g[k + 1] = Delivery(good, g, c, k + 1)
      BY <1>2, <1>3, <3>1, DeliversStep
    <3>3. f[(k + 1) - 1] = g[(k + 1) - 1]
      BY <1>1, <2>2, <3>1
    <3>4. Delivery(good, f, bytes, k + 1) = Delivery(good, g, c, k + 1)
      BY <1>1, <3>1, <3>3, DeliverySame
    <3> QED
      BY <3>2, <3>4
  <2>3. Nat \subseteq S
    <3>1. \A k \in Nat : k \in S => k + 1 \in S
      BY <2>2
    <3> HIDE DEF S
    <3> QED
      BY <2>1, <3>1, Induction
  <2> QED
    BY <1>1, <2>3
<1>5. FrameOf(c, m + 1) = Rest(bytes)
  <2>1. m + 1 \in Nat /\ m + 1 <= Len(bytes) + 1 /\ m + 1 <= Len(c) + 1 /\ (m + 1) - 1 = m
    BY <1>1
  <2>2. FrameOf(bytes, m + 1) = FrameOf(c, m + 1)
    BY <1>1, <2>1, FrameSame
  <2> QED
    BY <1>1, <2>2 DEF Rest
<1>6. g[m + 1] = Delivery(good, g, c, m + 1) /\ (m + 1) - 1 = m /\ m + 1 # 0
  <2>1. m + 1 \in 0 .. Len(c)
    BY <1>1
  <2> QED
    BY <1>1, <1>3, <2>1, DeliversStep
<1>7. g[m + 1] = IF b = 0 /\ Rest(bytes) \in good
                 THEN Append(g[m], DecodePacket(Rest(bytes)).packet) ELSE g[m]
  <2>1. Delivery(good, g, c, m + 1) = IF c[m + 1] = 0 /\ Rest(bytes) \in good
                                THEN Append(g[(m + 1) - 1], DecodePacket(Rest(bytes)).packet)
                                ELSE g[(m + 1) - 1]
    BY <1>5, <1>6, Zenon DEF Delivery
  <2> QED
    BY <1>1, <1>6, <2>1
<1> QED
  BY <1>2, <1>3, <1>4, <1>7 DEF c
-------------------------------------------------------------------------------
(* What is decoded is bytes.                                                  *)
LEMMA DecodedType ==
  ASSUME NEW f \in Seq(Byte)
  PROVE  DecodeCobs(f).data \in Seq(Byte)
<1> DEFINE B == BlocksOf(f)
           n == Len(f) + 1
           Typed(i) == B[i].data \in Seq(Byte)
           S == {m \in Nat : \A i \in 1 .. n : i > n - m => Typed(i)}
<1>1. n \in Nat /\ n = Len(f) + 1 /\ Len(f) \in Nat /\ \A i \in 1 .. n : B[i] = Block(B, f, i)
  BY BlocksRight
<1> HIDE DEF B, n
<1>2. 0 \in S
  BY <1>1
<1>3. ASSUME NEW m \in Nat, m \in S
      PROVE  m + 1 \in S
  <2> SUFFICES ASSUME NEW i \in 1 .. n, i > n - (m + 1)
               PROVE  Typed(i)
    OBVIOUS
  <2>1. \A j \in 1 .. n : j > i => Typed(j)
    BY <1>1, <1>3
  <2> DEFINE next == i + f[i]
  <2>2. B[i] = Block(B, f, i)
    BY <1>1
  <2>3. CASE i > Len(f)
    <3>1. B[i] = Decoded(<<>>)
      BY <2>2, <2>3 DEF Block
    <3> QED
      BY <3>1 DEF Decoded
  <2>4. CASE i <= Len(f) /\ (f[i] = 0 \/ next > Len(f) + 1 \/ ~B[next].ok)
    <3>1. ~(i > Len(f))
      BY <1>1, <2>4
    <3>2. B[i] = Malformed
      BY <2>2, <2>4, <3>1 DEF Block
    <3> QED
      BY <3>2 DEF Malformed
  <2>5. CASE i <= Len(f) /\ ~(f[i] = 0 \/ next > Len(f) + 1 \/ ~B[next].ok)
    <3> DEFINE x == SubSeq(f, i + 1, next - 1)
               y == BlockEnd(f[i], next > Len(f))
               z == B[next].data
    <3>1. i \in 1 .. Len(f) /\ f[i] \in Nat /\ f[i] # 0 /\ next <= n
      <4>1. i \in 1 .. Len(f)
        BY <1>1, <2>5
      <4>2. f[i] \in Byte
        BY <4>1
      <4>3. f[i] \in Nat
        BY <4>2, ByteFacts
      <4>4. f[i] # 0 /\ ~(next > Len(f) + 1)
        BY <2>5
      <4> QED
        BY <1>1, <4>1, <4>3, <4>4
    <3>2. next \in 1 .. n /\ next > i /\ next - 1 \in 1 .. Len(f)
      <4>1. i \in Nat /\ i >= 1 /\ f[i] \in Nat /\ f[i] >= 1
        BY <3>1
      <4>2. next \in Nat /\ next > i /\ next >= 2
        BY <4>1
      <4> HIDE DEF next
      <4> QED
        BY <1>1, <3>1, <4>2
    <3>3. z \in Seq(Byte)
      BY <2>1, <3>2
    <3>4. y \in Seq(Byte)
      BY BlockEndType
    <3>5. x \in Seq(Byte)
      BY <3>1, <3>2
    <3>6. B[i] = Decoded(x \o y \o z)
      <4>1. ~(i > Len(f))
        BY <1>1, <2>5
      <4> QED
        BY <2>2, <2>5, <4>1 DEF Block
    <3> HIDE DEF x, y, z
    <3>7. x \o y \o z \in Seq(Byte)
      BY <3>3, <3>4, <3>5, ConcatProperties
    <3> QED
      BY <3>6, <3>7 DEF Decoded
  <2>6. i <= Len(f) \/ i > Len(f)
    BY <1>1
  <2> QED
    BY <2>3, <2>4, <2>5, <2>6
<1>4. Nat \subseteq S
  <2> HIDE DEF S
  <2> QED
    BY <1>2, <1>3, Induction
<1>5. n \in S /\ 1 \in 1 .. n /\ 1 > n - n
  BY <1>1, <1>4
<1>6. Typed(1)
  BY <1>5
<1> QED
  BY <1>6, DecodeIsBlocks DEF B

LEMMA FrameType ==
  ASSUME NEW bytes \in Seq(Byte), NEW n \in Nat, n <= Len(bytes) + 1
  PROVE  FrameOf(bytes, n) \in Seq(Byte)
<1> DEFINE z == Max(Zeros(bytes, n))
<1>1. z \in Zeros(bytes, n) /\ FrameOf(bytes, n) = SubSeq(bytes, z + 1, n - 1)
  BY LastZero
<1>2. z \in Nat /\ n - 1 <= Len(bytes) /\ n - 1 \in Int
  BY <1>1 DEF Zeros
<1> HIDE DEF z
<1>3. SubSeq(bytes, z + 1, n - 1) \in Seq(Byte)
  BY <1>2
<1> QED
  BY <1>1, <1>3
-------------------------------------------------------------------------------
(* FrameStream's promise for the commands, in these terms.                    *)
GoodCommands == {f \in Seq(Byte) : CommandFrames!Deliverable(f)}

LEMMA CommandDecoder ==
  ASSUME NEW f
  PROVE  CommandFrames!DecodePacket(f) = DecodePacket(f)
BY DEF CommandFrames!DecodePacket, CommandFrames!DecodeCobs, CommandFrames!Decoded,
       CommandFrames!Malformed, CommandFrames!BlockEnd, CommandFrames!ParsePacket,
       CommandFrames!NoPacket, CommandFrames!CRC_SIZE, CommandFrames!HEADER_SIZE,
       DecodePacket, DecodeCobs, Decoded, Malformed, BlockEnd, ParsePacket, NoPacket, CRC_SIZE, HEADER_SIZE

LEMMA GoodCommand ==
  ASSUME NEW f \in Seq(Byte)
  PROVE  f \in GoodCommands <=> /\ Len(f) \in 1 .. MAX_ENCODED_SIZE
                                /\ DecodePacket(f).ok /\ IsCommand(DecodePacket(f).packet)
BY CommandDecoder DEF GoodCommands, CommandFrames!Deliverable

LEMMA CommandsDelivered ==
  ASSUME NEW bytes \in Seq(Byte)
  PROVE  CommandFrames!DeliveredFrom(bytes) = Delivered(GoodCommands, bytes)
<1> DEFINE Step(by, n) ==
             IF n = 0 THEN <<>>
             ELSE LET frame == CommandFrames!FrameBefore(bytes, n) IN
                  IF bytes[n] = 0 /\ CommandFrames!Deliverable(frame)
                  THEN Append(by[n - 1], CommandFrames!DecodePacket(frame).packet) ELSE by[n - 1]
<1>1. ASSUME NEW by, NEW n \in 0 .. Len(bytes)
      PROVE  Step(by, n) = Delivery(GoodCommands, by, bytes, n)
  <2>1. CASE n = 0
    BY <2>1 DEF Delivery
  <2>2. CASE n # 0
    <3>1. CommandFrames!FrameBefore(bytes, n) = FrameOf(bytes, n)
      BY DEF CommandFrames!FrameBefore, CommandFrames!Max, Max, FrameOf, Zeros
    <3>2. n \in Nat /\ n <= Len(bytes) + 1
      OBVIOUS
    <3>3. FrameOf(bytes, n) \in Seq(Byte)
      BY <3>2, FrameType
    <3>4. CommandFrames!Deliverable(FrameOf(bytes, n)) <=> FrameOf(bytes, n) \in GoodCommands
      BY <3>3 DEF GoodCommands
    <3>5. CommandFrames!DecodePacket(FrameOf(bytes, n)) = DecodePacket(FrameOf(bytes, n))
      BY CommandDecoder
    <3>6. Step(by, n) = IF bytes[n] = 0 /\ CommandFrames!Deliverable(FrameOf(bytes, n))
                        THEN Append(by[n - 1], CommandFrames!DecodePacket(FrameOf(bytes, n)).packet)
                        ELSE by[n - 1]
      BY <2>2, <3>1, Zenon
    <3> HIDE DEF Step
    <3>7. Step(by, n) = IF bytes[n] = 0 /\ FrameOf(bytes, n) \in GoodCommands
                        THEN Append(by[n - 1], DecodePacket(FrameOf(bytes, n)).packet)
                        ELSE by[n - 1]
      BY <3>4, <3>5, <3>6, Zenon
    <3> QED
      BY <2>2, <3>7, Zenon DEF Delivery
  <2> QED
    BY <2>1, <2>2
<1> DEFINE Takes(by) == by = [n \in 0 .. Len(bytes) |-> Step(by, n)]
<1>2. CommandFrames!DeliveredFrom(bytes) = (CHOOSE by : Takes(by))[Len(bytes)]
  BY DEF CommandFrames!DeliveredFrom
<1>3. \A by : Takes(by) <=> Delivers(GoodCommands, by, bytes)
  <2> HIDE DEF Step
  <2> QED
    BY <1>1 DEF Delivers
<1> HIDE DEF Takes
<1>4. (CHOOSE by : Takes(by)) = (CHOOSE by : Delivers(GoodCommands, by, bytes))
  BY <1>3
<1> QED
  BY <1>2, <1>4 DEF Delivered
(* A command fits the Teensy's buffer for a decoded frame: its decoder takes  *)
(* the commands that one without a limit would take.                          *)
LEMMA CommandFits ==
  ASSUME NEW f \in Seq(Byte), DecodePacket(f).ok, IsCommand(DecodePacket(f).packet)
  PROVE  Decode(f) = DecodePacket(f)
<1> DEFINE decoded == DecodeCobs(f)
           d == decoded.data
           size == Len(d) - CRC_SIZE
           body == SubSeq(d, 1, size)
<1>1. d \in Seq(Byte)
  BY DecodedType
<1>2. DecodePacket(f) = ParsePacket(decoded)
  BY DEF DecodePacket
<1> HIDE DEF decoded
<1>3. /\ size >= HEADER_SIZE
      /\ DecodePacket(f).packet.payload = SubSeq(body, HEADER_SIZE + 1, size)
  <2> DEFINE Passes == decoded.ok /\ size >= HEADER_SIZE /\ d[size + 1] = Crc(body)
             packet == [packet_id |-> body[1], device_id |-> body[2],
                        payload |-> SubSeq(body, HEADER_SIZE + 1, size)]
  <2>1. ParsePacket(decoded) = IF Passes THEN [ok |-> TRUE, packet |-> packet] ELSE NoPacket
    BY DEF ParsePacket
  <2> HIDE DEF size, body, d
  <2>2. Passes
    <3>1. ~NoPacket.ok /\ ParsePacket(decoded).ok
      BY <1>2 DEF NoPacket
    <3> HIDE DEF Passes
    <3> QED
      BY <2>1, <3>1
  <2>3. DecodePacket(f) = [ok |-> TRUE, packet |-> packet]
    BY <1>2, <2>1, <2>2, Zenon
  <2> QED
    BY <2>2, <2>3
<1>4. size \in Int /\ size = Len(d) - 1 /\ size >= 2 /\ HEADER_SIZE + 1 = 3
  BY <1>1, <1>3 DEF CRC_SIZE, HEADER_SIZE
<1>5. body \in Seq(Byte) /\ Len(body) = size
  BY <1>1, <1>4
<1>6. Len(SubSeq(body, 3, size)) = size - 2
  <2> HIDE DEF body, size
  <2>1. CASE size < 3
    BY <1>4, <1>5, <2>1
  <2>2. CASE size >= 3
    BY <1>4, <1>5, <2>2
  <2> QED
    BY <1>4, <2>1, <2>2
<1>7. Len(SubSeq(body, 3, size)) = 3
  BY <1>3, <1>4 DEF IsCommand
<1>8. Len(d) <= MAX_FRAME_SIZE
  <2> HIDE DEF body, size
  <2>1. Len(d) = 6
    BY <1>1, <1>4, <1>6, <1>7
  <2> QED
    BY <2>1, PayloadAssumption, CommandAssumption DEF MAX_FRAME_SIZE, HEADER_SIZE, CRC_SIZE
<1> QED
  BY <1>8 DEF Decode, DecodePacket, decoded

LEMMA HandleIs ==
  ASSUME NEW f \in Seq(Byte), Len(f) \in 1 .. MAX_ENCODED_SIZE, Handle(f)
  PROVE  dispatched' = IF f \in GoodCommands
                       THEN Append(dispatched, DecodePacket(f).packet) ELSE dispatched
<1>1. CASE DecodePacket(f).ok /\ IsCommand(DecodePacket(f).packet)
  <2>1. Decode(f) = DecodePacket(f)
    BY <1>1, CommandFits
  <2> QED
    BY <1>1, <2>1, GoodCommand DEF Handle
<1>2. CASE ~(DecodePacket(f).ok /\ IsCommand(DecodePacket(f).packet))
  <2>1. Decode(f) = DecodePacket(f) \/ Decode(f) = NoPacket
    BY DEF Decode, DecodePacket
  <2>2. ~(Decode(f).ok /\ IsCommand(Decode(f).packet))
    BY <1>2, <2>1 DEF NoPacket
  <2> QED
    BY <1>2, <2>2, GoodCommand DEF Handle
<1> QED
  BY <1>1, <1>2
-------------------------------------------------------------------------------
(* The sender.  A checksum is a byte (uint8_t, packet.cpp).                   *)
CrcIsByte == \A d \in Seq(Byte) : Crc(d) \in Byte

LEMMA SizeIsNat == MAX_ENCODED_SIZE \in Nat
<1>1. MAX_PAYLOAD_SIZE + 3 \in Nat /\ Full - 1 \in Nat \ {0}
  BY PayloadAssumption, ByteFacts
<1>2. (MAX_PAYLOAD_SIZE + 3) \div (Full - 1) \in Nat
  <2>1. \A a \in Nat, m \in Nat \ {0} : a \div m \in Nat
    OBVIOUS
  <2> QED
    BY <1>1, <2>1
<1> QED
  BY <1>1, <1>2 DEF MAX_ENCODED_SIZE, EncodedSize

LEMMA BodyType ==
  ASSUME NEW p \in Packets
  PROVE  Body(p) \in Seq(Byte)
<1>1. <<p.packet_id, p.device_id>> \in Seq(Byte) /\ p.payload \in Seq(Byte)
  BY DEF Packets
<1> QED
  BY <1>1, ConcatProperties DEF Body

LEMMA PutTypes ==
  ASSUME line \in Seq(Byte), last_byte \in Byte, NEW p, NEW bytes \in Seq(Byte), Put(p, bytes)
  PROVE  line' \in Seq(Byte) /\ last_byte' \in Byte /\ sent' = Append(sent, p)
<1>1. line' \in Seq(Byte)
  BY ConcatProperties DEF Put
<1>2. last_byte' \in Byte
  <2>1. bytes # <<>> => bytes[Len(bytes)] \in Byte
    OBVIOUS
  <2> QED
    BY <2>1 DEF Put, Last
<1> QED
  BY <1>1, <1>2 DEF Put

(* What a send puts on the line, and when it is a clean packet.               *)
LEMMA SendPuts ==
  ASSUME CrcIsByte, faults \in 0 .. MaxFaults,
         NEW p \in Packets, Len(p.payload) <= MAX_PAYLOAD_SIZE, Send(p)
  PROVE  \E e \in Seq(Byte) :
           /\ CanSend /\ Put(p, e) /\ Len(e) <= MAX_ENCODED_SIZE /\ faults' \in 0 .. MaxFaults
           /\ clean' = clean \/ (last_byte = 0 /\ e = EncodePacket(p) /\ clean' = Append(clean, p))
<1> DEFINE f == EncodePacket(p)
<1>1. f \in Seq(Byte) /\ Len(f) <= MAX_ENCODED_SIZE /\ Len(f) \in Nat
  <2>1. Crc(Body(p)) \in Byte
    BY BodyType DEF CrcIsByte
  <2>2. f \in Seq(Byte) /\ Len(f) <= MAX_ENCODED_SIZE
    BY <2>1, PacketFits
  <2> HIDE DEF f
  <2> QED
    BY <2>2
<1>2. MaxFaults \in Nat /\ Noise \subseteq Byte /\ MAX_ENCODED_SIZE \in Nat
  BY LineAssumption, SizeIsNat
<1> HIDE DEF f
<1>3. CASE SendIntact(p)
  <2>1. /\ CanSend /\ Put(p, f) /\ faults' = faults
        /\ clean' = clean \/ (last_byte = 0 /\ clean' = Append(clean, p))
    BY <1>3 DEF SendIntact, f
  <2> QED
    BY <1>1, <2>1 DEF f
<1>4. CASE SendLosingByte(p)
  <2>1. PICK i \in 1 .. Len(f) : Put(p, RemoveAt(f, i))
    BY <1>4 DEF SendLosingByte, f
  <2>2. CanSend /\ faults < MaxFaults /\ faults' = faults + 1 /\ clean' = clean
    BY <1>4 DEF SendLosingByte
  <2>3. RemoveAt(f, i) \in Seq(Byte) /\ Len(RemoveAt(f, i)) <= MAX_ENCODED_SIZE
    <3> DEFINE x == SubSeq(f, 1, i - 1)
               y == SubSeq(f, i + 1, Len(f))
    <3>1. x \in Seq(Byte) /\ y \in Seq(Byte) /\ Len(x) = i - 1 /\ Len(y) = Len(f) - i
      BY <1>1, <2>1
    <3>2. RemoveAt(f, i) = x \o y
      BY DEF RemoveAt
    <3> HIDE DEF x, y
    <3>3. x \o y \in Seq(Byte) /\ Len(x \o y) = Len(x) + Len(y)
      BY <3>1, ConcatProperties
    <3> QED
      BY <1>1, <1>2, <2>1, <3>1, <3>2, <3>3
  <2>4. faults' \in 0 .. MaxFaults
    BY <1>2, <2>2
  <2> QED
    BY <2>1, <2>2, <2>3, <2>4
<1>5. CASE SendCorruptingByte(p)
  <2>1. PICK i \in 1 .. Len(f) : \E byte \in Noise \ {f[i]} : Put(p, [f EXCEPT ![i] = byte])
    BY <1>5 DEF SendCorruptingByte, f
  <2>2. PICK byte \in Noise : Put(p, [f EXCEPT ![i] = byte])
    BY <2>1
  <2>3. CanSend /\ faults < MaxFaults /\ faults' = faults + 1 /\ clean' = clean
    BY <1>5 DEF SendCorruptingByte
  <2>4. [f EXCEPT ![i] = byte] \in Seq(Byte) /\ Len([f EXCEPT ![i] = byte]) = Len(f)
    <3>1. byte \in Byte
      BY <1>2
    <3> QED
      BY <1>1, <3>1
  <2>5. faults' \in 0 .. MaxFaults
    BY <1>2, <2>3
  <2> QED
    BY <1>1, <2>2, <2>3, <2>4, <2>5
<1> QED
  BY <1>3, <1>4, <1>5 DEF Send

LEMMA SendTypes ==
  ASSUME CrcIsByte, line \in Seq(Byte), last_byte \in Byte, faults \in 0 .. MaxFaults,
         NEW p \in Packets, Len(p.payload) <= MAX_PAYLOAD_SIZE, Send(p)
  PROVE  /\ line' \in Seq(Byte) /\ last_byte' \in Byte /\ faults' \in 0 .. MaxFaults
         /\ sent' = Append(sent, p)
<1>1. PICK e \in Seq(Byte) : Put(p, e) /\ faults' \in 0 .. MaxFaults
  BY SendPuts
<1> QED
  BY <1>1, PutTypes

(* What grows at its end has what it was as a prefix.                         *)
LEMMA GrownPrefix ==
  ASSUME NEW bytes \in Seq(Byte), NEW e \in Seq(Byte), e # <<>>
  PROVE  /\ Len(bytes) <= Len(bytes \o e) /\ bytes # bytes \o e
         /\ SubSeq(bytes, 1, Len(bytes)) = SubSeq(bytes \o e, 1, Len(bytes))
<1> DEFINE n == Len(bytes)
           m == Len(e)
           c == bytes \o e
<1>1. n \in Nat /\ m \in Nat /\ m # 0 /\ c \in Seq(Byte) /\ Len(c) = n + m /\ \A i \in 1 .. n : c[i] = bytes[i]
  BY ConcatProperties
<1>2. SubSeq(bytes, 1, n) = SubSeq(c, 1, n)
  <2> DEFINE x == SubSeq(bytes, 1, n)
             y == SubSeq(c, 1, n)
  <2> HIDE DEF c
  <2>1. /\ x \in Seq(Byte) /\ y \in Seq(Byte) /\ Len(x) = n /\ Len(y) = n
        /\ \A i \in 1 .. n : x[i] = bytes[i] /\ y[i] = c[i]
    BY <1>1
  <2>2. \A i \in 1 .. n : x[i] = y[i]
    BY <1>1, <2>1
  <2> HIDE DEF x, y
  <2>3. x = y
    BY <1>1, <2>1, <2>2, SeqEqual
  <2> QED
    BY <2>3 DEF x, y
<1> HIDE DEF c, n, m
<1>3. n <= Len(c) /\ bytes # c
  BY <1>1 DEF n
<1> QED
  BY <1>2, <1>3 DEF c, n
-------------------------------------------------------------------------------
Commands == {Command(c, seq) : c \in CommandId, seq \in Byte}

LEMMA CommandIsPacket ==
  ASSUME NEW c \in CommandId, NEW seq \in Byte
  PROVE  Command(c, seq) \in Packets /\ Len(Command(c, seq).payload) <= MAX_PAYLOAD_SIZE
<1>1. COMMAND \in Byte /\ IMU_01 \in Byte /\ c \in Byte /\ 0 \in Byte /\ 3 <= MAX_PAYLOAD_SIZE
  BY CommandAssumption, PayloadAssumption, ByteFacts
<1>2. <<c, seq, 0>> \in Seq(Byte) /\ Len(<<c, seq, 0>>) = 3
  BY <1>1
<1> QED
  BY <1>1, <1>2 DEF Command, Packets

(* The buffer holds the frame that has not ended, unless that is too long for *)
(* it; what has been dispatched is what FrameStream delivers.                 *)
Buffered == IF overflowed_ THEN Len(Rest(received)) > MAX_ENCODED_SIZE ELSE buffer_ = Rest(received)

CommandInv ==
  /\ CommandTypeOK
  /\ sent \in Seq(Commands) /\ received \in Seq(Byte)
  /\ Buffered
  /\ dispatched = Delivered(GoodCommands, received)

LEMMA CommandInitKeeps == CommandInit => CommandInv
<1> SUFFICES ASSUME CommandInit
             PROVE  CommandInv
  OBVIOUS
<1>1. CommandTypeOK
  <2>1. MAX_ENCODED_SIZE \in Nat
    BY SizeIsNat
  <2>2. MaxFaults \in Nat /\ 0 \in Byte
    BY LineAssumption, ByteFacts
  <2>3. <<>> \in Seq(Byte) /\ <<>> \in Seq(Byte \ {0}) /\ Len(<<>>) = 0
    OBVIOUS
  <2>4. line = <<>> /\ last_byte = 0 /\ faults = 0 /\ buffer_ = <<>> /\ overflowed_ = FALSE
    BY DEF CommandInit, LineInit
  <2>5. 0 <= MAX_ENCODED_SIZE /\ 0 \in 0 .. MaxFaults
    BY <2>1, <2>2
  <2> QED
    BY <2>2, <2>3, <2>4, <2>5 DEF CommandTypeOK
<1>2. sent = <<>> /\ received = <<>> /\ ~overflowed_ /\ buffer_ = <<>> /\ dispatched = <<>>
  BY DEF CommandInit, LineInit
<1>3. sent \in Seq(Commands) /\ received \in Seq(Byte)
  BY <1>2
<1> QED
  BY <1>1, <1>2, <1>3, RestEmpty, DeliveredEmpty DEF CommandInv, Buffered

LEMMA NextIsCommand ==
  ASSUME sent \in Seq(Commands), SendCommand
  PROVE  \E c \in CommandId, seq \in Byte : Send(Command(c, seq))
<1>1. PICK c \in CommandId, first \in FirstSeq :
        Send(Command(c, IF sent = <<>> THEN first ELSE (Last(sent).payload[2] + 1) % (Full + 1)))
  BY DEF SendCommand
<1> DEFINE seq == IF sent = <<>> THEN first ELSE (Last(sent).payload[2] + 1) % (Full + 1)
<1>2. seq \in Byte
  <2>1. CASE sent = <<>>
    BY <2>1, CommandAssumption
  <2>2. CASE sent # <<>>
    <3>1. Last(sent) \in Commands
      BY <2>2 DEF Last
    <3>2. PICK q \in Byte : Last(sent).payload[2] = q
      BY <3>1 DEF Commands, Command
    <3>3. q \in Nat /\ Full \in Nat
      BY ByteFacts
    <3>4. (q + 1) % (Full + 1) \in 0 .. Full
      BY <3>3
    <3> QED
      BY <2>2, <3>2, <3>4 DEF Byte
  <2> QED
    BY <2>1, <2>2
<1>3. Send(Command(c, seq))
  BY <1>1
<1> HIDE DEF seq
<1> QED
  BY <1>2, <1>3

LEMMA SendCommandKeeps ==
  ASSUME CrcIsByte, CommandInv, SendCommand
  PROVE  CommandInv'
<1>1. PICK c \in CommandId, seq \in Byte : Send(Command(c, seq))
  BY NextIsCommand DEF CommandInv
<1>2. Command(c, seq) \in Packets /\ Len(Command(c, seq).payload) <= MAX_PAYLOAD_SIZE
  BY <1>1, CommandIsPacket
<1>3. /\ line' \in Seq(Byte) /\ last_byte' \in Byte /\ faults' \in 0 .. MaxFaults
      /\ sent' = Append(sent, Command(c, seq))
  BY <1>1, <1>2, SendTypes DEF CommandInv, CommandTypeOK
<1>4. Command(c, seq) \in Commands
  BY <1>1 DEF Commands
<1>5. sent' \in Seq(Commands)
  BY <1>3, <1>4 DEF CommandInv
<1>6. UNCHANGED <<buffer_, overflowed_, received, dispatched>>
  BY DEF SendCommand
<1> QED
  BY <1>3, <1>5, <1>6 DEF CommandInv, CommandTypeOK, Buffered

LEMMA ReadFacts ==
  ASSUME CommandInv, ReadByte
  PROVE  /\ Head(line) \in Byte /\ line' \in Seq(Byte)
         /\ received' = Append(received, Head(line)) /\ received' \in Seq(Byte)
         /\ UNCHANGED <<sent, clean, last_byte, faults>>
<1>1. line \in Seq(Byte) /\ line # <<>> /\ received \in Seq(Byte)
  BY DEF CommandInv, CommandTypeOK, ReadByte
<1>2. Head(line) \in Byte /\ Tail(line) \in Seq(Byte)
  BY <1>1
<1> QED
  BY <1>1, <1>2 DEF ReadByte

LEMMA PushByteKeeps ==
  ASSUME CommandInv, PushByte
  PROVE  CommandInv'
<1>1. ReadByte /\ Head(line) # 0 /\ dispatched' = dispatched
  BY DEF PushByte
<1> DEFINE b == Head(line)
           rest == Rest(received)
<1>2. /\ b \in Byte /\ line' \in Seq(Byte) /\ received' = Append(received, b) /\ received' \in Seq(Byte)
      /\ UNCHANGED <<sent, clean, last_byte, faults>>
  BY <1>1, ReadFacts
<1>3. received \in Seq(Byte) /\ rest \in Seq(Byte) /\ Len(rest) \in Nat
  BY RestType DEF CommandInv
<1>4. Rest(received') = Append(rest, b) /\ Len(Rest(received')) = Len(rest) + 1
  BY <1>1, <1>2, <1>3, RestGrows
<1>5. Delivered(GoodCommands, received') = Delivered(GoodCommands, received)
  BY <1>1, <1>2, <1>3, DeliveredAppend
<1>6. MAX_ENCODED_SIZE \in Nat /\ buffer_ \in Seq(Byte \ {0}) /\ Len(buffer_) <= MAX_ENCODED_SIZE
      /\ Len(buffer_) \in Nat /\ overflowed_ \in BOOLEAN /\ Buffered
  BY SizeIsNat DEF CommandInv, CommandTypeOK
<1>7. b # 0
  BY <1>1
<1> HIDE DEF b, rest
<1>8. CASE Len(buffer_) >= MAX_ENCODED_SIZE
  <2>1. overflowed_' = TRUE /\ buffer_' = buffer_
    BY <1>8 DEF PushByte
  <2>2. Len(rest) >= MAX_ENCODED_SIZE
    BY <1>3, <1>6, <1>8 DEF Buffered, rest
  <2>3. Buffered'
    BY <1>3, <1>4, <1>6, <2>1, <2>2 DEF Buffered
  <2> QED
    BY <1>1, <1>2, <1>5, <2>1, <2>3 DEF CommandInv, CommandTypeOK
<1>9. CASE ~(Len(buffer_) >= MAX_ENCODED_SIZE)
  <2>1. overflowed_' = overflowed_ /\ buffer_' = Append(buffer_, b)
    BY <1>9 DEF PushByte, b
  <2>2. buffer_' \in Seq(Byte \ {0}) /\ Len(buffer_') <= MAX_ENCODED_SIZE
    BY <1>2, <1>6, <1>7, <1>9, <2>1
  <2>3. Buffered'
    BY <1>3, <1>4, <1>6, <2>1 DEF Buffered, rest
  <2> QED
    BY <1>1, <1>2, <1>5, <2>1, <2>2, <2>3 DEF CommandInv, CommandTypeOK
<1> QED
  BY <1>8, <1>9

LEMMA PushDelimiterKeeps ==
  ASSUME CommandInv, PushDelimiter
  PROVE  CommandInv'
<1>1. ReadByte /\ Head(line) = 0 /\ buffer_' = <<>> /\ overflowed_' = FALSE
  BY DEF PushDelimiter
<1> DEFINE rest == Rest(received)
<1>2. /\ 0 \in Byte /\ line' \in Seq(Byte) /\ received' = Append(received, 0) /\ received' \in Seq(Byte)
      /\ UNCHANGED <<sent, clean, last_byte, faults>>
  BY <1>1, ReadFacts
<1>3. received \in Seq(Byte) /\ rest \in Seq(Byte) /\ Len(rest) \in Nat
  BY RestType DEF CommandInv
<1>4. Rest(received') = <<>>
  BY <1>2, <1>3, RestGrows
<1>5. Delivered(GoodCommands, received') = IF rest \in GoodCommands
                                        THEN Append(dispatched, DecodePacket(rest).packet) ELSE dispatched
  BY <1>2, <1>3, DeliveredAppend DEF CommandInv
<1>6. MAX_ENCODED_SIZE \in Nat /\ buffer_ \in Seq(Byte \ {0}) /\ Len(buffer_) <= MAX_ENCODED_SIZE
      /\ Len(buffer_) \in Nat /\ overflowed_ \in BOOLEAN /\ Buffered
  BY SizeIsNat DEF CommandInv, CommandTypeOK
<1> HIDE DEF rest
<1>7. dispatched' = Delivered(GoodCommands, received')
  <2>1. CASE buffer_ # <<>> /\ ~overflowed_
    <3>1. buffer_ = rest /\ Handle(rest)
      BY <1>6, <2>1 DEF PushDelimiter, Buffered, rest
    <3>2. Len(rest) \in 1 .. MAX_ENCODED_SIZE
      BY <1>3, <1>6, <2>1, <3>1
    <3> QED
      BY <1>3, <1>5, <3>1, <3>2, HandleIs
  <2>2. CASE ~(buffer_ # <<>> /\ ~overflowed_)
    <3>1. dispatched' = dispatched
      BY <2>2 DEF PushDelimiter
    <3>2. rest = <<>> \/ Len(rest) > MAX_ENCODED_SIZE
      BY <1>6, <2>2 DEF Buffered, rest
    <3>3. ~(Len(rest) \in 1 .. MAX_ENCODED_SIZE)
      BY <1>3, <1>6, <3>2
    <3>4. ~rest \in GoodCommands
      BY <1>3, <3>3, GoodCommand
    <3> QED
      BY <1>5, <3>1, <3>4
  <2> QED
    BY <2>1, <2>2
<1>8. Buffered'
  BY <1>1, <1>4 DEF Buffered
<1>9. CommandTypeOK'
  <2>1. buffer_' \in Seq(Byte \ {0}) /\ Len(buffer_') <= MAX_ENCODED_SIZE /\ overflowed_' \in BOOLEAN
    <3>1. <<>> \in Seq(Byte \ {0}) /\ Len(<<>>) = 0 /\ 0 <= MAX_ENCODED_SIZE
      BY <1>6
    <3> QED
      BY <1>1, <3>1
  <2>2. last_byte' \in Byte /\ faults' \in 0 .. MaxFaults
    BY <1>2 DEF CommandInv, CommandTypeOK
  <2> QED
    BY <1>2, <2>1, <2>2 DEF CommandTypeOK
<1> QED
  BY <1>2, <1>7, <1>8, <1>9 DEF CommandInv

LEMMA CommandNextKeeps ==
  ASSUME CrcIsByte
  PROVE  CommandInv /\ [CommandNext]_commandVars => CommandInv'
<1> SUFFICES ASSUME CommandInv, [CommandNext]_commandVars
             PROVE  CommandInv'
  OBVIOUS
<1>1. CASE UNCHANGED commandVars
  BY <1>1 DEF commandVars, lineVars, CommandInv, CommandTypeOK, Buffered
<1> QED
  BY <1>1, SendCommandKeeps, PushByteKeeps, PushDelimiterKeeps DEF CommandNext

LEMMA CommandInvariant ==
  ASSUME CrcIsByte
  PROVE  CommandSpec => []CommandInv
<1>1. CommandInit => CommandInv
  BY CommandInitKeeps
<1>2. CommandInv /\ [CommandNext]_commandVars => CommandInv'
  BY CommandNextKeeps
<1> QED
  BY <1>1, <1>2, PTL DEF CommandSpec

(* CommandTypeOK: serial_buffer.cpp never keeps more than its buffer has room *)
(* for, whatever the bytes, the sizes and the number of faults; what it keeps *)
(* has no delimiter in it.                                                    *)
THEOREM CommandTypeCorrect ==
  ASSUME CrcIsByte
  PROVE  CommandSpec => []CommandTypeOK
<1>1. CommandInv => CommandTypeOK
  BY DEF CommandInv
<1> QED
  BY <1>1, CommandInvariant, PTL

LEMMA CommandStepIsReceive ==
  ASSUME CommandInv, CommandInv', [CommandNext]_commandVars
  PROVE  [CommandFrames!Receive]_<<received, dispatched>>
<1>1. CASE PushByte \/ PushDelimiter
  <2>1. ReadByte
    BY <1>1 DEF PushByte, PushDelimiter
  <2>2. Head(line) \in Byte /\ received' = Append(received, Head(line)) /\ received \in Seq(Byte)
    BY <2>1, ReadFacts DEF CommandInv
  <2>3. CommandFrames!IsStrictPrefix(received, received')
    <3> DEFINE e == <<Head(line)>>
    <3>1. e \in Seq(Byte) /\ e # <<>> /\ received' = received \o e
      BY <2>2, AppendIsConcat
    <3> HIDE DEF e
    <3> QED
      BY <2>2, <3>1, GrownPrefix DEF CommandFrames!IsStrictPrefix, CommandFrames!IsPrefix
  <2>4. dispatched' = CommandFrames!DeliveredFrom(received')
    BY CommandsDelivered DEF CommandInv
  <2> QED
    BY <2>3, <2>4 DEF CommandFrames!Receive
<1>2. CASE SendCommand \/ UNCHANGED commandVars
  <2>1. UNCHANGED <<received, dispatched>>
    BY <1>2 DEF SendCommand, commandVars, lineVars
  <2> QED
    BY <2>1
<1> QED
  BY <1>1, <1>2 DEF CommandNext

(* CommandsImplementFrameStream: SerialBuffer and poll_command                *)
(* (serial_buffer.cpp, client.cpp) deliver what FrameStream says of the bytes *)
(* received, whatever is lost or corrupted, in whatever number, and whatever  *)
(* the checksum: a frame too long for the buffer is skipped, and only that    *)
(* frame.                                                                     *)
THEOREM CommandsImplement ==
  ASSUME CrcIsByte
  PROVE  CommandSpec => CommandsImplementFrameStream
<1>1. CommandInit => CommandFrames!Init
  BY DEF CommandInit, LineInit, CommandFrames!Init
<1>2. CommandInv /\ CommandInv' /\ [CommandNext]_commandVars => [CommandFrames!Receive]_<<received, dispatched>>
  BY CommandStepIsReceive
<1> QED
  BY <1>1, <1>2, CommandInvariant, PTL DEF CommandSpec, CommandsImplementFrameStream, CommandFrames!Spec
-------------------------------------------------------------------------------
(* What is decoded is a packet, and it is not decoded of nothing.             *)
LEMMA DecodedIsPacket ==
  ASSUME NEW f \in Seq(Byte), DecodePacket(f).ok
  PROVE  DecodePacket(f).packet \in Packets
<1> DEFINE decoded == DecodeCobs(f)
           d == decoded.data
           size == Len(d) - CRC_SIZE
           body == SubSeq(d, 1, size)
           Passes == decoded.ok /\ size >= HEADER_SIZE /\ d[size + 1] = Crc(body)
           packet == [packet_id |-> body[1], device_id |-> body[2],
                      payload |-> SubSeq(body, HEADER_SIZE + 1, size)]
<1>1. d \in Seq(Byte)
  BY DecodedType
<1>2. DecodePacket(f) = IF Passes THEN [ok |-> TRUE, packet |-> packet] ELSE NoPacket
  BY DEF DecodePacket, ParsePacket
<1> HIDE DEF decoded
<1>3. Passes
  <2> HIDE DEF Passes, packet
  <2> QED
    BY <1>2 DEF NoPacket
<1>4. size \in Int /\ size = Len(d) - 1 /\ size >= 2 /\ HEADER_SIZE + 1 = 3
  BY <1>1, <1>3 DEF CRC_SIZE, HEADER_SIZE
<1>5. body \in Seq(Byte) /\ Len(body) = size
  BY <1>1, <1>4
<1> HIDE DEF body, size
<1>6. SubSeq(body, 3, size) \in Seq(Byte) /\ body[1] \in Byte /\ body[2] \in Byte
  BY <1>4, <1>5
<1>7. packet \in Packets
  BY <1>4, <1>6 DEF Packets
<1> HIDE DEF packet, Passes
<1> QED
  BY <1>2, <1>3, <1>7

LEMMA NothingDecoded == ~DecodePacket(<<>>).ok
<1>1. <<>> \in Seq(Byte) /\ Len(<<>>) = 0 /\ 1 \in 1 .. 0 + 1 /\ 1 > 0
  OBVIOUS
<1>2. BlocksOf(<<>>)[1] = Block(BlocksOf(<<>>), <<>>, 1)
  BY <1>1, BlocksRight
<1>3. Block(BlocksOf(<<>>), <<>>, 1) = Decoded(<<>>)
  BY <1>1 DEF Block
<1>4. DecodeCobs(<<>>).data = <<>>
  BY <1>2, <1>3, DecodeIsBlocks DEF Decoded
<1>5. ~(Len(DecodeCobs(<<>>).data) - CRC_SIZE >= HEADER_SIZE)
  BY <1>1, <1>4 DEF CRC_SIZE, HEADER_SIZE
<1>6. DecodePacket(<<>>) = NoPacket
  BY <1>5 DEF DecodePacket, ParsePacket
<1> QED
  BY <1>6 DEF NoPacket
-------------------------------------------------------------------------------
(* A fold of d from a whose step is the function T has its function on the    *)
(* sets of d's first n places (see FoldExists).                               *)
TypedFolds(g, V, a, T, d, n) ==
  /\ g \in [SUBSET (1 .. n) -> V]
  /\ \A s \in SUBSET (1 .. n) : g[s] = IF s = {} THEN a ELSE T[<<g[s \ {Max(s)}], d[Max(s)]>>]

LEMMA TypedFoldExists ==
  ASSUME NEW V, NEW D, NEW a \in V, NEW T \in [V \X D -> V], NEW d, NEW n \in Nat,
         \A i \in 1 .. n : d[i] \in D
  PROVE  \E g : TypedFolds(g, V, a, T, d, n)
<1> DEFINE S == {k \in Nat : k <= n => \E g : TypedFolds(g, V, a, T, d, k)}
<1>1. 0 \in S
  <2> DEFINE g == [s \in SUBSET (1 .. 0) |-> a]
  <2>1. \A s \in SUBSET (1 .. 0) : s = {}
    OBVIOUS
  <2>2. TypedFolds(g, V, a, T, d, 0)
    BY <2>1 DEF TypedFolds
  <2> QED
    BY <2>2
<1>2. ASSUME NEW k \in Nat, k \in S, k + 1 <= n
      PROVE  \E g : TypedFolds(g, V, a, T, d, k + 1)
  <2>1. PICK f : TypedFolds(f, V, a, T, d, k)
    BY <1>2
  <2>2. d[k + 1] \in D
    BY <1>2
  <2> DEFINE g == [s \in SUBSET (1 .. k + 1) |->
                     IF k + 1 \in s THEN T[<<f[s \ {k + 1}], d[k + 1]>>] ELSE f[s]]
  <2>3. ASSUME NEW s \in SUBSET (1 .. k + 1)
        PROVE  /\ g[s] \in V
               /\ g[s] = IF s = {} THEN a ELSE T[<<g[s \ {Max(s)}], d[Max(s)]>>]
    <3>1. CASE k + 1 \in s
      <4>1. Max(s) = k + 1
        <5>1. k + 1 \in Nat
          OBVIOUS
        <5>2. Max(s) \in s /\ \A y \in s : y <= Max(s)
          BY <3>1, <5>1, MaxOf
        <5>3. Max(s) \in 1 .. k + 1 /\ k + 1 <= Max(s)
          BY <3>1, <5>2
        <5> HIDE DEF g
        <5> QED
          BY <5>3
      <4>2. s \ {k + 1} \in SUBSET (1 .. k + 1) /\ k + 1 \notin s \ {k + 1} /\ s \ {k + 1} \in SUBSET (1 .. k)
        <5>1. \A y \in s : y # k + 1 => y \in 1 .. k
          OBVIOUS
        <5> QED
          BY <5>1
      <4>3. g[s \ {k + 1}] = f[s \ {k + 1}] /\ f[s \ {k + 1}] \in V
        BY <2>1, <4>2 DEF TypedFolds
      <4>4. g[s] = T[<<f[s \ {k + 1}], d[k + 1]>>]
        BY <3>1
      <4> HIDE DEF g
      <4>5. g[s] \in V
        BY <2>2, <4>3, <4>4
      <4> QED
        BY <3>1, <4>1, <4>3, <4>4, <4>5
    <3>2. CASE k + 1 \notin s
      <4>1. s \in SUBSET (1 .. k) /\ s \ {Max(s)} \in SUBSET (1 .. k)
        <5>1. s \subseteq 1 .. k
          BY <3>2
        <5> HIDE DEF g
        <5> QED
          BY <5>1
      <4>2. g[s] = f[s] /\ g[s \ {Max(s)}] = f[s \ {Max(s)}]
        BY <3>2, <4>1
      <4>3. f[s] \in V /\ f[s] = IF s = {} THEN a ELSE T[<<f[s \ {Max(s)}], d[Max(s)]>>]
        BY <2>1, <4>1 DEF TypedFolds
      <4> HIDE DEF g
      <4> QED
        BY <4>2, <4>3
    <3> QED
      BY <3>1, <3>2
  <2>4. g \in [SUBSET (1 .. k + 1) -> V]
    BY <2>3
  <2> HIDE DEF g
  <2>5. TypedFolds(g, V, a, T, d, k + 1)
    BY <2>3, <2>4 DEF TypedFolds
  <2> QED
    BY <2>5
<1>3. Nat \subseteq S
  <2>1. \A k \in Nat : k \in S => k + 1 \in S
    BY <1>2
  <2> HIDE DEF S
  <2> QED
    BY <1>1, <2>1, Induction
<1> QED
  BY <1>3
(* A run of a fold: what it makes of the first bytes, or packets, one by one. *)
LEMMA RunStep ==
  ASSUME NEW n \in Nat, NEW k \in 1 .. n
  PROVE  1 .. k \in SUBSET (1 .. n) /\ 1 .. k # {} /\ Max(1 .. k) = k /\ (1 .. k) \ {k} = 1 .. k - 1
<1> DEFINE s == 1 .. k
<1>1. s \in SUBSET (1 .. n) /\ s # {} /\ k \in s
  OBVIOUS
<1>2. Max(s) \in s /\ \A y \in s : y <= Max(s)
  BY <1>1, MaxOf
<1> QED
  BY <1>1, <1>2

Taken == [rest : Seq(Byte), packets : Seq(Packets)]

LEMMA TakeByteType ==
  ASSUME NEW s \in Taken, NEW b \in Byte
  PROVE  TakeByte(s, b) \in Taken
<1>1. s.rest \in Seq(Byte) /\ s.packets \in Seq(Packets)
  BY DEF Taken
<1>2. CASE b # 0
  <2> DEFINE rest == Append(s.rest, b)
  <2>1. rest \in Seq(Byte)
    BY <1>1
  <2>2. TakeByte(s, b) = [s EXCEPT !.rest = rest]
    BY <1>2 DEF TakeByte
  <2> HIDE DEF rest
  <2> QED
    BY <2>1, <2>2 DEF Taken
<1>3. CASE b = 0
  <2> DEFINE next == IF DecodePacket(s.rest).ok THEN Append(s.packets, DecodePacket(s.rest).packet)
                     ELSE s.packets
  <2>1. next \in Seq(Packets)
    BY <1>1, DecodedIsPacket
  <2>2. TakeByte(s, b) = [s EXCEPT !.rest = <<>>, !.packets = next]
    BY <1>3 DEF TakeByte
  <2> HIDE DEF next
  <2>3. <<>> \in Seq(Byte)
    OBVIOUS
  <2> QED
    BY <2>1, <2>2, <2>3 DEF Taken
<1> QED
  BY <1>2, <1>3

LEMMA TakeRun ==
  ASSUME NEW a \in Taken, NEW d \in Seq(Byte)
  PROVE  \E h : /\ h[0] = a
                /\ \A k \in 1 .. Len(d) : h[k] = TakeByte(h[k - 1], d[k])
                /\ FoldLeft(TakeByte, a, d) = h[Len(d)]
<1> DEFINE n == Len(d)
           Runs(g) == g = [s \in SUBSET (DOMAIN d) |->
                             IF s = {} THEN a ELSE TakeByte(g[s \ {Max(s)}], d[Max(s)])]
           g == CHOOSE f : Runs(f)
<1>1. n \in Nat /\ DOMAIN d = 1 .. n /\ \A i \in 1 .. n : d[i] \in Byte
  OBVIOUS
<1>2. FoldLeft(TakeByte, a, d) = (CHOOSE f : Runs(f))[DOMAIN d]
  BY DEF FoldLeft, MapThenFoldSet
<1>3. \E f : Runs(f)
  <2> DEFINE T == [x \in Taken \X Byte |-> TakeByte(x[1], x[2])]
  <2>1. T \in [Taken \X Byte -> Taken]
    BY TakeByteType
  <2> HIDE DEF T, n
  <2>2. PICK f : TypedFolds(f, Taken, a, T, d, n)
    BY <1>1, <2>1, TypedFoldExists
  <2>3. ASSUME NEW s \in SUBSET (1 .. n), s # {}
        PROVE  f[s] = TakeByte(f[s \ {Max(s)}], d[Max(s)])
    <3>1. Max(s) \in 1 .. n
      BY <1>1, <2>3, MaxOf
    <3>2. f[s \ {Max(s)}] \in Taken /\ d[Max(s)] \in Byte
      <4>1. s \ {Max(s)} \in SUBSET (1 .. n)
        OBVIOUS
      <4> QED
        BY <1>1, <2>2, <3>1, <4>1 DEF TypedFolds
    <3>3. f[s] = T[<<f[s \ {Max(s)}], d[Max(s)]>>]
      BY <2>2, <2>3 DEF TypedFolds
    <3> QED
      BY <3>2, <3>3 DEF T
  <2>4. f = [s \in SUBSET (1 .. n) |-> f[s]] /\ f[{}] = a
    BY <2>2 DEF TypedFolds
  <2>5. Runs(f)
    BY <1>1, <2>3, <2>4
  <2> QED
    BY <2>5
<1>4. Runs(g)
  BY <1>3
<1> DEFINE h == [k \in 0 .. n |-> g[1 .. k]]
<1> HIDE DEF g
<1>5. g[{}] = a /\ \A s \in SUBSET (1 .. n) : s # {} => g[s] = TakeByte(g[s \ {Max(s)}], d[Max(s)])
  BY <1>1, <1>4
<1>6. h[0] = a
  <2>1. 1 .. 0 = {} /\ 0 \in 0 .. n
    BY <1>1
  <2> QED
    BY <1>5, <2>1
<1> HIDE DEF n
<1>7. \A k \in 1 .. n : h[k] = TakeByte(h[k - 1], d[k])
  <2> SUFFICES ASSUME NEW k \in 1 .. n
               PROVE  h[k] = TakeByte(h[k - 1], d[k])
    OBVIOUS
  <2>1. k \in 0 .. n /\ k - 1 \in 0 .. n
    BY <1>1
  <2>2. g[1 .. k] = TakeByte(g[(1 .. k) \ {Max(1 .. k)}], d[Max(1 .. k)])
    BY <1>1, <1>5, RunStep
  <2>3. Max(1 .. k) = k /\ (1 .. k) \ {k} = 1 .. k - 1
    BY <1>1, RunStep
  <2>4. g[1 .. k] = TakeByte(g[1 .. k - 1], d[k])
    BY <2>2, <2>3, Zenon
  <2> QED
    BY <2>1, <2>4
<1>8. FoldLeft(TakeByte, a, d) = h[n]
  <2>1. h[n] = g[1 .. n]
    BY <1>1
  <2> QED
    BY <1>1, <1>2, <2>1 DEF g
<1> HIDE DEF h
<1> QED
  BY <1>6, <1>7, <1>8 DEF n

LEMMA DispatchRun ==
  ASSUME NEW a \in Seq(Packets), NEW d \in Seq(Packets)
  PROVE  \E h : /\ h[0] = a
                /\ \A k \in 1 .. Len(d) : h[k] = Dispatch(h[k - 1], d[k])
                /\ FoldLeft(Dispatch, a, d) = h[Len(d)]
<1> DEFINE n == Len(d)
           V == Seq(Packets)
           Runs(g) == g = [s \in SUBSET (DOMAIN d) |->
                             IF s = {} THEN a ELSE Dispatch(g[s \ {Max(s)}], d[Max(s)])]
           g == CHOOSE f : Runs(f)
<1>1. n \in Nat /\ DOMAIN d = 1 .. n /\ \A i \in 1 .. n : d[i] \in Packets
  OBVIOUS
<1>2. FoldLeft(Dispatch, a, d) = (CHOOSE f : Runs(f))[DOMAIN d]
  BY DEF FoldLeft, MapThenFoldSet
<1>3. \E f : Runs(f)
  <2> DEFINE T == [x \in V \X Packets |-> Dispatch(x[1], x[2])]
  <2>1. T \in [V \X Packets -> V]
    <3>1. \A s \in V, p \in Packets : Dispatch(s, p) \in V
      BY DEF Dispatch
    <3> HIDE DEF V
    <3> QED
      BY <3>1
  <2>2. a \in V
    OBVIOUS
  <2> HIDE DEF T, n, V
  <2>3. PICK f : TypedFolds(f, V, a, T, d, n)
    BY <1>1, <2>1, <2>2, TypedFoldExists
  <2>4. ASSUME NEW s \in SUBSET (1 .. n), s # {}
        PROVE  f[s] = Dispatch(f[s \ {Max(s)}], d[Max(s)])
    <3>1. Max(s) \in 1 .. n
      BY <1>1, <2>4, MaxOf
    <3>2. f[s \ {Max(s)}] \in V /\ d[Max(s)] \in Packets
      <4>1. s \ {Max(s)} \in SUBSET (1 .. n)
        OBVIOUS
      <4> QED
        BY <1>1, <2>3, <3>1, <4>1 DEF TypedFolds
    <3>3. f[s] = T[<<f[s \ {Max(s)}], d[Max(s)]>>]
      BY <2>3, <2>4 DEF TypedFolds
    <3> QED
      BY <3>2, <3>3 DEF T
  <2>5. f = [s \in SUBSET (1 .. n) |-> f[s]] /\ f[{}] = a
    BY <2>3 DEF TypedFolds
  <2>6. Runs(f)
    BY <1>1, <2>4, <2>5
  <2> QED
    BY <2>6
<1>4. Runs(g)
  BY <1>3
<1> DEFINE h == [k \in 0 .. n |-> g[1 .. k]]
<1> HIDE DEF g
<1>5. g[{}] = a /\ \A s \in SUBSET (1 .. n) : s # {} => g[s] = Dispatch(g[s \ {Max(s)}], d[Max(s)])
  BY <1>1, <1>4
<1>6. h[0] = a
  <2>1. 1 .. 0 = {} /\ 0 \in 0 .. n
    BY <1>1
  <2> QED
    BY <1>5, <2>1
<1> HIDE DEF n
<1>7. \A k \in 1 .. n : h[k] = Dispatch(h[k - 1], d[k])
  <2> SUFFICES ASSUME NEW k \in 1 .. n
               PROVE  h[k] = Dispatch(h[k - 1], d[k])
    OBVIOUS
  <2>1. k \in 0 .. n /\ k - 1 \in 0 .. n
    BY <1>1
  <2>2. g[1 .. k] = Dispatch(g[(1 .. k) \ {Max(1 .. k)}], d[Max(1 .. k)])
    BY <1>1, <1>5, RunStep
  <2>3. Max(1 .. k) = k /\ (1 .. k) \ {k} = 1 .. k - 1
    BY <1>1, RunStep
  <2>4. g[1 .. k] = Dispatch(g[1 .. k - 1], d[k])
    BY <2>2, <2>3, Zenon
  <2> QED
    BY <2>1, <2>4
<1>8. FoldLeft(Dispatch, a, d) = h[n]
  <2>1. h[n] = g[1 .. n]
    BY <1>1
  <2> QED
    BY <1>1, <1>2, <2>1 DEF g
<1> HIDE DEF h
<1> QED
  BY <1>6, <1>7, <1>8 DEF n

(* No packets leave the callbacks' as they are, and another is dispatched     *)
(* after those before it.                                                     *)
LEMMA DispatchEmpty ==
  ASSUME NEW a \in Seq(Packets), NEW d \in Seq(Packets), Len(d) = 0
  PROVE  FoldLeft(Dispatch, a, d) = a
<1>1. PICK h : /\ h[0] = a
               /\ \A k \in 1 .. Len(d) : h[k] = Dispatch(h[k - 1], d[k])
               /\ FoldLeft(Dispatch, a, d) = h[Len(d)]
  BY DispatchRun
<1> QED
  BY <1>1

LEMMA DispatchAppend ==
  ASSUME NEW a \in Seq(Packets), NEW d \in Seq(Packets), NEW p \in Packets
  PROVE  FoldLeft(Dispatch, a, Append(d, p)) = Dispatch(FoldLeft(Dispatch, a, d), p)
<1> DEFINE n == Len(d)
           e == Append(d, p)
<1>1. n \in Nat /\ e \in Seq(Packets) /\ Len(e) = n + 1 /\ e[n + 1] = p /\ \A i \in 1 .. n : e[i] = d[i]
  OBVIOUS
<1>2. PICK f : /\ f[0] = a
               /\ \A k \in 1 .. n : f[k] = Dispatch(f[k - 1], d[k])
               /\ FoldLeft(Dispatch, a, d) = f[n]
  BY DispatchRun
<1> HIDE DEF e
<1>3. PICK g : /\ g[0] = a
               /\ \A k \in 1 .. n + 1 : g[k] = Dispatch(g[k - 1], e[k])
               /\ FoldLeft(Dispatch, a, e) = g[n + 1]
  <2>1. \E g : /\ g[0] = a
               /\ \A k \in 1 .. Len(e) : g[k] = Dispatch(g[k - 1], e[k])
               /\ FoldLeft(Dispatch, a, e) = g[Len(e)]
    BY <1>1, DispatchRun
  <2> QED
    BY <1>1, <2>1
<1> HIDE DEF n
<1> DEFINE S == {k \in Nat : k <= n => f[k] = g[k]}
<1>4. 0 \in S
  BY <1>2, <1>3
<1>5. ASSUME NEW k \in Nat, k \in S, k + 1 <= n
      PROVE  f[k + 1] = g[k + 1]
  <2>1. k + 1 \in 1 .. n /\ k + 1 \in 1 .. n + 1 /\ (k + 1) - 1 = k
    BY <1>1, <1>5
  <2>2. f[k + 1] = Dispatch(f[k], d[k + 1]) /\ g[k + 1] = Dispatch(g[k], e[k + 1])
    BY <1>2, <1>3, <2>1
  <2>3. f[k] = g[k] /\ d[k + 1] = e[k + 1]
    BY <1>1, <1>5, <2>1
  <2> QED
    BY <2>2, <2>3
<1>6. Nat \subseteq S
  <2>1. \A k \in Nat : k \in S => k + 1 \in S
    BY <1>1, <1>5
  <2> HIDE DEF S
  <2> QED
    BY <1>4, <2>1, Induction
<1>7. f[n] = g[n] /\ n + 1 \in 1 .. n + 1 /\ (n + 1) - 1 = n
  BY <1>1, <1>6
<1>8. g[n + 1] = Dispatch(g[n], p)
  BY <1>1, <1>3, <1>7
<1> QED
  BY <1>2, <1>3, <1>7, <1>8 DEF e
LEMMA TakeEmpty ==
  ASSUME NEW a \in Taken, NEW d \in Seq(Byte), Len(d) = 0
  PROVE  FoldLeft(TakeByte, a, d) = a
<1>1. PICK h : /\ h[0] = a
               /\ \A k \in 1 .. Len(d) : h[k] = TakeByte(h[k - 1], d[k])
               /\ FoldLeft(TakeByte, a, d) = h[Len(d)]
  BY TakeRun
<1> QED
  BY <1>1

LEMMA TakeAppend ==
  ASSUME NEW a \in Taken, NEW d \in Seq(Byte), NEW b \in Byte
  PROVE  FoldLeft(TakeByte, a, Append(d, b)) = TakeByte(FoldLeft(TakeByte, a, d), b)
<1> DEFINE n == Len(d)
           e == Append(d, b)
<1>1. n \in Nat /\ e \in Seq(Byte) /\ Len(e) = n + 1 /\ e[n + 1] = b /\ \A i \in 1 .. n : e[i] = d[i]
  OBVIOUS
<1>2. PICK f : /\ f[0] = a
               /\ \A k \in 1 .. n : f[k] = TakeByte(f[k - 1], d[k])
               /\ FoldLeft(TakeByte, a, d) = f[n]
  BY TakeRun
<1> HIDE DEF e
<1>3. PICK g : /\ g[0] = a
               /\ \A k \in 1 .. n + 1 : g[k] = TakeByte(g[k - 1], e[k])
               /\ FoldLeft(TakeByte, a, e) = g[n + 1]
  <2>1. \E g : /\ g[0] = a
               /\ \A k \in 1 .. Len(e) : g[k] = TakeByte(g[k - 1], e[k])
               /\ FoldLeft(TakeByte, a, e) = g[Len(e)]
    BY <1>1, TakeRun
  <2> QED
    BY <1>1, <2>1
<1> HIDE DEF n
<1> DEFINE S == {k \in Nat : k <= n => f[k] = g[k]}
<1>4. 0 \in S
  BY <1>2, <1>3
<1>5. ASSUME NEW k \in Nat, k \in S, k + 1 <= n
      PROVE  f[k + 1] = g[k + 1]
  <2>1. k + 1 \in 1 .. n /\ k + 1 \in 1 .. n + 1 /\ (k + 1) - 1 = k
    BY <1>1, <1>5
  <2>2. f[k + 1] = TakeByte(f[k], d[k + 1]) /\ g[k + 1] = TakeByte(g[k], e[k + 1])
    BY <1>2, <1>3, <2>1
  <2>3. f[k] = g[k] /\ d[k + 1] = e[k + 1]
    BY <1>1, <1>5, <2>1
  <2> QED
    BY <2>2, <2>3
<1>6. Nat \subseteq S
  <2>1. \A k \in Nat : k \in S => k + 1 \in S
    BY <1>1, <1>5
  <2> HIDE DEF S
  <2> QED
    BY <1>4, <2>1, Induction
<1>7. f[n] = g[n] /\ n + 1 \in 1 .. n + 1 /\ (n + 1) - 1 = n
  BY <1>1, <1>6
<1>8. g[n + 1] = TakeByte(g[n], b)
  BY <1>1, <1>3, <1>7
<1> QED
  BY <1>2, <1>3, <1>7, <1>8 DEF e

(* decode_packets, byte by byte: from nothing, through bytes that are not     *)
(* delimiters, which are all kept.                                            *)
LEMMA DecodingStep ==
  /\ \A d \in Seq(Byte) : Len(d) = 0 => DecodePackets(d) = [rest |-> <<>>, packets |-> <<>>]
  /\ \A d \in Seq(Byte), b \in Byte : DecodePackets(Append(d, b)) = TakeByte(DecodePackets(d), b)
<1> DEFINE a == [rest |-> <<>>, packets |-> <<>>]
<1>1. a \in Taken
  BY DEF Taken
<1>2. \A d : DecodePackets(d) = FoldLeft(TakeByte, a, d)
  BY DEF DecodePackets
<1> HIDE DEF a
<1>3. ASSUME NEW d \in Seq(Byte), Len(d) = 0
      PROVE  DecodePackets(d) = a
  BY <1>1, <1>3, TakeEmpty DEF DecodePackets, a
<1>4. ASSUME NEW d \in Seq(Byte), NEW b \in Byte
      PROVE  DecodePackets(Append(d, b)) = TakeByte(DecodePackets(d), b)
  <2>1. FoldLeft(TakeByte, a, Append(d, b)) = TakeByte(FoldLeft(TakeByte, a, d), b)
    BY <1>1, <1>4, TakeAppend
  <2> QED
    BY <2>1 DEF DecodePackets, a
<1> QED
  BY <1>3, <1>4 DEF a

LEMMA DecodingKeeps ==
  ASSUME NEW d \in Seq(Byte), \A i \in 1 .. Len(d) : d[i] # 0
  PROVE  DecodePackets(d) = [rest |-> d, packets |-> <<>>]
<1> DEFINE NoZero(c) == \A i \in 1 .. Len(c) : c[i] # 0
           S == {c \in Seq(Byte) : NoZero(c) => DecodePackets(c) = [rest |-> c, packets |-> <<>>]}
<1>1. <<>> \in S
  <2>1. <<>> \in Seq(Byte) /\ Len(<<>>) = 0
    OBVIOUS
  <2>2. DecodePackets(<<>>) = [rest |-> <<>>, packets |-> <<>>]
    BY <2>1, DecodingStep, Zenon
  <2> QED
    BY <2>1, <2>2
<1>2. ASSUME NEW c \in Seq(Byte), NEW b \in Byte, c \in S
      PROVE  Append(c, b) \in S
  <2> DEFINE e == Append(c, b)
  <2>1. /\ e \in Seq(Byte) /\ Len(c) \in Nat /\ Len(e) = Len(c) + 1 /\ e[Len(c) + 1] = b
        /\ \A i \in 1 .. Len(c) : e[i] = c[i]
    OBVIOUS
  <2>2. DecodePackets(e) = TakeByte(DecodePackets(c), b)
    BY DecodingStep
  <2> HIDE DEF e
  <2>3. ASSUME NoZero(e)
        PROVE  DecodePackets(e) = [rest |-> e, packets |-> <<>>]
    <3>1. NoZero(c) /\ b # 0
      BY <2>1, <2>3
    <3>2. DecodePackets(c) = [rest |-> c, packets |-> <<>>]
      BY <1>2, <3>1
    <3> DEFINE s == [rest |-> c, packets |-> <<>>]
    <3>3. TakeByte(s, b) = [s EXCEPT !.rest = Append(c, b)]
      BY <3>1 DEF TakeByte
    <3>4. DecodePackets(e) = [s EXCEPT !.rest = e]
      BY <2>2, <3>2, <3>3 DEF e
    <3> QED
      BY <3>4
  <2> HIDE DEF NoZero
  <2> QED
    BY <2>1, <2>3 DEF e
<1>3. Seq(Byte) \subseteq S
  <2>1. \A c \in Seq(Byte), b \in Byte : c \in S => Append(c, b) \in S
    BY <1>2
  <2> HIDE DEF S
  <2> QED
    BY <1>1, <2>1, ByteStrings
<1> QED
  BY <1>3
-------------------------------------------------------------------------------
(* FrameStream's promise for the packets.                                     *)
GoodPackets == {f \in Seq(Byte) : TelemetryFrames!Deliverable(f)}

LEMMA PacketDecoder ==
  ASSUME NEW f
  PROVE  TelemetryFrames!DecodePacket(f) = DecodePacket(f)
BY DEF TelemetryFrames!DecodePacket, TelemetryFrames!DecodeCobs, TelemetryFrames!Decoded,
       TelemetryFrames!Malformed, TelemetryFrames!BlockEnd, TelemetryFrames!ParsePacket,
       TelemetryFrames!NoPacket, TelemetryFrames!CRC_SIZE, TelemetryFrames!HEADER_SIZE,
       DecodePacket, DecodeCobs, Decoded, Malformed, BlockEnd, ParsePacket, NoPacket, CRC_SIZE, HEADER_SIZE

LEMMA GoodPacket ==
  ASSUME NEW f \in Seq(Byte)
  PROVE  f \in GoodPackets <=> /\ Len(f) \in 1 .. MaxSent * MAX_ENCODED_SIZE
                               /\ DecodePacket(f).ok /\ IsExpected(DecodePacket(f).packet)
BY PacketDecoder DEF GoodPackets, TelemetryFrames!Deliverable

LEMMA PacketsDelivered ==
  ASSUME NEW bytes \in Seq(Byte)
  PROVE  TelemetryFrames!DeliveredFrom(bytes) = Delivered(GoodPackets, bytes)
<1> DEFINE Step(by, n) ==
             IF n = 0 THEN <<>>
             ELSE LET frame == TelemetryFrames!FrameBefore(bytes, n) IN
                  IF bytes[n] = 0 /\ TelemetryFrames!Deliverable(frame)
                  THEN Append(by[n - 1], TelemetryFrames!DecodePacket(frame).packet) ELSE by[n - 1]
<1>1. ASSUME NEW by, NEW n \in 0 .. Len(bytes)
      PROVE  Step(by, n) = Delivery(GoodPackets, by, bytes, n)
  <2>1. CASE n = 0
    BY <2>1 DEF Delivery
  <2>2. CASE n # 0
    <3>1. TelemetryFrames!FrameBefore(bytes, n) = FrameOf(bytes, n)
      BY DEF TelemetryFrames!FrameBefore, TelemetryFrames!Max, Max, FrameOf, Zeros
    <3>2. n \in Nat /\ n <= Len(bytes) + 1
      OBVIOUS
    <3>3. FrameOf(bytes, n) \in Seq(Byte)
      BY <3>2, FrameType
    <3>4. TelemetryFrames!Deliverable(FrameOf(bytes, n)) <=> FrameOf(bytes, n) \in GoodPackets
      BY <3>3 DEF GoodPackets
    <3>5. TelemetryFrames!DecodePacket(FrameOf(bytes, n)) = DecodePacket(FrameOf(bytes, n))
      BY PacketDecoder
    <3>6. Step(by, n) = IF bytes[n] = 0 /\ TelemetryFrames!Deliverable(FrameOf(bytes, n))
                        THEN Append(by[n - 1], TelemetryFrames!DecodePacket(FrameOf(bytes, n)).packet)
                        ELSE by[n - 1]
      BY <2>2, <3>1, Zenon
    <3> HIDE DEF Step
    <3>7. Step(by, n) = IF bytes[n] = 0 /\ FrameOf(bytes, n) \in GoodPackets
                        THEN Append(by[n - 1], DecodePacket(FrameOf(bytes, n)).packet)
                        ELSE by[n - 1]
      BY <3>4, <3>5, <3>6, Zenon
    <3> QED
      BY <2>2, <3>7, Zenon DEF Delivery
  <2> QED
    BY <2>1, <2>2
<1> DEFINE Takes(by) == by = [n \in 0 .. Len(bytes) |-> Step(by, n)]
<1>2. TelemetryFrames!DeliveredFrom(bytes) = (CHOOSE by : Takes(by))[Len(bytes)]
  BY DEF TelemetryFrames!DeliveredFrom
<1>3. \A by : Takes(by) <=> Delivers(GoodPackets, by, bytes)
  <2> HIDE DEF Step
  <2> QED
    BY <1>1 DEF Delivers
<1> HIDE DEF Takes
<1>4. (CHOOSE by : Takes(by)) = (CHOOSE by : Delivers(GoodPackets, by, bytes))
  BY <1>3
<1> QED
  BY <1>2, <1>4 DEF Delivered

(* What is deliverable decodes, so what is delivered is packets.              *)
Decodes(good) == \A f \in good : f \in Seq(Byte) /\ DecodePacket(f).ok

LEMMA GoodDecode == Decodes(GoodCommands) /\ Decodes(GoodPackets)
<1>1. \A f \in GoodCommands : f \in Seq(Byte) /\ DecodePacket(f).ok
  BY CommandDecoder DEF GoodCommands, CommandFrames!Deliverable
<1>2. \A f \in GoodPackets : f \in Seq(Byte) /\ DecodePacket(f).ok
  BY PacketDecoder DEF GoodPackets, TelemetryFrames!Deliverable
<1> QED
  BY <1>1, <1>2 DEF Decodes

LEMMA DeliveredType ==
  ASSUME NEW good, Decodes(good), NEW bytes \in Seq(Byte)
  PROVE  Delivered(good, bytes) \in Seq(Packets)
<1> DEFINE S == {c \in Seq(Byte) : Delivered(good, c) \in Seq(Packets)}
<1>1. <<>> \in S
  <2>1. Delivered(good, <<>>) = <<>>
    BY DeliveredEmpty
  <2>2. <<>> \in Seq(Byte) /\ <<>> \in Seq(Packets)
    OBVIOUS
  <2> QED
    BY <2>1, <2>2
<1>2. ASSUME NEW c \in Seq(Byte), NEW b \in Byte, c \in S
      PROVE  Append(c, b) \in S
  <2> DEFINE r == Rest(c)
             D == Delivered(good, c)
  <2>1. Append(c, b) \in Seq(Byte) /\ D \in Seq(Packets)
    BY <1>2
  <2>2. Delivered(good, Append(c, b)) = IF b = 0 /\ r \in good
                                        THEN Append(D, DecodePacket(r).packet) ELSE D
    BY DeliveredAppend
  <2> HIDE DEF r, D
  <2>3. r \in good => DecodePacket(r).packet \in Packets
    BY DecodedIsPacket DEF Decodes
  <2>4. Delivered(good, Append(c, b)) \in Seq(Packets)
    BY <2>1, <2>2, <2>3
  <2> QED
    BY <2>1, <2>4
<1>3. Seq(Byte) \subseteq S
  <2>1. \A c \in Seq(Byte), b \in Byte : c \in S => Append(c, b) \in S
    BY <1>2
  <2> HIDE DEF S
  <2> QED
    BY <1>1, <2>1, ByteStrings
<1> QED
  BY <1>3
-------------------------------------------------------------------------------
(* A frame that has not ended is no longer than what has been received, and   *)
(* has no delimiter in it.                                                    *)
LEMMA RestFits ==
  ASSUME NEW bytes \in Seq(Byte)
  PROVE  Len(Rest(bytes)) <= Len(bytes)
<1> DEFINE n == Len(bytes)
           z == Max(Zeros(bytes, n + 1))
<1>1. n \in Nat /\ n + 1 \in Nat
  OBVIOUS
<1>2. z \in Zeros(bytes, n + 1) /\ Rest(bytes) = SubSeq(bytes, z + 1, (n + 1) - 1)
  BY <1>1, LastZero DEF Rest
<1>3. z \in Nat /\ (n + 1) - 1 = n
  BY <1>1, <1>2 DEF Zeros
<1> HIDE DEF z, n
<1>4. Len(SubSeq(bytes, z + 1, n)) = IF z + 1 <= n THEN (n - (z + 1)) + 1 ELSE 0
  <2>1. z + 1 \in Int /\ n \in Int
    BY <1>1, <1>3
  <2>2. \A i \in z + 1 .. n : bytes[i] \in Byte
    BY <1>3 DEF n
  <2> QED
    BY <2>1, <2>2, SubSeqProperties
<1> QED
  BY <1>1, <1>2, <1>3, <1>4 DEF n

LEMMA RestHasNoZero ==
  ASSUME NEW bytes \in Seq(Byte)
  PROVE  Rest(bytes) \in Seq(Byte \ {0})
<1> DEFINE S == {c \in Seq(Byte) : Rest(c) \in Seq(Byte \ {0})}
<1>1. <<>> \in S
  <2>1. <<>> \in Seq(Byte) /\ <<>> \in Seq(Byte \ {0})
    OBVIOUS
  <2> QED
    BY <2>1, RestEmpty
<1>2. ASSUME NEW c \in Seq(Byte), NEW b \in Byte, c \in S
      PROVE  Append(c, b) \in S
  <2> DEFINE r == Rest(c)
  <2>1. r \in Seq(Byte \ {0}) /\ Append(c, b) \in Seq(Byte)
    BY <1>2
  <2>2. /\ b # 0 => Rest(Append(c, b)) = Append(r, b)
        /\ b = 0 => Rest(Append(c, b)) = <<>>
    BY RestGrows
  <2> HIDE DEF r
  <2>3. Rest(Append(c, b)) \in Seq(Byte \ {0})
    <3>1. b # 0 => Append(r, b) \in Seq(Byte \ {0})
      BY <2>1
    <3>2. <<>> \in Seq(Byte \ {0})
      OBVIOUS
    <3> QED
      BY <2>2, <3>1, <3>2
  <2> QED
    BY <2>1, <2>3
<1>3. Seq(Byte) \subseteq S
  <2>1. \A c \in Seq(Byte), b \in Byte : c \in S => Append(c, b) \in S
    BY <1>2
  <2> HIDE DEF S
  <2> QED
    BY <1>1, <2>1, ByteStrings
<1> QED
  BY <1>3

(* What the read thread makes of bytes that follow the ones it has read: it   *)
(* keeps the frame that has not ended, and the callbacks use what FrameStream *)
(* delivers, whatever piece the bytes are.                                    *)
MaxRead == MaxSent * MAX_ENCODED_SIZE

ReadsOn(bytes, e) ==
  LET decoded == DecodePackets(Rest(bytes) \o e) IN
  /\ decoded \in Taken /\ decoded.rest = Rest(bytes \o e)
  /\ FoldLeft(Dispatch, Delivered(GoodPackets, bytes), decoded.packets) = Delivered(GoodPackets, bytes \o e)

LEMMA ReadNothing ==
  ASSUME NEW bytes \in Seq(Byte)
  PROVE  ReadsOn(bytes, <<>>)
<1> DEFINE r == Rest(bytes)
           D == Delivered(GoodPackets, bytes)
<1>1. r \in Seq(Byte \ {0}) /\ r \in Seq(Byte) /\ D \in Seq(Packets)
  BY RestHasNoZero, RestType, DeliveredType, GoodDecode
<1>2. r \o <<>> = r /\ bytes \o <<>> = bytes
  BY <1>1, ConcatEmptySeq
<1> HIDE DEF r, D
<1>3. DecodePackets(r) = [rest |-> r, packets |-> <<>>]
  BY <1>1, DecodingKeeps
<1> DEFINE none == <<>>
<1>4. none \in Seq(Packets) /\ Len(none) = 0
  OBVIOUS
<1> HIDE DEF none
<1>5. FoldLeft(Dispatch, D, none) = D
  BY <1>1, <1>4, DispatchEmpty
<1>6. DecodePackets(r).rest = r /\ DecodePackets(r).packets = none
  BY <1>3 DEF none
<1>7. DecodePackets(r) \in Taken
  <2>1. <<>> \in Seq(Packets)
    OBVIOUS
  <2> QED
    BY <1>1, <1>3, <2>1 DEF Taken
<1> QED
  BY <1>2, <1>5, <1>6, <1>7, Zenon DEF ReadsOn, r, D

LEMMA BytesAppend ==
  \A s, t \in Seq(Byte), b \in Byte : Append(s \o t, b) = s \o Append(t, b)
<1>1. \A s, t \in Seq(Byte), b \in Byte :
        Append(s \o t, b) = (s \o t) \o <<b>> /\ Append(t, b) = t \o <<b>> /\ <<b>> \in Seq(Byte)
  BY AppendIsConcat, ConcatProperties
<1> QED
  BY <1>1, Associative

LEMMA ReadOneMore ==
  ASSUME NEW bytes \in Seq(Byte), NEW e \in Seq(Byte), NEW b \in Byte, ReadsOn(bytes, e),
         Len(bytes \o e) <= MaxRead
  PROVE  ReadsOn(bytes, Append(e, b))
<1> DEFINE r == Rest(bytes)
           c == bytes \o e
           d == r \o e
           D == Delivered(GoodPackets, bytes)
           G == Delivered(GoodPackets, c)
           s == DecodePackets(d)
           t == DecodePackets(Append(d, b))
           u == Rest(c)
<1>1. r \in Seq(Byte) /\ D \in Seq(Packets)
  BY RestType, DeliveredType, GoodDecode
<1>2. c \in Seq(Byte)
  BY ConcatProperties
<1>3. d \in Seq(Byte)
  <2> HIDE DEF r
  <2> QED
    BY <1>1, ConcatProperties
<1>4. r \o Append(e, b) = Append(d, b) /\ bytes \o Append(e, b) = Append(c, b)
  <2>1. \A x \in Seq(Byte) : Append(x \o e, b) = x \o Append(e, b)
    BY BytesAppend
  <2> HIDE DEF r
  <2> QED
    BY <1>1, <2>1
<1>5. s \in Taken /\ s.rest = u /\ FoldLeft(Dispatch, D, s.packets) = G
  BY DEF ReadsOn
<1>6. t = TakeByte(s, b)
  <2> HIDE DEF d
  <2> QED
    BY <1>3, DecodingStep
<1>7. u \in Seq(Byte) /\ Len(u) \in Nat /\ Len(u) <= MaxRead
  <2> HIDE DEF c
  <2>1. Len(u) <= Len(c) /\ u \in Seq(Byte) /\ Len(u) \in Nat /\ Len(c) \in Nat
    BY <1>2, RestFits, RestType
  <2>2. Len(c) <= MaxRead
    BY DEF c
  <2>3. MaxRead \in Int
    <3>1. MaxSent \in Nat /\ MAX_ENCODED_SIZE \in Nat
      BY LineAssumption, SizeIsNat
    <3> QED
      BY <3>1 DEF MaxRead
  <2> HIDE DEF u
  <2> QED
    BY <2>1, <2>2, <2>3
<1>8. /\ b # 0 => Rest(Append(c, b)) = Append(u, b)
      /\ b = 0 => Rest(Append(c, b)) = <<>>
  <2> HIDE DEF c
  <2> QED
    BY <1>2, RestGrows
<1>9. Delivered(GoodPackets, Append(c, b)) = IF b = 0 /\ u \in GoodPackets
                                             THEN Append(G, DecodePacket(u).packet) ELSE G
  <2> HIDE DEF c
  <2> QED
    BY <1>2, DeliveredAppend
<1>10. ReadsOn(bytes, Append(e, b)) <=>
            /\ t \in Taken /\ t.rest = Rest(Append(c, b))
            /\ FoldLeft(Dispatch, D, t.packets) = Delivered(GoodPackets, Append(c, b))
  <2>1. ReadsOn(bytes, Append(e, b)) <=>
          LET decoded == DecodePackets(r \o Append(e, b)) IN
          /\ decoded \in Taken /\ decoded.rest = Rest(bytes \o Append(e, b))
          /\ FoldLeft(Dispatch, D, decoded.packets) = Delivered(GoodPackets, bytes \o Append(e, b))
    BY DEF ReadsOn
  <2> HIDE DEF r, c, d, D
  <2> QED
    BY <1>4, <2>1, Zenon
<1> HIDE DEF r, c, d, D, G, s, t, u
<1>11. t \in Taken
  BY <1>5, <1>6, TakeByteType
<1>12. CASE b # 0
  <2>1. t = [s EXCEPT !.rest = Append(u, b)]
    BY <1>5, <1>6, <1>12 DEF TakeByte
  <2>2. t.packets = s.packets /\ t.rest = Append(u, b)
    BY <1>5, <2>1 DEF Taken
  <2> QED
    BY <1>5, <1>8, <1>9, <1>10, <1>11, <1>12, <2>2
<1>13. CASE b = 0
  <2> DEFINE next == IF DecodePacket(u).ok THEN Append(s.packets, DecodePacket(u).packet) ELSE s.packets
  <2>1. t = [s EXCEPT !.rest = <<>>, !.packets = next]
    BY <1>5, <1>6, <1>13 DEF TakeByte
  <2>2. s.packets \in Seq(Packets)
    BY <1>5 DEF Taken
  <2> HIDE DEF next
  <2>3. t.rest = <<>> /\ t.packets = next
    BY <1>5, <2>1 DEF Taken
  <2>4. FoldLeft(Dispatch, D, next) = Delivered(GoodPackets, Append(c, b))
    <3>1. CASE DecodePacket(u).ok
      <4> DEFINE p == DecodePacket(u).packet
      <4>1. p \in Packets /\ next = Append(s.packets, p)
        BY <1>7, <3>1, DecodedIsPacket DEF next
      <4> HIDE DEF p
      <4>2. FoldLeft(Dispatch, D, next) = Dispatch(FoldLeft(Dispatch, D, s.packets), p)
        BY <1>1, <2>2, <4>1, DispatchAppend
      <4>3. FoldLeft(Dispatch, D, next) = IF IsExpected(p) THEN Append(G, p) ELSE G
        BY <1>5, <4>2 DEF Dispatch
      <4>4. u # <<>>
        BY <3>1, NothingDecoded
      <4>5. Len(u) \in 1 .. MaxRead
        BY <1>7, <4>4 DEF MaxRead
      <4>6. u \in GoodPackets <=> IsExpected(p)
        BY <1>7, <3>1, <4>5, GoodPacket DEF p, MaxRead
      <4> QED
        BY <1>9, <1>13, <4>3, <4>6 DEF p
    <3>2. CASE ~DecodePacket(u).ok
      <4>1. next = s.packets
        BY <3>2 DEF next
      <4>2. ~u \in GoodPackets
        BY <1>7, <3>2, GoodPacket
      <4> QED
        BY <1>5, <1>9, <4>1, <4>2
    <3> QED
      BY <3>1, <3>2
  <2> QED
    BY <1>8, <1>10, <1>11, <1>13, <2>3, <2>4
<1> QED
  BY <1>12, <1>13

LEMMA ReadAny ==
  ASSUME NEW bytes \in Seq(Byte), NEW e \in Seq(Byte), Len(bytes \o e) <= MaxRead
  PROVE  ReadsOn(bytes, e)
<1> DEFINE S == {d \in Seq(Byte) : Len(bytes \o d) <= MaxRead => ReadsOn(bytes, d)}
<1>1. <<>> \in S
  BY ReadNothing
<1>2. ASSUME NEW d \in Seq(Byte), NEW b \in Byte, d \in S
      PROVE  Append(d, b) \in S
  <2>1. Len(bytes \o Append(d, b)) <= MaxRead => Len(bytes \o d) <= MaxRead
    <3>1. Len(bytes) \in Nat /\ Len(d) \in Nat /\ Append(d, b) \in Seq(Byte) /\ Len(Append(d, b)) = Len(d) + 1
      OBVIOUS
    <3>2. /\ Len(bytes \o Append(d, b)) = Len(bytes) + (Len(d) + 1)
          /\ Len(bytes \o d) = Len(bytes) + Len(d)
      BY <3>1, ConcatProperties
    <3>3. MaxRead \in Int
      <4>1. MaxSent \in Nat /\ MAX_ENCODED_SIZE \in Nat
        BY LineAssumption, SizeIsNat
      <4> QED
        BY <4>1 DEF MaxRead
    <3> QED
      BY <3>1, <3>2, <3>3
  <2>2. Append(d, b) \in Seq(Byte)
    OBVIOUS
  <2> QED
    BY <1>2, <2>1, <2>2, ReadOneMore
<1>3. Seq(Byte) \subseteq S
  <2>1. \A d \in Seq(Byte), b \in Byte : d \in S => Append(d, b) \in S
    BY <1>2
  <2> HIDE DEF S
  <2> QED
    BY <1>1, <2>1, ByteStrings
<1> QED
  BY <1>3-------------------------------------------------------------------------------
(* What is kept is the frame that has not ended, and the callbacks have used  *)
(* what FrameStream delivers.  No frame is longer than the bytes that can     *)
(* have been put on the line.                                                 *)
TelemetryInv ==
  /\ TelemetryTypeOK
  /\ sent \in Seq(Samples) /\ Len(sent) <= MaxSent
  /\ received \in Seq(Byte) /\ Len(received \o line) <= Len(sent) * MAX_ENCODED_SIZE
  /\ accumulated_ = Rest(received)
  /\ accepted = Delivered(GoodPackets, received)

LEMMA TelemetryInitKeeps == TelemetryInit => TelemetryInv
<1> SUFFICES ASSUME TelemetryInit
             PROVE  TelemetryInv
  OBVIOUS
<1>1. /\ line = <<>> /\ last_byte = 0 /\ faults = 0 /\ sent = <<>> /\ received = <<>>
      /\ accumulated_ = <<>> /\ accepted = <<>>
  BY DEF TelemetryInit, LineInit
<1>2. MaxFaults \in Nat /\ MaxSent \in Nat /\ 0 \in Byte /\ MAX_ENCODED_SIZE \in Nat
  BY LineAssumption, ByteFacts, SizeIsNat
<1>3. TelemetryTypeOK
  BY <1>1, <1>2 DEF TelemetryTypeOK
<1>4. <<>> \o <<>> = <<>> /\ Len(<<>>) = 0
  BY ConcatEmptySeq
<1>5. sent \in Seq(Samples) /\ Len(sent) <= MaxSent /\ received \in Seq(Byte)
  BY <1>1, <1>2
<1>6. Len(received \o line) <= Len(sent) * MAX_ENCODED_SIZE
  BY <1>1, <1>2, <1>4
<1> QED
  BY <1>1, <1>3, <1>5, <1>6, RestEmpty, DeliveredEmpty DEF TelemetryInv

LEMMA SendPacketKeeps ==
  ASSUME CrcIsByte, TelemetryInv, SendPacket
  PROVE  TelemetryInv'
<1>1. PICK p \in Samples : Send(p)
  BY DEF SendPacket
<1>2. p \in Packets /\ Len(p.payload) <= MAX_PAYLOAD_SIZE
  BY SampleAssumption DEF Packets
<1>3. /\ line \in Seq(Byte) /\ last_byte \in Byte /\ faults \in 0 .. MaxFaults /\ received \in Seq(Byte)
      /\ sent \in Seq(Samples) /\ Len(received \o line) <= Len(sent) * MAX_ENCODED_SIZE
  BY DEF TelemetryInv, TelemetryTypeOK
<1>4. PICK e \in Seq(Byte) : CanSend /\ Put(p, e) /\ Len(e) <= MAX_ENCODED_SIZE
  BY <1>1, <1>2, <1>3, SendPuts
<1>5. /\ line' \in Seq(Byte) /\ last_byte' \in Byte /\ faults' \in 0 .. MaxFaults
      /\ sent' = Append(sent, p)
  BY <1>1, <1>2, <1>3, SendTypes
<1>6. UNCHANGED <<accumulated_, received, accepted>>
  BY DEF SendPacket
<1>7. sent' \in Seq(Samples) /\ Len(sent') = Len(sent) + 1 /\ Len(sent') <= MaxSent
  BY <1>3, <1>4, <1>5, LineAssumption DEF CanSend
<1>8. Len(received' \o line') <= Len(sent') * MAX_ENCODED_SIZE
  <2> DEFINE c == received \o line
             M == MAX_ENCODED_SIZE
  <2>1. received' \o line' = c \o e
    <3>1. line' = line \o e
      BY <1>4 DEF Put
    <3>2. \A x \in Seq(Byte) : x \o (line \o e) = (x \o line) \o e
      BY <1>3, Associative
    <3> QED
      BY <1>3, <1>6, <3>1, <3>2
  <2>2. c \in Seq(Byte)
    BY <1>3, ConcatProperties
  <2> HIDE DEF c
  <2>3. Len(c \o e) = Len(c) + Len(e) /\ Len(c) \in Nat /\ Len(e) \in Nat
    BY <2>2, ConcatProperties
  <2>4. Len(c) <= Len(sent) * M /\ Len(e) <= M /\ M \in Nat /\ Len(sent) \in Nat
    BY <1>3, <1>4, SizeIsNat DEF c
  <2> HIDE DEF M
  <2>5. (Len(sent) + 1) * M = Len(sent) * M + M /\ Len(sent) * M \in Nat
    BY <2>4
  <2>6. Len(c \o e) <= (Len(sent) + 1) * M
    BY <2>3, <2>4, <2>5
  <2> QED
    BY <1>7, <2>1, <2>6 DEF M
<1> QED
  BY <1>3, <1>5, <1>6, <1>7, <1>8 DEF TelemetryInv, TelemetryTypeOK

(* A read splits the line, and what has been received stays within bounds.    *)
LEMMA ReadFits ==
  ASSUME TelemetryInv, NEW n \in Chunks
  PROVE  LET e == SubSeq(line, 1, n)
             rest == SubSeq(line, n + 1, Len(line))
         IN  /\ e \in Seq(Byte) /\ e # <<>> /\ rest \in Seq(Byte) /\ received \o e \in Seq(Byte)
             /\ (received \o e) \o rest = received \o line
             /\ Len(received \o e) <= MaxRead
<1> DEFINE e == SubSeq(line, 1, n)
           rest == SubSeq(line, n + 1, Len(line))
           m == Len(line)
<1>1. /\ line \in Seq(Byte) /\ received \in Seq(Byte) /\ sent \in Seq(Samples) /\ Len(sent) <= MaxSent
      /\ Len(received \o line) <= Len(sent) * MAX_ENCODED_SIZE
  BY DEF TelemetryInv, TelemetryTypeOK
<1>2. m \in Nat /\ n \in 1 .. m
  <2>1. m \in Nat
    BY <1>1
  <2> QED
    BY <2>1, ChunkAssumption DEF Chunks
<1>3. e \in Seq(Byte) /\ rest \in Seq(Byte) /\ Len(e) = n /\ line = e \o rest
  <2>1. e \in Seq(Byte) /\ rest \in Seq(Byte) /\ Len(e) = n
    BY <1>1, <1>2
  <2>2. 1 \in 1 .. m + 1 /\ n \in 1 - 1 .. m /\ m \in n .. m
    BY <1>2
  <2>3. e \o rest = SubSeq(line, 1, m)
    BY <1>1, <2>2, ConcatAdjacentSubSeq
  <2>4. SubSeq(line, 1, m) = line
    BY <1>1, SubSeqFull
  <2> HIDE DEF e, rest, m
  <2> QED
    BY <2>1, <2>3, <2>4
<1> HIDE DEF e, rest, m
<1>4. (received \o e) \o rest = received \o line
  <2>1. \A x \in Seq(Byte) : x \o (e \o rest) = (x \o e) \o rest
    BY <1>3, Associative
  <2> QED
    BY <1>1, <1>3, <2>1
<1> DEFINE c == received \o e
<1>5. c \in Seq(Byte)
  BY <1>1, <1>3, ConcatProperties
<1>6. Len(c) <= MaxRead
  <2> HIDE DEF c
  <2>1. Len(c \o rest) = Len(c) + Len(rest) /\ Len(c) \in Nat /\ Len(rest) \in Nat
    BY <1>3, <1>5, ConcatProperties
  <2>2. Len(c) <= Len(received \o line)
    BY <1>4, <2>1 DEF c
  <2>3. Len(sent) * MAX_ENCODED_SIZE <= MaxRead
    <3>1. \A j, k, l \in Nat : j <= k => j * l <= k * l
      OBVIOUS
    <3>2. Len(sent) \in Nat /\ MaxSent \in Nat /\ MAX_ENCODED_SIZE \in Nat
      BY <1>1, LineAssumption, SizeIsNat
    <3> QED
      BY <1>1, <3>1, <3>2 DEF MaxRead
  <2>4. Len(received \o line) \in Int /\ Len(sent) * MAX_ENCODED_SIZE \in Int /\ MaxRead \in Int
    <3>1. Len(sent) \in Nat /\ MaxSent \in Nat /\ MAX_ENCODED_SIZE \in Nat
      BY <1>1, LineAssumption, SizeIsNat
    <3>2. Len(received \o line) \in Nat
      BY <1>1, ConcatProperties
    <3> QED
      BY <3>1, <3>2 DEF MaxRead
  <2> QED
    BY <1>1, <2>1, <2>2, <2>3, <2>4
<1>7. e # <<>>
  BY <1>2, <1>3
<1> HIDE DEF c
<1>8. /\ e \in Seq(Byte) /\ e # <<>> /\ rest \in Seq(Byte) /\ received \o e \in Seq(Byte)
      /\ (received \o e) \o rest = received \o line
      /\ Len(received \o e) <= MaxRead
  BY <1>3, <1>4, <1>5, <1>6, <1>7 DEF c
<1> QED
  BY <1>8 DEF e, rest

LEMMA PollConnectionKeeps ==
  ASSUME TelemetryInv, PollConnection
  PROVE  TelemetryInv'
<1>1. PICK n \in Chunks :
        /\ ReadChunk(n)
        /\ accepted' = FoldLeft(Dispatch, accepted, DecodePackets(accumulated_ \o SubSeq(line, 1, n)).packets)
        /\ accumulated_' = DecodePackets(accumulated_ \o SubSeq(line, 1, n)).rest
  BY DEF PollConnection
<1> DEFINE e == SubSeq(line, 1, n)
           rest == SubSeq(line, n + 1, Len(line))
<1>2. /\ e \in Seq(Byte) /\ rest \in Seq(Byte) /\ received \o e \in Seq(Byte)
      /\ (received \o e) \o rest = received \o line
      /\ Len(received \o e) <= MaxRead
  BY ReadFits
<1>3. line' = rest /\ received' = received \o e /\ UNCHANGED <<sent, clean, last_byte, faults>>
  BY <1>1 DEF ReadChunk
<1>4. /\ accepted' = FoldLeft(Dispatch, accepted, DecodePackets(accumulated_ \o e).packets)
      /\ accumulated_' = DecodePackets(accumulated_ \o e).rest
  BY <1>1
<1> HIDE DEF e, rest
<1>5. ReadsOn(received, e)
  BY <1>2, ReadAny DEF TelemetryInv
<1>6. accumulated_' = Rest(received') /\ accepted' = Delivered(GoodPackets, received')
  BY <1>3, <1>4, <1>5 DEF ReadsOn, TelemetryInv
<1>7. accumulated_' \in Seq(Byte \ {0})
  BY <1>2, <1>3, <1>6, RestHasNoZero
<1>8. TelemetryTypeOK'
  BY <1>2, <1>3, <1>7 DEF TelemetryInv, TelemetryTypeOK
<1>9. Len(received' \o line') <= Len(sent') * MAX_ENCODED_SIZE
  BY <1>2, <1>3 DEF TelemetryInv
<1> QED
  BY <1>2, <1>3, <1>6, <1>8, <1>9 DEF TelemetryInv

LEMMA TelemetryNextKeeps ==
  ASSUME CrcIsByte
  PROVE  TelemetryInv /\ [TelemetryNext]_telemetryVars => TelemetryInv'
<1> SUFFICES ASSUME TelemetryInv, [TelemetryNext]_telemetryVars
             PROVE  TelemetryInv'
  OBVIOUS
<1>1. CASE UNCHANGED telemetryVars
  BY <1>1 DEF telemetryVars, lineVars, TelemetryInv, TelemetryTypeOK
<1> QED
  BY <1>1, SendPacketKeeps, PollConnectionKeeps DEF TelemetryNext

LEMMA TelemetryInvariant ==
  ASSUME CrcIsByte
  PROVE  TelemetrySpec => []TelemetryInv
<1>1. TelemetryInit => TelemetryInv
  BY TelemetryInitKeeps
<1>2. TelemetryInv /\ [TelemetryNext]_telemetryVars => TelemetryInv'
  BY TelemetryNextKeeps
<1> QED
  BY <1>1, <1>2, PTL DEF TelemetrySpec

(* TelemetryTypeOK: between two reads the Pi's client (client.cpp) keeps      *)
(* bytes with no delimiter among them, whatever pieces they came in.          *)
THEOREM TelemetryTypeCorrect ==
  ASSUME CrcIsByte
  PROVE  TelemetrySpec => []TelemetryTypeOK
<1>1. TelemetryInv => TelemetryTypeOK
  BY DEF TelemetryInv
<1> QED
  BY <1>1, TelemetryInvariant, PTL

LEMMA TelemetryStepIsReceive ==
  ASSUME TelemetryInv, TelemetryInv', [TelemetryNext]_telemetryVars
  PROVE  [TelemetryFrames!Receive]_<<received, accepted>>
<1>1. CASE PollConnection
  <2>1. PICK n \in Chunks : ReadChunk(n)
    BY <1>1 DEF PollConnection
  <2> DEFINE e == SubSeq(line, 1, n)
  <2>2. e \in Seq(Byte) /\ e # <<>>
    BY ReadFits
  <2>3. received' = received \o e /\ received \in Seq(Byte)
    BY <2>1 DEF ReadChunk, TelemetryInv
  <2> HIDE DEF e
  <2>4. TelemetryFrames!IsStrictPrefix(received, received')
    BY <2>2, <2>3, GrownPrefix DEF TelemetryFrames!IsStrictPrefix, TelemetryFrames!IsPrefix
  <2>5. accepted' = TelemetryFrames!DeliveredFrom(received')
    BY PacketsDelivered DEF TelemetryInv
  <2> QED
    BY <2>4, <2>5 DEF TelemetryFrames!Receive
<1>2. CASE SendPacket \/ UNCHANGED telemetryVars
  <2>1. UNCHANGED <<received, accepted>>
    BY <1>2 DEF SendPacket, telemetryVars, lineVars
  <2> QED
    BY <2>1
<1> QED
  BY <1>1, <1>2 DEF TelemetryNext

(* TelemetryImplementsFrameStream: poll_connection and decode_packets         *)
(* (client.cpp, packet.cpp) use what FrameStream says of the bytes received,  *)
(* whatever pieces they are read in, and whatever is lost or corrupted.       *)
THEOREM TelemetryImplements ==
  ASSUME CrcIsByte
  PROVE  TelemetrySpec => TelemetryImplementsFrameStream
<1>1. TelemetryInit => TelemetryFrames!Init
  BY DEF TelemetryInit, LineInit, TelemetryFrames!Init
<1>2. /\ TelemetryInv /\ TelemetryInv' /\ [TelemetryNext]_telemetryVars
      => [TelemetryFrames!Receive]_<<received, accepted>>
  BY TelemetryStepIsReceive
<1> QED
  BY <1>1, <1>2, TelemetryInvariant, PTL
     DEF TelemetrySpec, TelemetryImplementsFrameStream, TelemetryFrames!Spec
-------------------------------------------------------------------------------
(* Every wanted packet of s has a place of its own in t, in the same order.   *)
Wanted(wanted, s) == {i \in 1 .. Len(s) : s[i] \in wanted}

InOrder(wanted, s, t) ==
  \E f \in [Wanted(wanted, s) -> 1 .. Len(t)] :
    \A i, j \in Wanted(wanted, s) : t[f[i]] = s[i] /\ (i < j => f[i] < f[j])

LEMMA InOrderEmpty ==
  ASSUME NEW wanted, NEW t
  PROVE  InOrder(wanted, <<>>, t)
<1>1. Wanted(wanted, <<>>) = {}
  BY DEF Wanted
<1> DEFINE f == [i \in {} |-> 0]
<1>2. f \in [Wanted(wanted, <<>>) -> 1 .. Len(t)]
  BY <1>1
<1> QED
  BY <1>1, <1>2 DEF InOrder

(* It stays so when t grows, when both do alike, and when s grows by a packet *)
(* that is not wanted.                                                        *)
LEMMA InOrderLonger ==
  ASSUME NEW wanted, NEW s \in Seq(Packets), NEW t \in Seq(Packets), NEW p \in Packets,
         InOrder(wanted, s, t)
  PROVE  InOrder(wanted, s, Append(t, p))
<1> DEFINE u == Append(t, p)
           W == Wanted(wanted, s)
<1>1. PICK f \in [W -> 1 .. Len(t)] : \A i, j \in W : t[f[i]] = s[i] /\ (i < j => f[i] < f[j])
  BY DEF InOrder
<1>2. Len(t) \in Nat /\ Len(u) = Len(t) + 1 /\ \A k \in 1 .. Len(t) : u[k] = t[k]
  OBVIOUS
<1> HIDE DEF u, W
<1>3. f \in [W -> 1 .. Len(u)]
  BY <1>1, <1>2
<1>4. \A i, j \in W : u[f[i]] = s[i] /\ (i < j => f[i] < f[j])
  BY <1>1, <1>2
<1> QED
  BY <1>3, <1>4 DEF InOrder, u, W

LEMMA InOrderBoth ==
  ASSUME NEW wanted, NEW s \in Seq(Packets), NEW t \in Seq(Packets), NEW p \in Packets,
         InOrder(wanted, s, t)
  PROVE  InOrder(wanted, Append(s, p), Append(t, p))
<1> DEFINE u == Append(t, p)
           v == Append(s, p)
           W == Wanted(wanted, s)
           X == Wanted(wanted, v)
           m == Len(s)
           n == Len(t)
<1>1. PICK f \in [W -> 1 .. n] : \A i, j \in W : t[f[i]] = s[i] /\ (i < j => f[i] < f[j])
  BY DEF InOrder
<1>2. n \in Nat /\ Len(u) = n + 1 /\ u[n + 1] = p /\ \A k \in 1 .. n : u[k] = t[k]
  OBVIOUS
<1>3. m \in Nat /\ Len(v) = m + 1 /\ v[m + 1] = p /\ \A k \in 1 .. m : v[k] = s[k]
  OBVIOUS
<1>4. W \subseteq 1 .. m
  BY DEF Wanted
<1>5. \A i \in X : i = m + 1 \/ i \in W
  <2> HIDE DEF v, m
  <2>1. \A i \in 1 .. m + 1 : i = m + 1 \/ i \in 1 .. m
    BY <1>3
  <2> QED
    BY <1>3, <2>1 DEF Wanted, m
<1> HIDE DEF u, v, W, X, m, n
<1> DEFINE g == [i \in X |-> IF i = m + 1 THEN n + 1 ELSE f[i]]
<1>6. ASSUME NEW i \in X
      PROVE  g[i] \in 1 .. Len(u) /\ u[g[i]] = v[i]
  <2>1. CASE i = m + 1
    BY <1>2, <1>3, <2>1
  <2>2. CASE i # m + 1
    <3>1. i \in W /\ i \in 1 .. m /\ g[i] = f[i] /\ f[i] \in 1 .. n
      BY <1>1, <1>4, <1>5, <2>2
    <3>2. t[f[i]] = s[i]
      BY <1>1, <3>1
    <3> HIDE DEF g
    <3> QED
      BY <1>2, <1>3, <3>1, <3>2
  <2> QED
    BY <2>1, <2>2
<1>7. ASSUME NEW i \in X, NEW j \in X, i < j
      PROVE  g[i] < g[j]
  <2>1. i \in W /\ i # m + 1 /\ (j = m + 1 \/ (j # m + 1 /\ j \in W))
    BY <1>3, <1>4, <1>5, <1>7
  <2>2. g[i] = f[i] /\ f[i] \in 1 .. n
    BY <1>1, <2>1
  <2>3. CASE j = m + 1
    <3>1. g[j] = n + 1
      BY <2>3
    <3> HIDE DEF g
    <3> QED
      BY <1>2, <2>2, <3>1
  <2>4. CASE j # m + 1 /\ j \in W
    <3>1. g[j] = f[j] /\ f[i] < f[j]
      BY <1>1, <1>7, <2>1, <2>4
    <3> HIDE DEF g
    <3> QED
      BY <2>2, <3>1
  <2> QED
    BY <2>1, <2>3, <2>4
<1>8. g \in [X -> 1 .. Len(u)]
  BY <1>6
<1> HIDE DEF g
<1> QED
  BY <1>6, <1>7, <1>8 DEF InOrder, X, u, v

LEMMA InOrderUnwanted ==
  ASSUME NEW wanted, NEW s \in Seq(Packets), NEW t \in Seq(Packets), NEW p \in Packets, p \notin wanted,
         InOrder(wanted, s, t)
  PROVE  InOrder(wanted, Append(s, p), t)
<1> DEFINE v == Append(s, p)
           W == Wanted(wanted, s)
           m == Len(s)
<1>1. m \in Nat /\ Len(v) = m + 1 /\ v[m + 1] = p /\ \A k \in 1 .. m : v[k] = s[k]
  OBVIOUS
<1>2. Wanted(wanted, v) = W
  <2> HIDE DEF v, m
  <2>1. \A i \in 1 .. m + 1 : i = m + 1 \/ i \in 1 .. m
    BY <1>1
  <2>2. \A i \in 1 .. m : i \in 1 .. m + 1
    BY <1>1
  <2> QED
    BY <1>1, <2>1, <2>2 DEF Wanted, m
<1>3. PICK f \in [W -> 1 .. Len(t)] : \A i, j \in W : t[f[i]] = s[i] /\ (i < j => f[i] < f[j])
  BY DEF InOrder
<1>4. W \subseteq 1 .. m
  BY DEF Wanted
<1> HIDE DEF v, W, m
<1>5. \A i, j \in W : t[f[i]] = v[i] /\ (i < j => f[i] < f[j])
  BY <1>1, <1>3, <1>4
<1> QED
  BY <1>2, <1>3, <1>5 DEF InOrder, v

(* Further bytes take nothing back.                                           *)
LEMMA DeliveredLonger ==
  ASSUME NEW good, Decodes(good), NEW wanted, NEW s \in Seq(Packets), NEW bytes \in Seq(Byte),
         InOrder(wanted, s, Delivered(good, bytes)), NEW e \in Seq(Byte)
  PROVE  InOrder(wanted, s, Delivered(good, bytes \o e))
<1> DEFINE S == {d \in Seq(Byte) : InOrder(wanted, s, Delivered(good, bytes \o d))}
<1>1. <<>> \in S
  <2>1. bytes \o <<>> = bytes /\ <<>> \in Seq(Byte)
    BY ConcatEmptySeq
  <2> QED
    BY <2>1
<1>2. ASSUME NEW d \in Seq(Byte), NEW b \in Byte, d \in S
      PROVE  Append(d, b) \in S
  <2> DEFINE c == bytes \o d
             r == Rest(c)
             D == Delivered(good, c)
  <2>1. c \in Seq(Byte) /\ Append(d, b) \in Seq(Byte)
    BY ConcatProperties
  <2>2. bytes \o Append(d, b) = Append(c, b)
    BY BytesAppend
  <2>3. InOrder(wanted, s, D)
    BY <1>2
  <2> HIDE DEF c
  <2>4. Delivered(good, Append(c, b)) = IF b = 0 /\ r \in good
                                        THEN Append(D, DecodePacket(r).packet) ELSE D
    BY <2>1, DeliveredAppend
  <2>5. D \in Seq(Packets) /\ r \in Seq(Byte)
    BY <2>1, DeliveredType, RestType
  <2> HIDE DEF r, D
  <2>6. InOrder(wanted, s, Delivered(good, Append(c, b)))
    <3>1. CASE b = 0 /\ r \in good
      <4>1. DecodePacket(r).packet \in Packets
        BY <3>1, DecodedIsPacket DEF Decodes
      <4>2. InOrder(wanted, s, Append(D, DecodePacket(r).packet))
        BY <2>3, <2>5, <4>1, InOrderLonger
      <4> QED
        BY <2>4, <3>1, <4>2, Zenon
    <3>2. CASE ~(b = 0 /\ r \in good)
      BY <2>3, <2>4, <3>2, Zenon
    <3> QED
      BY <3>1, <3>2
  <2> QED
    BY <2>1, <2>2, <2>6
<1>3. Seq(Byte) \subseteq S
  <2>1. \A d \in Seq(Byte), b \in Byte : d \in S => Append(d, b) \in S
    BY <1>2
  <2> HIDE DEF S
  <2> QED
    BY <1>1, <2>1, ByteStrings
<1> QED
  BY <1>3

(* After a delimiter, the bytes up to the next are the frame.                 *)
LEMMA FrameGathers ==
  ASSUME NEW good, NEW bytes \in Seq(Byte), Rest(bytes) = <<>>, NEW e \in Seq(Byte \ {0})
  PROVE  Rest(bytes \o e) = e /\ Delivered(good, bytes \o e) = Delivered(good, bytes)
<1> DEFINE NoZero(d) == \A i \in 1 .. Len(d) : d[i] # 0
           Gathers(d) == Rest(bytes \o d) = d /\ Delivered(good, bytes \o d) = Delivered(good, bytes)
           S == {d \in Seq(Byte) : NoZero(d) => Gathers(d)}
<1>1. <<>> \in S
  <2>1. bytes \o <<>> = bytes /\ <<>> \in Seq(Byte)
    BY ConcatEmptySeq
  <2> QED
    BY <2>1
<1>2. ASSUME NEW d \in Seq(Byte), NEW b \in Byte, d \in S
      PROVE  Append(d, b) \in S
  <2> DEFINE c == bytes \o d
             t == Append(d, b)
  <2>1. c \in Seq(Byte)
    BY ConcatProperties
  <2>2. bytes \o t = Append(c, b)
    BY BytesAppend
  <2>3. /\ t \in Seq(Byte) /\ Len(d) \in Nat /\ Len(t) = Len(d) + 1 /\ t[Len(d) + 1] = b
        /\ \A i \in 1 .. Len(d) : t[i] = d[i]
    OBVIOUS
  <2> HIDE DEF c, t
  <2>4. ASSUME NoZero(t)
        PROVE  Gathers(t)
    <3>1. NoZero(d) /\ b # 0
      BY <2>3, <2>4
    <3>2. Rest(c) = d /\ Delivered(good, c) = Delivered(good, bytes)
      BY <1>2, <3>1 DEF c
    <3>3. Rest(Append(c, b)) = Append(d, b)
      BY <2>1, <3>1, <3>2, RestGrows
    <3>4. Delivered(good, Append(c, b)) = Delivered(good, bytes)
      BY <2>1, <3>1, <3>2, DeliveredAppend
    <3> QED
      BY <2>2, <3>3, <3>4 DEF t
  <2> HIDE DEF NoZero, Gathers
  <2> QED
    BY <2>3, <2>4 DEF t
<1>3. Seq(Byte) \subseteq S
  <2>1. \A d \in Seq(Byte), b \in Byte : d \in S => Append(d, b) \in S
    BY <1>2
  <2> HIDE DEF S
  <2> QED
    BY <1>1, <2>1, ByteStrings
<1>4. e \in Seq(Byte) /\ NoZero(e)
  OBVIOUS
<1>5. e \in S
  BY <1>3, <1>4
<1> QED
  BY <1>4, <1>5
(* The packets of clean arrive: what has been put on the line, whatever part  *)
(* of it has been received, delivers them, and after a delimiter no frame is  *)
(* left without its end.                                                      *)
CleanArrives(good, wanted, s, bytes, last) ==
  /\ s \in Seq(Packets) /\ InOrder(wanted, s, Delivered(good, bytes))
  /\ last = 0 => Rest(bytes) = <<>>

(* An intact frame after a delimiter adds its packet, if it is wanted and its *)
(* frame is deliverable.                                                      *)
LEMMA IntactArrives ==
  ASSUME NEW good, Decodes(good), NEW wanted, NEW s \in Seq(Packets), NEW bytes \in Seq(Byte),
         InOrder(wanted, s, Delivered(good, bytes)), Rest(bytes) = <<>>,
         NEW p \in Packets, Crc(Body(p)) \in Byte, p \in wanted => EncodeCobs(Framed(p)) \in good
  PROVE  InOrder(wanted, Append(s, p), Delivered(good, bytes \o EncodePacket(p)))
<1> DEFINE f == EncodeCobs(Framed(p))
           D == Delivered(good, bytes)
           c == bytes \o f
           e == EncodePacket(p)
<1>1. f \in Seq(Byte \ {0}) /\ e = f \o <<0>> /\ DecodePacket(f) = [ok |-> TRUE, packet |-> p]
  BY PacketDecodes
<1> HIDE DEF f, e
<1>2. f \in Seq(Byte) /\ 0 \in Byte /\ e \in Seq(Byte) /\ e = Append(f, 0)
  <2>1. f \in Seq(Byte) /\ 0 \in Byte
    BY <1>1, ByteFacts
  <2>2. Append(f, 0) = f \o <<0>> /\ Append(f, 0) \in Seq(Byte)
    BY <2>1, AppendIsConcat
  <2> QED
    BY <1>1, <2>1, <2>2
<1>3. Rest(c) = f /\ Delivered(good, c) = D
  BY <1>1, FrameGathers
<1>4. c \in Seq(Byte) /\ D \in Seq(Packets)
  BY <1>2, ConcatProperties, DeliveredType
<1>5. bytes \o e = Append(c, 0)
  BY <1>2, BytesAppend
<1> HIDE DEF c
<1>6. Delivered(good, bytes \o e) = IF f \in good THEN Append(D, p) ELSE D
  <2>1. Delivered(good, Append(c, 0)) = IF 0 = 0 /\ Rest(c) \in good
                                        THEN Append(Delivered(good, c), DecodePacket(Rest(c)).packet)
                                        ELSE Delivered(good, c)
    BY <1>2, <1>4, DeliveredAppend
  <2>2. DecodePacket(f).packet = p
    BY <1>1
  <2> QED
    BY <1>3, <1>5, <2>1, <2>2, Zenon
<1> HIDE DEF D
<1>7. InOrder(wanted, s, D)
  BY DEF D
<1>8. CASE p \in wanted
  <2>1. f \in good
    BY <1>8 DEF f
  <2>2. InOrder(wanted, Append(s, p), Append(D, p))
    BY <1>4, <1>7, InOrderBoth
  <2> QED
    BY <1>6, <2>1, <2>2, Zenon DEF e
<1>9. CASE p \notin wanted
  <2>1. InOrder(wanted, s, Delivered(good, bytes \o e))
    BY <1>2, <1>7, DeliveredLonger DEF D
  <2>2. bytes \o e \in Seq(Byte)
    BY <1>2, ConcatProperties
  <2>3. Delivered(good, bytes \o e) \in Seq(Packets)
    BY <2>2, DeliveredType
  <2>4. InOrder(wanted, Append(s, p), Delivered(good, bytes \o e))
    BY <1>9, <2>1, <2>3, InOrderUnwanted
  <2> QED
    BY <2>4 DEF e
<1> QED
  BY <1>8, <1>9

LEMMA SendArrives ==
  ASSUME NEW good, Decodes(good), NEW wanted, NEW s, NEW bytes \in Seq(Byte), NEW last,
         CleanArrives(good, wanted, s, bytes, last),
         NEW p \in Packets, Crc(Body(p)) \in Byte, p \in wanted => EncodeCobs(Framed(p)) \in good,
         NEW e \in Seq(Byte), NEW t, t = s \/ (last = 0 /\ e = EncodePacket(p) /\ t = Append(s, p)),
         NEW l, l = (IF e = <<>> THEN last ELSE Last(e))
  PROVE  CleanArrives(good, wanted, t, bytes \o e, l)
<1>1. s \in Seq(Packets) /\ InOrder(wanted, s, Delivered(good, bytes)) /\ (last = 0 => Rest(bytes) = <<>>)
  BY DEF CleanArrives
<1>2. t \in Seq(Packets) /\ InOrder(wanted, t, Delivered(good, bytes \o e))
  <2>1. CASE t = s
    BY <1>1, <2>1, DeliveredLonger
  <2>2. CASE last = 0 /\ e = EncodePacket(p) /\ t = Append(s, p)
    <3>1. InOrder(wanted, Append(s, p), Delivered(good, bytes \o EncodePacket(p)))
      BY <1>1, <2>2, IntactArrives
    <3>2. Append(s, p) \in Seq(Packets)
      BY <1>1
    <3> QED
      BY <2>2, <3>1, <3>2, Zenon
  <2> QED
    BY <2>1, <2>2
<1>3. l = 0 => Rest(bytes \o e) = <<>>
  <2>1. CASE e = <<>>
    <3>1. bytes \o e = bytes
      BY <2>1, ConcatEmptySeq
    <3> QED
      BY <1>1, <2>1, <3>1
  <2>2. CASE e # <<>>
    <3>1. PICK d \in Seq(Byte), b \in Byte : e = Append(d, b)
      BY <2>2, SequenceEmptyOrAppend
    <3>2. l = b
      <4>1. Append(d, b)[Len(Append(d, b))] = b
        OBVIOUS
      <4> QED
        BY <2>2, <3>1, <4>1 DEF Last
    <3>3. bytes \o e = Append(bytes \o d, b)
      BY <3>1, BytesAppend
    <3>4. bytes \o d \in Seq(Byte)
      BY ConcatProperties
    <3>5. b = 0 => Rest(Append(bytes \o d, b)) = <<>>
      BY <3>4, RestGrows
    <3> QED
      BY <3>2, <3>3, <3>5
  <2> QED
    BY <2>1, <2>2
<1> QED
  BY <1>2, <1>3 DEF CleanArrives

(* An intact frame fits wherever a frame may be as long as any is.            *)
LEMMA IntactFits ==
  ASSUME NEW p \in Packets, Crc(Body(p)) \in Byte, Len(p.payload) <= MAX_PAYLOAD_SIZE
  PROVE  /\ EncodeCobs(Framed(p)) \in Seq(Byte)
         /\ DecodePacket(EncodeCobs(Framed(p))) = [ok |-> TRUE, packet |-> p]
         /\ Len(EncodeCobs(Framed(p))) \in 1 .. MAX_ENCODED_SIZE
<1> DEFINE f == EncodeCobs(Framed(p))
<1>1. f \in Seq(Byte \ {0}) /\ EncodePacket(p) = f \o <<0>> /\ DecodePacket(f) = [ok |-> TRUE, packet |-> p]
  BY PacketDecodes
<1> HIDE DEF f
<1>2. Len(EncodePacket(p)) <= MAX_ENCODED_SIZE
  BY PacketFits
<1>3. f \in Seq(Byte) /\ Len(f) \in Nat /\ MAX_ENCODED_SIZE \in Nat
  BY <1>1, SizeIsNat
<1>4. Len(f \o <<0>>) = Len(f) + 1
  <2>1. <<0>> \in Seq(Byte) /\ Len(<<0>>) = 1
    BY ByteFacts
  <2> QED
    BY <1>3, <2>1, ConcatProperties
<1>5. f # <<>>
  BY <1>1, NothingDecoded
<1>6. Len(f) \in 1 .. MAX_ENCODED_SIZE
  BY <1>1, <1>2, <1>3, <1>4, <1>5
<1> QED
  BY <1>1, <1>3, <1>6 DEF f
-------------------------------------------------------------------------------
CommandClean == CleanArrives(GoodCommands, Packets, clean, received \o line, last_byte)

LEMMA CommandCleanStep ==
  ASSUME CrcIsByte, CommandInv, CommandClean, [CommandNext]_commandVars
  PROVE  CommandClean'
<1>1. line \in Seq(Byte) /\ received \in Seq(Byte) /\ last_byte \in Byte /\ faults \in 0 .. MaxFaults
      /\ sent \in Seq(Commands)
  BY DEF CommandInv, CommandTypeOK
<1>2. CASE SendCommand
  <2>1. PICK c \in CommandId, seq \in Byte : Send(Command(c, seq))
    BY <1>1, <1>2, NextIsCommand
  <2> DEFINE p == Command(c, seq)
  <2>2. p \in Packets /\ Len(p.payload) <= MAX_PAYLOAD_SIZE
    BY CommandIsPacket
  <2>3. IsCommand(p)
    BY DEF IsCommand, Command
  <2> HIDE DEF p
  <2>4. PICK e \in Seq(Byte) :
          /\ Put(p, e)
          /\ clean' = clean \/ (last_byte = 0 /\ e = EncodePacket(p) /\ clean' = Append(clean, p))
    BY <1>1, <2>1, <2>2, SendPuts DEF p
  <2>5. Crc(Body(p)) \in Byte
    BY <2>2, BodyType DEF CrcIsByte
  <2>6. EncodeCobs(Framed(p)) \in GoodCommands
    <3>1. /\ EncodeCobs(Framed(p)) \in Seq(Byte)
          /\ DecodePacket(EncodeCobs(Framed(p))) = [ok |-> TRUE, packet |-> p]
          /\ Len(EncodeCobs(Framed(p))) \in 1 .. MAX_ENCODED_SIZE
      BY <2>2, <2>5, IntactFits
    <3> QED
      BY <2>3, <3>1, GoodCommand
  <2>7. line' = line \o e /\ received' = received /\ last_byte' = (IF e = <<>> THEN last_byte ELSE Last(e))
    BY <1>2, <2>4 DEF Put, SendCommand
  <2>8. received' \o line' = (received \o line) \o e
    <3>1. \A x \in Seq(Byte) : x \o (line \o e) = (x \o line) \o e
      BY <1>1, Associative
    <3> QED
      BY <1>1, <2>7, <3>1
  <2>9. received \o line \in Seq(Byte)
    BY <1>1, ConcatProperties
  <2>10. CleanArrives(GoodCommands, Packets, clean', (received \o line) \o e, last_byte')
    BY <2>2, <2>4, <2>5, <2>6, <2>7, <2>9, GoodDecode, SendArrives DEF CommandClean
  <2> QED
    BY <2>8, <2>10 DEF CommandClean
<1>3. CASE PushByte \/ PushDelimiter
  <2>1. ReadByte
    BY <1>3 DEF PushByte, PushDelimiter
  <2>2. Head(line) \in Byte /\ received' = Append(received, Head(line)) /\ UNCHANGED <<clean, last_byte>>
    BY <2>1, ReadFacts
  <2>3. line' = Tail(line) /\ line # <<>>
    BY <2>1 DEF ReadByte
  <2>4. received' \o line' = received \o line
    <3> DEFINE h == Head(line)
               x == <<h>>
               y == Tail(line)
    <3>1. x \in Seq(Byte) /\ y \in Seq(Byte) /\ h \in Byte
      BY <1>1, <2>2, <2>3
    <3>2. line = x \o y
      BY <1>1, <2>3
    <3>3. Append(received, h) = received \o x
      BY <1>1, <2>2, AppendIsConcat
    <3> HIDE DEF x, y
    <3>4. \A z \in Seq(Byte) : z \o (x \o y) = (z \o x) \o y
      BY <3>1, Associative
    <3>5. received \o line = (received \o x) \o y
      BY <1>1, <3>2, <3>4
    <3>6. received' = received \o x /\ line' = y
      BY <2>2, <2>3, <3>3 DEF y
    <3> QED
      BY <3>5, <3>6
  <2> QED
    BY <2>2, <2>4 DEF CommandClean
<1>4. CASE UNCHANGED commandVars
  BY <1>4 DEF commandVars, lineVars, CommandClean
<1> QED
  BY <1>2, <1>3, <1>4 DEF CommandNext

LEMMA CommandCleanInit == CommandInit => CommandClean
<1> SUFFICES ASSUME CommandInit
             PROVE  CommandClean
  OBVIOUS
<1>1. line = <<>> /\ received = <<>> /\ clean = <<>>
  BY DEF CommandInit, LineInit
<1>2. <<>> \o <<>> = <<>> /\ <<>> \in Seq(Packets) /\ <<>> \in Seq(Byte)
  BY ConcatEmptySeq
<1>3. InOrder(Packets, <<>>, Delivered(GoodCommands, <<>>))
  BY InOrderEmpty
<1> QED
  BY <1>1, <1>2, <1>3, RestEmpty DEF CommandClean, CleanArrives

(* What CommandsResynchronize says of the clean commands, for every checksum: *)
(* a command that is transmitted without a fault after a delimiter is         *)
(* dispatched (serial_buffer.cpp, client.cpp), in its turn, whatever was      *)
(* lost, corrupted or dropped before it.                                      *)
CleanCommandsDispatched == line = <<>> => clean \in Seq(Packets) /\ InOrder(Packets, clean, dispatched)

THEOREM CleanCommandsArrive ==
  ASSUME CrcIsByte
  PROVE  CommandSpec => []CleanCommandsDispatched
<1>1. CommandInit => CommandClean
  BY CommandCleanInit
<1>2. CommandInv /\ CommandClean /\ [CommandNext]_commandVars => CommandClean'
  BY CommandCleanStep
<1>3. CommandInv /\ CommandClean => CleanCommandsDispatched
  <2> SUFFICES ASSUME CommandInv, CommandClean, line = <<>>
               PROVE  clean \in Seq(Packets) /\ InOrder(Packets, clean, dispatched)
    BY DEF CleanCommandsDispatched
  <2>1. received \o line = received
    BY ConcatEmptySeq DEF CommandInv
  <2> QED
    BY <2>1 DEF CommandInv, CommandClean, CleanArrives
<1> QED
  BY <1>1, <1>2, <1>3, CommandInvariant, PTL DEF CommandSpec
-------------------------------------------------------------------------------
Expected == {p \in Packets : IsExpected(p)}

TelemetryClean == CleanArrives(GoodPackets, Expected, clean, received \o line, last_byte)

LEMMA TelemetryCleanStep ==
  ASSUME CrcIsByte, TelemetryInv, TelemetryClean, [TelemetryNext]_telemetryVars
  PROVE  TelemetryClean'
<1>1. /\ line \in Seq(Byte) /\ received \in Seq(Byte) /\ last_byte \in Byte /\ faults \in 0 .. MaxFaults
      /\ sent \in Seq(Samples)
  BY DEF TelemetryInv, TelemetryTypeOK
<1>2. CASE SendPacket
  <2>1. PICK p \in Samples : Send(p)
    BY <1>2 DEF SendPacket
  <2>2. p \in Packets /\ Len(p.payload) <= MAX_PAYLOAD_SIZE
    BY SampleAssumption DEF Packets
  <2>3. PICK e \in Seq(Byte) :
          /\ CanSend /\ Put(p, e)
          /\ clean' = clean \/ (last_byte = 0 /\ e = EncodePacket(p) /\ clean' = Append(clean, p))
    BY <1>1, <2>1, <2>2, SendPuts
  <2>4. Crc(Body(p)) \in Byte
    BY <2>2, BodyType DEF CrcIsByte
  <2>5. ASSUME p \in Expected
        PROVE  EncodeCobs(Framed(p)) \in GoodPackets
    <3> DEFINE f == EncodeCobs(Framed(p))
    <3>1. f \in Seq(Byte) /\ DecodePacket(f) = [ok |-> TRUE, packet |-> p] /\ Len(f) \in 1 .. MAX_ENCODED_SIZE
      BY <2>2, <2>4, IntactFits
    <3> HIDE DEF f
    <3>2. Len(f) \in 1 .. MaxSent * MAX_ENCODED_SIZE
      <4>1. MaxSent \in Nat /\ MAX_ENCODED_SIZE \in Nat /\ Len(sent) \in Nat /\ Len(sent) < MaxSent
        BY <1>1, <2>3, LineAssumption, SizeIsNat DEF CanSend
      <4>2. \A j \in Nat \ {0}, k \in Nat : k <= j * k /\ j * k \in Nat
        OBVIOUS
      <4>3. MaxSent \in Nat \ {0}
        BY <4>1
      <4>4. MAX_ENCODED_SIZE <= MaxSent * MAX_ENCODED_SIZE /\ MaxSent * MAX_ENCODED_SIZE \in Nat
        BY <4>1, <4>2, <4>3
      <4> QED
        BY <3>1, <4>1, <4>4
    <3> QED
      BY <2>5, <3>1, <3>2, GoodPacket DEF Expected, f
  <2>6. line' = line \o e /\ received' = received /\ last_byte' = (IF e = <<>> THEN last_byte ELSE Last(e))
    BY <1>2, <2>3 DEF Put, SendPacket
  <2>7. received' \o line' = (received \o line) \o e
    <3>1. \A x \in Seq(Byte) : x \o (line \o e) = (x \o line) \o e
      BY <1>1, Associative
    <3> QED
      BY <1>1, <2>6, <3>1
  <2>8. received \o line \in Seq(Byte)
    BY <1>1, ConcatProperties
  <2>9. CleanArrives(GoodPackets, Expected, clean', (received \o line) \o e, last_byte')
    BY <2>2, <2>3, <2>4, <2>5, <2>6, <2>8, GoodDecode, SendArrives DEF TelemetryClean
  <2> QED
    BY <2>7, <2>9 DEF TelemetryClean
<1>3. CASE PollConnection
  <2>1. PICK n \in Chunks : ReadChunk(n)
    BY <1>3 DEF PollConnection
  <2>2. (received \o SubSeq(line, 1, n)) \o SubSeq(line, n + 1, Len(line)) = received \o line
    BY ReadFits
  <2>3. received' \o line' = received \o line /\ UNCHANGED <<clean, last_byte>>
    BY <2>1, <2>2 DEF ReadChunk
  <2> QED
    BY <2>3 DEF TelemetryClean
<1>4. CASE UNCHANGED telemetryVars
  BY <1>4 DEF telemetryVars, lineVars, TelemetryClean
<1> QED
  BY <1>2, <1>3, <1>4 DEF TelemetryNext

LEMMA TelemetryCleanInit == TelemetryInit => TelemetryClean
<1> SUFFICES ASSUME TelemetryInit
             PROVE  TelemetryClean
  OBVIOUS
<1>1. line = <<>> /\ received = <<>> /\ clean = <<>>
  BY DEF TelemetryInit, LineInit
<1>2. <<>> \o <<>> = <<>> /\ <<>> \in Seq(Packets) /\ <<>> \in Seq(Byte)
  BY ConcatEmptySeq
<1>3. InOrder(Expected, <<>>, Delivered(GoodPackets, <<>>))
  BY InOrderEmpty
<1> QED
  BY <1>1, <1>2, <1>3, RestEmpty DEF TelemetryClean, CleanArrives

(* What TelemetryResynchronizes says of the clean packets, for every          *)
(* checksum: a packet that is transmitted without a fault after a delimiter,  *)
(* and that a callback expects, is used (client.cpp, packet.cpp), in its      *)
(* turn, whatever was lost or corrupted before it and whatever pieces the     *)
(* bytes were read in.                                                        *)
CleanPacketsUsed == line = <<>> => clean \in Seq(Packets) /\ InOrder(Expected, clean, accepted)

THEOREM CleanPacketsArrive ==
  ASSUME CrcIsByte
  PROVE  TelemetrySpec => []CleanPacketsUsed
<1>1. TelemetryInit => TelemetryClean
  BY TelemetryCleanInit
<1>2. TelemetryInv /\ TelemetryClean /\ [TelemetryNext]_telemetryVars => TelemetryClean'
  BY TelemetryCleanStep
<1>3. TelemetryInv /\ TelemetryClean => CleanPacketsUsed
  <2> SUFFICES ASSUME TelemetryInv, TelemetryClean, line = <<>>
               PROVE  clean \in Seq(Packets) /\ InOrder(Expected, clean, accepted)
    BY DEF CleanPacketsUsed
  <2>1. received \o line = received
    BY ConcatEmptySeq DEF TelemetryInv
  <2> QED
    BY <2>1 DEF TelemetryInv, TelemetryClean, CleanArrives
<1> QED
  BY <1>1, <1>2, <1>3, TelemetryInvariant, PTL DEF TelemetrySpec
===============================================================================
