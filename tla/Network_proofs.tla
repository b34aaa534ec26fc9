--------------------------- MODULE Network_proofs ---------------------------
(***************************************************************************)
(* Proofs about PacketManager and Connect.                                 *)
(*                                                                         *)
(* For every byte and header size, every set of payloads and every         *)
(* capacity of the connection: the two threads agree on where packets      *)
(* begin, and each direction of the connection implements PacketLink.      *)
(* Both hold where recv gives a header as a whole (~SplitHeads);           *)
(* PacketManager_split shows what a header in parts does.                  *)
(*                                                                         *)
(* For every number of servers: who owns a socket, and which servers wait  *)
(* for a job that never comes.                                             *)
(***************************************************************************)
EXTENDS PacketManager, Connect, NatInduction, TLAPS

----------------------------------------------------------------------------
(* Sizes and their digits.                                                 *)

LEMMA PowerDef ==
    /\ Power \in [Nat -> Nat \ {0}]
    /\ Power[0] = 1 /\ \A n \in Nat : Power[n + 1] = Base * Power[n]
<1>1. IsPowers(Base, Power)
  BY DEF IsPowers, Power
<1>2. Base \in Nat \ {0}
  BY PacketAssumption
<1> QED
  BY <1>1, <1>2, Powers

\* Division by a product is division by one factor and then the other.
LEMMA DivDiv ==
    ASSUME NEW n \in Nat, NEW b \in Nat \ {0}, NEW p \in Nat \ {0}
    PROVE  n \div (b * p) = (n \div b) \div p
<1> DEFINE q == n \div b
           r == n % b
           a == q \div p
           c == q % p
<1>1. q \in Nat /\ r \in 0..(b - 1) /\ n = b * q + r
  OBVIOUS
<1>2. a \in Nat /\ c \in 0..(p - 1) /\ q = p * a + c
  <2> HIDE DEF q
  <2> QED
    BY <1>1
<1> HIDE DEF q, r, a, c
<1>3. b * q = b * (p * a) + b * c
  BY <1>1, <1>2
<1>4. b * (p * a) = (b * p) * a
  BY <1>2
<1>5. b * c \in Nat /\ b * c <= b * (p - 1) /\ b * (p - 1) = b * p - b
  BY <1>2
<1>6. b * p \in Nat \ {0}
  OBVIOUS
<1> DEFINE z == b * c + r
           w == b * p
<1>7. z \in 0..(w - 1)
  <2> DEFINE x == b * c
  <2>1. x \in Nat /\ x <= w - b /\ w \in Nat
    BY <1>5, <1>6
  <2> HIDE DEF x, w
  <2>2. x + r \in 0..(w - 1)
    BY <1>1, <2>1
  <2> QED
    BY <2>2 DEF x, w
<1>8. n = w * a + z
  <2> DEFINE u == b * c
             y == w * a
  <2>1. n = (y + u) + r
    BY <1>1, <1>3, <1>4
  <2>2. y \in Nat /\ u \in Nat
    BY <1>2, <1>5, <1>6
  <2> HIDE DEF u, y
  <2>3. (y + u) + r = y + (u + r)
    BY <1>1, <2>2
  <2> QED
    BY <2>1, <2>3 DEF u, y
<1> HIDE DEF z, w
<1>9. n \div w = a
  BY <1>2, <1>6, <1>7, <1>8 DEF w
<1> QED
  BY <1>9 DEF w, a, q

\* The digits of a size that has k of them give it back.
LEMMA DigitsDiffer ==
    \A k \in Nat : \A m, n \in Nat :
        /\ m < Power[k] /\ n < Power[k]
        /\ \A i \in 1..k : (m \div Power[i - 1]) % Base = (n \div Power[i - 1]) % Base
        => m = n
<1> USE PacketAssumption
<1> DEFINE Same(k, m, n) ==
               \A i \in 1..k : (m \div Power[i - 1]) % Base = (n \div Power[i - 1]) % Base
           S == {k \in Nat : \A m, n \in Nat :
                    m < Power[k] /\ n < Power[k] /\ Same(k, m, n) => m = n}
<1>p. /\ \A n \in Nat : Power[n] \in Nat \ {0}
      /\ Power[0] = 1 /\ \A n \in Nat : Power[n + 1] = Base * Power[n]
  BY PowerDef
<1>1. 0 \in S
  BY <1>p
<1>2. ASSUME NEW k \in Nat, k \in S PROVE k + 1 \in S
  <2> SUFFICES ASSUME NEW m \in Nat, NEW n \in Nat, m < Power[k + 1], n < Power[k + 1],
                      Same(k + 1, m, n)
               PROVE  m = n
    OBVIOUS
  <2> DEFINE P == Power[k]
  <2>1. P \in Nat \ {0} /\ m < Base * P /\ n < Base * P
    BY <1>p
  <2>2. \A z \in Nat : /\ z \div Base \in Nat /\ z % Base \in Nat
                       /\ z = Base * (z \div Base) + (z % Base)
    <3>1. Base \in Nat \ {0} /\ \A z \in 0..(Base - 1) : z \in Nat
      OBVIOUS
    <3> QED
      BY <3>1, DivMod
  <2>3. m % Base = n % Base
    <3>1. 1 \in 1..(k + 1) /\ 1 - 1 = 0
      OBVIOUS
    <3>2. (m \div Power[0]) % Base = (n \div Power[0]) % Base
      BY <3>1
    <3>3. m \div 1 = m /\ n \div 1 = n
      OBVIOUS
    <3> QED
      BY <1>p, <3>2, <3>3
  <2>4. m \div Base < P /\ n \div Base < P
    <3>1. ASSUME NEW z \in Nat, z < Base * P PROVE z \div Base < P
      <4>1. PICK q \in Nat, r \in Nat : q = z \div Base /\ z = Base * q + r
        BY <2>2
      <4>2. ASSUME q >= P PROVE FALSE
        <5>1. Base * q >= Base * P
          BY <2>1, <4>2
        <5>2. Base * q \in Nat /\ Base * P \in Nat
          BY <2>1
        <5> QED
          BY <3>1, <4>1, <5>1, <5>2
      <4> QED
        BY <2>1, <4>1, <4>2
    <3> QED
      BY <2>1, <3>1
  <2>5. Same(k, m \div Base, n \div Base)
    <3> SUFFICES ASSUME NEW i \in 1..k
                 PROVE  ((m \div Base) \div Power[i - 1]) % Base = ((n \div Base) \div Power[i - 1]) % Base
      OBVIOUS
    <3>1. i - 1 \in Nat /\ (i - 1) + 1 = i /\ i + 1 \in 1..(k + 1) /\ (i + 1) - 1 = i
      OBVIOUS
    <3>2. Power[i] = Base * Power[i - 1] /\ Power[i - 1] \in Nat \ {0}
      BY <1>p, <3>1
    <3>3. (m \div Power[i]) % Base = (n \div Power[i]) % Base
      BY <3>1
    <3>4. /\ m \div Power[i] = (m \div Base) \div Power[i - 1]
          /\ n \div Power[i] = (n \div Base) \div Power[i - 1]
      <4> DEFINE p == Power[i - 1]
      <4>1. p \in Nat \ {0} /\ Base \in Nat \ {0}
        BY <3>2
      <4> HIDE DEF p
      <4>2. m \div (Base * p) = (m \div Base) \div p
        BY <4>1, DivDiv, Zenon
      <4>3. n \div (Base * p) = (n \div Base) \div p
        BY <4>1, DivDiv, Zenon
      <4> QED
        BY <3>2, <4>2, <4>3 DEF p
    <3> QED
      BY <3>3, <3>4
  <2>6. m \div Base = n \div Base
    <3>1. m \div Base \in Nat /\ n \div Base \in Nat
      BY <2>2
    <3> HIDE DEF Same
    <3> QED
      BY <1>2, <2>4, <2>5, <3>1
  <2> HIDE DEF Same
  <2> QED
    BY <2>2, <2>3, <2>6
<1> HIDE DEF S
<1>3. \A k \in Nat : k \in S
  BY <1>1, <1>2, SetInduction
<1> QED
  BY <1>3 DEF S

(* The receiver reads the size that the sender wrote, whatever the size of *)
(* a header and the values of a byte.                                      *)
LEMMA SizeRead ==
    ASSUME NEW n \in 0..MaxSize
    PROVE  SizeOf(Digits(n)) = n /\ Digits(n) \in Seq(Bytes) /\ Len(Digits(n)) = HeadSize
<1> USE PacketAssumption
<1>p. Power[HeadSize] \in Nat \ {0} /\ \A i \in Nat : Power[i] \in Nat \ {0}
  BY PowerDef
<1>1. ASSUME NEW m \in 0..MaxSize, Digits(m) = Digits(n) PROVE m = n
  <2>1. m \in Nat /\ n \in Nat /\ m < Power[HeadSize] /\ n < Power[HeadSize]
    BY <1>p DEF MaxSize
  <2>2. \A i \in 1..HeadSize : Digits(m)[i] = Digits(n)[i]
    BY <1>1
  <2>3. \A i \in 1..HeadSize : (m \div Power[i - 1]) % Base = (n \div Power[i - 1]) % Base
    BY <2>2 DEF Digits
  <2> QED
    BY <2>1, <2>3, DigitsDiffer
<1>2. SizeOf(Digits(n)) = n
  BY <1>1 DEF SizeOf
<1>3. \A i \in 1..HeadSize : (n \div Power[i - 1]) % Base \in Bytes
  <2> SUFFICES ASSUME NEW i \in 1..HeadSize PROVE (n \div Power[i - 1]) % Base \in Bytes
    OBVIOUS
  <2>1. Power[i - 1] \in Nat \ {0} /\ n \in Nat
    BY <1>p DEF MaxSize
  <2>2. n \div Power[i - 1] \in Nat
    BY <2>1, DivMod
  <2>3. \A z \in Nat : z % Base \in Bytes
    BY DEF Bytes
  <2> QED
    BY <2>2, <2>3
<1>4. Digits(n) \in Seq(Bytes) /\ Len(Digits(n)) = HeadSize
  <2> DEFINE D(i) == (n \div Power[i - 1]) % Base
  <2>1. Digits(n) = [i \in 1..HeadSize |-> D(i)] /\ \A i \in 1..HeadSize : D(i) \in Bytes
    BY <1>3 DEF Digits
  <2> HIDE DEF D
  <2> QED
    BY <2>1
<1> QED
  BY <1>2, <1>4

\* The header of no packet.
LEMMA NoHeader ==
    /\ 0 \in 0..HeadSize /\ 0 \in 0..MaxSize /\ HeadSize \in Nat \ {0} /\ MaxSize \in Nat
    /\ Digits(0) \in Seq(Bytes) /\ Len(Digits(0)) = HeadSize
    /\ Digits(0) \in [1..HeadSize -> Bytes] /\ SubSeq(Digits(0), 1, 0) = << >>
<1>1. HeadSize \in Nat \ {0} /\ MaxSize \in Nat
  <2>1. Power[HeadSize] \in Nat \ {0} /\ HeadSize \in Nat \ {0}
    BY PacketAssumption, PowerDef
  <2> QED
    BY <2>1 DEF MaxSize
<1>2. 0 \in 0..HeadSize /\ 0 \in 0..MaxSize
  BY <1>1
<1>3. PICK z \in Seq(Bytes) : z = Digits(0) /\ Len(z) = HeadSize
  BY <1>2, SizeRead
<1>4. z \in [1..HeadSize -> Bytes] /\ SubSeq(z, 1, 0) = << >>
  BY <1>3
<1> QED
  BY <1>1, <1>2, <1>3, <1>4, Zenon

----------------------------------------------------------------------------
(* FlattenSeq.                                                             *)

\* The partial results of FlattenSeq.
Flattens(f, s, T) ==
    /\ f \in [1..Len(s) -> Seq(T)] /\ f[1] = s[1] /\ FlattenSeq(s) = f[Len(s)]
    /\ \A i \in Nat : i \in 1..(Len(s) - 1) => f[i + 1] = f[i] \o s[i + 1]

LEMMA FlattenIs ==
    ASSUME NEW T, NEW s \in Seq(Seq(T)), Len(s) > 0
    PROVE  \E f : Flattens(f, s, T)
<1> DEFINE L == Len(s)
           X == Seq(T)
           g == [p \in Nat \X X |-> IF p[1] + 2 <= L THEN p[2] \o s[p[1] + 2] ELSE p[2]]
           Q(f) == f = [i \in 1..L |-> IF i = 1 THEN s[i] ELSE f[i - 1] \o s[i]]
<1>0. L \in Nat \ {0} /\ \A i \in 1..L : s[i] \in X
  OBVIOUS
<1>1. g \in [Nat \X X -> X]
  <2> SUFFICES ASSUME NEW p \in Nat \X X
               PROVE  (IF p[1] + 2 <= L THEN p[2] \o s[p[1] + 2] ELSE p[2]) \in X
    OBVIOUS
  <2>1. p[1] \in Nat /\ p[2] \in X
    OBVIOUS
  <2>2. CASE p[1] + 2 <= L
    <3>1. s[p[1] + 2] \in X
      BY <1>0, <2>1, <2>2
    <3> QED
      BY <2>1, <2>2, <3>1
  <2> QED
    BY <2>1, <2>2
<1>2. PICK h : Recurses(h, X, s[1], g)
  <2>1. s[1] \in X
    BY <1>0
  <2> HIDE DEF X, g
  <2> QED
    BY <1>1, <2>1, Recursion
<1>3. h \in [Nat -> X] /\ h[0] = s[1]
  BY <1>2 DEF Recurses
<1>4. ASSUME NEW n \in Nat, n + 2 <= L PROVE h[n + 1] = h[n] \o s[n + 2]
  <2>1. h[n + 1] = g[<<n, h[n]>>]
    BY <1>2 DEF Recurses
  <2>2. h[n] \in X
    BY <1>3
  <2>3. \A y \in X : g[<<n, y>>] = y \o s[n + 2]
    BY <1>4
  <2> HIDE DEF X, g
  <2> QED
    BY <2>1, <2>2, <2>3
<1> DEFINE e == [i \in 1..L |-> h[i - 1]]
<1>5. Q(e)
  <2>1. ASSUME NEW i \in 1..L PROVE e[i] = IF i = 1 THEN s[i] ELSE e[i - 1] \o s[i]
    <3>1. CASE i = 1
      BY <1>3, <3>1
    <3>2. CASE i # 1
      <4>1. i - 2 \in Nat /\ (i - 2) + 2 <= L /\ (i - 2) + 1 = i - 1 /\ (i - 2) + 2 = i
        BY <1>0, <3>2
      <4>2. h[i - 1] = h[i - 2] \o s[i]
        BY <1>4, <4>1
      <4>3. e[i] = h[i - 1] /\ e[i - 1] = h[i - 2]
        BY <1>0, <3>2
      <4> QED
        BY <3>2, <4>2, <4>3
    <3> QED
      BY <3>1, <3>2
  <2>2. e = [i \in 1..L |-> e[i]]
    OBVIOUS
  <2> HIDE DEF e
  <2> QED
    BY <2>1, <2>2
<1> HIDE DEF e
<1> DEFINE f == CHOOSE x : Q(x)
<1>6. Q(f)
  <2> HIDE DEF Q
  <2> QED
    BY <1>5
<1>7. FlattenSeq(s) = f[L]
  BY <1>0 DEF FlattenSeq
<1> HIDE DEF f
<1>8. /\ f[1] = s[1] /\ DOMAIN f = 1..L
      /\ \A i \in 1..L : i # 1 => f[i] = f[i - 1] \o s[i]
  <2> DEFINE G(i) == IF i = 1 THEN s[i] ELSE f[i - 1] \o s[i]
  <2>1. f = [i \in 1..L |-> G(i)]
    BY <1>6
  <2>2. 1 \in 1..L
    BY <1>0
  <2>3. G(1) = s[1] /\ \A i \in 1..L : i # 1 => G(i) = f[i - 1] \o s[i]
    OBVIOUS
  <2> HIDE DEF G, L
  <2> QED
    BY <2>1, <2>2, <2>3
<1>9. \A i \in Nat : i \in 1..(L - 1) => f[i + 1] = f[i] \o s[i + 1]
  <2> SUFFICES ASSUME NEW i \in 1..(L - 1) PROVE f[i + 1] = f[i] \o s[i + 1]
    OBVIOUS
  <2>1. i + 1 \in 1..L /\ i + 1 # 1 /\ (i + 1) - 1 = i
    BY <1>0
  <2> QED
    BY <1>8, <2>1
<1>10. \A i \in 1..L : f[i] \in X
  <2> DEFINE S == {i \in Nat : i + 1 \in 1..L => f[i + 1] \in X}
  <2>1. 0 \in S
    BY <1>0, <1>8
  <2>2. ASSUME NEW i \in Nat, i \in S PROVE i + 1 \in S
    <3> SUFFICES ASSUME (i + 1) + 1 \in 1..L PROVE f[(i + 1) + 1] \in X
      OBVIOUS
    <3>1. i + 1 \in 1..(L - 1) /\ i + 1 \in 1..L /\ i + 1 \in Nat
      BY <1>0
    <3>2. f[(i + 1) + 1] = f[i + 1] \o s[(i + 1) + 1]
      BY <1>9, <3>1
    <3>3. f[i + 1] \in X /\ s[(i + 1) + 1] \in X
      BY <1>0, <2>2, <3>1
    <3> QED
      BY <3>2, <3>3
  <2> HIDE DEF S
  <2>3. \A i \in Nat : i \in S
    BY <2>1, <2>2, SetInduction
  <2>4. ASSUME NEW i \in 1..L PROVE f[i] \in X
    <3>1. i - 1 \in Nat /\ (i - 1) + 1 = i
      BY <1>0
    <3> QED
      BY <2>3, <3>1 DEF S
  <2> QED
    BY <2>4
<1>11. f \in [1..L -> X]
  <2>1. f = [i \in 1..L |-> f[i]]
    BY <1>6
  <2> QED
    BY <1>10, <2>1
<1>12. Flattens(f, s, T)
  BY <1>7, <1>8, <1>9, <1>11 DEF Flattens
<1> QED
  BY <1>12

LEMMA FlattenEmpty == FlattenSeq(<<>>) = <<>>
BY DEF FlattenSeq

LEMMA FlattenType ==
    ASSUME NEW T, NEW s \in Seq(Seq(T))
    PROVE  FlattenSeq(s) \in Seq(T)
<1>1. CASE Len(s) = 0
  <2>1. s = <<>> /\ <<>> \in Seq(T)
    BY <1>1
  <2> QED
    BY <2>1, FlattenEmpty
<1>2. CASE Len(s) > 0
  <2>1. PICK f : Flattens(f, s, T)
    BY <1>2, FlattenIs
  <2>2. Len(s) \in 1..Len(s)
    BY <1>2
  <2> QED
    BY <2>1, <2>2 DEF Flattens
<1> QED
  BY <1>1, <1>2

LEMMA FlattenAppend ==
    ASSUME NEW T, NEW s \in Seq(Seq(T)), NEW x \in Seq(T)
    PROVE  FlattenSeq(Append(s, x)) = FlattenSeq(s) \o x
<1> DEFINE u == Append(s, x)
           L == Len(s)
<1>1. u \in Seq(Seq(T)) /\ Len(u) = L + 1 /\ L \in Nat /\ u[L + 1] = x
  OBVIOUS
<1>2. \A i \in 1..L : u[i] = s[i]
  OBVIOUS
<1> HIDE DEF u
<1>3. PICK f : Flattens(f, u, T)
  <2>1. Len(u) > 0
    BY <1>1
  <2> QED
    BY <1>1, <2>1, FlattenIs
<1>f. FlattenSeq(u) = f[L + 1]
  BY <1>1, <1>3 DEF Flattens
<1>4. CASE L = 0
  <2>1. s = <<>>
    BY <1>4
  <2>2. f[1] = x
    BY <1>1, <1>3, <1>4 DEF Flattens
  <2>3. <<>> \o x = x
    OBVIOUS
  <2> QED
    BY <1>f, <1>4, <2>1, <2>2, <2>3, FlattenEmpty DEF u
<1>5. CASE L > 0
  <2>1. PICK h : Flattens(h, s, T)
    BY <1>5, FlattenIs
  <2> DEFINE S == {i \in Nat : i + 1 \in 1..L => f[i + 1] = h[i + 1]}
  <2>2. 0 \in S
    BY <1>2, <1>3, <1>5, <2>1 DEF Flattens
  <2>3. ASSUME NEW i \in Nat, i \in S PROVE i + 1 \in S
    <3> SUFFICES ASSUME (i + 1) + 1 \in 1..L PROVE f[(i + 1) + 1] = h[(i + 1) + 1]
      OBVIOUS
    <3>1. i + 1 \in 1..(L - 1) /\ i + 1 \in 1..L /\ i + 1 \in Nat /\ i + 1 \in 1..(Len(u) - 1)
      BY <1>1
    <3>2. f[(i + 1) + 1] = f[i + 1] \o u[(i + 1) + 1]
      BY <1>3, <3>1 DEF Flattens
    <3>3. h[(i + 1) + 1] = h[i + 1] \o s[(i + 1) + 1]
      BY <2>1, <3>1 DEF Flattens
    <3>4. f[i + 1] = h[i + 1] /\ u[(i + 1) + 1] = s[(i + 1) + 1]
      BY <1>2, <2>3, <3>1
    <3> QED
      BY <3>2, <3>3, <3>4
  <2> HIDE DEF S
  <2>4. \A i \in Nat : i \in S
    BY <2>2, <2>3, SetInduction
  <2>5. f[L] = h[L]
    <3>1. L - 1 \in Nat /\ (L - 1) + 1 = L /\ L \in 1..L
      BY <1>1, <1>5
    <3> QED
      BY <2>4, <3>1 DEF S
  <2>6. f[L + 1] = f[L] \o u[L + 1]
    <3>1. L \in Nat /\ L \in 1..(Len(u) - 1)
      BY <1>1, <1>5
    <3> QED
      BY <1>3, <3>1 DEF Flattens
  <2> QED
    BY <1>1, <1>f, <2>1, <2>5, <2>6 DEF u, Flattens
<1> QED
  BY <1>1, <1>4, <1>5

LEMMA FlattenCat ==
    ASSUME NEW T, NEW s \in Seq(Seq(T)), NEW t \in Seq(Seq(T))
    PROVE  FlattenSeq(s \o t) = FlattenSeq(s) \o FlattenSeq(t)
<1> DEFINE S == {n \in Nat : \A u \in Seq(Seq(T)) :
                    Len(u) = n => FlattenSeq(s \o u) = FlattenSeq(s) \o FlattenSeq(u)}
<1>0. FlattenSeq(s) \in Seq(T)
  BY FlattenType
<1>1. 0 \in S
  <2> SUFFICES ASSUME NEW u \in Seq(Seq(T)), Len(u) = 0
               PROVE  FlattenSeq(s \o u) = FlattenSeq(s) \o FlattenSeq(u)
    OBVIOUS
  <2>1. u = <<>> /\ s \o u = s
    OBVIOUS
  <2>2. FlattenSeq(s) \o <<>> = FlattenSeq(s)
    BY <1>0
  <2> QED
    BY <2>1, <2>2, FlattenEmpty
<1>2. ASSUME NEW n \in Nat, n \in S PROVE n + 1 \in S
  <2> SUFFICES ASSUME NEW u \in Seq(Seq(T)), Len(u) = n + 1
               PROVE  FlattenSeq(s \o u) = FlattenSeq(s) \o FlattenSeq(u)
    OBVIOUS
  <2> DEFINE v == SubSeq(u, 1, n)
             x == u[n + 1]
  <2>1. v \in Seq(Seq(T)) /\ Len(v) = n /\ x \in Seq(T) /\ u = Append(v, x)
    OBVIOUS
  <2> HIDE DEF v, x
  <2>2. s \o u = Append(s \o v, x) /\ s \o v \in Seq(Seq(T))
    <3>1. Cat(s, Append(v, x)) = Append(Cat(s, v), x)
      BY <2>1, CatAppend
    <3>2. Cat(s, v) \in Seq(Seq(T))
      BY <2>1, CatLaws
    <3> QED
      BY <2>1, <3>1, <3>2, Zenon DEF Cat
  <2>3. FlattenSeq(s \o u) = FlattenSeq(s \o v) \o x
    BY <2>1, <2>2, FlattenAppend
  <2>4. FlattenSeq(s \o v) = FlattenSeq(s) \o FlattenSeq(v)
    BY <1>2, <2>1
  <2>5. FlattenSeq(u) = FlattenSeq(v) \o x /\ FlattenSeq(v) \in Seq(T)
    BY <2>1, FlattenAppend, FlattenType
  <2>6. (FlattenSeq(s) \o FlattenSeq(v)) \o x = FlattenSeq(s) \o (FlattenSeq(v) \o x)
    <3>1. PICK a \in Seq(T), b \in Seq(T), c \in Seq(T) :
             a = FlattenSeq(s) /\ b = FlattenSeq(v) /\ c = x
      BY <1>0, <2>1, <2>5
    <3>2. Cat(Cat(a, b), c) = Cat(a, Cat(b, c))
      BY CatLaws
    <3> QED
      BY <3>1, <3>2, Zenon DEF Cat
  <2> QED
    BY <2>3, <2>4, <2>5, <2>6
<1> HIDE DEF S
<1>3. \A n \in Nat : n \in S
  BY <1>1, <1>2, SetInduction
<1>4. Len(t) \in Nat
  OBVIOUS
<1> QED
  BY <1>3, <1>4 DEF S

----------------------------------------------------------------------------
(* Cutting sequences and putting them together.                            *)

\* a is x, of n elements, and then y.
IsCut(a, n, x, y, T) ==
    x \in Seq(T) /\ Len(x) = n /\ y \in Seq(T) /\ Len(y) = Len(a) - n /\ a = x \o y

LEMMA CutAt ==
    ASSUME NEW T, NEW a \in Seq(T), NEW n \in 0..Len(a)
    PROVE  IsCut(a, n, SubSeq(a, 1, n), DropFirst(a, n), T)
<1>1. Len(a) \in Nat /\ n \in Nat /\ n <= Len(a)
  OBVIOUS
<1>2. SubSeq(a, 1, n) \in Seq(T) /\ Len(SubSeq(a, 1, n)) = n
  BY <1>1
<1>3. DropFirst(a, n) \in Seq(T) /\ Len(DropFirst(a, n)) = Len(a) - n
  BY <1>1 DEF DropFirst
<1>4. a = SubSeq(a, 1, n) \o DropFirst(a, n)
  <2> DEFINE x == SubSeq(a, 1, n)
             y == DropFirst(a, n)
  <2>1. \A i \in 1..n : x[i] = a[i]
    BY <1>1
  <2>2. \A i \in 1..(Len(a) - n) : y[i] = a[n + i]
    BY <1>1 DEF DropFirst
  <2>3. PICK p \in Seq(T), q \in Seq(T) : p = x /\ q = y
    BY <1>2, <1>3
  <2>4. Len(p \o q) = Len(a) /\ p \o q \in Seq(T) /\ Len(p) = n /\ Len(q) = Len(a) - n
    BY <1>1, <1>2, <1>3, <2>3
  <2>5. ASSUME NEW i \in 1..Len(a) PROVE (p \o q)[i] = a[i]
    <3>1. CASE i <= n
      <4>1. i \in 1..n /\ i \in 1..Len(p)
        BY <1>1, <2>4, <3>1
      <4>2. (p \o q)[i] = p[i]
        BY <4>1
      <4> QED
        BY <2>1, <2>3, <4>1, <4>2
    <3>2. CASE i > n
      <4>1. i - n \in 1..(Len(a) - n) /\ n + (i - n) = i
        BY <1>1, <3>2
      <4>2. (p \o q)[i] = q[i - n]
        BY <1>1, <2>4, <3>2
      <4> QED
        BY <2>2, <2>3, <4>1, <4>2
    <3>3. i <= n \/ i > n
      BY <1>1
    <3> QED
      BY <3>1, <3>2, <3>3
  <2>6. p \o q = a
    BY <2>4, <2>5, SameElements
  <2> QED
    BY <2>3, <2>6
<1> QED
  BY <1>2, <1>3, <1>4 DEF IsCut

LEMMA DropCat ==
    ASSUME NEW T, NEW a \in Seq(T), NEW b \in Seq(T), NEW n \in 0..Len(a)
    PROVE  DropFirst(a \o b, n) = DropFirst(a, n) \o b
<1>1. IsCut(a, n, SubSeq(a, 1, n), DropFirst(a, n), T)
  BY CutAt
<1>2. PICK x \in Seq(T), y \in Seq(T) : y = DropFirst(a, n) /\ a = x \o y /\ Len(x) = n
  BY <1>1 DEF IsCut
<1>3. PICK w \in Seq(T), z \in Seq(T) : w = a \o b /\ z = y \o b
  <2>1. a \o b \in Seq(T) /\ y \o b \in Seq(T)
    OBVIOUS
  <2> QED
    BY <2>1, Zenon
<1>4. n \in 0..Len(w) /\ w = x \o z
  <2>1. Cat(Cat(x, y), b) = Cat(x, Cat(y, b))
    BY CatLaws
  <2>2. w = x \o z
    BY <1>2, <1>3, <2>1, Zenon DEF Cat
  <2>3. Len(w) = Len(a) + Len(b)
    BY <1>3, CatElements
  <2> QED
    BY <2>2, <2>3
<1>5. IsCut(w, n, SubSeq(w, 1, n), DropFirst(w, n), T)
  BY <1>4, CutAt
<1>6. PICK u \in Seq(T), v \in Seq(T) : v = DropFirst(w, n) /\ w = u \o v /\ Len(u) = n
  BY <1>5 DEF IsCut
<1>7. v = z
  <2>1. u \o v = x \o z /\ Len(u) = Len(x)
    BY <1>2, <1>4, <1>6
  <2> QED
    BY <2>1, CatCancel
<1> QED
  BY <1>2, <1>3, <1>6, <1>7

LEMMA DropDrop ==
    ASSUME NEW T, NEW a \in Seq(T), NEW n \in 0..Len(a), NEW k \in 0..(Len(a) - n)
    PROVE  DropFirst(DropFirst(a, n), k) = DropFirst(a, n + k)
BY DEF DropFirst

LEMMA DropNone ==
    ASSUME NEW T, NEW a \in Seq(T)
    PROVE  DropFirst(a, 0) = a
BY DEF DropFirst

LEMMA FlattenCons ==
    ASSUME NEW T, NEW q \in Seq(Seq(T)), q # << >>
    PROVE  FlattenSeq(q) = Head(q) \o FlattenSeq(Tail(q))
<1>1. Head(q) \in Seq(T) /\ Tail(q) \in Seq(Seq(T)) /\ q = <<Head(q)>> \o Tail(q)
  OBVIOUS
<1>2. FlattenSeq(<<Head(q)>>) = Head(q)
  <2>1. PICK x \in Seq(T) : x = Head(q)
    BY <1>1
  <2>2. <<x>> = Append(<< >>, x) /\ << >> \in Seq(Seq(T)) /\ << >> \o x = x
    OBVIOUS
  <2>3. FlattenSeq(<<x>>) = FlattenSeq(<< >>) \o x
    BY <2>2, FlattenAppend
  <2> QED
    BY <2>1, <2>2, <2>3, FlattenEmpty
<1>3. <<Head(q)>> \in Seq(Seq(T))
  BY <1>1
<1>4. FlattenSeq(<<Head(q)>> \o Tail(q)) = FlattenSeq(<<Head(q)>>) \o FlattenSeq(Tail(q))
  BY <1>1, <1>3, FlattenCat
<1> QED
  BY <1>1, <1>2, <1>4

----------------------------------------------------------------------------
(* Frames, and the bytes that are still to be sent.                        *)

LEMMA FrameType ==
    ASSUME NEW m \in Messages
    PROVE  /\ m \in Seq(Bytes) /\ Len(m) \in 1..MaxSize /\ Len(m) \in 0..MaxSize
           /\ Digits(Len(m)) \in Seq(Bytes) /\ Len(Digits(Len(m))) = HeadSize
           /\ Frame(m) \in Seq(Bytes) /\ Len(Frame(m)) = HeadSize + Len(m)
<1>1. m \in Seq(Bytes) /\ Len(m) \in 1..MaxSize /\ Len(m) \in 0..MaxSize
  BY PacketAssumption
<1>2. Digits(Len(m)) \in Seq(Bytes) /\ Len(Digits(Len(m))) = HeadSize
  BY <1>1, SizeRead
<1>3. PICK h \in Seq(Bytes), b \in Seq(Bytes) : h = Digits(Len(m)) /\ b = m
  BY <1>1, <1>2
<1>4. h \o b \in Seq(Bytes) /\ Len(h \o b) = Len(h) + Len(b)
  OBVIOUS
<1> QED
  BY <1>1, <1>2, <1>3, <1>4 DEF Frame

LEMMA FramesType ==
    ASSUME NEW q \in Seq(Messages)
    PROVE  FramesOf(q) \in Seq(Seq(Bytes)) /\ Len(FramesOf(q)) = Len(q)
<1>1. \A i \in 1..Len(q) : Frame(q[i]) \in Seq(Bytes)
  BY FrameType
<1>2. FramesOf(q) = [i \in 1..Len(q) |-> Frame(q[i])]
  BY DEF FramesOf
<1> QED
  BY <1>1, <1>2

LEMMA FramesAppend ==
    ASSUME NEW q \in Seq(Messages), NEW m \in Messages
    PROVE  FramesOf(Append(q, m)) = Append(FramesOf(q), Frame(m))
<1>1. PICK u \in Seq(Messages) : u = Append(q, m)
  <2>1. Append(q, m) \in Seq(Messages)
    OBVIOUS
  <2> QED
    BY <2>1, Zenon
<1>2. Len(u) = Len(q) + 1 /\ u[Len(q) + 1] = m /\ \A i \in 1..Len(q) : u[i] = q[i]
  BY <1>1
<1>3. PICK a \in Seq(Seq(Bytes)), b \in Seq(Seq(Bytes)), f \in Seq(Bytes) :
         a = FramesOf(u) /\ b = FramesOf(q) /\ f = Frame(m)
  BY FramesType, FrameType
<1>4. Len(a) = Len(q) + 1 /\ Len(b) = Len(q)
  BY <1>2, <1>3, FramesType
<1>5. \A i \in 1..(Len(q) + 1) : a[i] = Frame(u[i])
  BY <1>2, <1>3 DEF FramesOf
<1>6. \A i \in 1..Len(q) : b[i] = Frame(q[i])
  BY <1>3 DEF FramesOf
<1>7. Len(Append(b, f)) = Len(a) /\ Append(b, f) \in Seq(Seq(Bytes))
  <2>1. Append(b, f) \in Seq(Seq(Bytes))
    OBVIOUS
  <2>2. Len(Append(b, f)) = Len(b) + 1
    OBVIOUS
  <2> QED
    BY <1>4, <2>1, <2>2
<1>8. ASSUME NEW i \in 1..Len(a) PROVE a[i] = Append(b, f)[i]
  <2>1. CASE i = Len(q) + 1
    <3>1. Append(b, f)[i] = f
      BY <1>4, <2>1
    <3>2. a[i] = Frame(m)
      BY <1>2, <1>5, <2>1
    <3> QED
      BY <1>3, <3>1, <3>2
  <2>2. CASE i # Len(q) + 1
    <3>1. i \in 1..Len(q) /\ i \in 1..Len(b)
      BY <1>4, <2>2
    <3>2. Append(b, f)[i] = b[i]
      BY <3>1
    <3> QED
      BY <1>2, <1>4, <1>5, <1>6, <3>1, <3>2
  <2> QED
    BY <2>1, <2>2
<1>9. a = Append(b, f)
  BY <1>7, <1>8, SameElements
<1> QED
  BY <1>1, <1>3, <1>9

LEMMA FramesCons ==
    ASSUME NEW q \in Seq(Messages), q # << >>
    PROVE  /\ FramesOf(q) # << >> /\ Head(FramesOf(q)) = Frame(Head(q))
           /\ Tail(FramesOf(q)) = FramesOf(Tail(q)) /\ Head(q) \in Messages
           /\ Tail(q) \in Seq(Messages)
<1>1. /\ Len(q) \in Nat \ {0} /\ Head(q) = q[1] /\ Head(q) \in Messages
      /\ Tail(q) \in Seq(Messages) /\ Len(Tail(q)) = Len(q) - 1
      /\ \A i \in 1..(Len(q) - 1) : Tail(q)[i] = q[i + 1]
  OBVIOUS
<1>2. PICK a \in Seq(Seq(Bytes)), b \in Seq(Seq(Bytes)) : a = FramesOf(q) /\ b = FramesOf(Tail(q))
  BY <1>1, FramesType
<1>3. Len(a) = Len(q) /\ Len(b) = Len(q) - 1
  BY <1>1, <1>2, FramesType
<1>4. \A i \in 1..Len(q) : a[i] = Frame(q[i])
  BY <1>2 DEF FramesOf
<1>5. \A i \in 1..(Len(q) - 1) : b[i] = Frame(Tail(q)[i])
  <2>1. PICK u \in Seq(Messages) : u = Tail(q)
    BY <1>1
  <2>2. DOMAIN u = 1..(Len(q) - 1)
    BY <1>1, <2>1
  <2> QED
    BY <1>2, <2>1, <2>2 DEF FramesOf
<1>6. a # << >> /\ Head(a) = a[1]
  BY <1>1, <1>3
<1>7. Tail(a) = b
  <2>1. Len(Tail(a)) = Len(b) /\ Tail(a) \in Seq(Seq(Bytes))
    BY <1>3, <1>6
  <2>2. ASSUME NEW i \in 1..Len(b) PROVE Tail(a)[i] = b[i]
    <3>1. i \in 1..(Len(q) - 1) /\ i + 1 \in 1..Len(q) /\ i \in 1..(Len(a) - 1)
      BY <1>1, <1>3
    <3>2. Tail(a)[i] = a[i + 1]
      BY <1>6, <3>1
    <3> QED
      BY <1>1, <1>4, <1>5, <3>1, <3>2
  <2> QED
    BY <2>1, <2>2, SameElements
<1>8. Head(a) = Frame(Head(q))
  BY <1>1, <1>4, <1>6
<1> QED
  BY <1>1, <1>2, <1>6, <1>7, <1>8

\* What SendsFrames says of the values of sendQ, inQ and sendDone.
Sending(sq, iq, d) ==
    /\ sq \in Seq({Frame(m) : m \in Messages}) /\ iq \in Seq({Frame(m) : m \in Messages})
    /\ d \in Nat /\ IF sq = << >> THEN d = 0 ELSE d < Len(Head(sq))

Unsent(sq, iq, d) == DropFirst(FlattenSeq(sq \o iq), d)

LEMMA PacketsType ==
    ASSUME NEW q \in Seq({Frame(m) : m \in Messages})
    PROVE  q \in Seq(Seq(Bytes)) /\ \A i \in 1..Len(q) : Len(q[i]) > 0
<1>1. \A i \in 1..Len(q) : q[i] \in {Frame(m) : m \in Messages}
  OBVIOUS
<1>2. \A f \in {Frame(m) : m \in Messages} : f \in Seq(Bytes) /\ Len(f) > 0
  <2> SUFFICES ASSUME NEW m \in Messages PROVE Frame(m) \in Seq(Bytes) /\ Len(Frame(m)) > 0
    OBVIOUS
  <2>1. HeadSize \in Nat
    BY PacketAssumption
  <2> QED
    BY <2>1, FrameType
<1> HIDE <1>1
<1>3. \A i \in 1..Len(q) : q[i] \in Seq(Bytes) /\ Len(q[i]) > 0
  BY <1>1, <1>2
<1>4. DOMAIN q = 1..Len(q) /\ Len(q) \in Nat /\ q = [i \in 1..Len(q) |-> q[i]]
  OBVIOUS
<1> QED
  BY <1>3, <1>4

LEMMA UnsentType ==
    ASSUME NEW sq, NEW iq, NEW d, Sending(sq, iq, d)
    PROVE  /\ sq \in Seq(Seq(Bytes)) /\ iq \in Seq(Seq(Bytes)) /\ sq \o iq \in Seq(Seq(Bytes))
           /\ FlattenSeq(sq \o iq) \in Seq(Bytes) /\ d \in 0..Len(FlattenSeq(sq \o iq))
           /\ Unsent(sq, iq, d) \in Seq(Bytes)
<1>1. sq \in Seq(Seq(Bytes)) /\ iq \in Seq(Seq(Bytes))
  BY PacketsType DEF Sending
<1>2. sq \o iq \in Seq(Seq(Bytes))
  BY <1>1
<1>3. PICK w \in Seq(Bytes) : w = FlattenSeq(sq \o iq)
  BY <1>2, FlattenType
<1>4. d \in 0..Len(w)
  <2>1. CASE sq = << >>
    BY <2>1 DEF Sending
  <2>2. CASE sq # << >>
    <3>1. /\ Head(sq) \in Seq(Bytes) /\ Tail(sq \o iq) \in Seq(Seq(Bytes))
          /\ sq \o iq # << >> /\ Head(sq \o iq) = Head(sq)
      BY <1>1, <2>2
    <3>2. PICK h \in Seq(Bytes), z \in Seq(Bytes) : h = Head(sq) /\ z = FlattenSeq(Tail(sq \o iq))
      BY <3>1, FlattenType
    <3>3. FlattenSeq(sq \o iq) = Head(sq \o iq) \o FlattenSeq(Tail(sq \o iq))
      BY <1>2, <3>1, FlattenCons
    <3>4. w = h \o z
      BY <1>3, <3>1, <3>2, <3>3
    <3>5. d \in Nat /\ d < Len(h)
      BY <2>2, <3>2 DEF Sending
    <3> QED
      BY <3>4, <3>5
  <2> QED
    BY <2>1, <2>2
<1>5. IsCut(w, d, SubSeq(w, 1, d), DropFirst(w, d), Bytes)
  BY <1>4, CutAt
<1>6. DropFirst(w, d) \in Seq(Bytes)
  BY <1>5 DEF IsCut
<1> QED
  BY <1>1, <1>2, <1>3, <1>4, <1>6 DEF Unsent

\* A packet that is sent comes after all that is still to be sent.
LEMMA UnsentSend ==
    ASSUME NEW sq, NEW iq, NEW d, Sending(sq, iq, d), NEW f \in Seq(Bytes)
    PROVE  Unsent(sq, Append(iq, f), d) = Unsent(sq, iq, d) \o f
<1>1. /\ sq \in Seq(Seq(Bytes)) /\ iq \in Seq(Seq(Bytes)) /\ sq \o iq \in Seq(Seq(Bytes))
      /\ FlattenSeq(sq \o iq) \in Seq(Bytes) /\ d \in 0..Len(FlattenSeq(sq \o iq))
  BY UnsentType
<1>2. PICK q \in Seq(Seq(Bytes)), w \in Seq(Bytes) : q = sq \o iq /\ w = FlattenSeq(q)
  BY <1>1
<1>3. sq \o Append(iq, f) = Append(sq \o iq, f)
  <2>1. PICK a \in Seq(Seq(Bytes)), b \in Seq(Seq(Bytes)) : a = sq /\ b = iq
    BY <1>1
  <2>2. Cat(a, Append(b, f)) = Append(Cat(a, b), f)
    BY CatAppend
  <2> QED
    BY <2>1, <2>2, Zenon DEF Cat
<1>4. FlattenSeq(sq \o Append(iq, f)) = w \o f
  <2>1. FlattenSeq(Append(q, f)) = FlattenSeq(q) \o f
    BY FlattenAppend
  <2> QED
    BY <1>2, <1>3, <2>1
<1>5. DropFirst(w \o f, d) = DropFirst(w, d) \o f
  BY <1>1, <1>2, DropCat
<1> QED
  BY <1>2, <1>4, <1>5 DEF Unsent

\* The flush of the input queue sends nothing and loses nothing.
LEMMA UnsentFlush ==
    ASSUME NEW sq, NEW iq, NEW d, Sending(sq, iq, d)
    PROVE  Sending(sq \o iq, << >>, d) /\ Unsent(sq \o iq, << >>, d) = Unsent(sq, iq, d)
<1> DEFINE P == {Frame(m) : m \in Messages}
<1>1. PICK a \in Seq(P), b \in Seq(P) : a = sq /\ b = iq
  BY DEF Sending
<1>2. a \o b \in Seq(P) /\ << >> \in Seq(P) /\ (a \o b) \o << >> = a \o b
  OBVIOUS
<1>3. d \in Nat /\ IF a = << >> THEN d = 0 ELSE d < Len(Head(a))
  BY <1>1 DEF Sending
<1>4. IF a \o b = << >> THEN d = 0 ELSE d < Len(Head(a \o b))
  <2>1. CASE a # << >>
    <3>1. a \o b # << >> /\ Head(a \o b) = Head(a)
      BY <2>1
    <3> QED
      BY <1>3, <2>1, <3>1
  <2>2. CASE a = << >> /\ b # << >>
    <3>1. a \o b = b /\ 1 \in 1..Len(b) /\ Head(b) = b[1]
      BY <2>2
    <3>2. Len(b[1]) > 0
      BY <3>1, PacketsType
    <3> QED
      BY <1>3, <2>2, <3>1, <3>2
  <2>3. CASE a = << >> /\ b = << >>
    <3>1. a \o b = << >>
      BY <2>3
    <3> QED
      BY <1>3, <2>3, <3>1
  <2> QED
    BY <2>1, <2>2, <2>3
<1> QED
  BY <1>1, <1>2, <1>3, <1>4 DEF Sending, Unsent

LEMMA HeadOfCat ==
    ASSUME NEW T, NEW s \in Seq(T), NEW t \in Seq(T), s # << >>
    PROVE  /\ Head(s) \in T /\ Tail(s) \in Seq(T)
           /\ s \o t # << >> /\ Head(s \o t) = Head(s) /\ Tail(s \o t) = Tail(s) \o t
           /\ Tail(s) \o t \in Seq(T) /\ s \o t \in Seq(T)
<1>1. /\ Head(s) \in T /\ Tail(s) \in Seq(T) /\ Len(s) \in Nat /\ Len(s) > 0 /\ Head(s) = s[1]
      /\ Len(Tail(s)) = Len(s) - 1 /\ \A k \in 1..(Len(s) - 1) : Tail(s)[k] = s[k + 1]
  OBVIOUS
<1>2. PICK c \in Seq(T) : c = s \o t /\ IsCat(c, s, t)
  BY CatIs
<1>3. PICK r \in Seq(T) : r = Tail(s) /\ Len(r) = Len(s) - 1 /\ \A k \in 1..Len(r) : r[k] = s[k + 1]
  BY <1>1
<1>4. PICK d \in Seq(T) : d = r \o t /\ IsCat(d, r, t)
  BY CatIs
<1>5. Len(c) = Len(s) + Len(t) /\ Len(d) = Len(c) - 1 /\ Len(t) \in Nat /\ Len(c) > 0
  BY <1>1, <1>2, <1>3, <1>4 DEF IsCat
<1>6. c # << >> /\ Head(c) = c[1] /\ c[1] = s[1]
  <2>1. c[1] = s[1]
    BY <1>1, <1>2 DEF IsCat
  <2> QED
    BY <1>5, <2>1
<1>7. Tail(c) \in Seq(T) /\ Len(Tail(c)) = Len(c) - 1
      /\ \A k \in 1..(Len(c) - 1) : Tail(c)[k] = c[k + 1]
  BY <1>6
<1>8. ASSUME NEW k \in 1..Len(d) PROVE c[k + 1] = d[k]
  <2>1. CASE k \in 1..Len(r)
    <3>1. k + 1 \in 1..Len(s)
      BY <1>1, <1>3, <2>1
    <3>2. c[k + 1] = s[k + 1] /\ d[k] = r[k] /\ r[k] = s[k + 1]
      BY <1>2, <1>3, <1>4, <2>1, <3>1 DEF IsCat
    <3> QED
      BY <3>2
  <2>2. CASE k \notin 1..Len(r)
    <3>1. PICK m \in 1..Len(t) : k = Len(r) + m /\ k + 1 = Len(s) + m
      <4>1. k - Len(r) \in 1..Len(t) /\ k = Len(r) + (k - Len(r)) /\ k + 1 = Len(s) + (k - Len(r))
        BY <1>1, <1>3, <1>5, <2>2
      <4> QED
        BY <4>1
    <3>2. c[Len(s) + m] = t[m] /\ d[Len(r) + m] = t[m]
      BY <1>2, <1>4 DEF IsCat
    <3> QED
      BY <3>1, <3>2
  <2> QED
    BY <2>1, <2>2
<1>9. Tail(c) = d
  <2>1. PICK e \in Seq(T) : e = Tail(c) /\ Len(e) = Len(d) /\ \A k \in 1..Len(d) : e[k] = d[k]
    BY <1>5, <1>7, <1>8
  <2>2. e = d
    BY <2>1, SameElements
  <2> QED
    BY <2>1, <2>2
<1> QED
  BY <1>1, <1>2, <1>3, <1>4, <1>6, <1>9, Zenon

(* n bytes that are sent are the first of what was still to be sent, and   *)
(* the rest remains, whether or not they finish the packet.                *)
LEMMA UnsentSome ==
    ASSUME NEW sq, NEW iq, NEW d, Sending(sq, iq, d), sq # << >>,
           NEW rest, rest = DropFirst(Head(sq), d), NEW n \in 1..Len(rest)
    PROVE  /\ SubSeq(rest, 1, n) \in Seq(Bytes)
           /\ n = Len(rest) => /\ Sending(Tail(sq), iq, 0)
                               /\ Unsent(sq, iq, d) = SubSeq(rest, 1, n) \o Unsent(Tail(sq), iq, 0)
           /\ n # Len(rest) => /\ Sending(sq, iq, d + n)
                               /\ Unsent(sq, iq, d) = SubSeq(rest, 1, n) \o Unsent(sq, iq, d + n)
<1>1. PICK s \in Seq(Seq(Bytes)), i \in Seq(Seq(Bytes)) : s = sq /\ i = iq
  BY UnsentType
<1>2. /\ Head(s) \in Seq(Bytes) /\ Tail(s) \in Seq(Seq(Bytes)) /\ s # << >>
      /\ s \o i # << >> /\ Head(s \o i) = Head(s) /\ Tail(s \o i) = Tail(s) \o i
      /\ Tail(s) \o i \in Seq(Seq(Bytes)) /\ s \o i \in Seq(Seq(Bytes))
  <2>1. s # << >>
    BY <1>1
  <2> QED
    BY <2>1, HeadOfCat
<1>3. PICK h \in Seq(Bytes), z \in Seq(Bytes) : h = Head(s) /\ z = FlattenSeq(Tail(s) \o i)
  BY <1>2, FlattenType
<1>4. FlattenSeq(s \o i) = h \o z
  <2>1. FlattenSeq(s \o i) = Head(s \o i) \o FlattenSeq(Tail(s \o i))
    BY <1>2, FlattenCons
  <2> QED
    BY <1>2, <1>3, <2>1
<1>5. d \in 0..Len(h) /\ d \in Nat /\ d < Len(h)
  BY <1>1, <1>2, <1>3 DEF Sending
<1>6. PICK r \in Seq(Bytes) : r = rest /\ r = DropFirst(h, d) /\ Len(r) = Len(h) - d
  <2>1. IsCut(h, d, SubSeq(h, 1, d), DropFirst(h, d), Bytes)
    BY <1>5, CutAt
  <2> QED
    BY <1>1, <1>3, <2>1 DEF IsCut
<1>7. Unsent(sq, iq, d) = r \o z
  <2>1. DropFirst(h \o z, d) = DropFirst(h, d) \o z
    BY <1>5, DropCat
  <2> QED
    BY <1>1, <1>4, <1>6, <2>1 DEF Unsent
<1>8. n \in Nat /\ n \in 0..Len(r)
  BY <1>6
<1>9. PICK x \in Seq(Bytes), y \in Seq(Bytes) :
         x = SubSeq(r, 1, n) /\ y = DropFirst(r, n) /\ r = x \o y /\ Len(x) = n
                             /\ Len(y) = Len(r) - n
  <2>1. IsCut(r, n, SubSeq(r, 1, n), DropFirst(r, n), Bytes)
    BY <1>8, CutAt
  <2> QED
    BY <2>1 DEF IsCut
<1>10. ASSUME n = Len(rest)
       PROVE  /\ Sending(Tail(sq), iq, 0)
              /\ Unsent(sq, iq, d) = SubSeq(rest, 1, n) \o Unsent(Tail(sq), iq, 0)
  <2>1. x = r
    <3>1. Len(y) = 0
      BY <1>6, <1>9, <1>10
    <3>2. y = << >>
      BY <3>1
    <3> QED
      BY <1>9, <3>2
  <2>2. Unsent(Tail(sq), iq, 0) = z
    BY <1>1, <1>3, DropNone DEF Unsent
  <2>3. Sending(Tail(sq), iq, 0)
    <3> DEFINE P == {Frame(m) : m \in Messages}
    <3>1. PICK a \in Seq(P), b \in Seq(P) : a = sq /\ b = iq
      BY DEF Sending
    <3>2. Tail(a) \in Seq(P)
      BY <3>1
    <3>3. PICK t \in Seq(P) : t = Tail(a)
      BY <3>2
    <3>4. IF t = << >> THEN 0 = 0 ELSE 0 < Len(Head(t))
      <4>1. CASE t # << >>
        <5>1. 1 \in 1..Len(t) /\ Head(t) = t[1]
          BY <4>1
        <5>2. Len(t[1]) > 0
          BY <5>1, PacketsType
        <5> QED
          BY <4>1, <5>1, <5>2
      <4> QED
        BY <4>1
    <3> QED
      BY <3>1, <3>3, <3>4 DEF Sending
  <2> QED
    BY <1>6, <1>7, <1>9, <2>1, <2>2, <2>3
<1>11. ASSUME n # Len(rest)
       PROVE  /\ Sending(sq, iq, d + n)
              /\ Unsent(sq, iq, d) = SubSeq(rest, 1, n) \o Unsent(sq, iq, d + n)
  <2>1. d + n \in Nat /\ d + n < Len(h) /\ d + n \in 0..Len(h) /\ n \in 0..(Len(h) - d)
    BY <1>5, <1>6, <1>8, <1>11
  <2>2. y = DropFirst(h, d + n)
    <3>1. DropFirst(DropFirst(h, d), n) = DropFirst(h, d + n)
      BY <1>5, <2>1, DropDrop
    <3> QED
      BY <1>6, <1>9, <3>1
  <2>3. DropFirst(h \o z, d + n) = DropFirst(h, d + n) \o z
    BY <2>1, DropCat
  <2>4. Unsent(sq, iq, d + n) = y \o z
    BY <1>1, <1>4, <2>2, <2>3 DEF Unsent
  <2>5. (x \o y) \o z = x \o (y \o z)
    <3>1. Cat(Cat(x, y), z) = Cat(x, Cat(y, z))
      BY CatLaws
    <3> QED
      BY <3>1, Zenon DEF Cat
  <2>6. Sending(sq, iq, d + n)
    BY <1>1, <1>3, <2>1 DEF Sending
  <2> QED
    BY <1>6, <1>7, <1>9, <2>4, <2>5, <2>6
<1>12. SubSeq(rest, 1, n) \in Seq(Bytes)
  BY <1>6, <1>9
<1> QED
  BY <1>10, <1>11, <1>12

----------------------------------------------------------------------------
(* One direction of the connection, in terms of the values of its state.   *)

\* The ways in which the parts of a stream are regrouped.
Regrouped(T, h, r, n, u, x) ==
    /\ h \o r \o n \o (u \o x) = (h \o r \o n \o u) \o x
    /\ h \o r \o (n \o x) \o u = h \o r \o n \o (x \o u)
    /\ h \o r \o (x \o n) \o u = h \o (r \o x) \o n \o u
    /\ << >> \o << >> \o (x \o n) \o u = x \o << >> \o n \o u
    /\ x \o << >> \o n \o u = x \o (n \o u)
    /\ << >> \o << >> \o n \o u = n \o u
    /\ h \o r \o n \o u = h \o (r \o (n \o u))

LEMMA Regroup ==
    ASSUME NEW T, NEW h \in Seq(T), NEW r \in Seq(T), NEW n \in Seq(T), NEW u \in Seq(T),
           NEW x \in Seq(T)
    PROVE  Regrouped(T, h, r, n, u, x)
<1>1. /\ << >> \in Seq(T)
      /\ \A a, b \in Seq(T) : Cat(a, b) \in Seq(T)
      /\ \A a, b, c \in Seq(T) : Cat(Cat(a, b), c) = Cat(a, Cat(b, c))
      /\ \A a \in Seq(T) : Cat(<< >>, a) = a /\ Cat(a, << >>) = a
  BY CatLaws
<1>2. PICK e \in Seq(T) : e = << >> /\ \A a \in Seq(T) : Cat(e, a) = a /\ Cat(a, e) = a
  BY <1>1, Zenon
<1>3. PICK a \in Seq(T), b \in Seq(T), w \in Seq(T) :
         a = Cat(h, r) /\ b = Cat(a, n) /\ w = Cat(n, u)
  BY <1>1, Zenon
<1> DEFINE Joins(p, q, v) == Cat(Cat(p, q), v) = Cat(p, Cat(q, v))
<1>4. \A p, q, v \in Seq(T) : Joins(p, q, v)
  BY <1>1, Zenon
<1> HIDE DEF Joins
<1>5. /\ Joins(b, u, x) /\ Joins(a, n, x) /\ Joins(b, x, u) /\ Joins(h, r, x) /\ Joins(a, x, n)
      /\ Joins(x, n, u) /\ Joins(h, r, w) /\ Joins(a, n, u)
  BY <1>4
<1>6. Cat(Cat(a, n), Cat(u, x)) = Cat(Cat(Cat(a, n), u), x)
  BY <1>3, <1>5, Zenon DEF Joins
<1>7. Cat(Cat(a, Cat(n, x)), u) = Cat(Cat(a, n), Cat(x, u))
  BY <1>3, <1>5, Zenon DEF Joins
<1>8. Cat(Cat(a, Cat(x, n)), u) = Cat(Cat(Cat(h, Cat(r, x)), n), u)
  BY <1>3, <1>5, Zenon DEF Joins
<1>9. /\ Cat(Cat(Cat(e, e), Cat(x, n)), u) = Cat(Cat(Cat(x, e), n), u)
      /\ Cat(Cat(Cat(x, e), n), u) = Cat(x, Cat(n, u)) /\ Cat(Cat(Cat(e, e), n), u) = Cat(n, u)
  <2>1. PICK v \in Seq(T) : v = Cat(x, n)
    BY <1>1, Zenon
  <2>2. Cat(e, e) = e /\ Cat(x, e) = x /\ Cat(e, n) = n /\ Cat(e, v) = v
    BY <1>2
  <2> QED
    BY <1>5, <2>1, <2>2, Zenon DEF Joins
<1>10. Cat(Cat(a, n), u) = Cat(h, Cat(r, Cat(n, u)))
  BY <1>3, <1>5, Zenon DEF Joins
<1> QED
  <2>1. /\ Cat(Cat(Cat(h, r), n), Cat(u, x)) = Cat(Cat(Cat(Cat(h, r), n), u), x)
        /\ Cat(Cat(Cat(h, r), Cat(n, x)), u) = Cat(Cat(Cat(h, r), n), Cat(x, u))
        /\ Cat(Cat(Cat(h, r), Cat(x, n)), u) = Cat(Cat(Cat(h, Cat(r, x)), n), u)
        /\ Cat(Cat(Cat(h, r), n), u) = Cat(h, Cat(r, Cat(n, u)))
    BY <1>3, <1>6, <1>7, <1>8, <1>10, Zenon
  <2>2. /\ Cat(Cat(Cat(<< >>, << >>), Cat(x, n)), u) = Cat(Cat(Cat(x, << >>), n), u)
        /\ Cat(Cat(Cat(x, << >>), n), u) = Cat(x, Cat(n, u))
        /\ Cat(Cat(Cat(<< >>, << >>), n), u) = Cat(n, u)
    BY <1>2, <1>9, Zenon
  <2> QED
    BY <2>1, <2>2, Zenon DEF Regrouped, Cat

\* The frames of payloads begin with the header and the bytes of the first.
LEMMA PendingBytes ==
    ASSUME NEW q \in Seq(Messages)
    PROVE  /\ FlattenSeq(FramesOf(q)) \in Seq(Bytes)
           /\ q = << >> => FlattenSeq(FramesOf(q)) = << >>
           /\ q # << >> => /\ Head(q) \in Messages /\ Tail(q) \in Seq(Messages)
                           /\ FlattenSeq(FramesOf(Tail(q))) \in Seq(Bytes)
                           /\ FlattenSeq(FramesOf(q)) =
                                 Digits(Len(Head(q))) \o (Head(q) \o FlattenSeq(FramesOf(Tail(q))))
<1>1. FlattenSeq(FramesOf(q)) \in Seq(Bytes)
  BY FramesType, FlattenType
<1>2. ASSUME q = << >> PROVE FlattenSeq(FramesOf(q)) = << >>
  <2>1. PICK f \in Seq(Seq(Bytes)) : f = FramesOf(q) /\ Len(f) = Len(q)
    BY FramesType
  <2>2. f = << >>
    BY <1>2, <2>1
  <2> QED
    BY <2>1, <2>2, FlattenEmpty
<1>3. ASSUME q # << >>
      PROVE  /\ Head(q) \in Messages /\ Tail(q) \in Seq(Messages)
             /\ FlattenSeq(FramesOf(Tail(q))) \in Seq(Bytes)
             /\ FlattenSeq(FramesOf(q)) =
                   Digits(Len(Head(q))) \o (Head(q) \o FlattenSeq(FramesOf(Tail(q))))
  <2>1. /\ FramesOf(q) # << >> /\ Head(FramesOf(q)) = Frame(Head(q))
        /\ Tail(FramesOf(q)) = FramesOf(Tail(q)) /\ Head(q) \in Messages
        /\ Tail(q) \in Seq(Messages)
    BY <1>3, FramesCons
  <2>2. FramesOf(q) \in Seq(Seq(Bytes)) /\ FlattenSeq(FramesOf(Tail(q))) \in Seq(Bytes)
    BY <2>1, FramesType, FlattenType
  <2>3. FlattenSeq(FramesOf(q)) = Head(FramesOf(q)) \o FlattenSeq(Tail(FramesOf(q)))
    BY <2>1, <2>2, FlattenCons
  <2>4. PICK h \in Seq(Bytes), b \in Seq(Bytes), z \in Seq(Bytes) :
           h = Digits(Len(Head(q))) /\ b = Head(q) /\ z = FlattenSeq(FramesOf(Tail(q)))
    BY <2>1, <2>2, FrameType
  <2>5. (h \o b) \o z = h \o (b \o z)
    OBVIOUS
  <2> QED
    BY <2>1, <2>2, <2>3, <2>4, <2>5 DEF Frame
<1> QED
  BY <1>1, <1>2, <1>3

(* A direction in step: sq, iq, d are the sender's sendQ, inQ, sendDone,   *)
(* hs, ds, bs, rc, pc the receiver's headDone, dataSize, buffSize, recvd,  *)
(* tpc; nt is what is under way and q the payloads not received.           *)
InStep(sq, iq, d, hs, ds, bs, rc, pc, nt, q) ==
    /\ Sending(sq, iq, d)
    /\ ds \in [1..HeadSize -> Bytes] /\ rc \in Seq(Bytes) /\ nt \in Seq(Bytes)
    /\ q \in Seq(Messages)
    /\ \/ hs = 0 /\ rc = << >> /\ pc # "body"
       \/ hs = HeadSize /\ q # << >> /\ bs = Len(Head(q)) /\ ds = Digits(bs) /\ Len(rc) < bs
    /\ SubSeq(ds, 1, hs) \o rc \o nt \o Unsent(sq, iq, d) = FlattenSeq(FramesOf(q))

LEMMA InStepType ==
    ASSUME NEW sq, NEW iq, NEW d, NEW hs, NEW ds, NEW bs, NEW rc, NEW pc, NEW nt, NEW q,
           InStep(sq, iq, d, hs, ds, bs, rc, pc, nt, q)
    PROVE  /\ Sending(sq, iq, d) /\ Unsent(sq, iq, d) \in Seq(Bytes)
           /\ ds \in Seq(Bytes) /\ Len(ds) = HeadSize /\ SubSeq(ds, 1, hs) \in Seq(Bytes)
           /\ rc \in Seq(Bytes) /\ nt \in Seq(Bytes) /\ q \in Seq(Messages)
<1>1. Sending(sq, iq, d) /\ ds \in [1..HeadSize -> Bytes] /\ hs \in {0, HeadSize}
  BY DEF InStep
<1>2. HeadSize \in Nat
  BY PacketAssumption
<1>3. ds \in Seq(Bytes) /\ Len(ds) = HeadSize
  BY <1>1, <1>2
<1>4. SubSeq(ds, 1, hs) \in Seq(Bytes)
  BY <1>1, <1>2, <1>3
<1> QED
  BY <1>1, <1>3, <1>4, UnsentType DEF InStep

LEMMA StepSend ==
    ASSUME NEW sq, NEW iq, NEW d, NEW hs, NEW ds, NEW bs, NEW rc, NEW pc, NEW nt, NEW q,
           InStep(sq, iq, d, hs, ds, bs, rc, pc, nt, q), NEW m \in Messages
    PROVE  InStep(sq, Append(iq, Frame(m)), d, hs, ds, bs, rc, pc, nt, Append(q, m))
<1> DEFINE P == {Frame(k) : k \in Messages}
<1>1. PICK h \in Seq(Bytes), r \in Seq(Bytes), n \in Seq(Bytes), u \in Seq(Bytes), f \in Seq(Bytes) :
         h = SubSeq(ds, 1, hs) /\ r = rc /\ n = nt /\ u = Unsent(sq, iq, d) /\ f = Frame(m)
  BY InStepType, FrameType
<1>2. Sending(sq, iq, d) /\ q \in Seq(Messages)
  BY DEF InStep
<1>3. Sending(sq, Append(iq, Frame(m)), d)
  <2>1. PICK b \in Seq(P), g \in P : b = iq /\ g = Frame(m)
    BY <1>2 DEF Sending
  <2>2. Append(b, g) \in Seq(P)
    OBVIOUS
  <2> QED
    BY <1>2, <2>1, <2>2 DEF Sending
<1>4. Unsent(sq, Append(iq, Frame(m)), d) = u \o f
  <2>1. Unsent(sq, Append(iq, f), d) = Unsent(sq, iq, d) \o f
    BY <1>2, UnsentSend
  <2> QED
    BY <1>1, <2>1
<1>5. h \o r \o n \o (u \o f) = (h \o r \o n \o u) \o f
  <2>1. Regrouped(Bytes, h, r, n, u, f)
    BY Regroup
  <2> QED
    BY <2>1 DEF Regrouped
<1>6. FlattenSeq(FramesOf(Append(q, m))) = FlattenSeq(FramesOf(q)) \o f
  <2>1. FramesOf(q) \in Seq(Seq(Bytes)) /\ FramesOf(Append(q, m)) = Append(FramesOf(q), f)
    BY <1>1, <1>2, FramesType, FramesAppend
  <2>2. FlattenSeq(Append(FramesOf(q), f)) = FlattenSeq(FramesOf(q)) \o f
    BY <2>1, FlattenAppend
  <2> QED
    BY <2>1, <2>2
<1>7. /\ Append(q, m) \in Seq(Messages) /\ Append(q, m) # << >>
      /\ q # << >> => Head(Append(q, m)) = Head(q)
  <2>1. PICK a \in Seq(Messages) : a = q
    BY <1>2
  <2>2. Append(a, m) \in Seq(Messages) /\ Append(a, m) # << >>
    <3>1. Append(a, m) \in Seq(Messages) /\ Len(Append(a, m)) = Len(a) + 1
      OBVIOUS
    <3>2. PICK w \in Seq(Messages) : w = Append(a, m)
      BY <3>1, Zenon
    <3>3. Len(w) # 0
      BY <3>1, <3>2
    <3>4. w # << >>
      <4>1. Len(<< >>) = 0
        OBVIOUS
      <4> QED
        BY <3>3, <4>1, Zenon
    <3> QED
      BY <3>2, <3>4, Zenon
  <2>3. a # << >> => Head(Append(a, m)) = Head(a)
    OBVIOUS
  <2> QED
    BY <2>1, <2>2, <2>3
<1>8. h \o r \o n \o u = FlattenSeq(FramesOf(q))
  BY <1>1 DEF InStep
<1>9. SubSeq(ds, 1, hs) \o rc \o nt \o Unsent(sq, Append(iq, Frame(m)), d)
         = FlattenSeq(FramesOf(Append(q, m)))
  BY <1>1, <1>4, <1>5, <1>6, <1>8
<1> QED
  BY <1>3, <1>7, <1>9 DEF InStep

LEMMA StepFlush ==
    ASSUME NEW sq, NEW iq, NEW d, NEW hs, NEW ds, NEW bs, NEW rc, NEW pc, NEW nt, NEW q,
           InStep(sq, iq, d, hs, ds, bs, rc, pc, nt, q)
    PROVE  InStep(sq \o iq, << >>, d, hs, ds, bs, rc, pc, nt, q)
<1>1. Sending(sq \o iq, << >>, d) /\ Unsent(sq \o iq, << >>, d) = Unsent(sq, iq, d)
  BY UnsentFlush DEF InStep
<1> QED
  BY <1>1 DEF InStep

LEMMA StepSome ==
    ASSUME NEW sq, NEW iq, NEW d, NEW hs, NEW ds, NEW bs, NEW rc, NEW pc, NEW nt, NEW q,
           InStep(sq, iq, d, hs, ds, bs, rc, pc, nt, q), sq # << >>,
           NEW rest, rest = DropFirst(Head(sq), d), NEW n \in 1..Len(rest)
    PROVE  /\ nt \o SubSeq(rest, 1, n) \in Seq(Bytes)
           /\ n = Len(rest) =>
                 InStep(Tail(sq), iq, 0, hs, ds, bs, rc, pc, nt \o SubSeq(rest, 1, n), q)
           /\ n # Len(rest) =>
                 InStep(sq, iq, d + n, hs, ds, bs, rc, pc, nt \o SubSeq(rest, 1, n), q)
<1>1. Sending(sq, iq, d)
  BY DEF InStep
<1>2. /\ SubSeq(rest, 1, n) \in Seq(Bytes)
      /\ n = Len(rest) => /\ Sending(Tail(sq), iq, 0)
                          /\ Unsent(sq, iq, d) = SubSeq(rest, 1, n) \o Unsent(Tail(sq), iq, 0)
      /\ n # Len(rest) => /\ Sending(sq, iq, d + n)
                          /\ Unsent(sq, iq, d) = SubSeq(rest, 1, n) \o Unsent(sq, iq, d + n)
  BY <1>1, UnsentSome
<1>3. PICK h \in Seq(Bytes), r \in Seq(Bytes), k \in Seq(Bytes), x \in Seq(Bytes) :
         h = SubSeq(ds, 1, hs) /\ r = rc /\ k = nt /\ x = SubSeq(rest, 1, n)
  BY <1>2, InStepType
<1>4. k \o x \in Seq(Bytes)
  OBVIOUS
<1>5. h \o r \o k \o Unsent(sq, iq, d) = FlattenSeq(FramesOf(q))
  BY <1>3 DEF InStep
<1>6. ASSUME n = Len(rest)
      PROVE  InStep(Tail(sq), iq, 0, hs, ds, bs, rc, pc, nt \o SubSeq(rest, 1, n), q)
  <2>1. PICK v \in Seq(Bytes) : v = Unsent(Tail(sq), iq, 0)
    BY <1>2, <1>6, UnsentType
  <2>2. h \o r \o (k \o x) \o v = h \o r \o k \o (x \o v)
    <3>1. Regrouped(Bytes, h, r, k, v, x)
      BY Regroup
    <3> QED
      BY <3>1 DEF Regrouped
  <2>3. SubSeq(ds, 1, hs) \o rc \o (nt \o SubSeq(rest, 1, n)) \o Unsent(Tail(sq), iq, 0)
           = FlattenSeq(FramesOf(q))
    BY <1>2, <1>3, <1>5, <1>6, <2>1, <2>2
  <2> QED
    BY <1>2, <1>3, <1>4, <1>6, <2>3 DEF InStep
<1>7. ASSUME n # Len(rest)
      PROVE  InStep(sq, iq, d + n, hs, ds, bs, rc, pc, nt \o SubSeq(rest, 1, n), q)
  <2>1. PICK v \in Seq(Bytes) : v = Unsent(sq, iq, d + n)
    BY <1>2, <1>7, UnsentType
  <2>2. h \o r \o (k \o x) \o v = h \o r \o k \o (x \o v)
    <3>1. Regrouped(Bytes, h, r, k, v, x)
      BY Regroup
    <3> QED
      BY <3>1 DEF Regrouped
  <2>3. SubSeq(ds, 1, hs) \o rc \o (nt \o SubSeq(rest, 1, n)) \o Unsent(sq, iq, d + n)
           = FlattenSeq(FramesOf(q))
    BY <1>2, <1>3, <1>5, <1>7, <2>1, <2>2
  <2> QED
    BY <1>2, <1>3, <1>4, <1>7, <2>3 DEF InStep
<1> QED
  BY <1>3, <1>4, <1>6, <1>7

LEMMA StepHead ==
    ASSUME NEW sq, NEW iq, NEW d, NEW hs, NEW ds, NEW bs, NEW rc, NEW pc, NEW nt, NEW q,
           InStep(sq, iq, d, hs, ds, bs, rc, pc, nt, q), hs < HeadSize, HeadSize <= Len(nt),
           NEW hd, hd = [i \in 1..HeadSize |-> IF i <= HeadSize THEN nt[i] ELSE ds[i]]
    PROVE  /\ hs = 0 /\ SizeOf(hd) \in 0..MaxSize
           /\ InStep(sq, iq, d, HeadSize, hd, SizeOf(hd), rc, "body", DropFirst(nt, HeadSize), q)
<1>1. HeadSize \in Nat \ {0}
  BY PacketAssumption
<1>2. hs = 0 /\ rc = << >> /\ q \in Seq(Messages) /\ ds \in [1..HeadSize -> Bytes]
  BY <1>1 DEF InStep
<1>3. PICK k \in Seq(Bytes), u \in Seq(Bytes) : k = nt /\ u = Unsent(sq, iq, d)
  BY InStepType
<1>4. HeadSize \in 0..Len(k)
  BY <1>1, <1>3
<1>5. IsCut(k, HeadSize, SubSeq(k, 1, HeadSize), DropFirst(k, HeadSize), Bytes)
  BY <1>4, CutAt
<1>6. PICK x \in Seq(Bytes), y \in Seq(Bytes) :
         x = SubSeq(k, 1, HeadSize) /\ y = DropFirst(k, HeadSize) /\ k = x \o y /\ Len(x) = HeadSize
  BY <1>5 DEF IsCut
<1>7. hd = x /\ hd \in [1..HeadSize -> Bytes]
  <2>1. \A i \in 1..HeadSize : i <= HeadSize /\ k[i] \in Bytes
    BY <1>1, <1>4
  <2>2. hd = [i \in 1..HeadSize |-> k[i]]
    BY <1>3, <2>1
  <2>3. x = [i \in 1..HeadSize |-> k[i]]
    BY <1>4, <1>6
  <2> QED
    BY <2>1, <2>2, <2>3
<1>8. SubSeq(ds, 1, hs) = << >>
  BY <1>1, <1>2
<1>9. SubSeq(hd, 1, HeadSize) = x
  <2>1. SubSeq(x, 1, HeadSize) = x
    BY <1>1, <1>6
  <2> QED
    BY <1>7, <2>1
<1>10. Regrouped(Bytes, x, x, y, u, x)
  BY Regroup
<1>11. << >> \o << >> \o (x \o y) \o u = FlattenSeq(FramesOf(q))
  <2>1. SubSeq(ds, 1, hs) \o rc \o nt \o Unsent(sq, iq, d) = FlattenSeq(FramesOf(q))
    BY DEF InStep
  <2> QED
    BY <1>2, <1>3, <1>6, <1>8, <2>1
<1>12. x \o (y \o u) = FlattenSeq(FramesOf(q)) /\ x \o << >> \o y \o u = FlattenSeq(FramesOf(q))
  BY <1>10, <1>11 DEF Regrouped
<1>13. q # << >>
  <2> SUFFICES ASSUME q = << >> PROVE FALSE
    OBVIOUS
  <2>1. x \o (y \o u) = << >>
    BY <1>2, <1>12, PendingBytes
  <2>2. PICK w \in Seq(Bytes) : w = y \o u
    <3>1. y \o u \in Seq(Bytes)
      OBVIOUS
    <3> QED
      BY <3>1, Zenon
  <2>3. Len(x \o w) = Len(x) + Len(w) /\ x \o w \in Seq(Bytes)
    OBVIOUS
  <2>4. PICK v \in Seq(Bytes) : v = x \o w
    BY <2>3, Zenon
  <2>5. v = << >> /\ Len(v) = Len(x) + Len(w)
    BY <2>1, <2>2, <2>3, <2>4, Zenon
  <2> QED
    BY <1>1, <1>6, <2>5
<1>14. PICK g \in Seq(Bytes), w \in Seq(Bytes), z \in Seq(Bytes) :
          /\ g = Digits(Len(Head(q))) /\ Len(g) = HeadSize
          /\ w = y \o u /\ FlattenSeq(FramesOf(q)) = g \o z
  <2>1. /\ Head(q) \in Messages /\ FlattenSeq(FramesOf(Tail(q))) \in Seq(Bytes)
        /\ FlattenSeq(FramesOf(q)) = Digits(Len(Head(q))) \o (Head(q) \o FlattenSeq(FramesOf(Tail(q))))
    BY <1>2, <1>13, PendingBytes
  <2>2. /\ Digits(Len(Head(q))) \in Seq(Bytes) /\ Len(Digits(Len(Head(q)))) = HeadSize
        /\ Head(q) \in Seq(Bytes)
    BY <2>1, FrameType
  <2>3. PICK b \in Seq(Bytes), f \in Seq(Bytes) : b = Head(q) /\ f = FlattenSeq(FramesOf(Tail(q)))
    BY <2>1, <2>2
  <2>4. b \o f \in Seq(Bytes) /\ y \o u \in Seq(Bytes)
    OBVIOUS
  <2> QED
    BY <2>1, <2>2, <2>3, <2>4
<1>15. x = g
  <2>1. x \o w = g \o z /\ Len(x) = Len(g)
    BY <1>6, <1>12, <1>14
  <2> QED
    BY <2>1, CatCancel
<1>16. SizeOf(hd) = Len(Head(q)) /\ Len(Head(q)) \in 1..MaxSize /\ Len(Head(q)) \in 0..MaxSize
  <2>1. Head(q) \in Messages
    BY <1>2, <1>13, PendingBytes
  <2>2. Len(Head(q)) \in 1..MaxSize /\ Len(Head(q)) \in 0..MaxSize
    BY <2>1, FrameType
  <2>3. SizeOf(Digits(Len(Head(q)))) = Len(Head(q))
    BY <2>2, SizeRead
  <2> QED
    BY <1>7, <1>14, <1>15, <2>2, <2>3
<1>17. Len(rc) < SizeOf(hd)
  BY <1>2, <1>16
<1>18. SubSeq(hd, 1, HeadSize) \o rc \o DropFirst(nt, HeadSize) \o Unsent(sq, iq, d)
          = FlattenSeq(FramesOf(q))
  BY <1>2, <1>3, <1>6, <1>9, <1>12
<1>19. hd = Digits(SizeOf(hd))
  BY <1>7, <1>14, <1>15, <1>16
<1>20. Sending(sq, iq, d) /\ rc \in Seq(Bytes) /\ DropFirst(nt, HeadSize) \in Seq(Bytes)
  BY <1>3, <1>6 DEF InStep
<1> QED
  BY <1>2, <1>7, <1>13, <1>16, <1>17, <1>18, <1>19, <1>20 DEF InStep

\* The direction in step after n bytes, which make got of the body.
AfterBody(sq, iq, d, hs, ds, bs, nt, q, n, got) ==
    /\ hs = HeadSize /\ q # << >> /\ got \in Seq(Bytes) /\ bs \in 0..MaxSize
    /\ Len(got) = bs =>
          /\ got = Head(q)
          /\ InStep(sq, iq, d, 0, Digits(0), 0, << >>, "top", DropFirst(nt, n), Tail(q))
    /\ Len(got) # bs =>
          InStep(sq, iq, d, hs, ds, bs, got, "top", DropFirst(nt, n), q)

LEMMA StepBody ==
    ASSUME NEW sq, NEW iq, NEW d, NEW hs, NEW ds, NEW bs, NEW rc, NEW nt, NEW q,
           InStep(sq, iq, d, hs, ds, bs, rc, "body", nt, q),
           NEW n \in 0..Least(bs - Len(rc), Len(nt)),
           NEW got, got = rc \o SubSeq(nt, 1, n)
    PROVE  AfterBody(sq, iq, d, hs, ds, bs, nt, q, n, got)
<1>1. HeadSize \in Nat \ {0}
  BY PacketAssumption
<1>2. /\ hs = HeadSize /\ q # << >> /\ bs = Len(Head(q)) /\ ds = Digits(bs) /\ Len(rc) < bs
      /\ q \in Seq(Messages) /\ Sending(sq, iq, d)
  BY <1>1 DEF InStep
<1>3. PICK h \in Seq(Bytes), r \in Seq(Bytes), k \in Seq(Bytes), u \in Seq(Bytes) :
         h = ds /\ r = rc /\ k = nt /\ u = Unsent(sq, iq, d) /\ Len(h) = HeadSize
  BY InStepType
<1>4. /\ Head(q) \in Messages /\ Tail(q) \in Seq(Messages)
      /\ FlattenSeq(FramesOf(Tail(q))) \in Seq(Bytes)
      /\ FlattenSeq(FramesOf(q)) = Digits(Len(Head(q))) \o (Head(q) \o FlattenSeq(FramesOf(Tail(q))))
  BY <1>2, PendingBytes
<1>5. PICK b \in Seq(Bytes), z \in Seq(Bytes) :
         b = Head(q) /\ z = FlattenSeq(FramesOf(Tail(q))) /\ bs = Len(b)
  BY <1>2, <1>4, FrameType
<1>6. bs \in 0..MaxSize /\ bs \in Nat
  BY <1>2, <1>4, FrameType
<1>7. n \in Nat /\ n <= bs - Len(r) /\ n \in 0..Len(k) /\ Len(r) \in Nat
  BY <1>3, <1>6 DEF Least
<1>8. IsCut(k, n, SubSeq(k, 1, n), DropFirst(k, n), Bytes)
  BY <1>7, CutAt
<1>9. PICK x \in Seq(Bytes), y \in Seq(Bytes) :
         x = SubSeq(k, 1, n) /\ y = DropFirst(k, n) /\ k = x \o y /\ Len(x) = n
  BY <1>8 DEF IsCut
<1>10. PICK g \in Seq(Bytes), w \in Seq(Bytes), v \in Seq(Bytes), t \in Seq(Bytes) :
          g = r \o x /\ w = y \o u /\ v = b \o z /\ t = g \o w /\ Len(g) = Len(r) + n
  <2>1. r \o x \in Seq(Bytes) /\ Len(r \o x) = Len(r) + n
    <3>1. r \o x \in Seq(Bytes) /\ Len(r \o x) = Len(r) + Len(x)
      OBVIOUS
    <3> QED
      BY <1>9, <3>1
  <2>2. PICK g \in Seq(Bytes) : g = r \o x
    BY <2>1, Zenon
  <2>3. y \o u \in Seq(Bytes) /\ b \o z \in Seq(Bytes)
    OBVIOUS
  <2>4. PICK w \in Seq(Bytes) : w = y \o u
    BY <2>3, Zenon
  <2>5. g \o w \in Seq(Bytes)
    OBVIOUS
  <2> QED
    BY <2>1, <2>2, <2>3, <2>4, <2>5, Zenon
<1>11. got = g /\ got \in Seq(Bytes)
  BY <1>3, <1>9, <1>10
<1>12. SubSeq(ds, 1, hs) = h
  BY <1>1, <1>2, <1>3
<1>13. h \o r \o (x \o y) \o u = FlattenSeq(FramesOf(q))
  <2>1. SubSeq(ds, 1, hs) \o rc \o nt \o Unsent(sq, iq, d) = FlattenSeq(FramesOf(q))
    BY DEF InStep
  <2> QED
    BY <1>3, <1>9, <1>12, <2>1
<1>14. h \o g \o y \o u = FlattenSeq(FramesOf(q))
  <2>1. Regrouped(Bytes, h, r, y, u, x)
    BY Regroup
  <2>2. h \o r \o (x \o y) \o u = h \o (r \o x) \o y \o u
    BY <2>1 DEF Regrouped
  <2> QED
    BY <1>10, <1>13, <2>2
<1>15. h \o t = h \o v
  <2>1. Regrouped(Bytes, h, g, y, u, x)
    BY Regroup
  <2>2. h \o g \o y \o u = h \o (g \o (y \o u))
    BY <2>1 DEF Regrouped
  <2>3. FlattenSeq(FramesOf(q)) = h \o v
    BY <1>2, <1>3, <1>4, <1>5, <1>10
  <2> QED
    BY <1>10, <1>14, <2>2, <2>3
<1>16. g \o w = b \o z
  <2>1. t = v
    BY <1>15, CatCancel
  <2> QED
    BY <1>10, <2>1
<1>17. ASSUME Len(got) = bs
       PROVE  /\ got = Head(q)
              /\ InStep(sq, iq, d, 0, Digits(0), 0, << >>, "top", DropFirst(nt, n), Tail(q))
  <2>1. g = b /\ w = z
    <3>1. Len(g) = Len(b)
      BY <1>5, <1>11, <1>17
    <3> QED
      BY <1>16, <3>1, CatCancel
  <2>2. Digits(0) \in Seq(Bytes) /\ Len(Digits(0)) = HeadSize
    BY NoHeader
  <2>3. Digits(0) \in [1..HeadSize -> Bytes] /\ SubSeq(Digits(0), 1, 0) = << >>
    BY NoHeader
  <2>4. << >> \o << >> \o y \o u = z
    <3>1. Regrouped(Bytes, h, r, y, u, x)
      BY Regroup
    <3>2. << >> \o << >> \o y \o u = y \o u
      BY <3>1 DEF Regrouped
    <3> QED
      BY <1>10, <2>1, <3>2
  <2>5. SubSeq(Digits(0), 1, 0) \o << >> \o DropFirst(nt, n) \o Unsent(sq, iq, d)
           = FlattenSeq(FramesOf(Tail(q)))
    BY <1>3, <1>5, <1>9, <2>3, <2>4
  <2>6. << >> \in Seq(Bytes) /\ DropFirst(nt, n) \in Seq(Bytes) /\ "top" # "body"
    BY <1>3, <1>9
  <2>7. InStep(sq, iq, d, 0, Digits(0), 0, << >>, "top", DropFirst(nt, n), Tail(q))
    BY <1>2, <1>4, <2>3, <2>5, <2>6 DEF InStep
  <2> QED
    BY <1>5, <1>11, <2>1, <2>7
<1>18. ASSUME Len(got) # bs
       PROVE  InStep(sq, iq, d, hs, ds, bs, got, "top", DropFirst(nt, n), q)
  <2>1. Len(got) < bs
    <3>1. \A i, j, l \in Nat : i <= l - j /\ j + i # l => j + i < l
      OBVIOUS
    <3>2. Len(r) + n # bs /\ Len(got) = Len(r) + n
      BY <1>10, <1>11, <1>18
    <3> QED
      BY <1>6, <1>7, <3>1, <3>2
  <2>2. SubSeq(ds, 1, hs) \o got \o DropFirst(nt, n) \o Unsent(sq, iq, d) = FlattenSeq(FramesOf(q))
    BY <1>3, <1>9, <1>11, <1>12, <1>14
  <2>3. ds \in [1..HeadSize -> Bytes] /\ DropFirst(nt, n) \in Seq(Bytes)
    BY <1>3, <1>9 DEF InStep
  <2> QED
    BY <1>2, <1>11, <2>1, <2>2, <2>3 DEF InStep
<1> QED
  BY <1>2, <1>6, <1>11, <1>17, <1>18 DEF AfterBody

LEMMA StepGoto ==
    ASSUME NEW sq, NEW iq, NEW d, NEW hs, NEW ds, NEW bs, NEW rc, NEW pc, NEW nt, NEW q,
           InStep(sq, iq, d, hs, ds, bs, rc, pc, nt, q),
           NEW to, to # "body" \/ hs = HeadSize
    PROVE  InStep(sq, iq, d, hs, ds, bs, rc, to, nt, q)
<1>1. HeadSize # 0
  BY PacketAssumption
<1> QED
  BY <1>1 DEF InStep

LEMMA SendingBound ==
    ASSUME NEW sq, NEW iq, NEW d, Sending(sq, iq, d)
    PROVE  d \in 0..(HeadSize + MaxSize)
<1> USE PacketAssumption
<1>1. MaxSize \in Nat
  <2>1. Power[HeadSize] \in Nat \ {0}
    BY PowerDef
  <2> QED
    BY <2>1 DEF MaxSize
<1>2. CASE sq = << >>
  BY <1>1, <1>2 DEF Sending
<1>3. CASE sq # << >>
  <2> DEFINE P == {Frame(m) : m \in Messages}
  <2>1. PICK s \in Seq(P) : s = sq
    BY DEF Sending
  <2>2. Head(s) \in P
    BY <1>3, <2>1
  <2>3. PICK m \in Messages : Head(s) = Frame(m)
    BY <2>2
  <2>4. Len(Frame(m)) = HeadSize + Len(m) /\ Len(m) \in 1..MaxSize
    BY FrameType
  <2>5. d \in Nat /\ d < HeadSize + Len(m)
    BY <1>3, <2>1, <2>3, <2>4 DEF Sending
  <2> QED
    BY <1>1, <2>4, <2>5
<1> QED
  BY <1>2, <1>3

----------------------------------------------------------------------------
(* The inductive invariant.                                                *)

LEMMA EndsFacts ==
    \A e \in Ends : /\ Peer(e) \in Ends /\ Peer(e) # e /\ Peer(Peer(e)) = e
                    /\ \A f \in Ends : f = e \/ f = Peer(e)
BY DEF Ends, Peer

\* The direction from e to its peer.
Direction(e) ==
    InStep(sendQ[e], inQ[e], sendDone[e], headDone[Peer(e)], dataSize[Peer(e)],
           buffSize[Peer(e)], recvd[Peer(e)], tpc[Peer(e)], net[Peer(e)], pend[e])

LEMMA LinkIsDirections == LinkInv <=> LinkTypeOK /\ \A e \in Ends : Direction(e)
<1> SUFFICES ASSUME LinkTypeOK PROVE LinkInv <=> \A e \in Ends : Direction(e)
  BY DEF LinkInv
<1>1. \A e \in Ends : /\ sendDone[e] \in Nat /\ dataSize[e] \in [1..HeadSize -> Bytes]
                      /\ recvd[e] \in Seq(Bytes) /\ net[e] \in Seq(Bytes)
                      /\ pend[e] \in Seq(Messages)
  BY DEF LinkTypeOK
<1>2. \A e \in Ends : SendsFrames(e) <=> Sending(sendQ[e], inQ[e], sendDone[e])
  BY <1>1 DEF SendsFrames, Sending
<1>3. ASSUME NEW e \in Ends
      PROVE  Direction(e) <=> /\ SendsFrames(e) /\ Stream(e) = FlattenSeq(FramesOf(pend[e]))
                              /\ AwaitsHead(Peer(e)) \/ AwaitsBody(Peer(e))
  <2>1. Peer(e) \in Ends /\ Peer(Peer(e)) = e
    BY EndsFacts
  <2>2. Stream(e) = SubSeq(dataSize[Peer(e)], 1, headDone[Peer(e)]) \o recvd[Peer(e)]
                       \o net[Peer(e)] \o Unsent(sendQ[e], inQ[e], sendDone[e])
    BY DEF Stream, HeadSoFar, Unsent
  <2>3. AwaitsHead(Peer(e)) <=>
           headDone[Peer(e)] = 0 /\ recvd[Peer(e)] = << >> /\ tpc[Peer(e)] # "body"
    BY DEF AwaitsHead
  <2>4. AwaitsBody(Peer(e)) <=>
           /\ headDone[Peer(e)] = HeadSize /\ pend[e] # << >>
           /\ buffSize[Peer(e)] = Len(Head(pend[e]))
           /\ dataSize[Peer(e)] = Digits(buffSize[Peer(e)])
           /\ Len(recvd[Peer(e)]) < buffSize[Peer(e)]
    BY <2>1 DEF AwaitsBody
  <2>5. SendsFrames(e) <=> Sending(sendQ[e], inQ[e], sendDone[e])
    BY <1>2
  <2> HIDE DEF AwaitsHead, AwaitsBody
  <2> QED
    BY <1>1, <2>1, <2>2, <2>3, <2>4, <2>5 DEF Direction, InStep
<1>4. (\A e \in Ends : AwaitsHead(e) \/ AwaitsBody(e)) <=>
         \A e \in Ends : AwaitsHead(Peer(e)) \/ AwaitsBody(Peer(e))
  BY EndsFacts
<1> QED
  BY <1>3, <1>4 DEF LinkInv, StreamInStep

LEMMA LinkInvInit == LinkInit => LinkInv
<1> SUFFICES ASSUME LinkInit PROVE LinkTypeOK /\ \A e \in Ends : Direction(e)
  BY LinkIsDirections
<1>1. HeadSize \in Nat \ {0} /\ MaxSize \in Nat
  BY NoHeader
<1>2. Digits(0) \in [1..HeadSize -> Bytes] /\ SubSeq(Digits(0), 1, 0) = << >>
  BY NoHeader
<1>3. LinkTypeOK
  BY <1>1, <1>2 DEF LinkInit, LinkTypeOK
<1>4. ASSUME NEW e \in Ends PROVE Direction(e)
  <2>1. Peer(e) \in Ends
    BY EndsFacts
  <2>2. /\ sendQ[e] = << >> /\ inQ[e] = << >> /\ sendDone[e] = 0 /\ headDone[Peer(e)] = 0
        /\ dataSize[Peer(e)] = Digits(0) /\ recvd[Peer(e)] = << >> /\ tpc[Peer(e)] = "top"
        /\ net[Peer(e)] = << >> /\ pend[e] = << >>
    BY <2>1 DEF LinkInit
  <2>3. Sending(<< >>, << >>, 0)
    BY DEF Sending
  <2>4. Unsent(<< >>, << >>, 0) = << >>
    <3>1. << >> \o << >> = << >> /\ SubSeq(<< >>, 1, 0) = << >> /\ << >> \in Seq(Bytes)
      OBVIOUS
    <3> QED
      BY <3>1, FlattenEmpty, DropNone DEF Unsent
  <2>5. << >> \in Seq(Messages) /\ << >> \in Seq(Bytes) /\ << >> \o << >> = << >>
    OBVIOUS
  <2>6. FlattenSeq(FramesOf(<< >>)) = << >>
    BY <2>5, PendingBytes
  <2>7. SubSeq(Digits(0), 1, 0) \o << >> \o << >> \o Unsent(<< >>, << >>, 0)
           = FlattenSeq(FramesOf(<< >>))
    BY <1>2, <2>4, <2>5, <2>6
  <2> QED
    BY <1>2, <2>2, <2>3, <2>5, <2>7 DEF Direction, InStep
<1> QED
  BY <1>3, <1>4

\* Steps that move no byte.
LEMMA IdleStep ==
    ASSUME LinkTypeOK, \A e \in Ends : Direction(e), NEW e \in Ends, NEW pc,
           tpc' = [tpc EXCEPT ![e] = pc], pc \in {"top", "send", "head", "body", "ended"},
           pc # "body" \/ headDone[e] = HeadSize,
           UNCHANGED <<inQ, threadVars, recvOutQ, quit, net, pend, nSent>>,
           fatal' \in [Ends -> BOOLEAN]
    PROVE  LinkTypeOK' /\ \A f \in Ends : Direction(f)'
<1>1. LinkTypeOK'
  BY DEF LinkTypeOK, threadVars
<1>2. ASSUME NEW f \in Ends PROVE Direction(f)'
  <2>1. Peer(f) \in Ends /\ (Peer(f) = e \/ Peer(f) # e)
    BY EndsFacts
  <2>2. tpc'[Peer(f)] = tpc[Peer(f)] \/ tpc'[Peer(f)] # "body" \/ headDone[Peer(f)] = HeadSize
    BY <2>1 DEF LinkTypeOK
  <2>3. InStep(sendQ[f], inQ[f], sendDone[f], headDone[Peer(f)], dataSize[Peer(f)],
               buffSize[Peer(f)], recvd[Peer(f)], tpc[Peer(f)], net[Peer(f)], pend[f])
    BY DEF Direction
  <2>4. InStep(sendQ[f], inQ[f], sendDone[f], headDone[Peer(f)], dataSize[Peer(f)],
               buffSize[Peer(f)], recvd[Peer(f)], tpc'[Peer(f)], net[Peer(f)], pend[f])
    <3>1. CASE tpc'[Peer(f)] = tpc[Peer(f)]
      BY <2>3, <3>1
    <3>2. CASE tpc'[Peer(f)] # "body" \/ headDone[Peer(f)] = HeadSize
      BY <2>3, <3>2, StepGoto
    <3> QED
      BY <2>2, <3>1, <3>2
  <2> QED
    BY <2>4 DEF Direction, threadVars
<1> QED
  BY <1>1, <1>2

\* Steps of the readers and of the destructor, which the threads do not see.
LEMMA ReaderStep ==
    ASSUME LinkTypeOK, \A e \in Ends : Direction(e),
           UNCHANGED <<tpc, inQ, threadVars, fatal, net, pend, nSent>>,
           recvOutQ' \in [Ends -> Seq(Seq(Bytes))], quit' \in [Ends -> BOOLEAN]
    PROVE  LinkTypeOK' /\ \A f \in Ends : Direction(f)'
<1>1. LinkTypeOK'
  BY DEF LinkTypeOK, threadVars
<1>2. \A f \in Ends : Direction(f)'
  BY DEF Direction, threadVars
<1> QED
  BY <1>1, <1>2

LEMMA SendStep ==
    ASSUME LinkTypeOK, \A e \in Ends : Direction(e), NEW e \in Ends, NEW m \in Messages, Send(e, m)
    PROVE  LinkTypeOK' /\ \A f \in Ends : Direction(f)'
<1>1. /\ inQ' = [inQ EXCEPT ![e] = Append(inQ[e], Frame(m))]
      /\ pend' = [pend EXCEPT ![e] = Append(pend[e], m)]
      /\ nSent' = [nSent EXCEPT ![e] = nSent[e] + 1]
      /\ UNCHANGED <<tpc, threadVars, recvOutQ, fatal, quit, net>>
  BY DEF Send
<1>2. /\ inQ'[e] = Append(inQ[e], Frame(m)) /\ pend'[e] = Append(pend[e], m)
      /\ \A f \in Ends : f # e => inQ'[f] = inQ[f] /\ pend'[f] = pend[f]
  BY <1>1 DEF LinkTypeOK
<1>3. LinkTypeOK'
  <2>1. Append(inQ[e], Frame(m)) \in Seq(Seq(Bytes)) /\ Append(pend[e], m) \in Seq(Messages)
    <3>1. PICK a \in Seq(Seq(Bytes)), b \in Seq(Messages), f \in Seq(Bytes) :
             a = inQ[e] /\ b = pend[e] /\ f = Frame(m)
      BY FrameType DEF LinkTypeOK
    <3>2. Append(a, f) \in Seq(Seq(Bytes))
      OBVIOUS
    <3>3. Append(b, m) \in Seq(Messages)
      OBVIOUS
    <3> QED
      BY <3>1, <3>2, <3>3
  <2>2. inQ' \in [Ends -> Seq(Seq(Bytes))]
    BY <1>1, <2>1 DEF LinkTypeOK
  <2>3. pend' \in [Ends -> Seq(Messages)]
    BY <1>1, <2>1 DEF LinkTypeOK
  <2>4. nSent' \in [Ends -> Nat]
    BY <1>1 DEF LinkTypeOK
  <2> QED
    BY <1>1, <2>2, <2>3, <2>4 DEF LinkTypeOK, threadVars
<1>4. Direction(e)'
  <2>1. InStep(sendQ[e], Append(inQ[e], Frame(m)), sendDone[e], headDone[Peer(e)],
               dataSize[Peer(e)], buffSize[Peer(e)], recvd[Peer(e)], tpc[Peer(e)],
               net[Peer(e)], Append(pend[e], m))
    BY StepSend DEF Direction
  <2> QED
    BY <1>1, <1>2, <2>1 DEF Direction, threadVars
<1>5. ASSUME NEW f \in Ends, f # e PROVE Direction(f)'
  BY <1>1, <1>2, <1>5 DEF Direction, threadVars
<1> QED
  BY <1>3, <1>4, <1>5

LEMMA FlushStep ==
    ASSUME LinkTypeOK, \A e \in Ends : Direction(e), NEW e \in Ends, FlushInQueue(e)
    PROVE  LinkTypeOK' /\ \A f \in Ends : Direction(f)'
<1>1. /\ sendQ' = [sendQ EXCEPT ![e] = sendQ[e] \o inQ[e]]
      /\ inQ' = [inQ EXCEPT ![e] = << >>] /\ tpc' = [tpc EXCEPT ![e] = "send"]
      /\ UNCHANGED <<sendDone, headDone, dataSize, buffSize, recvd, recvOutQ, fatal, quit, net,
                     pend, nSent>>
  BY DEF FlushInQueue, ThreadAt
<1>2. /\ sendQ'[e] = sendQ[e] \o inQ[e] /\ inQ'[e] = << >> /\ tpc'[e] = "send"
      /\ \A f \in Ends : f # e => sendQ'[f] = sendQ[f] /\ inQ'[f] = inQ[f] /\ tpc'[f] = tpc[f]
  BY <1>1 DEF LinkTypeOK
<1>3. LinkTypeOK'
  <2>1. sendQ[e] \o inQ[e] \in Seq(Seq(Bytes)) /\ << >> \in Seq(Seq(Bytes))
    BY DEF LinkTypeOK
  <2>2. sendQ' \in [Ends -> Seq(Seq(Bytes))]
    BY <1>1, <2>1 DEF LinkTypeOK
  <2>3. inQ' \in [Ends -> Seq(Seq(Bytes))] /\
        tpc' \in [Ends -> {"top", "send", "head", "body", "ended"}]
    BY <1>1, <2>1 DEF LinkTypeOK
  <2> QED
    BY <1>1, <2>2, <2>3 DEF LinkTypeOK
<1>4. Direction(e)'
  <2>1. InStep(sendQ[e] \o inQ[e], << >>, sendDone[e], headDone[Peer(e)],
               dataSize[Peer(e)], buffSize[Peer(e)], recvd[Peer(e)], tpc[Peer(e)],
               net[Peer(e)], pend[e])
    BY StepFlush DEF Direction
  <2>2. Peer(e) \in Ends /\ Peer(e) # e
    BY EndsFacts
  <2> QED
    BY <1>1, <1>2, <2>1, <2>2 DEF Direction
<1>5. ASSUME NEW f \in Ends, f = Peer(e) PROVE Direction(f)'
  <2>1. Peer(f) = e /\ f # e
    BY <1>5, EndsFacts
  <2>2. InStep(sendQ[f], inQ[f], sendDone[f], headDone[e], dataSize[e], buffSize[e], recvd[e],
               tpc[e], net[e], pend[f])
    BY <2>1 DEF Direction
  <2>3. InStep(sendQ[f], inQ[f], sendDone[f], headDone[e], dataSize[e], buffSize[e], recvd[e],
               "send", net[e], pend[f])
    BY <2>2, StepGoto
  <2> QED
    BY <1>1, <1>2, <2>1, <2>3 DEF Direction
<1> QED
  BY <1>3, <1>4, <1>5, EndsFacts

LEMMA SomeStep ==
    ASSUME LinkTypeOK, \A e \in Ends : Direction(e), NEW e \in Ends, SendSome(e)
    PROVE  LinkTypeOK' /\ \A f \in Ends : Direction(f)'
<1> DEFINE p == Peer(e)
           rest == DropFirst(Head(sendQ[e]), sendDone[e])
<1>p. p \in Ends /\ p # e /\ Peer(p) = e /\ \A f \in Ends : f = e \/ f = p
  BY EndsFacts
<1>1. PICK n \in 1..Least(Len(rest), Room(e)) :
         /\ net' = [net EXCEPT ![p] = net[p] \o SubSeq(rest, 1, n)]
         /\ IF n = Len(rest)
            THEN /\ sendQ' = [sendQ EXCEPT ![e] = Tail(sendQ[e])]
                 /\ sendDone' = [sendDone EXCEPT ![e] = 0]
            ELSE /\ sendDone' = [sendDone EXCEPT ![e] = sendDone[e] + n]
                 /\ UNCHANGED sendQ
  BY DEF SendSome
<1>2. /\ sendQ[e] # << >>
      /\ UNCHANGED <<tpc, inQ, headDone, dataSize, buffSize, recvd, recvOutQ, fatal, quit, pend,
                     nSent>>
  BY DEF SendSome
<1>3. InStep(sendQ[e], inQ[e], sendDone[e], headDone[p], dataSize[p], buffSize[p], recvd[p],
             tpc[p], net[p], pend[e])
  BY DEF Direction
<1> DEFINE u == net[p] \o SubSeq(rest, 1, n)
           Now(q, d) == InStep(q, inQ[e], d, headDone[p], dataSize[p], buffSize[p], recvd[p],
                               tpc[p], u, pend[e])
<1>4. n \in 1..Len(rest)
  <2>1. PICK h \in Seq(Bytes) : h = Head(sendQ[e])
    <3>1. sendQ[e] \in Seq(Seq(Bytes))
      BY DEF LinkTypeOK
    <3>2. Head(sendQ[e]) \in Seq(Bytes)
      BY <1>2, <3>1
    <3> QED
      BY <3>2
  <2>2. sendDone[e] \in Nat /\ sendDone[e] < Len(h)
    BY <1>2, <1>3, <2>1 DEF InStep, Sending
  <2>3. sendDone[e] \in 0..Len(h)
    BY <2>2
  <2>4. IsCut(h, sendDone[e], SubSeq(h, 1, sendDone[e]), DropFirst(h, sendDone[e]), Bytes)
    BY <2>3, CutAt
  <2>5. Len(rest) \in Nat
    BY <2>1, <2>4 DEF IsCut
  <2>6. Room(e) \in Int
    <3>1. net[p] \in Seq(Bytes)
      BY <1>p DEF LinkTypeOK
    <3>2. Len(net[p]) \in Nat
      BY <3>1
    <3> QED
      BY <3>2, PacketAssumption DEF Room
  <2> HIDE DEF rest
  <2> QED
    BY <2>5, <2>6 DEF Least
<1>5. /\ u \in Seq(Bytes)
      /\ n = Len(rest) => Now(Tail(sendQ[e]), 0)
      /\ n # Len(rest) => Now(sendQ[e], sendDone[e] + n)
  BY <1>2, <1>3, <1>4, StepSome
<1>6. net'[p] = u /\ net'[e] = net[e] /\ net' \in [Ends -> Seq(Bytes)]
  <2> HIDE DEF u
  <2>1. net' = [net EXCEPT ![p] = u]
    BY <1>1 DEF u
  <2> QED
    BY <1>p, <1>5, <2>1 DEF LinkTypeOK
<1>7. /\ sendQ'[p] = sendQ[p] /\ sendDone'[p] = sendDone[p]
      /\ n = Len(rest) => sendQ'[e] = Tail(sendQ[e]) /\ sendDone'[e] = 0
      /\ n # Len(rest) => sendQ'[e] = sendQ[e] /\ sendDone'[e] = sendDone[e] + n
  <2> HIDE DEF rest, u
  <2> QED
    BY <1>1, <1>p DEF LinkTypeOK
<1>8. Now(sendQ'[e], sendDone'[e])
  BY <1>5, <1>7
<1>9. Direction(e)'
  BY <1>2, <1>6, <1>8 DEF Direction
<1>10. Direction(p)'
  <2>1. Direction(p)
    BY <1>p
  <2> QED
    BY <1>2, <1>6, <1>7, <1>p, <2>1 DEF Direction
<1>11. LinkTypeOK'
  <2>1. sendQ'[e] \in Seq(Seq(Bytes)) /\ sendDone'[e] \in 0..(HeadSize + MaxSize)
    <3>1. Sending(sendQ'[e], inQ[e], sendDone'[e])
      BY <1>8 DEF InStep
    <3> QED
      BY <3>1, UnsentType, SendingBound
  <2>2. sendQ' \in [Ends -> Seq(Seq(Bytes))] /\ sendDone' \in [Ends -> 0..(HeadSize + MaxSize)]
    <3>1. sendQ' = [f \in Ends |-> sendQ'[f]] /\ sendDone' = [f \in Ends |-> sendDone'[f]]
      <4> HIDE DEF rest, u
      <4> QED
        BY <1>1 DEF LinkTypeOK
    <3>2. \A f \in Ends : sendQ'[f] \in Seq(Seq(Bytes)) /\ sendDone'[f] \in 0..(HeadSize + MaxSize)
      BY <1>7, <1>p, <2>1 DEF LinkTypeOK
    <3> QED
      BY <3>1, <3>2
  <2> QED
    BY <1>2, <1>6, <2>2 DEF LinkTypeOK
<1> QED
  BY <1>9, <1>10, <1>11, <1>p

LEMMA HeadStep ==
    ASSUME ~SplitHeads, LinkTypeOK, \A e \in Ends : Direction(e), NEW e \in Ends, RecvHead(e)
    PROVE  LinkTypeOK' /\ \A f \in Ends : Direction(f)'
<1> DEFINE p == Peer(e)
           hd == [i \in 1..HeadSize |-> IF i <= HeadSize THEN net[e][i] ELSE dataSize[e][i]]
           u == DropFirst(net[e], HeadSize)
<1>p. p \in Ends /\ p # e /\ Peer(p) = e /\ \A f \in Ends : f = e \/ f = p
  BY EndsFacts
<1>1. /\ tpc[e] = "head" /\ headDone[e] < HeadSize /\ HeadSize <= Len(net[e])
      /\ dataSize' = [dataSize EXCEPT ![e] = hd]
      /\ net' = [net EXCEPT ![e] = u]
      /\ headDone' = [headDone EXCEPT ![e] = headDone[e] + HeadSize]
      /\ IF headDone[e] + HeadSize = HeadSize
         THEN buffSize' = [buffSize EXCEPT ![e] = SizeOf(dataSize'[e])] /\ ThreadAt(e, "body")
         ELSE ThreadAt(e, "top") /\ UNCHANGED buffSize
      /\ UNCHANGED <<inQ, sendQ, sendDone, recvd, recvOutQ, fatal, quit, pend, nSent>>
  BY DEF RecvHead, HeadSizes
<1>2. InStep(sendQ[p], inQ[p], sendDone[p], headDone[e], dataSize[e], buffSize[e], recvd[e],
             tpc[e], net[e], pend[p])
  BY <1>p DEF Direction
<1>3. /\ headDone[e] = 0 /\ SizeOf(hd) \in 0..MaxSize
      /\ InStep(sendQ[p], inQ[p], sendDone[p], HeadSize, hd, SizeOf(hd), recvd[e],
                "body", u, pend[p])
  BY <1>1, <1>2, StepHead
<1>4. hd \in [1..HeadSize -> Bytes] /\ u \in Seq(Bytes)
  BY <1>3 DEF InStep
<1> HIDE DEF hd, u
<1>5. dataSize'[e] = hd
  BY <1>1 DEF LinkTypeOK
<1>6. /\ buffSize' = [buffSize EXCEPT ![e] = SizeOf(hd)]
      /\ tpc' = [tpc EXCEPT ![e] = "body"] /\ headDone' = [headDone EXCEPT ![e] = HeadSize]
  <2>1. headDone[e] + HeadSize = HeadSize
    <3>1. HeadSize \in Nat
      BY PacketAssumption
    <3> QED
      BY <1>3, <3>1
  <2>2. buffSize' = [buffSize EXCEPT ![e] = SizeOf(dataSize'[e])] /\ ThreadAt(e, "body")
    BY <1>1, <2>1
  <2>3. SizeOf(dataSize'[e]) = SizeOf(hd)
    BY <1>5
  <2>4. headDone' = [headDone EXCEPT ![e] = HeadSize]
    BY <1>1, <2>1
  <2> QED
    BY <2>2, <2>3, <2>4 DEF ThreadAt
<1>7. /\ buffSize'[e] = SizeOf(hd) /\ tpc'[e] = "body" /\ headDone'[e] = HeadSize /\ net'[e] = u
      /\ buffSize'[p] = buffSize[p] /\ tpc'[p] = tpc[p] /\ headDone'[p] = headDone[p]
      /\ net'[p] = net[p] /\ dataSize'[p] = dataSize[p]
  BY <1>1, <1>6, <1>p DEF LinkTypeOK
<1>8. Direction(p)'
  BY <1>1, <1>3, <1>5, <1>7, <1>p DEF Direction
<1>9. Direction(e)'
  <2>1. Direction(e)
    OBVIOUS
  <2> QED
    BY <1>1, <1>7, <2>1 DEF Direction
<1>10. LinkTypeOK'
  <2>1. net' \in [Ends -> Seq(Bytes)] /\ dataSize' \in [Ends -> [1..HeadSize -> Bytes]]
    BY <1>1, <1>4 DEF LinkTypeOK
  <2>2. /\ tpc' \in [Ends -> {"top", "send", "head", "body", "ended"}]
        /\ buffSize' \in [Ends -> 0..MaxSize]
    BY <1>3, <1>6 DEF LinkTypeOK
  <2>3. headDone' \in [Ends -> 0..HeadSize]
    BY <1>6, PacketAssumption DEF LinkTypeOK
  <2> QED
    BY <1>1, <2>1, <2>2, <2>3 DEF LinkTypeOK
<1> QED
  BY <1>8, <1>9, <1>10, <1>p

\* What RecvBody does, in terms of what it has then got of the body.
LEMMA BodyStep ==
    ASSUME LinkTypeOK, \A e \in Ends : Direction(e), NEW e \in Ends, RecvBody(e)
    PROVE  /\ LinkTypeOK' /\ \A f \in Ends : Direction(f)'
           /\ \/ recvOutQ' = recvOutQ /\ pend' = pend
              \/ /\ pend[Peer(e)] # << >>
                 /\ recvOutQ' = [recvOutQ EXCEPT ![e] = Append(recvOutQ[e], Head(pend[Peer(e)]))]
                 /\ pend' = [pend EXCEPT ![Peer(e)] = Tail(pend[Peer(e)])]
<1> DEFINE p == Peer(e)
<1>p. p \in Ends /\ p # e /\ Peer(p) = e /\ \A f \in Ends : f = e \/ f = p
  BY EndsFacts
<1>1. PICK n \in 0..Least(buffSize[e] - Len(recvd[e]), Len(net[e])) :
         LET got == recvd[e] \o SubSeq(net[e], 1, n)
         IN  /\ net' = [net EXCEPT ![e] = DropFirst(net[e], n)]
             /\ IF Len(got) = buffSize[e]
                THEN /\ recvOutQ' = [recvOutQ EXCEPT ![e] = Append(recvOutQ[e], got)]
                     /\ recvd' = [recvd EXCEPT ![e] = << >>]
                     /\ buffSize' = [buffSize EXCEPT ![e] = 0]
                     /\ headDone' = [headDone EXCEPT ![e] = 0]
                     /\ dataSize' = [dataSize EXCEPT ![e] = Digits(0)]
                     /\ pend' = [pend EXCEPT ![p] = DropFirst(pend[p], 1)]
                ELSE /\ recvd' = [recvd EXCEPT ![e] = got]
                     /\ UNCHANGED <<recvOutQ, buffSize, headDone, dataSize, pend>>
  BY DEF RecvBody
<1>2. /\ tpc[e] = "body" /\ tpc' = [tpc EXCEPT ![e] = "top"]
      /\ UNCHANGED <<inQ, sendQ, sendDone, fatal, quit, nSent>>
  BY DEF RecvBody, ThreadAt
<1> DEFINE got == recvd[e] \o SubSeq(net[e], 1, n)
           u == DropFirst(net[e], n)
<1>3. InStep(sendQ[p], inQ[p], sendDone[p], headDone[e], dataSize[e], buffSize[e], recvd[e],
             "body", net[e], pend[p])
  BY <1>2, <1>p DEF Direction
<1>4. /\ headDone[e] = HeadSize /\ pend[p] # << >> /\ got \in Seq(Bytes)
      /\ buffSize[e] \in 0..MaxSize
      /\ Len(got) = buffSize[e] =>
            /\ got = Head(pend[p])
            /\ InStep(sendQ[p], inQ[p], sendDone[p], 0, Digits(0), 0, << >>, "top", u,
                      Tail(pend[p]))
      /\ Len(got) # buffSize[e] =>
            InStep(sendQ[p], inQ[p], sendDone[p], headDone[e], dataSize[e], buffSize[e], got,
                   "top", u, pend[p])
  <2>1. got = recvd[e] \o SubSeq(net[e], 1, n) /\ u = DropFirst(net[e], n)
    OBVIOUS
  <2> HIDE DEF got, u, p
  <2>2. AfterBody(sendQ[p], inQ[p], sendDone[p], headDone[e], dataSize[e], buffSize[e], net[e],
                  pend[p], n, got)
    BY <1>3, <2>1, StepBody
  <2> QED
    BY <2>1, <2>2 DEF AfterBody
<1>5. /\ net' = [net EXCEPT ![e] = u]
      /\ Len(got) = buffSize[e] =>
            /\ recvOutQ' = [recvOutQ EXCEPT ![e] = Append(recvOutQ[e], got)]
            /\ recvd' = [recvd EXCEPT ![e] = << >>]
            /\ buffSize' = [buffSize EXCEPT ![e] = 0]
            /\ headDone' = [headDone EXCEPT ![e] = 0]
            /\ dataSize' = [dataSize EXCEPT ![e] = Digits(0)]
            /\ pend' = [pend EXCEPT ![p] = DropFirst(pend[p], 1)]
      /\ Len(got) # buffSize[e] =>
            /\ recvd' = [recvd EXCEPT ![e] = got]
            /\ UNCHANGED <<recvOutQ, buffSize, headDone, dataSize, pend>>
  BY <1>1
<1> HIDE DEF got, u
<1>6. net'[p] = net[p] /\ net'[e] = u /\ tpc'[e] = "top" /\ tpc'[p] = tpc[p]
  BY <1>2, <1>5, <1>p DEF LinkTypeOK
<1>7. net' \in [Ends -> Seq(Bytes)] /\ tpc' \in [Ends -> {"top", "send", "head", "body", "ended"}]
  <2>1. u \in Seq(Bytes)
    BY <1>4 DEF InStep
  <2> QED
    BY <1>2, <1>5, <2>1 DEF LinkTypeOK
<1>8. CASE Len(got) = buffSize[e]
  <2>1. DropFirst(pend[p], 1) = Tail(pend[p]) /\ Tail(pend[p]) \in Seq(Messages)
    <3>1. PICK q \in Seq(Messages) : q = pend[p] /\ q # << >>
      BY <1>4, <1>p DEF LinkTypeOK
    <3>2. Tail(q) \in Seq(Messages) /\ SubSeq(q, 2, Len(q)) = Tail(q)
      BY <3>1
    <3> QED
      BY <3>1, <3>2 DEF DropFirst
  <2>r. /\ recvOutQ' = [recvOutQ EXCEPT ![e] = Append(recvOutQ[e], got)]
        /\ recvd' = [recvd EXCEPT ![e] = << >>]
        /\ buffSize' = [buffSize EXCEPT ![e] = 0] /\ headDone' = [headDone EXCEPT ![e] = 0]
        /\ dataSize' = [dataSize EXCEPT ![e] = Digits(0)]
        /\ pend' = [pend EXCEPT ![p] = Tail(pend[p])]
    BY <1>5, <1>8, <2>1, Zenon
  <2>t. /\ recvOutQ \in [Ends -> Seq(Seq(Bytes))] /\ recvd \in [Ends -> Seq(Bytes)]
        /\ buffSize \in [Ends -> 0..MaxSize] /\ headDone \in [Ends -> 0..HeadSize]
        /\ dataSize \in [Ends -> [1..HeadSize -> Bytes]] /\ pend \in [Ends -> Seq(Messages)]
    BY DEF LinkTypeOK
  <2>s. recvd' \in [Ends -> Seq(Bytes)] /\ recvd'[e] = << >> /\ recvd'[p] = recvd[p]
    <3>1. << >> \in Seq(Bytes)
      BY CatNothing
    <3> QED
      BY <1>p, <2>r, <2>t, <3>1
  <2>b. buffSize' \in [Ends -> 0..MaxSize] /\ buffSize'[e] = 0 /\ buffSize'[p] = buffSize[p]
    <3>1. 0 \in 0..MaxSize
      BY NoHeader
    <3> QED
      BY <1>p, <2>r, <2>t, <3>1
  <2>h. headDone' \in [Ends -> 0..HeadSize] /\ headDone'[e] = 0 /\ headDone'[p] = headDone[p]
    <3>1. 0 \in 0..HeadSize
      BY NoHeader
    <3> QED
      BY <1>p, <2>r, <2>t, <3>1
  <2>d. /\ dataSize' \in [Ends -> [1..HeadSize -> Bytes]]
        /\ dataSize'[e] = Digits(0) /\ dataSize'[p] = dataSize[p]
    <3>1. PICK D : D = [1..HeadSize -> Bytes]
      OBVIOUS
    <3>2. PICK z \in D : z = Digits(0)
      BY <3>1, NoHeader
    <3>3. dataSize' = [dataSize EXCEPT ![e] = z] /\ dataSize \in [Ends -> D]
      BY <2>r, <2>t, <3>1, <3>2
    <3>4. dataSize' \in [Ends -> D] /\ dataSize'[e] = z /\ dataSize'[p] = dataSize[p]
      BY <1>p, <3>3
    <3> QED
      BY <3>1, <3>2, <3>4
  <2>m. pend' \in [Ends -> Seq(Messages)] /\ pend'[p] = Tail(pend[p]) /\ pend'[e] = pend[e]
    BY <1>p, <2>1, <2>r, <2>t
  <2>2. /\ recvd'[e] = << >> /\ recvd'[p] = recvd[p] /\ buffSize'[e] = 0
        /\ buffSize'[p] = buffSize[p] /\ headDone'[e] = 0 /\ headDone'[p] = headDone[p]
        /\ dataSize'[e] = Digits(0) /\ dataSize'[p] = dataSize[p]
        /\ pend'[p] = Tail(pend[p]) /\ pend'[e] = pend[e]
    BY <2>s, <2>b, <2>h, <2>d, <2>m
  <2>3. Direction(p)'
    BY <1>2, <1>4, <1>6, <1>8, <1>p, <2>2 DEF Direction
  <2>4. Direction(e)'
    <3>1. Direction(e)
      OBVIOUS
    <3> QED
      BY <1>2, <1>6, <2>2, <3>1 DEF Direction
  <2>5. LinkTypeOK'
    <3>1. recvOutQ' \in [Ends -> Seq(Seq(Bytes))]
      <4>1. PICK a \in Seq(Seq(Bytes)), b \in Seq(Bytes) : a = recvOutQ[e] /\ b = got
        BY <1>4, <2>t
      <4>2. Append(a, b) \in Seq(Seq(Bytes))
        OBVIOUS
      <4> QED
        BY <2>r, <2>t, <4>1, <4>2
    <3> QED
      BY <1>2, <1>7, <2>s, <2>b, <2>h, <2>d, <2>m, <3>1 DEF LinkTypeOK
  <2> QED
    BY <1>4, <1>5, <1>8, <1>p, <2>1, <2>3, <2>4, <2>5
<1>9. CASE Len(got) # buffSize[e]
  <2>1. recvd'[e] = got /\ recvd'[p] = recvd[p]
    BY <1>5, <1>9, <1>p DEF LinkTypeOK
  <2>2. UNCHANGED <<recvOutQ, buffSize, headDone, dataSize, pend>>
    BY <1>5, <1>9
  <2>3. Direction(p)'
    BY <1>2, <1>4, <1>6, <1>9, <1>p, <2>1, <2>2 DEF Direction
  <2>4. Direction(e)'
    <3>1. Direction(e)
      OBVIOUS
    <3> QED
      BY <1>2, <1>6, <2>1, <2>2, <3>1 DEF Direction
  <2>5. LinkTypeOK'
    <3>1. recvd' \in [Ends -> Seq(Bytes)]
      BY <1>4, <1>5, <1>9 DEF LinkTypeOK
    <3> QED
      BY <1>2, <1>7, <2>2, <3>1 DEF LinkTypeOK
  <2> QED
    BY <1>p, <2>2, <2>3, <2>4, <2>5
<1> QED
  BY <1>8, <1>9

\* Every step keeps the directions in step.
LEMMA LinkStep ==
    ASSUME ~SplitHeads, LinkInv, [LinkNext]_endVars
    PROVE  LinkInv'
<1>1. LinkTypeOK /\ \A e \in Ends : Direction(e)
  BY LinkIsDirections
<1>2. ASSUME NEW e \in Ends, LoopQuit(e) \/ SendDone(e) \/ HeadWaits(e) \/ HeadKnown(e) \/ SocketError(e)
      PROVE  LinkTypeOK' /\ \A f \in Ends : Direction(f)'
  <2>1. PICK pc : /\ tpc' = [tpc EXCEPT ![e] = pc]
                  /\ pc \in {"top", "send", "head", "body", "ended"}
                  /\ pc # "body" \/ headDone[e] = HeadSize
    BY <1>2 DEF LoopQuit, SendDone, HeadWaits, HeadKnown, SocketError, ThreadAt
  <2>2. /\ UNCHANGED <<inQ, threadVars, recvOutQ, quit, net, pend, nSent>>
        /\ fatal' \in [Ends -> BOOLEAN]
    BY <1>1, <1>2 DEF LoopQuit, SendDone, HeadWaits, HeadKnown, SocketError, LinkTypeOK
  <2> QED
    BY <1>1, <2>1, <2>2, IdleStep
<1>3. ASSUME NEW e \in Ends, KillThread(e)
      PROVE  LinkTypeOK' /\ \A f \in Ends : Direction(f)'
  <2>1. /\ UNCHANGED <<tpc, inQ, threadVars, fatal, net, pend, nSent>>
        /\ recvOutQ' \in [Ends -> Seq(Seq(Bytes))] /\ quit' \in [Ends -> BOOLEAN]
    BY <1>1, <1>3 DEF KillThread, LinkTypeOK
  <2> QED
    BY <1>1, <2>1, ReaderStep
<1>4. ASSUME NEW e \in Ends, NEW i \in DOMAIN recvOutQ[e], recvOutQ' = [recvOutQ EXCEPT ![e] = WithoutAt(@, i)],
             UNCHANGED <<tpc, inQ, threadVars, fatal, quit, net, pend, nSent>>
      PROVE  LinkTypeOK' /\ \A f \in Ends : Direction(f)'
  <2>1. PICK q \in Seq(Seq(Bytes)) : q = recvOutQ[e]
    BY <1>1 DEF LinkTypeOK
  <2>2. i \in 1..Len(q)
    BY <2>1
  <2>3. WithoutAt(q, i) \in Seq(Seq(Bytes))
    BY <2>2 DEF WithoutAt
  <2>4. recvOutQ' \in [Ends -> Seq(Seq(Bytes))] /\ quit' \in [Ends -> BOOLEAN]
    BY <1>1, <1>4, <2>1, <2>3 DEF LinkTypeOK
  <2> QED
    BY <1>1, <1>4, <2>4, ReaderStep
<1>5. LinkTypeOK' /\ \A f \in Ends : Direction(f)'
  <2>1. CASE UNCHANGED endVars
    <3>1. /\ UNCHANGED <<tpc, inQ, threadVars, fatal, net, pend, nSent>>
          /\ recvOutQ' \in [Ends -> Seq(Seq(Bytes))] /\ quit' \in [Ends -> BOOLEAN]
      BY <1>1, <2>1 DEF endVars, LinkTypeOK
    <3> QED
      BY <1>1, <3>1, ReaderStep
  <2>2. CASE LinkNext
    <3>1. PICK e \in Ends :
             \/ ThreadStep(e) \/ SocketError(e) \/ KillThread(e)
             \/ \E m \in Messages : Send(e, m)
             \/ \E ids \in SUBSET Bytes : GetNextPacketMatchID32(e, ids)
             \/ \E i \in DOMAIN recvOutQ[e] : RemovePacket(e, i)
      BY <2>2 DEF LinkNext
    <3>2. CASE LoopQuit(e) \/ SendDone(e) \/ HeadWaits(e) \/ HeadKnown(e) \/ SocketError(e)
      BY <1>2, <3>2
    <3>3. CASE KillThread(e)
      BY <1>3, <3>3
    <3>4. CASE FlushInQueue(e)
      BY <1>1, <3>4, FlushStep
    <3>5. CASE SendSome(e)
      BY <1>1, <3>5, SomeStep
    <3>6. CASE RecvHead(e)
      BY <1>1, <3>6, HeadStep
    <3>7. CASE RecvBody(e)
      BY <1>1, <3>7, BodyStep
    <3>8. CASE \E m \in Messages : Send(e, m)
      BY <1>1, <3>8, SendStep
    <3>9. CASE \E ids \in SUBSET Bytes : GetNextPacketMatchID32(e, ids)
      <4>1. PICK ids : GetNextPacketMatchID32(e, ids)
        BY <3>9
      <4>2. PICK i \in DOMAIN recvOutQ[e] : recvOutQ' = [recvOutQ EXCEPT ![e] = WithoutAt(@, i)]
        BY <4>1 DEF GetNextPacketMatchID32
      <4>3. UNCHANGED <<tpc, inQ, threadVars, fatal, quit, net, pend, nSent>>
        BY <4>1 DEF GetNextPacketMatchID32
      <4> QED
        BY <1>4, <4>2, <4>3
    <3>10. CASE \E i \in DOMAIN recvOutQ[e] : RemovePacket(e, i)
      BY <1>4, <3>10 DEF RemovePacket
    <3> QED
      BY <3>1, <3>2, <3>3, <3>4, <3>5, <3>6, <3>7, <3>8, <3>9, <3>10 DEF ThreadStep
  <2> QED
    BY <2>1, <2>2
<1>6. (LinkInv <=> LinkTypeOK /\ \A e \in Ends : Direction(e))'
  BY LinkIsDirections, PTL
<1> QED
  BY <1>5, <1>6

----------------------------------------------------------------------------
(* The theorems.                                                           *)

(* LinkInv is an invariant, for every interleaving of partial sends and    *)
(* receives, failures and shutdowns, where recv gives headers whole.       *)
THEOREM LinkInvariance ==
    ASSUME ~SplitHeads
    PROVE  LinkSpec => []LinkInv
<1>1. LinkInit => LinkInv
  BY LinkInvInit
<1>2. LinkInv /\ [LinkNext]_endVars => LinkInv'
  BY LinkStep
<1> QED
  BY <1>1, <1>2, PTL DEF LinkSpec

(* StreamInStep: the two threadMain agree, at every moment, on where the   *)
(* packets begin in the bytes between them.                                *)
THEOREM StreamsInStep ==
    ASSUME ~SplitHeads
    PROVE  LinkSpec => []StreamInStep
<1>1. LinkInv => StreamInStep
  BY DEF LinkInv
<1> QED
  BY <1>1, LinkInvariance, PTL

(* BodyHasRoom, the assertion of threadMain before it receives a body: it  *)
(* can only fail where a header arrives in parts.                          *)
THEOREM AssertionHolds ==
    ASSUME ~SplitHeads
    PROVE  LinkSpec => []BodyHasRoom
<1>1. LinkInv => BodyHasRoom
  BY DEF LinkInv, AwaitsHead, AwaitsBody, BodyHasRoom
<1> QED
  BY <1>1, LinkInvariance, PTL

\* A step of PacketLink for the payloads that e sends, or a stutter.
Carries(e) ==
    LET transit == pend[e]
        queue == recvOutQ[Peer(e)]
    IN  \/ recvOutQ'[Peer(e)] = queue /\ pend'[e] = transit
        \/ recvOutQ'[Peer(e)] = queue /\ \E m \in Messages : pend'[e] = Append(transit, m)
        \/ /\ transit # << >> /\ pend'[e] = Tail(transit)
           /\ recvOutQ'[Peer(e)] = Append(queue, Head(transit))
        \/ /\ pend'[e] = transit
           /\ \E i \in DOMAIN queue : recvOutQ'[Peer(e)] = WithoutAt(queue, i)

LEMMA StepCarries ==
    ASSUME LinkInv, [LinkNext]_endVars, NEW e \in Ends
    PROVE  Carries(e)
<1>1. LinkTypeOK /\ \A f \in Ends : Direction(f)
  BY LinkIsDirections
<1>2. Peer(e) \in Ends /\ Peer(e) # e /\ Peer(Peer(e)) = e
  BY EndsFacts
<1>3. ASSUME UNCHANGED <<recvOutQ, pend>> PROVE Carries(e)
  BY <1>3 DEF Carries
<1>4. ASSUME NEW f \in Ends, NEW i \in DOMAIN recvOutQ[f], recvOutQ' = [recvOutQ EXCEPT ![f] = WithoutAt(@, i)],
             UNCHANGED pend
      PROVE  Carries(e)
  <2>1. CASE f = Peer(e)
    <3>1. recvOutQ'[Peer(e)] = WithoutAt(recvOutQ[Peer(e)], i)
      BY <1>1, <1>2, <1>4, <2>1 DEF LinkTypeOK
    <3> QED
      BY <1>4, <2>1, <3>1 DEF Carries
  <2>2. CASE f # Peer(e)
    BY <1>1, <1>2, <1>4, <2>2 DEF Carries, LinkTypeOK
  <2> QED
    BY <2>1, <2>2
<1>5. ASSUME NEW f \in Ends, NEW m \in Messages, Send(f, m) PROVE Carries(e)
  <2>1. UNCHANGED recvOutQ /\ pend' = [pend EXCEPT ![f] = Append(pend[f], m)]
    BY <1>5 DEF Send
  <2>2. pend'[e] = pend[e] \/ pend'[e] = Append(pend[e], m)
    BY <1>1, <2>1 DEF LinkTypeOK
  <2> QED
    BY <2>1, <2>2 DEF Carries
<1>6. ASSUME NEW f \in Ends, RecvBody(f) PROVE Carries(e)
  <2>1. \/ recvOutQ' = recvOutQ /\ pend' = pend
        \/ /\ pend[Peer(f)] # << >>
           /\ recvOutQ' = [recvOutQ EXCEPT ![f] = Append(recvOutQ[f], Head(pend[Peer(f)]))]
           /\ pend' = [pend EXCEPT ![Peer(f)] = Tail(pend[Peer(f)])]
    BY <1>1, <1>6, BodyStep
  <2>2. CASE recvOutQ' = recvOutQ /\ pend' = pend
    BY <1>3, <2>2
  <2>3. CASE /\ pend[Peer(f)] # << >>
             /\ recvOutQ' = [recvOutQ EXCEPT ![f] = Append(recvOutQ[f], Head(pend[Peer(f)]))]
             /\ pend' = [pend EXCEPT ![Peer(f)] = Tail(pend[Peer(f)])]
    <3>1. CASE f = Peer(e)
      <4>1. /\ recvOutQ'[Peer(e)] = Append(recvOutQ[Peer(e)], Head(pend[e]))
            /\ pend'[e] = Tail(pend[e]) /\ pend[e] # << >>
        BY <1>1, <1>2, <2>3, <3>1 DEF LinkTypeOK
      <4> QED
        BY <4>1 DEF Carries
    <3>2. CASE f # Peer(e)
      <4>1. Peer(f) # e /\ Peer(f) \in Ends
        BY <1>2, <3>2, EndsFacts
      <4>2. recvOutQ'[Peer(e)] = recvOutQ[Peer(e)] /\ pend'[e] = pend[e]
        BY <1>1, <1>2, <2>3, <3>2, <4>1 DEF LinkTypeOK
      <4> QED
        BY <4>2 DEF Carries
    <3> QED
      BY <3>1, <3>2
  <2> QED
    BY <2>1, <2>2, <2>3
<1>7. CASE UNCHANGED endVars
  BY <1>3, <1>7 DEF endVars
<1>8. CASE LinkNext
  <2>1. PICK f \in Ends :
           \/ ThreadStep(f) \/ SocketError(f) \/ KillThread(f)
           \/ \E m \in Messages : Send(f, m)
           \/ \E ids \in SUBSET Bytes : GetNextPacketMatchID32(f, ids)
           \/ \E i \in DOMAIN recvOutQ[f] : RemovePacket(f, i)
    BY <1>8 DEF LinkNext
  <2>2. CASE LoopQuit(f) \/ SendDone(f) \/ HeadWaits(f) \/ HeadKnown(f) \/ SocketError(f)
                \/ KillThread(f) \/ FlushInQueue(f) \/ SendSome(f) \/ RecvHead(f)
    <3>1. UNCHANGED <<recvOutQ, pend>>
      <4>1. CASE LoopQuit(f) \/ SendDone(f) \/ HeadWaits(f) \/ HeadKnown(f) \/ SocketError(f)
        BY <4>1 DEF LoopQuit, SendDone, HeadWaits, HeadKnown, SocketError
      <4>2. CASE KillThread(f) \/ FlushInQueue(f) \/ SendSome(f) \/ RecvHead(f)
        BY <4>2 DEF KillThread, FlushInQueue, SendSome, RecvHead
      <4> QED
        BY <2>2, <4>1, <4>2
    <3> QED
      BY <1>3, <3>1
  <2>3. CASE RecvBody(f)
    BY <1>6, <2>3
  <2>4. CASE \E m \in Messages : Send(f, m)
    BY <1>5, <2>4
  <2>5. CASE \E ids \in SUBSET Bytes : GetNextPacketMatchID32(f, ids)
    <3>1. PICK ids : GetNextPacketMatchID32(f, ids)
      BY <2>5
    <3>2. PICK i \in DOMAIN recvOutQ[f] : recvOutQ' = [recvOutQ EXCEPT ![f] = WithoutAt(@, i)]
      BY <3>1 DEF GetNextPacketMatchID32
    <3>3. UNCHANGED pend
      BY <3>1 DEF GetNextPacketMatchID32
    <3> QED
      BY <1>4, <3>2, <3>3
  <2>6. CASE \E i \in DOMAIN recvOutQ[f] : RemovePacket(f, i)
    BY <1>4, <2>6 DEF RemovePacket
  <2> QED
    BY <2>1, <2>2, <2>3, <2>4, <2>5, <2>6 DEF ThreadStep
<1> QED
  BY <1>7, <1>8

(* Reliable: both directions implement PacketLink.  What a reader finds    *)
(* are the payloads its peer sent, whole, in order and once.               *)
THEOREM LinksReliable ==
    ASSUME ~SplitHeads
    PROVE  LinkSpec => Reliable
<1>1. LinkInit => AB!Init /\ BA!Init
  BY DEF LinkInit, AB!Init, BA!Init, Ends
<1>2. LinkInv /\ [LinkNext]_endVars => [AB!Next]_<<pend["A"], recvOutQ["B"]>>
  <2> SUFFICES ASSUME LinkInv, [LinkNext]_endVars PROVE [AB!Next]_<<pend["A"], recvOutQ["B"]>>
    OBVIOUS
  <2>1. Carries("A") /\ Peer("A") = "B"
    BY StepCarries DEF Ends, Peer
  <2> QED
    BY <2>1 DEF Carries, AB!Next, AB!Send, AB!Deliver, AB!Take, WithoutAt
<1>3. LinkInv /\ [LinkNext]_endVars => [BA!Next]_<<pend["B"], recvOutQ["A"]>>
  <2> SUFFICES ASSUME LinkInv, [LinkNext]_endVars PROVE [BA!Next]_<<pend["B"], recvOutQ["A"]>>
    OBVIOUS
  <2>1. Carries("B") /\ Peer("B") = "A"
    BY StepCarries DEF Ends, Peer
  <2> QED
    BY <2>1 DEF Carries, BA!Next, BA!Send, BA!Deliver, BA!Take, WithoutAt
<1> QED
  BY <1>1, <1>2, <1>3, LinkInvariance, PTL DEF LinkSpec, Reliable, AB!Spec, BA!Spec

----------------------------------------------------------------------------
(* The connection set-up.                                                  *)

USE ConnectAssumption DEF Srvs

LEMMA TypeStep == CInv /\ [CNext]_cvars => CTypeOK'
<1> SUFFICES ASSUME CInv, [CNext]_cvars PROVE CTypeOK'
  OBVIOUS
<1> USE DEF CInv, CTypeOK, SocketsOwned, LoopsDone, SocketStages, JobsFollow
<1>1. CASE StartConnect
  BY <1>1 DEF StartConnect, AtServer, Advance
<1>2. CASE StartThrows
  BY <1>2 DEF StartThrows, AtServer, Advance
<1>3. CASE StartPolling
  BY <1>3 DEF StartPolling
<1>4. CASE PollSkip
  BY <1>4 DEF PollSkip, AtServer, Advance, NeedsPoll
<1>5. CASE PollWaiting
  BY <1>5 DEF PollWaiting, AtServer, Advance, NeedsPoll
<1>6. CASE PollConnected
  BY <1>6 DEF PollConnected, AtServer, Advance, NeedsPoll, GetSocket
<1>7. CASE PollError
  BY <1>7 DEF PollError, AtServer, Advance, NeedsPoll
<1>8. CASE PassOver
  BY <1>8 DEF PassOver
<1>9. CASE SendJob
  BY <1>9 DEF SendJob, AtServer, Advance, IsConnected
<1>10. CASE JobsSent
  BY <1>10 DEF JobsSent
<1>11. CASE Expire
  BY <1>11 DEF Expire, loopvars
<1>12. ASSUME NEW s \in Srvs, PacketsFail(s) PROVE CTypeOK'
  BY <1>12 DEF PacketsFail, loopvars
<1>13. ASSUME NEW s \in Srvs, Handshake(s) PROVE CTypeOK'
  BY <1>13 DEF Handshake, clientvars, loopvars
<1>14. ASSUME NEW s \in Srvs, Break(s) PROVE CTypeOK'
  BY <1>14 DEF Break, clientvars, loopvars
<1>15. ASSUME NEW s \in Srvs, Accept(s) PROVE CTypeOK'
  BY <1>15 DEF Accept, clientvars, loopvars
<1>16. ASSUME NEW s \in Srvs, AcceptOther(s) PROVE CTypeOK'
  BY <1>16 DEF AcceptOther, clientvars, loopvars
<1>17. ASSUME NEW s \in Srvs, AcceptFails(s) PROVE CTypeOK'
  BY <1>17 DEF AcceptFails, clientvars, loopvars
<1>18. ASSUME NEW s \in Srvs, ListenFails(s) PROVE CTypeOK'
  BY <1>18 DEF ListenFails, clientvars, loopvars
<1>19. ASSUME NEW s \in Srvs, TakeJob(s) PROVE CTypeOK'
  BY <1>19 DEF TakeJob, clientvars, loopvars
<1>20. ASSUME NEW s \in Srvs, TaskEnds(s) PROVE CTypeOK'
  BY <1>20 DEF TaskEnds, clientvars, loopvars
<1>21. CASE UNCHANGED cvars
  BY <1>21 DEF cvars
<1> QED
  BY <1>1, <1>2, <1>3, <1>4, <1>5, <1>6, <1>7, <1>8, <1>9, <1>10, <1>11, <1>12, <1>13, <1>14, <1>15, <1>16, <1>17, <1>18, <1>19, <1>20, <1>21 DEF CNext, CStep

LEMMA OwnedStep == CInv /\ [CNext]_cvars => SocketsOwned'
<1> SUFFICES ASSUME CInv, [CNext]_cvars PROVE SocketsOwned'
  OBVIOUS
<1> USE DEF CInv, CTypeOK, SocketsOwned, LoopsDone, SocketStages, JobsFollow
<1>1. CASE StartConnect
  BY <1>1 DEF StartConnect, AtServer, Advance
<1>2. CASE StartThrows
  BY <1>2 DEF StartThrows, AtServer, Advance
<1>3. CASE StartPolling
  BY <1>3 DEF StartPolling
<1>4. CASE PollSkip
  BY <1>4 DEF PollSkip, AtServer, Advance, NeedsPoll
<1>5. CASE PollWaiting
  BY <1>5 DEF PollWaiting, AtServer, Advance, NeedsPoll
<1>6. CASE PollConnected
  BY <1>6 DEF PollConnected, AtServer, Advance, NeedsPoll, GetSocket
<1>7. CASE PollError
  BY <1>7 DEF PollError, AtServer, Advance, NeedsPoll
<1>8. CASE PassOver
  BY <1>8 DEF PassOver
<1>9. CASE SendJob
  BY <1>9 DEF SendJob, AtServer, Advance, IsConnected
<1>10. CASE JobsSent
  BY <1>10 DEF JobsSent
<1>11. CASE Expire
  BY <1>11 DEF Expire, loopvars
<1>12. ASSUME NEW s \in Srvs, PacketsFail(s) PROVE SocketsOwned'
  BY <1>12 DEF PacketsFail, loopvars
<1>13. ASSUME NEW s \in Srvs, Handshake(s) PROVE SocketsOwned'
  BY <1>13 DEF Handshake, clientvars, loopvars
<1>14. ASSUME NEW s \in Srvs, Break(s) PROVE SocketsOwned'
  BY <1>14 DEF Break, clientvars, loopvars
<1>15. ASSUME NEW s \in Srvs, Accept(s) PROVE SocketsOwned'
  BY <1>15 DEF Accept, clientvars, loopvars
<1>16. ASSUME NEW s \in Srvs, AcceptOther(s) PROVE SocketsOwned'
  BY <1>16 DEF AcceptOther, clientvars, loopvars
<1>17. ASSUME NEW s \in Srvs, AcceptFails(s) PROVE SocketsOwned'
  BY <1>17 DEF AcceptFails, clientvars, loopvars
<1>18. ASSUME NEW s \in Srvs, ListenFails(s) PROVE SocketsOwned'
  BY <1>18 DEF ListenFails, clientvars, loopvars
<1>19. ASSUME NEW s \in Srvs, TakeJob(s) PROVE SocketsOwned'
  BY <1>19 DEF TakeJob, clientvars, loopvars
<1>20. ASSUME NEW s \in Srvs, TaskEnds(s) PROVE SocketsOwned'
  BY <1>20 DEF TaskEnds, clientvars, loopvars
<1>21. CASE UNCHANGED cvars
  BY <1>21 DEF cvars
<1> QED
  BY <1>1, <1>2, <1>3, <1>4, <1>5, <1>6, <1>7, <1>8, <1>9, <1>10, <1>11, <1>12, <1>13, <1>14, <1>15, <1>16, <1>17, <1>18, <1>19, <1>20, <1>21 DEF CNext, CStep

LEMMA LoopsStep == CInv /\ [CNext]_cvars => LoopsDone'
<1> SUFFICES ASSUME CInv, [CNext]_cvars PROVE LoopsDone'
  OBVIOUS
<1> USE DEF CInv, CTypeOK, SocketsOwned, LoopsDone, SocketStages, JobsFollow
<1>1. CASE StartConnect
  BY <1>1 DEF StartConnect, AtServer, Advance
<1>2. CASE StartThrows
  BY <1>2 DEF StartThrows, AtServer, Advance
<1>3. CASE StartPolling
  BY <1>3 DEF StartPolling
<1>4. CASE PollSkip
  BY <1>4 DEF PollSkip, AtServer, Advance, NeedsPoll
<1>5. CASE PollWaiting
  BY <1>5 DEF PollWaiting, AtServer, Advance, NeedsPoll
<1>6. CASE PollConnected
  BY <1>6 DEF PollConnected, AtServer, Advance, NeedsPoll, GetSocket
<1>7. CASE PollError
  BY <1>7 DEF PollError, AtServer, Advance, NeedsPoll
<1>8. CASE PassOver
  BY <1>8 DEF PassOver
<1>9. CASE SendJob
  BY <1>9 DEF SendJob, AtServer, Advance, IsConnected
<1>10. CASE JobsSent
  BY <1>10 DEF JobsSent
<1>11. CASE Expire
  BY <1>11 DEF Expire, loopvars
<1>12. ASSUME NEW s \in Srvs, PacketsFail(s) PROVE LoopsDone'
  BY <1>12 DEF PacketsFail, loopvars
<1>13. ASSUME NEW s \in Srvs, Handshake(s) PROVE LoopsDone'
  BY <1>13 DEF Handshake, clientvars, loopvars
<1>14. ASSUME NEW s \in Srvs, Break(s) PROVE LoopsDone'
  BY <1>14 DEF Break, clientvars, loopvars
<1>15. ASSUME NEW s \in Srvs, Accept(s) PROVE LoopsDone'
  BY <1>15 DEF Accept, clientvars, loopvars
<1>16. ASSUME NEW s \in Srvs, AcceptOther(s) PROVE LoopsDone'
  BY <1>16 DEF AcceptOther, clientvars, loopvars
<1>17. ASSUME NEW s \in Srvs, AcceptFails(s) PROVE LoopsDone'
  BY <1>17 DEF AcceptFails, clientvars, loopvars
<1>18. ASSUME NEW s \in Srvs, ListenFails(s) PROVE LoopsDone'
  BY <1>18 DEF ListenFails, clientvars, loopvars
<1>19. ASSUME NEW s \in Srvs, TakeJob(s) PROVE LoopsDone'
  BY <1>19 DEF TakeJob, clientvars, loopvars
<1>20. ASSUME NEW s \in Srvs, TaskEnds(s) PROVE LoopsDone'
  BY <1>20 DEF TaskEnds, clientvars, loopvars
<1>21. CASE UNCHANGED cvars
  BY <1>21 DEF cvars
<1> QED
  BY <1>1, <1>2, <1>3, <1>4, <1>5, <1>6, <1>7, <1>8, <1>9, <1>10, <1>11, <1>12, <1>13, <1>14, <1>15, <1>16, <1>17, <1>18, <1>19, <1>20, <1>21 DEF CNext, CStep

LEMMA StagesStep == CInv /\ [CNext]_cvars => SocketStages'
<1> SUFFICES ASSUME CInv, [CNext]_cvars PROVE SocketStages'
  OBVIOUS
<1> USE DEF CInv, CTypeOK, SocketsOwned, LoopsDone, SocketStages, JobsFollow
<1>1. CASE StartConnect
  BY <1>1 DEF StartConnect, AtServer, Advance
<1>2. CASE StartThrows
  BY <1>2 DEF StartThrows, AtServer, Advance
<1>3. CASE StartPolling
  BY <1>3 DEF StartPolling
<1>4. CASE PollSkip
  BY <1>4 DEF PollSkip, AtServer, Advance, NeedsPoll
<1>5. CASE PollWaiting
  BY <1>5 DEF PollWaiting, AtServer, Advance, NeedsPoll
<1>6. CASE PollConnected
  BY <1>6 DEF PollConnected, AtServer, Advance, NeedsPoll, GetSocket
<1>7. CASE PollError
  BY <1>7 DEF PollError, AtServer, Advance, NeedsPoll
<1>8. CASE PassOver
  BY <1>8 DEF PassOver
<1>9. CASE SendJob
  BY <1>9 DEF SendJob, AtServer, Advance, IsConnected
<1>10. CASE JobsSent
  BY <1>10 DEF JobsSent
<1>11. CASE Expire
  BY <1>11 DEF Expire, loopvars
<1>12. ASSUME NEW s \in Srvs, PacketsFail(s) PROVE SocketStages'
  BY <1>12 DEF PacketsFail, loopvars
<1>13. ASSUME NEW s \in Srvs, Handshake(s) PROVE SocketStages'
  BY <1>13 DEF Handshake, clientvars, loopvars
<1>14. ASSUME NEW s \in Srvs, Break(s) PROVE SocketStages'
  BY <1>14 DEF Break, clientvars, loopvars
<1>15. ASSUME NEW s \in Srvs, Accept(s) PROVE SocketStages'
  BY <1>15 DEF Accept, clientvars, loopvars
<1>16. ASSUME NEW s \in Srvs, AcceptOther(s) PROVE SocketStages'
  BY <1>16 DEF AcceptOther, clientvars, loopvars
<1>17. ASSUME NEW s \in Srvs, AcceptFails(s) PROVE SocketStages'
  BY <1>17 DEF AcceptFails, clientvars, loopvars
<1>18. ASSUME NEW s \in Srvs, ListenFails(s) PROVE SocketStages'
  BY <1>18 DEF ListenFails, clientvars, loopvars
<1>19. ASSUME NEW s \in Srvs, TakeJob(s) PROVE SocketStages'
  BY <1>19 DEF TakeJob, clientvars, loopvars
<1>20. ASSUME NEW s \in Srvs, TaskEnds(s) PROVE SocketStages'
  BY <1>20 DEF TaskEnds, clientvars, loopvars
<1>21. CASE UNCHANGED cvars
  BY <1>21 DEF cvars
<1> QED
  BY <1>1, <1>2, <1>3, <1>4, <1>5, <1>6, <1>7, <1>8, <1>9, <1>10, <1>11, <1>12, <1>13, <1>14, <1>15, <1>16, <1>17, <1>18, <1>19, <1>20, <1>21 DEF CNext, CStep

LEMMA JobsStep == CInv /\ [CNext]_cvars => JobsFollow'
<1> SUFFICES ASSUME CInv, [CNext]_cvars PROVE JobsFollow'
  OBVIOUS
<1> USE DEF CInv, CTypeOK, SocketsOwned, LoopsDone, SocketStages, JobsFollow
<1>1. CASE StartConnect
  BY <1>1 DEF StartConnect, AtServer, Advance
<1>2. CASE StartThrows
  BY <1>2 DEF StartThrows, AtServer, Advance
<1>3. CASE StartPolling
  BY <1>3 DEF StartPolling
<1>4. CASE PollSkip
  BY <1>4 DEF PollSkip, AtServer, Advance, NeedsPoll
<1>5. CASE PollWaiting
  BY <1>5 DEF PollWaiting, AtServer, Advance, NeedsPoll
<1>6. CASE PollConnected
  BY <1>6 DEF PollConnected, AtServer, Advance, NeedsPoll, GetSocket
<1>7. CASE PollError
  BY <1>7 DEF PollError, AtServer, Advance, NeedsPoll
<1>8. CASE PassOver
  BY <1>8 DEF PassOver
<1>9. CASE SendJob
  <2>1. /\ cidx \in Srvs /\ cpc = "send" /\ cpc' = cpc /\ cidx' = cidx + 1
        /\ cpak' = cpak /\ clink' = clink
        /\ cjob' = [cjob EXCEPT ![cidx] = IsConnected(cidx)]
    BY <1>9 DEF SendJob, AtServer, Advance
  <2>2. SUFFICES ASSUME NEW i \in Srvs, i < cidx + 1, cpak[i] > 0, clink[i] # "broken"
                 PROVE  cjob'[i]
    BY <2>1
  <2>3. CASE i = cidx
    <3>1. cjob'[i] = IsConnected(i)
      BY <2>1, <2>3
    <3>2. ~cfatal[i]
      BY <2>2
    <3> QED
      BY <2>2, <3>1, <3>2 DEF IsConnected
  <2>4. CASE i # cidx
    <3>1. cjob'[i] = cjob[i] /\ i < cidx
      BY <2>1, <2>2, <2>4
    <3> QED
      BY <2>1, <2>2, <3>1
  <2> QED
    BY <2>3, <2>4
<1>10. CASE JobsSent
  BY <1>10 DEF JobsSent
<1>11. CASE Expire
  BY <1>11 DEF Expire, loopvars
<1>12. ASSUME NEW s \in Srvs, PacketsFail(s) PROVE JobsFollow'
  BY <1>12 DEF PacketsFail, loopvars
<1>13. ASSUME NEW s \in Srvs, Handshake(s) PROVE JobsFollow'
  BY <1>13 DEF Handshake, clientvars, loopvars
<1>14. ASSUME NEW s \in Srvs, Break(s) PROVE JobsFollow'
  BY <1>14 DEF Break, clientvars, loopvars
<1>15. ASSUME NEW s \in Srvs, Accept(s) PROVE JobsFollow'
  BY <1>15 DEF Accept, clientvars, loopvars
<1>16. ASSUME NEW s \in Srvs, AcceptOther(s) PROVE JobsFollow'
  BY <1>16 DEF AcceptOther, clientvars, loopvars
<1>17. ASSUME NEW s \in Srvs, AcceptFails(s) PROVE JobsFollow'
  BY <1>17 DEF AcceptFails, clientvars, loopvars
<1>18. ASSUME NEW s \in Srvs, ListenFails(s) PROVE JobsFollow'
  BY <1>18 DEF ListenFails, clientvars, loopvars
<1>19. ASSUME NEW s \in Srvs, TakeJob(s) PROVE JobsFollow'
  BY <1>19 DEF TakeJob, clientvars, loopvars
<1>20. ASSUME NEW s \in Srvs, TaskEnds(s) PROVE JobsFollow'
  BY <1>20 DEF TaskEnds, clientvars, loopvars
<1>21. CASE UNCHANGED cvars
  BY <1>21 DEF cvars
<1> QED
  BY <1>1, <1>2, <1>3, <1>4, <1>5, <1>6, <1>7, <1>8, <1>9, <1>10, <1>11, <1>12, <1>13, <1>14, <1>15, <1>16, <1>17, <1>18, <1>19, <1>20, <1>21 DEF CNext, CStep

(* The inductive invariant holds in every reachable state.                 *)
THEOREM ConnectInvariance == CSpec => []CInv
<1>1. CInit => CInv
  <2> SUFFICES ASSUME CInit PROVE CInv
    OBVIOUS
  <2>1. CTypeOK
    <3>1. cwait \in BOOLEAN /\ cexpired \in BOOLEAN
      BY Zenon DEF CInit
    <3>2. cfatal \in [Srvs -> BOOLEAN] /\ cjob \in [Srvs -> BOOLEAN]
      BY DEF CInit
    <3>3. lstate \in [Srvs -> {"listening", "serving", "rendering", "other", "deaf", "exited"}]
      BY DEF CInit
    <3> QED
      BY <3>1, <3>2, <3>3 DEF CInit, CTypeOK
  <2>2. SocketsOwned /\ LoopsDone /\ JobsFollow
    BY DEF CInit, SocketsOwned, LoopsDone, JobsFollow
  <2>3. SocketStages
    <3>1. \A i \in Srvs : cconn[i] = "null" /\ cowner[i] = "none" /\ clink[i] = "none"
      BY DEF CInit
    <3>2. \A i \in Srvs : cfatal[i] = FALSE
      BY DEF CInit
    <3> QED
      BY <3>1, <3>2 DEF SocketStages
  <2> QED
    BY <2>1, <2>2, <2>3 DEF CInv
<1>2. CInv /\ [CNext]_cvars => CInv'
  BY TypeStep, OwnedStep, LoopsStep, StagesStep, JobsStep DEF CInv
<1> QED
  BY <1>1, <1>2, PTL DEF CSpec

(* The state of the connection set-up keeps to its types.                  *)
THEOREM ConnectTypes == CSpec => []CTypeOK
  BY ConnectInvariance, PTL DEF CInv

(* ConnectToServers makes one PacketManager at most for each server, and   *)
(* every socket has one owner: no Connecter keeps one when it returns.     *)
THEOREM OneOwner == CSpec => []SocketsOwned
  BY ConnectInvariance, PTL DEF CInv

(* serverTask waits for a job in vain only on a connection that its client *)
(* gave up and closed before it knew that it was connected.                *)
THEOREM VainWaits == CSpec => []WaitsInVain
<1>1. CInv => WaitsInVain
  BY DEF CInv, CTypeOK, SocketsOwned, LoopsDone, SocketStages, JobsFollow, WaitsInVain
<1> QED
  BY <1>1, ConnectInvariance, PTL
=============================================================================
