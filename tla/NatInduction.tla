---------------------------- MODULE NatInduction ----------------------------
(***************************************************************************)
(* Induction and recursion over the natural numbers, in a form the provers *)
(* can use: the library's theorems take an operator, which they cannot     *)
(* instantiate; here induction is stated for a set of numbers, and         *)
(* recursion for a function.  And what several of the proofs need to know  *)
(* of sequences that are put together.                                     *)
(***************************************************************************)
EXTENDS Integers, Sequences, FiniteSetsExt, WellFoundedInduction, TLAPS

LEMMA SetInduction ==
    ASSUME NEW S, 0 \in S, \A n \in Nat : n \in S => n + 1 \in S
    PROVE  \A n \in Nat : n \in S
<1> DEFINE T == Nat \ S
<1> SUFFICES ASSUME T # {} PROVE FALSE
  OBVIOUS
<1>1. T \subseteq Nat
  OBVIOUS
<1>2. PICK x \in T : \A y \in T : ~(<<y, x>> \in OpToRel(<, Nat))
  BY <1>1, NatLessThanWellFounded, WFMin, Zenon
<1>3. x # 0 /\ x - 1 \in Nat
  OBVIOUS
<1>4. <<x - 1, x>> \in OpToRel(<, Nat)
  BY <1>3 DEF OpToRel
<1>5. x - 1 \in S
  BY <1>2, <1>3, <1>4
<1>6. (x - 1) + 1 = x
  BY <1>3
<1> QED
  BY <1>3, <1>5, <1>6

\* The first n values of the function that starts at x and goes on with g.
Starts(h, n, X, x, g) ==
    /\ h \in [0..n -> X] /\ h[0] = x
    /\ \A k \in Nat : k < n => h[k + 1] = g[<<k, h[k]>>]

LEMMA StartsExist ==
    ASSUME NEW X, NEW x \in X, NEW g \in [Nat \X X -> X]
    PROVE  \A n \in Nat : \E h : Starts(h, n, X, x, g)
<1> DEFINE S == {n \in Nat : \E h : Starts(h, n, X, x, g)}
<1>1. 0 \in S
  <2> DEFINE h == [k \in 0..0 |-> x]
  <2>1. Starts(h, 0, X, x, g)
    BY DEF Starts
  <2> HIDE DEF h
  <2> QED
    BY <2>1
<1>2. ASSUME NEW n \in Nat, n \in S PROVE n + 1 \in S
  <2>1. PICK h : Starts(h, n, X, x, g)
    BY <1>2
  <2> DEFINE f == [k \in 0..(n + 1) |-> IF k = n + 1 THEN g[<<n, h[n]>>] ELSE h[k]]
  <2>2. h \in [0..n -> X] /\ h[n] \in X /\ h[0] = x
    BY <2>1 DEF Starts
  <2>3. g[<<n, h[n]>>] \in X
    BY <2>2
  <2>4. f \in [0..(n + 1) -> X] /\ f[0] = x
    BY <2>2, <2>3
  <2>5. ASSUME NEW k \in Nat, k < n + 1 PROVE f[k + 1] = g[<<k, f[k]>>]
    <3>1. CASE k = n
      <4>1. n + 1 \in 0..(n + 1) /\ n \in 0..(n + 1) /\ n # n + 1
        OBVIOUS
      <4>2. f[n + 1] = g[<<n, h[n]>>] /\ f[n] = h[n]
        BY <4>1
      <4> QED
        BY <3>1, <4>2
    <3>2. CASE k < n
      <4>1. h[k + 1] = g[<<k, h[k]>>]
        BY <2>1, <3>2 DEF Starts
      <4>2. f[k + 1] = h[k + 1] /\ f[k] = h[k]
        BY <3>2
      <4> QED
        BY <4>1, <4>2
    <3> QED
      BY <2>5, <3>1, <3>2
  <2> HIDE DEF f
  <2>6. Starts(f, n + 1, X, x, g)
    BY <2>4, <2>5 DEF Starts
  <2> QED
    BY <2>6
<1> HIDE DEF S
<1>3. \A n \in Nat : n \in S
  BY <1>1, <1>2, SetInduction
<1> QED
  BY <1>3 DEF S

LEMMA StartsAgree ==
    ASSUME NEW X, NEW x, NEW g, NEW m, NEW n, NEW h, NEW f, m \in Nat, n \in Nat,
           Starts(h, m, X, x, g), Starts(f, n, X, x, g)
    PROVE  \A k \in Nat : k <= m /\ k <= n => h[k] = f[k]
<1> DEFINE S == {k \in Nat : k <= m /\ k <= n => h[k] = f[k]}
<1>1. 0 \in S
  BY DEF Starts
<1>2. ASSUME NEW k \in Nat, k \in S PROVE k + 1 \in S
  <2> SUFFICES ASSUME k + 1 <= m, k + 1 <= n PROVE h[k + 1] = f[k + 1]
    OBVIOUS
  <2>1. k < m /\ k < n /\ k <= m /\ k <= n
    OBVIOUS
  <2>2. h[k] = f[k]
    BY <1>2, <2>1
  <2> QED
    BY <2>1, <2>2 DEF Starts
<1> HIDE DEF S
<1>3. \A k \in Nat : k \in S
  BY <1>1, <1>2, SetInduction
<1> QED
  BY <1>3 DEF S

Recurses(h, X, x, g) ==
    h \in [Nat -> X] /\ h[0] = x /\ \A n \in Nat : h[n + 1] = g[<<n, h[n]>>]

LEMMA Recursion ==
    ASSUME NEW X, NEW x \in X, NEW g \in [Nat \X X -> X]
    PROVE  \E h : Recurses(h, X, x, g)
<1> DEFINE F(n) == CHOOSE h : Starts(h, n, X, x, g)
           h == [n \in Nat |-> F(n)[n]]
<1>1. \A n \in Nat : Starts(F(n), n, X, x, g)
  BY StartsExist
<1> HIDE DEF F
<1>2. h \in [Nat -> X] /\ h[0] = x
  BY <1>1 DEF Starts
<1>3. ASSUME NEW n \in Nat PROVE h[n + 1] = g[<<n, h[n]>>]
  <2>1. F(n + 1)[n] = F(n)[n]
    <3>1. Starts(F(n + 1), n + 1, X, x, g) /\ Starts(F(n), n, X, x, g) /\ n + 1 \in Nat
      BY <1>1
    <3> QED
      BY <3>1, StartsAgree
  <2>2. F(n + 1)[n + 1] = g[<<n, F(n + 1)[n]>>]
    BY <1>1 DEF Starts
  <2> QED
    BY <2>1, <2>2
<1> HIDE DEF h
<1> QED
  BY <1>2, <1>3 DEF Recurses

LEMMA LeastExists ==
    ASSUME NEW S \in SUBSET Nat, S # {}
    PROVE  Min(S) \in S /\ \A y \in S : Min(S) <= y
<1>0. S \subseteq Nat
  OBVIOUS
<1>1. PICK x \in S : \A y \in S : ~(<<y, x>> \in OpToRel(<, Nat))
  BY <1>0, NatLessThanWellFounded, WFMin, Zenon
<1>2. \A a, b \in Nat : a < b => <<a, b>> \in OpToRel(<, Nat)
  BY DEF OpToRel
<1>3. \A y \in S : ~(y < x)
  BY <1>0, <1>1, <1>2
<1>4. \A y \in S : x <= y
  BY <1>0, <1>3
<1> QED
  BY <1>4 DEF Min

LEMMA MinIs ==
    ASSUME NEW S \in SUBSET Nat, NEW m \in S, \A y \in S : m <= y
    PROVE  Min(S) = m
<1>1. Min(S) \in S /\ \A y \in S : Min(S) <= y
  BY LeastExists
<1>2. Min(S) \in Nat /\ m \in Nat /\ Min(S) <= m /\ m <= Min(S)
  BY <1>1
<1> QED
  BY <1>2

\* The first entry with a name has that name.

----------------------------------------------------------------------------
(* Division and powers.                                                    *)

LEMMA DivMod ==
    \A n \in Nat, b \in Nat \ {0} :
        /\ n \div b \in Nat /\ n % b \in 0..(b - 1)
        /\ n = b * (n \div b) + (n % b)
OBVIOUS

LEMMA ProductPositive == \A b, c \in Nat \ {0} : b * c \in Nat \ {0}
OBVIOUS

\* P is the function of the powers of b, as a recursive definition gives it.
IsPowers(b, P) == P = CHOOSE f : f = [i \in Nat |-> IF i = 0 THEN 1 ELSE b * f[i - 1]]

LEMMA Powers ==
    ASSUME NEW b \in Nat \ {0}, NEW P, IsPowers(b, P)
    PROVE  /\ P \in [Nat -> Nat \ {0}]
           /\ P[0] = 1 /\ \A n \in Nat : P[n + 1] = b * P[n]
<1> DEFINE X == Nat \ {0}
           g == [p \in Nat \X X |-> b * p[2]]
           Q(f) == f = [i \in Nat |-> IF i = 0 THEN 1 ELSE b * f[i - 1]]
<1>1. g \in [Nat \X X -> X]
  <2>1. \A c \in X : b * c \in X
    BY ProductPositive
  <2> QED
    BY <2>1
<1>2. PICK h : Recurses(h, X, 1, g)
  <2>1. 1 \in X
    OBVIOUS
  <2> HIDE DEF X, g
  <2> QED
    BY <1>1, <2>1, Recursion
<1>3. \A n \in Nat : h[n + 1] = b * h[n]
  <2>1. \A n \in Nat, c \in X : g[<<n, c>>] = b * c
    OBVIOUS
  <2> HIDE DEF X, g
  <2> QED
    BY <1>2, <2>1 DEF Recurses
<1>4. Q(h)
  <2>1. ASSUME NEW i \in Nat PROVE h[i] = IF i = 0 THEN 1 ELSE b * h[i - 1]
    <3>1. CASE i = 0
      BY <1>2, <3>1 DEF Recurses
    <3>2. CASE i # 0
      <4>1. i - 1 \in Nat /\ (i - 1) + 1 = i
        BY <3>2
      <4> QED
        BY <1>3, <3>2, <4>1
    <3> QED
      BY <3>1, <3>2
  <2> QED
    BY <1>2, <2>1 DEF Recurses
<1>5. Q(P)
  <2>1. P = CHOOSE f : Q(f)
    BY DEF IsPowers
  <2> HIDE DEF Q
  <2> QED
    BY <1>4, <2>1
<1>6. DOMAIN P = Nat /\ P[0] = 1 /\ \A n \in Nat : P[n + 1] = b * P[n]
  <2>1. P = [i \in Nat |-> IF i = 0 THEN 1 ELSE b * P[i - 1]]
    BY <1>5
  <2>2. \A i \in Nat : P[i] = IF i = 0 THEN 1 ELSE b * P[i - 1]
    BY <2>1
  <2>3. ASSUME NEW n \in Nat PROVE P[n + 1] = b * P[n]
    <3>1. n + 1 \in Nat /\ n + 1 # 0 /\ (n + 1) - 1 = n
      OBVIOUS
    <3> QED
      BY <2>2, <3>1
  <2>4. DOMAIN P = Nat
    BY <2>1
  <2> QED
    BY <2>2, <2>3, <2>4
<1>7. \A n \in Nat : P[n] \in X
  <2> DEFINE S == {n \in Nat : P[n] \in X}
  <2>1. 0 \in S
    BY <1>6
  <2>2. ASSUME NEW n \in Nat, n \in S PROVE n + 1 \in S
    <3>1. P[n] \in Nat \ {0} /\ b \in Nat \ {0} /\ n + 1 \in Nat
      BY <2>2
    <3>2. b * P[n] \in Nat \ {0}
      BY <3>1, ProductPositive
    <3>3. P[n + 1] = b * P[n]
      BY <1>6
    <3> QED
      BY <3>1, <3>2, <3>3
  <2> HIDE DEF S
  <2>3. \A n \in Nat : n \in S
    BY <2>1, <2>2, SetInduction
  <2> QED
    BY <2>3 DEF S
<1>8. P = [n \in Nat |-> P[n]]
  BY <1>5
<1> QED
  BY <1>6, <1>7, <1>8
----------------------------------------------------------------------------
(* Sequences put together, and functions changed in one place.             *)

LEMMA CatElements ==
    ASSUME NEW T, NEW a \in Seq(T), NEW b \in Seq(T)
    PROVE  /\ a \o b \in Seq(T) /\ Len(a \o b) = Len(a) + Len(b)
           /\ \A i \in 1..Len(a) : (a \o b)[i] = a[i]
           /\ \A i \in 1..Len(b) : (a \o b)[Len(a) + i] = b[i]
<1>1. a \o b \in Seq(T) /\ Len(a \o b) = Len(a) + Len(b)
  OBVIOUS
<1>2. \A i \in 1..Len(a) : (a \o b)[i] = a[i]
  OBVIOUS
<1>3. \A i \in 1..Len(b) : (a \o b)[Len(a) + i] = b[i]
  OBVIOUS
<1> QED
  BY <1>1, <1>2, <1>3

\* The elements of c are those of a and then those of b.
IsCat(c, a, b) ==
    /\ Len(c) = Len(a) + Len(b)
    /\ \A i \in 1..Len(a) : c[i] = a[i]
    /\ \A i \in 1..Len(b) : c[Len(a) + i] = b[i]

LEMMA CatIs ==
    ASSUME NEW T, NEW a \in Seq(T), NEW b \in Seq(T)
    PROVE  \E c \in Seq(T) : c = a \o b /\ IsCat(c, a, b)
<1>1. IsCat(a \o b, a, b)
  BY CatElements DEF IsCat
<1>2. a \o b \in Seq(T)
  BY CatElements
<1> QED
  BY <1>1, <1>2, Zenon

LEMMA SameElements ==
    ASSUME NEW T, NEW a \in Seq(T), NEW b \in Seq(T), Len(a) = Len(b),
           \A i \in 1..Len(a) : a[i] = b[i]
    PROVE  a = b
OBVIOUS

LEMMA CatAssociates ==
    ASSUME NEW T, NEW a \in Seq(T), NEW b \in Seq(T), NEW c \in Seq(T)
    PROVE  (a \o b) \o c = a \o (b \o c)
<1>1. PICK p \in Seq(T), q \in Seq(T) :
         p = a \o b /\ IsCat(p, a, b) /\ q = b \o c /\ IsCat(q, b, c)
  BY CatIs, Zenon
<1>2. PICK l \in Seq(T), r \in Seq(T) :
         l = p \o c /\ IsCat(l, p, c) /\ r = a \o q /\ IsCat(r, a, q)
  BY CatIs, Zenon
<1>3. Len(a) \in Nat /\ Len(b) \in Nat /\ Len(c) \in Nat
  OBVIOUS
<1> DEFINE na == Len(a)  nb == Len(b)  nc == Len(c)
<1>4. /\ Len(p) = na + nb /\ Len(q) = nb + nc
      /\ Len(l) = na + nb + nc /\ Len(r) = na + nb + nc
  BY <1>1, <1>2, <1>3 DEF IsCat
<1>5. ASSUME NEW i \in 1..(na + nb + nc) PROVE l[i] = r[i]
  <2>1. CASE i <= na
    <3>1. i \in 1..Len(a) /\ i \in 1..Len(p)
      BY <1>3, <1>4, <2>1
    <3> QED
      BY <1>1, <1>2, <3>1 DEF IsCat
  <2>2. CASE na < i /\ i <= na + nb
    <3>1. PICK j \in 1..Len(b) : i = Len(a) + j
      <4>1. i - na \in 1..nb /\ i = na + (i - na)
        BY <1>3, <2>2
      <4> QED
        BY <4>1
    <3>2. i \in 1..Len(p) /\ j \in 1..Len(q)
      BY <1>3, <1>4, <2>2, <3>1
    <3>3. l[i] = p[i] /\ p[i] = b[j]
      BY <1>1, <1>2, <3>1, <3>2 DEF IsCat
    <3>4. r[i] = q[j] /\ q[j] = b[j]
      BY <1>1, <1>2, <3>1, <3>2 DEF IsCat
    <3> QED
      BY <3>3, <3>4, Zenon
  <2>3. CASE na + nb < i
    <3>1. PICK j \in 1..Len(c) : i = Len(p) + j /\ i = Len(a) + (Len(b) + j)
      <4>1. i - (na + nb) \in 1..nc /\ i = (na + nb) + (i - (na + nb))
            /\ i = na + (nb + (i - (na + nb)))
        BY <1>3, <2>3
      <4> QED
        BY <1>4, <4>1
    <3>2. Len(b) + j \in 1..Len(q)
      BY <1>3, <1>4, <3>1
    <3>3. l[i] = c[j]
      BY <1>2, <3>1 DEF IsCat
    <3>4. r[i] = q[Len(b) + j] /\ q[Len(b) + j] = c[j]
      BY <1>1, <1>2, <3>1, <3>2 DEF IsCat
    <3> QED
      BY <3>3, <3>4, Zenon
  <2> HIDE DEF na, nb, nc
  <2> QED
    <3>1. na \in Nat /\ nb \in Nat /\ i \in Int
      BY <1>3 DEF na, nb, nc
    <3> QED
      BY <2>1, <2>2, <2>3, <3>1
<1>6. l = r
  BY <1>4, <1>5, SameElements
<1> QED
  BY <1>1, <1>2, <1>6, Zenon

LEMMA PartsAgree ==
    ASSUME NEW T, NEW a \in Seq(T), NEW b \in Seq(T), NEW c \in Seq(T), NEW d \in Seq(T),
           NEW s \in Seq(T), IsCat(s, a, b), IsCat(s, c, d), Len(a) = Len(c)
    PROVE  a = c /\ b = d
<1>1. \A i \in 1..Len(a) : a[i] = c[i]
  BY DEF IsCat
<1>2. Len(b) = Len(d)
  BY DEF IsCat
<1>3. ASSUME NEW i \in 1..Len(b) PROVE b[i] = d[i]
  <2>1. s[Len(a) + i] = b[i]
    BY DEF IsCat
  <2>2. s[Len(c) + i] = d[i]
    BY <1>2 DEF IsCat
  <2> QED
    BY <2>1, <2>2
<1> QED
  BY <1>1, <1>2, <1>3, SameElements

LEMMA CatCancel ==
    ASSUME NEW T, NEW a \in Seq(T), NEW b \in Seq(T), NEW c \in Seq(T), NEW d \in Seq(T),
           a \o b = c \o d, Len(a) = Len(c)
    PROVE  a = c /\ b = d
<1>1. PICK s \in Seq(T) : s = a \o b /\ IsCat(s, a, b)
  BY CatIs, Zenon
<1>2. PICK t \in Seq(T) : t = c \o d /\ IsCat(t, c, d)
  BY CatIs, Zenon
<1>3. IsCat(s, c, d)
  BY <1>1, <1>2, Zenon
<1> QED
  BY <1>1, <1>3, PartsAgree, Zenon

LEMMA CatNothing ==
    ASSUME NEW T, NEW a \in Seq(T)
    PROVE  /\ << >> \in Seq(T) /\ << >> \o a = a /\ a \o << >> = a
OBVIOUS

LEMMA ElementAppended ==
    ASSUME NEW T, NEW a \in Seq(T), NEW x \in T
    PROVE  /\ Append(a, x) \in Seq(T) /\ Len(Append(a, x)) = Len(a) + 1
           /\ Append(a, x) = a \o <<x>> /\ <<x>> \in Seq(T)
<1>1. Append(a, x) \in Seq(T) /\ Len(Append(a, x)) = Len(a) + 1 /\ <<x>> \in Seq(T)
  OBVIOUS
<1>2. Append(a, x) = a \o <<x>>
  OBVIOUS
<1> QED
  BY <1>1, <1>2

\* The provers reason about Cat by these laws alone, where \o has axioms of its own.
Cat(a, b) == a \o b

LEMMA CatLaws ==
    ASSUME NEW T
    PROVE  /\ << >> \in Seq(T)
           /\ \A a, b \in Seq(T) : Cat(a, b) \in Seq(T)
           /\ \A a, b, c \in Seq(T) : Cat(Cat(a, b), c) = Cat(a, Cat(b, c))
           /\ \A a \in Seq(T) : Cat(<< >>, a) = a /\ Cat(a, << >>) = a
           /\ \A a \in Seq(T), x \in T : <<x>> \in Seq(T) /\ Append(a, x) = Cat(a, <<x>>)
<1>1. \A a, b \in Seq(T) : Cat(a, b) \in Seq(T)
  BY CatElements DEF Cat
<1>2. \A a, b, c \in Seq(T) : Cat(Cat(a, b), c) = Cat(a, Cat(b, c))
  <2> SUFFICES ASSUME NEW a \in Seq(T), NEW b \in Seq(T), NEW c \in Seq(T)
               PROVE  (a \o b) \o c = a \o (b \o c)
    BY DEF Cat
  <2> QED
    BY CatAssociates
<1>3. << >> \in Seq(T) /\ \A a \in Seq(T) : Cat(<< >>, a) = a /\ Cat(a, << >>) = a
  BY CatNothing DEF Cat
<1>4. \A a \in Seq(T), x \in T : <<x>> \in Seq(T) /\ Append(a, x) = Cat(a, <<x>>)
  BY ElementAppended DEF Cat
<1> QED
  BY <1>1, <1>2, <1>3, <1>4

LEMMA CatAppend ==
    ASSUME NEW T, NEW a \in Seq(T), NEW b \in Seq(T), NEW x \in T
    PROVE  /\ Append(b, x) \in Seq(T)
           /\ Cat(a, Append(b, x)) = Append(Cat(a, b), x)
<1>1. Append(b, x) \in Seq(T) /\ <<x>> \in Seq(T) /\ Append(b, x) = Cat(b, <<x>>)
  BY ElementAppended DEF Cat
<1>2. PICK c \in Seq(T) : c = Cat(a, b)
  BY CatLaws, Zenon
<1>3. Append(c, x) = Cat(c, <<x>>)
  BY ElementAppended DEF Cat
<1>4. PICK o \in Seq(T) : o = <<x>>
  BY <1>1, Zenon
<1>5. Cat(Cat(a, b), o) = Cat(a, Cat(b, o))
  BY CatLaws
<1>6. Append(Cat(a, b), x) = Cat(c, o) /\ Append(b, x) = Cat(b, o) /\ Cat(c, o) = Cat(Cat(a, b), o)
  BY <1>1, <1>2, <1>3, <1>4, Zenon
<1> QED
  BY <1>1, <1>5, <1>6, Zenon

LEMMA ChangedInOne ==
    ASSUME NEW S, NEW T, NEW f \in [S -> T], NEW e \in S, NEW v \in T
    PROVE  /\ [f EXCEPT ![e] = v] \in [S -> T] /\ [f EXCEPT ![e] = v][e] = v
           /\ \A x \in S : x # e => [f EXCEPT ![e] = v][x] = f[x]
OBVIOUS
=============================================================================
