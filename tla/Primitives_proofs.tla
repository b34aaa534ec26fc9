-------------------------- MODULE Primitives_proofs --------------------------
(***************************************************************************)
(* Proofs about Primitives, for all polygons, lists of loops and meshes:   *)
(* the patches of a primitive cover it without a gap or an overlap.        *)
(***************************************************************************)
EXTENDS Primitives, NatInduction, FiniteSetTheorems

----------------------------------------------------------------------------
(* Sums.                                                                   *)

ElementAt(s, i) == IF i \in DOMAIN s THEN s[i] ELSE 0

\* What the sums of a list of numbers are.
Summed(s) ==
    /\ Totals(s) \in [Nat -> Nat] /\ Totals(s)[0] = 0
    /\ \A i \in 1..Len(s) : Totals(s)[i] = Totals(s)[i - 1] + s[i]
    /\ \A i \in 0..Len(s), j \in 0..Len(s) : i <= j => Totals(s)[i] <= Totals(s)[j]

LEMMA TotalsAre == ASSUME NEW s \in Seq(Nat) PROVE Summed(s)
<1> DEFINE g == [p \in Nat \X Nat |-> p[2] + ElementAt(s, p[1] + 1)]
           Q(f) == f = [i \in Nat |-> IF i = 0 THEN 0 ELSE f[i - 1] + ElementAt(s, i)]
           P == Totals(s)
<1>0. \A i \in Nat : ElementAt(s, i) \in Nat
  BY DEF ElementAt
<1>1. g \in [Nat \X Nat -> Nat]
  <2>1. ASSUME NEW p \in Nat \X Nat PROVE p[2] + ElementAt(s, p[1] + 1) \in Nat
    <3>1. p[2] \in Nat /\ p[1] + 1 \in Nat
      OBVIOUS
    <3>2. ElementAt(s, p[1] + 1) \in Nat
      BY <1>0, <3>1
    <3> QED
      BY <3>1, <3>2
  <2> QED
    BY <2>1
<1>2. PICK h : Recurses(h, Nat, 0, g)
  <2> HIDE DEF g
  <2> QED
    BY <1>1, Recursion
<1>3. \A n \in Nat : h[n + 1] = h[n] + ElementAt(s, n + 1)
  <2>1. \A n \in Nat, c \in Nat : g[<<n, c>>] = c + ElementAt(s, n + 1)
    OBVIOUS
  <2> HIDE DEF g
  <2> QED
    BY <1>2, <2>1 DEF Recurses
<1>4. Q(h)
  <2>1. ASSUME NEW i \in Nat PROVE h[i] = IF i = 0 THEN 0 ELSE h[i - 1] + ElementAt(s, i)
    <3>1. CASE i = 0
      BY <1>2, <3>1 DEF Recurses
    <3>2. CASE i # 0
      <4>1. i - 1 \in Nat /\ (i - 1) + 1 = i
        BY <3>2
      <4> QED
        BY <1>3, <3>2, <4>1
    <3> QED
      BY <3>1, <3>2
  <2> QED
    BY <1>2, <2>1 DEF Recurses
<1>5. Q(P)
  <2>1. P = CHOOSE f : Q(f)
    BY DEF Totals, ElementAt
  <2> HIDE DEF Q, P
  <2> QED
    BY <1>4, <2>1
<1>6. DOMAIN P = Nat /\ P[0] = 0 /\ \A n \in Nat : P[n + 1] = P[n] + ElementAt(s, n + 1)
  <2> HIDE DEF P
  <2>1. P = [i \in Nat |-> IF i = 0 THEN 0 ELSE P[i - 1] + ElementAt(s, i)]
    BY <1>5
  <2>2. \A i \in Nat : P[i] = IF i = 0 THEN 0 ELSE P[i - 1] + ElementAt(s, i)
    BY <2>1
  <2>3. ASSUME NEW n \in Nat PROVE P[n + 1] = P[n] + ElementAt(s, n + 1)
    <3>1. n + 1 \in Nat /\ n + 1 # 0 /\ (n + 1) - 1 = n
      OBVIOUS
    <3> QED
      BY <2>2, <3>1
  <2>4. DOMAIN P = Nat
    BY <2>1
  <2> QED
    BY <2>2, <2>3, <2>4
<1>7. P = [n \in Nat |-> P[n]]
  <2> HIDE DEF P
  <2> QED
    BY <1>5
<1> HIDE DEF P, Q, g
<1>8. \A n \in Nat : P[n] \in Nat
  <2> DEFINE S == {n \in Nat : P[n] \in Nat}
  <2>1. 0 \in S
    BY <1>6
  <2>2. ASSUME NEW n \in Nat, n \in S PROVE n + 1 \in S
    <3>1. n + 1 \in Nat
      OBVIOUS
    <3>2. P[n + 1] = P[n] + ElementAt(s, n + 1)
      BY <1>6
    <3>3. ElementAt(s, n + 1) \in Nat
      BY <1>0, <3>1
    <3>4. P[n] \in Nat
      BY <2>2
    <3> QED
      BY <3>1, <3>2, <3>3, <3>4
  <2> HIDE DEF S
  <2>3. \A n \in Nat : n \in S
    BY <2>1, <2>2, SetInduction
  <2> QED
    BY <2>3 DEF S
<1>9. P \in [Nat -> Nat]
  BY <1>7, <1>8
<1>10. ASSUME NEW n \in Nat PROVE P[n] <= P[n + 1]
  <2>1. P[n] \in Nat /\ n + 1 \in Nat
    BY <1>8
  <2>2. P[n + 1] = P[n] + ElementAt(s, n + 1) /\ ElementAt(s, n + 1) \in Nat
    BY <1>0, <1>6, <2>1
  <2> QED
    BY <2>1, <2>2
<1>11. ASSUME NEW i \in Nat PROVE \A j \in Nat : i <= j => P[i] <= P[j]
  <2> DEFINE S == {d \in Nat : P[i] <= P[i + d]}
  <2>1. 0 \in S
    BY <1>8
  <2>2. ASSUME NEW d \in Nat, d \in S PROVE d + 1 \in S
    <3>1. P[i + d] <= P[i + d + 1] /\ i + d \in Nat /\ i + d + 1 \in Nat
      BY <1>10
    <3> QED
      BY <1>8, <2>2, <3>1
  <2>3. \A d \in Nat : d \in S
    <3> HIDE DEF S
    <3> QED
      BY <2>1, <2>2, SetInduction
  <2>4. ASSUME NEW j \in Nat, i <= j PROVE P[i] <= P[j]
    <3>1. j - i \in Nat /\ i + (j - i) = j
      BY <2>4
    <3> QED
      BY <2>3, <3>1
  <2> QED
    BY <2>4
<1>12. ASSUME NEW i \in 1..Len(s) PROVE P[i] = P[i - 1] + s[i]
  <2>1. i - 1 \in Nat /\ (i - 1) + 1 = i /\ i \in DOMAIN s
    OBVIOUS
  <2> QED
    BY <1>6, <2>1 DEF ElementAt
<1>13. \A i \in 0..Len(s), j \in 0..Len(s) : i <= j => P[i] <= P[j]
  BY <1>11
<1>14. P[0] = 0 /\ \A i \in 1..Len(s) : P[i] = P[i - 1] + s[i]
  BY <1>6, <1>12
<1> QED
  BY <1>9, <1>13, <1>14, Zenon DEF P, Summed

----------------------------------------------------------------------------
(* Sides.  The side from a to b is in two halves, one at each end.         *)

Half(a, b) == {{a}, {a, b}}
Edge(a, b) == {Half(a, b), Half(b, a)}

\* The side in a triangle from the middle of a and b to that of all three.
Inner(a, b, c) == {{a, b}, {a, b, c}}

LEMMA HalfEnds ==
    ASSUME NEW a, NEW b, NEW c, NEW d, a # b, c # d, Half(a, b) = Half(c, d)
    PROVE  a = c /\ b = d
<1>1. {a} \in Half(c, d) /\ {a, b} \in Half(c, d)
  BY DEF Half
<1>2. {a} # {c, d}
  <2>1. c \in {c, d} /\ d \in {c, d} /\ ~(c \in {a} /\ d \in {a})
    OBVIOUS
  <2> QED
    BY <2>1
<1>3. a = c
  BY <1>1, <1>2, Zenon DEF Half
<1>4. {a, b} # {c}
  <2>1. a \in {a, b} /\ b \in {a, b} /\ ~(a \in {c} /\ b \in {c})
    OBVIOUS
  <2> QED
    BY <2>1
<1>5. {a, b} = {c, d}
  BY <1>1, <1>4, Zenon DEF Half
<1> QED
  BY <1>3, <1>5, Zenon

LEMMA SideIs ==
    ASSUME NEW a, NEW b
    PROVE  Side({a}, {b}) = Edge(a, b)
<1>1. Cardinality({a}) = 1 /\ Cardinality({b}) = 1
  BY FS_Singleton
<1>2. {a} \cup {b} = {a, b} /\ {{a, b}, {b}} = {{b}, {b, a}}
  BY Zenon
<1> QED
  BY <1>1, <1>2 DEF Side, Edge, Half

LEMMA PairSize ==
    ASSUME NEW a, NEW b, a # b
    PROVE  Cardinality({a, b}) = 2 /\ IsFiniteSet({a, b})
<1>1. IsFiniteSet({a}) /\ Cardinality({a}) = 1
  BY FS_Singleton
<1>2. {a, b} = {a} \cup {b} /\ b \notin {a}
  BY Zenon
<1>3. IsFiniteSet({a} \cup {b}) /\ Cardinality({a} \cup {b}) = Cardinality({a}) + 1
  BY <1>1, <1>2, FS_AddElement
<1> QED
  BY <1>1, <1>2, <1>3

LEMMA PatchSides ==
    ASSUME NEW a, NEW b, NEW c, NEW d
    PROVE  Sides(<<{a}, {b}, {c}, {d}>>) = Edge(a, b) \cup Edge(b, d) \cup Edge(d, c) \cup Edge(c, a)
<1> DEFINE p == <<{a}, {b}, {c}, {d}>>
<1>1. p[1] = {a} /\ p[2] = {b} /\ p[3] = {c} /\ p[4] = {d}
  OBVIOUS
<1> HIDE DEF p
<1>2. Sides(p) = Side({a}, {b}) \cup Side({b}, {d}) \cup Side({d}, {c}) \cup Side({c}, {a})
  BY <1>1 DEF Sides
<1> QED
  BY <1>2, SideIs DEF p

\* The patch of a triangle at its corner a.
Corner(a, b, c) == <<{a}, {a, b}, {a, c}, {a, b, c}>>

LEMMA CornerSides ==
    ASSUME NEW a, NEW b, NEW c, a # b, b # c, a # c
    PROVE  Sides(Corner(a, b, c)) = {Half(a, b), Inner(a, b, c), Inner(a, c, b), Half(a, c)}
<1> DEFINE ab == {a, b}  ac == {a, c}  m == {a, b, c}
           p == Corner(a, b, c)
<1>1. p[1] = {a} /\ p[2] = ab /\ p[3] = ac /\ p[4] = m
  BY DEF Corner
<1> HIDE DEF p
<1>2. Sides(p) = Side({a}, ab) \cup Side(ab, m) \cup Side(m, ac) \cup Side(ac, {a})
  BY <1>1 DEF Sides
<1>3. Cardinality(ab) # 1 /\ Cardinality(ac) # 1
  <2>1. Cardinality(ab) = 2
    BY PairSize
  <2>2. Cardinality(ac) = 2
    BY PairSize
  <2> QED
    BY <2>1, <2>2
<1>4. Side({a}, ab) = {{{a}, ab}} /\ Side(ab, m) = {{ab, m}} /\ Side(m, ac) = {{m, ac}}
      /\ Side(ac, {a}) = {{ac, {a}}}
  <2> HIDE DEF ab, ac, m
  <2> QED
    BY <1>3 DEF Side
<1>5. {{a}, ab} = Half(a, b) /\ {ac, {a}} = Half(a, c)
  BY Zenon DEF Half
<1>6. {ab, m} = Inner(a, b, c)
  BY DEF Inner
<1>7. m = {a, c, b}
  BY Zenon
<1>8. {m, ac} = Inner(a, c, b)
  <2> HIDE DEF m, ac
  <2>1. {m, ac} = {ac, m}
    BY Zenon
  <2> QED
    BY <1>7, <2>1 DEF Inner, ac
<1> QED
  <2> HIDE DEF ab, ac, m
  <2>1. Sides(p) = {{{a}, ab}} \cup {{ab, m}} \cup {{m, ac}} \cup {{ac, {a}}}
    BY <1>2, <1>4
  <2>2. Sides(p) = {Half(a, b)} \cup {Inner(a, b, c)} \cup {Inner(a, c, b)} \cup {Half(a, c)}
    BY <2>1, <1>5, <1>6, <1>8
  <2> QED
    BY <2>2, Zenon DEF p

\* A half of a side is no side inside of a triangle, and these differ.
LEMMA InnerDiffers ==
    ASSUME NEW a, NEW b, NEW c, a # b, b # c, a # c
    PROVE  /\ Inner(a, b, c) = Inner(b, a, c)
           /\ \A d, e : Inner(a, b, c) # Half(d, e)
           /\ Inner(a, b, c) # Inner(a, c, b) /\ Inner(a, b, c) # Inner(b, c, a)
<1>1. {a, b} = {b, a} /\ {a, b, c} = {b, a, c}
  BY Zenon
<1>2. Inner(a, b, c) = Inner(b, a, c)
  BY <1>1 DEF Inner
<1>3. ASSUME NEW d, NEW e PROVE Inner(a, b, c) # Half(d, e)
  <2>1. ASSUME NEW S, a \in S, b \in S PROVE {d} # S
    BY <2>1
  <2>2. {d} # {a, b} /\ {d} # {a, b, c}
    BY <2>1
  <2> QED
    BY <2>2, Zenon DEF Inner, Half
<1>4. {a, b} # {a, c} /\ {a, b} # {a, c, b} /\ {a, b} # {b, c} /\ {a, b} # {b, c, a}
  <2>1. c \notin {a, b} /\ c \in {a, c} /\ c \in {a, c, b} /\ c \in {b, c} /\ c \in {b, c, a}
    OBVIOUS
  <2> QED
    BY <2>1, Zenon
<1>5. Inner(a, b, c) # Inner(a, c, b) /\ Inner(a, b, c) # Inner(b, c, a)
  BY <1>4, Zenon DEF Inner
<1> QED
  BY <1>2, <1>3, <1>5

----------------------------------------------------------------------------
(* How many patches of a loop have a side.                                 *)

OfLoop(out, l) == {i \in DOMAIN out : out[i].loop = l}
With(out, l, h) == {i \in OfLoop(out, l) : h \in Sides(out[i].pts)}
Having(out, l, h) == Cardinality(With(out, l, h))

LEMMA HavingIs ==
    ASSUME NEW P, NEW out \in Seq(P), NEW l, NEW h
    PROVE  /\ Having(out, l, h) \in Nat /\ IsFiniteSet(With(out, l, h))
           /\ Having(out, l, h) = 0 <=> \A i \in OfLoop(out, l) : h \notin Sides(out[i].pts)
<1>1. IsFiniteSet(1..Len(out)) /\ DOMAIN out = 1..Len(out)
  <2>1. Len(out) \in Int /\ 1 \in Int /\ DOMAIN out = 1..Len(out)
    OBVIOUS
  <2> QED
    BY <2>1, FS_Interval
<1>2. With(out, l, h) \in SUBSET (1..Len(out))
  BY <1>1 DEF With, OfLoop
<1>3. IsFiniteSet(With(out, l, h))
  BY <1>1, <1>2, FS_Subset
<1>4. Having(out, l, h) \in Nat /\ (Having(out, l, h) = 0 <=> With(out, l, h) = {})
  BY <1>3, FS_CardinalityType, FS_EmptySet DEF Having
<1> QED
  BY <1>3, <1>4 DEF With

Counted(out, x, l, h) ==
    /\ x.loop # l => /\ OfLoop(Append(out, x), l) = OfLoop(out, l)
                     /\ Having(Append(out, x), l, h) = Having(out, l, h)
    /\ x.loop = l =>
          /\ h \in Sides(x.pts) => Having(Append(out, x), l, h) = Having(out, l, h) + 1
          /\ h \notin Sides(x.pts) => Having(Append(out, x), l, h) = Having(out, l, h)

LEMMA OneMore ==
    ASSUME NEW P, NEW out \in Seq(P), NEW x \in P, NEW l, NEW h
    PROVE  Counted(out, x, l, h)
<1> DEFINE o == Append(out, x)
           n == Len(out) + 1
<1>1. /\ DOMAIN o = DOMAIN out \cup {n} /\ n \notin DOMAIN out
      /\ o[n] = x /\ \A i \in DOMAIN out : o[i] = out[i]
  OBVIOUS
<1> HIDE DEF o, n
<1>2. x.loop # l => OfLoop(o, l) = OfLoop(out, l)
  <2>1. \A i : i \in OfLoop(o, l) <=> i \in OfLoop(out, l) \/ (i = n /\ x.loop = l)
    BY <1>1 DEF OfLoop
  <2> QED
    BY <2>1
<1>3. \A i : i \in With(o, l, h) <=> \/ i \in With(out, l, h)
                                     \/ i = n /\ x.loop = l /\ h \in Sides(x.pts)
  BY <1>1 DEF With, OfLoop
<1>4. n \notin With(out, l, h)
  BY <1>1 DEF With, OfLoop
<1>5. IsFiniteSet(With(out, l, h)) /\ Having(out, l, h) \in Nat
  BY HavingIs
<1>6. ASSUME x.loop = l, h \in Sides(x.pts) PROVE Having(o, l, h) = Having(out, l, h) + 1
  <2>1. With(o, l, h) = With(out, l, h) \cup {n}
    BY <1>3, <1>6
  <2> QED
    BY <1>4, <1>5, <2>1, FS_AddElement DEF Having
<1>7. ASSUME ~(x.loop = l /\ h \in Sides(x.pts)) PROVE Having(o, l, h) = Having(out, l, h)
  <2>1. With(o, l, h) = With(out, l, h)
    BY <1>3, <1>7
  <2> QED
    BY <2>1 DEF Having
<1> QED
  BY <1>2, <1>6, <1>7 DEF o, Counted

----------------------------------------------------------------------------
(* The fan of a loop, whose first vertex is f: so far its patches cover    *)
(* the polygon of the vertices 0..s.                                       *)

Follows(s, x, y) == x + 1 = y \/ (x = s /\ y = 0)
Adjacent(s, x, y) == Follows(s, x, y) \/ Follows(s, y, x)

HalfAt(f, x, y) == Half(f + x, f + y)
OnOutline(f, s, h) == \E x, y \in 0..s : Adjacent(s, x, y) /\ h = HalfAt(f, x, y)
Spans(f, s, h) == \E x, y \in 0..s : x # y /\ h = HalfAt(f, x, y)

Fan(out, l, f, s) ==
    /\ s = 1 => OfLoop(out, l) = {}
    /\ \A h : /\ Having(out, l, h) \in 0..2
              /\ Having(out, l, h) = 1 <=> s >= 2 /\ OnOutline(f, s, h)
              /\ Having(out, l, h) > 0 => Spans(f, s, h)

Covered(out, l, f, n) ==
    IF n < 3 THEN OfLoop(out, l) = {}
    ELSE \A h : /\ Having(out, l, h) \in 0..2
                /\ Having(out, l, h) = 1 <=> OnOutline(f, n - 1, h)

LEMMA HalvesAt ==
    ASSUME NEW f \in Nat, NEW x \in Nat, NEW y \in Nat, NEW v \in Nat, NEW w \in Nat,
           x # y, v # w, HalfAt(f, x, y) = HalfAt(f, v, w)
    PROVE  x = v /\ y = w
<1>1. f + x # f + y /\ f + v # f + w
  OBVIOUS
<1>2. f + x = f + v /\ f + y = f + w
  BY <1>1, HalfEnds DEF HalfAt
<1> QED
  BY <1>2

\* Which halves of sides are where, in numbers.
LEMMA WhereHalf ==
    ASSUME NEW f \in Nat, NEW s \in Nat \ {0}, NEW x \in Nat, NEW y \in Nat, x # y
    PROVE  /\ OnOutline(f, s, HalfAt(f, x, y)) <=> x <= s /\ y <= s /\ Adjacent(s, x, y)
           /\ Spans(f, s, HalfAt(f, x, y)) <=> x <= s /\ y <= s
<1>1. ASSUME NEW v \in 0..s, NEW w \in 0..s, Adjacent(s, v, w) PROVE v # w
  BY <1>1 DEF Adjacent, Follows
<1>2. ASSUME NEW v \in 0..s, NEW w \in 0..s, v # w, HalfAt(f, x, y) = HalfAt(f, v, w)
      PROVE  x = v /\ y = w
  BY <1>2, HalvesAt
<1>3. ASSUME OnOutline(f, s, HalfAt(f, x, y)) PROVE x <= s /\ y <= s /\ Adjacent(s, x, y)
  <2>1. PICK v \in 0..s, w \in 0..s : Adjacent(s, v, w) /\ HalfAt(f, x, y) = HalfAt(f, v, w)
    BY <1>3 DEF OnOutline
  <2>2. x = v /\ y = w
    BY <1>1, <1>2, <2>1
  <2> QED
    BY <2>1, <2>2
<1>4. ASSUME x <= s, y <= s, Adjacent(s, x, y) PROVE OnOutline(f, s, HalfAt(f, x, y))
  BY <1>4 DEF OnOutline
<1>5. ASSUME Spans(f, s, HalfAt(f, x, y)) PROVE x <= s /\ y <= s
  <2>1. PICK v \in 0..s, w \in 0..s : v # w /\ HalfAt(f, x, y) = HalfAt(f, v, w)
    BY <1>5 DEF Spans
  <2>2. x = v /\ y = w
    BY <1>2, <2>1
  <2> QED
    BY <2>2
<1>6. ASSUME x <= s, y <= s PROVE Spans(f, s, HalfAt(f, x, y))
  BY <1>6 DEF Spans
<1> QED
  BY <1>3, <1>4, <1>5, <1>6

LEMMA Spanning ==
    ASSUME NEW f \in Nat, NEW s \in Nat \ {0}, NEW h, NEW t \in Nat, s <= t, ~Spans(f, t, h)
    PROVE  ~Spans(f, s, h) /\ ~OnOutline(f, s, h)
<1>1. ASSUME NEW v \in 0..s, NEW w \in 0..s, Adjacent(s, v, w) PROVE v # w
  BY <1>1 DEF Adjacent, Follows
<1>2. \A v \in 0..s : v \in 0..t
  OBVIOUS
<1> QED
  BY <1>1, <1>2 DEF Spans, OnOutline

\* The new sides of a quad: from 0 to s, s + 1, s + 2 and back.
InQuad(s, x, y) ==
    \/ x = 0 /\ y = s
    \/ x = s /\ y = s + 1
    \/ x = s + 1 /\ y = s + 2
    \/ x = s + 2 /\ y = 0

QuadSide(f, s, h) ==
    \E x, y \in 0..(s + 2) : (InQuad(s, x, y) \/ InQuad(s, y, x)) /\ h = HalfAt(f, x, y)

LEMMA QuadHas ==
    ASSUME NEW f \in Nat, NEW s \in Nat \ {0}, NEW h,
           NEW pts, pts = <<{f + 0}, {f + s}, {f + (s + 2)}, {f + (s + 1)}>>
    PROVE  h \in Sides(pts) <=> QuadSide(f, s, h)
<1>1. Sides(pts) =
         Edge(f + 0, f + s) \cup Edge(f + s, f + (s + 1)) \cup Edge(f + (s + 1), f + (s + 2))
           \cup Edge(f + (s + 2), f + 0)
  BY PatchSides
<1>2. \A x, y : h \in Edge(f + x, f + y) <=> h = HalfAt(f, x, y) \/ h = HalfAt(f, y, x)
  BY DEF Edge, HalfAt
<1>3. ASSUME h \in Sides(pts)
      PROVE  \E x, y \in 0..(s + 2) : (InQuad(s, x, y) \/ InQuad(s, y, x)) /\ h = HalfAt(f, x, y)
  <2>1. \E x, y \in 0..(s + 2) : InQuad(s, x, y) /\ h \in Edge(f + x, f + y)
    <3>1. 0 \in 0..(s + 2) /\ s \in 0..(s + 2) /\ s + 1 \in 0..(s + 2) /\ s + 2 \in 0..(s + 2)
      OBVIOUS
    <3>2. InQuad(s, 0, s) /\ InQuad(s, s, s + 1) /\ InQuad(s, s + 1, s + 2) /\ InQuad(s, s + 2, 0)
      BY DEF InQuad
    <3>3. \/ h \in Edge(f + 0, f + s) \/ h \in Edge(f + s, f + (s + 1))
          \/ h \in Edge(f + (s + 1), f + (s + 2)) \/ h \in Edge(f + (s + 2), f + 0)
      BY <1>1, <1>3, Zenon
    <3> QED
      BY <3>1, <3>2, <3>3, Zenon
  <2> QED
    BY <1>2, <2>1
<1>4. ASSUME NEW x \in 0..(s + 2), NEW y \in 0..(s + 2), InQuad(s, x, y)
      PROVE  Edge(f + x, f + y) \subseteq Sides(pts)
  <2> DEFINE all == Sides(pts)
  <2>1. /\ Edge(f + 0, f + s) \subseteq all /\ Edge(f + s, f + (s + 1)) \subseteq all
        /\ Edge(f + (s + 1), f + (s + 2)) \subseteq all /\ Edge(f + (s + 2), f + 0) \subseteq all
    BY <1>1
  <2> HIDE DEF all
  <2> QED
    BY <1>4, <2>1, Zenon DEF InQuad, all
<1>5. ASSUME NEW x \in 0..(s + 2), NEW y \in 0..(s + 2), InQuad(s, x, y) \/ InQuad(s, y, x),
             h = HalfAt(f, x, y)
      PROVE  h \in Sides(pts)
  BY <1>2, <1>4, <1>5
<1> QED
  BY <1>3, <1>5 DEF QuadSide

LEMMA FanQuad ==
    ASSUME NEW P, NEW out \in Seq(P), NEW x0 \in P, NEW l, NEW f \in Nat, NEW s \in Nat \ {0},
           Fan(out, l, f, s), x0.loop = l,
           x0.pts = <<{f + 0}, {f + s}, {f + (s + 2)}, {f + (s + 1)}>>
    PROVE  Fan(Append(out, x0), l, f, s + 2)
<1> DEFINE o == Append(out, x0)
           c(h) == Having(out, l, h)
           isNew(h) == h \in Sides(x0.pts)
<1>1. ASSUME NEW h PROVE Having(o, l, h) = c(h) + (IF isNew(h) THEN 1 ELSE 0)
  <2>1. /\ h \in Sides(x0.pts) => Having(o, l, h) = Having(out, l, h) + 1
        /\ h \notin Sides(x0.pts) => Having(o, l, h) = Having(out, l, h)
    <3>1. Counted(out, x0, l, h)
      BY OneMore
    <3> QED
      BY <3>1 DEF Counted
  <2>2. Having(out, l, h) \in Nat
    BY HavingIs
  <2> QED
    BY <2>1, <2>2
<1>0. s \in Nat /\ s + 2 \in Nat \ {0} /\ s <= s + 2
  OBVIOUS
<1>2. ASSUME NEW h
      PROVE  c(h) \in 0..2 /\ (c(h) = 1 <=> s >= 2 /\ OnOutline(f, s, h)) /\ (c(h) > 0 => Spans(f, s, h))
             /\ (s = 1 => c(h) = 0)
  <2>1. c(h) \in 0..2 /\ (c(h) = 1 <=> s >= 2 /\ OnOutline(f, s, h)) /\ (c(h) > 0 => Spans(f, s, h))
    BY DEF Fan
  <2>2. s = 1 => c(h) = 0
    BY HavingIs DEF Fan
  <2> QED
    BY <2>1, <2>2
<1> SUFFICES ASSUME NEW h
             PROVE  /\ Having(o, l, h) \in 0..2
                    /\ Having(o, l, h) = 1 <=> OnOutline(f, s + 2, h)
                    /\ Having(o, l, h) > 0 => Spans(f, s + 2, h)
  BY DEF Fan
<1>3. CASE ~Spans(f, s + 2, h)
  <2>1. ~Spans(f, s, h) /\ ~OnOutline(f, s + 2, h)
    <3>1. ~Spans(f, s, h)
      BY <1>0, <1>3, Spanning
    <3>2. s + 2 <= s + 2
      BY <1>0
    <3>3. ~OnOutline(f, s + 2, h)
      BY <1>0, <1>3, <3>2, Spanning
    <3> QED
      BY <3>1, <3>3
  <2>2. ~isNew(h)
    <3> SUFFICES ASSUME isNew(h) PROVE FALSE
      OBVIOUS
    <3>1. PICK x \in 0..(s + 2), y \in 0..(s + 2) :
             (InQuad(s, x, y) \/ InQuad(s, y, x)) /\ h = HalfAt(f, x, y)
      <4>1. QuadSide(f, s, h)
        BY QuadHas
      <4> QED
        BY <4>1 DEF QuadSide
    <3>2. x # y
      BY <3>1 DEF InQuad
    <3> QED
      BY <1>3, <3>1, <3>2 DEF Spans
  <2>3. c(h) = 0
    BY <1>2, <2>1
  <2> QED
    BY <1>1, <2>1, <2>2, <2>3
<1>4. CASE Spans(f, s + 2, h)
  <2>1. PICK x \in 0..(s + 2), y \in 0..(s + 2) : x # y /\ h = HalfAt(f, x, y)
    BY <1>4 DEF Spans
  <2>2. /\ OnOutline(f, s, h) <=> x <= s /\ y <= s /\ Adjacent(s, x, y)
        /\ Spans(f, s, h) <=> x <= s /\ y <= s
        /\ OnOutline(f, s + 2, h) <=> Adjacent(s + 2, x, y)
    <3>1. x \in Nat /\ y \in Nat /\ x <= s + 2 /\ y <= s + 2
      BY <2>1
    <3>2. /\ OnOutline(f, s, h) <=> x <= s /\ y <= s /\ Adjacent(s, x, y)
          /\ Spans(f, s, h) <=> x <= s /\ y <= s
      BY <2>1, <3>1, WhereHalf
    <3>3. OnOutline(f, s + 2, h) <=> x <= s + 2 /\ y <= s + 2 /\ Adjacent(s + 2, x, y)
      BY <1>0, <2>1, <3>1, WhereHalf
    <3> QED
      BY <3>1, <3>2, <3>3
  <2>3. isNew(h) <=> InQuad(s, x, y) \/ InQuad(s, y, x)
    <3>1. ASSUME NEW v \in 0..(s + 2), NEW w \in 0..(s + 2), InQuad(s, v, w) \/ InQuad(s, w, v),
                 h = HalfAt(f, v, w)
          PROVE  x = v /\ y = w
      <4>1. v # w
        BY <3>1 DEF InQuad
      <4>2. x \in Nat /\ y \in Nat /\ v \in Nat /\ w \in Nat /\ HalfAt(f, x, y) = HalfAt(f, v, w)
        BY <2>1, <3>1
      <4> QED
        BY <2>1, <4>1, <4>2, HalvesAt
    <3>2. isNew(h) <=> QuadSide(f, s, h)
      BY QuadHas
    <3> HIDE DEF isNew
    <3> QED
      BY <2>1, <3>1, <3>2 DEF QuadSide
  <2> DEFINE k == c(h)  k2 == Having(o, l, h)
  <2>4. /\ k \in 0..2 /\ (k = 1 <=> s >= 2 /\ x <= s /\ y <= s /\ Adjacent(s, x, y))
        /\ k > 0 => x <= s /\ y <= s
        /\ s = 1 => k = 0
        /\ k2 = k + (IF InQuad(s, x, y) \/ InQuad(s, y, x) THEN 1 ELSE 0)
    <3>1. k \in 0..2 /\ (k = 1 <=> s >= 2 /\ OnOutline(f, s, h)) /\ (k > 0 => Spans(f, s, h))
          /\ (s = 1 => k = 0)
      BY <1>2
    <3>2. k2 = k + (IF isNew(h) THEN 1 ELSE 0)
      BY <1>1
    <3> HIDE DEF k, k2, isNew
    <3> QED
      BY <2>2, <2>3, <3>1, <3>2
  <2> HIDE DEF k, k2
  <2>5. k2 \in 0..2 /\ (k2 = 1 <=> Adjacent(s + 2, x, y))
    <3>1. CASE InQuad(s, x, y)
      BY <2>1, <2>4, <3>1 DEF Adjacent, Follows, InQuad
    <3>2. CASE InQuad(s, y, x)
      BY <2>1, <2>4, <3>2 DEF Adjacent, Follows, InQuad
    <3>3. CASE ~InQuad(s, x, y) /\ ~InQuad(s, y, x)
      <4>1. k2 = k
        BY <2>4, <3>3
      <4>2. Adjacent(s + 2, x, y) <=> s >= 2 /\ x <= s /\ y <= s /\ Adjacent(s, x, y)
        BY <2>1, <3>3 DEF Adjacent, Follows, InQuad
      <4> QED
        BY <2>4, <4>1, <4>2
    <3> QED
      BY <3>1, <3>2, <3>3
  <2> QED
    BY <1>4, <2>2, <2>5 DEF k2
<1> QED
  BY <1>3, <1>4

\* How many of the three patches of a triangle have a side.
InTriangle(a, b, c, h) ==
    (IF h \in Sides(Corner(a, b, c)) THEN 1 ELSE 0) + (IF h \in Sides(Corner(b, a, c)) THEN 1 ELSE 0)
       + (IF h \in Sides(Corner(c, b, a)) THEN 1 ELSE 0)

TriangleCounts(a, b, c, h) ==
    /\ InTriangle(a, b, c, h) \in 0..2
    /\ \A p, q \in {a, b, c} : p # q /\ h = Half(p, q) => InTriangle(a, b, c, h) = 1
    /\ InTriangle(a, b, c, h) = 1 => \E p, q \in {a, b, c} : p # q /\ h = Half(p, q)
    /\ (\E p, q : h = Half(p, q)) => InTriangle(a, b, c, h) # 2

LEMMA TriangleHas ==
    ASSUME NEW a, NEW b, NEW c, a # b, b # c, a # c, NEW h
    PROVE  TriangleCounts(a, b, c, h)
<1> DEFINE S1 == {Half(a, b), Inner(a, b, c), Inner(a, c, b), Half(a, c)}
           S2 == {Half(b, a), Inner(a, b, c), Inner(b, c, a), Half(b, c)}
           S3 == {Half(c, b), Inner(b, c, a), Inner(a, c, b), Half(c, a)}
<1>1. Sides(Corner(a, b, c)) = S1
  BY CornerSides
<1>2. Sides(Corner(b, a, c)) = S2
  <2>1. Sides(Corner(b, a, c)) = {Half(b, a), Inner(b, a, c), Inner(b, c, a), Half(b, c)}
    BY CornerSides
  <2> QED
    BY <2>1, InnerDiffers
<1>3. Sides(Corner(c, b, a)) = S3
  <2>1. Sides(Corner(c, b, a)) = {Half(c, b), Inner(c, b, a), Inner(c, a, b), Half(c, a)}
    BY CornerSides
  <2>2. Inner(c, b, a) = Inner(b, c, a) /\ Inner(c, a, b) = Inner(a, c, b)
    BY InnerDiffers
  <2> QED
    BY <2>1, <2>2
<1>4. /\ Inner(a, b, c) # Inner(a, c, b) /\ Inner(a, b, c) # Inner(b, c, a)
      /\ Inner(a, c, b) # Inner(b, c, a)
  <2>1. Inner(a, c, b) # Inner(c, b, a) /\ Inner(c, b, a) = Inner(b, c, a)
    BY InnerDiffers
  <2> QED
    BY <2>1, InnerDiffers
<1>5. \A d, e : Inner(a, b, c) # Half(d, e) /\ Inner(a, c, b) # Half(d, e) /\ Inner(b, c, a) # Half(d, e)
  BY InnerDiffers
<1> DEFINE k == InTriangle(a, b, c, h)
<1>7. k = (IF h \in S1 THEN 1 ELSE 0) + (IF h \in S2 THEN 1 ELSE 0) + (IF h \in S3 THEN 1 ELSE 0)
  BY <1>1, <1>2, <1>3 DEF InTriangle
<1>8. ASSUME NEW p \in {a, b, c}, NEW q \in {a, b, c}, p # q, h = Half(p, q) PROVE k = 1
  <2>1. ASSUME NEW v, NEW w, v # w, h = Half(v, w) PROVE p = v /\ q = w
    <3>1. Half(p, q) = Half(v, w)
      BY <1>8, <2>1
    <3> QED
      BY <1>8, <2>1, <3>1, HalfEnds
  <2>2. /\ h = Half(a, b) <=> p = a /\ q = b
        /\ h = Half(a, c) <=> p = a /\ q = c
        /\ h = Half(b, a) <=> p = b /\ q = a
        /\ h = Half(b, c) <=> p = b /\ q = c
        /\ h = Half(c, b) <=> p = c /\ q = b
        /\ h = Half(c, a) <=> p = c /\ q = a
    BY <2>1, <1>8
  <2>3. h # Inner(a, b, c) /\ h # Inner(a, c, b) /\ h # Inner(b, c, a)
    BY <1>5, <1>8
  <2>4. (h \in S1 <=> p = a) /\ (h \in S2 <=> p = b) /\ (h \in S3 <=> p = c)
    BY <1>8, <2>2, <2>3
  <2> QED
    BY <1>7, <1>8, <2>4
<1>9. ASSUME h \in {Inner(a, b, c), Inner(a, c, b), Inner(b, c, a)} PROVE k = 2
  <2>1. /\ h # Half(a, b) /\ h # Half(a, c) /\ h # Half(b, a) /\ h # Half(b, c)
        /\ h # Half(c, b) /\ h # Half(c, a)
    BY <1>5, <1>9
  <2>2. CASE h = Inner(a, b, c)
    <3>1. h \in S1 /\ h \in S2 /\ h \notin S3
      BY <1>4, <2>1, <2>2
    <3> QED
      BY <1>7, <3>1
  <2>3. CASE h = Inner(a, c, b)
    <3>1. h \in S1 /\ h \notin S2 /\ h \in S3
      BY <1>4, <2>1, <2>3
    <3> QED
      BY <1>7, <3>1
  <2>4. CASE h = Inner(b, c, a)
    <3>1. h \notin S1 /\ h \in S2 /\ h \in S3
      BY <1>4, <2>1, <2>4
    <3> QED
      BY <1>7, <3>1
  <2> QED
    BY <1>9, <2>2, <2>3, <2>4
<1>10. \/ \E p, q \in {a, b, c} : p # q /\ h = Half(p, q)
       \/ h \in {Inner(a, b, c), Inner(a, c, b), Inner(b, c, a)}
       \/ h \notin S1 /\ h \notin S2 /\ h \notin S3
  OBVIOUS
<1>11. h \notin S1 /\ h \notin S2 /\ h \notin S3 => k = 0
  BY <1>7
<1>12. (\E p, q : h = Half(p, q)) => k # 2
  <2> SUFFICES ASSUME NEW p, NEW q, h = Half(p, q) PROVE k # 2
    OBVIOUS
  <2>1. h \notin {Inner(a, b, c), Inner(a, c, b), Inner(b, c, a)}
    BY <1>5
  <2> HIDE DEF k, S1, S2, S3
  <2> QED
    BY <1>8, <1>10, <1>11, <2>1
<1> HIDE DEF k, S1, S2, S3
<1> QED
  <2>1. k \in 0..2
    BY <1>8, <1>9, <1>10, <1>11
  <2>2. k = 1 => \E p, q \in {a, b, c} : p # q /\ h = Half(p, q)
    BY <1>9, <1>10, <1>11
  <2> QED
    BY <1>8, <1>12, <2>1, <2>2 DEF k, TriangleCounts

LEMMA FanTriangle ==
    ASSUME NEW P, NEW out \in Seq(P), NEW x1 \in P, NEW x2 \in P, NEW x3 \in P, NEW l,
           NEW f \in Nat, NEW s \in Nat \ {0}, Fan(out, l, f, s),
           x1.loop = l, x1.pts = Corner(f + 0, f + s, f + (s + 1)),
           x2.loop = l, x2.pts = Corner(f + s, f + 0, f + (s + 1)),
           x3.loop = l, x3.pts = Corner(f + (s + 1), f + s, f + 0)
    PROVE  Covered(Append(Append(Append(out, x1), x2), x3), l, f, s + 2)
<1> DEFINE o1 == Append(out, x1)
           o2 == Append(o1, x2)
           o == Append(o2, x3)
           a == f + 0
           b == f + s
           d == f + (s + 1)
           c(h) == Having(out, l, h)
<1>0. a # b /\ b # d /\ a # d
  OBVIOUS
<1>1. ASSUME NEW h PROVE Having(o, l, h) = c(h) + InTriangle(a, b, d, h)
  <2>1. o1 \in Seq(P) /\ o2 \in Seq(P)
    <3>1. o1 \in Seq(P)
      OBVIOUS
    <3> HIDE DEF o1
    <3> QED
      BY <3>1
  <2>2. /\ h \in Sides(x1.pts) => Having(o1, l, h) = Having(out, l, h) + 1
        /\ h \notin Sides(x1.pts) => Having(o1, l, h) = Having(out, l, h)
    <3>1. Counted(out, x1, l, h)
      BY OneMore
    <3> QED
      BY <3>1 DEF Counted
  <2> HIDE DEF o1
  <2>3. /\ h \in Sides(x2.pts) => Having(o2, l, h) = Having(o1, l, h) + 1
        /\ h \notin Sides(x2.pts) => Having(o2, l, h) = Having(o1, l, h)
    <3>1. Counted(o1, x2, l, h)
      BY <2>1, OneMore
    <3> QED
      BY <3>1 DEF Counted
  <2> HIDE DEF o2
  <2>4. /\ h \in Sides(x3.pts) => Having(o, l, h) = Having(o2, l, h) + 1
        /\ h \notin Sides(x3.pts) => Having(o, l, h) = Having(o2, l, h)
    <3>1. Counted(o2, x3, l, h)
      BY <2>1, OneMore
    <3> QED
      BY <3>1 DEF Counted
  <2>5. c(h) \in Nat
    BY HavingIs
  <2>6. x1.pts = Corner(a, b, d) /\ x2.pts = Corner(b, a, d) /\ x3.pts = Corner(d, b, a)
    OBVIOUS
  <2> HIDE DEF o, a, b, d
  <2>7. InTriangle(a, b, d, h) =
          (IF h \in Sides(x1.pts) THEN 1 ELSE 0) + (IF h \in Sides(x2.pts) THEN 1 ELSE 0)
             + (IF h \in Sides(x3.pts) THEN 1 ELSE 0)
    BY <2>6, Zenon DEF InTriangle
  <2> DEFINE k == c(h)  k1 == Having(o1, l, h)  k2 == Having(o2, l, h)  k3 == Having(o, l, h)
             q1 == h \in Sides(x1.pts)  q2 == h \in Sides(x2.pts)  q3 == h \in Sides(x3.pts)
  <2>8. k1 = k + (IF q1 THEN 1 ELSE 0) /\ k2 = k1 + (IF q2 THEN 1 ELSE 0) /\ k3 = k2 + (IF q3 THEN 1 ELSE 0)
    <3>1. k \in Nat /\ k + 0 = k
      BY <2>5
    <3>2. k1 \in Nat /\ k1 = k + (IF q1 THEN 1 ELSE 0)
      <4> HIDE DEF k
      <4> QED
        BY <2>2, <3>1 DEF k
    <3>3. k2 \in Nat /\ k2 = k1 + (IF q2 THEN 1 ELSE 0)
      BY <2>3, <3>2
    <3> QED
      BY <2>4, <3>2, <3>3
  <2> HIDE DEF k, k1, k2, k3, q1, q2, q3
  <2>9. k3 = k + ((IF q1 THEN 1 ELSE 0) + (IF q2 THEN 1 ELSE 0) + (IF q3 THEN 1 ELSE 0))
    <3>1. k \in Nat
      BY <2>5 DEF k
    <3> QED
      BY <2>8, <3>1
  <2> QED
    BY <2>7, <2>9 DEF k, k3, q1, q2, q3
<1>2. ASSUME NEW h
      PROVE  c(h) \in 0..2 /\ (c(h) = 1 <=> s >= 2 /\ OnOutline(f, s, h)) /\ (c(h) > 0 => Spans(f, s, h))
             /\ (s = 1 => c(h) = 0)
  <2>1. c(h) \in 0..2 /\ (c(h) = 1 <=> s >= 2 /\ OnOutline(f, s, h)) /\ (c(h) > 0 => Spans(f, s, h))
    BY DEF Fan
  <2>2. s = 1 => c(h) = 0
    BY HavingIs DEF Fan
  <2> QED
    BY <2>1, <2>2
<1>3. ASSUME NEW x \in 0..(s + 1), NEW y \in 0..(s + 1), x # y, NEW h, h = HalfAt(f, x, y)
      PROVE  InTriangle(a, b, d, h) = IF x \in {0, s, s + 1} /\ y \in {0, s, s + 1} THEN 1 ELSE 0
  <2> DEFINE k == InTriangle(a, b, d, h)
  <2>1. /\ k \in 0..2 /\ k # 2
        /\ \A p, q \in {a, b, d} : p # q /\ h = Half(p, q) => k = 1
        /\ k = 1 => \E p, q \in {a, b, d} : p # q /\ h = Half(p, q)
    <3> HIDE DEF a, b, d
    <3>1. TriangleCounts(a, b, d, h)
      BY <1>0, TriangleHas
    <3> QED
      BY <1>3, <3>1 DEF TriangleCounts, HalfAt
  <2> HIDE DEF k
  <2>2. CASE x \in {0, s, s + 1} /\ y \in {0, s, s + 1}
    <3>1. f + x \in {a, b, d} /\ f + y \in {a, b, d} /\ f + x # f + y
      BY <1>3, <2>2
    <3> QED
      BY <1>3, <2>1, <2>2, <3>1 DEF HalfAt, k
  <2>3. CASE ~(x \in {0, s, s + 1} /\ y \in {0, s, s + 1})
    <3>1. ASSUME k = 1 PROVE FALSE
      <4>1. PICK p \in {a, b, d}, q \in {a, b, d} : p # q /\ h = Half(p, q)
        BY <2>1, <3>1
      <4>2. f + x # f + y
        BY <1>3
      <4>3. f + x = p /\ f + y = q
        BY <1>3, <4>1, <4>2, HalfEnds DEF HalfAt
      <4> QED
        BY <2>3, <4>1, <4>3
    <3>2. k = 0
      BY <2>1, <3>1
    <3> QED
      BY <2>3, <3>2 DEF k
  <2> QED
    BY <2>2, <2>3
<1> SUFFICES ASSUME NEW h
             PROVE  Having(o, l, h) \in 0..2 /\ (Having(o, l, h) = 1 <=> OnOutline(f, s + 1, h))
  <2>1. (s + 2) - 1 = s + 1 /\ ~(s + 2 < 3)
    OBVIOUS
  <2> HIDE DEF o
  <2> QED
    BY <2>1 DEF Covered, o
<1> HIDE DEF o, o1, o2
<1>4. CASE ~Spans(f, s + 1, h)
  <2>1. ~Spans(f, s, h) /\ ~OnOutline(f, s + 1, h)
    <3>1. s + 1 \in Nat \ {0} /\ s <= s + 1 /\ s + 1 <= s + 1
      OBVIOUS
    <3>2. ~Spans(f, s, h)
      BY <1>4, <3>1, Spanning
    <3>3. ~OnOutline(f, s + 1, h)
      BY <1>4, <3>1, Spanning
    <3> QED
      BY <3>2, <3>3
  <2>2. c(h) = 0
    BY <1>2, <2>1
  <2>3. InTriangle(a, b, d, h) # 1
    <3> SUFFICES ASSUME InTriangle(a, b, d, h) = 1 PROVE FALSE
      OBVIOUS
    <3>1. PICK p \in {a, b, d}, q \in {a, b, d} : p # q /\ h = Half(p, q)
      <4> HIDE DEF a, b, d
      <4>1. TriangleCounts(a, b, d, h)
        BY <1>0, TriangleHas
      <4> QED
        BY <4>1 DEF TriangleCounts
    <3>2. PICK x \in 0..(s + 1) : p = f + x
      BY <3>1
    <3>3. PICK y \in 0..(s + 1) : q = f + y
      BY <3>1
    <3> QED
      BY <1>4, <3>1, <3>2, <3>3 DEF Spans, HalfAt
  <2>4. InTriangle(a, b, d, h) \in 0..2
    <3> HIDE DEF a, b, d
    <3>1. TriangleCounts(a, b, d, h)
      BY <1>0, TriangleHas
    <3> QED
      BY <3>1 DEF TriangleCounts
  <2> QED
    BY <1>1, <2>1, <2>2, <2>3, <2>4
<1>5. CASE Spans(f, s + 1, h)
  <2>1. PICK x \in 0..(s + 1), y \in 0..(s + 1) : x # y /\ h = HalfAt(f, x, y)
    BY <1>5 DEF Spans
  <2>2. /\ OnOutline(f, s, h) <=> x <= s /\ y <= s /\ Adjacent(s, x, y)
        /\ Spans(f, s, h) <=> x <= s /\ y <= s
        /\ OnOutline(f, s + 1, h) <=> Adjacent(s + 1, x, y)
    <3>1. x \in Nat /\ y \in Nat /\ x <= s + 1 /\ y <= s + 1 /\ s + 1 \in Nat \ {0}
      BY <2>1
    <3>2. /\ OnOutline(f, s, h) <=> x <= s /\ y <= s /\ Adjacent(s, x, y)
          /\ Spans(f, s, h) <=> x <= s /\ y <= s
      BY <2>1, <3>1, WhereHalf
    <3>3. OnOutline(f, s + 1, h) <=> x <= s + 1 /\ y <= s + 1 /\ Adjacent(s + 1, x, y)
      BY <2>1, <3>1, WhereHalf
    <3> QED
      BY <3>1, <3>2, <3>3
  <2> DEFINE k == c(h)  k2 == Having(o, l, h)
  <2>3. /\ k \in 0..2 /\ (k = 1 <=> s >= 2 /\ x <= s /\ y <= s /\ Adjacent(s, x, y))
        /\ k > 0 => x <= s /\ y <= s
        /\ s = 1 => k = 0
        /\ k2 = k + (IF x \in {0, s, s + 1} /\ y \in {0, s, s + 1} THEN 1 ELSE 0)
    <3> HIDE DEF a, b, d
    <3> QED
      BY <1>1, <1>2, <1>3, <2>1, <2>2
  <2> HIDE DEF k, k2
  <2>4. k2 \in 0..2 /\ (k2 = 1 <=> Adjacent(s + 1, x, y))
    BY <2>1, <2>3 DEF Adjacent, Follows
  <2> QED
    BY <2>2, <2>4 DEF k2
<1> QED
  BY <1>4, <1>5

LEMMA Remainder ==
    ASSUME NEW n \in Nat \ {0}, NEW m \in 0..(n - 1)
    PROVE  m % n = m /\ n % n = 0
OBVIOUS

LEMMA OutlineIs ==
    ASSUME NEW f \in Nat, NEW n \in Nat, n >= 3, NEW h
    PROVE  h \in Outline(f, n) <=> OnOutline(f, n - 1, h)
<1> DEFINE succ(k) == IF k = n - 1 THEN 0 ELSE k + 1
<1>1. \A k \in 0..(n - 1) : (k + 1) % n = succ(k)
  <2> SUFFICES ASSUME NEW k \in 0..(n - 1) PROVE (k + 1) % n = succ(k)
    OBVIOUS
  <2>1. CASE k = n - 1
    <3>1. k + 1 = n /\ n % n = 0
      BY <2>1, Remainder
    <3> QED
      BY <2>1, <3>1
  <2>2. CASE k # n - 1
    <3>1. k + 1 \in 0..(n - 1)
      BY <2>2
    <3>2. (k + 1) % n = k + 1
      BY <3>1, Remainder
    <3> QED
      BY <2>2, <3>2
  <2> QED
    BY <2>1, <2>2
<1>2. h \in Outline(f, n) <=> \E k \in 0..(n - 1) : h \in Side({f + k}, {f + ((k + 1) % n)})
  BY DEF Outline
<1>3. h \in Outline(f, n) <=> \E k \in 0..(n - 1) : h \in Edge(f + k, f + succ(k))
  <2>1. \A k \in 0..(n - 1) : Side({f + k}, {f + ((k + 1) % n)}) = Edge(f + k, f + succ(k))
    BY <1>1, SideIs
  <2> HIDE DEF succ
  <2> QED
    BY <1>2, <2>1
<1>4. \A k, j : h \in Edge(f + k, f + j) <=> h = HalfAt(f, k, j) \/ h = HalfAt(f, j, k)
  BY DEF Edge, HalfAt
<1>5. \A k \in 0..(n - 1) : succ(k) \in 0..(n - 1) /\ Follows(n - 1, k, succ(k))
  BY DEF Follows
<1>6. \A k, j \in 0..(n - 1) : Follows(n - 1, k, j) => j = succ(k)
  BY DEF Follows
<1> HIDE DEF succ
<1>7. h \in Outline(f, n) => OnOutline(f, n - 1, h)
  BY <1>3, <1>4, <1>5 DEF OnOutline, Adjacent
<1>8. OnOutline(f, n - 1, h) => h \in Outline(f, n)
  BY <1>3, <1>4, <1>6 DEF OnOutline, Adjacent
<1> QED
  BY <1>7, <1>8

----------------------------------------------------------------------------
(* The lists of a polygon primitive.                                       *)

Lists(p) ==
    LET N == NPolys(p)  L == Len(p.nverts)
        T == Totals(Drawn(p))  V == Totals(p.nverts)  S == Totals(Loops(p))
    IN  /\ N \in Nat /\ L \in Nat /\ p.nverts \in Seq(Nat) /\ p.n \in Nat
        /\ T \in [Nat -> Nat] /\ T[0] = 0 /\ T[N] <= L /\ \A i \in 0..N : T[i] <= T[N]
        /\ \A i \in 1..N : NLoops(p, i) \in 0..1 /\ T[i] = T[i - 1] + NLoops(p, i)
        /\ V \in [Nat -> Nat] /\ V[0] = 0 /\ \A i \in 0..T[N] : V[i] <= p.n
        /\ \A i \in 1..L : p.nverts[i] \in Nat /\ V[i] = V[i - 1] + p.nverts[i]
        /\ S \in [Nat -> Nat] /\ S[0] = 0
        /\ \A i \in 1..N : /\ Loops(p)[i] \in Nat /\ S[i] = S[i - 1] + Loops(p)[i]
                           /\ NLoops(p, i) <= Loops(p)[i]

LEMMA ListsOf == ASSUME NEW p \in PolyPrims PROVE Lists(p)
<1> DEFINE N == NPolys(p)  L == Len(p.nverts)  D == Drawn(p)  O == Loops(p)
<1>1. /\ p.kind \in Polys /\ p.nverts \in Seq(Nat) /\ (p.kind = "general" => p.nloops \in Seq(Nat))
      /\ Totals(D)[N] <= L /\ p.n \in Nat /\ Totals(p.nverts)[Totals(D)[N]] <= p.n
  BY PrimAssumption
<1>2. N \in Nat /\ L \in Nat
  BY <1>1 DEF NPolys
<1>3. \A i \in 1..N : p.kind = "general" => p.nloops[i] \in Nat
  BY <1>1 DEF NPolys
<1>4. \A i \in 1..N : NLoops(p, i) \in 0..1
  BY <1>3 DEF NLoops, Least
<1>5. D \in Seq(Nat) /\ Len(D) = N /\ \A i \in 1..N : D[i] = NLoops(p, i)
  BY <1>2, <1>4 DEF Drawn
<1>6. O \in Seq(Nat) /\ Len(O) = N /\ \A i \in 1..N : O[i] \in Nat /\ NLoops(p, i) <= O[i]
  BY <1>2, <1>3 DEF Loops, NLoops, Least
<1> HIDE DEF D, O, N, L
<1>7. /\ Totals(D) \in [Nat -> Nat] /\ Totals(D)[0] = 0
      /\ \A i \in 1..N : Totals(D)[i] = Totals(D)[i - 1] + D[i]
      /\ \A i \in 0..N : Totals(D)[i] <= Totals(D)[N]
  <2>1. Summed(D)
    BY <1>5, TotalsAre
  <2>2. N \in 0..N /\ \A i \in 0..N : i <= N
    BY <1>2
  <2> QED
    BY <1>5, <2>1, <2>2 DEF Summed
<1>8. /\ Totals(O) \in [Nat -> Nat] /\ Totals(O)[0] = 0
      /\ \A i \in 1..N : Totals(O)[i] = Totals(O)[i - 1] + O[i]
  <2>1. Summed(O)
    BY <1>6, TotalsAre
  <2> QED
    BY <1>6, <2>1 DEF Summed
<1>9. /\ Totals(p.nverts) \in [Nat -> Nat] /\ Totals(p.nverts)[0] = 0
      /\ \A i \in 1..L : Totals(p.nverts)[i] = Totals(p.nverts)[i - 1] + p.nverts[i]
      /\ \A i, j \in 0..L : i <= j => Totals(p.nverts)[i] <= Totals(p.nverts)[j]
  <2>1. Summed(p.nverts)
    BY <1>1, TotalsAre
  <2>2. L = Len(p.nverts)
    BY DEF L
  <2> QED
    BY <2>1, <2>2 DEF Summed
<1>10. \A i \in 1..L : p.nverts[i] \in Nat
  BY <1>1 DEF L
<1>11. Totals(D)[N] <= L
  BY <1>1 DEF L
<1>12. \A i \in 0..Totals(D)[N] : Totals(p.nverts)[i] <= p.n
  <2> DEFINE W == Totals(p.nverts)  M == Totals(D)[N]
  <2>0. M \in Nat /\ M <= L /\ W[M] <= p.n
    BY <1>1, <1>2, <1>7, <1>11
  <2>1. W \in [Nat -> Nat] /\ \A i, j \in 0..L : i <= j => W[i] <= W[j]
    BY <1>9
  <2> HIDE DEF W, M
  <2> SUFFICES ASSUME NEW i \in 0..M PROVE W[i] <= p.n
    BY DEF W, M
  <2>2. i \in Nat /\ i \in 0..L /\ M \in 0..L /\ i <= M
    BY <1>2, <2>0
  <2>3. W[i] <= W[M] /\ W[i] \in Nat /\ W[M] \in Nat /\ p.n \in Nat
    BY <1>1, <2>1, <2>2
  <2> QED
    BY <2>0, <2>3
<1> QED
  BY <1>1, <1>2, <1>4, <1>5, <1>6, <1>7, <1>8, <1>9, <1>10, <1>11, <1>12 DEF Lists, D, O, N, L

\* Fewer loops are drawn than there are, and as many while none is left out.
LEMMA LoopsLeftOut ==
    ASSUME NEW p \in PolyPrims
    PROVE  \A i \in 0..NPolys(p) :
             /\ Totals(Drawn(p))[i] <= Totals(Loops(p))[i]
             /\ (\A k \in 1..i : NLoops(p, k) = Loops(p)[k]) => Totals(Drawn(p))[i] = Totals(Loops(p))[i]
<1> DEFINE N == NPolys(p)  T == Totals(Drawn(p))  S == Totals(Loops(p))
           Q(i) == T[i] <= S[i] /\ ((\A k \in 1..i : NLoops(p, k) = Loops(p)[k]) => T[i] = S[i])
           R == {i \in Nat : i <= N => Q(i)}
<1>1. /\ N \in Nat /\ T \in [Nat -> Nat] /\ T[0] = 0 /\ S \in [Nat -> Nat] /\ S[0] = 0
      /\ \A i \in 1..N : /\ NLoops(p, i) \in 0..1 /\ T[i] = T[i - 1] + NLoops(p, i)
                         /\ Loops(p)[i] \in Nat /\ S[i] = S[i - 1] + Loops(p)[i]
                         /\ NLoops(p, i) <= Loops(p)[i]
  BY ListsOf DEF Lists
<1> HIDE DEF N, T, S
<1>2. 0 \in R
  BY <1>1
<1>3. ASSUME NEW i \in Nat, i \in R PROVE i + 1 \in R
  <2> SUFFICES ASSUME i + 1 <= N PROVE Q(i + 1)
    OBVIOUS
  <2>1. Q(i) /\ i + 1 \in 1..N /\ (i + 1) - 1 = i
    BY <1>1, <1>3
  <2>2. T[i + 1] = T[i] + NLoops(p, i + 1) /\ S[i + 1] = S[i] + Loops(p)[i + 1]
        /\ NLoops(p, i + 1) \in 0..1 /\ Loops(p)[i + 1] \in Nat /\ NLoops(p, i + 1) <= Loops(p)[i + 1]
        /\ T[i] \in Nat /\ S[i] \in Nat
    BY <1>1, <2>1
  <2>3. T[i + 1] <= S[i + 1]
    BY <2>1, <2>2
  <2>4. ASSUME \A k \in 1..(i + 1) : NLoops(p, k) = Loops(p)[k] PROVE T[i + 1] = S[i + 1]
    <3>1. \A k \in 1..i : NLoops(p, k) = Loops(p)[k]
      BY <2>4
    <3>2. NLoops(p, i + 1) = Loops(p)[i + 1]
      BY <2>4
    <3> QED
      BY <2>1, <2>2, <3>1, <3>2
  <2> QED
    BY <2>3, <2>4
<1>4. \A i \in Nat : i \in R
  <2> HIDE DEF R
  <2> QED
    BY <1>2, <1>3, SetInduction
<1> QED
  BY <1>1, <1>4 DEF N, T, S

----------------------------------------------------------------------------
(* The invariant of polygons.                                              *)

LoopsInv ==
    /\ gphase \in {"loops", "fan", "done"} /\ gpoly \in 1..(NPolys(gprim) + 1)
    /\ gloop = Totals(Drawn(gprim))[gpoly - 1] + (IF gphase = "fan" THEN 1 ELSE 0)
    /\ gfirst = Totals(gprim.nverts)[IF gphase = "fan" THEN gloop - 1 ELSE gloop]
    /\ gphase = "fan" => gpoly <= NPolys(gprim) /\ NLoops(gprim, gpoly) = 1
    /\ gdrawn \in Seq([poly : Nat, loop : Nat]) /\ Len(gdrawn) = gloop
    /\ \A i \in 1..gloop :
          /\ gdrawn[i].loop = i /\ gdrawn[i].poly \in 1..NPolys(gprim)
          /\ Totals(Drawn(gprim))[gdrawn[i].poly - 1] = i - 1

Patches(p) == [loop : Nat, pts : [1..4 -> SUBSET (0..(p.n - 1))]]

FansInv ==
    /\ gout \in Seq(Patches(gprim)) /\ \A i \in DOMAIN gout : gout[i].loop <= gloop
    /\ gphase = "fan" =>
          /\ gstart \in Nat \ {0} /\ gend = FanEnd(gstart, NVerts - 1)
          /\ IF NVerts < 3 THEN gstart = 1 ELSE gstart <= NVerts - 1
          /\ Fan(gout, gloop, gfirst, gstart)
    /\ \A l \in 1..gloop : (l < gloop \/ gphase # "fan") =>
          Covered(gout, l, Totals(gprim.nverts)[l - 1], gprim.nverts[l])

LEMMA LoopFacts ==
    ASSUME gprim \in PolyPrims, LoopsInv
    PROVE  /\ Lists(gprim) /\ gloop \in 0..Len(gprim.nverts) /\ gfirst \in Nat /\ gfirst <= gprim.n
           /\ gphase = "fan" => /\ gloop >= 1 /\ NVerts \in Nat
                                /\ gfirst + NVerts = Totals(gprim.nverts)[gloop] /\ gfirst + NVerts <= gprim.n
                                /\ gloop = Totals(Drawn(gprim))[gpoly]
<1> DEFINE N == NPolys(gprim)  L == Len(gprim.nverts)  T == Totals(Drawn(gprim))  V == Totals(gprim.nverts)
           M == T[N]
<1>0. Lists(gprim)
  BY ListsOf
<1>1. /\ N \in Nat /\ L \in Nat /\ gprim.n \in Nat
      /\ T \in [Nat -> Nat] /\ M \in Nat /\ M <= L /\ \A i \in 0..N : T[i] <= M
      /\ \A i \in 1..N : T[i] = T[i - 1] + NLoops(gprim, i)
      /\ V \in [Nat -> Nat] /\ \A i \in 0..M : V[i] <= gprim.n
      /\ \A i \in 1..L : gprim.nverts[i] \in Nat /\ V[i] = V[i - 1] + gprim.nverts[i]
  <2>1. N \in Nat /\ T \in [Nat -> Nat]
    BY <1>0 DEF Lists
  <2>2. M \in Nat
    <3> HIDE DEF N, T
    <3> QED
      BY <2>1
  <2> QED
    BY <1>0, <2>2 DEF Lists
<1>2. /\ gphase \in {"loops", "fan", "done"} /\ gpoly \in 1..(N + 1)
      /\ gloop = T[gpoly - 1] + (IF gphase = "fan" THEN 1 ELSE 0)
      /\ gfirst = V[IF gphase = "fan" THEN gloop - 1 ELSE gloop]
      /\ gphase = "fan" => gpoly <= N /\ NLoops(gprim, gpoly) = 1
  BY DEF LoopsInv
<1> HIDE DEF N, L, T, V, M
<1>3. gpoly - 1 \in 0..N /\ T[gpoly - 1] \in Nat /\ T[gpoly - 1] <= M
  BY <1>1, <1>2
<1>4. CASE gphase = "fan"
  <2>1. gpoly \in 1..N /\ gpoly \in 0..N
    BY <1>1, <1>2, <1>4
  <2>2. gloop = T[gpoly] /\ gloop = T[gpoly - 1] + 1
    BY <1>1, <1>2, <1>4, <2>1
  <2>3. gloop \in 1..M /\ gloop \in 1..L
    <3>1. T[gpoly] <= M /\ M \in Nat /\ L \in Nat /\ M <= L /\ T[gpoly - 1] \in Nat
      BY <1>1, <1>3, <2>1
    <3> QED
      BY <2>2, <3>1
  <2>4. gfirst = V[gloop - 1] /\ gloop - 1 \in 0..M /\ gloop \in 0..M
    BY <1>1, <1>2, <1>4, <2>3
  <2>5. NVerts = gprim.nverts[gloop] /\ NVerts \in Nat /\ V[gloop] = V[gloop - 1] + NVerts
    BY <1>1, <2>3 DEF NVerts
  <2>6. V[gloop] <= gprim.n /\ V[gloop - 1] <= gprim.n /\ V[gloop - 1] \in Nat
    BY <1>1, <2>4
  <2> QED
    BY <1>0, <2>2, <2>3, <2>4, <2>5, <2>6 DEF L, T, V
<1>5. CASE gphase # "fan"
  <2>1. gloop \in 0..M /\ gloop \in 0..L /\ gfirst = V[gloop]
    BY <1>1, <1>2, <1>3, <1>5
  <2>2. gfirst \in Nat /\ gfirst <= gprim.n
    BY <1>1, <2>1
  <2> QED
    BY <1>0, <1>5, <2>1, <2>2 DEF L
<1> QED
  BY <1>4, <1>5

LEMMA FanBegins ==
    ASSUME NEW P, NEW out \in Seq(P), NEW l, NEW f, OfLoop(out, l) = {}
    PROVE  Fan(out, l, f, 1)
<1>1. \A h : Having(out, l, h) = 0
  BY HavingIs
<1> QED
  BY <1>1 DEF Fan

LEMMA FanEnds ==
    ASSUME NEW out, NEW l, NEW f, NEW s \in Nat, NEW n \in Nat, Fan(out, l, f, s),
           IF n < 3 THEN s = 1 ELSE s = n - 1
    PROVE  Covered(out, l, f, n)
<1>1. CASE n < 3
  BY <1>1 DEF Fan, Covered
<1>2. CASE ~(n < 3)
  <2>1. s = n - 1 /\ s >= 2
    BY <1>2
  <2> QED
    BY <1>2, <2>1 DEF Fan, Covered
<1> QED
  BY <1>1, <1>2

LEMMA OtherLoops ==
    ASSUME NEW P, NEW out \in Seq(P), NEW x \in P, NEW l, x.loop # l, NEW f, NEW n, Covered(out, l, f, n)
    PROVE  Covered(Append(out, x), l, f, n)
<1>1. \A h : Counted(out, x, l, h)
  BY OneMore
<1>2. OfLoop(Append(out, x), l) = OfLoop(out, l) /\ \A h : Having(Append(out, x), l, h) = Having(out, l, h)
  BY <1>1 DEF Counted
<1> QED
  BY <1>2 DEF Covered

LEMMA TakeLoopStep ==
    ASSUME gprim \in PolyPrims, LoopsInv, FansInv, TakeLoop
    PROVE  LoopsInv' /\ FansInv'
<1> DEFINE N == NPolys(gprim)  L == Len(gprim.nverts)  T == Totals(Drawn(gprim))  V == Totals(gprim.nverts)
<1>0. Lists(gprim) /\ gloop \in 0..L /\ gfirst \in Nat
  BY LoopFacts
<1>1. /\ N \in Nat /\ L \in Nat /\ T \in [Nat -> Nat] /\ \A i \in 0..N : T[i] <= L
      /\ \A i \in 1..N : T[i] = T[i - 1] + NLoops(gprim, i)
      /\ V \in [Nat -> Nat] /\ \A i \in 1..L : gprim.nverts[i] \in Nat
  <2>1. /\ N \in Nat /\ L \in Nat /\ T \in [Nat -> Nat] /\ T[N] <= L /\ \A i \in 0..N : T[i] <= T[N]
    BY <1>0 DEF Lists
  <2>2. \A i \in 0..N : T[i] <= L
    <3> HIDE DEF N, L, T
    <3>1. \A i \in 0..N : T[i] \in Nat /\ T[N] \in Nat
      BY <2>1
    <3> QED
      BY <2>1, <3>1
  <2> QED
    BY <1>0, <2>2 DEF Lists
<1>2. /\ gphase = "loops" /\ gpoly <= N /\ NLoops(gprim, gpoly) = 1 /\ gprim' = gprim /\ gpoly' = gpoly
      /\ gfirst' = gfirst /\ gout' = gout /\ gloop' = gloop + 1 /\ gstart' = 1
      /\ gend' = FanEnd(1, gprim.nverts[gloop + 1] - 1) /\ gphase' = "fan"
      /\ gdrawn' = Append(gdrawn, [poly |-> gpoly, loop |-> gloop + 1])
  BY DEF TakeLoop
<1>3. /\ gpoly \in 1..N /\ gloop = T[gpoly - 1] /\ gfirst = V[gloop]
      /\ gdrawn \in Seq([poly : Nat, loop : Nat]) /\ Len(gdrawn) = gloop
      /\ \A i \in 1..gloop : /\ gdrawn[i].loop = i /\ gdrawn[i].poly \in 1..N
                             /\ T[gdrawn[i].poly - 1] = i - 1
  <2>1. /\ gpoly \in 1..(N + 1) /\ gloop = T[gpoly - 1] + 0 /\ gfirst = V[gloop]
        /\ gdrawn \in Seq([poly : Nat, loop : Nat]) /\ Len(gdrawn) = gloop
        /\ \A i \in 1..gloop : /\ gdrawn[i].loop = i /\ gdrawn[i].poly \in 1..N
                               /\ T[gdrawn[i].poly - 1] = i - 1
    <3>1. /\ gloop = T[gpoly - 1] + 0 /\ gfirst = V[gloop]
      BY <1>2 DEF LoopsInv
    <3>2. /\ gpoly \in 1..(N + 1) /\ gdrawn \in Seq([poly : Nat, loop : Nat]) /\ Len(gdrawn) = gloop
          /\ \A i \in 1..gloop : /\ gdrawn[i].loop = i /\ gdrawn[i].poly \in 1..N
                                 /\ T[gdrawn[i].poly - 1] = i - 1
      BY Zenon DEF LoopsInv
    <3> QED
      BY <3>1, <3>2
  <2>2. gpoly \in 1..N /\ gpoly - 1 \in Nat
    <3> HIDE DEF N, T, V
    <3>1. N \in Nat /\ gpoly <= N /\ gpoly \in 1..(N + 1)
      BY <1>1, <1>2, <2>1
    <3> QED
      BY <3>1
  <2>3. T[gpoly - 1] + 0 = T[gpoly - 1]
    BY <1>1, <2>2
  <2> QED
    BY <2>1, <2>2, <2>3
<1>4. /\ gout \in Seq(Patches(gprim)) /\ \A i \in DOMAIN gout : gout[i].loop <= gloop
      /\ \A l \in 1..gloop : Covered(gout, l, V[l - 1], gprim.nverts[l])
  BY <1>2 DEF FansInv
<1> HIDE DEF N, L, T, V
<1>5. gloop + 1 \in 1..L
  <2>1. T[gpoly] = T[gpoly - 1] + 1 /\ gpoly \in 0..N /\ T[gpoly] <= L
    BY <1>1, <1>2, <1>3
  <2> QED
    BY <1>0, <1>1, <1>3, <2>1
<1>6. LoopsInv'
  <2> DEFINE x == [poly |-> gpoly, loop |-> gloop + 1]
  <2>1. x \in [poly : Nat, loop : Nat] /\ x.loop = gloop + 1 /\ x.poly = gpoly
    <3>1. gpoly \in Nat /\ gloop + 1 \in Nat
      <4>1. L \in Nat /\ N \in Nat /\ gpoly \in 1..N /\ gloop \in 0..L
        BY <1>0, <1>1, <1>3
      <4> QED
        BY <4>1
    <3> QED
      BY <3>1
  <2> HIDE DEF x
  <2>2. /\ gdrawn' \in Seq([poly : Nat, loop : Nat]) /\ Len(gdrawn') = gloop + 1
        /\ gdrawn'[gloop + 1] = x /\ \A i \in 1..gloop : gdrawn'[i] = gdrawn[i]
    BY <1>2, <1>3, <2>1 DEF x
  <2>3. ASSUME NEW i \in 1..(gloop + 1)
        PROVE  gdrawn'[i].loop = i /\ gdrawn'[i].poly \in 1..N /\ T[gdrawn'[i].poly - 1] = i - 1
    <3>1. CASE i = gloop + 1
      BY <1>0, <1>3, <2>1, <2>2, <3>1
    <3>2. CASE i # gloop + 1
      <4>1. i \in 1..gloop
        BY <1>0, <3>2
      <4> QED
        BY <1>3, <2>2, <4>1
    <3> QED
      BY <3>1, <3>2
  <2>4. (gloop + 1) - 1 = gloop /\ gpoly \in 1..(N + 1)
    BY <1>0, <1>1, <1>3
  <2> QED
    BY <1>2, <1>3, <2>2, <2>3, <2>4 DEF LoopsInv, N, T, V
<1>7. FansInv'
  <2>1. \A i \in DOMAIN gout : gout[i].loop \in Nat
    <3>1. \A x \in Patches(gprim) : x.loop \in Nat
      BY DEF Patches
    <3>2. \A i \in DOMAIN gout : gout[i] \in Patches(gprim)
      BY <1>4
    <3> QED
      BY <3>1, <3>2
  <2>2. OfLoop(gout, gloop + 1) = {}
    BY <1>0, <1>4, <2>1 DEF OfLoop
  <2>3. Fan(gout, gloop + 1, gfirst, 1)
    BY <1>4, <2>2, FanBegins
  <2>4. NVerts' = gprim.nverts[gloop + 1] /\ NVerts' \in Nat
    BY <1>1, <1>2, <1>5 DEF NVerts
  <2>5. \A i \in DOMAIN gout : gout[i].loop <= gloop + 1
    BY <1>0, <1>4, <2>1
  <2>6. \A l \in 1..(gloop + 1) : l < gloop + 1 => l \in 1..gloop
    BY <1>0
  <2>7. IF NVerts' < 3 THEN gstart' = 1 ELSE gstart' <= NVerts' - 1
    BY <1>2, <2>4
  <2>8. gstart' \in Nat \ {0} /\ gend' = FanEnd(gstart', NVerts' - 1)
    BY <1>2, <2>4
  <2>9. \A l \in 1..gloop' : (l < gloop' \/ gphase' # "fan") => Covered(gout', l, V[l - 1], gprim.nverts[l])
    BY <1>2, <1>4, <2>6
  <2> QED
    BY <1>2, <1>4, <2>3, <2>5, <2>7, <2>8, <2>9 DEF FansInv, V, FanEnd
<1> QED
  BY <1>6, <1>7

LEMMA NoLoopStep ==
    ASSUME gprim \in PolyPrims, LoopsInv, FansInv, NoLoop \/ NoPolyLeft
    PROVE  LoopsInv' /\ FansInv'
<1> DEFINE N == NPolys(gprim)  T == Totals(Drawn(gprim))  V == Totals(gprim.nverts)
<1>0. /\ N \in Nat /\ T \in [Nat -> Nat]
      /\ \A i \in 1..N : T[i] = T[i - 1] + NLoops(gprim, i)
  BY LoopFacts DEF Lists
<1>1. /\ gphase = "loops" /\ gprim' = gprim /\ gloop' = gloop /\ gfirst' = gfirst /\ gout' = gout
      /\ gdrawn' = gdrawn /\ gphase' \in {"loops", "done"}
      /\ \/ gpoly <= N /\ NLoops(gprim, gpoly) = 0 /\ gpoly' = gpoly + 1
         \/ gpoly' = gpoly
  BY DEF NoLoop, NoPolyLeft, LoopVars
<1>2. gpoly \in 1..(N + 1) /\ gloop = T[gpoly - 1] + 0
  BY <1>1 DEF LoopsInv
<1>3. gpoly' \in 1..(N + 1) /\ gloop = T[gpoly' - 1] + 0
  <2> HIDE DEF N, T
  <2>1. CASE gpoly <= N /\ NLoops(gprim, gpoly) = 0 /\ gpoly' = gpoly + 1
    <3>1. gpoly \in 1..N /\ gpoly' - 1 = gpoly /\ gpoly - 1 \in Nat
      BY <1>0, <1>2, <2>1
    <3>2. T[gpoly] = T[gpoly - 1] + 0
      BY <1>0, <2>1, <3>1
    <3>3. T[gpoly] = T[gpoly] + 0
      BY <1>0, <3>1
    <3> QED
      BY <1>0, <1>2, <2>1, <3>1, <3>2, <3>3
  <2> QED
    BY <1>1, <1>2, <2>1
<1>4. LoopsInv'
  BY <1>1, <1>3 DEF LoopsInv
<1>5. FansInv'
  BY <1>1 DEF FansInv
<1> QED
  BY <1>4, <1>5

\* Points of the fan, and patches of them.
LEMMA FanPoints ==
    ASSUME gprim \in PolyPrims, LoopsInv, gphase = "fan", NEW k \in Nat, k < NVerts
    PROVE  gfirst + k \in 0..(gprim.n - 1)
<1>1. gfirst \in Nat /\ NVerts \in Nat /\ gfirst + NVerts <= gprim.n /\ gprim.n \in Nat
  BY LoopFacts DEF Lists
<1> QED
  BY <1>1

LEMMA FourPoints ==
    ASSUME NEW T, NEW a \in T, NEW b \in T, NEW c \in T, NEW d \in T
    PROVE  <<a, b, c, d>> \in [1..4 -> T]
OBVIOUS

LEMMA LoopAppend ==
    ASSUME NEW P, NEW out \in Seq(P), NEW x \in P, NEW l, \A i \in DOMAIN out : out[i].loop <= l, x.loop <= l
    PROVE  Append(out, x) \in Seq(P) /\ \A i \in DOMAIN Append(out, x) : Append(out, x)[i].loop <= l
<1> DEFINE o == Append(out, x)
<1>1. o \in Seq(P) /\ DOMAIN o = DOMAIN out \cup {Len(out) + 1}
      /\ o[Len(out) + 1] = x /\ \A i \in DOMAIN out : o[i] = out[i]
  OBVIOUS
<1> HIDE DEF o
<1>2. \A i \in DOMAIN o : o[i].loop <= l
  BY <1>1
<1> QED
  BY <1>1, <1>2 DEF o

LEMMA FansAppend ==
    ASSUME FansInv, gphase = "fan", NEW x \in Patches(gprim), x.loop = gloop, gloop \in Nat
    PROVE  /\ Append(gout, x) \in Seq(Patches(gprim))
           /\ \A i \in DOMAIN Append(gout, x) : Append(gout, x)[i].loop <= gloop
           /\ \A l \in 1..(gloop - 1) :
                 Covered(gout, l, Totals(gprim.nverts)[l - 1], gprim.nverts[l]) =>
                 Covered(Append(gout, x), l, Totals(gprim.nverts)[l - 1], gprim.nverts[l])
<1>1. gout \in Seq(Patches(gprim)) /\ \A i \in DOMAIN gout : gout[i].loop <= gloop
  BY DEF FansInv
<1>2. /\ Append(gout, x) \in Seq(Patches(gprim))
      /\ \A i \in DOMAIN Append(gout, x) : Append(gout, x)[i].loop <= gloop
  BY <1>1, LoopAppend
<1>3. ASSUME NEW l \in 1..(gloop - 1) PROVE x.loop # l
  OBVIOUS
<1> QED
  BY <1>1, <1>2, <1>3, OtherLoops

LEMMA QuadStep ==
    ASSUME gprim \in PolyPrims, LoopsInv, FansInv, Quad
    PROVE  LoopsInv' /\ FansInv'
<1> DEFINE V == Totals(gprim.nverts)
           s == gstart
           f == gfirst
           pts == <<{f + 0}, {f + s}, {f + (s + 2)}, {f + (s + 1)}>>
           x == [loop |-> gloop, pts |-> pts]
<1>1. /\ gphase = "fan" /\ gend - s = 2 /\ s' = gend /\ gend' = FanEnd(gend, NVerts - 1)
      /\ gprim' = gprim /\ gphase' = gphase /\ gpoly' = gpoly /\ gloop' = gloop /\ f' = f
      /\ gdrawn' = gdrawn
      /\ gout' = Append(gout, [loop |-> gloop, pts |-> <<Vertex(0), Vertex(s), Vertex(gend), Vertex(s + 1)>>])
  BY DEF Quad
<1>2. gloop \in Nat /\ f \in Nat /\ NVerts \in Nat
  BY <1>1, LoopFacts DEF Lists
<1>3. s \in Nat \ {0} /\ gend = FanEnd(s, NVerts - 1) /\ Fan(gout, gloop, f, s)
      /\ gout \in Seq(Patches(gprim))
      /\ \A l \in 1..gloop : l < gloop => Covered(gout, l, V[l - 1], gprim.nverts[l])
  BY <1>1 DEF FansInv
<1>4. gend = s + 2 /\ s + 2 <= NVerts - 1
  <2>1. gend = IF s + 2 < NVerts - 1 THEN s + 2 ELSE NVerts - 1
    BY <1>3, Zenon DEF FanEnd, Least
  <2>2. gend - s = 2 /\ s \in Nat /\ NVerts \in Nat
    BY <1>1, <1>2, <1>3
  <2> HIDE DEF s
  <2> QED
    BY <2>1, <2>2
<1>5. gout' = Append(gout, x)
  BY <1>1, <1>4 DEF Vertex
<1>6. x \in Patches(gprim)
  <2>1. /\ f + 0 \in 0..(gprim.n - 1) /\ f + s \in 0..(gprim.n - 1)
        /\ f + (s + 2) \in 0..(gprim.n - 1) /\ f + (s + 1) \in 0..(gprim.n - 1)
    <3>1. /\ 0 \in Nat /\ s \in Nat /\ s + 1 \in Nat /\ s + 2 \in Nat
          /\ 0 < NVerts /\ s < NVerts /\ s + 1 < NVerts /\ s + 2 < NVerts
      BY <1>2, <1>3, <1>4
    <3> HIDE DEF f
    <3>2. \A k \in Nat : k < NVerts => gfirst + k \in 0..(gprim.n - 1)
      BY <1>1, FanPoints
    <3> QED
      BY <3>1, <3>2 DEF f
  <2>2. pts \in [1..4 -> SUBSET (0..(gprim.n - 1))]
    BY <2>1, FourPoints
  <2> HIDE DEF pts
  <2> QED
    BY <1>2, <2>2 DEF Patches
<1>7. x.loop = gloop /\ x.pts = pts
  OBVIOUS
<1> HIDE DEF x
<1>8. Fan(Append(gout, x), gloop, f, s + 2)
  BY <1>2, <1>3, <1>6, <1>7, FanQuad
<1>9. NVerts' = NVerts
  BY <1>1 DEF NVerts
<1>10. LoopsInv'
  BY <1>1 DEF LoopsInv
<1>11. IF NVerts < 3 THEN s' = 1 ELSE s' <= NVerts - 1
  BY <1>1, <1>2, <1>3, <1>4
<1>12. /\ gout' \in Seq(Patches(gprim)) /\ \A i \in DOMAIN gout' : gout'[i].loop <= gloop
       /\ \A l \in 1..gloop : l < gloop => Covered(gout', l, V[l - 1], gprim.nverts[l])
  <2>1. \A l \in 1..gloop : l < gloop => l \in 1..(gloop - 1)
    BY <1>2
  <2> QED
    BY <1>1, <1>2, <1>3, <1>5, <1>6, <1>7, <2>1, FansAppend
<1>13. s' \in Nat \ {0} /\ s' = s + 2
  BY <1>1, <1>3, <1>4
<1>14. FansInv'
  BY <1>1, <1>5, <1>8, <1>9, <1>11, <1>12, <1>13 DEF FansInv
<1> QED
  BY <1>10, <1>14

\* The next polygon begins where the loop ends.
LEMMA NextPolyStep ==
    ASSUME gprim \in PolyPrims, LoopsInv, gphase = "fan", NextPoly,
           UNCHANGED <<gprim, gloop, gdrawn>>,
           gout' \in Seq(Patches(gprim)), \A i \in DOMAIN gout' : gout'[i].loop <= gloop,
           \A l \in 1..(gloop - 1) : Covered(gout', l, Totals(gprim.nverts)[l - 1], gprim.nverts[l]),
           Covered(gout', gloop, gfirst, NVerts)
    PROVE  LoopsInv' /\ FansInv'
<1> DEFINE N == NPolys(gprim)  T == Totals(Drawn(gprim))  V == Totals(gprim.nverts)
<1>0. N \in Nat /\ T \in [Nat -> Nat]
  BY LoopFacts DEF Lists
<1>1. gloop \in Nat /\ gloop >= 1 /\ gfirst + NVerts = V[gloop] /\ gloop = T[gpoly]
  BY LoopFacts DEF Lists
<1>2. gphase' = "loops" /\ gpoly' = gpoly + 1 /\ gfirst' = gfirst + NVerts
      /\ gprim' = gprim /\ gloop' = gloop /\ gdrawn' = gdrawn
  BY DEF NextPoly
<1>3. gpoly \in 1..(N + 1) /\ gpoly <= N /\ gfirst = V[gloop - 1]
  BY DEF LoopsInv
<1>4. gpoly' \in 1..(N + 1) /\ gloop = T[gpoly' - 1] + 0
  <2> HIDE DEF N, T
  <2>1. gpoly' - 1 = gpoly /\ gpoly \in Nat
    BY <1>0, <1>2, <1>3
  <2>2. gpoly' \in 1..(N + 1)
    BY <1>0, <1>2, <1>3
  <2>3. T[gpoly] \in Nat /\ gloop = T[gpoly' - 1]
    BY <1>0, <1>1, <2>1
  <2>4. gloop = gloop + 0
    BY <1>1
  <2> QED
    BY <2>2, <2>3, <2>4
<1>5. LoopsInv'
  BY <1>1, <1>2, <1>4 DEF LoopsInv
<1>6. ASSUME NEW l \in 1..gloop PROVE Covered(gout', l, V[l - 1], gprim.nverts[l])
  <2>1. CASE l = gloop
    BY <1>3, <2>1 DEF NVerts
  <2>2. CASE l # gloop
    <3>1. l \in 1..(gloop - 1)
      BY <1>1, <2>2
    <3> QED
      BY <3>1
  <2> QED
    BY <2>1, <2>2
<1>7. FansInv'
  BY <1>2, <1>6 DEF FansInv
<1> QED
  BY <1>5, <1>7

LEMMA FanOverStep ==
    ASSUME gprim \in PolyPrims, LoopsInv, FansInv, FanOver
    PROVE  LoopsInv' /\ FansInv'
<1>1. gphase = "fan" /\ gend - gstart \notin {1, 2} /\ NextPoly /\ UNCHANGED <<gprim, gloop, gdrawn>>
      /\ gout' = gout
  BY DEF FanOver
<1>2. gloop \in Nat /\ NVerts \in Nat
  BY <1>1, LoopFacts DEF Lists
<1>3. /\ gstart \in Nat \ {0} /\ gend = FanEnd(gstart, NVerts - 1)
      /\ IF NVerts < 3 THEN gstart = 1 ELSE gstart <= NVerts - 1
      /\ Fan(gout, gloop, gfirst, gstart)
      /\ gout \in Seq(Patches(gprim)) /\ \A i \in DOMAIN gout : gout[i].loop <= gloop
      /\ \A l \in 1..gloop : l < gloop =>
            Covered(gout, l, Totals(gprim.nverts)[l - 1], gprim.nverts[l])
  BY <1>1 DEF FansInv
<1>4. IF NVerts < 3 THEN gstart = 1 ELSE gstart = NVerts - 1
  BY <1>1, <1>2, <1>3 DEF FanEnd, Least
<1>5. Covered(gout, gloop, gfirst, NVerts)
  BY <1>2, <1>3, <1>4, FanEnds
<1>6. \A l \in 1..(gloop - 1) : l \in 1..gloop /\ l < gloop
  BY <1>2
<1> QED
  BY <1>1, <1>3, <1>5, <1>6, NextPolyStep

LEMMA TriangleStep ==
    ASSUME gprim \in PolyPrims, LoopsInv, FansInv, Triangle
    PROVE  LoopsInv' /\ FansInv'
<1> DEFINE V == Totals(gprim.nverts)
           s == gstart
           f == gfirst
           a == f + 0
           b == f + s
           d == f + (s + 1)
           S == SUBSET (0..(gprim.n - 1))
           t == simplifyAddTriangle(Vertex(0), Vertex(gstart), Vertex(gend))
           x1 == [loop |-> gloop, pts |-> Corner(a, b, d)]
           x2 == [loop |-> gloop, pts |-> Corner(b, a, d)]
           x3 == [loop |-> gloop, pts |-> Corner(d, b, a)]
           o1 == Append(gout, x1)
           o2 == Append(o1, x2)
           o3 == Append(o2, x3)
<1>1. /\ gphase = "fan" /\ gend - s = 1 /\ NextPoly /\ UNCHANGED <<gprim, gloop, gdrawn>>
      /\ gout' = gout \o [i \in 1..3 |-> [loop |-> gloop, pts |-> t[i]]]
  BY DEF Triangle
<1>2. gloop \in Nat /\ f \in Nat /\ NVerts \in Nat
  BY <1>1, LoopFacts DEF Lists
<1>3. /\ s \in Nat \ {0} /\ gend = FanEnd(s, NVerts - 1) /\ Fan(gout, gloop, f, s)
      /\ gout \in Seq(Patches(gprim)) /\ \A i \in DOMAIN gout : gout[i].loop <= gloop
      /\ \A l \in 1..gloop : l < gloop => Covered(gout, l, V[l - 1], gprim.nverts[l])
  BY <1>1 DEF FansInv
<1>4. gend = s + 1 /\ s + 2 = NVerts
  BY <1>1, <1>2, <1>3 DEF FanEnd, Least
<1>5. t[1] = Corner(a, b, d) /\ t[2] = Corner(b, a, d) /\ t[3] = Corner(d, b, a)
  <2>1. /\ {a} \cup {b} = {a, b} /\ {b} \cup {d} = {b, d} /\ {a} \cup {d} = {a, d}
        /\ {a} \cup {b} \cup {d} = {a, b, d}
    BY Zenon
  <2>2. t = << <<{a}, {a, b}, {a, d}, {a, b, d}>>, <<{b}, {a, b}, {b, d}, {a, b, d}>>,
               <<{d}, {b, d}, {a, d}, {a, b, d}>> >>
    BY <1>4, <2>1 DEF simplifyAddTriangle, Vertex
  <2>3. /\ {b, a} = {a, b} /\ {b, a, d} = {a, b, d} /\ {d, b} = {b, d} /\ {d, a} = {a, d}
        /\ {d, b, a} = {a, b, d}
    BY Zenon
  <2> HIDE DEF t, a, b, d
  <2> QED
    BY <2>2, <2>3 DEF Corner
<1> HIDE DEF t
<1>6. x1 \in Patches(gprim) /\ x2 \in Patches(gprim) /\ x3 \in Patches(gprim)
  <2>1. a \in 0..(gprim.n - 1) /\ b \in 0..(gprim.n - 1) /\ d \in 0..(gprim.n - 1)
    <3>1. /\ 0 \in Nat /\ s \in Nat /\ s + 1 \in Nat
          /\ 0 < NVerts /\ s < NVerts /\ s + 1 < NVerts
      BY <1>2, <1>3, <1>4
    <3>2. \A k \in Nat : k < NVerts => gfirst + k \in 0..(gprim.n - 1)
      BY <1>1, FanPoints
    <3> QED
      BY <3>1, <3>2
  <2> HIDE DEF a, b, d
  <2>2. ASSUME NEW u \in {a, b, d}, NEW v \in {a, b, d}, NEW w \in {a, b, d}
        PROVE  Corner(u, v, w) \in [1..4 -> S]
    <3>1. {u} \in S /\ {u, v} \in S /\ {u, w} \in S /\ {u, v, w} \in S
      BY <2>1
    <3> HIDE DEF S
    <3> QED
      BY <3>1, FourPoints DEF Corner
  <2> QED
    BY <1>2, <2>2 DEF Patches
<1>7. /\ x1.loop = gloop /\ x1.pts = Corner(a, b, d) /\ x2.loop = gloop /\ x2.pts = Corner(b, a, d)
      /\ x3.loop = gloop /\ x3.pts = Corner(d, b, a)
  OBVIOUS
<1>8. gout' = o3
  <2>1. [i \in 1..3 |-> [loop |-> gloop, pts |-> t[i]]] = <<x1, x2, x3>>
    <3>1. \A i \in 1..3 : [loop |-> gloop, pts |-> t[i]] = <<x1, x2, x3>>[i]
      <4>1. <<x1, x2, x3>>[1] = x1 /\ <<x1, x2, x3>>[2] = x2 /\ <<x1, x2, x3>>[3] = x3
        <5> HIDE DEF x1, x2, x3
        <5> QED
          OBVIOUS
      <4> HIDE DEF a, b, d
      <4> QED
        BY <1>5, <4>1
    <3> HIDE DEF x1, x2, x3
    <3> QED
      BY <3>1
  <2> HIDE DEF x1, x2, x3
  <2>2. gout \o <<x1, x2, x3>> = Append(Append(Append(gout, x1), x2), x3)
    BY <1>3, <1>6
  <2> QED
    BY <1>1, <2>1, <2>2
<1> HIDE DEF x1, x2, x3, a, b, d, S
<1>9. Covered(o3, gloop, f, s + 2)
  BY <1>2, <1>3, <1>6, <1>7, FanTriangle DEF a, b, d
<1>10. /\ gout' \in Seq(Patches(gprim)) /\ \A i \in DOMAIN gout' : gout'[i].loop <= gloop
  <2>1. o1 \in Seq(Patches(gprim)) /\ \A i \in DOMAIN o1 : o1[i].loop <= gloop
    BY <1>1, <1>2, <1>6, <1>7, FansAppend
  <2>2. o2 \in Seq(Patches(gprim)) /\ \A i \in DOMAIN o2 : o2[i].loop <= gloop
    <3> HIDE DEF o1
    <3> QED
      BY <1>2, <1>6, <1>7, <2>1, LoopAppend
  <2> HIDE DEF o2
  <2> QED
    BY <1>2, <1>6, <1>7, <1>8, <2>2, LoopAppend
<1>11. ASSUME NEW l \in 1..(gloop - 1) PROVE Covered(gout', l, V[l - 1], gprim.nverts[l])
  <2>1. l \in 1..gloop /\ l < gloop /\ x1.loop # l /\ x2.loop # l /\ x3.loop # l
    BY <1>2, <1>7
  <2>2. o1 \in Seq(Patches(gprim)) /\ o2 \in Seq(Patches(gprim))
    BY <1>3, <1>6
  <2> HIDE DEF V
  <2>3. Covered(o1, l, V[l - 1], gprim.nverts[l])
    <3>1. Covered(gout, l, V[l - 1], gprim.nverts[l]) /\ gout \in Seq(Patches(gprim))
      BY <1>3, <2>1
    <3> QED
      BY <1>6, <2>1, <3>1, OtherLoops
  <2> HIDE DEF o1
  <2>4. Covered(o2, l, V[l - 1], gprim.nverts[l])
    BY <1>6, <2>1, <2>2, <2>3, OtherLoops
  <2> HIDE DEF o2
  <2> QED
    BY <1>6, <1>8, <2>1, <2>2, <2>4, OtherLoops
<1> QED
  BY <1>1, <1>4, <1>8, <1>9, <1>10, <1>11, NextPolyStep

----------------------------------------------------------------------------
(* What the invariant says of polygons.                                    *)

LEMMA LoopIsCovered ==
    ASSUME NEW P, gout \in Seq(P), NEW l, NEW f \in Nat, NEW n \in Nat, n >= 3, Covered(gout, l, f, n)
    PROVE  /\ Outline(f, n) \subseteq AllSides(OfLoop(gout, l))
           /\ \A s \in AllSides(OfLoop(gout, l)) :
                 Count(s, OfLoop(gout, l)) = IF s \in Outline(f, n) THEN 1 ELSE 2
<1>1. \A h : /\ Having(gout, l, h) \in 0..2
             /\ Having(gout, l, h) = 1 <=> h \in Outline(f, n)
  <2>1. \A h : h \in Outline(f, n) <=> OnOutline(f, n - 1, h)
    BY OutlineIs
  <2>2. ~(n < 3)
    OBVIOUS
  <2> QED
    BY <2>1, <2>2, Zenon DEF Covered
<1>2. \A h : h \in AllSides(OfLoop(gout, l)) <=> Having(gout, l, h) # 0
  <2>1. \A h : Having(gout, l, h) = 0 <=> \A i \in OfLoop(gout, l) : h \notin Sides(gout[i].pts)
    BY HavingIs
  <2> QED
    BY <2>1, Zenon DEF AllSides
<1>3. \A h : Count(h, OfLoop(gout, l)) = Having(gout, l, h)
  BY DEF Count, Having, With
<1>4. Outline(f, n) \subseteq AllSides(OfLoop(gout, l))
  <2> SUFFICES ASSUME NEW h \in Outline(f, n) PROVE Having(gout, l, h) # 0
    BY <1>2
  <2>1. Having(gout, l, h) = 1
    BY <1>1
  <2> QED
    BY <2>1
<1>5. ASSUME NEW s \in AllSides(OfLoop(gout, l))
      PROVE  Count(s, OfLoop(gout, l)) = IF s \in Outline(f, n) THEN 1 ELSE 2
  <2>1. Having(gout, l, s) \in 0..2 /\ Having(gout, l, s) # 0
    BY <1>1, <1>2
  <2>2. Having(gout, l, s) = 1 \/ Having(gout, l, s) = 2
    BY <2>1
  <2>3. Having(gout, l, s) = 1 <=> s \in Outline(f, n)
    BY <1>1
  <2> QED
    BY <1>3, <2>2, <2>3
<1> QED
  BY <1>4, <1>5

LEMMA PolygonsAreCovered ==
    ASSUME gprim \in PolyPrims, LoopsInv, FansInv
    PROVE  PolygonsCovered
<1> SUFFICES ASSUME gphase = "done", NEW e \in DOMAIN gdrawn
             PROVE  LET d == gdrawn[e]
                        patches == {i \in DOMAIN gout : gout[i].loop = d.loop} IN
                    IF gprim.nverts[d.loop] < 3 THEN patches = {}
                    ELSE /\ OutlineOf(d.loop) \subseteq AllSides(patches)
                         /\ \A s \in AllSides(patches) :
                               Count(s, patches) = IF s \in OutlineOf(d.loop) THEN 1 ELSE 2
  BY DEF PolygonsCovered
<1> DEFINE l == gdrawn[e].loop  f == Totals(gprim.nverts)[l - 1]  n == gprim.nverts[l]
<1>1. l \in 1..gloop
  <2>1. /\ gdrawn \in Seq([poly : Nat, loop : Nat]) /\ Len(gdrawn) = gloop
        /\ \A i \in 1..gloop : gdrawn[i].loop = i
    BY DEF LoopsInv
  <2>2. e \in 1..gloop
    BY <2>1
  <2> QED
    BY <2>1, <2>2
<1>2. Lists(gprim) /\ gloop \in 0..Len(gprim.nverts)
  BY LoopFacts
<1>3. f \in Nat /\ n \in Nat
  <2> HIDE DEF l
  <2>1. /\ Len(gprim.nverts) \in Nat /\ Totals(gprim.nverts) \in [Nat -> Nat]
        /\ \A i \in 1..Len(gprim.nverts) : gprim.nverts[i] \in Nat
    BY <1>2 DEF Lists
  <2>2. l \in 1..Len(gprim.nverts) /\ l - 1 \in Nat
    BY <1>1, <1>2, <2>1
  <2> QED
    BY <2>1, <2>2
<1>4. gout \in Seq(Patches(gprim)) /\ Covered(gout, l, f, n)
  BY <1>1 DEF FansInv
<1>5. {i \in DOMAIN gout : gout[i].loop = l} = OfLoop(gout, l) /\ OutlineOf(l) = Outline(f, n)
  BY DEF OfLoop, OutlineOf
<1> HIDE DEF l, f, n
<1>6. CASE n < 3
  <2>1. OfLoop(gout, l) = {}
    BY <1>4, <1>6 DEF Covered
  <2> QED
    BY <1>5, <1>6, <2>1 DEF l, n
<1>7. CASE ~(n < 3)
  <2>1. n >= 3
    BY <1>3, <1>7
  <2>2. /\ Outline(f, n) \subseteq AllSides(OfLoop(gout, l))
        /\ \A s \in AllSides(OfLoop(gout, l)) :
              Count(s, OfLoop(gout, l)) = IF s \in Outline(f, n) THEN 1 ELSE 2
    BY <1>3, <1>4, <2>1, LoopIsCovered
  <2> QED
    BY <1>5, <1>7, <2>2 DEF l, n
<1> QED
  BY <1>6, <1>7

LEMMA LoopsAreOwn == ASSUME gprim \in PolyPrims, LoopsInv PROVE OwnLoops
<1> DEFINE T == Totals(Drawn(gprim))  S == Totals(Loops(gprim))
<1> SUFFICES ASSUME NEW i \in DOMAIN gdrawn
             PROVE  /\ gdrawn[i].loop <= S[gdrawn[i].poly - 1] + 1
                    /\ (\A k \in 1..(gdrawn[i].poly - 1) : NLoops(gprim, k) = Loops(gprim)[k])
                           => gdrawn[i].loop = S[gdrawn[i].poly - 1] + 1
  BY DEF OwnLoops
<1> DEFINE q == gdrawn[i].poly - 1
<1>1. i \in Nat /\ gdrawn[i].loop = i /\ q \in 0..NPolys(gprim) /\ T[q] = i - 1
  <2>1. /\ gdrawn \in Seq([poly : Nat, loop : Nat]) /\ Len(gdrawn) = gloop
        /\ \A j \in 1..gloop : /\ gdrawn[j].loop = j /\ gdrawn[j].poly \in 1..NPolys(gprim)
                               /\ T[gdrawn[j].poly - 1] = j - 1
    BY DEF LoopsInv
  <2>2. NPolys(gprim) \in Nat
    BY ListsOf DEF Lists
  <2>3. i \in 1..gloop /\ i \in Nat
    BY <2>1
  <2> QED
    BY <2>1, <2>2, <2>3
<1>2. T[q] <= S[q] /\ ((\A k \in 1..q : NLoops(gprim, k) = Loops(gprim)[k]) => T[q] = S[q])
  <2> HIDE DEF q
  <2> QED
    BY <1>1, LoopsLeftOut
<1>3. S[q] \in Nat
  <2>1. S \in [Nat -> Nat]
    BY ListsOf DEF Lists
  <2>2. q \in Nat
    BY <1>1
  <2> HIDE DEF q, S
  <2> QED
    BY <2>1, <2>2
<1> HIDE DEF T, S
<1> QED
  BY <1>1, <1>2, <1>3

LEMMA LoopsAreTyped == ASSUME gprim \in PolyPrims, LoopsInv, FansInv PROVE GTypeOK
<1>1. gphase \in {"loops", "fan", "done"}
  BY DEF LoopsInv
<1>2. /\ Len(gprim.nverts) \in Nat /\ gloop \in 0..Len(gprim.nverts) /\ gfirst <= gprim.n
  BY LoopFacts DEF Lists
<1>3. ASSUME NEW i \in DOMAIN gout PROVE UNION {gout[i].pts[k] : k \in 1..4} \subseteq 0..(gprim.n - 1)
  <2>1. gout[i].pts \in [1..4 -> SUBSET (0..(gprim.n - 1))]
    <3>1. gout \in Seq(Patches(gprim))
      BY DEF FansInv
    <3>2. gout[i] \in Patches(gprim)
      BY <3>1
    <3> QED
      BY <3>2 DEF Patches
  <2> QED
    BY <2>1
<1> QED
  BY <1>1, <1>2, <1>3 DEF GTypeOK

----------------------------------------------------------------------------
(* Meshes: the patches that are listed.                                    *)

At(p, u, v) == {<<u % p.nu, v % p.nv>>}

MeshPts(p, i, j) ==
    IF p.kind = "bilinear" THEN <<At(p, i, j), At(p, i + 1, j), At(p, i, j + 1), At(p, i + 1, j + 1)>>
    ELSE [k \in 1..16 |-> At(p, ((k - 1) % 4) + i * p.us, ((k - 1) \div 4) + j * p.vs)]

\* The patches are those of the cells D, each once.
Lists1(f, out, p, D) ==
    /\ f \in [DOMAIN out -> D] /\ \A k, l \in DOMAIN out : f[k] = f[l] => k = l
    /\ \A c \in D : \E k \in DOMAIN out : f[k] = c
    /\ \A k \in DOMAIN out : out[k].pts = MeshPts(p, f[k][1], f[k][2])

Listed(out, p, D) == \E f : Lists1(f, out, p, D)

LEMMA NoneListed == ASSUME NEW p PROVE Listed(<<>>, p, {})
<1> DEFINE f == [k \in DOMAIN <<>> |-> 0]
<1>1. DOMAIN <<>> = {}
  OBVIOUS
<1>2. Lists1(f, <<>>, p, {})
  BY <1>1 DEF Lists1
<1> HIDE DEF f
<1> QED
  BY <1>2 DEF Listed

LEMMA OneListed ==
    ASSUME NEW P, NEW out \in Seq(P), NEW x \in P, NEW p, NEW D, NEW c, c \notin D,
           Listed(out, p, D), x.pts = MeshPts(p, c[1], c[2])
    PROVE  Listed(Append(out, x), p, D \cup {c})
<1> DEFINE o == Append(out, x)
           n == Len(out) + 1
<1>1. /\ DOMAIN o = DOMAIN out \cup {n} /\ n \notin DOMAIN out
      /\ o[n] = x /\ \A k \in DOMAIN out : o[k] = out[k]
  OBVIOUS
<1> HIDE DEF o, n
<1>2. PICK f : Lists1(f, out, p, D)
  BY DEF Listed
<1>3. /\ f \in [DOMAIN out -> D] /\ \A k, l \in DOMAIN out : f[k] = f[l] => k = l
      /\ \A d \in D : \E k \in DOMAIN out : f[k] = d
      /\ \A k \in DOMAIN out : out[k].pts = MeshPts(p, f[k][1], f[k][2])
  BY <1>2 DEF Lists1
<1> DEFINE g == [k \in DOMAIN o |-> IF k = n THEN c ELSE f[k]]
<1>4. g[n] = c /\ \A k \in DOMAIN out : g[k] = f[k] /\ f[k] \in D /\ f[k] # c
  BY <1>1, <1>3
<1>5. g \in [DOMAIN o -> D \cup {c}]
  BY <1>1, <1>3
<1> HIDE DEF g
<1>6. ASSUME NEW k \in DOMAIN o, NEW l \in DOMAIN o, g[k] = g[l] PROVE k = l
  <2>1. CASE k = n /\ l = n
    BY <2>1
  <2>2. CASE k = n /\ l # n
    BY <1>1, <1>4, <1>6, <2>2
  <2>3. CASE k # n /\ l = n
    BY <1>1, <1>4, <1>6, <2>3
  <2>4. CASE k # n /\ l # n
    BY <1>1, <1>3, <1>4, <1>6, <2>4
  <2> QED
    BY <2>1, <2>2, <2>3, <2>4
<1>7. \A d \in D \cup {c} : \E k \in DOMAIN o : g[k] = d
  BY <1>1, <1>3, <1>4
<1>8. ASSUME NEW k \in DOMAIN o PROVE o[k].pts = MeshPts(p, g[k][1], g[k][2])
  <2>1. CASE k = n
    BY <1>1, <1>4, <2>1
  <2>2. CASE k # n
    <3>1. k \in DOMAIN out
      BY <1>1, <2>2
    <3> QED
      BY <1>1, <1>3, <1>4, <3>1
  <2> QED
    BY <2>1, <2>2
<1>9. Lists1(g, o, p, D \cup {c})
  BY <1>5, <1>6, <1>7, <1>8 DEF Lists1
<1> QED
  BY <1>9 DEF Listed, o

----------------------------------------------------------------------------
(* The invariant of meshes.                                                *)

Cells == (0..(NU - 1)) \X (0..(NV - 1))
Rows(i, j) == {c \in Cells : c[1] < i \/ (c[1] = i /\ c[2] < j)}
Columns(i, j) == {c \in Cells : c[2] < j \/ (c[2] = j /\ c[1] < i)}
Hulls == {[loop |-> 0, pts |-> MeshPts(gprim, c[1], c[2])] : c \in Int \X Int}

\* The meshes that have a patch.
Regular == ~BadSteps /\ NU \in Nat \ {0} /\ NV \in Nat \ {0}

ByRows ==
    /\ gi \in 0..NU /\ gj \in 0..(NV - 1) /\ (gi = NU => gj = 0) /\ (gphase = "done" => gi = NU)
    /\ Len(gout) = gi * NV + gj /\ Listed(gout, gprim, Rows(gi, gj))

ByColumns ==
    /\ gi \in 0..(NU - 1) /\ gj \in 0..NV /\ (gj = NV => gi = 0) /\ (gphase = "done" => gj = NV)
    /\ Listed(gout, gprim, Columns(gi, gj))

MeshInv ==
    /\ gphase \in {"mesh", "done", "threw"}
    /\ (gphase = "threw" => BadSteps) /\ (gphase = "done" => ~BadSteps)
    /\ Regular => /\ gout \in Seq(Hulls)
                  /\ IF gprim.kind = "bilinear" THEN ByRows ELSE ByColumns

LEMMA MeshInit == ASSUME gprim \in MeshPrims, GInit PROVE MeshInv
<1>1. gprim.kind \in {"bilinear", "bicubic"}
  BY PrimAssumption
<1>2. gphase = "mesh" /\ gi = 0 /\ gj = 0 /\ gout = <<>>
  BY <1>1 DEF GInit, Polys
<1>3. ASSUME Regular PROVE MeshInv
  <2>1. NU \in Nat \ {0} /\ NV \in Nat \ {0}
    BY <1>3 DEF Regular
  <2> HIDE DEF NU, NV
  <2>2. \A c \in Cells : c[1] \in 0..(NU - 1) /\ c[2] \in 0..(NV - 1)
    BY DEF Cells
  <2>3. Rows(0, 0) = {} /\ Columns(0, 0) = {}
    BY <2>1, <2>2 DEF Rows, Columns
  <2>4. Listed(gout, gprim, Rows(gi, gj)) /\ Listed(gout, gprim, Columns(gi, gj))
    BY <1>2, <2>3, NoneListed
  <2>5. gout \in Seq(Hulls) /\ Len(gout) = 0
    BY <1>2
  <2>6. /\ 0 * NV + 0 = 0 /\ 0 \in 0..NU /\ 0 \in 0..(NV - 1)
        /\ 0 \in 0..(NU - 1) /\ 0 \in 0..NV /\ 0 # NU /\ 0 # NV
    BY <2>1
  <2> QED
    BY <1>2, <2>4, <2>5, <2>6 DEF MeshInv, ByRows, ByColumns
<1> QED
  BY <1>2, <1>3 DEF MeshInv

LEMMA NextOf ==
    ASSUME NEW n \in Nat \ {0}, NEW x \in 0..(n - 1)
    PROVE  (x + 1) % n = IF x + 1 = n THEN 0 ELSE x + 1
<1>1. CASE x + 1 = n
  <2>1. n % n = 0
    BY Remainder
  <2> QED
    BY <1>1, <2>1
<1>2. CASE x + 1 # n
  <2>1. x + 1 \in 0..(n - 1)
    BY <1>2
  <2>2. (x + 1) % n = x + 1
    BY <2>1, Remainder
  <2> QED
    BY <1>2, <2>2
<1> QED
  BY <1>1, <1>2

LEMMA RowStep ==
    ASSUME gprim \in MeshPrims, gprim.kind = "bilinear", Regular, ByRows, gout \in Seq(Hulls), MeshPatch
    PROVE  ByRows' /\ gout' \in Seq(Hulls)
<1> DEFINE x == [loop |-> 0, pts |-> MeshPts(gprim, gi, gj)]
           c == <<gi, gj>>
<1>1. /\ gi < NU /\ gj < NV /\ gj' = (gj + 1) % NV /\ gi' = (IF gj + 1 = NV THEN gi + 1 ELSE gi)
      /\ gprim' = gprim /\ gphase' = gphase /\ gphase = "mesh"
      /\ gout' = Append(gout, [loop |-> 0, pts |-> BilinearHull])
  BY DEF MeshPatch
<1>2. NU' = NU /\ NV' = NV
  BY <1>1 DEF NU, NV
<1>3. /\ NU \in Nat \ {0} /\ NV \in Nat \ {0} /\ gi \in 0..NU /\ gj \in 0..(NV - 1)
      /\ Len(gout) = gi * NV + gj /\ Listed(gout, gprim, Rows(gi, gj))
  BY DEF Regular, ByRows
<1>4. gout' = Append(gout, x)
  BY <1>1 DEF MeshPts, At, BilinearHull, Hull
<1>5. x \in Hulls
  <2>1. c \in Int \X Int /\ c[1] = gi /\ c[2] = gj
    BY <1>3
  <2> HIDE DEF c
  <2> QED
    BY <2>1 DEF Hulls
<1>6. gj' = IF gj + 1 = NV THEN 0 ELSE gj + 1
  <2> HIDE DEF NU, NV
  <2> QED
    BY <1>1, <1>3, NextOf
<1> HIDE DEF NU, NV, x
<1>7. gi' \in 0..NU /\ gj' \in 0..(NV - 1) /\ (gi' = NU => gj' = 0)
  BY <1>1, <1>3, <1>6
<1>8. c \in Cells /\ c \notin Rows(gi, gj) /\ Rows(gi', gj') = Rows(gi, gj) \cup {c}
  <2>1. c \in Cells /\ c[1] = gi /\ c[2] = gj
    BY <1>1, <1>3 DEF Cells
  <2>2. c \notin Rows(gi, gj)
    BY <1>3, <2>1 DEF Rows
  <2>3. \A d \in Cells : d[1] \in 0..(NU - 1) /\ d[2] \in 0..(NV - 1) /\ (d = c <=> d[1] = gi /\ d[2] = gj)
    BY DEF Cells
  <2>4. ASSUME NEW d \in Cells
        PROVE  (d[1] < gi' \/ (d[1] = gi' /\ d[2] < gj')) <=> (d[1] < gi \/ (d[1] = gi /\ d[2] < gj)) \/ d = c
    <3> HIDE DEF c
    <3>1. /\ d[1] \in 0..(NU - 1) /\ d[2] \in 0..(NV - 1) /\ (d = c <=> d[1] = gi /\ d[2] = gj)
      BY <2>3
    <3>2. gi \in Nat /\ gj \in Nat /\ NU \in Nat /\ NV \in Nat
      BY <1>3
    <3>3. CASE gj + 1 = NV
      <4>1. gi' = gi + 1 /\ gj' = 0
        BY <1>1, <1>6, <3>3
      <4> QED
        BY <3>1, <3>2, <3>3, <4>1
    <3>4. CASE gj + 1 # NV
      <4>1. gi' = gi /\ gj' = gj + 1
        BY <1>1, <1>6, <3>4
      <4> QED
        BY <3>1, <3>2, <4>1
    <3> QED
      BY <3>3, <3>4
  <2> HIDE DEF c
  <2>5. \A d : d \in Rows(gi', gj') <=> d \in Rows(gi, gj) \/ d = c
    BY <2>1, <2>4 DEF Rows
  <2> QED
    BY <2>1, <2>2, <2>5
<1>9. Listed(gout', gprim, Rows(gi', gj'))
  <2>1. x.pts = MeshPts(gprim, c[1], c[2])
    BY DEF x
  <2> HIDE DEF c
  <2> QED
    BY <1>3, <1>4, <1>5, <1>8, <2>1, OneListed
<1>10. Len(gout') = gi' * NV + gj'
  <2>1. Len(gout') = gi * NV + gj + 1
    BY <1>3, <1>4, <1>5
  <2>2. CASE gj + 1 = NV
    <3>1. gi' = gi + 1 /\ gj' = 0
      BY <1>1, <1>6, <2>2
    <3>2. \A m, k \in Nat : (m + 1) * k = m * k + k /\ m * k \in Nat
      OBVIOUS
    <3>3. gi \in Nat /\ gj \in Nat /\ NV \in Nat
      BY <1>3
    <3>4. (gi + 1) * NV = gi * NV + NV /\ gi * NV \in Nat
      BY <3>2, <3>3
    <3> DEFINE q == gi * NV
    <3> HIDE DEF q
    <3>5. Len(gout') = q + gj + 1 /\ gi' * NV + gj' = q + NV + 0 /\ q \in Nat
      BY <2>1, <3>1, <3>4 DEF q
    <3> QED
      BY <2>2, <3>3, <3>5
  <2>3. CASE gj + 1 # NV
    BY <1>1, <1>3, <1>6, <2>1, <2>3
  <2> QED
    BY <2>2, <2>3
<1>11. (Rows(gi, gj))' = Rows(gi', gj') /\ Hulls' = Hulls
  BY <1>1, <1>2 DEF Rows, Cells, Hulls
<1>12. gout' \in Seq(Hulls)
  BY <1>4, <1>5
<1>13. ByRows'
  BY <1>1, <1>2, <1>7, <1>9, <1>10, <1>11 DEF ByRows
<1> QED
  BY <1>12, <1>13

LEMMA ColumnStep ==
    ASSUME gprim \in MeshPrims, gprim.kind # "bilinear", Regular, ByColumns, gout \in Seq(Hulls), MeshPatch
    PROVE  ByColumns' /\ gout' \in Seq(Hulls)
<1> DEFINE x == [loop |-> 0, pts |-> MeshPts(gprim, gi, gj)]
           c == <<gi, gj>>
<1>1. /\ gi < NU /\ gj < NV /\ gi' = (gi + 1) % NU /\ gj' = (IF gi + 1 = NU THEN gj + 1 ELSE gj)
      /\ gprim' = gprim /\ gphase' = gphase /\ gphase = "mesh"
      /\ gout' = Append(gout, [loop |-> 0, pts |-> BicubicHull])
  BY DEF MeshPatch
<1>2. NU' = NU /\ NV' = NV
  BY <1>1 DEF NU, NV
<1>3. /\ NU \in Nat \ {0} /\ NV \in Nat \ {0} /\ gi \in 0..(NU - 1) /\ gj \in 0..NV
      /\ Listed(gout, gprim, Columns(gi, gj))
  BY DEF Regular, ByColumns
<1>4. gout' = Append(gout, x)
  BY <1>1 DEF MeshPts, At, BicubicHull, Hull
<1>5. x \in Hulls
  <2>1. c \in Int \X Int /\ c[1] = gi /\ c[2] = gj
    BY <1>3
  <2> HIDE DEF c
  <2> QED
    BY <2>1 DEF Hulls
<1>6. gi' = IF gi + 1 = NU THEN 0 ELSE gi + 1
  <2> HIDE DEF NU, NV
  <2> QED
    BY <1>1, <1>3, NextOf
<1> HIDE DEF NU, NV, x
<1>7. gj' \in 0..NV /\ gi' \in 0..(NU - 1) /\ (gj' = NV => gi' = 0)
  BY <1>1, <1>3, <1>6
<1>8. c \in Cells /\ c \notin Columns(gi, gj) /\ Columns(gi', gj') = Columns(gi, gj) \cup {c}
  <2>1. c \in Cells /\ c[1] = gi /\ c[2] = gj
    BY <1>1, <1>3 DEF Cells
  <2>2. c \notin Columns(gi, gj)
    BY <1>3, <2>1 DEF Columns
  <2>3. \A d \in Cells : d[1] \in 0..(NU - 1) /\ d[2] \in 0..(NV - 1) /\ (d = c <=> d[1] = gi /\ d[2] = gj)
    BY DEF Cells
  <2>4. ASSUME NEW d \in Cells
        PROVE  (d[2] < gj' \/ (d[2] = gj' /\ d[1] < gi')) <=> (d[2] < gj \/ (d[2] = gj /\ d[1] < gi)) \/ d = c
    <3> HIDE DEF c
    <3>1. /\ d[1] \in 0..(NU - 1) /\ d[2] \in 0..(NV - 1) /\ (d = c <=> d[1] = gi /\ d[2] = gj)
      BY <2>3
    <3>2. gi \in Nat /\ gj \in Nat /\ NU \in Nat /\ NV \in Nat
      BY <1>3
    <3>3. CASE gi + 1 = NU
      <4>1. gj' = gj + 1 /\ gi' = 0
        BY <1>1, <1>6, <3>3
      <4> QED
        BY <3>1, <3>2, <3>3, <4>1
    <3>4. CASE gi + 1 # NU
      <4>1. gj' = gj /\ gi' = gi + 1
        BY <1>1, <1>6, <3>4
      <4> QED
        BY <3>1, <3>2, <4>1
    <3> QED
      BY <3>3, <3>4
  <2> HIDE DEF c
  <2>5. \A d : d \in Columns(gi', gj') <=> d \in Columns(gi, gj) \/ d = c
    BY <2>1, <2>4 DEF Columns
  <2> QED
    BY <2>1, <2>2, <2>5
<1>9. Listed(gout', gprim, Columns(gi', gj'))
  <2>1. x.pts = MeshPts(gprim, c[1], c[2])
    BY DEF x
  <2> HIDE DEF c
  <2> QED
    BY <1>3, <1>4, <1>5, <1>8, <2>1, OneListed
<1>10. (Columns(gi, gj))' = Columns(gi', gj') /\ Hulls' = Hulls
  BY <1>1, <1>2 DEF Columns, Cells, Hulls
<1>11. gout' \in Seq(Hulls)
  BY <1>4, <1>5
<1>12. ByColumns'
  BY <1>1, <1>2, <1>7, <1>9, <1>10 DEF ByColumns
<1> QED
  BY <1>11, <1>12

LEMMA MeshStep ==
    ASSUME gprim \in MeshPrims, MeshInv, [GNext]_gvars
    PROVE  MeshInv' /\ gprim' = gprim
<1>1. /\ gphase \in {"mesh", "done", "threw"}
      /\ (gphase = "threw" => BadSteps) /\ (gphase = "done" => ~BadSteps)
  BY DEF MeshInv
<1>2. CASE MeshPatch
  <2>1. gprim' = gprim /\ gphase' = gphase
    BY <1>2 DEF MeshPatch
  <2>2. Regular' = Regular /\ BadSteps' = BadSteps
    BY <2>1 DEF Regular, BadSteps, NU, NV
  <2>3. CASE gprim.kind = "bilinear"
    <3>1. Regular => ByRows' /\ gout' \in Seq(Hulls)
      BY <1>2, <2>3, RowStep DEF MeshInv
    <3>2. Hulls' = Hulls
      BY <2>1 DEF Hulls
    <3> QED
      BY <1>1, <2>1, <2>2, <2>3, <3>1, <3>2 DEF MeshInv
  <2>4. CASE gprim.kind # "bilinear"
    <3>1. Regular => ByColumns' /\ gout' \in Seq(Hulls)
      BY <1>2, <2>4, ColumnStep DEF MeshInv
    <3>2. Hulls' = Hulls
      BY <2>1 DEF Hulls
    <3> QED
      BY <1>1, <2>1, <2>2, <2>4, <3>1, <3>2 DEF MeshInv
  <2> QED
    BY <2>1, <2>3, <2>4
<1>3. ASSUME UNCHANGED <<gprim, gi, gj, gout>>, gphase' \in {"mesh", "done", "threw"},
             gphase' = "threw" => BadSteps, gphase' = "done" => ~BadSteps,
             gphase' = "done" /\ gphase # "done" => gi >= NU \/ gj >= NV
      PROVE  MeshInv'
  <2>1. /\ Regular' = Regular /\ BadSteps' = BadSteps /\ Hulls' = Hulls /\ NU' = NU /\ NV' = NV
        /\ (Rows(gi, gj))' = Rows(gi, gj) /\ (Columns(gi, gj))' = Columns(gi, gj)
    BY <1>3 DEF Regular, BadSteps, NU, NV, Hulls, Rows, Columns, Cells
  <2>2. ASSUME Regular, ByRows PROVE ByRows'
    <3>1. NU \in Nat /\ NV \in Nat /\ gi \in 0..NU /\ gj \in 0..(NV - 1) /\ (gphase = "done" => gi = NU)
      BY <2>2 DEF Regular, ByRows
    <3> HIDE DEF NU, NV
    <3>2. gphase' = "done" => gi = NU
      BY <1>3, <3>1
    <3> QED
      BY <1>3, <2>1, <2>2, <3>2 DEF ByRows
  <2>3. ASSUME Regular, ByColumns PROVE ByColumns'
    <3>1. NU \in Nat /\ NV \in Nat /\ gi \in 0..(NU - 1) /\ gj \in 0..NV /\ (gphase = "done" => gj = NV)
      BY <2>3 DEF Regular, ByColumns
    <3> HIDE DEF NU, NV
    <3>2. gphase' = "done" => gj = NV
      BY <1>3, <3>1
    <3> QED
      BY <1>3, <2>1, <2>3, <3>2 DEF ByColumns
  <2> QED
    BY <1>3, <2>1, <2>2, <2>3 DEF MeshInv
<1>4. CASE MeshThrows
  BY <1>3, <1>4 DEF MeshThrows
<1>5. CASE MeshOver
  BY <1>3, <1>5 DEF MeshOver
<1>6. CASE UNCHANGED gvars
  <2>1. UNCHANGED <<gprim, gi, gj, gout>> /\ gphase' = gphase
    BY <1>6 DEF gvars
  <2> QED
    BY <1>1, <1>3, <2>1
<1>7. ~(TakeLoop \/ NoLoop \/ NoPolyLeft \/ Quad \/ Triangle \/ FanOver)
  BY <1>1 DEF TakeLoop, NoLoop, NoPolyLeft, Quad, Triangle, FanOver
<1> QED
  <2>1. MeshThrows \/ MeshOver => gprim' = gprim
    BY DEF MeshThrows, MeshOver
  <2>2. UNCHANGED gvars => gprim' = gprim
    BY DEF gvars
  <2> QED
    BY <1>2, <1>4, <1>5, <1>6, <1>7, <2>1, <2>2 DEF GNext

----------------------------------------------------------------------------
(* The sides of a bilinear mesh, one direction at a time: a cell spans the *)
(* line from a to b, and lies beside the line j.                           *)

Along(n, x, a, b) == (a = x /\ b = (x + 1) % n) \/ (a = (x + 1) % n /\ b = x)
Beside(n, j, y) == y = j \/ (y + 1) % n = j

OnAxis(n, per, N) ==
    /\ \A x \in 0..(N - 1) : x \in 0..(n - 1) /\ x % n = x /\ (x + 1) % n \in 0..(n - 1) /\ (x + 1) % n # x
    /\ \A a, b : \A x, y \in 0..(N - 1) : Along(n, x, a, b) /\ Along(n, y, a, b) => x = y
    /\ \A j \in 0..(n - 1) :
          IF ~per /\ j \in {0, n - 1}
          THEN \E y \in 0..(N - 1) : \A z \in 0..(N - 1) : Beside(n, j, z) <=> z = y
          ELSE \E y, w \in 0..(N - 1) : y # w /\ \A z \in 0..(N - 1) : Beside(n, j, z) <=> z = y \/ z = w

LEMMA Axis ==
    ASSUME NEW n \in Nat, NEW per \in BOOLEAN, n >= IF per THEN 3 ELSE 2
    PROVE  OnAxis(n, per, n - 1 + IF per THEN 1 ELSE 0)
<1> DEFINE N == n - 1 + IF per THEN 1 ELSE 0
           succ(x) == IF x + 1 = n THEN 0 ELSE x + 1
<1>1. N \in Nat \ {0} /\ n \in Nat \ {0} /\ (IF per THEN N = n /\ n >= 3 ELSE N = n - 1 /\ n >= 2)
  BY Zenon, SMT
<1>2. \A x \in 0..(N - 1) : x \in 0..(n - 1)
  BY <1>1
<1>3. \A x \in 0..(N - 1) : (x + 1) % n = succ(x) /\ x % n = x
  <2> SUFFICES ASSUME NEW x \in 0..(N - 1) PROVE (x + 1) % n = succ(x) /\ x % n = x
    OBVIOUS
  <2> HIDE DEF N
  <2>1. x \in 0..(n - 1)
    BY <1>2
  <2> QED
    BY <1>1, <2>1, NextOf, Remainder
<1> HIDE DEF N
<1>4. \A x \in 0..(N - 1) : succ(x) \in 0..(n - 1) /\ succ(x) # x
  BY <1>1
<1>5. ASSUME NEW x \in 0..(N - 1), NEW y \in 0..(N - 1), NEW a, NEW b, Along(n, x, a, b), Along(n, y, a, b)
      PROVE  x = y
  <2>1. \/ a = x /\ b = succ(x)
        \/ a = succ(x) /\ b = x
    BY <1>3, <1>5 DEF Along
  <2>2. \/ a = y /\ b = succ(y)
        \/ a = succ(y) /\ b = y
    BY <1>3, <1>5 DEF Along
  <2> QED
    BY <1>1, <2>1, <2>2
<1>6. \A j, z : z \in 0..(N - 1) => (Beside(n, j, z) <=> z = j \/ succ(z) = j)
  BY <1>3 DEF Beside
<1>7. ASSUME NEW j \in 0..(n - 1), ~per, j \in {0, n - 1}
      PROVE  \E y \in 0..(N - 1) : \A z \in 0..(N - 1) : Beside(n, j, z) <=> z = y
  <2> DEFINE y == IF j = 0 THEN 0 ELSE n - 2
  <2>1. y \in 0..(N - 1) /\ \A z \in 0..(N - 1) : (z = j \/ succ(z) = j) <=> z = y
    BY <1>1, <1>7
  <2> HIDE DEF y, succ
  <2> QED
    BY <1>6, <2>1
<1>8. ASSUME NEW j \in 0..(n - 1), ~(~per /\ j \in {0, n - 1})
      PROVE  \E y, w \in 0..(N - 1) : y # w /\ \A z \in 0..(N - 1) : Beside(n, j, z) <=> z = y \/ z = w
  <2> DEFINE w == IF j = 0 THEN n - 1 ELSE j - 1
  <2>1. j \in 0..(N - 1) /\ w \in 0..(N - 1) /\ j # w
    BY <1>1, <1>8
  <2>2. \A z \in 0..(N - 1) : (z = j \/ succ(z) = j) <=> z = j \/ z = w
    BY <1>1, <1>8
  <2> HIDE DEF w, succ
  <2> QED
    BY <1>6, <2>1, <2>2
<1>9. \A a, b : \A x, y \in 0..(N - 1) : Along(n, x, a, b) /\ Along(n, y, a, b) => x = y
  BY <1>5
<1>10. \A x \in 0..(N - 1) :
          x \in 0..(n - 1) /\ x % n = x /\ (x + 1) % n \in 0..(n - 1) /\ (x + 1) % n # x
  <2> HIDE DEF succ
  <2> QED
    BY <1>2, <1>3, <1>4
<1> QED
  BY <1>7, <1>8, <1>9, <1>10 DEF OnAxis, N

\* The cell <<i, j>> has the side from a to b.
HasSide(p, i, j, a, b) ==
    \/ Along(p.nu, i, a[1], b[1]) /\ a[2] = b[2] /\ Beside(p.nv, a[2], j)
    \/ Along(p.nv, j, a[2], b[2]) /\ a[1] = b[1] /\ Beside(p.nu, a[1], i)

LEMMA FourSides ==
    ASSUME NEW a, NEW b, NEW c, NEW d
    PROVE  Sides(<<{a}, {b}, {c}, {d}>>) = Edge(a, b) \cup Edge(b, d) \cup Edge(d, c) \cup Edge(c, a)
BY SideIs DEF Sides

CellHas(p, i, j, s) ==
    s \in Sides(MeshPts(p, i, j)) <=> \E a, b \in Nat \X Nat : s = Half(a, b) /\ HasSide(p, i, j, a, b)

LEMMA CellSides ==
    ASSUME NEW p, p.kind = "bilinear", NEW i \in Nat, NEW j \in Nat, i % p.nu = i, j % p.nv = j,
           (i + 1) % p.nu \in Nat, (j + 1) % p.nv \in Nat, NEW s
    PROVE  CellHas(p, i, j, s)
<1> DEFINE X == (i + 1) % p.nu  Y == (j + 1) % p.nv
           a == <<i, j>>  b == <<X, j>>  c == <<i, Y>>  d == <<X, Y>>
<1>1. MeshPts(p, i, j) = <<{a}, {b}, {c}, {d}>>
  BY DEF MeshPts, At
<1>2. \A g, h : Along(p.nu, i, g, h) <=> (g = i /\ h = X) \/ (g = X /\ h = i)
  BY DEF Along
<1>3. \A g, h : Along(p.nv, j, g, h) <=> (g = j /\ h = Y) \/ (g = Y /\ h = j)
  BY DEF Along
<1>4. \A g : (Beside(p.nu, g, i) <=> g = i \/ g = X) /\ (Beside(p.nv, g, j) <=> g = j \/ g = Y)
  BY DEF Beside
<1>5. X \in Nat /\ Y \in Nat
  OBVIOUS
<1> HIDE DEF X, Y
<1>6. /\ a \in Nat \X Nat /\ b \in Nat \X Nat /\ c \in Nat \X Nat /\ d \in Nat \X Nat
      /\ a[1] = i /\ a[2] = j /\ b[1] = X /\ b[2] = j /\ c[1] = i /\ c[2] = Y /\ d[1] = X /\ d[2] = Y
  BY <1>5
<1>7. /\ HasSide(p, i, j, a, b) /\ HasSide(p, i, j, b, a) /\ HasSide(p, i, j, b, d) /\ HasSide(p, i, j, d, b)
      /\ HasSide(p, i, j, d, c) /\ HasSide(p, i, j, c, d) /\ HasSide(p, i, j, c, a) /\ HasSide(p, i, j, a, c)
  <2> HIDE DEF a, b, c, d
  <2> QED
    BY <1>2, <1>3, <1>4, <1>6 DEF HasSide
<1>8. ASSUME NEW g \in Nat \X Nat, NEW h \in Nat \X Nat, HasSide(p, i, j, g, h)
      PROVE  \/ (g = a /\ h = b) \/ (g = b /\ h = a) \/ (g = b /\ h = d) \/ (g = d /\ h = b)
             \/ (g = d /\ h = c) \/ (g = c /\ h = d) \/ (g = c /\ h = a) \/ (g = a /\ h = c)
  <2>1. g = <<g[1], g[2]>> /\ h = <<h[1], h[2]>>
    OBVIOUS
  <2>2. CASE Along(p.nu, i, g[1], h[1]) /\ g[2] = h[2] /\ Beside(p.nv, g[2], j)
    <3>1. (g[1] = i /\ h[1] = X) \/ (g[1] = X /\ h[1] = i)
      BY <1>2, <2>2
    <3>2. g[2] = h[2] /\ (g[2] = j \/ g[2] = Y)
      BY <1>4, <2>2
    <3> QED
      BY <2>1, <3>1, <3>2
  <2>3. CASE Along(p.nv, j, g[2], h[2]) /\ g[1] = h[1] /\ Beside(p.nu, g[1], i)
    <3>1. (g[2] = j /\ h[2] = Y) \/ (g[2] = Y /\ h[2] = j)
      BY <1>3, <2>3
    <3>2. g[1] = h[1] /\ (g[1] = i \/ g[1] = X)
      BY <1>4, <2>3
    <3> QED
      BY <2>1, <3>1, <3>2
  <2> QED
    BY <1>8, <2>2, <2>3 DEF HasSide
<1> HIDE DEF a, b, c, d
<1>9. s \in Sides(MeshPts(p, i, j)) <=>
        \/ s = Half(a, b) \/ s = Half(b, a) \/ s = Half(b, d) \/ s = Half(d, b)
        \/ s = Half(d, c) \/ s = Half(c, d) \/ s = Half(c, a) \/ s = Half(a, c)
  <2>1. Sides(MeshPts(p, i, j)) = Edge(a, b) \cup Edge(b, d) \cup Edge(d, c) \cup Edge(c, a)
    BY <1>1, FourSides
  <2> QED
    BY <2>1 DEF Edge
<1>10. s \in Sides(MeshPts(p, i, j)) => \E g, h \in Nat \X Nat : s = Half(g, h) /\ HasSide(p, i, j, g, h)
  BY <1>6, <1>7, <1>9, Zenon
<1>11. ASSUME NEW g \in Nat \X Nat, NEW h \in Nat \X Nat, s = Half(g, h), HasSide(p, i, j, g, h)
       PROVE  s \in Sides(MeshPts(p, i, j))
  BY <1>8, <1>9, <1>11, Zenon
<1> QED
  BY <1>10, <1>11, Zenon DEF CellHas

LEMMA SideIsOf ==
    ASSUME NEW p, p.kind = "bilinear", NEW i \in Nat, NEW j \in Nat, i % p.nu = i, j % p.nv = j,
           (i + 1) % p.nu \in Nat, (j + 1) % p.nv \in Nat, (i + 1) % p.nu # i, (j + 1) % p.nv # j,
           NEW a \in Nat \X Nat, NEW b \in Nat \X Nat, a # b
    PROVE  Half(a, b) \in Sides(MeshPts(p, i, j)) <=> HasSide(p, i, j, a, b)
<1>1. CellHas(p, i, j, Half(a, b))
  BY CellSides
<1>2. ASSUME NEW g, NEW h, HasSide(p, i, j, g, h) PROVE g # h
  BY <1>2 DEF HasSide, Along
<1>3. ASSUME NEW g, NEW h, HasSide(p, i, j, g, h), Half(a, b) = Half(g, h) PROVE a = g /\ b = h
  BY <1>2, <1>3, HalfEnds
<1> QED
  BY <1>1, <1>3, Zenon DEF CellHas

LEMMA RimIs ==
    ASSUME NEW a \in Nat \X Nat, NEW b \in Nat \X Nat
    PROVE  OnRim(Half(a, b)) <=>
             \/ ~gprim.up /\ a[1] = b[1] /\ a[1] \in {0, gprim.nu - 1}
             \/ ~gprim.vp /\ a[2] = b[2] /\ a[2] \in {0, gprim.nv - 1}
<1> DEFINE at(k) == {v[k] : v \in UNION Half(a, b)}
<1>1. OnRim(Half(a, b)) <=>
        \/ ~gprim.up /\ (at(1) = {0} \/ at(1) = {gprim.nu - 1})
        \/ ~gprim.vp /\ (at(2) = {0} \/ at(2) = {gprim.nv - 1})
  BY DEF OnRim
<1>2. UNION Half(a, b) = {a, b}
  BY DEF Half
<1>3. at(1) = {a[1], b[1]} /\ at(2) = {a[2], b[2]}
  <2>1. at(1) = {v[1] : v \in {a, b}} /\ at(2) = {v[2] : v \in {a, b}}
    BY <1>2
  <2> HIDE DEF at
  <2> QED
    BY <2>1
<1> HIDE DEF at
<1>4. \A x, y, z : {x, y} = {z} <=> x = z /\ y = z
  OBVIOUS
<1>5. \A z : (at(1) = {z} <=> a[1] = z /\ b[1] = z) /\ (at(2) = {z} <=> a[2] = z /\ b[2] = z)
  BY <1>3, <1>4
<1> QED
  BY <1>1, <1>5

LEMMA BilinearAxes ==
    ASSUME gprim \in MeshPrims, gprim.kind = "bilinear",
           Whole(gprim.nu, gprim.up, 1), Whole(gprim.nv, gprim.vp, 1)
    PROVE  /\ gprim.nu \in Nat \ {0} /\ gprim.nv \in Nat \ {0} /\ Regular
           /\ OnAxis(gprim.nu, gprim.up, NU) /\ OnAxis(gprim.nv, gprim.vp, NV)
<1>1. /\ gprim.nu \in Nat /\ gprim.nv \in Nat /\ gprim.up \in BOOLEAN /\ gprim.vp \in BOOLEAN
  BY PrimAssumption
<1>2. gprim.nu >= (IF gprim.up THEN 3 ELSE 2) /\ gprim.nv >= (IF gprim.vp THEN 3 ELSE 2)
  BY DEF Whole
<1>3. /\ NU = gprim.nu - 1 + IF gprim.up THEN 1 ELSE 0
      /\ NV = gprim.nv - 1 + IF gprim.vp THEN 1 ELSE 0
  BY DEF NU, NV, NPatches
<1>4. OnAxis(gprim.nu, gprim.up, NU) /\ OnAxis(gprim.nv, gprim.vp, NV)
  <2> HIDE DEF NU, NV
  <2>1. \A n \in Nat : \A per \in BOOLEAN :
           n >= (IF per THEN 3 ELSE 2) => OnAxis(n, per, n - 1 + IF per THEN 1 ELSE 0)
    BY Axis
  <2> QED
    BY <1>1, <1>2, <1>3, <2>1
<1>5. gprim.nu \in Nat \ {0} /\ gprim.nv \in Nat \ {0} /\ NU \in Nat \ {0} /\ NV \in Nat \ {0}
  <2> DEFINE m == gprim.nu  n == gprim.nv
  <2> HIDE DEF NU, NV, m, n
  <2>1. /\ m \in Nat /\ n \in Nat /\ m >= 2 /\ n >= 2 /\ (NU = m - 1 \/ NU = m) /\ (NV = n - 1 \/ NV = n)
    <3>1. CASE gprim.up
      <4>1. m >= 2 /\ NU = m
        BY <1>1, <1>2, <1>3, <3>1 DEF m
      <4>2. n >= 2 /\ (NV = n - 1 \/ NV = n)
        BY <1>1, <1>2, <1>3 DEF n
      <4> QED
        BY <1>1, <4>1, <4>2 DEF m, n
    <3>2. CASE ~gprim.up
      <4>1. m >= 2 /\ NU = m - 1
        BY <1>1, <1>2, <1>3, <3>2 DEF m
      <4>2. n >= 2 /\ (NV = n - 1 \/ NV = n)
        BY <1>1, <1>2, <1>3 DEF n
      <4> QED
        BY <1>1, <4>1, <4>2 DEF m, n
    <3> QED
      BY <3>1, <3>2
  <2> QED
    BY <2>1 DEF m, n
<1>6. Regular
  BY <1>5 DEF Regular, BadSteps
<1> QED
  BY <1>4, <1>5, <1>6

In(s, d) == s \in Sides(MeshPts(gprim, d[1], d[2]))

\* A side on the rim is one cell's, every other one is two cells'.
OneOrTwo(s) ==
    IF OnRim(s) THEN \E c \in Cells : \A d \in Cells : In(s, d) <=> d = c
    ELSE \E c, e \in Cells : c # e /\ \A d \in Cells : In(s, d) <=> d = c \/ d = e

LEMMA SideIsOneOrTwo ==
    ASSUME gprim \in MeshPrims, gprim.kind = "bilinear",
           Whole(gprim.nu, gprim.up, 1), Whole(gprim.nv, gprim.vp, 1),
           NEW o \in Cells, NEW s, In(s, o)
    PROVE  OneOrTwo(s)
<1> DEFINE m == gprim.nu  n == gprim.nv
<1>1. /\ m \in Nat \ {0} /\ n \in Nat \ {0} /\ OnAxis(m, gprim.up, NU) /\ OnAxis(n, gprim.vp, NV)
      /\ NU \in Nat \ {0} /\ NV \in Nat \ {0}
  BY BilinearAxes DEF Regular
<1> HIDE DEF m, n, NU, NV
<1>2. \A d \in Cells : d[1] \in 0..(NU - 1) /\ d[2] \in 0..(NV - 1) /\ d = <<d[1], d[2]>>
  BY DEF Cells
<1>3. \A x \in 0..(NU - 1) : x \in 0..(m - 1) /\ x % m = x /\ (x + 1) % m \in 0..(m - 1) /\ (x + 1) % m # x
  BY <1>1 DEF OnAxis
<1>4. \A y \in 0..(NV - 1) : y \in 0..(n - 1) /\ y % n = y /\ (y + 1) % n \in 0..(n - 1) /\ (y + 1) % n # y
  BY <1>1 DEF OnAxis
<1>5. ASSUME NEW d \in Cells
      PROVE  /\ d[1] \in Nat /\ d[2] \in Nat /\ d[1] % m = d[1] /\ d[2] % n = d[2]
             /\ (d[1] + 1) % m \in Nat /\ (d[2] + 1) % n \in Nat
             /\ (d[1] + 1) % m # d[1] /\ (d[2] + 1) % n # d[2]
  <2>1. d[1] \in 0..(NU - 1) /\ d[2] \in 0..(NV - 1)
    BY <1>2
  <2>2. d[1] \in 0..(m - 1) /\ d[1] % m = d[1] /\ (d[1] + 1) % m \in 0..(m - 1) /\ (d[1] + 1) % m # d[1]
    BY <1>3, <2>1
  <2>3. d[2] \in 0..(n - 1) /\ d[2] % n = d[2] /\ (d[2] + 1) % n \in 0..(n - 1) /\ (d[2] + 1) % n # d[2]
    BY <1>4, <2>1
  <2>4. \A z : z \in 0..(m - 1) \/ z \in 0..(n - 1) => z \in Nat
    BY <1>1
  <2> QED
    BY <2>2, <2>3, <2>4
<1>6. PICK a \in Nat \X Nat, b \in Nat \X Nat : s = Half(a, b) /\ HasSide(gprim, o[1], o[2], a, b)
  <2>1. CellHas(gprim, o[1], o[2], s)
    BY <1>5, CellSides DEF m, n
  <2> QED
    BY <2>1, Zenon DEF CellHas, In
<1>7. a # b
  BY <1>5, <1>6 DEF HasSide, Along, m, n
<1>8. \A d \in Cells : In(s, d) <=> HasSide(gprim, d[1], d[2], a, b)
  <2> SUFFICES ASSUME NEW d \in Cells PROVE In(s, d) <=> HasSide(gprim, d[1], d[2], a, b)
    OBVIOUS
  <2>1. Half(a, b) \in Sides(MeshPts(gprim, d[1], d[2])) <=> HasSide(gprim, d[1], d[2], a, b)
    BY <1>5, <1>7, SideIsOf DEF m, n
  <2> QED
    BY <1>6, <2>1 DEF In
<1>9. OnRim(s) <=> \/ ~gprim.up /\ a[1] = b[1] /\ a[1] \in {0, m - 1}
                   \/ ~gprim.vp /\ a[2] = b[2] /\ a[2] \in {0, n - 1}
  BY <1>6, RimIs DEF m, n
<1>10. CASE Along(m, o[1], a[1], b[1]) /\ a[2] = b[2] /\ Beside(n, a[2], o[2])
  <2>1. a[1] # b[1]
    BY <1>5, <1>10 DEF Along
  <2>2. a[2] \in 0..(n - 1)
    BY <1>2, <1>4, <1>10 DEF Beside
  <2>3. \A d \in Cells : In(s, d) <=> d[1] = o[1] /\ Beside(n, a[2], d[2])
    <3>1. \A d \in Cells : Along(m, d[1], a[1], b[1]) <=> d[1] = o[1]
      <4>1. \A x \in 0..(NU - 1) : Along(m, x, a[1], b[1]) => x = o[1]
        BY <1>1, <1>2, <1>10, Zenon DEF OnAxis
      <4> QED
        BY <1>2, <1>10, <4>1
    <3>2. \A d \in Cells : ~Along(n, d[2], a[2], b[2])
      BY <1>5, <1>10 DEF Along
    <3> QED
      BY <1>8, <1>10, <2>1, <3>1, <3>2 DEF HasSide, m, n
  <2>4. OnRim(s) <=> ~gprim.vp /\ a[2] \in {0, n - 1}
    BY <1>9, <1>10, <2>1
  <2>5. \A y \in 0..(NV - 1) : <<o[1], y>> \in Cells
    BY <1>2 DEF Cells
  <2>6. CASE OnRim(s)
    <3>1. PICK y \in 0..(NV - 1) : \A z \in 0..(NV - 1) : Beside(n, a[2], z) <=> z = y
      BY <1>1, <2>2, <2>4, <2>6, Zenon DEF OnAxis
    <3> DEFINE c == <<o[1], y>>
    <3>2. c \in Cells /\ \A d \in Cells : In(s, d) <=> d = c
      <4>1. c \in Cells /\ c[1] = o[1] /\ c[2] = y
        BY <2>5
      <4> HIDE DEF c
      <4> QED
        BY <1>2, <2>3, <3>1, <4>1
    <3> HIDE DEF c
    <3> QED
      BY <2>6, <3>2 DEF OneOrTwo
  <2>7. CASE ~OnRim(s)
    <3>1. PICK y \in 0..(NV - 1), w \in 0..(NV - 1) :
             y # w /\ \A z \in 0..(NV - 1) : Beside(n, a[2], z) <=> z = y \/ z = w
      BY <1>1, <2>2, <2>4, <2>7, Zenon DEF OnAxis
    <3> DEFINE c == <<o[1], y>>  e == <<o[1], w>>
    <3>2. c \in Cells /\ e \in Cells /\ c # e /\ \A d \in Cells : In(s, d) <=> d = c \/ d = e
      <4>1. c \in Cells /\ c[1] = o[1] /\ c[2] = y /\ e \in Cells /\ e[1] = o[1] /\ e[2] = w
        BY <2>5
      <4> HIDE DEF c, e
      <4> QED
        BY <1>2, <2>3, <3>1, <4>1
    <3> HIDE DEF c, e
    <3> QED
      BY <2>7, <3>2 DEF OneOrTwo
  <2> QED
    BY <2>6, <2>7
<1>11. CASE Along(n, o[2], a[2], b[2]) /\ a[1] = b[1] /\ Beside(m, a[1], o[1])
  <2>1. a[2] # b[2]
    BY <1>5, <1>11 DEF Along
  <2>2. a[1] \in 0..(m - 1)
    BY <1>2, <1>3, <1>11 DEF Beside
  <2>3. \A d \in Cells : In(s, d) <=> d[2] = o[2] /\ Beside(m, a[1], d[1])
    <3>1. \A d \in Cells : Along(n, d[2], a[2], b[2]) <=> d[2] = o[2]
      <4>1. \A x \in 0..(NV - 1) : Along(n, x, a[2], b[2]) => x = o[2]
        BY <1>1, <1>2, <1>11, Zenon DEF OnAxis
      <4> QED
        BY <1>2, <1>11, <4>1
    <3>2. \A d \in Cells : ~Along(m, d[1], a[1], b[1])
      BY <1>5, <1>11 DEF Along
    <3> QED
      BY <1>8, <1>11, <2>1, <3>1, <3>2 DEF HasSide, m, n
  <2>4. OnRim(s) <=> ~gprim.up /\ a[1] \in {0, m - 1}
    BY <1>9, <1>11, <2>1
  <2>5. \A x \in 0..(NU - 1) : <<x, o[2]>> \in Cells
    BY <1>2 DEF Cells
  <2>6. CASE OnRim(s)
    <3>1. PICK x \in 0..(NU - 1) : \A z \in 0..(NU - 1) : Beside(m, a[1], z) <=> z = x
      BY <1>1, <2>2, <2>4, <2>6, Zenon DEF OnAxis
    <3> DEFINE c == <<x, o[2]>>
    <3>2. c \in Cells /\ \A d \in Cells : In(s, d) <=> d = c
      <4>1. c \in Cells /\ c[1] = x /\ c[2] = o[2]
        BY <2>5
      <4> HIDE DEF c
      <4> QED
        BY <1>2, <2>3, <3>1, <4>1
    <3> HIDE DEF c
    <3> QED
      BY <2>6, <3>2 DEF OneOrTwo
  <2>7. CASE ~OnRim(s)
    <3>1. PICK x \in 0..(NU - 1), w \in 0..(NU - 1) :
             x # w /\ \A z \in 0..(NU - 1) : Beside(m, a[1], z) <=> z = x \/ z = w
      BY <1>1, <2>2, <2>4, <2>7, Zenon DEF OnAxis
    <3> DEFINE c == <<x, o[2]>>  e == <<w, o[2]>>
    <3>2. c \in Cells /\ e \in Cells /\ c # e /\ \A d \in Cells : In(s, d) <=> d = c \/ d = e
      <4>1. c \in Cells /\ c[1] = x /\ c[2] = o[2] /\ e \in Cells /\ e[1] = w /\ e[2] = o[2]
        BY <2>5
      <4> HIDE DEF c, e
      <4> QED
        BY <1>2, <2>3, <3>1, <4>1
    <3> HIDE DEF c, e
    <3> QED
      BY <2>7, <3>2 DEF OneOrTwo
  <2> QED
    BY <2>6, <2>7
<1> QED
  BY <1>6, <1>10, <1>11 DEF HasSide, m, n

LEMMA CountIs ==
    ASSUME Listed(gout, gprim, Cells), NEW s, OneOrTwo(s)
    PROVE  Count(s, DOMAIN gout) = IF OnRim(s) THEN 1 ELSE 2
<1>1. PICK f : Lists1(f, gout, gprim, Cells)
  BY DEF Listed
<1>2. /\ f \in [DOMAIN gout -> Cells] /\ \A k, l \in DOMAIN gout : f[k] = f[l] => k = l
      /\ \A c \in Cells : \E k \in DOMAIN gout : f[k] = c
      /\ \A k \in DOMAIN gout : gout[k].pts = MeshPts(gprim, f[k][1], f[k][2])
  BY <1>1 DEF Lists1
<1> DEFINE H == {k \in DOMAIN gout : s \in Sides(gout[k].pts)}
<1>3. Count(s, DOMAIN gout) = Cardinality(H)
  BY DEF Count
<1>4. \A k : k \in H <=> k \in DOMAIN gout /\ In(s, f[k])
  BY <1>2 DEF In
<1> HIDE DEF H
<1>5. CASE OnRim(s)
  <2>1. PICK c \in Cells : \A d \in Cells : In(s, d) <=> d = c
    BY <1>5 DEF OneOrTwo
  <2>2. PICK k \in DOMAIN gout : f[k] = c
    BY <1>2
  <2>3. H = {k}
    BY <1>2, <1>4, <2>1, <2>2
  <2> QED
    BY <1>3, <1>5, <2>3, FS_Singleton
<1>6. CASE ~OnRim(s)
  <2>1. PICK c \in Cells, e \in Cells : c # e /\ \A d \in Cells : In(s, d) <=> d = c \/ d = e
    BY <1>6 DEF OneOrTwo
  <2>2. PICK k \in DOMAIN gout : f[k] = c
    BY <1>2
  <2>3. PICK l \in DOMAIN gout : f[l] = e
    BY <1>2
  <2>4. k # l
    BY <2>1, <2>2, <2>3
  <2>5. H = {k} \cup {l}
    BY <1>2, <1>4, <2>1, <2>2, <2>3
  <2>6. IsFiniteSet({k}) /\ Cardinality({k}) = 1
    BY FS_Singleton
  <2>7. Cardinality({k} \cup {l}) = 2
    BY <2>4, <2>6, FS_AddElement
  <2> QED
    BY <1>3, <1>6, <2>5, <2>7
<1> QED
  BY <1>5, <1>6

LEMMA BilinearIsSeamless == ASSUME gprim \in MeshPrims, MeshInv PROVE BilinearSeamless
<1> SUFFICES ASSUME gphase = "done", gprim.kind = "bilinear",
                    Whole(gprim.nu, gprim.up, 1), Whole(gprim.nv, gprim.vp, 1)
             PROVE  /\ Len(gout) = NU * NV
                    /\ \A s \in AllSides(DOMAIN gout) : Count(s, DOMAIN gout) = IF OnRim(s) THEN 1 ELSE 2
  BY DEF BilinearSeamless
<1>1. Regular /\ ByRows
  BY BilinearAxes DEF MeshInv
<1>2. /\ NU \in Nat \ {0} /\ NV \in Nat \ {0} /\ gi = NU /\ gj = 0
      /\ Len(gout) = gi * NV + gj /\ Listed(gout, gprim, Rows(gi, gj))
  BY <1>1 DEF Regular, ByRows
<1> HIDE DEF NU, NV
<1>3. Len(gout) = NU * NV
  <2>1. \A x, y \in Nat : x * y + 0 = x * y
    OBVIOUS
  <2> QED
    BY <1>2, <2>1
<1>4. Rows(gi, gj) = Cells
  <2>1. \A c \in Cells : c[1] \in 0..(NU - 1)
    BY DEF Cells
  <2>2. \A c \in Cells : c[1] < gi
    BY <1>2, <2>1
  <2> QED
    BY <2>2 DEF Rows
<1>5. Listed(gout, gprim, Cells)
  BY <1>2, <1>4
<1>6. ASSUME NEW s \in AllSides(DOMAIN gout) PROVE Count(s, DOMAIN gout) = IF OnRim(s) THEN 1 ELSE 2
  <2>1. PICK f : Lists1(f, gout, gprim, Cells)
    BY <1>5 DEF Listed
  <2>2. PICK k \in DOMAIN gout : s \in Sides(gout[k].pts)
    BY <1>6 DEF AllSides
  <2>3. f[k] \in Cells /\ In(s, f[k])
    BY <2>1, <2>2 DEF Lists1, In
  <2>4. OneOrTwo(s)
    BY <2>3, SideIsOneOrTwo
  <2> QED
    BY <1>5, <2>4, CountIs
<1> QED
  BY <1>3, <1>6

----------------------------------------------------------------------------
(* The hulls of a bicubic mesh, one direction at a time.                   *)

HullsOnAxis(n, st, N) ==
    /\ N \in Nat \ {0}
    /\ \A x \in 0..(N - 1) : x * st \in 0..(n - 1) /\ (x * st) % n = x * st
    /\ \A x, y \in 0..(N - 1) : x * st = y * st => x = y
    /\ \A u \in 0..(n - 1) : \E x \in 0..(N - 1) : \E k \in 0..3 : (k + x * st) % n = u

LEMMA HullsByOne ==
    ASSUME NEW n \in Nat, n >= 4, NEW N \in Nat, N = n \/ N = n - 3
    PROVE  HullsOnAxis(n, 1, N)
<1>1. \A x \in 0..(N - 1) : x * 1 = x /\ x \in 0..(n - 1)
  OBVIOUS
<1>2. \A x \in 0..(n - 1) : x % n = x
  BY Remainder
<1>3. ASSUME NEW u \in 0..(n - 1) PROVE \E x \in 0..(N - 1) : \E k \in 0..3 : k + x * 1 = u
  <2>1. CASE u <= N - 1
    <3>1. u \in 0..(N - 1) /\ 0 \in 0..3 /\ 0 + u * 1 = u
      BY <2>1
    <3> QED
      BY <3>1
  <2>2. CASE u > N - 1
    <3>1. N - 1 \in 0..(N - 1) /\ u - (N - 1) \in 0..3 /\ (u - (N - 1)) + (N - 1) * 1 = u
      BY <2>2
    <3> QED
      BY <3>1
  <2> QED
    BY <2>1, <2>2
<1>4. \A x \in 0..(N - 1) : x * 1 \in 0..(n - 1) /\ (x * 1) % n = x * 1
  BY <1>1, <1>2
<1>5. \A x, y \in 0..(N - 1) : x * 1 = y * 1 => x = y
  BY <1>1
<1>6. ASSUME NEW u \in 0..(n - 1) PROVE \E x \in 0..(N - 1) : \E k \in 0..3 : (k + x * 1) % n = u
  <2>1. PICK x \in 0..(N - 1), k \in 0..3 : k + x * 1 = u
    BY <1>3
  <2>2. (k + x * 1) % n = u
    BY <1>2, <2>1
  <2> QED
    BY <2>2
<1>7. N \in Nat \ {0}
  OBVIOUS
<1> QED
  BY <1>4, <1>5, <1>6, <1>7, Zenon DEF HullsOnAxis

\* m steps, and 0 or 4 points more.
LEMMA HullsBySteps ==
    ASSUME NEW n \in Nat, NEW st \in 2..4, NEW N \in Nat \ {0},
           n = N * st \/ n = (N - 1) * st + 4
    PROVE  HullsOnAxis(n, st, N)
<1>0. st = 2 \/ st = 3 \/ st = 4
  OBVIOUS
<1>1. n \in Nat \ {0} /\ \A x \in 0..(n - 1) : x % n = x
  <2>1. n \in Nat \ {0}
    BY <1>0
  <2> QED
    BY <2>1, Remainder
<1>2. ASSUME NEW x \in 0..(N - 1) PROVE x * st \in 0..(n - 1)
  <2>1. CASE st = 2
    BY <2>1
  <2>2. CASE st = 3
    BY <2>2
  <2>3. CASE st = 4
    BY <2>3
  <2> QED
    BY <1>0, <2>1, <2>2, <2>3
<1>3. ASSUME NEW x \in 0..(N - 1), NEW y \in 0..(N - 1), x * st = y * st PROVE x = y
  <2>1. CASE st = 2
    BY <1>3, <2>1
  <2>2. CASE st = 3
    BY <1>3, <2>2
  <2>3. CASE st = 4
    BY <1>3, <2>3
  <2> QED
    BY <1>0, <2>1, <2>2, <2>3
<1>4. ASSUME NEW u \in 0..(n - 1) PROVE \E x \in 0..(N - 1) : \E k \in 0..3 : k + x * st = u
  <2>1. PICK q \in Nat, r \in 0..3 : u = q * st + r
    <3>1. CASE st = 2
      <4>1. u \div 2 \in Nat /\ u % 2 \in 0..3 /\ u = (u \div 2) * 2 + (u % 2)
        OBVIOUS
      <4> QED
        BY <3>1, <4>1
    <3>2. CASE st = 3
      <4>1. u \div 3 \in Nat /\ u % 3 \in 0..3 /\ u = (u \div 3) * 3 + (u % 3)
        OBVIOUS
      <4> QED
        BY <3>2, <4>1
    <3>3. CASE st = 4
      <4>1. u \div 4 \in Nat /\ u % 4 \in 0..3 /\ u = (u \div 4) * 4 + (u % 4)
        OBVIOUS
      <4> QED
        BY <3>3, <4>1
    <3> QED
      BY <1>0, <3>1, <3>2, <3>3
  <2>2. CASE q <= N - 1
    <3>1. q \in 0..(N - 1) /\ r + q * st = u
      BY <1>0, <2>1, <2>2
    <3> QED
      BY <3>1
  <2>3. CASE q > N - 1
    <3> DEFINE k == u - (N - 1) * st
    <3>1. N - 1 \in 0..(N - 1) /\ k \in 0..3 /\ k + (N - 1) * st = u
      <4>1. CASE st = 2
        BY <2>1, <2>3, <4>1
      <4>2. CASE st = 3
        BY <2>1, <2>3, <4>2
      <4>3. CASE st = 4
        BY <2>1, <2>3, <4>3
      <4> QED
        BY <1>0, <4>1, <4>2, <4>3
    <3> HIDE DEF k
    <3> QED
      BY <3>1
  <2> QED
    BY <2>1, <2>2, <2>3
<1>5. \A x \in 0..(N - 1) : (x * st) % n = x * st
  BY <1>1, <1>2
<1>6. ASSUME NEW u \in 0..(n - 1) PROVE \E x \in 0..(N - 1) : \E k \in 0..3 : (k + x * st) % n = u
  <2>1. PICK x \in 0..(N - 1), k \in 0..3 : k + x * st = u
    BY <1>4
  <2>2. (k + x * st) % n = u
    BY <1>1, <2>1
  <2> QED
    BY <2>2
<1> QED
  BY <1>2, <1>3, <1>5, <1>6, Zenon DEF HullsOnAxis

\* The number of patches in one direction.
LEMMA BicubicAxis ==
    ASSUME NEW n \in Nat, NEW per \in BOOLEAN, NEW st \in 1..4,
           IF per THEN n % st = 0 /\ n >= 4 ELSE n >= 4 /\ (n - 4) % st = 0
    PROVE  HullsOnAxis(n, st, NPatches("bicubic", n, per, st))
<1> DEFINE N == NPatches("bicubic", n, per, st)
<1>1. N = IF per THEN n \div st ELSE (n - 4) \div st + 1
  <2>1. n >= 0 /\ n - 4 >= 0
    OBVIOUS
  <2>2. CASE per
    BY <2>1, <2>2 DEF NPatches, Quotient
  <2>3. CASE ~per
    BY <2>1, <2>3 DEF NPatches, Quotient
  <2> QED
    BY <2>2, <2>3
<1>2. N \in Nat \ {0} /\ (n = N * st \/ n = (N - 1) * st + 4)
  <2> HIDE DEF N
  <2>1. CASE st = 1
    BY <1>1, <2>1
  <2>2. CASE st = 2
    BY <1>1, <2>2
  <2>3. CASE st = 3
    BY <1>1, <2>3
  <2>4. CASE st = 4
    BY <1>1, <2>4
  <2> QED
    BY <2>1, <2>2, <2>3, <2>4
<1> HIDE DEF N
<1>3. CASE st = 1
  <2>1. N = n \/ N = n - 3
    BY <1>2, <1>3
  <2>2. HullsOnAxis(n, 1, N)
    BY <1>2, <2>1, HullsByOne
  <2> QED
    BY <1>3, <2>2 DEF N
<1>4. CASE st # 1
  <2>1. st \in 2..4
    BY <1>4
  <2>2. HullsOnAxis(n, st, N)
    BY <1>2, <2>1, HullsBySteps
  <2> QED
    BY <2>2 DEF N
<1> QED
  BY <1>3, <1>4

LEMMA BicubicIsComplete == ASSUME gprim \in MeshPrims, MeshInv PROVE BicubicComplete
<1> DEFINE m == gprim.nu  n == gprim.nv  s == gprim.us  t == gprim.vs
           Points == UNION UNION {{gout[i].pts[k] : k \in 1..16} : i \in DOMAIN gout}
<1> SUFFICES ASSUME gphase = "done", gprim.kind = "bicubic", gprim.us <= 4, gprim.vs <= 4,
                    Whole(gprim.nu, gprim.up, gprim.us), Whole(gprim.nv, gprim.vp, gprim.vs), ~BadSteps
             PROVE  /\ Points = (0..(m - 1)) \X (0..(n - 1))
                    /\ \A i, j \in DOMAIN gout : gout[i].pts = gout[j].pts => i = j
  BY DEF BicubicComplete, MeshInv
<1>1. /\ m \in Nat /\ n \in Nat /\ gprim.up \in BOOLEAN /\ gprim.vp \in BOOLEAN /\ s \in Int /\ t \in Int
  BY PrimAssumption
<1>2. s \in 1..4 /\ t \in 1..4
  <2>1. s \in 1..16 /\ t \in 1..16
    BY DEF BadSteps
  <2> QED
    BY <2>1
<1>3. /\ IF gprim.up THEN m % s = 0 /\ m >= 4 ELSE m >= 4 /\ (m - 4) % s = 0
      /\ IF gprim.vp THEN n % t = 0 /\ n >= 4 ELSE n >= 4 /\ (n - 4) % t = 0
  BY DEF Whole
<1>4. HullsOnAxis(m, s, NU) /\ HullsOnAxis(n, t, NV)
  <2> HIDE DEF m, n, s, t
  <2>1. HullsOnAxis(m, s, NPatches("bicubic", m, gprim.up, s))
    BY <1>1, <1>2, <1>3, BicubicAxis
  <2>2. HullsOnAxis(n, t, NPatches("bicubic", n, gprim.vp, t))
    BY <1>1, <1>2, <1>3, BicubicAxis
  <2>3. NU = NPatches("bicubic", m, gprim.up, s) /\ NV = NPatches("bicubic", n, gprim.vp, t)
    BY DEF NU, NV, m, n, s, t
  <2> QED
    BY <2>1, <2>2, <2>3
<1>5. NU \in Nat \ {0} /\ NV \in Nat \ {0}
  BY <1>4 DEF HullsOnAxis
<1>6. ByColumns
  BY <1>5 DEF MeshInv, Regular
<1>7. Listed(gout, gprim, Cells)
  <2>1. gi = 0 /\ gj = NV /\ Listed(gout, gprim, Columns(gi, gj))
    BY <1>6 DEF ByColumns
  <2> HIDE DEF NU, NV
  <2>2. \A c \in Cells : c[2] \in 0..(NV - 1)
    BY DEF Cells
  <2>3. \A c \in Cells : c[2] < gj
    BY <1>5, <2>1, <2>2
  <2>4. Columns(gi, gj) = Cells
    BY <2>3 DEF Columns
  <2> QED
    BY <2>1, <2>4
<1>8. PICK f : Lists1(f, gout, gprim, Cells)
  BY <1>7 DEF Listed
<1>9. /\ f \in [DOMAIN gout -> Cells] /\ \A k, l \in DOMAIN gout : f[k] = f[l] => k = l
      /\ \A c \in Cells : \E k \in DOMAIN gout : f[k] = c
      /\ \A k \in DOMAIN gout : gout[k].pts = MeshPts(gprim, f[k][1], f[k][2])
  BY <1>8 DEF Lists1
<1> HIDE DEF NU, NV
<1>10. \A c \in Cells : c[1] \in 0..(NU - 1) /\ c[2] \in 0..(NV - 1) /\ c = <<c[1], c[2]>>
  BY DEF Cells
<1> DEFINE H(x, y) == [k \in 1..16 |-> {<<(((k - 1) % 4) + x * s) % m, (((k - 1) \div 4) + y * t) % n>>}]
<1>11. \A x, y : MeshPts(gprim, x, y) = H(x, y)
  BY DEF MeshPts, At
<1> HIDE DEF m, n, s, t
<1>12. \A x, y : \A k \in 1..16 :
           H(x, y)[k] = {<<(((k - 1) % 4) + x * s) % m, (((k - 1) \div 4) + y * t) % n>>}
  OBVIOUS
<1> HIDE DEF H
<1>13. ASSUME NEW i \in DOMAIN gout, NEW j \in DOMAIN gout, gout[i].pts = gout[j].pts PROVE i = j
  <2>1. \A c \in Cells : MeshPts(gprim, c[1], c[2])[1] = {<<c[1] * s, c[2] * t>>}
    <3> SUFFICES ASSUME NEW c \in Cells PROVE MeshPts(gprim, c[1], c[2])[1] = {<<c[1] * s, c[2] * t>>}
      OBVIOUS
    <3>1. MeshPts(gprim, c[1], c[2])[1] =
            {<<(((1 - 1) % 4) + c[1] * s) % m, (((1 - 1) \div 4) + c[2] * t) % n>>}
      <4>1. 1 \in 1..16
        OBVIOUS
      <4> QED
        BY <1>11, <1>12, <4>1
    <3>2. (1 - 1) % 4 = 0 /\ (1 - 1) \div 4 = 0
      OBVIOUS
    <3>3. c[1] * s \in 0..(m - 1) /\ c[2] * t \in 0..(n - 1)
          /\ (c[1] * s) % m = c[1] * s /\ (c[2] * t) % n = c[2] * t
      BY <1>4, <1>10 DEF HullsOnAxis
    <3> DEFINE p == c[1] * s  q == c[2] * t
    <3> HIDE DEF p, q
    <3>4. 0 + p = p /\ 0 + q = q
      BY <1>1, <3>3 DEF p, q
    <3> QED
      BY <3>1, <3>2, <3>3, <3>4 DEF p, q
  <2>2. f[i] \in Cells /\ f[j] \in Cells
    BY <1>9
  <2>3. {<<f[i][1] * s, f[i][2] * t>>} = {<<f[j][1] * s, f[j][2] * t>>}
    <3>1. gout[i].pts = MeshPts(gprim, f[i][1], f[i][2]) /\ gout[j].pts = MeshPts(gprim, f[j][1], f[j][2])
      BY <1>9
    <3>2. MeshPts(gprim, f[i][1], f[i][2])[1] = MeshPts(gprim, f[j][1], f[j][2])[1]
      BY <1>13, <3>1, Zenon
    <3>3. \A c \in Cells : {<<c[1] * s, c[2] * t>>} = MeshPts(gprim, c[1], c[2])[1]
      BY <2>1
    <3>4. {<<f[i][1] * s, f[i][2] * t>>} = MeshPts(gprim, f[i][1], f[i][2])[1]
      BY <2>2, <3>3, Zenon
    <3>5. {<<f[j][1] * s, f[j][2] * t>>} = MeshPts(gprim, f[j][1], f[j][2])[1]
      BY <2>2, <3>3, Zenon
    <3> QED
      BY <3>2, <3>4, <3>5, Zenon
  <2>4. f[i][1] * s = f[j][1] * s /\ f[i][2] * t = f[j][2] * t
    <3> DEFINE a == f[i][1] * s  b == f[i][2] * t  c == f[j][1] * s  d == f[j][2] * t
    <3> HIDE DEF a, b, c, d
    <3>1. {<<a, b>>} = {<<c, d>>}
      BY <2>3 DEF a, b, c, d
    <3>2. <<a, b>> = <<c, d>>
      BY <3>1, Zenon
    <3>3. a = c /\ b = d
      BY <3>2
    <3> QED
      BY <3>3 DEF a, b, c, d
  <2>5. f[i][1] = f[j][1] /\ f[i][2] = f[j][2]
    BY <1>4, <1>10, <2>2, <2>4 DEF HullsOnAxis
  <2>6. f[i] = f[j]
    BY <1>10, <2>2, <2>5
  <2> QED
    BY <1>9, <2>6
<1>14. \A v : v \in Points <=> \E i \in DOMAIN gout : \E k \in 1..16 : v \in gout[i].pts[k]
  <2> DEFINE Sets == UNION {{gout[i].pts[k] : k \in 1..16} : i \in DOMAIN gout}
  <2>1. \A S : S \in Sets <=> \E i \in DOMAIN gout : \E k \in 1..16 : S = gout[i].pts[k]
    OBVIOUS
  <2>2. \A v : v \in Points <=> \E S \in Sets : v \in S
    BY DEF Points
  <2> HIDE DEF Sets, Points
  <2>3. ASSUME NEW v \in Points PROVE \E i \in DOMAIN gout : \E k \in 1..16 : v \in gout[i].pts[k]
    <3>1. PICK S \in Sets : v \in S
      BY <2>2
    <3>2. PICK i \in DOMAIN gout : \E k \in 1..16 : S = gout[i].pts[k]
      BY <2>1
    <3> QED
      BY <3>1, <3>2
  <2>4. ASSUME NEW v, NEW i \in DOMAIN gout, NEW k \in 1..16, v \in gout[i].pts[k] PROVE v \in Points
    <3>1. gout[i].pts[k] \in Sets
      BY <2>1
    <3> QED
      BY <2>2, <2>4, <3>1
  <2> QED
    BY <2>3, <2>4
<1>15. \A i \in DOMAIN gout : \A k \in 1..16 :
          gout[i].pts[k] = {<<(((k - 1) % 4) + f[i][1] * s) % m, (((k - 1) \div 4) + f[i][2] * t) % n>>}
  <2> SUFFICES ASSUME NEW i \in DOMAIN gout, NEW k \in 1..16
               PROVE  gout[i].pts[k] =
                        {<<(((k - 1) % 4) + f[i][1] * s) % m, (((k - 1) \div 4) + f[i][2] * t) % n>>}
    OBVIOUS
  <2>1. gout[i].pts = MeshPts(gprim, f[i][1], f[i][2])
    BY <1>9
  <2>2. gout[i].pts = H(f[i][1], f[i][2])
    BY <1>11, <2>1
  <2> QED
    BY <1>12, <2>2
<1>16. m \in Nat \ {0} /\ n \in Nat \ {0}
  BY <1>1, <1>3
<1> HIDE DEF Points
<1>17. ASSUME NEW v \in Points PROVE v \in (0..(m - 1)) \X (0..(n - 1))
  <2>1. PICK i \in DOMAIN gout, k \in 1..16 :
          v = <<(((k - 1) % 4) + f[i][1] * s) % m, (((k - 1) \div 4) + f[i][2] * t) % n>>
    BY <1>14, <1>15, <1>17
  <2> DEFINE p == ((k - 1) % 4) + f[i][1] * s  q == ((k - 1) \div 4) + f[i][2] * t
  <2>2. f[i][1] * s \in 0..(m - 1) /\ f[i][2] * t \in 0..(n - 1)
    <3>1. f[i] \in Cells
      BY <1>9
    <3> QED
      BY <1>4, <1>10, <3>1 DEF HullsOnAxis
  <2>3. (k - 1) % 4 \in Nat /\ (k - 1) \div 4 \in Nat
    OBVIOUS
  <2>4. p \in Nat /\ q \in Nat
    BY <1>16, <2>2, <2>3
  <2> HIDE DEF p, q
  <2>5. p % m \in 0..(m - 1) /\ q % n \in 0..(n - 1)
    BY <1>16, <2>4, DivMod
  <2> QED
    BY <2>1, <2>5 DEF p, q
<1>18. ASSUME NEW u \in 0..(m - 1), NEW v \in 0..(n - 1) PROVE <<u, v>> \in Points
  <2>1. PICK x \in 0..(NU - 1) : \E k \in 0..3 : (k + x * s) % m = u
    BY <1>4 DEF HullsOnAxis
  <2>2. PICK a \in 0..3 : (a + x * s) % m = u
    BY <2>1
  <2>3. PICK y \in 0..(NV - 1) : \E k \in 0..3 : (k + y * t) % n = v
    BY <1>4 DEF HullsOnAxis
  <2>4. PICK b \in 0..3 : (b + y * t) % n = v
    BY <2>3
  <2>5. <<x, y>> \in Cells
    BY DEF Cells
  <2>6. PICK i \in DOMAIN gout : f[i] = <<x, y>>
    BY <1>9, <2>5
  <2> DEFINE k == a + 4 * b + 1
  <2>7. k \in 1..16 /\ (k - 1) % 4 = a /\ (k - 1) \div 4 = b
    OBVIOUS
  <2> HIDE DEF k
  <2>8. f[i][1] = x /\ f[i][2] = y
    BY <2>6
  <2>9. gout[i].pts[k] = {<<(a + x * s) % m, (b + y * t) % n>>}
    BY <1>15, <2>7, <2>8
  <2>10. <<u, v>> \in gout[i].pts[k]
    BY <2>2, <2>4, <2>9
  <2> QED
    BY <1>14, <2>7, <2>10
<1>19. Points = (0..(m - 1)) \X (0..(n - 1))
  BY <1>17, <1>18
<1> QED
  BY <1>13, <1>19 DEF m, n

----------------------------------------------------------------------------
(* The theorems.                                                           *)

IInv ==
    \/ gprim \in PolyPrims /\ LoopsInv /\ FansInv
    \/ gprim \in MeshPrims /\ MeshInv

LEMMA PolyInit == ASSUME gprim \in PolyPrims, GInit PROVE LoopsInv /\ FansInv
<1>1. /\ gphase = "loops" /\ gpoly = 1 /\ gloop = 0 /\ gfirst = 0 /\ gout = <<>> /\ gdrawn = <<>>
  BY PrimAssumption DEF GInit
<1>2. /\ NPolys(gprim) \in Nat /\ Totals(Drawn(gprim))[0] = 0 /\ Totals(gprim.nverts)[0] = 0
  BY ListsOf DEF Lists
<1>3. gpoly - 1 = 0 /\ gpoly \in 1..(NPolys(gprim) + 1) /\ 0 + 0 = 0
  BY <1>1, <1>2
<1>4. gdrawn \in Seq([poly : Nat, loop : Nat]) /\ Len(gdrawn) = gloop
  BY <1>1
<1>5. \A i : i \notin 1..gloop
  BY <1>1
<1>6. LoopsInv
  BY <1>1, <1>2, <1>3, <1>4, <1>5 DEF LoopsInv
<1>7. FansInv
  <2>1. gout \in Seq(Patches(gprim)) /\ \A i : i \notin DOMAIN gout
    BY <1>1
  <2> QED
    BY <1>1, <1>5, <2>1 DEF FansInv
<1> QED
  BY <1>6, <1>7

LEMMA PolyStep ==
    ASSUME gprim \in PolyPrims, LoopsInv, FansInv, [GNext]_gvars
    PROVE  LoopsInv' /\ FansInv' /\ gprim' = gprim
<1>1. ~(MeshPatch \/ MeshThrows \/ MeshOver)
  BY DEF LoopsInv, MeshPatch, MeshThrows, MeshOver
<1>2. CASE TakeLoop
  BY <1>2, TakeLoopStep DEF TakeLoop
<1>3. CASE NoLoop \/ NoPolyLeft
  BY <1>3, NoLoopStep DEF NoLoop, NoPolyLeft
<1>4. CASE Quad
  BY <1>4, QuadStep DEF Quad
<1>5. CASE Triangle
  BY <1>5, TriangleStep DEF Triangle
<1>6. CASE FanOver
  BY <1>6, FanOverStep DEF FanOver
<1>7. CASE UNCHANGED gvars
  <2>1. /\ gprim' = gprim /\ gphase' = gphase /\ gpoly' = gpoly /\ gloop' = gloop /\ gfirst' = gfirst
        /\ gstart' = gstart /\ gend' = gend /\ gout' = gout /\ gdrawn' = gdrawn
    BY <1>7 DEF gvars
  <2>2. LoopsInv'
    BY <2>1 DEF LoopsInv
  <2>3. FansInv'
    BY <2>1 DEF FansInv, NVerts
  <2> QED
    BY <2>1, <2>2, <2>3
<1> QED
  BY <1>1, <1>2, <1>3, <1>4, <1>5, <1>6, <1>7 DEF GNext

LEMMA InvCovers == ASSUME IInv PROVE GTypeOK /\ PatchesCover
<1>1. CASE gprim \in PolyPrims /\ LoopsInv /\ FansInv
  <2>1. gprim.kind \in Polys
    BY <1>1, PrimAssumption
  <2>2. BilinearSeamless /\ BicubicComplete
    BY <2>1 DEF Polys, BilinearSeamless, BicubicComplete
  <2>3. GTypeOK
    BY <1>1, LoopsAreTyped
  <2>4. OwnLoops
    BY <1>1, LoopsAreOwn
  <2>5. PolygonsCovered
    BY <1>1, PolygonsAreCovered
  <2> QED
    BY <2>2, <2>3, <2>4, <2>5 DEF PatchesCover
<1>2. CASE gprim \in MeshPrims /\ MeshInv
  <2>1. gprim.kind \notin Polys
    BY <1>2, PrimAssumption DEF Polys
  <2>2. PolygonsCovered /\ OwnLoops
    BY <2>1 DEF PolygonsCovered, OwnLoops
  <2>3. GTypeOK
    BY <1>2, <2>1 DEF GTypeOK, MeshInv
  <2>4. BilinearSeamless
    BY <1>2, BilinearIsSeamless
  <2>5. BicubicComplete
    BY <1>2, BicubicIsComplete
  <2> QED
    BY <2>2, <2>3, <2>4, <2>5 DEF PatchesCover
<1> QED
  BY <1>1, <1>2 DEF IInv

(* The loops taken and the fans left behind by polygons, and the rows or   *)
(* columns of patches of meshes: the invariant that the others follow from.*)
THEOREM PatchInvariance == GSpec => []IInv
<1>1. ASSUME GInit PROVE IInv
  BY <1>1, PolyInit, MeshInit DEF GInit, IInv
<1>2. ASSUME IInv, [GNext]_gvars PROVE IInv'
  <2>1. CASE gprim \in PolyPrims /\ LoopsInv /\ FansInv
    <3>1. LoopsInv' /\ FansInv' /\ gprim' = gprim
      BY <1>2, <2>1, PolyStep
    <3> QED
      BY <2>1, <3>1 DEF IInv
  <2>2. CASE gprim \in MeshPrims /\ MeshInv
    <3>1. MeshInv' /\ gprim' = gprim
      BY <1>2, <2>2, MeshStep
    <3> QED
      BY <2>2, <3>1 DEF IInv
  <2> QED
    BY <1>2, <2>1, <2>2 DEF IInv
<1> QED
  BY <1>1, <1>2, PTL DEF GSpec

(* Simplify reads only within the lists of counts and of vertex indices.   *)
THEOREM PrimTypes == GSpec => []GTypeOK
<1>1. IInv => GTypeOK
  BY InvCovers
<1> QED
  BY <1>1, PatchInvariance, PTL

(* Polygons of any number of vertices and meshes of any size are covered   *)
(* by the patches that Simplify makes of them, without gap or overlap.     *)
THEOREM PatchesAreCovering == GSpec => []PatchesCover
<1>1. IInv => PatchesCover
  BY InvCovers
<1> QED
  BY <1>1, PatchInvariance, PTL

=============================================================================
