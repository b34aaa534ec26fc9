---------------------------- MODULE Hider_proofs ----------------------------
(***************************************************************************)
(* Proofs about Hider, for every resolution, bound, number of primitives   *)
(* and depth of splitting: the reference counts are exact, and what the    *)
(* splitting of a surface makes of it covers it once.                      *)
(***************************************************************************)
EXTENDS Hider, NatInduction, FiniteSetTheorems, TLAPS

----------------------------------------------------------------------------
(* Counting.                                                               *)

LEMMA CountMapped ==
    ASSUME NEW S, IsFiniteSet(S), NEW T, NEW f \in [S -> T],
           \A x, y \in S : f[x] = f[y] => x = y, \A t \in T : \E x \in S : f[x] = t
    PROVE  IsFiniteSet(T) /\ Cardinality(T) = Cardinality(S)
<1>1. ExistsBijection(S, T)
  BY DEF ExistsBijection, Bijection, Injection, IsInjective, Surjection
<1> QED
  BY <1>1, FS_Bijection

\* How often a list has an entry.
At(s, a) == {i \in DOMAIN s : s[i] = a}
Occ(s, a) == Cardinality(At(s, a))

LEMMA AtFinite ==
    ASSUME NEW T, NEW s \in Seq(T), NEW a
    PROVE  IsFiniteSet(At(s, a)) /\ Occ(s, a) \in Nat
<1>1. Len(s) \in Nat /\ DOMAIN s = 1..Len(s)
  OBVIOUS
<1>2. IsFiniteSet(1..Len(s))
  BY <1>1, FS_Interval
<1>3. At(s, a) \in SUBSET (1..Len(s))
  BY <1>1 DEF At
<1>4. IsFiniteSet(At(s, a))
  BY <1>2, <1>3, FS_Subset
<1> QED
  BY <1>4, FS_CardinalityType DEF Occ

LEMMA OccNone ==
    ASSUME NEW T, NEW s \in Seq(T), NEW a
    PROVE  Occ(s, a) = 0 <=> \A i \in DOMAIN s : s[i] # a
<1>1. Occ(s, a) = 0 <=> At(s, a) = {}
  BY AtFinite, FS_EmptySet DEF Occ
<1> QED
  BY <1>1 DEF At

LEMMA OccEmpty == \A a : Occ(<<>>, a) = 0
<1> TAKE a
<1>1. At(<<>>, a) = {}
  BY DEF At
<1> QED
  BY <1>1, FS_EmptySet DEF Occ

LEMMA OccClear ==
    ASSUME NEW T, 0 \in T, NEW s \in Seq(T), NEW i \in DOMAIN s, NEW a, a # 0
    PROVE  /\ [s EXCEPT ![i] = 0] \in Seq(T)
           /\ Occ([s EXCEPT ![i] = 0], a) = IF s[i] = a THEN Occ(s, a) - 1 ELSE Occ(s, a)
<1> DEFINE t == [s EXCEPT ![i] = 0]
<1>1. t \in Seq(T)
  OBVIOUS
<1>2. At(t, a) = At(s, a) \ {i}
  BY DEF At
<1>3. IsFiniteSet(At(s, a))
  BY AtFinite
<1>4. Occ(t, a) = IF i \in At(s, a) THEN Occ(s, a) - 1 ELSE Occ(s, a)
  BY <1>2, <1>3, FS_RemoveElement DEF Occ
<1>5. i \in At(s, a) <=> s[i] = a
  BY DEF At
<1> QED
  BY <1>1, <1>4, <1>5

LEMMA OccCat ==
    ASSUME NEW T, NEW s \in Seq(T), NEW t \in Seq(T), NEW a
    PROVE  Occ(s \o t, a) = Occ(s, a) + Occ(t, a)
<1> DEFINE m == Len(s)
           U == {i \in (m + 1)..(m + Len(t)) : t[i - m] = a}
           f == [i \in At(t, a) |-> i + m]
<1>1. /\ m \in Nat /\ Len(t) \in Nat /\ DOMAIN s = 1..m /\ DOMAIN t = 1..Len(t)
      /\ DOMAIN (s \o t) = 1..(m + Len(t))
      /\ \A i \in 1..(m + Len(t)) : (s \o t)[i] = IF i <= m THEN s[i] ELSE t[i - m]
  OBVIOUS
<1>2. At(s \o t, a) = At(s, a) \cup U
  BY <1>1 DEF At
<1>3. At(s, a) \cap U = {}
  BY <1>1 DEF At
<1>4. IsFiniteSet(At(s, a)) /\ IsFiniteSet(At(t, a)) /\ Occ(s, a) \in Nat
  BY AtFinite
<1>5. IsFiniteSet(U) /\ Cardinality(U) = Occ(t, a)
  <2>1. f \in [At(t, a) -> U]
    BY <1>1 DEF At
  <2>2. \A x, y \in At(t, a) : f[x] = f[y] => x = y
    BY <1>1 DEF At
  <2>3. \A u \in U : \E x \in At(t, a) : f[x] = u
    <3> SUFFICES ASSUME NEW u \in U PROVE \E x \in At(t, a) : f[x] = u
      OBVIOUS
    <3>1. u - m \in At(t, a) /\ f[u - m] = u
      BY <1>1 DEF At
    <3> QED
      BY <3>1
  <2> HIDE DEF f, U
  <2> QED
    BY <1>4, <2>1, <2>2, <2>3, CountMapped DEF Occ
<1>6. Cardinality(At(s, a) \cup U) = Occ(s, a) + Occ(t, a) - Cardinality({})
  BY <1>3, <1>4, <1>5, FS_Union DEF Occ
<1>7. Occ(t, a) \in Nat
  BY AtFinite
<1> QED
  BY <1>2, <1>4, <1>6, <1>7, FS_EmptySet DEF Occ

\* n different elements.
News(A, n, F) == A \in [1..n -> F] /\ \A i, j \in 1..n : A[i] = A[j] => i = j

Hits(A, n, a) == IF \E i \in 1..n : A[i] = a THEN 1 ELSE 0

LEMMA OccNews ==
    ASSUME NEW T, NEW n \in Nat, NEW A, News(A, n, T), NEW a
    PROVE  Occ(A, a) = Hits(A, n, a)
<1>0. A \in [1..n -> T] /\ \A i, j \in 1..n : A[i] = A[j] => i = j
  BY DEF News
<1>1. A \in Seq(T) /\ Len(A) = n /\ DOMAIN A = 1..n
  BY <1>0
<1>2. CASE \E i \in 1..n : A[i] = a
  <2>1. PICK i \in 1..n : A[i] = a
    BY <1>2
  <2>2. At(A, a) = {i}
    BY <1>0, <1>1, <2>1 DEF At
  <2> QED
    BY <1>2, <2>2, FS_Singleton DEF Occ, Hits
<1>3. CASE ~\E i \in 1..n : A[i] = a
  BY <1>1, <1>3, OccNone DEF Hits
<1> QED
  BY <1>2, <1>3

LEMMA Spare ==
    ASSUME NEW S, IsFiniteSet(S), NEW n \in Nat, n <= Cardinality(S)
    PROVE  \E A \in [1..n -> S] : \A i, j \in 1..n : A[i] = A[j] => i = j
<1>1. Cardinality(S) \in Nat /\ ExistsBijection(1..Cardinality(S), S)
  BY FS_CardinalityType
<1>2. PICK f \in [1..Cardinality(S) -> S] :
          \A i, j \in 1..Cardinality(S) : f[i] = f[j] => i = j
  BY <1>1 DEF ExistsBijection, Bijection, Injection, IsInjective
<1> DEFINE A == [i \in 1..n |-> f[i]]
<1>3. A \in [1..n -> S] /\ \A i, j \in 1..n : A[i] = A[j] => i = j
  BY <1>1, <1>2
<1> QED
  BY <1>3

\* How often buckets list a primitive.
Entries(b, a) ==
    UNION {{k} \X {i \in DOMAIN b[k].prims : b[k].prims[i] = a} : k \in DOMAIN b}
Lists(b, a) == Cardinality(Entries(b, a))

IsEntry(b, a, k, i) == k \in DOMAIN b /\ i \in DOMAIN b[k].prims /\ b[k].prims[i] = a

LEMMA EntryIs ==
    ASSUME NEW b, NEW a, NEW x
    PROVE  /\ x \in Entries(b, a) => \E k, i : x = <<k, i>> /\ IsEntry(b, a, k, i)
           /\ \A k, i : x = <<k, i>> => (x \in Entries(b, a) <=> IsEntry(b, a, k, i))
<1> DEFINE E(k) == {i \in DOMAIN b[k].prims : b[k].prims[i] = a}
           S == {{k} \X E(k) : k \in DOMAIN b}
<1>1. Entries(b, a) = UNION S
  BY Zenon DEF Entries
<1>2. x \in UNION S <=> \E k \in DOMAIN b : x \in {k} \X E(k)
  <2>1. \A t : t \in S <=> \E k \in DOMAIN b : t = {k} \X E(k)
    OBVIOUS
  <2>2. x \in UNION S <=> \E t \in S : x \in t
    BY Zenon
  <2> HIDE DEF S, E
  <2>3. ASSUME NEW k \in DOMAIN b, x \in {k} \X E(k) PROVE \E t \in S : x \in t
    BY <2>1, <2>3
  <2> QED
    BY <2>1, <2>2, <2>3
<1>3. \A k : x \in {k} \X E(k) <=> \E i \in E(k) : x = <<k, i>>
  OBVIOUS
<1>4. \A k, i : i \in E(k) <=> i \in DOMAIN b[k].prims /\ b[k].prims[i] = a
  OBVIOUS
<1>5. x \in Entries(b, a) <=> \E k \in DOMAIN b : \E i \in E(k) : x = <<k, i>>
  <2> HIDE DEF S, E
  <2> QED
    BY <1>1, <1>2, <1>3
<1>6. \A k, i, l, j : <<k, i>> = <<l, j>> => k = l /\ i = j
  OBVIOUS
<1> HIDE DEF S, E
<1>7. x \in Entries(b, a) => \E k, i : x = <<k, i>> /\ IsEntry(b, a, k, i)
  BY <1>4, <1>5, Zenon DEF IsEntry
<1>8. ASSUME NEW k, NEW i, x = <<k, i>> PROVE x \in Entries(b, a) <=> IsEntry(b, a, k, i)
  BY <1>4, <1>5, <1>6, <1>8, Zenon DEF IsEntry
<1> QED
  BY <1>7, <1>8

LEMMA EntryPair ==
    ASSUME NEW b, NEW a, NEW x \in Entries(b, a)
    PROVE  \E k, i : x = <<k, i>> /\ IsEntry(b, a, k, i)
BY EntryIs, Zenon

LEMMA EntryOf ==
    ASSUME NEW b, NEW a, NEW k, NEW i
    PROVE  <<k, i>> \in Entries(b, a) <=> IsEntry(b, a, k, i)
<1> DEFINE x == <<k, i>>
<1>1. x = <<k, i>>
  OBVIOUS
<1> HIDE DEF x
<1>2. x \in Entries(b, a) <=> IsEntry(b, a, k, i)
  BY <1>1, EntryIs, Zenon
<1> QED
  BY <1>1, <1>2, Zenon

LEMMA SameEntries ==
    ASSUME NEW b, NEW c, NEW a, NEW U, \A x \in U : \E k, i : x = <<k, i>>,
           \A k, i : IsEntry(c, a, k, i) <=> IsEntry(b, a, k, i) \/ <<k, i>> \in U
    PROVE  Entries(c, a) = Entries(b, a) \cup U
<1>1. ASSUME NEW x \in Entries(c, a) PROVE x \in Entries(b, a) \cup U
  <2>1. PICK k, i : x = <<k, i>> /\ IsEntry(c, a, k, i)
    BY EntryPair
  <2> QED
    BY <2>1, EntryOf, Zenon
<1>2. ASSUME NEW x \in Entries(b, a) PROVE x \in Entries(c, a)
  <2>1. PICK k, i : x = <<k, i>> /\ IsEntry(b, a, k, i)
    BY EntryPair, Zenon
  <2> QED
    BY <2>1, EntryOf, Zenon
<1>3. ASSUME NEW x \in U PROVE x \in Entries(c, a)
  <2>1. PICK k, i : x = <<k, i>>
    BY Zenon
  <2> QED
    BY <2>1, EntryOf, Zenon
<1> QED
  BY <1>1, <1>2, <1>3

LEMMA EqualEntries ==
    ASSUME NEW b, NEW c, NEW a, \A k, i : IsEntry(c, a, k, i) <=> IsEntry(b, a, k, i)
    PROVE  Entries(c, a) = Entries(b, a)
<1> DEFINE U == {}
<1>1. \A k, i : <<k, i>> \notin U
  OBVIOUS
<1>2. \A x \in U : \E k, i : x = <<k, i>>
  OBVIOUS
<1>3. \A z : z \cup U = z
  OBVIOUS
<1> HIDE DEF U
<1>4. Entries(c, a) = Entries(b, a) \cup U
  BY <1>1, <1>2, SameEntries
<1> QED
  BY <1>3, <1>4

LEMMA EntriesFinite ==
    ASSUME NEW b \in Seq(Bucket), NEW a
    PROVE  IsFiniteSet(Entries(b, a)) /\ Lists(b, a) \in Nat
<1> DEFINE E(k) == {k} \X At(b[k].prims, a)
           S == {E(k) : k \in DOMAIN b}
<1>1. \A k \in DOMAIN b : IsFiniteSet(E(k))
  <2> SUFFICES ASSUME NEW k \in DOMAIN b PROVE IsFiniteSet(E(k))
    OBVIOUS
  <2>1. b[k].prims \in Seq(Addrs)
    <3>1. b[k] \in Bucket
      OBVIOUS
    <3> QED
      BY <3>1 DEF Bucket
  <2>2. IsFiniteSet(At(b[k].prims, a)) /\ IsFiniteSet({k})
    BY <2>1, AtFinite, FS_Singleton
  <2> QED
    BY <2>2, FS_Product
<1>2. IsFiniteSet(S)
  <2>1. Len(b) \in Nat /\ DOMAIN b = 1..Len(b)
    OBVIOUS
  <2>2. IsFiniteSet(DOMAIN b)
    BY <2>1, FS_Interval
  <2> DEFINE f == [k \in DOMAIN b |-> E(k)]
  <2>3. f \in Surjection(DOMAIN b, S)
    BY DEF Surjection
  <2> HIDE DEF f, S
  <2> QED
    BY <2>2, <2>3, FS_Surjection
<1>3. \A t \in S : IsFiniteSet(t)
  BY <1>1
<1>4. IsFiniteSet(UNION S)
  <2> HIDE DEF S
  <2> QED
    BY <1>2, <1>3, FS_UNION
<1>5. Entries(b, a) = UNION S
  BY Zenon DEF Entries, At
<1> QED
  BY <1>4, <1>5, FS_CardinalityType DEF Lists

LEMMA ListsNone ==
    ASSUME NEW b \in Seq(Bucket), NEW a
    PROVE  Lists(b, a) = 0 <=> \A k \in DOMAIN b : \A i \in DOMAIN b[k].prims : b[k].prims[i] # a
<1>1. Lists(b, a) = 0 <=> Entries(b, a) = {}
  BY EntriesFinite, FS_EmptySet DEF Lists
<1>2. Entries(b, a) = {} <=> \A k, i : ~IsEntry(b, a, k, i)
  <2>1. ASSUME Entries(b, a) = {}, NEW k, NEW i PROVE ~IsEntry(b, a, k, i)
    BY <2>1, EntryIs, Zenon
  <2>2. ASSUME \A k, i : ~IsEntry(b, a, k, i), NEW x \in Entries(b, a) PROVE FALSE
    BY <2>2, EntryIs, Zenon
  <2> QED
    BY <2>1, <2>2
<1> QED
  BY <1>1, <1>2, Zenon DEF IsEntry

LEMMA ListsCat ==
    ASSUME NEW b \in Seq(Bucket), NEW e \in Seq(Bucket),
           \A k \in DOMAIN e : e[k].prims = <<>>, NEW a
    PROVE  Lists(b \o e, a) = Lists(b, a)
<1>1. /\ Len(b) \in Nat /\ Len(e) \in Nat /\ DOMAIN b = 1..Len(b) /\ DOMAIN e = 1..Len(e)
      /\ DOMAIN (b \o e) = 1..(Len(b) + Len(e))
      /\ \A i \in 1..(Len(b) + Len(e)) : (b \o e)[i] = IF i <= Len(b) THEN b[i] ELSE e[i - Len(b)]
  OBVIOUS
<1>2. \A k \in DOMAIN b : k \in DOMAIN (b \o e) /\ (b \o e)[k] = b[k]
  BY <1>1
<1>3. \A k \in DOMAIN (b \o e) : k \notin DOMAIN b => (b \o e)[k].prims = <<>>
  BY <1>1
<1>4. Entries(b \o e, a) = Entries(b, a)
  <2>1. DOMAIN <<>> = {}
    OBVIOUS
  <2>2. \A k, i : IsEntry(b \o e, a, k, i) <=> IsEntry(b, a, k, i)
    BY <1>2, <1>3, <2>1, Zenon DEF IsEntry
  <2> QED
    BY <2>2, EqualEntries, Zenon
<1> QED
  BY <1>4 DEF Lists

\* The buckets of B borrow p.
Borrow(b, B, p) ==
    [i \in DOMAIN b |-> IF i \in B THEN [b[i] EXCEPT !.prims = Append(@, p)] ELSE b[i]]

LEMMA BorrowType ==
    ASSUME NEW b \in Seq(Bucket), NEW B \in SUBSET DOMAIN b, NEW p \in Addrs
    PROVE  /\ Borrow(b, B, p) \in Seq(Bucket) /\ DOMAIN Borrow(b, B, p) = DOMAIN b
           /\ \A i \in DOMAIN b : Borrow(b, B, p)[i].prims =
                  IF i \in B THEN Append(b[i].prims, p) ELSE b[i].prims
           /\ \A i \in DOMAIN b : /\ Borrow(b, B, p)[i].rect = b[i].rect
                                  /\ Borrow(b, B, p)[i].slot = b[i].slot
<1> DEFINE G(i) == IF i \in B THEN [b[i] EXCEPT !.prims = Append(@, p)] ELSE b[i]
<1>1. \A i \in DOMAIN b : b[i] \in Bucket
  OBVIOUS
<1>2. ASSUME NEW r \in Bucket
      PROVE  /\ [r EXCEPT !.prims = Append(@, p)] \in Bucket
             /\ [r EXCEPT !.prims = Append(@, p)].prims = Append(r.prims, p)
             /\ [r EXCEPT !.prims = Append(@, p)].rect = r.rect
             /\ [r EXCEPT !.prims = Append(@, p)].slot = r.slot
  <2>1. Append(r.prims, p) \in Seq(Addrs)
    BY DEF Bucket
  <2> QED
    BY <2>1 DEF Bucket
<1>3. \A i \in DOMAIN b : /\ G(i) \in Bucket /\ G(i).rect = b[i].rect /\ G(i).slot = b[i].slot
                          /\ G(i).prims = IF i \in B THEN Append(b[i].prims, p) ELSE b[i].prims
  BY <1>1, <1>2
<1>4. Borrow(b, B, p) = [i \in DOMAIN b |-> G(i)]
  BY DEF Borrow
<1>5. Len(b) \in Nat /\ DOMAIN b = 1..Len(b)
  OBVIOUS
<1> HIDE DEF G
<1>6. Borrow(b, B, p) \in Seq(Bucket)
  BY <1>3, <1>4, <1>5
<1> QED
  BY <1>3, <1>4, <1>6

Borrows(B, p, a) == IF a = p THEN Cardinality(B) ELSE 0

LEMMA ListsBorrow ==
    ASSUME NEW b \in Seq(Bucket), NEW B \in SUBSET DOMAIN b, NEW p \in Addrs, NEW a
    PROVE  Cardinality(B) \in Nat /\ Lists(Borrow(b, B, p), a) = Lists(b, a) + Borrows(B, p, a)
<1> DEFINE c == Borrow(b, B, p)
           N(k) == Len(b[k].prims) + 1
           U == {<<k, N(k)>> : k \in B}
           f == [k \in B |-> <<k, N(k)>>]
<1>1. /\ c \in Seq(Bucket) /\ DOMAIN c = DOMAIN b
      /\ \A i \in DOMAIN b : c[i].prims = IF i \in B THEN Append(b[i].prims, p) ELSE b[i].prims
  BY BorrowType
<1> HIDE DEF c
<1>2. \A k \in DOMAIN b : /\ N(k) \in Nat \ {0} /\ b[k].prims \in Seq(Addrs)
                          /\ DOMAIN b[k].prims = 1..(N(k) - 1) /\ N(k) \notin DOMAIN b[k].prims
                          /\ DOMAIN Append(b[k].prims, p) = DOMAIN b[k].prims \cup {N(k)}
                          /\ Append(b[k].prims, p)[N(k)] = p
                          /\ \A i \in DOMAIN b[k].prims : Append(b[k].prims, p)[i] = b[k].prims[i]
  <2> SUFFICES ASSUME NEW k \in DOMAIN b, NEW s \in Seq(Addrs), s = b[k].prims
               PROVE  /\ Len(s) + 1 \in Nat \ {0} /\ s \in Seq(Addrs)
                      /\ DOMAIN s = 1..((Len(s) + 1) - 1) /\ Len(s) + 1 \notin DOMAIN s
                      /\ DOMAIN Append(s, p) = DOMAIN s \cup {Len(s) + 1}
                      /\ Append(s, p)[Len(s) + 1] = p
                      /\ \A i \in DOMAIN s : Append(s, p)[i] = s[i]
    <3>1. \A k \in DOMAIN b : b[k] \in Bucket
      OBVIOUS
    <3>2. \A k \in DOMAIN b : b[k].prims \in Seq(Addrs)
      BY <3>1 DEF Bucket
    <3> QED
      BY <3>2
  <2> QED
    OBVIOUS
<1>3. IsFiniteSet(B) /\ Cardinality(B) \in Nat
  <2>1. Len(b) \in Nat /\ DOMAIN b = 1..Len(b)
    OBVIOUS
  <2>2. IsFiniteSet(1..Len(b))
    BY <2>1, FS_Interval
  <2>3. IsFiniteSet(B)
    BY <2>1, <2>2, FS_Subset
  <2> QED
    BY <2>3, FS_CardinalityType
<1>4. IsFiniteSet(U) /\ Cardinality(U) = Cardinality(B)
  <2>1. f \in [B -> U]
    OBVIOUS
  <2>2. \A x, y \in B : f[x] = f[y] => x = y
    OBVIOUS
  <2>3. \A t \in U : \E x \in B : f[x] = t
    OBVIOUS
  <2> HIDE DEF f, U
  <2> QED
    BY <1>3, <2>1, <2>2, <2>3, CountMapped
<1> HIDE DEF N
<1>5. CASE a # p
  <2>1. ASSUME NEW k, NEW i PROVE IsEntry(c, a, k, i) <=> IsEntry(b, a, k, i)
    <3>1. k \in DOMAIN b => (i \in DOMAIN c[k].prims /\ c[k].prims[i] = a <=>
                              i \in DOMAIN b[k].prims /\ b[k].prims[i] = a)
      BY <1>1, <1>2, <1>5
    <3> QED
      BY <1>1, <3>1, Zenon DEF IsEntry
  <2>2. Entries(c, a) = Entries(b, a)
    BY <2>1, EqualEntries, Zenon
  <2>3. Lists(b, a) \in Nat
    BY EntriesFinite
  <2> QED
    BY <1>3, <1>5, <2>2, <2>3 DEF c, Lists, Borrows
<1>6. CASE a = p
  <2>1. ASSUME NEW k, NEW i PROVE IsEntry(c, a, k, i) <=> IsEntry(b, a, k, i) \/ <<k, i>> \in U
    <3>1. k \in DOMAIN b => (i \in DOMAIN c[k].prims /\ c[k].prims[i] = a <=>
            (i \in DOMAIN b[k].prims /\ b[k].prims[i] = a) \/ (k \in B /\ i = N(k)))
      BY <1>1, <1>2, <1>6
    <3>2. <<k, i>> \in U <=> k \in B /\ i = N(k)
      OBVIOUS
    <3> HIDE DEF U
    <3> QED
      BY <1>1, <3>1, <3>2, Zenon DEF IsEntry
  <2>2. Entries(c, a) = Entries(b, a) \cup U
    <3>1. \A x \in U : \E k, i : x = <<k, i>>
      OBVIOUS
    <3> HIDE DEF U
    <3> QED
      BY <2>1, <3>1, SameEntries
  <2>3. Entries(b, a) \cap U = {}
    <3> SUFFICES ASSUME NEW k \in B, <<k, N(k)>> \in Entries(b, a) PROVE FALSE
      OBVIOUS
    <3>1. IsEntry(b, a, k, N(k))
      BY EntryIs, Zenon
    <3> QED
      BY <1>2, <3>1 DEF IsEntry
  <2>4. IsFiniteSet(Entries(b, a)) /\ Lists(b, a) \in Nat
    BY EntriesFinite
  <2>5. Cardinality(Entries(c, a)) = Cardinality(Entries(b, a)) + Cardinality(U) - Cardinality({})
    BY <1>4, <2>2, <2>3, <2>4, FS_Union
  <2> QED
    BY <1>3, <1>4, <1>6, <2>4, <2>5, FS_EmptySet DEF c, Lists, Borrows
<1> QED
  BY <1>3, <1>5, <1>6

----------------------------------------------------------------------------
(* The heap.                                                               *)

LEMMA FreeFinite == IsFiniteSet(Free) /\ Free \subseteq Addrs /\ Cardinality(Free) \in Nat
<1>1. Free \in SUBSET Addrs
  BY DEF Free
<1>2. IsFiniteSet(Addrs)
  BY HiderAssumption, FS_Interval DEF Addrs
<1>3. IsFiniteSet(Free)
  BY <1>1, <1>2, FS_Subset
<1> QED
  BY <1>1, <1>3, FS_CardinalityType

LEMMA NewAddrsAre ==
    ASSUME NEW n \in Nat, n <= Cardinality(Free)
    PROVE  News(NewAddrs(n), n, Free)
<1> DEFINE P(A) == \A i, j \in 1..n : A[i] = A[j] => i = j
<1>1. \E A \in [1..n -> Free] : P(A)
  BY FreeFinite, Spare
<1>2. NewAddrs(n) = CHOOSE A \in [1..n -> Free] : P(A)
  BY DEF NewAddrs
<1>3. NewAddrs(n) \in [1..n -> Free] /\ P(NewAddrs(n))
  <2> HIDE DEF P
  <2> QED
    BY <1>1, <1>2
<1> QED
  BY <1>3 DEF News

\* g is the heap h with s at the addresses of A.
Alloced(g, h, A, n, s) ==
    /\ g \in [Addrs -> Prim] /\ \A i \in 1..n : g[A[i]] = s[i]
    /\ \A a \in Addrs : (\A i \in 1..n : A[i] # a) => g[a] = h[a]

LEMMA AllocIs ==
    ASSUME NEW h \in [Addrs -> Prim], NEW n \in Nat, NEW F \in SUBSET Addrs, NEW A, News(A, n, F),
           NEW s, DOMAIN s = 1..n, \A i \in 1..n : s[i] \in Prim
    PROVE  Alloced(Alloc(h, A, s), h, A, n, s)
<1> DEFINE W(a) == CHOOSE i \in DOMAIN s : A[i] = a
           G(a) == IF \E i \in DOMAIN s : A[i] = a THEN s[W(a)] ELSE h[a]
<1>1. \A a : (\E i \in DOMAIN s : A[i] = a) => W(a) \in 1..n /\ A[W(a)] = a
  OBVIOUS
<1>2. \A i \in 1..n : A[i] \in Addrs /\ W(A[i]) = i
  BY <1>1 DEF News
<1> HIDE DEF W
<1>3. \A a \in Addrs : G(a) \in Prim
  BY <1>1
<1>4. Alloc(h, A, s) = [a \in Addrs |-> G(a)]
  BY DEF Alloc, W
<1>5. \A i \in 1..n : G(A[i]) = s[i]
  BY <1>2
<1>6. \A a \in Addrs : (\A i \in 1..n : A[i] # a) => G(a) = h[a]
  OBVIOUS
<1> HIDE DEF G
<1> QED
  BY <1>2, <1>3, <1>4, <1>5, <1>6 DEF Alloced

\* The type of a primitive as SMT sees it.
LEMMA PrimFields ==
    \A p \in Prim : /\ p.ref \in Nat /\ p.cnt \in Nat /\ p.root \in Nat
                    /\ p.u \in Ranges /\ p.v \in Ranges /\ p.complex \in BOOLEAN
BY DEF Prim, Ranges

LEMMA NothingType == Nothing \in Prim /\ Nothing.ref = 0
<1>1. <<0, 0>> \in Ranges
  BY HiderAssumption DEF Ranges
<1> QED
  BY <1>1 DEF Nothing, Prim, Ranges

LEMMA ReleaseIs ==
    ASSUME NEW h \in [Addrs -> Prim], NEW a \in Addrs, h[a].ref > 0
    PROVE  /\ Release(h, a) \in [Addrs -> Prim]
           /\ Release(h, a)[a].ref = h[a].ref - 1
           /\ \A b \in Addrs : b # a => Release(h, a)[b] = h[b]
<1> DEFINE p == IF h[a].ref = 1 THEN Nothing ELSE [h[a] EXCEPT !.ref = @ - 1]
<1>1. p \in Prim /\ p.ref = h[a].ref - 1
  <2>1. CASE h[a].ref = 1
    BY <2>1, NothingType
  <2>2. CASE h[a].ref # 1
    <3> SUFFICES ASSUME NEW q \in Prim, q.ref > 1
                 PROVE  [q EXCEPT !.ref = @ - 1] \in Prim /\ [q EXCEPT !.ref = @ - 1].ref = q.ref - 1
      BY <2>2, PrimFields
    <3> QED
      BY DEF Prim
  <2> QED
    BY <2>1, <2>2
<1>2. Release(h, a) = [h EXCEPT ![a] = p]
  BY DEF Release
<1> HIDE DEF p
<1> QED
  BY <1>1, <1>2

LEMMA SurfaceType ==
    ASSUME NEW r \in Nat
    PROVE  /\ Surface(r) \in Prim /\ Surface(r).ref = 1 /\ Surface(r).root = r
           /\ Surface(r).u = <<0, UvDim>> /\ Surface(r).v = <<0, UvDim>>
           /\ Surface(r).cnt = 0 /\ Surface(r).complex = FALSE
<1>1. <<0, UvDim>> \in Ranges
  BY HiderAssumption DEF Ranges
<1> QED
  BY <1>1, NothingType DEF Surface, Prim, Ranges, Nothing

LEMMA HalvesType ==
    ASSUME NEW r \in Ranges
    PROVE  Lower(r) \in Ranges /\ Upper(r) \in Ranges
<1>1. PICK x \in 0..UvDim, y \in 0..UvDim : r = <<x, y>>
  BY DEF Ranges
<1>2. (x + y) \div 2 \in 0..UvDim
  BY HiderAssumption
<1> QED
  BY <1>1, <1>2 DEF Ranges, Lower, Upper

\* A quarter, with its place among the four.
Quarter(p, q, u, v, n) ==
    /\ q \in Prim /\ q.ref = 1 /\ q.root = p.root /\ q.complex = p.complex
    /\ q.u = u /\ q.v = v /\ q.cnt = p.cnt + n

LEMMA QuartersAre ==
    ASSUME NEW p \in Prim
    PROVE  /\ DOMAIN Quarters(p) = 1..4
           /\ Quarter(p, Quarters(p)[1], Lower(p.u), Lower(p.v), 1)
           /\ Quarter(p, Quarters(p)[2], Upper(p.u), Lower(p.v), 1)
           /\ Quarter(p, Quarters(p)[3], Lower(p.u), Upper(p.v), 2)
           /\ Quarter(p, Quarters(p)[4], Upper(p.u), Upper(p.v), 2)
<1> DEFINE q(u, v, n) == [p EXCEPT !.ref = 1, !.u = u, !.v = v, !.cnt = p.cnt + n]
<1>1. ASSUME NEW u \in Ranges, NEW v \in Ranges, NEW n \in Nat
      PROVE  Quarter(p, q(u, v, n), u, v, n)
  <2>1. p.cnt + n \in Nat
    BY PrimFields
  <2> QED
    BY <2>1 DEF Quarter, Prim, Ranges
<1>2. /\ Lower(p.u) \in Ranges /\ Upper(p.u) \in Ranges
      /\ Lower(p.v) \in Ranges /\ Upper(p.v) \in Ranges
  BY PrimFields, HalvesType
<1>3. Quarters(p) = << q(Lower(p.u), Lower(p.v), 1), q(Upper(p.u), Lower(p.v), 1),
                       q(Lower(p.u), Upper(p.v), 2), q(Upper(p.u), Upper(p.v), 2) >>
  BY DEF Quarters
<1> HIDE DEF q
<1> QED
  BY <1>1, <1>2, <1>3

----------------------------------------------------------------------------
(* Buckets and sample buffers.                                             *)

LEMMA MinOf ==
    ASSUME NEW a \in Int, NEW b \in Int
    PROVE  Min({a, b}) = IF a < b THEN a ELSE b
<1> DEFINE m == IF a < b THEN a ELSE b
<1>1. m \in {a, b} /\ \A y \in {a, b} : m <= y
  OBVIOUS
<1>2. Min({a, b}) \in {a, b} /\ \A y \in {a, b} : Min({a, b}) <= y
  BY <1>1 DEF Min
<1>3. Min({a, b}) <= m /\ m <= Min({a, b}) /\ Min({a, b}) \in Int
  BY <1>1, <1>2
<1> QED
  BY <1>3

\* The tile at column c and row r.
TileAt(fmt, c, r) ==
    LET x == c * BucketSize
        y == r * BucketSize IN
    [x1 |-> x, y1 |-> y, x2 |-> Min({x + BucketSize, fmt[1]}), y2 |-> Min({y + BucketSize, fmt[2]})]

Cols(fmt) == (fmt[1] + BucketSize - 1) \div BucketSize
Rows(fmt) == (fmt[2] + BucketSize - 1) \div BucketSize

LEMMA TileType ==
    ASSUME NEW fmt \in (Nat \ {0}) \X (Nat \ {0}), NEW c \in Nat, NEW r \in Nat
    PROVE  TileAt(fmt, c, r) \in Tile
<1> DEFINE x == c * BucketSize
           y == r * BucketSize
<1>1. x \in Int /\ y \in Int /\ BucketSize \in Int /\ fmt[1] \in Int /\ fmt[2] \in Int
  BY HiderAssumption
<1> HIDE DEF x, y
<1>2. Min({x + BucketSize, fmt[1]}) \in Int /\ Min({y + BucketSize, fmt[2]}) \in Int
  BY <1>1, MinOf
<1>3. TileAt(fmt, c, r) =
        [x1 |-> x, y1 |-> y, x2 |-> Min({x + BucketSize, fmt[1]}), y2 |-> Min({y + BucketSize, fmt[2]})]
  BY DEF TileAt, x, y
<1> QED
  BY <1>1, <1>2, <1>3 DEF Tile

LEMMA GridSize ==
    ASSUME NEW fmt \in (Nat \ {0}) \X (Nat \ {0})
    PROVE  Cols(fmt) \in Nat \ {0} /\ Rows(fmt) \in Nat \ {0} /\ Cols(fmt) * Rows(fmt) \in Nat \ {0}
<1>1. ASSUME NEW n \in Nat \ {0} PROVE (n + BucketSize - 1) \div BucketSize \in Nat \ {0}
  <2>1. PICK b \in Nat \ {0} : b = BucketSize
    BY HiderAssumption
  <2>2. PICK z \in Nat : z = n + b - 1 /\ z >= b
    BY <2>1
  <2>3. PICK q \in Nat, r \in 0..(b - 1) : q = z \div b /\ z = b * q + r
    <3>1. z \div b \in Nat /\ z % b \in 0..(b - 1) /\ z = b * (z \div b) + (z % b)
      BY DivMod
    <3> QED
      BY <3>1, Zenon
  <2>4. q # 0
    BY <2>2, <2>3
  <2> QED
    BY <2>1, <2>2, <2>3, <2>4
<1>2. Cols(fmt) \in Nat \ {0} /\ Rows(fmt) \in Nat \ {0}
  BY <1>1 DEF Cols, Rows
<1> QED
  BY <1>2, ProductPositive

LEMMA TilesAre ==
    ASSUME NEW fmt \in (Nat \ {0}) \X (Nat \ {0})
    PROVE  /\ Tiles(fmt) \in Seq(Tile) /\ Len(Tiles(fmt)) = Cols(fmt) * Rows(fmt)
           /\ \A k \in 1..(Cols(fmt) * Rows(fmt)) :
                /\ (k - 1) % Cols(fmt) \in Nat /\ (k - 1) \div Cols(fmt) \in Nat
                /\ Tiles(fmt)[k] = TileAt(fmt, (k - 1) % Cols(fmt), (k - 1) \div Cols(fmt))
<1> DEFINE n == Cols(fmt)
           N == Cols(fmt) * Rows(fmt)
           G(k) == TileAt(fmt, (k - 1) % n, (k - 1) \div n)
<1>1. n \in Nat \ {0} /\ N \in Nat
  BY GridSize
<1>2. \A k \in 1..N : (k - 1) % n \in Nat /\ (k - 1) \div n \in Nat
  <2> SUFFICES ASSUME NEW k \in 1..N PROVE (k - 1) % n \in Nat /\ (k - 1) \div n \in Nat
    OBVIOUS
  <2>1. k - 1 \in Nat
    BY <1>1
  <2> HIDE DEF n
  <2>2. (k - 1) \div n \in Nat /\ (k - 1) % n \in 0..(n - 1)
    BY <1>1, <2>1, DivMod
  <2> QED
    BY <1>1, <2>2
<1>3. Tiles(fmt) = [k \in 1..N |-> G(k)]
  BY DEF Tiles, TileAt, Cols, Rows
<1> HIDE DEF n, N
<1>4. \A k \in 1..N : G(k) \in Tile
  BY <1>2, TileType
<1> HIDE DEF G
<1>5. Tiles(fmt) \in Seq(Tile) /\ Len(Tiles(fmt)) = N /\ \A k \in 1..N : Tiles(fmt)[k] = G(k)
  BY <1>1, <1>3, <1>4
<1> QED
  BY <1>2, <1>5 DEF G, n, N

LEMMA FindSlotIs ==
    ASSUME NEW S \in Seq(Slot), NEW t \in Tile
    PROVE  /\ SlotOf(S, t) \in 0..Len(S)
           /\ SlotOf(S, t) # 0 => /\ S[SlotOf(S, t)].wd = t.x2 - t.x1
                                  /\ S[SlotOf(S, t)].he = t.y2 - t.y1
           /\ SlotOf(S, t) = 0 => \A i \in DOMAIN S : ~(S[i].wd = t.x2 - t.x1 /\ S[i].he = t.y2 - t.y1)
<1> DEFINE F == {i \in DOMAIN S : S[i].wd = t.x2 - t.x1 /\ S[i].he = t.y2 - t.y1}
<1>1. SlotOf(S, t) = IF F = {} THEN 0 ELSE Min(F)
  BY DEF SlotOf, FindSlot
<1>2. Len(S) \in Nat /\ DOMAIN S = 1..Len(S) /\ F \in SUBSET Nat
  OBVIOUS
<1>3. F # {} => Min(F) \in F
  BY <1>2, LeastExists
<1> QED
  BY <1>1, <1>2, <1>3

\* t goes on where s ends.
Extends(s, t) == Len(s) <= Len(t) /\ \A i \in DOMAIN s : t[i] = s[i]

LEMMA AddSlotIs ==
    ASSUME NEW S \in Seq(Slot), Len(S) <= SlotsN, NEW t \in Tile, NEW log \in 0..9
    PROVE  /\ AddSlot(S, t, log) \in Seq(Slot) /\ Len(AddSlot(S, t, log)) <= SlotsN
           /\ Extends(S, AddSlot(S, t, log))
<1>1. [wd |-> t.x2 - t.x1, he |-> t.y2 - t.y1, log |-> log] \in Slot
  BY DEF Slot, Tile
<1>2. ASSUME NEW e \in Slot, Len(S) < SlotsN
      PROVE  Append(S, e) \in Seq(Slot) /\ Len(Append(S, e)) <= SlotsN /\ Extends(S, Append(S, e))
  BY <1>2 DEF SlotsN, Extends
<1>3. Extends(S, S)
  BY DEF Extends
<1> QED
  BY <1>1, <1>2, <1>3 DEF AddSlot

\* The sequences that SlotsAfter gives.
SlotSteps(f, S, tiles, log) ==
    /\ DOMAIN f = 0..Len(tiles) /\ f[0] = S
    /\ \A k \in 1..Len(tiles) : f[k] = AddSlot(f[k - 1], tiles[k], log)

LEMMA SlotsAfterIs ==
    ASSUME NEW S \in Seq(Slot), Len(S) <= SlotsN, NEW tiles \in Seq(Tile), NEW log \in 0..9
    PROVE  SlotSteps(SlotsAfter(S, tiles, log), S, tiles, log)
<1> DEFINE n == Len(tiles)
           X == {s \in Seq(Slot) : Len(s) <= SlotsN}
           g == [p \in Nat \X X |-> IF p[1] + 1 \in 1..n THEN AddSlot(p[2], tiles[p[1] + 1], log)
                                    ELSE p[2]]
           Q(f) == f = [k \in 0..n |-> IF k = 0 THEN S ELSE AddSlot(f[k - 1], tiles[k], log)]
<1>0. n \in Nat /\ S \in X /\ \A k \in 1..n : tiles[k] \in Tile
  OBVIOUS
<1>1. g \in [Nat \X X -> X]
  <2>1. \A k \in 1..n, s \in X : AddSlot(s, tiles[k], log) \in X
    BY <1>0, AddSlotIs
  <2> HIDE DEF X, n
  <2> QED
    BY <2>1
<1>2. PICK h : Starts(h, n, X, S, g)
  <2> HIDE DEF X, g, n
  <2> QED
    BY <1>0, <1>1, StartsExist
<1>3. h \in [0..n -> X] /\ h[0] = S
  BY <1>2 DEF Starts
<1>4. \A k \in 1..n : h[k] = AddSlot(h[k - 1], tiles[k], log)
  <2> SUFFICES ASSUME NEW k \in 1..n PROVE h[k] = AddSlot(h[k - 1], tiles[k], log)
    OBVIOUS
  <2>1. PICK j \in Nat : j < n /\ k = j + 1 /\ j = k - 1 /\ j \in 0..n
    <3>1. k - 1 \in Nat /\ k - 1 < n /\ k = (k - 1) + 1 /\ k - 1 \in 0..n
      BY <1>0
    <3> QED
      BY <3>1
  <2>2. h[j + 1] = g[<<j, h[j]>>]
    <3> HIDE DEF g, X, n
    <3> QED
      BY <1>2, <2>1 DEF Starts
  <2>3. h[j] \in X
    BY <1>3, <2>1
  <2>4. \A s \in X : g[<<j, s>>] = AddSlot(s, tiles[j + 1], log)
    BY <2>1
  <2>5. h[j + 1] = AddSlot(h[j], tiles[j + 1], log)
    <3> HIDE DEF g, X
    <3> QED
      BY <2>2, <2>3, <2>4
  <2> QED
    BY <2>1, <2>5
<1>5. Q(h)
  <2>1. \A k \in 0..n : h[k] = IF k = 0 THEN S ELSE AddSlot(h[k - 1], tiles[k], log)
    BY <1>3, <1>4
  <2> HIDE DEF X, n
  <2> QED
    BY <1>3, <2>1
<1>6. Q(SlotsAfter(S, tiles, log))
  <2>1. SlotsAfter(S, tiles, log) = CHOOSE f : Q(f)
    BY DEF SlotsAfter
  <2> HIDE DEF Q
  <2> QED
    BY <1>5, <2>1
<1> DEFINE f == SlotsAfter(S, tiles, log)
<1>7. f = [k \in 0..n |-> IF k = 0 THEN S ELSE AddSlot(f[k - 1], tiles[k], log)]
  BY <1>6
<1> HIDE DEF f
<1> QED
  BY <1>0, <1>7 DEF SlotSteps, f

LEMMA SlotsGrow ==
    ASSUME NEW S \in Seq(Slot), Len(S) <= SlotsN, NEW tiles \in Seq(Tile), NEW log \in 0..9,
           NEW f, SlotSteps(f, S, tiles, log)
    PROVE  /\ \A k \in 0..Len(tiles) : f[k] \in Seq(Slot) /\ Len(f[k]) <= SlotsN
           /\ \A k \in 0..Len(tiles) : Extends(f[k], f[Len(tiles)])
           /\ Extends(S, f[Len(tiles)])
<1> DEFINE n == Len(tiles)
           P == {k \in Nat : k <= n => f[k] \in Seq(Slot) /\ Len(f[k]) <= SlotsN}
           R == {k \in Nat : k <= n => Extends(f[n - k], f[n])}
<1>0. n \in Nat
  OBVIOUS
<1>1. \A k \in 1..n : k - 1 \in Nat /\ tiles[k] \in Tile /\ f[k] = AddSlot(f[k - 1], tiles[k], log)
  BY DEF SlotSteps
<1>2. \A k \in Nat : k \in P
  <2>1. 0 \in P
    BY DEF SlotSteps
  <2>2. ASSUME NEW k \in Nat, k \in P PROVE k + 1 \in P
    <3> SUFFICES ASSUME k + 1 <= n PROVE f[k + 1] \in Seq(Slot) /\ Len(f[k + 1]) <= SlotsN
      OBVIOUS
    <3>1. k + 1 \in 1..n /\ (k + 1) - 1 = k /\ k <= n
      BY <1>0
    <3>2. f[k] \in Seq(Slot) /\ Len(f[k]) <= SlotsN
      BY <2>2, <3>1
    <3>3. tiles[k + 1] \in Tile /\ f[k + 1] = AddSlot(f[k], tiles[k + 1], log)
      BY <1>1, <3>1
    <3> QED
      BY <3>2, <3>3, AddSlotIs
  <2> HIDE DEF P
  <2> QED
    BY <2>1, <2>2, SetInduction
<1>3. \A k \in 0..n : f[k] \in Seq(Slot) /\ Len(f[k]) <= SlotsN
  BY <1>0, <1>2
<1>4. \A k \in Nat : k \in R
  <2>1. 0 \in R
    <3>1. Extends(f[n], f[n])
      BY <1>0, <1>3 DEF Extends
    <3> QED
      BY <1>0, <3>1
  <2>2. ASSUME NEW k \in Nat, k \in R PROVE k + 1 \in R
    <3> SUFFICES ASSUME k + 1 <= n PROVE Extends(f[n - (k + 1)], f[n])
      OBVIOUS
    <3>1. n - k \in 1..n /\ (n - k) - 1 = n - (k + 1) /\ n - (k + 1) \in 0..n /\ n - k \in 0..n /\ n \in 0..n
      BY <1>0
    <3>2. PICK s \in Seq(Slot), t \in Seq(Slot), r \in Seq(Slot) :
              s = f[n - (k + 1)] /\ t = f[n - k] /\ r = f[n] /\ Len(s) <= SlotsN
      BY <1>3, <3>1
    <3>3. tiles[n - k] \in Tile /\ t = AddSlot(s, tiles[n - k], log)
      BY <1>1, <3>1, <3>2
    <3>4. Extends(s, t)
      BY <3>2, <3>3, AddSlotIs
    <3>5. Extends(t, r)
      BY <2>2, <3>1, <3>2
    <3>6. Extends(s, r)
      BY <3>4, <3>5 DEF Extends
    <3> QED
      BY <3>2, <3>6
  <2> HIDE DEF R
  <2> QED
    BY <2>1, <2>2, SetInduction
<1>5. ASSUME NEW k \in 0..n PROVE Extends(f[k], f[n])
  <2>1. n - k \in Nat /\ n - k <= n /\ n - (n - k) = k
    BY <1>0
  <2> QED
    BY <1>4, <2>1
<1>6. Extends(S, f[n])
  BY <1>0, <1>5 DEF SlotSteps
<1> QED
  BY <1>3, <1>5, <1>6

LEMMA Pow2Def ==
    /\ Pow2 \in [Nat -> Nat \ {0}]
    /\ Pow2[0] = 1 /\ \A n \in Nat : Pow2[n + 1] = 2 * Pow2[n]
<1>1. IsPowers(2, Pow2)
  BY DEF IsPowers, Pow2
<1> QED
  BY <1>1, Powers

LEMMA Fours ==
    /\ Pow2[2 * 0] = 1 /\ Pow2[2 * 1] = 4 /\ Pow2[2 * 2] = 16 /\ Pow2[2 * 3] = 64
    /\ Pow2[2 * 4] = 256 /\ Pow2[2 * 5] = 1024 /\ Pow2[2 * 6] = 4096 /\ Pow2[2 * 7] = 16384
    /\ Pow2[2 * 8] = 65536 /\ Pow2[2 * 9] = 262144
<1>1. \A m \in Nat : \A k \in Nat : k = m + 2 => Pow2[k] = 4 * Pow2[m]
  <2> SUFFICES ASSUME NEW m \in Nat PROVE Pow2[m + 2] = 4 * Pow2[m]
    OBVIOUS
  <2>1. Pow2[m + 1] = 2 * Pow2[m] /\ Pow2[(m + 1) + 1] = 2 * Pow2[m + 1]
    BY Pow2Def
  <2>2. (m + 1) + 1 = m + 2 /\ Pow2[m] \in Nat
    BY Pow2Def
  <2> QED
    BY <2>1, <2>2
<1>2. Pow2[0] = 1
  BY Pow2Def
<1>3. Pow2[2] = 4
  BY <1>1, <1>2
<1>4. Pow2[4] = 16
  BY <1>1, <1>3
<1>5. Pow2[6] = 64
  BY <1>1, <1>4
<1>6. Pow2[8] = 256
  BY <1>1, <1>5
<1>7. Pow2[10] = 1024
  BY <1>1, <1>6
<1>8. Pow2[12] = 4096
  BY <1>1, <1>7
<1>9. Pow2[14] = 16384
  BY <1>1, <1>8
<1>10. Pow2[16] = 65536
  BY <1>1, <1>9
<1>11. Pow2[18] = 262144
  BY <1>1, <1>10
<1> QED
  BY <1>2, <1>3, <1>4, <1>5, <1>6, <1>7, <1>8, <1>9, <1>10, <1>11

\* Samples of a pixel, by side and as a whole.
Sides == 1..64
Areas == 1..4096

LEMMA AreaBound ==
    ASSUME NEW a \in Sides, NEW b \in Sides
    PROVE  a * b \in Areas
<1>0. a \in 1..64 /\ b \in 1..64
  BY DEF Sides
<1>1. a * b <= 64 * b /\ 1 * b <= a * b /\ a * b \in Int
  <2>1. \A x, y, z \in Nat : x <= y => x * z <= y * z
    OBVIOUS
  <2> QED
    BY <1>0, <2>1
<1> QED
  BY <1>0, <1>1 DEF Areas

IsNearest(j, area) == \A k \in 0..8 : Dist(area, Pow2[2 * j]) <= Dist(area, Pow2[2 * k])

\* The power of four that is chosen is in range, and the nearest.
LEMMA SubPixIs ==
    ASSUME NEW area \in Areas
    PROVE  SubPixDimLog2(area) \in 0..9 /\ IsNearest(SubPixDimLog2(area), area)
<1> DEFINE P(j) == Pow2[2 * j] <= area /\ area < Pow2[2 * (j + 1)]
           K == CHOOSE j \in 0..8 : P(j)
           L == IF Dist(area, Pow2[2 * (K + 1)]) < Dist(area, Pow2[2 * K]) THEN K + 1 ELSE K
           V(j) == Pow2[2 * j]
<1>0. area \in 1..4096
  BY DEF Areas
<1>1. /\ V(0) = 1 /\ V(1) = 4 /\ V(2) = 16 /\ V(3) = 64 /\ V(4) = 256 /\ V(5) = 1024
      /\ V(6) = 4096 /\ V(7) = 16384 /\ V(8) = 65536 /\ V(9) = 262144
  BY Fours
<1>2. SubPixDimLog2(area) = L
  BY DEF SubPixDimLog2
<1> HIDE DEF V
<1>3. \E j \in 0..8 : V(j) <= area /\ area < V(j + 1)
  <2>1. (V(0) <= area /\ area < V(0 + 1)) \/ (V(1) <= area /\ area < V(1 + 1))
        \/ (V(2) <= area /\ area < V(2 + 1)) \/ (V(3) <= area /\ area < V(3 + 1))
        \/ (V(4) <= area /\ area < V(4 + 1)) \/ (V(5) <= area /\ area < V(5 + 1))
        \/ (V(6) <= area /\ area < V(6 + 1))
    <3>1. /\ 0 + 1 = 1 /\ 1 + 1 = 2 /\ 2 + 1 = 3 /\ 3 + 1 = 4 /\ 4 + 1 = 5 /\ 5 + 1 = 6
          /\ 6 + 1 = 7
      OBVIOUS
    <3>2. \/ (1 <= area /\ area < 4) \/ (4 <= area /\ area < 16) \/ (16 <= area /\ area < 64)
          \/ (64 <= area /\ area < 256) \/ (256 <= area /\ area < 1024)
          \/ (1024 <= area /\ area < 4096) \/ (4096 <= area /\ area < 16384)
      BY <1>0
    <3> QED
      BY <1>1, <3>1, <3>2
  <2> QED
    BY <2>1
<1>4. \E j \in 0..8 : P(j)
  BY <1>3 DEF V
<1>5. K \in 0..8 /\ P(K)
  <2> HIDE DEF P
  <2> QED
    BY <1>4
<1>6. V(K) <= area /\ area < V(K + 1) /\ K \in 0..8
  BY <1>5 DEF V
<1>7. L = IF Dist(area, V(K + 1)) < Dist(area, V(K)) THEN K + 1 ELSE K
  BY DEF V
<1> HIDE DEF K, L, P
<1>8. L \in 0..9 /\ \A k \in 0..8 : Dist(area, V(L)) <= Dist(area, V(k))
  <2> SUFFICES ASSUME NEW k \in 0..8 PROVE L \in 0..9 /\ Dist(area, V(L)) <= Dist(area, V(k))
    OBVIOUS
  <2>1. K = 0 \/ K = 1 \/ K = 2 \/ K = 3 \/ K = 4 \/ K = 5 \/ K = 6
    <3>1. V(K) <= area /\ area <= 4096 /\ area \in Int
      BY <1>0, <1>6
    <3>2. V(7) = 16384 /\ V(8) = 65536
      BY <1>1
    <3>3. ASSUME K = 7 \/ K = 8 PROVE FALSE
      <4>1. V(K) = 16384 \/ V(K) = 65536
        BY <3>2, <3>3
      <4> QED
        BY <3>1, <4>1
    <3> QED
      BY <1>6, <3>3
  <2>2. V(k) \in {1, 4, 16, 64, 256, 1024, 4096, 16384, 65536}
    BY <1>1
  <2>3. ASSUME NEW v \in {1, 4, 16, 64, 256, 1024, 4096, 16384, 65536}
        PROVE  L \in 0..9 /\ Dist(area, V(L)) <= Dist(area, v)
    BY <1>0, <1>1, <1>6, <1>7, <2>1, <2>3 DEF Dist
  <2> QED
    BY <2>2, <2>3
<1> QED
  BY <1>2, <1>8 DEF V, IsNearest

LEMMA SubPixRange ==
    ASSUME NEW a \in Sides, NEW b \in Sides
    PROVE  SubPixDimLog2(a * b) \in 0..9
<1> DEFINE area == a * b
<1>1. area \in Areas
  BY AreaBound
<1> HIDE DEF area
<1>2. SubPixDimLog2(area) \in 0..9
  BY <1>1, SubPixIs
<1> QED
  BY <1>2 DEF area

\* The buckets and buffers that WorldBegin adds.
Added(new, S, tiles, log) ==
    /\ new.slots \in Seq(Slot) /\ Len(new.slots) <= SlotsN /\ Extends(S, new.slots)
    /\ new.buckets \in Seq(Bucket) /\ Len(new.buckets) = Len(tiles)
    /\ \A k \in 1..Len(tiles) :
         /\ new.buckets[k].rect = tiles[k] /\ new.buckets[k].prims = <<>>
         /\ new.buckets[k].slot \in 0..Len(new.slots)
    /\ \E f : /\ SlotSteps(f, S, tiles, log) /\ new.slots = f[Len(tiles)]
              /\ \A k \in 1..Len(tiles) : new.buckets[k].slot = SlotOf(f[k], tiles[k])

LEMMA AddBucketsIs ==
    ASSUME NEW S \in Seq(Slot), Len(S) <= SlotsN, NEW tiles \in Seq(Tile), NEW log \in 0..9
    PROVE  Added(AddBuckets(S, tiles, log), S, tiles, log)
<1> DEFINE n == Len(tiles)
           f == SlotsAfter(S, tiles, log)
           G(k) == [rect |-> tiles[k], slot |-> SlotOf(f[k], tiles[k]), prims |-> <<>>]
           new == AddBuckets(S, tiles, log)
<1>0. n \in Nat /\ \A k \in 1..n : tiles[k] \in Tile
  OBVIOUS
<1>1. SlotSteps(f, S, tiles, log)
  BY SlotsAfterIs
<1>2. new.slots = f[n] /\ new.buckets = [k \in 1..n |-> G(k)]
  BY DEF AddBuckets
<1> HIDE DEF f, new
<1>3. /\ \A k \in 0..n : f[k] \in Seq(Slot) /\ Len(f[k]) <= SlotsN
      /\ \A k \in 0..n : Extends(f[k], f[n])
      /\ Extends(S, f[n])
  BY <1>1, SlotsGrow
<1>4. \A k \in 1..n : SlotOf(f[k], tiles[k]) \in 0..Len(f[n])
  <2> SUFFICES ASSUME NEW k \in 1..n PROVE SlotOf(f[k], tiles[k]) \in 0..Len(f[n])
    OBVIOUS
  <2>1. k \in 0..n /\ n \in 0..n
    BY <1>0
  <2>2. PICK s \in Seq(Slot), r \in Seq(Slot) : s = f[k] /\ r = f[n] /\ Len(s) <= Len(r)
    BY <1>3, <2>1 DEF Extends
  <2>3. SlotOf(s, tiles[k]) \in 0..Len(s)
    BY <1>0, FindSlotIs
  <2> QED
    BY <2>2, <2>3
<1>5. n \in 0..n /\ f[n] \in Seq(Slot)
  BY <1>0, <1>3
<1>6. Len(f[n]) \in Nat
  BY <1>5
<1>7. ASSUME NEW t \in Tile, NEW z \in Nat PROVE [rect |-> t, slot |-> z, prims |-> <<>>] \in Bucket
  BY DEF Bucket
<1>8. \A k \in 1..n : G(k) \in Bucket
  BY <1>0, <1>4, <1>6, <1>7
<1>9. \A k \in 1..n : G(k).rect = tiles[k] /\ G(k).prims = <<>> /\ G(k).slot = SlotOf(f[k], tiles[k])
  OBVIOUS
<1> HIDE DEF G
<1>10. new.buckets \in Seq(Bucket) /\ Len(new.buckets) = n /\ \A k \in 1..n : new.buckets[k] = G(k)
  BY <1>0, <1>2, <1>8
<1>11. /\ new.slots \in Seq(Slot) /\ Len(new.slots) <= SlotsN /\ Extends(S, new.slots)
  BY <1>2, <1>3, <1>5
<1>12. \A k \in 1..n : /\ new.buckets[k].rect = tiles[k] /\ new.buckets[k].prims = <<>>
                       /\ new.buckets[k].slot \in 0..Len(new.slots)
                       /\ new.buckets[k].slot = SlotOf(f[k], tiles[k])
  BY <1>2, <1>4, <1>9, <1>10
<1>13. \E h : /\ SlotSteps(h, S, tiles, log) /\ new.slots = h[n]
              /\ \A k \in 1..n : new.buckets[k].slot = SlotOf(h[k], tiles[k])
  BY <1>1, <1>2, <1>12, Zenon
<1> HIDE DEF n
<1> QED
  BY <1>10, <1>11, <1>12, <1>13 DEF Added, new, n

----------------------------------------------------------------------------
(* Reference counts, when primitives are allocated, borrowed and released. *)

Exact(h, l, b) == \A a \in Addrs : h[a].ref = Occ(l, a) + Lists(b, a)
Lists0 == Seq(Addrs \cup {0})
Unused(h) == {a \in Addrs : h[a].ref = 0}

\* n primitives of s have been allocated at A and added to the list.
Adds(h, l, A, n, s, h2, l2) ==
    /\ n \in Nat /\ News(A, n, Unused(h)) /\ DOMAIN s = 1..n
    /\ \A i \in 1..n : s[i] \in Prim /\ s[i].ref = 1
    /\ h2 = Alloc(h, A, s) /\ l2 = l \o A

LEMMA AddsTypes ==
    ASSUME NEW h \in [Addrs -> Prim], NEW l \in Lists0, NEW A, NEW n, NEW s, NEW h2, NEW l2,
           Adds(h, l, A, n, s, h2, l2)
    PROVE  /\ h2 \in [Addrs -> Prim] /\ l2 \in Lists0 /\ Len(l2) = Len(l) + n
           /\ A \in Lists0 /\ Len(A) = n
           /\ \A i \in 1..n : A[i] \in Addrs /\ h[A[i]].ref = 0 /\ h2[A[i]] = s[i]
           /\ \A i, j \in 1..n : A[i] = A[j] => i = j
           /\ \A a \in Addrs : (\A i \in 1..n : A[i] # a) => h2[a] = h[a]
           /\ \A i \in 1..Len(l) : l2[i] = l[i]
           /\ \A i \in (Len(l) + 1)..(Len(l) + n) : l2[i] = A[i - Len(l)]
<1>1. n \in Nat /\ Unused(h) \in SUBSET Addrs /\ News(A, n, Unused(h)) /\ DOMAIN s = 1..n
  BY DEF Adds, Unused
<1>2. /\ A \in [1..n -> Unused(h)] /\ \A i, j \in 1..n : A[i] = A[j] => i = j
  BY <1>1 DEF News
<1>3. \A i \in 1..n : A[i] \in Addrs /\ h[A[i]].ref = 0
  BY <1>2 DEF Unused
<1>4. A \in [1..n -> Addrs \cup {0}]
  BY <1>2, <1>3
<1>5. A \in Lists0 /\ Len(A) = n
  BY <1>1, <1>4 DEF Lists0
<1>6. l \o A \in Lists0 /\ Len(l \o A) = Len(l) + n
  <2>1. PICK t \in Seq(Addrs \cup {0}) : t = A /\ Len(t) = n
    BY <1>5 DEF Lists0
  <2>2. l \in Seq(Addrs \cup {0})
    BY DEF Lists0
  <2>3. l \o t \in Seq(Addrs \cup {0}) /\ Len(l \o t) = Len(l) + Len(t)
    BY <2>2
  <2> QED
    BY <2>1, <2>3 DEF Lists0
<1>7. /\ \A i \in 1..Len(l) : (l \o A)[i] = l[i]
      /\ \A i \in (Len(l) + 1)..(Len(l) + n) : (l \o A)[i] = A[i - Len(l)]
  BY <1>1, <1>5 DEF Lists0
<1>8. h2 = Alloc(h, A, s) /\ l2 = l \o A /\ \A i \in 1..n : s[i] \in Prim
  BY DEF Adds
<1>9. /\ Alloc(h, A, s) \in [Addrs -> Prim]
      /\ \A i \in 1..n : Alloc(h, A, s)[A[i]] = s[i]
      /\ \A a \in Addrs : (\A i \in 1..n : A[i] # a) => Alloc(h, A, s)[a] = h[a]
  <2>1. PICK F \in SUBSET Addrs : News(A, n, F)
    BY <1>1
  <2>2. Alloced(Alloc(h, A, s), h, A, n, s)
    BY <1>1, <1>8, <2>1, AllocIs
  <2> QED
    BY <2>2 DEF Alloced
<1> QED
  BY <1>2, <1>3, <1>5, <1>6, <1>7, <1>8, <1>9

LEMMA AddsExact ==
    ASSUME NEW h \in [Addrs -> Prim], NEW l \in Lists0, NEW A, NEW n, NEW s, NEW h2, NEW l2,
           Adds(h, l, A, n, s, h2, l2), NEW b \in Seq(Bucket), Exact(h, l, b)
    PROVE  Exact(h2, l2, b)
<1> SUFFICES ASSUME NEW a \in Addrs PROVE h2[a].ref = Occ(l2, a) + Lists(b, a)
  BY DEF Exact
<1>1. /\ h2 \in [Addrs -> Prim] /\ A \in Lists0
      /\ \A i \in 1..n : A[i] \in Addrs /\ h[A[i]].ref = 0 /\ h2[A[i]] = s[i]
      /\ \A x \in Addrs : (\A i \in 1..n : A[i] # x) => h2[x] = h[x]
  BY AddsTypes
<1>2. Occ(l2, a) = Occ(l, a) + Occ(A, a)
  <2>1. l2 = l \o A
    BY DEF Adds
  <2> QED
    BY <1>1, <2>1, OccCat DEF Lists0
<1>3. Occ(A, a) = Hits(A, n, a)
  <2>1. n \in Nat /\ News(A, n, Unused(h))
    BY DEF Adds
  <2> QED
    BY <2>1, OccNews
<1>4. h[a].ref = Occ(l, a) + Lists(b, a) /\ Occ(l, a) \in Nat /\ Lists(b, a) \in Nat
  BY AtFinite, EntriesFinite DEF Exact, Lists0
<1>5. CASE \E i \in 1..n : A[i] = a
  <2>1. PICK i \in 1..n : A[i] = a
    BY <1>5
  <2>2. h[a].ref = 0 /\ h2[a].ref = 1
    BY <1>1, <2>1 DEF Adds
  <2> QED
    BY <1>2, <1>3, <1>4, <1>5, <2>2 DEF Hits
<1>6. CASE ~\E i \in 1..n : A[i] = a
  <2>1. h2[a] = h[a]
    BY <1>1, <1>6
  <2> QED
    BY <1>2, <1>3, <1>4, <1>6, <2>1 DEF Hits
<1> QED
  BY <1>5, <1>6

\* Entry i of the list is cleared and its primitive released.
Freed(g, m, h, l, i, b) ==
    /\ l[i] \in Addrs /\ h[l[i]].ref > 0
    /\ g \in [Addrs -> Prim] /\ \A a \in Addrs : a # l[i] => g[a] = h[a]
    /\ m \in Lists0 /\ Len(m) = Len(l) /\ m[i] = 0 /\ \A j \in DOMAIN l : j # i => m[j] = l[j]
    /\ Exact(g, m, b)

LEMMA DoneExact ==
    ASSUME NEW h \in [Addrs -> Prim], NEW l \in Lists0, NEW b \in Seq(Bucket), Exact(h, l, b),
           NEW i \in DOMAIN l, l[i] # 0
    PROVE  Freed(Release(h, l[i]), [l EXCEPT ![i] = 0], h, l, i, b)
<1> DEFINE p == l[i]
           g == Release(h, p)
           m == [l EXCEPT ![i] = 0]
<1>0. l \in Seq(Addrs \cup {0}) /\ p \in Addrs /\ Addrs \subseteq Nat \ {0}
  BY DEF Lists0, Addrs
<1>1. \A a \in Addrs : Occ(l, a) \in Nat /\ Lists(b, a) \in Nat /\ h[a].ref = Occ(l, a) + Lists(b, a)
  BY AtFinite, EntriesFinite DEF Exact, Lists0
<1>2. Occ(l, p) # 0
  <2>1. Occ(l, p) = 0 => \A j \in DOMAIN l : l[j] # p
    BY <1>0, OccNone
  <2> QED
    BY <2>1
<1>3. m \in Lists0 /\ Len(m) = Len(l) /\ m[i] = 0 /\ \A j \in DOMAIN l : j # i => m[j] = l[j]
  BY <1>0 DEF Lists0
<1>4. \A a \in Addrs : Occ(m, a) = IF p = a THEN Occ(l, a) - 1 ELSE Occ(l, a)
  <2> SUFFICES ASSUME NEW a \in Addrs PROVE Occ(m, a) = IF p = a THEN Occ(l, a) - 1 ELSE Occ(l, a)
    OBVIOUS
  <2>1. a # 0 /\ 0 \in Addrs \cup {0}
    BY <1>0
  <2> QED
    BY <1>0, <2>1, OccClear
<1> HIDE DEF p, m
<1>5. h[p].ref > 0
  BY <1>0, <1>1, <1>2
<1>6. g \in [Addrs -> Prim] /\ g[p].ref = h[p].ref - 1 /\ \A a \in Addrs : a # p => g[a] = h[a]
  BY <1>0, <1>5, ReleaseIs
<1> HIDE DEF g
<1>7. Exact(g, m, b)
  <2> SUFFICES ASSUME NEW a \in Addrs PROVE g[a].ref = Occ(m, a) + Lists(b, a)
    BY DEF Exact
  <2>1. CASE a = p
    BY <1>1, <1>4, <1>6, <2>1
  <2>2. CASE a # p
    BY <1>1, <1>4, <1>6, <2>2
  <2> QED
    BY <2>1, <2>2
<1>8. p \in Addrs /\ p = l[i]
  BY <1>0 DEF p
<1> QED
  BY <1>3, <1>5, <1>6, <1>7, <1>8 DEF Freed, g, m

\* Buckets of B borrow a primitive, which counts them.
LEMMA BorrowExact ==
    ASSUME NEW h \in [Addrs -> Prim], NEW l \in Lists0, NEW b \in Seq(Bucket), Exact(h, l, b),
           NEW p \in Addrs, NEW B \in SUBSET DOMAIN b, NEW x \in Bounds
    PROVE  /\ [h EXCEPT ![p].ref = @ + Cardinality(B), ![p].bound = x] \in [Addrs -> Prim]
           /\ Exact([h EXCEPT ![p].ref = @ + Cardinality(B), ![p].bound = x], l, Borrow(b, B, p))
<1> DEFINE q == [h[p] EXCEPT !.ref = @ + Cardinality(B), !.bound = x]
           g == [h EXCEPT ![p].ref = @ + Cardinality(B), ![p].bound = x]
<1>0. Cardinality(B) \in Nat
  BY ListsBorrow
<1>1. ASSUME NEW r \in Prim, NEW c \in Nat
      PROVE  /\ [r EXCEPT !.ref = @ + c, !.bound = x] \in Prim
             /\ [r EXCEPT !.ref = @ + c, !.bound = x].ref = r.ref + c
  <2>1. r.ref + c \in Nat
    BY PrimFields
  <2>2. /\ [r EXCEPT !.ref = r.ref + c] \in Prim /\ [r EXCEPT !.ref = r.ref + c].ref = r.ref + c
    BY <2>1 DEF Prim
  <2>3. ASSUME NEW t \in Prim PROVE [t EXCEPT !.bound = x] \in Prim /\ [t EXCEPT !.bound = x].ref = t.ref
    BY DEF Prim
  <2>4. [r EXCEPT !.ref = @ + c, !.bound = x] = [[r EXCEPT !.ref = r.ref + c] EXCEPT !.bound = x]
    BY DEF Prim
  <2> QED
    BY <2>2, <2>3, <2>4
<1>2. q \in Prim /\ q.ref = h[p].ref + Cardinality(B)
  BY <1>0, <1>1
<1>3. g = [h EXCEPT ![p] = q]
  OBVIOUS
<1> HIDE DEF q, g
<1>4. g \in [Addrs -> Prim] /\ g[p] = q /\ \A a \in Addrs : a # p => g[a] = h[a]
  BY <1>2, <1>3
<1>5. ASSUME NEW a \in Addrs PROVE g[a].ref = Occ(l, a) + Lists(Borrow(b, B, p), a)
  <2>1. Lists(Borrow(b, B, p), a) = Lists(b, a) + Borrows(B, p, a)
    BY ListsBorrow
  <2>2. h[a].ref = Occ(l, a) + Lists(b, a) /\ Occ(l, a) \in Nat /\ Lists(b, a) \in Nat
    BY AtFinite, EntriesFinite DEF Exact, Lists0
  <2> QED
    BY <1>0, <1>2, <1>4, <2>1, <2>2 DEF Borrows
<1>6. Exact(g, l, Borrow(b, B, p))
  BY <1>5 DEF Exact
<1> QED
  BY <1>4, <1>6 DEF g

----------------------------------------------------------------------------
(* The types and the reference counts, action by action.                   *)

LEMMA RefsAre == RefsExact <=> Exact(heap, hprims, buckets)
BY DEF RefsExact, Exact, Waiting, Listed, Occ, At, Lists, Entries

LEMMA RefsWillBe == RefsExact' <=> Exact(heap', hprims', buckets')
BY DEF RefsExact, Exact, Waiting, Listed, Occ, At, Lists, Entries

LEMMA AddsHere ==
    ASSUME ListTypes, NEW n \in Nat, n <= Cardinality(Free),
           NEW s, DOMAIN s = 1..n, \A i \in 1..n : s[i] \in Prim /\ s[i].ref = 1
    PROVE  Adds(heap, hprims, NewAddrs(n), n, s, Alloc(heap, NewAddrs(n), s), hprims \o NewAddrs(n))
<1>1. News(NewAddrs(n), n, Free)
  BY NewAddrsAre
<1>2. Free = Unused(heap)
  BY DEF Free, Unused
<1> QED
  BY <1>1, <1>2 DEF Adds

\* The surfaces that a complex primitive becomes.
NewSurfaces(n) == [i \in 1..n |-> Surface(inserted + i)]

LEMMA SurfacesAre ==
    ASSUME inserted \in Nat, NEW n \in Nat
    PROVE  /\ DOMAIN NewSurfaces(n) = 1..n
           /\ \A i \in 1..n : /\ NewSurfaces(n)[i] = Surface(inserted + i)
                              /\ NewSurfaces(n)[i] \in Prim /\ NewSurfaces(n)[i].ref = 1
<1>1. \A i \in 1..n : inserted + i \in Nat
  OBVIOUS
<1>2. \A i \in 1..n : Surface(inserted + i) \in Prim /\ Surface(inserted + i).ref = 1
  BY <1>1, SurfaceType
<1> QED
  BY <1>2 DEF NewSurfaces

\* The primitive that Insert allocates.
Inserted(complex, bad) ==
    IF complex THEN [Nothing EXCEPT !.ref = 1, !.complex = TRUE, !.bad = bad]
    ELSE Surface(inserted + 1)

LEMMA InsertedIs ==
    ASSUME inserted \in Nat, NEW complex \in BOOLEAN, NEW bad \in BOOLEAN
    PROVE  /\ Inserted(complex, bad) \in Prim /\ Inserted(complex, bad).ref = 1
           /\ complex => /\ Inserted(complex, bad).complex /\ Inserted(complex, bad).root = 0
                         /\ Inserted(complex, bad).u = <<0, 0>> /\ Inserted(complex, bad).v = <<0, 0>>
           /\ ~complex => Inserted(complex, bad) = Surface(inserted + 1)
<1>1. <<0, 0>> \in Ranges
  BY HiderAssumption DEF Ranges
<1>2. CASE complex
  BY <1>1, <1>2 DEF Inserted, Nothing, Prim, Ranges
<1>3. CASE ~complex
  <2>1. inserted + 1 \in Nat
    OBVIOUS
  <2> QED
    BY <1>3, <2>1, SurfaceType DEF Inserted
<1> QED
  BY <1>2, <1>3

LEMMA InsertStep ==
    ASSUME ListTypes, RefsExact, NEW complex \in BOOLEAN, NEW bad \in BOOLEAN, HInsert(complex, bad)
    PROVE  /\ ListTypes' /\ RefsExact'
           /\ Adds(heap, hprims, NewAddrs(1), 1, <<Inserted(complex, bad)>>, heap', hprims')
<1> DEFINE A == NewAddrs(1)
           s == <<Inserted(complex, bad)>>
<1>0. /\ heap \in [Addrs -> Prim] /\ hprims \in Lists0 /\ buckets \in Seq(Bucket) /\ inserted \in Nat
      /\ Exact(heap, hprims, buckets)
  BY RefsAre DEF ListTypes, HTypeOK, Lists0
<1>1. 1 <= Cardinality(Free)
  <2>1. Cardinality(Free) # 0
    BY FreeFinite, FS_EmptySet DEF HInsert
  <2> QED
    BY <2>1, FreeFinite
<1>2. DOMAIN s = 1..1 /\ \A i \in 1..1 : s[i] \in Prim /\ s[i].ref = 1
  BY <1>0, InsertedIs
<1>3. heap' = Alloc(heap, A, s) /\ hprims' = hprims \o A
  BY DEF HInsert, Inserted
<1> HIDE DEF A, s
<1>4. Adds(heap, hprims, A, 1, s, heap', hprims')
  BY <1>1, <1>2, <1>3, AddsHere DEF A
<1>5. heap' \in [Addrs -> Prim] /\ hprims' \in Lists0 /\ Len(hprims') = Len(hprims) + 1
  BY <1>0, <1>4, AddsTypes
<1>6. Exact(heap', hprims', buckets)
  BY <1>0, <1>4, AddsExact
<1>7. UNCHANGED <<hphase, hidx, buckets, slots, frame, hub, fates>> /\ inserted' = inserted + 1
  BY DEF HInsert
<1>8. RefsExact'
  BY <1>6, <1>7, RefsWillBe
<1>9. hidx \in 0..(Len(hprims') + 1)
  <2>1. hidx \in 0..(Len(hprims) + 1) /\ Len(hprims) \in Nat
    BY <1>0 DEF ListTypes, HTypeOK, Lists0
  <2> QED
    BY <1>5, <2>1
<1>10. ListTypes'
  BY <1>5, <1>7, <1>9 DEF ListTypes, HTypeOK, Lists0
<1> QED
  BY <1>4, <1>8, <1>10 DEF A, s

\* The primitive at the loop index has made way for those of s.
Replaces(A, n, s) ==
    \E g, m : /\ Adds(heap, hprims, A, n, s, g, m) /\ g \in [Addrs -> Prim] /\ m \in Lists0
              /\ m[hidx] = hprims[hidx] /\ hidx \in DOMAIN m
              /\ Freed(heap', hprims', g, m, hidx, buckets)

LEMMA ReplaceStep ==
    ASSUME ListTypes, RefsExact, hidx \in DOMAIN hprims, hprims[hidx] # 0,
           NEW n \in Nat, n <= Cardinality(Free),
           NEW s, DOMAIN s = 1..n, \A i \in 1..n : s[i] \in Prim /\ s[i].ref = 1,
           heap' = Release(Alloc(heap, NewAddrs(n), s), hprims[hidx]),
           hprims' = [hprims \o NewAddrs(n) EXCEPT ![hidx] = 0]
    PROVE  Replaces(NewAddrs(n), n, s)
<1> DEFINE A == NewAddrs(n)
           g == Alloc(heap, A, s)
           m == hprims \o A
<1>0. /\ heap \in [Addrs -> Prim] /\ hprims \in Lists0 /\ buckets \in Seq(Bucket)
      /\ Exact(heap, hprims, buckets)
  BY RefsAre DEF ListTypes, HTypeOK, Lists0
<1>1. Adds(heap, hprims, A, n, s, g, m)
  BY AddsHere
<1>2. heap' = Release(g, hprims[hidx]) /\ hprims' = [m EXCEPT ![hidx] = 0]
  OBVIOUS
<1> HIDE DEF A, g, m
<1>3. /\ g \in [Addrs -> Prim] /\ m \in Lists0 /\ Len(m) = Len(hprims) + n
      /\ \A i \in 1..Len(hprims) : m[i] = hprims[i]
  BY <1>0, <1>1, AddsTypes
<1>4. Exact(g, m, buckets)
  BY <1>0, <1>1, AddsExact
<1>5. hidx \in DOMAIN m /\ m[hidx] = hprims[hidx]
  BY <1>0, <1>3 DEF Lists0
<1>6. Freed(Release(g, m[hidx]), [m EXCEPT ![hidx] = 0], g, m, hidx, buckets)
  BY <1>0, <1>3, <1>4, <1>5, DoneExact
<1>7. Freed(heap', hprims', g, m, hidx, buckets)
  BY <1>2, <1>5, <1>6
<1> QED
  BY <1>1, <1>3, <1>5, <1>7 DEF Replaces, A

LEMMA ReplaceKeeps ==
    ASSUME ListTypes, NEW n \in Nat, NEW A, NEW s, Replaces(A, n, s)
    PROVE  /\ heap' \in [Addrs -> Prim] /\ hprims' \in Lists0 /\ Len(hprims') = Len(hprims) + n
           /\ Exact(heap', hprims', buckets)
<1>1. PICK g, m : /\ Adds(heap, hprims, A, n, s, g, m) /\ g \in [Addrs -> Prim] /\ m \in Lists0
                  /\ Freed(heap', hprims', g, m, hidx, buckets)
  BY DEF Replaces
<1>2. heap \in [Addrs -> Prim] /\ hprims \in Lists0
  BY DEF ListTypes, HTypeOK, Lists0
<1>3. Len(m) = Len(hprims) + n
  BY <1>1, <1>2, AddsTypes
<1> QED
  BY <1>1, <1>3 DEF Freed

LEMMA CatAt ==
    ASSUME NEW T, NEW l \in Seq(T), NEW t \in Seq(T)
    PROVE  /\ l \o t \in Seq(T) /\ Len(l \o t) = Len(l) + Len(t)
           /\ \A j \in 1..(Len(l) + Len(t)) :
                (l \o t)[j] = IF j <= Len(l) THEN l[j] ELSE t[j - Len(l)]
<1>1. l \o t \in Seq(T) /\ Len(l \o t) = Len(l) + Len(t)
  BY CatElements
<1>2. PICK c \in Seq(T) : c = l \o t /\ IsCat(c, l, t)
  BY CatIs, Zenon
<1>3. ASSUME NEW j \in 1..(Len(l) + Len(t))
      PROVE  c[j] = IF j <= Len(l) THEN l[j] ELSE t[j - Len(l)]
  <2>1. CASE j <= Len(l)
    <3>1. j \in 1..Len(l)
      BY <2>1
    <3> QED
      BY <1>2, <2>1, <3>1 DEF IsCat
  <2>2. CASE ~(j <= Len(l))
    <3>1. j - Len(l) \in 1..Len(t) /\ Len(l) + (j - Len(l)) = j
      BY <2>2
    <3>2. c[Len(l) + (j - Len(l))] = t[j - Len(l)]
      BY <1>2, <3>1 DEF IsCat
    <3> QED
      BY <2>2, <3>1, <3>2
  <2> QED
    BY <2>1, <2>2
<1> QED
  BY <1>1, <1>2, <1>3

\* The list grows at its end while an earlier entry is cleared, in either order.
LEMMA ClearCat ==
    ASSUME NEW T, 0 \in T, NEW l \in Seq(T), NEW t \in Seq(T), NEW i \in DOMAIN l
    PROVE  [l EXCEPT ![i] = 0] \o t = [l \o t EXCEPT ![i] = 0]
<1> DEFINE m == [l EXCEPT ![i] = 0]
           c == l \o t
           r == [c EXCEPT ![i] = 0]
<1>1. /\ m \in Seq(T) /\ Len(m) = Len(l) /\ Len(l) \in Nat /\ Len(t) \in Nat /\ i \in 1..Len(l)
      /\ \A j \in 1..Len(l) : m[j] = IF j = i THEN 0 ELSE l[j]
  OBVIOUS
<1>2. /\ c \in Seq(T) /\ Len(c) = Len(l) + Len(t)
      /\ \A j \in 1..(Len(l) + Len(t)) : c[j] = IF j <= Len(l) THEN l[j] ELSE t[j - Len(l)]
  BY CatAt
<1> HIDE DEF m, c
<1>3. /\ r \in Seq(T) /\ Len(r) = Len(l) + Len(t)
      /\ \A j \in 1..(Len(l) + Len(t)) : r[j] = IF j = i THEN 0 ELSE c[j]
  BY <1>1, <1>2
<1>4. /\ m \o t \in Seq(T) /\ Len(m \o t) = Len(l) + Len(t)
      /\ \A j \in 1..(Len(l) + Len(t)) : (m \o t)[j] = IF j <= Len(l) THEN m[j] ELSE t[j - Len(l)]
  <2>1. m \in Seq(T) /\ Len(m) = Len(l)
    BY <1>1
  <2>2. /\ m \o t \in Seq(T) /\ Len(m \o t) = Len(m) + Len(t)
        /\ \A j \in 1..(Len(m) + Len(t)) : (m \o t)[j] = IF j <= Len(m) THEN m[j] ELSE t[j - Len(m)]
    BY <2>1, CatAt
  <2> QED
    BY <2>1, <2>2
<1> HIDE DEF r
<1>5. \A j \in 1..(Len(l) + Len(t)) : (m \o t)[j] = r[j]
  BY <1>1, <1>2, <1>3, <1>4
<1>6. m \o t = r
  BY <1>3, <1>4, <1>5
<1> QED
  BY <1>6 DEF m, r, c

LEMMA ClearHere ==
    ASSUME hprims \in Lists0, hidx \in DOMAIN hprims, NEW A \in Seq(Addrs \cup {0})
    PROVE  [hprims EXCEPT ![hidx] = 0] \o A = [hprims \o A EXCEPT ![hidx] = 0]
<1>1. 0 \in Addrs \cup {0} /\ hprims \in Seq(Addrs \cup {0})
  BY DEF Lists0
<1> QED
  BY <1>1, ClearCat

LEMMA SimplifyStep ==
    ASSUME ListTypes, RefsExact, NEW n \in 0..MaxParts, Simplify(n)
    PROVE  ListTypes' /\ RefsExact' /\ Replaces(NewAddrs(n), n, NewSurfaces(n))
<1>0. /\ heap \in [Addrs -> Prim] /\ hprims \in Lists0 /\ inserted \in Nat /\ n \in Nat
      /\ hidx \in DOMAIN hprims /\ hprims[hidx] # 0 /\ n <= Cardinality(Free)
  BY HiderAssumption DEF ListTypes, HTypeOK, Lists0, Simplify, AtPrim
<1>1. /\ DOMAIN NewSurfaces(n) = 1..n
      /\ \A i \in 1..n : NewSurfaces(n)[i] \in Prim /\ NewSurfaces(n)[i].ref = 1
  BY <1>0, SurfacesAre
<1>2. NewAddrs(n) \in Seq(Addrs \cup {0})
  <2>1. Adds(heap, hprims, NewAddrs(n), n, NewSurfaces(n),
             Alloc(heap, NewAddrs(n), NewSurfaces(n)), hprims \o NewAddrs(n))
    BY <1>0, <1>1, AddsHere
  <2> QED
    BY <1>0, <2>1, AddsTypes DEF Lists0
<1>3. heap' = Release(Alloc(heap, NewAddrs(n), NewSurfaces(n)), hprims[hidx])
  BY DEF Simplify, NewSurfaces
<1>4. hprims' = [hprims \o NewAddrs(n) EXCEPT ![hidx] = 0]
  <2>1. hprims' = [hprims EXCEPT ![hidx] = 0] \o NewAddrs(n)
    BY DEF Simplify
  <2> QED
    BY <1>0, <1>2, <2>1, ClearHere
<1>5. Replaces(NewAddrs(n), n, NewSurfaces(n))
  BY <1>0, <1>1, <1>3, <1>4, ReplaceStep
<1>6. /\ heap' \in [Addrs -> Prim] /\ hprims' \in Lists0 /\ Len(hprims') = Len(hprims) + n
      /\ Exact(heap', hprims', buckets)
  BY <1>0, <1>5, ReplaceKeeps
<1>7. /\ UNCHANGED <<hphase, buckets, slots, frame, hub, fates>> /\ inserted' = inserted + n
      /\ hidx' = hidx + 1 /\ hidx <= Len(hprims)
  BY DEF Simplify, AtPrim
<1>8. RefsExact'
  BY <1>6, <1>7, RefsWillBe
<1>9. ListTypes'
  <2>1. hidx \in Nat /\ Len(hprims) \in Nat
    BY <1>0 DEF ListTypes, HTypeOK, Lists0
  <2>2. hidx' \in 0..(Len(hprims') + 1) /\ inserted' \in Nat
    BY <1>0, <1>6, <1>7, <2>1
  <2> QED
    BY <1>6, <1>7, <2>2 DEF ListTypes, HTypeOK, Lists0
<1> QED
  BY <1>5, <1>8, <1>9

LEMMA ThrowStep ==
    ASSUME ListTypes, RefsExact, NEW n \in 0..MaxParts, SimplifyThrows(n)
    PROVE  /\ ListTypes' /\ RefsExact'
           /\ Adds(heap, hprims, NewAddrs(n), n, NewSurfaces(n), heap', hprims')
<1>0. /\ heap \in [Addrs -> Prim] /\ hprims \in Lists0 /\ inserted \in Nat /\ n \in Nat
      /\ buckets \in Seq(Bucket) /\ Exact(heap, hprims, buckets) /\ n <= Cardinality(Free)
  BY RefsAre, HiderAssumption DEF ListTypes, HTypeOK, Lists0, SimplifyThrows
<1>1. /\ DOMAIN NewSurfaces(n) = 1..n
      /\ \A i \in 1..n : NewSurfaces(n)[i] \in Prim /\ NewSurfaces(n)[i].ref = 1
  BY <1>0, SurfacesAre
<1>2. heap' = Alloc(heap, NewAddrs(n), NewSurfaces(n)) /\ hprims' = hprims \o NewAddrs(n)
  BY DEF SimplifyThrows, NewSurfaces
<1>3. Adds(heap, hprims, NewAddrs(n), n, NewSurfaces(n), heap', hprims')
  BY <1>0, <1>1, <1>2, AddsHere
<1>4. heap' \in [Addrs -> Prim] /\ hprims' \in Lists0 /\ Len(hprims') = Len(hprims) + n
  BY <1>0, <1>3, AddsTypes
<1>5. Exact(heap', hprims', buckets)
  BY <1>0, <1>3, AddsExact
<1>6. /\ UNCHANGED <<buckets, slots, frame, hub, fates>> /\ inserted' = inserted + n
      /\ hidx' = 0 /\ hphase' = "idle"
  BY DEF SimplifyThrows
<1>7. RefsExact'
  BY <1>5, <1>6, RefsWillBe
<1>8. ListTypes'
  <2>1. hidx' \in 0..(Len(hprims') + 1) /\ inserted' \in Nat
    BY <1>0, <1>4, <1>6 DEF Lists0
  <2> QED
    BY <1>4, <1>6, <2>1 DEF ListTypes, HTypeOK, Lists0
<1> QED
  BY <1>3, <1>7, <1>8

LEMMA SplitPrimStep ==
    ASSUME ListTypes, RefsExact, SplitPrim
    PROVE  ListTypes' /\ RefsExact' /\ Replaces(NewAddrs(4), 4, Quarters(heap[hprims[hidx]]))
<1> DEFINE p == heap[hprims[hidx]]
<1>0. /\ heap \in [Addrs -> Prim] /\ hprims \in Lists0 /\ hidx \in DOMAIN hprims /\ hprims[hidx] # 0
      /\ 4 <= Cardinality(Free)
  BY FreeFinite DEF ListTypes, HTypeOK, Lists0, SplitPrim, AtPrim
<1>1. p \in Prim
  BY <1>0 DEF Lists0
<1>2. DOMAIN Quarters(p) = 1..4 /\ \A i \in 1..4 : Quarters(p)[i] \in Prim /\ Quarters(p)[i].ref = 1
  <2> HIDE DEF p
  <2>1. /\ DOMAIN Quarters(p) = 1..4
        /\ Quarter(p, Quarters(p)[1], Lower(p.u), Lower(p.v), 1)
        /\ Quarter(p, Quarters(p)[2], Upper(p.u), Lower(p.v), 1)
        /\ Quarter(p, Quarters(p)[3], Lower(p.u), Upper(p.v), 2)
        /\ Quarter(p, Quarters(p)[4], Upper(p.u), Upper(p.v), 2)
    BY <1>1, QuartersAre
  <2>2. \A i \in 1..4 : i = 1 \/ i = 2 \/ i = 3 \/ i = 4
    OBVIOUS
  <2> QED
    BY <2>1, <2>2 DEF Quarter
<1>3. /\ heap' = Release(Alloc(heap, NewAddrs(4), Quarters(p)), hprims[hidx])
      /\ hprims' = [hprims \o NewAddrs(4) EXCEPT ![hidx] = 0]
  BY DEF SplitPrim, PrimDone
<1>4. Replaces(NewAddrs(4), 4, Quarters(p))
  <2> HIDE DEF p
  <2> QED
    BY <1>0, <1>2, <1>3, ReplaceStep
<1>5. /\ heap' \in [Addrs -> Prim] /\ hprims' \in Lists0 /\ Len(hprims') = Len(hprims) + 4
      /\ Exact(heap', hprims', buckets)
  <2> HIDE DEF p
  <2> QED
    BY <1>4, ReplaceKeeps
<1>6. /\ UNCHANGED <<hphase, buckets, slots, frame, hub, inserted>> /\ fates' = fates
      /\ hidx' = hidx + 1 /\ hidx <= Len(hprims)
  BY DEF SplitPrim, PrimDone, AtPrim
<1>7. RefsExact'
  BY <1>5, <1>6, RefsWillBe
<1>8. ListTypes'
  <2>1. hidx \in Nat /\ Len(hprims) \in Nat
    BY <1>0 DEF ListTypes, HTypeOK, Lists0
  <2>2. hidx' \in 0..(Len(hprims') + 1)
    BY <1>5, <1>6, <2>1
  <2> QED
    BY <1>5, <1>6, <2>2 DEF ListTypes, HTypeOK, Lists0
<1> QED
  BY <1>4, <1>7, <1>8

\* The loop is done with the primitive at its index, whose record is g's.
LEMMA LeaveStep ==
    ASSUME ListTypes, NEW b2 \in Seq(Bucket), NEW g \in [Addrs -> Prim], Exact(g, hprims, b2),
           hphase = "split", hidx <= Len(hprims), hprims[hidx] # 0,
           NEW f \in SUBSET Part, PrimDone(g, hprims, f), buckets' = b2,
           \A i \in DOMAIN b2 : b2[i].slot \in 0..Len(slots)
    PROVE  ListTypes' /\ RefsExact' /\ Freed(heap', hprims', g, hprims, hidx, b2)
<1>0. /\ hprims \in Lists0 /\ hidx \in DOMAIN hprims /\ hidx \in Nat /\ Len(hprims) \in Nat
      /\ fates \subseteq Part
  BY DEF ListTypes, HTypeOK, Lists0
<1>1. /\ heap' = Release(g, hprims[hidx]) /\ hprims' = [hprims EXCEPT ![hidx] = 0]
      /\ fates' = fates \cup f /\ hidx' = hidx + 1
      /\ UNCHANGED <<hphase, slots, frame, hub, inserted, worlds, opened, mixed, firsts>>
  BY DEF PrimDone
<1>2. Freed(Release(g, hprims[hidx]), [hprims EXCEPT ![hidx] = 0], g, hprims, hidx, b2)
  BY <1>0, DoneExact
<1>3. Freed(heap', hprims', g, hprims, hidx, b2)
  BY <1>1, <1>2
<1>4. heap' \in [Addrs -> Prim] /\ hprims' \in Lists0 /\ Len(hprims') = Len(hprims)
  BY <1>3 DEF Freed
<1>5. RefsExact'
  <2>1. Exact(heap', hprims', buckets')
    BY <1>3 DEF Freed
  <2> QED
    BY <2>1, RefsWillBe
<1>6. fates' \subseteq Part /\ hidx' \in 0..(Len(hprims') + 1) /\ hidx' # 0
  BY <1>0, <1>1, <1>4
<1>7. ListTypes'
  BY <1>1, <1>4, <1>6 DEF ListTypes, HTypeOK, Lists0
<1> QED
  BY <1>3, <1>5, <1>7

LEMMA FateType ==
    ASSUME NEW p \in Prim, NEW d \in BOOLEAN
    PROVE  {Fate(p, d)} \in SUBSET Part
BY PrimFields DEF Fate, Part

LEMMA CullStep ==
    ASSUME ListTypes, RefsExact, Cull \/ DropPrim
    PROVE  ListTypes' /\ RefsExact' /\ Freed(heap', hprims', heap, hprims, hidx, buckets)
<1>0. /\ heap \in [Addrs -> Prim] /\ hprims \in Lists0 /\ buckets \in Seq(Bucket)
      /\ Exact(heap, hprims, buckets) /\ \A i \in DOMAIN buckets : buckets[i].slot \in 0..Len(slots)
      /\ hphase = "split" /\ hidx <= Len(hprims) /\ hidx \in DOMAIN hprims /\ hprims[hidx] # 0
      /\ buckets' = buckets
  BY RefsAre DEF ListTypes, HTypeOK, Lists0, Cull, DropPrim, AtPrim
<1>1. heap[hprims[hidx]] \in Prim
  BY <1>0 DEF Lists0
<1>2. CASE Cull
  <2>1. PrimDone(heap, hprims, {Fate(heap[hprims[hidx]], FALSE)})
    BY <1>2 DEF Cull
  <2>2. {Fate(heap[hprims[hidx]], FALSE)} \in SUBSET Part
    BY <1>1, FateType
  <2> QED
    BY <1>0, <2>1, <2>2, LeaveStep
<1>3. CASE DropPrim
  <2>1. PrimDone(heap, hprims, {Fate(heap[hprims[hidx]], TRUE)})
    BY <1>3 DEF DropPrim
  <2>2. {Fate(heap[hprims[hidx]], TRUE)} \in SUBSET Part
    BY <1>1, FateType
  <2> QED
    BY <1>0, <2>1, <2>2, LeaveStep
<1> QED
  BY <1>2, <1>3

\* Dice: the record of the primitive, and the buckets that borrow it.
Diced(b) ==
    [heap EXCEPT ![hprims[hidx]].ref =
                     @ + Cardinality({i \in DOMAIN buckets : Intersects(buckets[i].rect, b)}),
                 ![hprims[hidx]].bound = b]

LEMMA DiceStep ==
    ASSUME ListTypes, RefsExact, NEW b \in Bounds, Dice(b)
    PROVE  /\ ListTypes' /\ RefsExact'
           /\ Diced(b) \in [Addrs -> Prim]
           /\ Freed(heap', hprims', Diced(b), hprims, hidx, buckets')
<1> DEFINE p == hprims[hidx]
           B == {i \in DOMAIN buckets : Intersects(buckets[i].rect, b)}
           g == Diced(b)
           b2 == Borrow(buckets, B, p)
<1>0. /\ heap \in [Addrs -> Prim] /\ hprims \in Lists0 /\ buckets \in Seq(Bucket)
      /\ Exact(heap, hprims, buckets) /\ \A i \in DOMAIN buckets : buckets[i].slot \in 0..Len(slots)
      /\ hphase = "split" /\ hidx <= Len(hprims) /\ hidx \in DOMAIN hprims /\ p # 0
  BY RefsAre DEF ListTypes, HTypeOK, Lists0, Dice, AtPrim
<1>1. p \in Addrs /\ heap[p] \in Prim /\ B \in SUBSET DOMAIN buckets
  BY <1>0 DEF Lists0
<1>2. {Fate(heap[p], FALSE)} \in SUBSET Part
  BY <1>1, FateType
<1>3. g = [heap EXCEPT ![p].ref = @ + Cardinality(B), ![p].bound = b]
  BY DEF Diced
<1>4. PrimDone(g, hprims, {Fate(heap[p], FALSE)})
  BY DEF Dice, Diced
<1>5. buckets' = b2
  BY DEF Dice, Borrow
<1> HIDE DEF B, g, p
<1>6. g \in [Addrs -> Prim] /\ Exact(g, hprims, b2)
  BY <1>0, <1>1, <1>3, BorrowExact
<1>7. b2 \in Seq(Bucket) /\ DOMAIN b2 = DOMAIN buckets /\ \A i \in DOMAIN b2 : b2[i].slot = buckets[i].slot
  BY <1>0, <1>1, BorrowType
<1>8. \A i \in DOMAIN b2 : b2[i].slot \in 0..Len(slots)
  BY <1>0, <1>7
<1> HIDE DEF b2
<1>9. ListTypes' /\ RefsExact' /\ Freed(heap', hprims', g, hprims, hidx, b2)
  BY <1>0, <1>2, <1>4, <1>5, <1>6, <1>7, <1>8, LeaveStep DEF p
<1> QED
  BY <1>5, <1>6, <1>9 DEF g

\* The buckets and buffers of a new world are there.
Begins(set) ==
    /\ set.fmt \in (Nat \ {0}) \X (Nat \ {0}) /\ FrameOf(set).log \in 0..9 /\ frame' = FrameOf(set)
    /\ \E new : /\ Added(new, slots, Tiles(set.fmt), FrameOf(set).log)
                /\ slots' = new.slots /\ buckets' = buckets \o new.buckets

LEMMA WorldBeginStep ==
    ASSUME ListTypes, RefsExact, NEW set \in Settings, HWorldBegin(set)
    PROVE  /\ ListTypes' /\ RefsExact' /\ UNCHANGED <<hphase, hidx, hprims, heap, hub, fates, inserted>>
           /\ Begins(set)
<1> DEFINE log == SubPixDimLog2(set.samps[1] * set.samps[2])
           new == AddBuckets(slots, Tiles(set.fmt), log)
<1>0. /\ set.fmt \in (Nat \ {0}) \X (Nat \ {0}) /\ set.samps[1] \in 1..64 /\ set.samps[2] \in 1..64
  BY HiderAssumption
<1>1. log \in 0..9
  <2>1. set.samps[1] \in Sides /\ set.samps[2] \in Sides
    BY <1>0 DEF Sides
  <2>2. \A x, y \in Sides : SubPixDimLog2(x * y) \in 0..9
    BY SubPixRange
  <2> QED
    BY <2>1, <2>2
<1>2. slots' = new.slots /\ buckets' = buckets \o new.buckets
      /\ UNCHANGED <<hphase, hidx, hprims, heap, hub, fates, inserted>>
  BY DEF HWorldBegin, FrameOf
<1>11. frame' = FrameOf(set) /\ FrameOf(set).log = log
  BY DEF HWorldBegin, FrameOf
<1> HIDE DEF log
<1>3. Tiles(set.fmt) \in Seq(Tile)
  BY <1>0, TilesAre
<1>4. slots \in Seq(Slot) /\ Len(slots) <= SlotsN
  BY DEF ListTypes, HTypeOK
<1>5. Added(new, slots, Tiles(set.fmt), log)
  BY <1>1, <1>3, <1>4, AddBucketsIs
<1> HIDE DEF new
<1>6. /\ slots' \in Seq(Slot) /\ Len(slots') <= SlotsN /\ Len(slots) <= Len(slots')
      /\ new.buckets \in Seq(Bucket)
      /\ \A k \in DOMAIN new.buckets : /\ new.buckets[k].prims = <<>>
                                       /\ new.buckets[k].slot \in 0..Len(slots')
  <2>1. Len(Tiles(set.fmt)) \in Nat
    BY <1>3
  <2>2. new.buckets \in Seq(Bucket) /\ Len(new.buckets) = Len(Tiles(set.fmt))
    BY <1>5 DEF Added
  <2>3. DOMAIN new.buckets = 1..Len(Tiles(set.fmt))
    BY <2>2
  <2> QED
    BY <1>2, <1>5, <2>2, <2>3 DEF Added, Extends
<1>7. /\ buckets \in Seq(Bucket) /\ \A k \in DOMAIN buckets : buckets[k].slot \in 0..Len(slots)
      /\ Len(slots) \in Nat /\ Len(slots') \in Nat
  BY <1>6 DEF ListTypes, HTypeOK
<1>8. buckets' \in Seq(Bucket) /\ \A k \in DOMAIN buckets' : buckets'[k].slot \in 0..Len(slots')
  <2>1. PICK e \in Seq(Bucket) : e = new.buckets /\ \A k \in DOMAIN e : e[k].slot \in 0..Len(slots')
    BY <1>6
  <2>2. /\ buckets \o e \in Seq(Bucket) /\ DOMAIN (buckets \o e) = 1..(Len(buckets) + Len(e))
        /\ DOMAIN buckets = 1..Len(buckets) /\ DOMAIN e = 1..Len(e)
        /\ Len(e) \in Nat /\ Len(buckets) \in Nat
        /\ \A k \in 1..(Len(buckets) + Len(e)) :
             (buckets \o e)[k] = IF k <= Len(buckets) THEN buckets[k] ELSE e[k - Len(buckets)]
    BY <1>7
  <2>3. ASSUME NEW k \in 1..(Len(buckets) + Len(e)) PROVE (buckets \o e)[k].slot \in 0..Len(slots')
    <3>1. CASE k <= Len(buckets)
      <4>1. (buckets \o e)[k] = buckets[k] /\ k \in DOMAIN buckets
        BY <2>2, <3>1
      <4>2. buckets[k].slot \in 0..Len(slots)
        BY <1>7, <4>1
      <4> QED
        BY <1>6, <1>7, <4>1, <4>2
    <3>2. CASE k > Len(buckets)
      <4>1. (buckets \o e)[k] = e[k - Len(buckets)] /\ k - Len(buckets) \in DOMAIN e
        BY <2>2, <3>2
      <4> QED
        BY <2>1, <4>1
    <3> QED
      BY <2>2, <3>1, <3>2
  <2> QED
    BY <1>2, <2>1, <2>2, <2>3
<1>9. RefsExact'
  <2>1. \A a \in Addrs : Lists(buckets', a) = Lists(buckets, a)
    BY <1>2, <1>6, <1>7, ListsCat
  <2>2. Exact(heap', hprims', buckets')
    BY <1>2, <2>1, RefsAre DEF Exact
  <2> QED
    BY <2>2, RefsWillBe
<1>10. ListTypes'
  BY <1>2, <1>6, <1>8 DEF ListTypes, HTypeOK
<1>12. Begins(set)
  BY <1>0, <1>1, <1>2, <1>5, <1>11 DEF Begins
<1> QED
  BY <1>2, <1>9, <1>10, <1>12

LEMMA RenderReturnsStep ==
    ASSUME ListTypes, RefsExact, PhasesDone, RenderReturns
    PROVE  /\ ListTypes' /\ RefsExact'
           /\ hprims = <<>> /\ UNCHANGED <<hprims, fates, inserted>>
<1>0. /\ heap \in [Addrs -> Prim] /\ hprims = <<>> /\ Exact(heap, hprims, buckets)
      /\ hphase' = "idle" /\ buckets' = <<>> /\ UNCHANGED <<hidx, hprims, slots, frame, hub, fates, inserted>>
  BY RefsAre DEF ListTypes, HTypeOK, PhasesDone, RenderReturns, Renders
<1>1. \A a \in Addrs : Lists(buckets, a) \in Nat /\ heap[a].ref = Lists(buckets, a)
  <2> SUFFICES ASSUME NEW a \in Addrs PROVE Lists(buckets, a) \in Nat /\ heap[a].ref = Lists(buckets, a)
    OBVIOUS
  <2>1. Lists(buckets, a) \in Nat
    BY EntriesFinite DEF ListTypes
  <2>2. Occ(hprims, a) = 0
    BY <1>0, OccEmpty
  <2>3. heap[a].ref = Occ(hprims, a) + Lists(buckets, a)
    BY <1>0 DEF Exact
  <2> QED
    BY <2>1, <2>2, <2>3
<1>2. heap' = [a \in Addrs |-> Nothing]
  <2>1. \A a : Listed(a) = Lists(buckets, a)
    BY DEF Listed, Lists, Entries
  <2>2. heap' = [a \in Addrs |-> IF heap[a].ref = Lists(buckets, a) THEN Nothing
                                 ELSE [heap[a] EXCEPT !.ref = @ - Lists(buckets, a)]]
    BY <2>1 DEF RenderReturns
  <2> QED
    BY <1>1, <2>2
<1>3. heap' \in [Addrs -> Prim] /\ \A a \in Addrs : heap'[a].ref = 0
  BY <1>2, NothingType
<1>4. buckets' \in Seq(Bucket) /\ DOMAIN buckets' = {}
  BY <1>0
<1>5. RefsExact'
  <2>1. ASSUME NEW a \in Addrs PROVE heap'[a].ref = Occ(hprims', a) + Lists(buckets', a)
    <3>1. Lists(buckets', a) = 0
      BY <1>4, ListsNone
    <3>2. Occ(hprims', a) = 0
      BY <1>0, OccEmpty
    <3> QED
      BY <1>3, <3>1, <3>2
  <2> QED
    BY <2>1, RefsWillBe DEF Exact
<1>6. ListTypes'
  BY <1>0, <1>3, <1>4 DEF ListTypes, HTypeOK
<1> QED
  BY <1>0, <1>5, <1>6

LEMMA SplitEndStep ==
    ASSUME ListTypes, RefsExact, PhasesDone, SplitEnd
    PROVE  /\ ListTypes' /\ RefsExact'
           /\ Waits = {} /\ hprims' = <<>> /\ UNCHANGED <<heap, fates, inserted>>
<1>0. /\ heap \in [Addrs -> Prim] /\ hprims \in Lists0 /\ Exact(heap, hprims, buckets)
      /\ hidx > Len(hprims) /\ hphase = "split" /\ hphase' = "render" /\ hprims' = <<>> /\ hidx' = 0
      /\ UNCHANGED <<heap, buckets, slots, frame, hub, fates, inserted>>
  BY RefsAre DEF ListTypes, HTypeOK, SplitEnd, Lists0
<1>1. \A i \in DOMAIN hprims : hprims[i] = 0
  <2>1. \A i \in DOMAIN hprims : i < hidx => hprims[i] = 0
    BY <1>0 DEF PhasesDone
  <2>2. \A i \in DOMAIN hprims : i < hidx
    BY <1>0 DEF Lists0, ListTypes, HTypeOK
  <2> QED
    BY <2>1, <2>2
<1>2. RefsExact'
  <2>1. ASSUME NEW a \in Addrs PROVE heap'[a].ref = Occ(hprims', a) + Lists(buckets', a)
    <3>1. Occ(hprims, a) = 0
      <4>1. \A i \in DOMAIN hprims : hprims[i] # a
        BY <1>1 DEF Addrs
      <4> QED
        BY <1>0, <4>1, OccNone DEF Lists0
    <3>2. Occ(hprims', a) = 0
      BY <1>0, OccEmpty
    <3>3. heap[a].ref = Occ(hprims, a) + Lists(buckets, a)
      BY <1>0 DEF Exact
    <3> QED
      BY <1>0, <3>1, <3>2, <3>3
  <2> QED
    BY <2>1, RefsWillBe DEF Exact
<1>3. hprims' \in Seq(Addrs \cup {0}) /\ Len(hprims') = 0
  BY <1>0
<1>4. ListTypes'
  BY <1>0, <1>3 DEF ListTypes, HTypeOK
<1>5. Waits = {}
  BY <1>1 DEF Waits
<1> QED
  BY <1>0, <1>2, <1>4, <1>5

\* The steps that leave primitives, list and buckets alone.
Passes ==
    \/ HWorldEnd \/ SimplifySkip \/ SimplifyNull \/ SimplifyEnd \/ SplitSkip
    \/ RenderNull \/ RenderThrows \/ UNCHANGED hvars

LEMMA PassStep ==
    ASSUME ListTypes, RefsExact, Passes
    PROVE  ListTypes' /\ RefsExact' /\ UNCHANGED <<hprims, heap, buckets, slots, inserted>>
<1>0. /\ hprims \in Lists0 /\ Len(hprims) \in Nat /\ hidx \in 0..(Len(hprims) + 1)
      /\ (hphase \in {"simplify", "split"} => hidx # 0)
  BY DEF ListTypes, HTypeOK, Lists0
<1>1. UNCHANGED <<hprims, heap, buckets, slots, inserted>>
  BY DEF Passes, HWorldEnd, SimplifySkip, SimplifyNull, SimplifyEnd, SplitSkip, RenderNull,
         RenderThrows, hvars
<1>2. RefsExact'
  BY <1>1, RefsAre, RefsWillBe
<1>3. fates' \in SUBSET fates
  BY DEF Passes, HWorldEnd, SimplifySkip, SimplifyNull, SimplifyEnd, SplitSkip, RenderNull,
         RenderThrows, hvars
<1>4. /\ hphase' \in {"idle", "simplify", "split", "render"} /\ hub' \in {"no", "null", "slots"}
      /\ hidx' \in 0..(Len(hprims) + 1) /\ (hphase' \in {"simplify", "split"} => hidx' # 0)
  <2>0. hphase \in {"idle", "simplify", "split", "render"} /\ hub \in {"no", "null", "slots"}
    BY DEF ListTypes, HTypeOK
  <2>1. CASE HWorldEnd \/ SimplifyEnd
    BY <1>0, <2>0, <2>1 DEF HWorldEnd, SimplifyEnd
  <2>2. CASE SimplifySkip \/ SplitSkip
    BY <1>0, <2>0, <2>2 DEF SimplifySkip, SplitSkip, AtPrim
  <2>3. CASE SimplifyNull
    BY <1>0, <2>0, <2>3 DEF SimplifyNull, AtPrim
  <2>4. CASE RenderNull \/ RenderThrows
    BY <1>0, <2>0, <2>4 DEF RenderNull, RenderThrows, Renders
  <2>5. CASE UNCHANGED hvars
    BY <1>0, <2>0, <2>5 DEF hvars
  <2> QED
    BY <2>1, <2>2, <2>3, <2>4, <2>5 DEF Passes
<1>5. ListTypes'
  BY <1>1, <1>3, <1>4 DEF ListTypes, HTypeOK
<1> QED
  BY <1>1, <1>2, <1>5

LEMMA InitTypes == HInit => ListTypes /\ RefsExact
<1> SUFFICES ASSUME HInit PROVE ListTypes /\ RefsExact
  OBVIOUS
<1>0. /\ hphase = "idle" /\ hidx = 0 /\ hprims = <<>> /\ heap = [a \in Addrs |-> Nothing]
      /\ buckets = <<>> /\ slots = <<>> /\ hub = "no" /\ fates = {} /\ inserted = 0
  BY DEF HInit
<1>1. heap \in [Addrs -> Prim] /\ \A a \in Addrs : heap[a].ref = 0
  BY <1>0, NothingType
<1>2. hprims \in Seq(Addrs \cup {0}) /\ Len(hprims) = 0 /\ slots \in Seq(Slot) /\ Len(slots) = 0
  BY <1>0
<1>3. buckets \in Seq(Bucket) /\ DOMAIN buckets = {}
  BY <1>0
<1>4. ListTypes
  BY <1>0, <1>1, <1>2, <1>3 DEF ListTypes, HTypeOK, SlotsN
<1>5. ASSUME NEW a \in Addrs PROVE heap[a].ref = Occ(hprims, a) + Lists(buckets, a)
  <2>1. Lists(buckets, a) = 0
    BY <1>3, ListsNone
  <2>2. Occ(hprims, a) = 0
    BY <1>0, OccEmpty
  <2> QED
    BY <1>1, <2>1, <2>2
<1> QED
  BY <1>4, <1>5, RefsAre DEF Exact

----------------------------------------------------------------------------
(* What waits, when primitives come and go.                                *)

InList(l) == {l[i] : i \in DOMAIN l} \ {0}
Once(l) == \A i, j \in DOMAIN l : l[i] # 0 /\ l[i] = l[j] => i = j

\* Of those that wait P are gone, and the n of s have come, at A.
Turns(W, h, P, A, n, s, W2, h2) ==
    /\ W2 = (W \ P) \cup {A[i] : i \in 1..n}
    /\ \A i \in 1..n : A[i] \in Addrs /\ A[i] \notin W /\ h2[A[i]] = s[i]
    /\ \A i, j \in 1..n : A[i] = A[j] => i = j
    /\ \A a \in W \ P : h2[a] = h[a]

LEMMA InListType ==
    ASSUME NEW l \in Lists0
    PROVE  InList(l) \subseteq Addrs
BY DEF InList, Lists0

LEMMA UsedIfListed ==
    ASSUME NEW h, NEW l \in Lists0, NEW b \in Seq(Bucket), Exact(h, l, b), NEW a \in InList(l)
    PROVE  h[a].ref # 0
<1>1. a \in Addrs /\ \E i \in DOMAIN l : l[i] = a
  BY InListType DEF InList
<1>2. Occ(l, a) # 0
  BY <1>1, OccNone DEF Lists0
<1>3. Occ(l, a) \in Nat /\ Lists(b, a) \in Nat /\ h[a].ref = Occ(l, a) + Lists(b, a)
  BY <1>1, AtFinite, EntriesFinite DEF Exact, Lists0
<1> QED
  BY <1>2, <1>3

LEMMA AddsTurns ==
    ASSUME NEW h \in [Addrs -> Prim], NEW l \in Lists0, NEW A, NEW n, NEW s, NEW h2, NEW l2,
           Adds(h, l, A, n, s, h2, l2), NEW b \in Seq(Bucket), Exact(h, l, b), Once(l)
    PROVE  Once(l2) /\ Turns(InList(l), h, {}, A, n, s, InList(l2), h2)
<1>1. /\ h2 \in [Addrs -> Prim] /\ l2 \in Lists0 /\ Len(l2) = Len(l) + n /\ n \in Nat
      /\ \A i \in 1..n : A[i] \in Addrs /\ h[A[i]].ref = 0 /\ h2[A[i]] = s[i]
      /\ \A i, j \in 1..n : A[i] = A[j] => i = j
      /\ \A a \in Addrs : (\A i \in 1..n : A[i] # a) => h2[a] = h[a]
      /\ \A i \in 1..Len(l) : l2[i] = l[i]
      /\ \A i \in (Len(l) + 1)..(Len(l) + n) : l2[i] = A[i - Len(l)]
  <2>1. n \in Nat
    BY DEF Adds
  <2>2. /\ h2 \in [Addrs -> Prim] /\ l2 \in Lists0 /\ Len(l2) = Len(l) + n
        /\ \A i \in 1..n : A[i] \in Addrs /\ h[A[i]].ref = 0 /\ h2[A[i]] = s[i]
        /\ \A i, j \in 1..n : A[i] = A[j] => i = j
        /\ \A a \in Addrs : (\A i \in 1..n : A[i] # a) => h2[a] = h[a]
    BY AddsTypes
  <2>3. /\ \A i \in 1..Len(l) : l2[i] = l[i]
        /\ \A i \in (Len(l) + 1)..(Len(l) + n) : l2[i] = A[i - Len(l)]
    BY AddsTypes
  <2> QED
    BY <2>1, <2>2, <2>3
<1>2. Len(l) \in Nat /\ DOMAIN l = 1..Len(l) /\ DOMAIN l2 = 1..(Len(l) + n)
  BY <1>1 DEF Lists0
<1>3. \A i \in 1..n : A[i] \notin InList(l) /\ A[i] # 0
  <2>1. \A a \in InList(l) : h[a].ref # 0
    BY UsedIfListed
  <2> QED
    BY <1>1, <2>1 DEF Addrs
<1>4. InList(l2) = InList(l) \cup {A[i] : i \in 1..n}
  <2>1. ASSUME NEW a \in InList(l2) PROVE a \in InList(l) \cup {A[i] : i \in 1..n}
    <3>1. PICK i \in 1..(Len(l) + n) : l2[i] = a /\ a # 0
      BY <1>2 DEF InList
    <3>2. CASE i <= Len(l)
      BY <1>1, <1>2, <3>1, <3>2 DEF InList
    <3>3. CASE i > Len(l)
      <4>1. i - Len(l) \in 1..n /\ a = A[i - Len(l)]
        BY <1>1, <1>2, <3>1, <3>3
      <4> QED
        BY <4>1
    <3> QED
      BY <1>2, <3>2, <3>3
  <2>2. ASSUME NEW a \in InList(l) PROVE a \in InList(l2)
    <3>1. PICK i \in 1..Len(l) : l[i] = a /\ a # 0
      BY <1>2 DEF InList
    <3>2. i \in DOMAIN l2 /\ l2[i] = a
      BY <1>1, <1>2, <3>1
    <3> QED
      BY <3>1, <3>2 DEF InList
  <2>3. ASSUME NEW k \in 1..n PROVE A[k] \in InList(l2)
    <3>1. PICK i \in 1..(Len(l) + n) : i = Len(l) + k /\ i \in (Len(l) + 1)..(Len(l) + n)
      BY <1>1, <1>2
    <3>2. l2[i] = A[k] /\ i \in DOMAIN l2
      BY <1>1, <1>2, <3>1
    <3>3. l2[i] # 0
      BY <1>3, <3>2
    <3> QED
      BY <3>2, <3>3, Zenon DEF InList
  <2> QED
    BY <2>1, <2>2, <2>3
<1>5. Once(l2)
  <2> SUFFICES ASSUME NEW i \in 1..(Len(l) + n), NEW j \in 1..(Len(l) + n), l2[i] # 0, l2[i] = l2[j]
               PROVE  i = j
    BY <1>2 DEF Once
  <2>1. CASE i <= Len(l) /\ j <= Len(l)
    <3>1. i \in DOMAIN l /\ j \in DOMAIN l /\ l2[i] = l[i] /\ l2[j] = l[j]
      BY <1>1, <1>2, <2>1
    <3> QED
      BY <3>1 DEF Once
  <2>2. CASE i > Len(l) /\ j > Len(l)
    <3>1. i - Len(l) \in 1..n /\ j - Len(l) \in 1..n /\ l2[i] = A[i - Len(l)] /\ l2[j] = A[j - Len(l)]
      BY <1>1, <1>2, <2>2
    <3>2. i - Len(l) = j - Len(l)
      BY <1>1, <3>1
    <3> QED
      BY <1>2, <3>2
  <2>3. ASSUME NEW x \in 1..(Len(l) + n), NEW y \in 1..(Len(l) + n), x <= Len(l), y > Len(l),
               l2[x] # 0, l2[x] = l2[y]
        PROVE  FALSE
    <3>1. x \in DOMAIN l /\ l2[x] = l[x] /\ y - Len(l) \in 1..n /\ l2[y] = A[y - Len(l)]
      BY <1>1, <1>2, <2>3
    <3>2. l2[x] \in InList(l)
      BY <2>3, <3>1 DEF InList
    <3> QED
      BY <1>3, <2>3, <3>1, <3>2
  <2> QED
    BY <1>2, <2>1, <2>2, <2>3
<1>6. \A a \in InList(l) : h2[a] = h[a]
  <2> SUFFICES ASSUME NEW a \in InList(l) PROVE h2[a] = h[a]
    OBVIOUS
  <2>1. a \in Addrs /\ \A i \in 1..n : A[i] # a
    BY <1>3, InListType
  <2> QED
    BY <1>1, <2>1
<1> QED
  BY <1>1, <1>3, <1>4, <1>5, <1>6 DEF Turns

LEMMA FreedTurns ==
    ASSUME NEW h, NEW l \in Lists0, NEW i \in DOMAIN l, NEW g, NEW m, NEW b,
           Freed(g, m, h, l, i, b), Once(l)
    PROVE  /\ Once(m) /\ InList(m) = InList(l) \ {l[i]} /\ l[i] \in InList(l)
           /\ \A a \in InList(m) : g[a] = h[a]
<1>1. /\ l[i] \in Addrs /\ \A a \in Addrs : a # l[i] => g[a] = h[a]
      /\ m \in Lists0 /\ Len(m) = Len(l) /\ m[i] = 0 /\ \A j \in DOMAIN l : j # i => m[j] = l[j]
      /\ l[i] # 0
  BY DEF Freed, Addrs
<1>2. DOMAIN m = DOMAIN l
  BY <1>1 DEF Lists0
<1>3. Once(m)
  BY <1>1, <1>2 DEF Once
<1>4. InList(m) = InList(l) \ {l[i]}
  <2>1. ASSUME NEW a \in InList(m) PROVE a \in InList(l) \ {l[i]}
    <3>1. PICK j \in DOMAIN l : m[j] = a /\ a # 0
      BY <1>2 DEF InList
    <3>2. j # i /\ l[j] = a
      BY <1>1, <3>1
    <3>3. a # l[i]
      BY <1>1, <3>2 DEF Once
    <3> QED
      BY <3>1, <3>2, <3>3 DEF InList
  <2>2. ASSUME NEW a \in InList(l), a # l[i] PROVE a \in InList(m)
    <3>1. PICK j \in DOMAIN l : l[j] = a /\ a # 0
      BY DEF InList
    <3>2. m[j] = a /\ j \in DOMAIN m
      BY <1>1, <1>2, <2>2, <3>1
    <3> QED
      BY <3>1, <3>2 DEF InList
  <2> QED
    BY <2>1, <2>2
<1>5. \A a \in InList(m) : g[a] = h[a]
  BY <1>1, <1>4, InListType
<1>6. l[i] \in InList(l)
  BY <1>1 DEF InList
<1> QED
  BY <1>3, <1>4, <1>5, <1>6

LEMMA WaitsAre == Waits = InList(hprims) /\ Waits' = InList(hprims')
BY DEF Waits, InList

LEMMA ListedAre == (ListedOnce <=> Once(hprims)) /\ (ListedOnce' <=> Once(hprims'))
BY DEF ListedOnce, Once

LEMMA AddsTurnsHere ==
    ASSUME ListTypes, RefsExact, ListedOnce, NEW A, NEW n, NEW s,
           Adds(heap, hprims, A, n, s, heap', hprims')
    PROVE  ListedOnce' /\ Turns(Waits, heap, {}, A, n, s, Waits', heap')
<1>1. /\ heap \in [Addrs -> Prim] /\ hprims \in Lists0 /\ buckets \in Seq(Bucket)
      /\ Exact(heap, hprims, buckets) /\ Once(hprims)
  BY RefsAre, ListedAre DEF ListTypes, HTypeOK, Lists0
<1>2. Once(hprims') /\ Turns(InList(hprims), heap, {}, A, n, s, InList(hprims'), heap')
  BY <1>1, AddsTurns
<1> QED
  BY <1>2, WaitsAre, ListedAre

LEMMA ReplacesTurnsHere ==
    ASSUME ListTypes, RefsExact, ListedOnce, NEW A, NEW n, NEW s, Replaces(A, n, s),
           hidx \in DOMAIN hprims, hprims[hidx] # 0
    PROVE  /\ ListedOnce' /\ hprims[hidx] \in Waits
           /\ Turns(Waits, heap, {hprims[hidx]}, A, n, s, Waits', heap')
<1> DEFINE p == hprims[hidx]
<1>1. /\ heap \in [Addrs -> Prim] /\ hprims \in Lists0 /\ buckets \in Seq(Bucket)
      /\ Exact(heap, hprims, buckets) /\ Once(hprims)
  BY RefsAre, ListedAre DEF ListTypes, HTypeOK, Lists0
<1>2. PICK g, m : /\ Adds(heap, hprims, A, n, s, g, m) /\ g \in [Addrs -> Prim] /\ m \in Lists0
                  /\ m[hidx] = p /\ hidx \in DOMAIN m
                  /\ Freed(heap', hprims', g, m, hidx, buckets)
  BY DEF Replaces
<1>3. Once(m) /\ Turns(InList(hprims), heap, {}, A, n, s, InList(m), g)
  BY <1>1, <1>2, AddsTurns
<1>4. /\ Once(hprims') /\ InList(hprims') = InList(m) \ {m[hidx]}
      /\ \A a \in InList(hprims') : heap'[a] = g[a]
  BY <1>2, <1>3, FreedTurns
<1>5. p \in InList(hprims)
  BY DEF InList
<1> HIDE DEF p
<1>6. Turns(InList(hprims), heap, {p}, A, n, s, InList(hprims'), heap')
  BY <1>2, <1>3, <1>4, <1>5 DEF Turns
<1> QED
  BY <1>4, <1>5, <1>6, WaitsAre, ListedAre DEF p

LEMMA FreedTurnsHere ==
    ASSUME ListTypes, ListedOnce, NEW g, NEW b, hidx \in DOMAIN hprims,
           Freed(heap', hprims', g, hprims, hidx, b),
           \A a \in Waits : a # hprims[hidx] => g[a] = heap[a], NEW A, NEW s
    PROVE  /\ ListedOnce' /\ hprims[hidx] \in Waits
           /\ Turns(Waits, heap, {hprims[hidx]}, A, 0, s, Waits', heap')
<1>1. hprims \in Lists0 /\ Once(hprims)
  BY ListedAre DEF ListTypes, HTypeOK, Lists0
<1>2. /\ Once(hprims') /\ InList(hprims') = InList(hprims) \ {hprims[hidx]}
      /\ hprims[hidx] \in InList(hprims) /\ \A a \in InList(hprims') : heap'[a] = g[a]
  BY <1>1, FreedTurns
<1>3. 1..0 = {}
  OBVIOUS
<1>4. Turns(Waits, heap, {hprims[hidx]}, A, 0, s, Waits', heap')
  BY <1>2, <1>3, WaitsAre DEF Turns
<1> QED
  BY <1>2, <1>4, WaitsAre, ListedAre

----------------------------------------------------------------------------
(* What a phase has done stays done.                                       *)

LEMMA ClearedStays ==
    ASSUME ListTypes, PhasesDone, hphase = "split", hidx \in DOMAIN hprims, hprims' \in Lists0,
           hidx' = hidx + 1, hprims'[hidx] = 0, \A i \in 1..(hidx - 1) : hprims'[i] = hprims[i]
    PROVE  \A i \in DOMAIN hprims' : i < hidx' => hprims'[i] = 0
<1>1. hidx \in Nat /\ hprims \in Lists0 /\ DOMAIN hprims = 1..Len(hprims) /\ Len(hprims) \in Nat
  BY DEF ListTypes, HTypeOK, Lists0
<1>2. \A i \in DOMAIN hprims : i < hidx => hprims[i] = 0
  BY DEF PhasesDone
<1>3. DOMAIN hprims' = 1..Len(hprims') /\ Len(hprims') \in Nat
  BY DEF Lists0
<1>4. ASSUME NEW i \in 1..Len(hprims'), i < hidx' PROVE hprims'[i] = 0
  <2>1. CASE i = hidx
    BY <2>1
  <2>2. CASE i # hidx
    <3>1. i \in 1..(hidx - 1) /\ i \in DOMAIN hprims /\ i < hidx
      BY <1>1, <1>3, <1>4, <2>2
    <3>2. hprims'[i] = hprims[i] /\ hprims[i] = 0
      BY <1>2, <3>1
    <3> QED
      BY <3>2
  <2> QED
    BY <2>1, <2>2
<1> QED
  BY <1>3, <1>4

LEMMA SplitEarlier ==
    ASSUME ListTypes, RefsExact, hidx \in DOMAIN hprims, NEW A, NEW n, NEW s, Replaces(A, n, s)
    PROVE  hprims' \in Lists0 /\ hprims'[hidx] = 0 /\ \A i \in 1..(hidx - 1) : hprims'[i] = hprims[i]
<1>0. heap \in [Addrs -> Prim] /\ hprims \in Lists0
  BY DEF ListTypes, HTypeOK, Lists0
<1>1. PICK g, m : /\ Adds(heap, hprims, A, n, s, g, m) /\ m \in Lists0 /\ hidx \in DOMAIN m
                  /\ Freed(heap', hprims', g, m, hidx, buckets)
  BY DEF Replaces
<1>2. \A i \in 1..Len(hprims) : m[i] = hprims[i]
  BY <1>0, <1>1, AddsTypes
<1>3. hprims' \in Lists0 /\ hprims'[hidx] = 0 /\ \A j \in DOMAIN m : j # hidx => hprims'[j] = m[j]
  BY <1>1 DEF Freed
<1>4. ASSUME NEW i \in 1..(hidx - 1) PROVE hprims'[i] = hprims[i]
  <2>1. i \in 1..Len(hprims) /\ i \in DOMAIN m /\ i # hidx
    BY <1>0, <1>1 DEF Lists0
  <2> QED
    BY <1>2, <1>3, <2>1
<1> QED
  BY <1>3, <1>4

LEMMA StepCases ==
    ASSUME HNext \/ UNCHANGED hvars
    PROVE  \/ \E set \in Settings : HWorldBegin(set)
           \/ \E complex, bad \in BOOLEAN : HInsert(complex, bad)
           \/ \E n \in 0..MaxParts : Simplify(n)
           \/ \E n \in 0..MaxParts : SimplifyThrows(n)
           \/ SplitPrim
           \/ Cull \/ DropPrim
           \/ \E b \in Bounds : Dice(b)
           \/ SplitEnd
           \/ RenderReturns
           \/ Passes
BY DEF HNext, WorldEndStep, Passes

LEMMA PhasesStep ==
    ASSUME ListTypes, RefsExact, PhasesDone, HNext \/ UNCHANGED hvars
    PROVE  PhasesDone'
<1>1. CASE \E set \in Settings : HWorldBegin(set)
  BY <1>1 DEF HWorldBegin, PhasesDone
<1>2. CASE \E complex, bad \in BOOLEAN : HInsert(complex, bad)
  BY <1>2 DEF HInsert, PhasesDone
<1>3. CASE \E n \in 0..MaxParts : Simplify(n)
  BY <1>3 DEF Simplify, AtPrim, PhasesDone
<1>4. CASE \E n \in 0..MaxParts : SimplifyThrows(n)
  BY <1>4 DEF SimplifyThrows, PhasesDone
<1>5. CASE SplitPrim
  <2>1. hphase = "split" /\ hphase' = "split" /\ hidx \in DOMAIN hprims /\ hidx' = hidx + 1
    BY <1>5 DEF SplitPrim, PrimDone, AtPrim, ListTypes, HTypeOK
  <2>2. Replaces(NewAddrs(4), 4, Quarters(heap[hprims[hidx]]))
    BY <1>5, SplitPrimStep
  <2>3. hprims' \in Lists0 /\ hprims'[hidx] = 0 /\ \A i \in 1..(hidx - 1) : hprims'[i] = hprims[i]
    BY <2>1, <2>2, SplitEarlier
  <2>4. \A i \in DOMAIN hprims' : i < hidx' => hprims'[i] = 0
    BY <2>1, <2>3, ClearedStays
  <2> QED
    BY <2>1, <2>4 DEF PhasesDone
<1>6. CASE Cull \/ DropPrim \/ \E b \in Bounds : Dice(b)
  <2>1. /\ hphase = "split" /\ hphase' = "split" /\ hidx \in DOMAIN hprims /\ hidx' = hidx + 1
        /\ hprims \in Lists0 /\ hprims' = [hprims EXCEPT ![hidx] = 0]
    <3>1. /\ hidx \in 0..(Len(hprims) + 1) /\ (hphase \in {"simplify", "split"} => hidx # 0)
          /\ hprims \in Lists0
      BY DEF ListTypes, HTypeOK, Lists0
    <3>2. /\ hphase = "split" /\ hphase' = hphase /\ hidx <= Len(hprims) /\ hidx' = hidx + 1
          /\ hprims' = [hprims EXCEPT ![hidx] = 0]
      <4>1. CASE Cull
        BY <4>1 DEF Cull, PrimDone, AtPrim
      <4>2. CASE DropPrim
        BY <4>2 DEF DropPrim, PrimDone, AtPrim
      <4>3. CASE \E b \in Bounds : Dice(b)
        BY <4>3 DEF Dice, PrimDone, AtPrim
      <4> QED
        BY <1>6, <4>1, <4>2, <4>3
    <3> QED
      BY <3>1, <3>2 DEF Lists0
  <2>2. hprims' \in Lists0 /\ hprims'[hidx] = 0 /\ \A i \in 1..(hidx - 1) : hprims'[i] = hprims[i]
    BY <2>1 DEF Lists0
  <2>3. \A i \in DOMAIN hprims' : i < hidx' => hprims'[i] = 0
    BY <2>1, <2>2, ClearedStays
  <2> QED
    BY <2>1, <2>3 DEF PhasesDone
<1>7. CASE SplitEnd
  BY <1>7 DEF SplitEnd, PhasesDone
<1>8. CASE RenderReturns
  BY <1>8 DEF RenderReturns, PhasesDone
<1>9. CASE Passes
  <2>1. CASE HWorldEnd
    BY <2>1 DEF HWorldEnd, PhasesDone
  <2>2. CASE SimplifySkip \/ SimplifyNull
    BY <2>2 DEF SimplifySkip, SimplifyNull, AtPrim, PhasesDone
  <2>3. CASE SimplifyEnd
    <3>1. \A i \in DOMAIN hprims : ~(i < 1)
      BY DEF ListTypes, HTypeOK
    <3> QED
      BY <2>3, <3>1 DEF SimplifyEnd, PhasesDone
  <2>4. CASE SplitSkip
    <3>1. /\ hphase = "split" /\ hphase' = "split" /\ hidx \in DOMAIN hprims /\ hidx' = hidx + 1
          /\ hprims \in Lists0 /\ hprims' = hprims /\ hprims[hidx] = 0
      BY <2>4 DEF SplitSkip, AtPrim, ListTypes, HTypeOK, Lists0
    <3>2. \A i \in DOMAIN hprims' : i < hidx' => hprims'[i] = 0
      BY <3>1, ClearedStays
    <3> QED
      BY <3>1, <3>2 DEF PhasesDone
  <2>5. CASE RenderNull
    BY <2>5 DEF RenderNull, PhasesDone
  <2>6. CASE RenderThrows
    BY <2>6 DEF RenderThrows, PhasesDone
  <2>7. CASE UNCHANGED hvars
    BY <2>7 DEF hvars, PhasesDone
  <2> QED
    BY <1>9, <2>1, <2>2, <2>3, <2>4, <2>5, <2>6, <2>7 DEF Passes
<1> QED
  BY <1>1, <1>2, <1>3, <1>4, <1>5, <1>6, <1>7, <1>8, <1>9, StepCases

(* The types, the reference counts and the phases are inductive by         *)
(* themselves.                                                             *)
LEMMA CountsStep ==
    ASSUME ListTypes, RefsExact, PhasesDone, HNext \/ UNCHANGED hvars
    PROVE  ListTypes' /\ RefsExact' /\ PhasesDone'
<1>1. PhasesDone'
  BY PhasesStep
<1>2. CASE \E set \in Settings : HWorldBegin(set)
  BY <1>1, <1>2, WorldBeginStep
<1>3. CASE \E complex, bad \in BOOLEAN : HInsert(complex, bad)
  BY <1>1, <1>3, InsertStep
<1>4. CASE \E n \in 0..MaxParts : Simplify(n)
  BY <1>1, <1>4, SimplifyStep
<1>5. CASE \E n \in 0..MaxParts : SimplifyThrows(n)
  BY <1>1, <1>5, ThrowStep
<1>6. CASE SplitPrim
  BY <1>1, <1>6, SplitPrimStep
<1>7. CASE Cull \/ DropPrim
  BY <1>1, <1>7, CullStep
<1>8. CASE \E b \in Bounds : Dice(b)
  BY <1>1, <1>8, DiceStep
<1>9. CASE SplitEnd
  BY <1>1, <1>9, SplitEndStep
<1>10. CASE RenderReturns
  BY <1>1, <1>10, RenderReturnsStep
<1>11. CASE Passes
  BY <1>1, <1>11, PassStep
<1> QED
  BY <1>2, <1>3, <1>4, <1>5, <1>6, <1>7, <1>8, <1>9, <1>10, <1>11, StepCases

(* The types and the counts of references hold in every reachable state:   *)
(* no list names a primitive that is deleted, and none that no list names  *)
(* is kept, whatever worlds fail.                                          *)
LEMMA CountsInvariance == HSpec => [](ListTypes /\ RefsExact /\ PhasesDone)
<1>1. HInit => ListTypes /\ RefsExact /\ PhasesDone
  BY InitTypes DEF HInit, PhasesDone
<1>2. (ListTypes /\ RefsExact /\ PhasesDone) /\ [HNext]_hvars => (ListTypes /\ RefsExact /\ PhasesDone)'
  BY CountsStep
<1> QED
  BY <1>1, <1>2, PTL DEF HSpec

----------------------------------------------------------------------------
(* What covers a unit of a surface, as primitives come and go.             *)

Hit(x, r, i, j) == x.root = r /\ Covers(x, i, j)

\* Of those that wait (W, with the records of h) and those that are done with (F).
CoveredBy(W, h, F, r, i, j) ==
    \/ \E a \in W : /\ Hit(h[a], r, i, j) /\ \A b \in W : Hit(h[b], r, i, j) => b = a
                    /\ \A f \in F : ~Hit(f, r, i, j)
    \/ \E f \in F : /\ Hit(f, r, i, j) /\ \A g \in F : Hit(g, r, i, j) => g = f
                    /\ \A a \in W : ~Hit(h[a], r, i, j)

LEMMA TurnsFrom ==
    ASSUME NEW W, NEW h, NEW P, NEW A, NEW n, NEW s, NEW W2, NEW h2, Turns(W, h, P, A, n, s, W2, h2),
           NEW a \in W2
    PROVE  (a \in W \ P /\ h2[a] = h[a]) \/ \E k \in 1..n : a = A[k] /\ h2[a] = s[k]
<1>1. CASE a \in W \ P
  BY <1>1, Zenon DEF Turns
<1>2. CASE \E k \in 1..n : a = A[k]
  BY <1>2, Zenon DEF Turns
<1>3. a \in (W \ P) \cup {A[k] : k \in 1..n}
  BY Zenon DEF Turns
<1> QED
  BY <1>1, <1>2, <1>3

LEMMA CoverKeeps ==
    ASSUME NEW W, NEW h, NEW F, NEW P, NEW A, NEW n, NEW s, NEW W2, NEW h2, NEW r, NEW i, NEW j,
           Turns(W, h, P, A, n, s, W2, h2), CoveredBy(W, h, F, r, i, j),
           \A a \in P : h[a].root # r, \A k \in 1..n : s[k].root # r
    PROVE  CoveredBy(W2, h2, F, r, i, j)
<1>1. ASSUME NEW a \in W2, Hit(h2[a], r, i, j) PROVE a \in W /\ h2[a] = h[a]
  <2>1. (a \in W \ P /\ h2[a] = h[a]) \/ \E k \in 1..n : a = A[k] /\ h2[a] = s[k]
    BY TurnsFrom
  <2> QED
    BY <1>1, <2>1 DEF Hit
<1>2. \A a \in W : Hit(h[a], r, i, j) => a \in W2 /\ h2[a] = h[a]
  BY Zenon DEF Turns, Hit
<1> QED
  BY <1>1, <1>2, Zenon DEF CoveredBy

LEMMA CoverNew ==
    ASSUME NEW W, NEW h, NEW F, NEW P, NEW A, NEW n, NEW s, NEW W2, NEW h2, NEW r, NEW i, NEW j,
           Turns(W, h, P, A, n, s, W2, h2), NEW k \in 1..n, Hit(s[k], r, i, j),
           \A m \in 1..n : s[m].root = r => m = k,
           \A a \in W : h[a].root # r, \A f \in F : f.root # r
    PROVE  CoveredBy(W2, h2, F, r, i, j)
<1>1. A[k] \in W2 /\ Hit(h2[A[k]], r, i, j)
  BY Zenon DEF Turns
<1>2. ASSUME NEW b \in W2, Hit(h2[b], r, i, j) PROVE b = A[k]
  <2>1. CASE b \in W \ P
    BY <1>2, <2>1, Zenon DEF Turns, Hit
  <2>2. CASE \E m \in 1..n : b = A[m]
    <3>1. PICK m \in 1..n : b = A[m]
      BY <2>2
    <3>2. s[m].root = r
      BY <1>2, <3>1, Zenon DEF Turns, Hit
    <3> QED
      BY <3>1, <3>2
  <2> QED
    BY <1>2, <2>1, <2>2, Zenon DEF Turns
<1>3. \A f \in F : ~Hit(f, r, i, j)
  BY Zenon DEF Hit
<1> QED
  BY <1>1, <1>2, <1>3, Zenon DEF CoveredBy

LEMMA CoverFate ==
    ASSUME NEW W, NEW h, NEW F, NEW p \in W, NEW A, NEW s, NEW W2, NEW h2, NEW r, NEW i, NEW j,
           Turns(W, h, {p}, A, 0, s, W2, h2), CoveredBy(W, h, F, r, i, j), NEW d
    PROVE  CoveredBy(W2, h2, F \cup {Fate(h[p], d)}, r, i, j)
<1> DEFINE e == Fate(h[p], d)
<1>1. Hit(e, r, i, j) <=> Hit(h[p], r, i, j)
  BY DEF Hit, Fate, Covers
<1> HIDE DEF e
<1>2. 1..0 = {}
  OBVIOUS
<1>3. W2 = W \ {p} /\ \A a \in W2 : h2[a] = h[a]
  BY <1>2 DEF Turns
<1>4. CASE Hit(h[p], r, i, j)
  <2>1. /\ \A b \in W : Hit(h[b], r, i, j) => b = p
        /\ \A f \in F : ~Hit(f, r, i, j)
    BY <1>4, Zenon DEF CoveredBy
  <2>2. \A a \in W2 : ~Hit(h2[a], r, i, j)
    BY <1>3, <2>1, Zenon
  <2>3. \A g \in F \cup {e} : Hit(g, r, i, j) => g = e
    BY <2>1, Zenon
  <2> QED
    BY <1>1, <1>4, <2>2, <2>3, Zenon DEF CoveredBy, e
<1>5. CASE ~Hit(h[p], r, i, j)
  <2>1. \A f \in F \cup {e} : Hit(f, r, i, j) => f \in F
    BY <1>1, <1>5, Zenon
  <2>2. \A a \in W : Hit(h[a], r, i, j) => a \in W2 /\ h2[a] = h[a]
    BY <1>3, <1>5, Zenon
  <2>3. \A a \in W2 : a \in W /\ h2[a] = h[a]
    BY <1>3, Zenon
  <2>4. CoveredBy(W2, h2, F \cup {e}, r, i, j)
    <3>1. CASE \E a \in W : /\ Hit(h[a], r, i, j) /\ \A b \in W : Hit(h[b], r, i, j) => b = a
                            /\ \A f \in F : ~Hit(f, r, i, j)
      BY <2>1, <2>2, <2>3, <3>1, Zenon DEF CoveredBy
    <3>2. CASE \E f \in F : /\ Hit(f, r, i, j) /\ \A g \in F : Hit(g, r, i, j) => g = f
                            /\ \A a \in W : ~Hit(h[a], r, i, j)
      <4>1. \A a \in W2 : ~Hit(h2[a], r, i, j)
        BY <2>3, <3>2, Zenon
      <4> QED
        BY <2>1, <3>2, <4>1, Zenon DEF CoveredBy
    <3> QED
      BY <3>1, <3>2, Zenon DEF CoveredBy
  <2> QED
    BY <2>4 DEF e
<1> QED
  BY <1>4, <1>5

\* One of four parts covers what the whole did.
OneOfFour(x, s, r, i, j) ==
    /\ Hit(x, r, i, j) => \E k \in 1..4 : /\ Hit(s[k], r, i, j)
                                          /\ \A m \in 1..4 : Hit(s[m], r, i, j) => m = k
    /\ ~Hit(x, r, i, j) => \A k \in 1..4 : ~Hit(s[k], r, i, j)

LEMMA CoverSplit ==
    ASSUME NEW W, NEW h, NEW F, NEW p \in W, NEW A, NEW s, NEW W2, NEW h2, NEW r, NEW i, NEW j,
           Turns(W, h, {p}, A, 4, s, W2, h2), CoveredBy(W, h, F, r, i, j),
           OneOfFour(h[p], s, r, i, j)
    PROVE  CoveredBy(W2, h2, F, r, i, j)
<1>1. \A a \in W2 : (a \in W /\ a # p /\ h2[a] = h[a]) \/ \E k \in 1..4 : a = A[k] /\ h2[a] = s[k]
  <2> SUFFICES ASSUME NEW a \in W2
               PROVE  (a \in W /\ a # p /\ h2[a] = h[a]) \/ \E k \in 1..4 : a = A[k] /\ h2[a] = s[k]
    OBVIOUS
  <2>1. (a \in W \ {p} /\ h2[a] = h[a]) \/ \E k \in 1..4 : a = A[k] /\ h2[a] = s[k]
    BY TurnsFrom
  <2> QED
    BY <2>1
<1>2. \A a \in W : a # p => a \in W2 /\ h2[a] = h[a]
  BY Zenon DEF Turns
<1>3. \A k \in 1..4 : A[k] \in W2 /\ h2[A[k]] = s[k]
  BY Zenon DEF Turns
<1>4. CASE Hit(h[p], r, i, j)
  <2>1. /\ \A b \in W : Hit(h[b], r, i, j) => b = p
        /\ \A f \in F : ~Hit(f, r, i, j)
    BY <1>4, Zenon DEF CoveredBy
  <2>2. PICK k \in 1..4 : /\ Hit(s[k], r, i, j)
                          /\ \A m \in 1..4 : Hit(s[m], r, i, j) => m = k
    BY <1>4, Zenon DEF OneOfFour
  <2>3. A[k] \in W2 /\ Hit(h2[A[k]], r, i, j)
    BY <1>3, <2>2, Zenon
  <2>4. \A b \in W2 : Hit(h2[b], r, i, j) => b = A[k]
    BY <1>1, <2>1, <2>2, Zenon
  <2> QED
    BY <2>1, <2>3, <2>4, Zenon DEF CoveredBy
<1>5. CASE ~Hit(h[p], r, i, j)
  <2>1. \A k \in 1..4 : ~Hit(s[k], r, i, j)
    BY <1>5, Zenon DEF OneOfFour
  <2>2. \A a \in W2 : Hit(h2[a], r, i, j) => a \in W /\ h2[a] = h[a]
    BY <1>1, <2>1, Zenon
  <2>3. \A a \in W : Hit(h[a], r, i, j) => a \in W2 /\ h2[a] = h[a]
    BY <1>2, <1>5, Zenon
  <2> QED
    BY <2>2, <2>3, Zenon DEF CoveredBy
<1> QED
  BY <1>4, <1>5

LEMMA CoveredAre ==
    ASSUME Waits \subseteq Addrs, NEW r, NEW i, NEW j
    PROVE  CoveredOnce(r, i, j) <=> CoveredBy(Waits, heap, fates, r, i, j)
BY Zenon DEF CoveredOnce, CoveredBy, WaitsAt, DoneAt, Hit

LEMMA CoveredWillBe ==
    ASSUME Waits' \subseteq Addrs, NEW CONSTANT r, NEW CONSTANT i, NEW CONSTANT j
    PROVE  CoveredOnce(r, i, j)' <=> CoveredBy(Waits', heap', fates', r, i, j)
BY Zenon DEF CoveredOnce, CoveredBy, WaitsAt, DoneAt, Hit

----------------------------------------------------------------------------
(* Halving.                                                                *)

LEMMA UnitIs == Unit \in 1..UvDim /\ UvDim = Unit * Pow2[MaxSplit + 1]
BY HiderAssumption DEF Unit

\* What is recorded of a part that waits.
IsPart(p) ==
    IF p.complex THEN p.root = 0 /\ p.u = <<0, 0>> /\ p.v = <<0, 0>>
    ELSE \E n \in 0..(MaxSplit + 1) : Halved(p, n)

LEMMA PartsAre ==
    /\ PartsHalved <=> \A a \in Waits : IsPart(heap[a])
    /\ PartsHalved' <=> \A a \in Waits' : IsPart(heap'[a])
BY DEF PartsHalved, IsPart, Halved

LEMMA SurfaceIsPart ==
    ASSUME NEW r \in Nat
    PROVE  IsPart(Surface(r))
<1>1. /\ Surface(r).u = <<0, UvDim>> /\ Surface(r).v = <<0, UvDim>>
      /\ Surface(r).cnt = 0 /\ Surface(r).complex = FALSE
  BY SurfaceType
<1>2. 0 \in 0..(MaxSplit + 1) /\ MaxSplit + 1 - 0 = MaxSplit + 1 /\ UvDim \in Nat
  BY HiderAssumption
<1>3. UvDim = 0 + Unit * Pow2[MaxSplit + 1]
  BY <1>2, UnitIs
<1>4. Halved(Surface(r), 0)
  BY <1>1, <1>2, <1>3 DEF Halved
<1> QED
  BY <1>1, <1>2, <1>4 DEF IsPart

\* A half of a range of even length.
IsHalf(r, e, h) == h \in Ranges /\ h[2] = h[1] + e /\ (h[1] = r[1] \/ h[1] = r[1] + e)

LEMMA HalvesAre ==
    ASSUME NEW r \in Ranges, NEW e \in Nat, r[2] = r[1] + 2 * e
    PROVE  /\ IsHalf(r, e, Lower(r)) /\ IsHalf(r, e, Upper(r))
           /\ Lower(r)[1] = r[1] /\ Lower(r)[2] = r[1] + e
           /\ Upper(r)[1] = r[1] + e /\ Upper(r)[2] = r[2]
<1>1. PICK x \in 0..UvDim, y \in 0..UvDim : r = <<x, y>>
  BY DEF Ranges
<1>2. y = x + 2 * e /\ (x + y) \div 2 = x + e
  BY <1>1, HiderAssumption
<1>3. Lower(r) = <<x, x + e>> /\ Upper(r) = <<x + e, y>>
  BY <1>1, <1>2 DEF Lower, Upper
<1>4. Lower(r) \in Ranges /\ Upper(r) \in Ranges
  BY HalvesType
<1> QED
  BY <1>1, <1>2, <1>3, <1>4, HiderAssumption DEF IsHalf

\* The side of a part that is halved n times.
Side(n) == Unit * Pow2[MaxSplit + 1 - n]

LEMMA SideHalves ==
    ASSUME NEW n \in 0..MaxSplit
    PROVE  Side(n) = 2 * Side(n + 1) /\ Side(n + 1) \in Nat \ {0}
<1>1. PICK k \in Nat : k = MaxSplit - n
  BY HiderAssumption
<1>2. MaxSplit + 1 - n = k + 1 /\ MaxSplit + 1 - (n + 1) = k
  BY <1>1, HiderAssumption
<1>3. PICK x \in Nat \ {0} : x = Pow2[k]
  BY Pow2Def
<1>4. Pow2[k + 1] = 2 * x
  BY <1>3, Pow2Def
<1>5. Unit \in Nat \ {0}
  BY UnitIs
<1>6. ASSUME NEW u \in Nat \ {0} PROVE u * (2 * x) = 2 * (u * x) /\ u * x \in Nat \ {0}
  <2>1. u * x \in Nat \ {0}
    BY ProductPositive
  <2> QED
    BY <2>1
<1>7. Side(n) = Unit * (2 * x) /\ Side(n + 1) = Unit * x
  BY <1>2, <1>3, <1>4 DEF Side
<1> QED
  BY <1>5, <1>6, <1>7

\* The corner of each quarter of a part whose quarters have the side e.
QuarterAt(p, e, q, a, b) ==
    /\ q.root = p.root /\ q.complex = p.complex
    /\ q.u[1] = a /\ q.u[2] = a + e /\ q.v[1] = b /\ q.v[2] = b + e
    /\ q.cnt \in Nat /\ p.cnt + 1 <= q.cnt /\ q.cnt <= p.cnt + 2

LEMMA QuartersAt ==
    ASSUME NEW p \in Prim, NEW e \in Nat, NEW a \in Nat, NEW b \in Nat, a = p.u[1], b = p.v[1],
           p.u[2] = a + 2 * e, p.v[2] = b + 2 * e
    PROVE  /\ QuarterAt(p, e, Quarters(p)[1], a, b) /\ QuarterAt(p, e, Quarters(p)[2], a + e, b)
           /\ QuarterAt(p, e, Quarters(p)[3], a, b + e) /\ QuarterAt(p, e, Quarters(p)[4], a + e, b + e)
<1>1. p.u \in Ranges /\ p.v \in Ranges /\ p.cnt \in Nat
  BY PrimFields
<1>2. /\ Lower(p.u)[1] = a /\ Lower(p.u)[2] = a + e /\ Upper(p.u)[1] = a + e /\ Upper(p.u)[2] = a + 2 * e
      /\ Lower(p.v)[1] = b /\ Lower(p.v)[2] = b + e /\ Upper(p.v)[1] = b + e /\ Upper(p.v)[2] = b + 2 * e
  BY <1>1, HalvesAre
<1>3. /\ Quarter(p, Quarters(p)[1], Lower(p.u), Lower(p.v), 1)
      /\ Quarter(p, Quarters(p)[2], Upper(p.u), Lower(p.v), 1)
      /\ Quarter(p, Quarters(p)[3], Lower(p.u), Upper(p.v), 2)
      /\ Quarter(p, Quarters(p)[4], Upper(p.u), Upper(p.v), 2)
  BY QuartersAre
<1>4. a + e + e = a + 2 * e /\ b + e + e = b + 2 * e
  OBVIOUS
<1>5. QuarterAt(p, e, Quarters(p)[1], a, b)
  BY <1>1, <1>2, <1>3 DEF QuarterAt, Quarter
<1>6. QuarterAt(p, e, Quarters(p)[2], a + e, b)
  BY <1>1, <1>2, <1>3, <1>4 DEF QuarterAt, Quarter
<1>7. QuarterAt(p, e, Quarters(p)[3], a, b + e)
  BY <1>1, <1>2, <1>3, <1>4 DEF QuarterAt, Quarter
<1>8. QuarterAt(p, e, Quarters(p)[4], a + e, b + e)
  BY <1>1, <1>2, <1>3, <1>4 DEF QuarterAt, Quarter
<1> QED
  BY <1>5, <1>6, <1>7, <1>8

LEMMA QuartersHit ==
    ASSUME NEW p \in Prim, NEW e \in Nat, p.u[2] = p.u[1] + 2 * e, p.v[2] = p.v[1] + 2 * e,
           NEW r, NEW i \in Nat, NEW j \in Nat
    PROVE  OneOfFour(p, Quarters(p), r, i, j)
<1> DEFINE s == Quarters(p)
<1>1. PICK a \in Nat, b \in Nat : a = p.u[1] /\ b = p.v[1]
  BY PrimFields, HiderAssumption DEF Ranges
<1>2. /\ QuarterAt(p, e, s[1], a, b) /\ QuarterAt(p, e, s[2], a + e, b)
      /\ QuarterAt(p, e, s[3], a, b + e) /\ QuarterAt(p, e, s[4], a + e, b + e)
  BY <1>1, QuartersAt
<1> HIDE DEF s
<1>3. /\ Hit(p, r, i, j) <=> p.root = r /\ a <= i /\ i < a + 2 * e /\ b <= j /\ j < b + 2 * e
      /\ Hit(s[1], r, i, j) <=> p.root = r /\ a <= i /\ i < a + e /\ b <= j /\ j < b + e
      /\ Hit(s[2], r, i, j) <=> p.root = r /\ a + e <= i /\ i < a + 2 * e /\ b <= j /\ j < b + e
      /\ Hit(s[3], r, i, j) <=> p.root = r /\ a <= i /\ i < a + e /\ b + e <= j /\ j < b + 2 * e
      /\ Hit(s[4], r, i, j) <=> p.root = r /\ a + e <= i /\ i < a + 2 * e /\ b + e <= j /\ j < b + 2 * e
  <2>1. Hit(p, r, i, j) <=> p.root = r /\ a <= i /\ i < a + 2 * e /\ b <= j /\ j < b + 2 * e
    BY <1>1 DEF Hit, Covers
  <2>2. Hit(s[1], r, i, j) <=> p.root = r /\ a <= i /\ i < a + e /\ b <= j /\ j < b + e
    BY <1>2 DEF Hit, Covers, QuarterAt
  <2>3. Hit(s[2], r, i, j) <=> p.root = r /\ a + e <= i /\ i < a + 2 * e /\ b <= j /\ j < b + e
    BY <1>2 DEF Hit, Covers, QuarterAt
  <2>4. Hit(s[3], r, i, j) <=> p.root = r /\ a <= i /\ i < a + e /\ b + e <= j /\ j < b + 2 * e
    BY <1>2 DEF Hit, Covers, QuarterAt
  <2>5. Hit(s[4], r, i, j) <=> p.root = r /\ a + e <= i /\ i < a + 2 * e /\ b + e <= j /\ j < b + 2 * e
    BY <1>2 DEF Hit, Covers, QuarterAt
  <2> QED
    BY <2>1, <2>2, <2>3, <2>4, <2>5
<1>4. \A m \in 1..4 : m = 1 \/ m = 2 \/ m = 3 \/ m = 4
  OBVIOUS
<1>5. ASSUME ~Hit(p, r, i, j), NEW k \in 1..4 PROVE ~Hit(s[k], r, i, j)
  BY <1>3, <1>4, <1>5
<1>6. ASSUME Hit(p, r, i, j)
      PROVE  \E k \in 1..4 : Hit(s[k], r, i, j) /\ \A m \in 1..4 : Hit(s[m], r, i, j) => m = k
  <2>1. CASE i < a + e /\ j < b + e
    <3>1. Hit(s[1], r, i, j) /\ ~Hit(s[2], r, i, j) /\ ~Hit(s[3], r, i, j) /\ ~Hit(s[4], r, i, j)
      BY <1>3, <1>6, <2>1
    <3> QED
      BY <1>4, <3>1
  <2>2. CASE i >= a + e /\ j < b + e
    <3>1. Hit(s[2], r, i, j) /\ ~Hit(s[1], r, i, j) /\ ~Hit(s[3], r, i, j) /\ ~Hit(s[4], r, i, j)
      BY <1>3, <1>6, <2>2
    <3> QED
      BY <1>4, <3>1
  <2>3. CASE i < a + e /\ j >= b + e
    <3>1. Hit(s[3], r, i, j) /\ ~Hit(s[1], r, i, j) /\ ~Hit(s[2], r, i, j) /\ ~Hit(s[4], r, i, j)
      BY <1>3, <1>6, <2>3
    <3> QED
      BY <1>4, <3>1
  <2>4. CASE i >= a + e /\ j >= b + e
    <3>1. Hit(s[4], r, i, j) /\ ~Hit(s[1], r, i, j) /\ ~Hit(s[2], r, i, j) /\ ~Hit(s[3], r, i, j)
      BY <1>3, <1>6, <2>4
    <3> QED
      BY <1>4, <3>1
  <2> QED
    BY <2>1, <2>2, <2>3, <2>4
<1> QED
  BY <1>5, <1>6 DEF OneOfFour, s

LEMMA HalvedSplit ==
    ASSUME NEW p \in Prim, NEW n \in 0..(MaxSplit + 1), Halved(p, n), p.cnt <= MaxSplit
    PROVE  /\ n \in 0..MaxSplit /\ p.u[2] = p.u[1] + 2 * Side(n + 1) /\ p.v[2] = p.v[1] + 2 * Side(n + 1)
           /\ \A k \in 1..4 : Halved(Quarters(p)[k], n + 1)
<1>1. /\ p.u[2] = p.u[1] + Side(n) /\ p.v[2] = p.v[1] + Side(n) /\ n <= p.cnt /\ p.cnt <= 2 * n
      /\ p.cnt \in Nat
  BY PrimFields DEF Halved, Side
<1>2. n \in 0..MaxSplit
  BY <1>1, HiderAssumption
<1>3. Side(n) = 2 * Side(n + 1) /\ Side(n + 1) \in Nat
  BY <1>2, SideHalves
<1> DEFINE e == Side(n + 1)
           s == Quarters(p)
<1>4. PICK a \in Nat, b \in Nat : a = p.u[1] /\ b = p.v[1]
  BY PrimFields, HiderAssumption DEF Ranges
<1>5. /\ QuarterAt(p, e, s[1], a, b) /\ QuarterAt(p, e, s[2], a + e, b)
      /\ QuarterAt(p, e, s[3], a, b + e) /\ QuarterAt(p, e, s[4], a + e, b + e)
  <2>1. e \in Nat /\ p.u[2] = a + 2 * e /\ p.v[2] = b + 2 * e
    BY <1>1, <1>3, <1>4
  <2> HIDE DEF e
  <2> QED
    BY <1>4, <2>1, QuartersAt
<1>6. ASSUME NEW q, NEW x \in Nat, NEW y \in Nat, QuarterAt(p, e, q, x, y) PROVE Halved(q, n + 1)
  <2>1. /\ q.u[2] = q.u[1] + Side(n + 1) /\ q.v[2] = q.v[1] + Side(n + 1)
        /\ q.cnt \in Nat /\ p.cnt + 1 <= q.cnt /\ q.cnt <= p.cnt + 2
    BY <1>6 DEF QuarterAt
  <2>2. n + 1 <= q.cnt /\ q.cnt <= 2 * (n + 1)
    BY <1>1, <1>2, <2>1
  <2> QED
    BY <2>1, <2>2 DEF Halved, Side
<1>7. \A k \in 1..4 : Halved(s[k], n + 1)
  <2>1. a + e \in Nat /\ b + e \in Nat
    BY <1>3
  <2>2. \A k \in 1..4 : k = 1 \/ k = 2 \/ k = 3 \/ k = 4
    OBVIOUS
  <2> HIDE DEF s, e
  <2> QED
    BY <1>5, <1>6, <2>1, <2>2
<1> QED
  BY <1>1, <1>2, <1>3, <1>7

LEMMA SideTimes == \A n \in 0..(MaxSplit + 1) : Side(n) * Pow2[n] = UvDim
<1> DEFINE S == {n \in Nat : n <= MaxSplit + 1 => Side(n) * Pow2[n] = UvDim}
<1>1. 0 \in S
  <2>1. Side(0) = Unit * Pow2[MaxSplit + 1] /\ Pow2[0] = 1
    BY Pow2Def, HiderAssumption DEF Side
  <2> QED
    BY <2>1, UnitIs, HiderAssumption
<1>2. ASSUME NEW n \in S PROVE n + 1 \in S
  <2>1. n \in Nat /\ n + 1 \in Nat
    OBVIOUS
  <2>2. ASSUME n + 1 <= MaxSplit + 1 PROVE Side(n + 1) * Pow2[n + 1] = UvDim
    <3>1. n \in 0..MaxSplit /\ Side(n) * Pow2[n] = UvDim
      BY <2>1, <2>2, HiderAssumption
    <3>2. PICK x \in Nat : x = Side(n + 1) /\ Side(n) = 2 * x
      BY <3>1, SideHalves
    <3>3. PICK y \in Nat : y = Pow2[n] /\ Pow2[n + 1] = 2 * y
      BY <2>1, Pow2Def
    <3>4. (2 * x) * y = x * (2 * y)
      OBVIOUS
    <3> QED
      BY <3>1, <3>2, <3>3, <3>4
  <2> QED
    BY <2>1, <2>2
<1> HIDE DEF S
<1>3. Nat \subseteq S
  BY <1>1, <1>2, SetInduction
<1> QED
  BY <1>3, HiderAssumption DEF S

LEMMA Pow2Grows == \A m, n \in Nat : m <= n => Pow2[m] <= Pow2[n]
<1> TAKE m \in Nat
<1> DEFINE S == {n \in Nat : m <= n => Pow2[m] <= Pow2[n]}
<1>0. \A n \in Nat : Pow2[n] \in Nat /\ Pow2[n + 1] = 2 * Pow2[n]
  BY Pow2Def
<1>1. 0 \in S
  BY <1>0
<1>2. ASSUME NEW n \in S PROVE n + 1 \in S
  <2>1. n \in Nat /\ n + 1 \in Nat
    OBVIOUS
  <2>2. ASSUME m <= n + 1 PROVE Pow2[m] <= Pow2[n + 1]
    <3>1. CASE m = n + 1
      BY <1>0, <2>1, <3>1
    <3>2. CASE m <= n
      <4>1. Pow2[m] <= Pow2[n]
        BY <3>2
      <4> QED
        BY <1>0, <2>1, <4>1
    <3> QED
      BY <2>1, <2>2, <3>1, <3>2
  <2> QED
    BY <2>1, <2>2
<1> HIDE DEF S
<1>3. Nat \subseteq S
  BY <1>1, <1>2, SetInduction
<1> QED
  BY <1>3 DEF S

LEMMA TimesGrows == \A a, b, c \in Nat : a <= b => c * a <= c * b
<1> SUFFICES ASSUME NEW a \in Nat, NEW b \in Nat, NEW c \in Nat, a <= b PROVE c * a <= c * b
  OBVIOUS
<1>1. PICK d \in Nat : b = a + d
  <2>1. b - a \in Nat /\ b = a + (b - a)
    OBVIOUS
  <2> QED
    BY <2>1
<1>2. c * (a + d) = c * a + c * d /\ c * d \in Nat /\ c * a \in Nat
  OBVIOUS
<1> QED
  BY <1>1, <1>2

\* What DropsAreSmall says of a part.
IsSmall(f) ==
    /\ (f.u[2] - f.u[1]) * Pow2[(MaxSplit + 2) \div 2] <= UvDim
    /\ (f.v[2] - f.v[1]) * Pow2[(MaxSplit + 2) \div 2] <= UvDim

LEMMA DropsAre ==
    /\ DropsAreSmall <=> \A f \in fates : f.dropped => IsSmall(f)
    /\ DropsAreSmall' <=> \A f \in fates' : f.dropped => IsSmall(f)
BY DEF DropsAreSmall, IsSmall

LEMMA DroppedIsSmall ==
    ASSUME NEW p \in Prim, IsPart(p), p.cnt > MaxSplit, NEW d
    PROVE  IsSmall(Fate(p, d))
<1> DEFINE K == (MaxSplit + 2) \div 2
<1>1. /\ Fate(p, d).u = p.u /\ Fate(p, d).v = p.v
  BY DEF Fate
<1>2. K \in Nat /\ \A n \in Nat : MaxSplit + 1 <= 2 * n => K <= n
  BY HiderAssumption
<1>3. Pow2[K] \in Nat
  BY <1>2, Pow2Def
<1>4. CASE p.complex
  <2>1. p.u = <<0, 0>> /\ p.v = <<0, 0>>
    BY <1>4 DEF IsPart
  <2>2. 0 * Pow2[K] <= UvDim
    BY <1>3, HiderAssumption
  <2> QED
    BY <1>1, <2>1, <2>2 DEF IsSmall
<1>5. CASE ~p.complex
  <2>1. PICK n \in 0..(MaxSplit + 1) : Halved(p, n)
    BY <1>5 DEF IsPart
  <2>2. p.u[2] = p.u[1] + Side(n) /\ p.v[2] = p.v[1] + Side(n) /\ p.cnt <= 2 * n /\ p.cnt \in Nat
    BY <2>1, PrimFields DEF Halved, Side
  <2>3. n \in Nat /\ K <= n
    BY <1>2, <2>2, HiderAssumption
  <2>4. Pow2[K] <= Pow2[n] /\ Pow2[n] \in Nat
    BY <1>2, <2>3, Pow2Grows, Pow2Def
  <2>5. Side(n) \in Nat
    <3>1. MaxSplit + 1 - n \in Nat
      BY HiderAssumption
    <3>2. PICK x \in Nat \ {0} : x = Pow2[MaxSplit + 1 - n]
      BY <3>1, Pow2Def
    <3>3. Unit * x \in Nat
      BY UnitIs, ProductPositive
    <3> QED
      BY <3>2, <3>3 DEF Side
  <2>6. Side(n) * Pow2[K] <= Side(n) * Pow2[n]
    BY <1>3, <2>4, <2>5, TimesGrows
  <2>7. Side(n) * Pow2[n] = UvDim
    BY SideTimes
  <2>8. p.u[2] - p.u[1] = Side(n) /\ p.v[2] - p.v[1] = Side(n)
    <3>1. PICK a \in Nat, b \in Nat : a = p.u[1] /\ b = p.v[1]
      BY PrimFields, HiderAssumption DEF Ranges
    <3> QED
      BY <2>2, <2>5, <3>1
  <2> QED
    BY <1>1, <2>6, <2>7, <2>8 DEF IsSmall
<1> QED
  BY <1>4, <1>5

----------------------------------------------------------------------------
(* The surfaces, action by action.                                         *)

LEMMA CoverageIs ==
    ASSUME Waits \subseteq Addrs
    PROVE  SurfacesCovered <=> \A r \in Roots \ {0} : \A i, j \in 0..(UvDim - 1) :
                                   CoveredBy(Waits, heap, fates, r, i, j)
BY CoveredAre, Zenon DEF SurfacesCovered

LEMMA CoverageWillBe ==
    ASSUME Waits' \subseteq Addrs,
           \A r \in Roots' \ {0} : \A i, j \in 0..(UvDim - 1) :
               CoveredBy(Waits', heap', fates', r, i, j)
    PROVE  SurfacesCovered'
<1>1. ASSUME NEW CONSTANT r, r \in Roots' \ {0},
             NEW CONSTANT i \in 0..(UvDim - 1), NEW CONSTANT j \in 0..(UvDim - 1)
      PROVE  CoveredOnce(r, i, j)'
  BY <1>1, CoveredWillBe
<1> QED
  BY <1>1 DEF SurfacesCovered

\* What the surfaces need of each step.
Tracked == RootsKnown /\ PartsHalved /\ DropsAreSmall /\ SurfacesCovered

LEMMA RootOf ==
    ASSUME Waits' \subseteq Addrs, NEW r \in Roots'
    PROVE  (\E a \in Waits' : heap'[a].root = r) \/ \E f \in fates' : f.root = r
BY DEF Roots

LEMMA FreshKeeps ==
    ASSUME ListTypes, Waits \subseteq Addrs, Waits' \subseteq Addrs, Tracked,
           NEW P \in SUBSET Waits, \A a \in P : heap[a].complex,
           NEW A, NEW n \in Nat, NEW s, Turns(Waits, heap, P, A, n, s, Waits', heap'),
           \A k \in 1..n : s[k] \in Prim /\ IsPart(s[k])
                           /\ (s[k].root = 0 \/ s[k] = Surface(inserted + k)),
           inserted' = inserted + n, fates' = fates,
           hphase' = "idle" => fates = {} \/ hphase = "idle"
    PROVE  Tracked'
<1>0. /\ inserted \in Nat /\ \A f \in fates : f.root \in Nat
      /\ heap \in [Addrs -> Prim] /\ \A a \in Addrs : heap[a].root \in Nat
  BY PrimFields DEF ListTypes, HTypeOK, Part
<1>1. \A k \in 1..n : s[k].root = 0 \/ (s[k].root = inserted + k /\ s[k] = Surface(inserted + k))
  <2>1. \A k \in 1..n : inserted + k \in Nat
    BY <1>0
  <2> QED
    BY <2>1, SurfaceType
<1>2. /\ \A a \in Waits : heap[a].root <= inserted
      /\ \A f \in fates : f.root <= inserted
      /\ hphase = "idle" => \A a \in Waits, f \in fates : heap[a].root = f.root => f.root = 0
  BY DEF Tracked, RootsKnown
<1>3. ASSUME NEW a \in Waits'
      PROVE  (a \in Waits \ P /\ heap'[a] = heap[a]) \/ \E k \in 1..n : a = A[k] /\ heap'[a] = s[k]
  BY <1>3, TurnsFrom
<1>4. RootsKnown'
  <2>1. ASSUME NEW a \in Waits' PROVE heap'[a].root <= inserted'
    <3>1. CASE a \in Waits \ P /\ heap'[a] = heap[a]
      BY <1>0, <1>2, <3>1
    <3>2. CASE \E k \in 1..n : a = A[k] /\ heap'[a] = s[k]
      BY <1>0, <1>1, <3>2
    <3> QED
      BY <1>3, <3>1, <3>2
  <2>2. ASSUME NEW f \in fates' PROVE f.root <= inserted'
    BY <1>0, <1>2
  <2>3. ASSUME hphase' = "idle", NEW a \in Waits', NEW f \in fates', heap'[a].root = f.root
        PROVE  f.root = 0
    <3>1. f \in fates /\ hphase = "idle"
      BY <2>3
    <3>2. CASE a \in Waits \ P /\ heap'[a] = heap[a]
      BY <1>2, <2>3, <3>1, <3>2
    <3>3. CASE \E k \in 1..n : a = A[k] /\ heap'[a] = s[k]
      <4>1. PICK k \in 1..n : heap'[a] = s[k]
        BY <3>3
      <4>2. f.root \in Nat /\ f.root <= inserted
        BY <1>0, <1>2, <3>1
      <4> QED
        BY <1>0, <1>1, <2>3, <4>1, <4>2
    <3> QED
      BY <1>3, <3>2, <3>3
  <2> QED
    BY <2>1, <2>2, <2>3 DEF RootsKnown
<1>5. PartsHalved'
  <2>1. \A a \in Waits : IsPart(heap[a])
    BY PartsAre DEF Tracked
  <2>2. ASSUME NEW a \in Waits' PROVE IsPart(heap'[a])
    BY <1>3, <2>1
  <2> QED
    BY <2>2, PartsAre
<1>6. DropsAreSmall'
  BY DropsAre DEF Tracked
<1>7. ASSUME NEW r \in Roots' \ {0}, NEW i \in 0..(UvDim - 1), NEW j \in 0..(UvDim - 1)
      PROVE  CoveredBy(Waits', heap', fates', r, i, j)
  <2>1. CASE r \in Roots
    <3>1. CoveredBy(Waits, heap, fates, r, i, j)
      BY <2>1, CoverageIs DEF Tracked
    <3>2. r \in Nat /\ r <= inserted /\ r # 0
      BY <1>0, <1>2, <2>1 DEF Roots
    <3>3. \A a \in P : heap[a].root # r
      BY <3>2, PartsAre DEF Tracked, IsPart
    <3>4. \A k \in 1..n : s[k].root # r
      BY <1>0, <1>1, <3>2
    <3> QED
      BY <3>1, <3>3, <3>4, CoverKeeps
  <2>2. CASE r \notin Roots
    <3>1. \A a \in Waits : heap[a].root # r
      BY <2>2 DEF Roots
    <3>2. \A f \in fates : f.root # r
      BY <2>2 DEF Roots
    <3>3. PICK a \in Waits' : heap'[a].root = r
      BY <3>2, RootOf
    <3>4. PICK k \in 1..n : heap'[a] = s[k]
      BY <1>3, <3>1, <3>3
    <3>5. s[k].root = r /\ r = inserted + k /\ s[k] = Surface(inserted + k)
      BY <1>1, <3>3, <3>4
    <3>6. \A m \in 1..n : s[m].root = r => m = k
      BY <1>0, <1>1, <3>5
    <3>7. Hit(s[k], r, i, j)
      <4>1. inserted + k \in Nat
        BY <1>0
      <4>2. s[k].u = <<0, UvDim>> /\ s[k].v = <<0, UvDim>>
        BY <3>5, <4>1, SurfaceType
      <4> QED
        BY <3>5, <4>2, HiderAssumption DEF Hit, Covers
    <3> QED
      BY <3>1, <3>2, <3>6, <3>7, CoverNew
  <2> QED
    BY <2>1, <2>2
<1>8. SurfacesCovered'
  BY <1>7, CoverageWillBe
<1> QED
  BY <1>4, <1>5, <1>6, <1>8 DEF Tracked

LEMMA FateKeeps ==
    ASSUME ListTypes, Waits \subseteq Addrs, Waits' \subseteq Addrs, Tracked,
           NEW p \in Waits, NEW A, NEW s, Turns(Waits, heap, {p}, A, 0, s, Waits', heap'),
           NEW d, fates' = fates \cup {Fate(heap[p], d)}, d => heap[p].cnt > MaxSplit,
           inserted' = inserted, hphase' # "idle"
    PROVE  Tracked'
<1>0. heap[p] \in Prim /\ \A f \in fates : f.root \in Nat
  BY DEF ListTypes, HTypeOK, Part
<1>1. Waits' = Waits \ {p} /\ \A a \in Waits' : heap'[a] = heap[a]
  <2>1. 1..0 = {}
    OBVIOUS
  <2> QED
    BY <2>1 DEF Turns
<1>2. /\ \A a \in Waits : heap[a].root <= inserted
      /\ \A f \in fates : f.root <= inserted
  BY DEF Tracked, RootsKnown
<1>3. Fate(heap[p], d).root = heap[p].root /\ Fate(heap[p], d).dropped = d
  BY DEF Fate
<1>4. RootsKnown'
  BY <1>1, <1>2, <1>3 DEF RootsKnown
<1>5. PartsHalved'
  BY <1>1, PartsAre DEF Tracked
<1>6. DropsAreSmall'
  <2>1. IsPart(heap[p])
    BY PartsAre DEF Tracked
  <2>2. d => IsSmall(Fate(heap[p], d))
    BY <1>0, <2>1, DroppedIsSmall
  <2> QED
    BY <1>3, <2>2, DropsAre DEF Tracked
<1>7. ASSUME NEW r \in Roots' \ {0}, NEW i \in 0..(UvDim - 1), NEW j \in 0..(UvDim - 1)
      PROVE  CoveredBy(Waits', heap', fates', r, i, j)
  <2>1. r \in Roots
    <3>1. CASE \E a \in Waits' : heap'[a].root = r
      BY <1>1, <3>1 DEF Roots
    <3>2. CASE \E f \in fates' : f.root = r
      BY <1>3, <3>2 DEF Roots
    <3> QED
      BY <3>1, <3>2, RootOf
  <2>2. CoveredBy(Waits, heap, fates, r, i, j)
    BY <2>1, CoverageIs DEF Tracked
  <2> QED
    BY <2>2, CoverFate
<1>8. SurfacesCovered'
  BY <1>7, CoverageWillBe
<1> QED
  BY <1>4, <1>5, <1>6, <1>8 DEF Tracked

LEMMA SplitKeeps ==
    ASSUME ListTypes, Waits \subseteq Addrs, Waits' \subseteq Addrs, Tracked,
           NEW p \in Waits, NEW A, Turns(Waits, heap, {p}, A, 4, Quarters(heap[p]), Waits', heap'),
           heap[p].cnt <= MaxSplit, fates' = fates, inserted' = inserted, hphase' # "idle"
    PROVE  Tracked'
<1> DEFINE x == heap[p]
           s == Quarters(x)
<1>0. x \in Prim /\ IsPart(x)
  BY PartsAre DEF ListTypes, HTypeOK, Tracked
<1>1. \A k \in 1..4 : s[k].root = x.root /\ s[k].complex = x.complex
  <2> HIDE DEF x
  <2>1. \A k \in 1..4 : k = 1 \/ k = 2 \/ k = 3 \/ k = 4
    OBVIOUS
  <2>2. /\ Quarter(x, s[1], Lower(x.u), Lower(x.v), 1) /\ Quarter(x, s[2], Upper(x.u), Lower(x.v), 1)
        /\ Quarter(x, s[3], Lower(x.u), Upper(x.v), 2) /\ Quarter(x, s[4], Upper(x.u), Upper(x.v), 2)
    BY <1>0, QuartersAre
  <2> HIDE DEF s
  <2> QED
    BY <2>1, <2>2 DEF Quarter
<1>2. \A k \in 1..4 : IsPart(s[k])
  <2>1. CASE x.complex
    <3> HIDE DEF x
    <3>1. x.root = 0 /\ x.u = <<0, 0>> /\ x.v = <<0, 0>>
      BY <1>0, <2>1 DEF IsPart
    <3>2. Lower(x.u) = <<0, 0>> /\ Upper(x.u) = <<0, 0>> /\ Lower(x.v) = <<0, 0>> /\ Upper(x.v) = <<0, 0>>
      <4>1. (0 + 0) \div 2 = 0
        OBVIOUS
      <4> QED
        BY <3>1, <4>1 DEF Lower, Upper
    <3>3. /\ Quarter(x, s[1], <<0, 0>>, <<0, 0>>, 1) /\ Quarter(x, s[2], <<0, 0>>, <<0, 0>>, 1)
          /\ Quarter(x, s[3], <<0, 0>>, <<0, 0>>, 2) /\ Quarter(x, s[4], <<0, 0>>, <<0, 0>>, 2)
      BY <1>0, <3>2, QuartersAre
    <3>4. \A k \in 1..4 : k = 1 \/ k = 2 \/ k = 3 \/ k = 4
      OBVIOUS
    <3> HIDE DEF s
    <3>5. \A k \in 1..4 : s[k].u = <<0, 0>> /\ s[k].v = <<0, 0>>
      BY <3>3, <3>4 DEF Quarter
    <3> QED
      BY <1>1, <2>1, <3>1, <3>5 DEF IsPart
  <2>2. CASE ~x.complex
    <3> HIDE DEF x
    <3>1. PICK n \in 0..(MaxSplit + 1) : Halved(x, n)
      BY <1>0, <2>2 DEF IsPart
    <3>2. n \in 0..MaxSplit /\ \A k \in 1..4 : Halved(s[k], n + 1)
      BY <1>0, <3>1, HalvedSplit DEF x
    <3>3. n + 1 \in 0..(MaxSplit + 1)
      BY <3>2, HiderAssumption
    <3> HIDE DEF s
    <3> QED
      BY <1>1, <2>2, <3>2, <3>3 DEF IsPart
  <2> QED
    BY <2>1, <2>2
<1>3. ASSUME NEW r, r # 0, NEW i \in Nat, NEW j \in Nat PROVE OneOfFour(x, s, r, i, j)
  <2>1. CASE x.complex
    <3> HIDE DEF x
    <3>1. x.root # r
      BY <1>0, <1>3, <2>1 DEF IsPart
    <3> HIDE DEF s
    <3> QED
      BY <1>1, <3>1 DEF OneOfFour, Hit
  <2>2. CASE ~x.complex
    <3> HIDE DEF x
    <3>1. PICK n \in 0..(MaxSplit + 1) : Halved(x, n)
      BY <1>0, <2>2 DEF IsPart
    <3>2. /\ n \in 0..MaxSplit
          /\ x.u[2] = x.u[1] + 2 * Side(n + 1) /\ x.v[2] = x.v[1] + 2 * Side(n + 1)
      BY <1>0, <3>1, HalvedSplit DEF x
    <3>3. Side(n + 1) \in Nat
      BY <3>2, SideHalves
    <3> QED
      BY <1>0, <3>2, <3>3, QuartersHit
  <2> QED
    BY <2>1, <2>2
<1> HIDE DEF s
<1>4. ASSUME NEW a \in Waits'
      PROVE  (a \in Waits \ {p} /\ heap'[a] = heap[a]) \/ \E k \in 1..4 : a = A[k] /\ heap'[a] = s[k]
  BY TurnsFrom DEF s
<1>5. /\ \A a \in Waits : heap[a].root <= inserted
      /\ \A f \in fates : f.root <= inserted
  BY DEF Tracked, RootsKnown
<1>6. RootsKnown'
  <2>1. ASSUME NEW a \in Waits' PROVE heap'[a].root <= inserted'
    BY <1>1, <1>4, <1>5
  <2> QED
    BY <1>5, <2>1 DEF RootsKnown
<1>7. PartsHalved'
  <2>1. \A a \in Waits : IsPart(heap[a])
    BY PartsAre DEF Tracked
  <2>2. ASSUME NEW a \in Waits' PROVE IsPart(heap'[a])
    BY <1>2, <1>4, <2>1
  <2> QED
    BY <2>2, PartsAre
<1>8. DropsAreSmall'
  BY DropsAre DEF Tracked
<1>9. ASSUME NEW r \in Roots' \ {0}, NEW i \in 0..(UvDim - 1), NEW j \in 0..(UvDim - 1)
      PROVE  CoveredBy(Waits', heap', fates', r, i, j)
  <2>1. r \in Roots
    <3>1. CASE \E a \in Waits' : heap'[a].root = r
      <4>1. PICK a \in Waits' : heap'[a].root = r
        BY <3>1
      <4>2. \E b \in Waits : heap[b].root = r
        BY <1>1, <1>4, <4>1
      <4> QED
        BY <4>2 DEF Roots
    <3>2. CASE \E f \in fates' : f.root = r
      BY <3>2 DEF Roots
    <3> QED
      BY <3>1, <3>2, RootOf
  <2>2. CoveredBy(Waits, heap, fates, r, i, j)
    BY <2>1, CoverageIs DEF Tracked
  <2>3. OneOfFour(heap[p], s, r, i, j)
    <3>1. i \in Nat /\ j \in Nat
      BY HiderAssumption
    <3> QED
      BY <1>3, <3>1
  <2>4. Turns(Waits, heap, {p}, A, 4, s, Waits', heap')
    BY DEF s
  <2>5. CoveredBy(Waits', heap', fates, r, i, j)
    BY <2>2, <2>3, <2>4, CoverSplit
  <2> QED
    BY <2>5
<1>10. SurfacesCovered'
  BY <1>9, CoverageWillBe
<1> QED
  BY <1>6, <1>7, <1>8, <1>10 DEF Tracked

\* A step that changes no primitive; WorldEnd begins with no fates.
LEMMA PassKeeps ==
    ASSUME Waits \subseteq Addrs, Tracked, UNCHANGED <<hprims, heap, inserted>>,
           fates' = fates \/ (hphase = "idle" /\ fates' = {}),
           hphase' = "idle" => hphase = "idle" \/ Waits = {}
    PROVE  Tracked'
<1>0. Waits' = Waits /\ heap' = heap /\ inserted' = inserted /\ fates' \subseteq fates
  BY DEF Waits
<1>1. /\ \A a \in Waits : heap[a].root <= inserted
      /\ \A f \in fates : f.root <= inserted
      /\ hphase = "idle" => \A a \in Waits, f \in fates : heap[a].root = f.root => f.root = 0
  BY DEF Tracked, RootsKnown
<1>2. RootsKnown'
  BY <1>0, <1>1 DEF RootsKnown
<1>3. PartsHalved'
  BY <1>0, PartsAre DEF Tracked
<1>4. DropsAreSmall'
  BY <1>0, DropsAre DEF Tracked
<1>5. ASSUME NEW r \in Roots' \ {0}, NEW i \in 0..(UvDim - 1), NEW j \in 0..(UvDim - 1)
      PROVE  CoveredBy(Waits', heap', fates', r, i, j)
  <2>1. r \in Roots
    BY <1>0 DEF Roots
  <2>2. CoveredBy(Waits, heap, fates, r, i, j)
    BY <2>1, CoverageIs DEF Tracked
  <2>3. CASE fates' = fates
    BY <1>0, <2>2, <2>3
  <2>4. CASE hphase = "idle" /\ fates' = {}
    <3>1. PICK a \in Waits : heap[a].root = r
      BY <1>0, <2>4 DEF Roots
    <3>2. \A f \in fates : f.root # r
      BY <1>1, <2>4, <3>1
    <3>3. \A f \in fates : ~Hit(f, r, i, j)
      BY <3>2 DEF Hit
    <3>4. CoveredBy(Waits, heap, {}, r, i, j)
      BY <2>2, <3>3, Zenon DEF CoveredBy
    <3> QED
      BY <1>0, <2>4, <3>4
  <2> QED
    BY <2>3, <2>4
<1>6. SurfacesCovered'
  <2>1. Waits' \subseteq Addrs
    BY <1>0
  <2> QED
    BY <1>5, <2>1, CoverageWillBe
<1> QED
  BY <1>2, <1>3, <1>4, <1>6 DEF Tracked

\* A step before and after which nothing waits.
LEMMA EmptyKeeps ==
    ASSUME Tracked, Waits = {}, Waits' = {}, UNCHANGED <<fates, inserted>>
    PROVE  Tracked'
<1>1. RootsKnown'
  BY DEF Tracked, RootsKnown
<1>2. PartsHalved'
  BY PartsAre
<1>3. DropsAreSmall'
  BY DropsAre DEF Tracked
<1>4. ASSUME NEW r \in Roots' \ {0}, NEW i \in 0..(UvDim - 1), NEW j \in 0..(UvDim - 1)
      PROVE  CoveredBy(Waits', heap', fates', r, i, j)
  <2>1. r \in Roots
    BY DEF Roots
  <2>2. CoveredBy(Waits, heap, fates, r, i, j)
    BY <2>1, CoverageIs DEF Tracked
  <2> QED
    BY <2>2, Zenon DEF CoveredBy
<1>5. SurfacesCovered'
  BY <1>4, CoverageWillBe
<1> QED
  BY <1>1, <1>2, <1>3, <1>5 DEF Tracked

LEMMA WaitsType ==
    ASSUME hprims \in Lists0
    PROVE  Waits \subseteq Addrs
BY InListType, WaitsAre

LEMMA WaitsTypeNext ==
    ASSUME hprims' \in Lists0
    PROVE  Waits' \subseteq Addrs
BY InListType, WaitsAre

\* What HiderInv says.
LEMMA HiderParts ==
    HiderInv <=> ListTypes /\ RefsExact /\ PhasesDone /\ ListedOnce /\ Tracked
BY DEF HiderInv, Tracked

LEMMA TrackedStep ==
    ASSUME ListTypes, RefsExact, PhasesDone, ListedOnce, Tracked, HNext \/ UNCHANGED hvars
    PROVE  ListedOnce' /\ Tracked'
<1>0. /\ hprims \in Lists0 /\ hprims' \in Lists0 /\ Waits \subseteq Addrs /\ Waits' \subseteq Addrs
      /\ inserted \in Nat
  <2>1. ListTypes'
    BY CountsStep
  <2>2. hprims \in Lists0 /\ hprims' \in Lists0 /\ inserted \in Nat
    BY <2>1 DEF ListTypes, HTypeOK, Lists0
  <2> QED
    BY <2>2, WaitsType, WaitsTypeNext
<1>1. ASSUME NEW set \in Settings, HWorldBegin(set) PROVE ListedOnce' /\ Tracked'
  <2>1. UNCHANGED <<hphase, hidx, hprims, heap, hub, fates, inserted>>
    BY <1>1, WorldBeginStep
  <2>2. hphase = "idle"
    BY <1>1 DEF HWorldBegin
  <2>3. Tracked'
    BY <1>0, <2>1, <2>2, PassKeeps
  <2> QED
    BY <2>1, <2>3 DEF ListedOnce
<1>2. ASSUME NEW complex \in BOOLEAN, NEW bad \in BOOLEAN, HInsert(complex, bad)
      PROVE  ListedOnce' /\ Tracked'
  <2>1. Adds(heap, hprims, NewAddrs(1), 1, <<Inserted(complex, bad)>>, heap', hprims')
    BY <1>2, InsertStep
  <2>2. ListedOnce' /\ Turns(Waits, heap, {}, NewAddrs(1), 1, <<Inserted(complex, bad)>>, Waits', heap')
    BY <2>1, AddsTurnsHere
  <2>3. inserted' = inserted + 1 /\ fates' = fates /\ hphase = "idle"
    BY <1>2 DEF HInsert
  <2>4. /\ Inserted(complex, bad) \in Prim /\ IsPart(Inserted(complex, bad))
        /\ (Inserted(complex, bad).root = 0 \/ Inserted(complex, bad) = Surface(inserted + 1))
    <3>1. CASE complex
      BY <1>0, <3>1, InsertedIs DEF IsPart
    <3>2. CASE ~complex
      <4>1. Inserted(complex, bad) = Surface(inserted + 1) /\ Inserted(complex, bad) \in Prim
        BY <1>0, <3>2, InsertedIs
      <4>2. IsPart(Surface(inserted + 1))
        BY <1>0, SurfaceIsPart
      <4> QED
        BY <4>1, <4>2
    <3> QED
      BY <3>1, <3>2
  <2>5. \A k \in 1..1 : /\ <<Inserted(complex, bad)>>[k] \in Prim /\ IsPart(<<Inserted(complex, bad)>>[k])
                        /\ \/ <<Inserted(complex, bad)>>[k].root = 0
                           \/ <<Inserted(complex, bad)>>[k] = Surface(inserted + k)
    BY <2>4
  <2>6. Tracked'
    BY <1>0, <2>2, <2>3, <2>5, FreshKeeps
  <2> QED
    BY <2>2, <2>6
<1>3. ASSUME NEW n \in 0..MaxParts PROVE /\ n \in Nat
                                         /\ \A k \in 1..n : /\ NewSurfaces(n)[k] \in Prim
                                                            /\ IsPart(NewSurfaces(n)[k])
                                                            /\ NewSurfaces(n)[k] = Surface(inserted + k)
  <2>1. n \in Nat
    BY HiderAssumption
  <2>2. \A k \in 1..n : inserted + k \in Nat
    BY <1>0, <2>1
  <2> QED
    BY <1>0, <2>1, <2>2, SurfacesAre, SurfaceIsPart
<1>4. ASSUME NEW n \in 0..MaxParts, Simplify(n) PROVE ListedOnce' /\ Tracked'
  <2>1. Replaces(NewAddrs(n), n, NewSurfaces(n))
    BY <1>4, SimplifyStep
  <2>2. /\ hidx \in DOMAIN hprims /\ hprims[hidx] # 0 /\ heap[hprims[hidx]].complex
        /\ inserted' = inserted + n /\ fates' = fates /\ hphase' = "simplify"
    BY <1>4 DEF Simplify, AtPrim, ListTypes, HTypeOK
  <2>3. /\ ListedOnce' /\ hprims[hidx] \in Waits
        /\ Turns(Waits, heap, {hprims[hidx]}, NewAddrs(n), n, NewSurfaces(n), Waits', heap')
    BY <2>1, <2>2, ReplacesTurnsHere
  <2>4. {hprims[hidx]} \in SUBSET Waits /\ \A a \in {hprims[hidx]} : heap[a].complex
    BY <2>2, <2>3
  <2>5. Tracked'
    BY <1>0, <1>3, <2>2, <2>3, <2>4, FreshKeeps
  <2> QED
    BY <2>3, <2>5
<1>5. ASSUME NEW n \in 0..MaxParts, SimplifyThrows(n) PROVE ListedOnce' /\ Tracked'
  <2>1. Adds(heap, hprims, NewAddrs(n), n, NewSurfaces(n), heap', hprims')
    BY <1>5, ThrowStep
  <2>2. ListedOnce' /\ Turns(Waits, heap, {}, NewAddrs(n), n, NewSurfaces(n), Waits', heap')
    BY <2>1, AddsTurnsHere
  <2>3. inserted' = inserted + n /\ fates' = fates /\ fates = {}
    BY <1>5 DEF SimplifyThrows, AtPrim, PhasesDone
  <2>4. Tracked'
    BY <1>0, <1>3, <2>2, <2>3, FreshKeeps
  <2> QED
    BY <2>2, <2>4
<1>6. ASSUME SplitPrim PROVE ListedOnce' /\ Tracked'
  <2>1. Replaces(NewAddrs(4), 4, Quarters(heap[hprims[hidx]]))
    BY <1>6, SplitPrimStep
  <2>2. /\ hidx \in DOMAIN hprims /\ hprims[hidx] # 0 /\ ~TooManySplits(heap[hprims[hidx]])
        /\ inserted' = inserted /\ fates' = fates /\ hphase' = "split"
    BY <1>6 DEF SplitPrim, PrimDone, AtPrim, ListTypes, HTypeOK
  <2>3. /\ ListedOnce' /\ hprims[hidx] \in Waits
        /\ Turns(Waits, heap, {hprims[hidx]}, NewAddrs(4), 4, Quarters(heap[hprims[hidx]]), Waits', heap')
    BY <2>1, <2>2, ReplacesTurnsHere
  <2>4. heap[hprims[hidx]].cnt <= MaxSplit
    <3>1. heap[hprims[hidx]].cnt \in Nat
      BY <1>0, <2>3, PrimFields DEF ListTypes, HTypeOK
    <3> QED
      BY <2>2, <3>1, HiderAssumption DEF TooManySplits
  <2>5. Tracked'
    BY <1>0, <2>2, <2>3, <2>4, SplitKeeps
  <2> QED
    BY <2>3, <2>5
<1>7. ASSUME NEW g, NEW b, Freed(heap', hprims', g, hprims, hidx, b), hidx \in DOMAIN hprims,
             \A a \in Waits : a # hprims[hidx] => g[a] = heap[a],
             NEW d \in BOOLEAN, d => TooManySplits(heap[hprims[hidx]]),
             fates' = fates \cup {Fate(heap[hprims[hidx]], d)}, inserted' = inserted, hphase' = "split"
      PROVE  ListedOnce' /\ Tracked'
  <2>1. /\ ListedOnce' /\ hprims[hidx] \in Waits
        /\ Turns(Waits, heap, {hprims[hidx]}, <<>>, 0, <<>>, Waits', heap')
    BY <1>7, FreedTurnsHere
  <2>2. Tracked'
    BY <1>0, <1>7, <2>1, FateKeeps DEF TooManySplits
  <2> QED
    BY <2>1, <2>2
<1>8. ASSUME Cull \/ DropPrim PROVE ListedOnce' /\ Tracked'
  <2>1. Freed(heap', hprims', heap, hprims, hidx, buckets)
    BY <1>8, CullStep
  <2>2. /\ hidx \in DOMAIN hprims /\ inserted' = inserted /\ hphase' = "split"
        /\ \E d \in BOOLEAN : /\ d => TooManySplits(heap[hprims[hidx]])
                              /\ fates' = fates \cup {Fate(heap[hprims[hidx]], d)}
    <3>1. hphase = "split" /\ hidx <= Len(hprims) => hidx \in DOMAIN hprims
      BY DEF ListTypes, HTypeOK
    <3>2. CASE Cull
      <4>1. /\ hphase = "split" /\ hphase' = hphase /\ hidx <= Len(hprims) /\ inserted' = inserted
            /\ fates' = fates \cup {Fate(heap[hprims[hidx]], FALSE)}
        BY <3>2 DEF Cull, PrimDone, AtPrim
      <4> QED
        BY <3>1, <4>1
    <3>3. CASE DropPrim
      <4>1. /\ hphase = "split" /\ hphase' = hphase /\ hidx <= Len(hprims) /\ inserted' = inserted
            /\ fates' = fates \cup {Fate(heap[hprims[hidx]], TRUE)}
            /\ TooManySplits(heap[hprims[hidx]])
        BY <3>3 DEF DropPrim, PrimDone, AtPrim
      <4> QED
        BY <3>1, <4>1
    <3> QED
      BY <1>8, <3>2, <3>3
  <2> QED
    BY <1>7, <2>1, <2>2
<1>9. ASSUME NEW b \in Bounds, Dice(b) PROVE ListedOnce' /\ Tracked'
  <2>1. Diced(b) \in [Addrs -> Prim] /\ Freed(heap', hprims', Diced(b), hprims, hidx, buckets')
    BY <1>9, DiceStep
  <2>2. \A a \in Waits : a # hprims[hidx] => Diced(b)[a] = heap[a]
    BY <1>0 DEF Diced, ListTypes, HTypeOK
  <2>3. /\ hidx \in DOMAIN hprims /\ inserted' = inserted /\ hphase' = "split"
        /\ fates' = fates \cup {Fate(heap[hprims[hidx]], FALSE)}
    BY <1>9 DEF Dice, PrimDone, AtPrim, ListTypes, HTypeOK
  <2> QED
    BY <1>7, <2>1, <2>2, <2>3
<1>10. ASSUME SplitEnd PROVE ListedOnce' /\ Tracked'
  <2>1. Waits = {} /\ hprims' = <<>> /\ UNCHANGED <<heap, fates, inserted>>
    BY <1>10, SplitEndStep
  <2>2. Waits' = {} /\ ListedOnce'
    BY <2>1 DEF Waits, ListedOnce
  <2> QED
    BY <2>1, <2>2, EmptyKeeps
<1>11. ASSUME RenderReturns PROVE ListedOnce' /\ Tracked'
  <2>1. hprims = <<>> /\ UNCHANGED <<hprims, fates, inserted>>
    BY <1>11, RenderReturnsStep
  <2>2. Waits = {} /\ Waits' = {} /\ ListedOnce'
    BY <2>1 DEF Waits, ListedOnce
  <2> QED
    BY <2>1, <2>2, EmptyKeeps
<1>12. ASSUME Passes PROVE ListedOnce' /\ Tracked'
  <2>1. UNCHANGED <<hprims, heap, buckets, slots, inserted>>
    BY <1>12, PassStep
  <2>2. fates' = fates \/ (hphase = "idle" /\ fates' = {})
    BY <1>12 DEF Passes, HWorldEnd, SimplifySkip, SimplifyNull, SimplifyEnd, SplitSkip, RenderNull,
                 RenderThrows, hvars
  <2>3. hphase' = "idle" => hphase = "idle" \/ hphase = "render"
    BY <1>12 DEF Passes, HWorldEnd, SimplifySkip, SimplifyNull, SimplifyEnd, SplitSkip, RenderNull,
                 RenderThrows, Renders, hvars
  <2>4. hphase = "render" => Waits = {}
    BY DEF PhasesDone, Waits
  <2>5. Tracked'
    BY <1>0, <2>1, <2>2, <2>3, <2>4, PassKeeps
  <2> QED
    BY <2>1, <2>5 DEF ListedOnce
<1> QED
  BY <1>1, <1>2, <1>4, <1>5, <1>6, <1>8, <1>9, <1>10, <1>11, <1>12, StepCases

(* The inductive invariant: the types, exact counts, what each phase has   *)
(* done, and what waits and what is done with of each surface.             *)
THEOREM HiderInvariance == HSpec => []HiderInv
<1>1. HInit => HiderInv
  <2> SUFFICES ASSUME HInit PROVE HiderInv
    OBVIOUS
  <2>1. ListTypes /\ RefsExact
    BY InitTypes
  <2>2. hprims = <<>> /\ fates = {} /\ hphase = "idle"
    BY DEF HInit
  <2>3. Waits = {} /\ ListedOnce /\ PhasesDone
    BY <2>2 DEF Waits, ListedOnce, PhasesDone
  <2>4. RootsKnown /\ PartsHalved /\ DropsAreSmall
    BY <2>2, <2>3, PartsAre, DropsAre DEF RootsKnown
  <2>5. SurfacesCovered
    BY <2>2, <2>3 DEF SurfacesCovered, Roots
  <2> QED
    BY <2>1, <2>3, <2>4, <2>5 DEF HiderInv
<1>2. HiderInv /\ [HNext]_hvars => HiderInv'
  <2> SUFFICES ASSUME HiderInv, HNext \/ UNCHANGED hvars PROVE HiderInv'
    OBVIOUS
  <2>1. ListTypes /\ RefsExact /\ PhasesDone /\ ListedOnce /\ Tracked
    BY HiderParts
  <2>2. ListTypes' /\ RefsExact' /\ PhasesDone'
    BY <2>1, CountsStep
  <2>3. ListedOnce' /\ Tracked'
    BY <2>1, TrackedStep
  <2> QED
    BY <2>2, <2>3 DEF HiderInv, Tracked
<1> QED
  BY <1>1, <1>2, PTL DEF HSpec

(* Every reference that a primitive counts is an entry of the hider's list *)
(* or of a bucket's, in every reachable state, through worlds that end in  *)
(* an exception too.                                                       *)
THEOREM CountsOfRefs == HSpec => []RefsExact
<1>1. HiderInv => RefsExact
  BY DEF HiderInv
<1> QED
  BY <1>1, HiderInvariance, PTL

LEMMA WaitingIs ==
    ASSUME hprims \in Lists0, NEW a \in Addrs
    PROVE  Waiting(a) > 0 <=> a \in Waits
<1>1. Waiting(a) = Occ(hprims, a) /\ Occ(hprims, a) \in Nat
  BY AtFinite DEF Waiting, Occ, At, Lists0
<1>2. Occ(hprims, a) = 0 <=> \A i \in DOMAIN hprims : hprims[i] # a
  BY OccNone DEF Lists0
<1>3. a \in Waits <=> \E i \in DOMAIN hprims : hprims[i] = a
  BY DEF Waits, Addrs
<1> QED
  BY <1>1, <1>2, <1>3

(* Splitting loses nothing of a surface but what is halved so often that   *)
(* DropsAreSmall bounds it, and draws nothing twice: whatever is inserted, *)
(* culled, split or dropped, every unit of a surface is in exactly one     *)
(* part that waits or is done with.                                        *)
THEOREM PartsCover == HSpec => []SplitsPartition
<1>1. HiderInv => SplitsPartition
  <2> SUFFICES ASSUME HiderInv PROVE PartsPartition
    BY DEF SplitsPartition, HiderInv
  <2>1. hprims \in Lists0
    BY DEF HiderInv, ListTypes, HTypeOK, Lists0
  <2>2. Waits \subseteq Addrs
    BY <2>1, WaitsType
  <2>3. ({heap[hprims[i]].root : i \in {j \in DOMAIN hprims : hprims[j] # 0}}
            \cup {f.root : f \in fates}) = Roots
    BY DEF Roots, Waits
  <2>4. ASSUME NEW r \in Roots \ {0}, NEW i \in 0..(UvDim - 1), NEW j \in 0..(UvDim - 1)
        PROVE  Cardinality({a \in PiecesOf(r) : Covers(heap[a], i, j)})
                 + Cardinality({f \in fates : f.root = r /\ Covers(f, i, j)}) = 1
    <3> DEFINE V == {a \in PiecesOf(r) : Covers(heap[a], i, j)}
               D == {f \in fates : f.root = r /\ Covers(f, i, j)}
    <3>1. CoveredBy(Waits, heap, fates, r, i, j)
      BY <2>2, CoverageIs DEF HiderInv
    <3>2. \A a : a \in V <=> a \in Waits /\ Hit(heap[a], r, i, j)
      BY <2>1, <2>2, WaitingIs DEF PiecesOf, Hit
    <3>3. \A f : f \in D <=> f \in fates /\ Hit(f, r, i, j)
      BY DEF Hit
    <3> HIDE DEF V, D
    <3>4. \/ Cardinality(V) = 1 /\ Cardinality(D) = 0
          \/ Cardinality(V) = 0 /\ Cardinality(D) = 1
      <4>1. CASE \E a \in Waits : /\ Hit(heap[a], r, i, j)
                                  /\ \A b \in Waits : Hit(heap[b], r, i, j) => b = a
                                  /\ \A f \in fates : ~Hit(f, r, i, j)
        <5>1. PICK a \in Waits : /\ Hit(heap[a], r, i, j)
                                 /\ \A b \in Waits : Hit(heap[b], r, i, j) => b = a
                                 /\ \A f \in fates : ~Hit(f, r, i, j)
          BY <4>1
        <5>2. V = {a}
          BY <3>2, <5>1
        <5>3. D = {}
          BY <3>3, <5>1
        <5> QED
          BY <5>2, <5>3, FS_Singleton, FS_EmptySet, Zenon
      <4>2. CASE \E f \in fates : /\ Hit(f, r, i, j) /\ \A g \in fates : Hit(g, r, i, j) => g = f
                                  /\ \A a \in Waits : ~Hit(heap[a], r, i, j)
        <5>1. PICK f \in fates : /\ Hit(f, r, i, j) /\ \A g \in fates : Hit(g, r, i, j) => g = f
                                 /\ \A a \in Waits : ~Hit(heap[a], r, i, j)
          BY <4>2
        <5>2. D = {f}
          BY <3>3, <5>1
        <5>3. V = {}
          BY <3>2, <5>1
        <5> QED
          BY <5>2, <5>3, FS_Singleton, FS_EmptySet, Zenon
      <4> QED
        BY <3>1, <4>1, <4>2 DEF CoveredBy
    <3>5. Cardinality(V) + Cardinality(D) = 1
      BY <3>4
    <3> QED
      BY <3>5 DEF V, D
  <2> QED
    BY <2>3, <2>4 DEF PartsPartition
<1> QED
  BY <1>1, HiderInvariance, PTL

----------------------------------------------------------------------------
(* The tiles of an image.                                                  *)

LEMMA DivUnique ==
    ASSUME NEW n \in Nat, NEW b \in Nat \ {0}, NEW q \in Nat, NEW s \in 0..(b - 1), n = b * q + s
    PROVE  n \div b = q /\ n % b = s
<1>1. PICK x \in Nat, y \in 0..(b - 1) : x = n \div b /\ y = n % b /\ n = b * x + y
  <2>1. n \div b \in Nat /\ n % b \in 0..(b - 1) /\ n = b * (n \div b) + (n % b)
    BY DivMod
  <2> QED
    BY <2>1, Zenon
<1>2. ASSUME NEW u \in Nat, NEW v \in Nat, NEW i \in 0..(b - 1), NEW j \in 0..(b - 1),
             b * u + i = b * v + j, u < v
      PROVE  FALSE
  <2>1. b * (u + 1) <= b * v
    BY <1>2, TimesGrows
  <2>2. b * (u + 1) = b * u + b /\ b * u \in Nat /\ b * v \in Nat
    OBVIOUS
  <2> QED
    BY <1>2, <2>1, <2>2
<1>3. x = q
  <2>1. ~(x < q)
    BY <1>1, <1>2
  <2>2. ~(q < x)
    BY <1>1, <1>2
  <2> QED
    BY <2>1, <2>2
<1>4. b * q \in Nat
  OBVIOUS
<1> QED
  BY <1>1, <1>3, <1>4

\* The column, or the row, of a pixel.
LEMMA CellIs ==
    ASSUME NEW x \in Nat, NEW c \in Nat
    PROVE  (c * BucketSize <= x /\ x < c * BucketSize + BucketSize) <=> c = x \div BucketSize
<1>1. PICK b \in Nat \ {0} : b = BucketSize
  BY HiderAssumption
<1>2. PICK q \in Nat, s \in 0..(b - 1) : q = x \div b /\ x = b * q + s
  <2>1. x \div b \in Nat /\ x % b \in 0..(b - 1) /\ x = b * (x \div b) + (x % b)
    BY DivMod
  <2> QED
    BY <2>1, Zenon
<1>3. c * b = b * c /\ q * b = b * q /\ b * c \in Nat /\ b * q \in Nat
  OBVIOUS
<1>4. ASSUME b * c <= x, x < b * c + b PROVE c = q
  <2>1. PICK t \in 0..(b - 1) : x = b * c + t
    <3>1. x - b * c \in 0..(b - 1) /\ x = b * c + (x - b * c)
      BY <1>3, <1>4
    <3> QED
      BY <3>1, Zenon
  <2>2. x \div b = c
    BY <2>1, DivUnique
  <2> QED
    BY <1>2, <2>2
<1>5. b * q <= x /\ x < b * q + b
  BY <1>2, <1>3
<1> QED
  BY <1>1, <1>2, <1>3, <1>4, <1>5

LEMMA CellsAre ==
    ASSUME NEW n \in Nat \ {0}
    PROVE  /\ (n + BucketSize - 1) \div BucketSize = (n - 1) \div BucketSize + 1
           /\ (n - 1) \div BucketSize \in Nat
<1>1. PICK b \in Nat \ {0} : b = BucketSize
  BY HiderAssumption
<1>2. PICK m \in Nat : m = n - 1
  <2>1. n - 1 \in Nat
    OBVIOUS
  <2> QED
    BY <2>1
<1>3. PICK q \in Nat, s \in 0..(b - 1) : q = m \div b /\ m = b * q + s
  <2>1. m \div b \in Nat /\ m % b \in 0..(b - 1) /\ m = b * (m \div b) + (m % b)
    BY DivMod
  <2> QED
    BY <2>1, Zenon
<1>4. PICK w \in Nat : w = m + b
  OBVIOUS
<1>5. b * (q + 1) = b * q + b /\ b * q \in Nat
  OBVIOUS
<1>6. w = b * (q + 1) + s
  BY <1>3, <1>4, <1>5
<1>7. w \div b = q + 1
  BY <1>6, DivUnique
<1>8. n + BucketSize - 1 = w
  BY <1>1, <1>2, <1>4
<1> QED
  BY <1>1, <1>2, <1>3, <1>7, <1>8

\* The last column, or row, begins before the edge and goes on to it.
LEMMA CellEnds ==
    ASSUME NEW n \in Nat \ {0}, NEW c \in Nat, c <= (n - 1) \div BucketSize
    PROVE  Min({c * BucketSize + BucketSize, n}) - c * BucketSize \in {BucketSize, Edge(n)}
<1>1. PICK b \in Nat \ {0} : b = BucketSize
  BY HiderAssumption
<1>2. PICK m \in Nat : m = n - 1 /\ n = m + 1
  <2>1. n - 1 \in Nat /\ n = (n - 1) + 1
    OBVIOUS
  <2> QED
    BY <2>1
<1>3. PICK q \in Nat, s \in 0..(b - 1) : q = m \div b /\ m = b * q + s
  <2>1. m \div b \in Nat /\ m % b \in 0..(b - 1) /\ m = b * (m \div b) + (m % b)
    BY DivMod
  <2> QED
    BY <2>1, Zenon
<1>4. c \in Nat /\ c <= q
  BY <1>1, <1>2, <1>3
<1>5. PICK x \in Nat, y \in Nat : x = c * b /\ y = q * b /\ y = b * q
  <2>1. c * b \in Nat /\ q * b \in Nat /\ q * b = b * q
    OBVIOUS
  <2> QED
    BY <2>1
<1>6. Edge(n) = n - y
  BY <1>1, <1>2, <1>3, <1>5 DEF Edge
<1>7. Min({x + b, n}) = IF x + b < n THEN x + b ELSE n
  BY MinOf
<1>8. CASE c = q
  <2>1. x = y
    BY <1>5, <1>8
  <2> QED
    BY <1>1, <1>2, <1>3, <1>5, <1>6, <1>7, <2>1
<1>9. CASE c < q
  <2>1. b * (c + 1) <= b * q
    BY <1>4, <1>9, TimesGrows
  <2>2. b * (c + 1) = c * b + b
    OBVIOUS
  <2>3. x + b <= y
    BY <1>5, <2>1, <2>2
  <2>4. x + b < n
    BY <1>2, <1>3, <1>5, <2>3
  <2> QED
    BY <1>1, <1>5, <1>7, <2>4
<1> QED
  BY <1>4, <1>8, <1>9

LEMMA TileHolds ==
    ASSUME NEW fmt \in (Nat \ {0}) \X (Nat \ {0}), NEW c \in Nat, NEW r \in Nat,
           NEW p \in Nat \X Nat, p[1] < fmt[1], p[2] < fmt[2]
    PROVE  Contains(TileAt(fmt, c, r), p) <=> c = p[1] \div BucketSize /\ r = p[2] \div BucketSize
<1> DEFINE t == TileAt(fmt, c, r)
<1>1. PICK x \in Int, y \in Int, b \in Int :
          x = c * BucketSize /\ y = r * BucketSize /\ b = BucketSize
  BY HiderAssumption
<1>2. PICK m \in Int, n \in Int, i \in Int, j \in Int : m = fmt[1] /\ n = fmt[2] /\ i = p[1] /\ j = p[2]
  OBVIOUS
<1>3. t = [x1 |-> x, y1 |-> y, x2 |-> Min({x + b, m}), y2 |-> Min({y + b, n})]
  BY <1>1, <1>2 DEF TileAt
<1>4. /\ Min({x + b, m}) = IF x + b < m THEN x + b ELSE m
      /\ Min({y + b, n}) = IF y + b < n THEN y + b ELSE n
  BY MinOf
<1>5. Contains(t, p) <=> (x <= i /\ i < x + b) /\ (y <= j /\ j < y + b)
  BY <1>2, <1>3, <1>4 DEF Contains
<1>6. (x <= i /\ i < x + b) <=> c = p[1] \div BucketSize
  BY <1>1, <1>2, CellIs
<1>7. (y <= j /\ j < y + b) <=> r = p[2] \div BucketSize
  BY <1>1, <1>2, CellIs
<1> QED
  BY <1>5, <1>6, <1>7

\* The tiles of an image cover it, and no two of them a pixel.
TilesHold(tiles, p) ==
    \E k \in DOMAIN tiles : /\ Contains(tiles[k], p)
                            /\ \A m \in DOMAIN tiles : Contains(tiles[m], p) => m = k

LEMMA TilesCover ==
    ASSUME NEW fmt \in (Nat \ {0}) \X (Nat \ {0}), NEW p \in Nat \X Nat, p[1] < fmt[1], p[2] < fmt[2]
    PROVE  TilesHold(Tiles(fmt), p)
<1> DEFINE tiles == Tiles(fmt)
           c == p[1] \div BucketSize
           r == p[2] \div BucketSize
<1>0. BucketSize \in Nat \ {0}
  BY HiderAssumption
<1>1. PICK n \in Nat \ {0}, N \in Nat, R \in Nat :
          /\ n = Cols(fmt) /\ R = Rows(fmt) /\ N = n * R
  BY GridSize
<1>2. /\ tiles \in Seq(Tile) /\ Len(tiles) = N
      /\ \A k \in 1..N : /\ (k - 1) % n \in Nat /\ (k - 1) \div n \in Nat
                         /\ tiles[k] = TileAt(fmt, (k - 1) % n, (k - 1) \div n)
  BY <1>1, TilesAre
<1>3. DOMAIN tiles = 1..N
  BY <1>1, <1>2
<1>4. c \in Nat /\ r \in Nat
  BY <1>0, DivMod
<1>5. c < n /\ r < R
  <2>1. ASSUME NEW x \in Nat, NEW m \in Nat \ {0}, x < m
        PROVE  x \div BucketSize < (m + BucketSize - 1) \div BucketSize
    <3>1. PICK q \in Nat, e \in Nat : q = x \div BucketSize /\ e = (m - 1) \div BucketSize
      BY <1>0, CellsAre, DivMod
    <3>2. PICK b \in Nat \ {0} : b = BucketSize
      BY <1>0
    <3>3. b * q <= x
      <4>1. x = b * (x \div b) + (x % b) /\ x % b \in 0..(b - 1)
        BY DivMod
      <4>2. b * q \in Nat /\ b * q = b * (x \div b)
        BY <3>1, <3>2
      <4> QED
        BY <4>1, <4>2
    <3>4. m - 1 < b * e + b
      <4>1. PICK w \in Nat : w = m - 1
        <5>1. m - 1 \in Nat
          OBVIOUS
        <5> QED
          BY <5>1
      <4>2. w = b * (w \div b) + (w % b) /\ w % b \in 0..(b - 1)
        BY DivMod
      <4>3. b * e \in Nat /\ b * e = b * (w \div b)
        BY <3>1, <3>2, <4>1
      <4> QED
        BY <4>1, <4>2, <4>3
    <3>5. ASSUME q > e PROVE FALSE
      <4>1. b * (e + 1) <= b * q
        BY <3>5, TimesGrows
      <4>2. b * (e + 1) = b * e + b /\ b * e \in Nat /\ b * q \in Nat
        OBVIOUS
      <4> QED
        BY <2>1, <3>3, <3>4, <4>1, <4>2
    <3>6. (m + BucketSize - 1) \div BucketSize = e + 1
      BY <3>1, CellsAre
    <3> QED
      BY <3>1, <3>5, <3>6
  <2> QED
    BY <1>1, <2>1 DEF Cols, Rows
<1> HIDE DEF c, r, tiles
<1>6. PICK z \in Nat : z = n * r + c
  <2>1. n * r + c \in Nat
    BY <1>4
  <2> QED
    BY <2>1
<1>7. z < N
  <2>1. n * (r + 1) <= n * R
    BY <1>4, <1>5, TimesGrows
  <2>2. n * (r + 1) = n * r + n /\ n * r \in Nat
    BY <1>4
  <2> QED
    BY <1>1, <1>4, <1>5, <1>6, <2>1, <2>2
<1>8. z % n = c /\ z \div n = r
  BY <1>4, <1>5, <1>6, DivUnique
<1>9. PICK k \in 1..N : k - 1 = z
  <2>1. z + 1 \in 1..N /\ (z + 1) - 1 = z
    BY <1>7
  <2> QED
    BY <2>1
<1>10. Contains(tiles[k], p)
  <2>1. tiles[k] = TileAt(fmt, c, r)
    BY <1>2, <1>8, <1>9
  <2> QED
    BY <1>4, <2>1, TileHolds DEF c, r
<1>11. ASSUME NEW m \in 1..N, Contains(tiles[m], p) PROVE m = k
  <2>1. PICK y \in Nat : y = m - 1 /\ m = y + 1
    <3>1. m - 1 \in Nat /\ m = (m - 1) + 1
      OBVIOUS
    <3> QED
      BY <3>1
  <2>2. PICK d \in Nat, e \in Nat : d = y % n /\ e = y \div n /\ tiles[m] = TileAt(fmt, d, e)
    BY <1>2, <2>1
  <2>3. d = c /\ e = r
    BY <1>11, <2>2, TileHolds DEF c, r
  <2>4. y = n * (y \div n) + (y % n)
    BY DivMod
  <2>5. y = z
    BY <1>6, <2>2, <2>3, <2>4
  <2> QED
    BY <1>9, <2>1, <2>5
<1> QED
  BY <1>3, <1>9, <1>10, <1>11 DEF TilesHold, tiles

----------------------------------------------------------------------------
(* Four sample buffers are enough for the tiles of an image.               *)

\* A tile as wide and as high as a buffer for the image may be.
FitTile(t, fmt) ==
    t.x2 - t.x1 \in {BucketSize, Edge(fmt[1])} /\ t.y2 - t.y1 \in {BucketSize, Edge(fmt[2])}

LEMMA TilesFit ==
    ASSUME NEW fmt \in (Nat \ {0}) \X (Nat \ {0}), NEW k \in 1..Len(Tiles(fmt))
    PROVE  FitTile(Tiles(fmt)[k], fmt)
<1>1. PICK n \in Nat \ {0}, R \in Nat, N \in Nat : n = Cols(fmt) /\ R = Rows(fmt) /\ N = n * R
  BY GridSize
<1>2. N = Len(Tiles(fmt)) /\ k \in 1..N
  BY <1>1, TilesAre
<1>3. PICK z \in Nat : z = k - 1 /\ z < N
  <2>1. k - 1 \in Nat /\ k - 1 < N
    BY <1>2
  <2> QED
    BY <2>1
<1>4. PICK c \in 0..(n - 1), r \in Nat : c = z % n /\ r = z \div n /\ z = n * r + c
  <2>1. z \div n \in Nat /\ z % n \in 0..(n - 1) /\ z = n * (z \div n) + (z % n)
    BY DivMod
  <2> QED
    BY <2>1, Zenon
<1>5. Tiles(fmt)[k] = TileAt(fmt, c, r)
  BY <1>1, <1>2, <1>3, <1>4, TilesAre
<1>6. r < R
  <2>1. ASSUME R <= r PROVE FALSE
    <3>1. n * R <= n * r
      BY <2>1, TimesGrows
    <3>2. PICK x \in Nat : x = n * r
      OBVIOUS
    <3>3. N <= x /\ z = x + c /\ z < N
      <4>1. N = n * R /\ z = n * r + c
        BY <1>1, <1>4, Zenon
      <4>2. z < N
        BY <1>3
      <4> QED
        BY <3>1, <3>2, <4>1, <4>2, Zenon
    <3> QED
      BY <3>3
  <2> QED
    BY <2>1
<1>7. c \in Nat /\ c <= (fmt[1] - 1) \div BucketSize
  <2>1. PICK q \in Nat : q = (fmt[1] - 1) \div BucketSize /\ n = q + 1
    <3>1. fmt[1] \in Nat \ {0}
      OBVIOUS
    <3> QED
      BY <1>1, <3>1, CellsAre DEF Cols
  <2>2. n = q + 1
    BY <2>1, Zenon
  <2>3. c <= q /\ c \in Nat
    BY <2>2
  <2> QED
    BY <2>1, <2>3, Zenon
<1>8. r <= (fmt[2] - 1) \div BucketSize
  <2>1. R = (fmt[2] - 1) \div BucketSize + 1 /\ (fmt[2] - 1) \div BucketSize \in Nat
    BY <1>1, CellsAre DEF Rows
  <2> QED
    BY <1>6, <2>1
<1>9. Min({c * BucketSize + BucketSize, fmt[1]}) - c * BucketSize \in {BucketSize, Edge(fmt[1])}
  BY <1>7, CellEnds
<1>10. Min({r * BucketSize + BucketSize, fmt[2]}) - r * BucketSize \in {BucketSize, Edge(fmt[2])}
  BY <1>8, CellEnds
<1> QED
  BY <1>5, <1>9, <1>10 DEF TileAt, FitTile

\* Buffers of different sizes, each of a size for the image.
Distinct(S) == \A i, j \in DOMAIN S : S[i].wd = S[j].wd /\ S[i].he = S[j].he => i = j
AllFit(S, fmt, log) == \A i \in DOMAIN S : Fits(S[i], fmt, log)

LEMMA AddDistinct ==
    ASSUME NEW S \in Seq(Slot), Distinct(S), NEW t \in Tile, NEW log
    PROVE  Distinct(AddSlot(S, t, log))
<1> DEFINE e == [wd |-> t.x2 - t.x1, he |-> t.y2 - t.y1, log |-> log]
<1>1. e.wd = t.x2 - t.x1 /\ e.he = t.y2 - t.y1
  OBVIOUS
<1>2. SlotOf(S, t) = 0 => \A i \in DOMAIN S : ~(S[i].wd = t.x2 - t.x1 /\ S[i].he = t.y2 - t.y1)
  BY FindSlotIs
<1>3. AddSlot(S, t, log) = IF SlotOf(S, t) = 0 /\ Len(S) < SlotsN THEN Append(S, e) ELSE S
  BY DEF AddSlot
<1> HIDE DEF e
<1>4. ASSUME SlotOf(S, t) = 0 PROVE Distinct(Append(S, e))
  <2>1. /\ Len(S) \in Nat /\ DOMAIN S = 1..Len(S) /\ DOMAIN Append(S, e) = 1..(Len(S) + 1)
        /\ \A i \in 1..(Len(S) + 1) : Append(S, e)[i] = IF i <= Len(S) THEN S[i] ELSE e
    OBVIOUS
  <2> QED
    BY <1>1, <1>2, <1>4, <2>1 DEF Distinct
<1> QED
  BY <1>3, <1>4

LEMMA RoomForSlot ==
    ASSUME NEW S \in Seq(Slot), Len(S) <= SlotsN, Distinct(S), NEW fmt, NEW log, AllFit(S, fmt, log),
           NEW t \in Tile, FitTile(t, fmt), SlotOf(S, t) = 0
    PROVE  Len(S) < SlotsN
<1>0. Len(S) \in Nat /\ SlotsN \in Nat
  BY DEF SlotsN
<1> SUFFICES ASSUME Len(S) = SlotsN PROVE FALSE
  <2>1. Len(S) = SlotsN \/ Len(S) < SlotsN
    BY <1>0
  <2> QED
    BY <2>1, Zenon
<1>1. DOMAIN S = 1..4 /\ 1 \in 1..4 /\ 2 \in 1..4 /\ 3 \in 1..4 /\ 4 \in 1..4
  BY DEF SlotsN
<1>2. \A i \in 1..4 : S[i].wd \in {BucketSize, Edge(fmt[1])} /\ S[i].he \in {BucketSize, Edge(fmt[2])}
  BY <1>1 DEF AllFit, Fits
<1>3. \A i, j \in 1..4 : S[i].wd = S[j].wd /\ S[i].he = S[j].he => i = j
  BY <1>1 DEF Distinct
<1>4. \A i \in 1..4 : ~(S[i].wd = t.x2 - t.x1 /\ S[i].he = t.y2 - t.y1)
  BY <1>1, FindSlotIs
<1>5. t.x2 - t.x1 \in {BucketSize, Edge(fmt[1])} /\ t.y2 - t.y1 \in {BucketSize, Edge(fmt[2])}
  BY DEF FitTile
<1>6. 1 # 2 /\ 1 # 3 /\ 1 # 4 /\ 2 # 3 /\ 2 # 4 /\ 3 # 4
  OBVIOUS
<1>7. /\ ~(S[1].wd = S[2].wd /\ S[1].he = S[2].he) /\ ~(S[1].wd = S[3].wd /\ S[1].he = S[3].he)
      /\ ~(S[1].wd = S[4].wd /\ S[1].he = S[4].he) /\ ~(S[2].wd = S[3].wd /\ S[2].he = S[3].he)
      /\ ~(S[2].wd = S[4].wd /\ S[2].he = S[4].he) /\ ~(S[3].wd = S[4].wd /\ S[3].he = S[4].he)
  BY <1>1, <1>3, <1>6, Zenon
<1>8. /\ S[1].wd \in {BucketSize, Edge(fmt[1])} /\ S[1].he \in {BucketSize, Edge(fmt[2])}
      /\ S[2].wd \in {BucketSize, Edge(fmt[1])} /\ S[2].he \in {BucketSize, Edge(fmt[2])}
      /\ S[3].wd \in {BucketSize, Edge(fmt[1])} /\ S[3].he \in {BucketSize, Edge(fmt[2])}
      /\ S[4].wd \in {BucketSize, Edge(fmt[1])} /\ S[4].he \in {BucketSize, Edge(fmt[2])}
  BY <1>1, <1>2, Zenon
<1>9. /\ ~(S[1].wd = t.x2 - t.x1 /\ S[1].he = t.y2 - t.y1)
      /\ ~(S[2].wd = t.x2 - t.x1 /\ S[2].he = t.y2 - t.y1)
      /\ ~(S[3].wd = t.x2 - t.x1 /\ S[3].he = t.y2 - t.y1)
      /\ ~(S[4].wd = t.x2 - t.x1 /\ S[4].he = t.y2 - t.y1)
  <2> DEFINE Has(i) == S[i].wd = t.x2 - t.x1 /\ S[i].he = t.y2 - t.y1
  <2>1. \A i \in 1..4 : ~Has(i)
    BY <1>4
  <2> HIDE DEF Has
  <2>2. ~Has(1) /\ ~Has(2) /\ ~Has(3) /\ ~Has(4)
    BY <1>1, <2>1, Zenon
  <2> QED
    BY <2>2 DEF Has
<1> QED
  BY <1>5, <1>7, <1>8, <1>9

LEMMA AddFits ==
    ASSUME NEW S \in Seq(Slot), Len(S) <= SlotsN, Distinct(S), NEW fmt, NEW log \in 0..9,
           AllFit(S, fmt, log), NEW t \in Tile, FitTile(t, fmt)
    PROVE  AllFit(AddSlot(S, t, log), fmt, log) /\ SlotOf(AddSlot(S, t, log), t) # 0
<1>1. CASE SlotOf(S, t) # 0
  BY <1>1 DEF AddSlot
<1>2. CASE SlotOf(S, t) = 0
  <2> DEFINE e == [wd |-> t.x2 - t.x1, he |-> t.y2 - t.y1, log |-> log]
             A == Append(S, e)
  <2>1. AddSlot(S, t, log) = A
    BY <1>2, RoomForSlot DEF AddSlot
  <2>2. A \in Seq(Slot)
    BY <2>1, AddSlotIs
  <2>3. e.wd = t.x2 - t.x1 /\ e.he = t.y2 - t.y1 /\ e.log = log
    OBVIOUS
  <2> HIDE DEF e
  <2>4. /\ Len(S) \in Nat /\ DOMAIN S = 1..Len(S) /\ DOMAIN A = 1..(Len(S) + 1)
        /\ \A i \in 1..(Len(S) + 1) : A[i] = IF i <= Len(S) THEN S[i] ELSE e
    OBVIOUS
  <2>5. Fits(e, fmt, log)
    BY <2>3 DEF FitTile, Fits
  <2>6. \A i \in DOMAIN A : A[i] = e \/ \E j \in DOMAIN S : A[i] = S[j]
    BY <2>4
  <2>7. AllFit(A, fmt, log)
    BY <2>5, <2>6, Zenon DEF AllFit
  <2>8. Len(S) + 1 \in DOMAIN A /\ A[Len(S) + 1] = e
    BY <2>4
  <2> HIDE DEF A
  <2>9. SlotOf(A, t) # 0
    BY <2>2, <2>3, <2>8, FindSlotIs
  <2> QED
    BY <2>1, <2>7, <2>9
<1> QED
  BY <1>1, <1>2

\* What WorldBegin makes of buffers that are all different, and of those that fit its image.
LEMMA AddedDistinct ==
    ASSUME NEW S \in Seq(Slot), Len(S) <= SlotsN, Distinct(S), NEW tiles \in Seq(Tile),
           NEW log \in 0..9, NEW f, SlotSteps(f, S, tiles, log)
    PROVE  \A k \in 0..Len(tiles) : Distinct(f[k])
<1> DEFINE n == Len(tiles)
           P == {k \in Nat : k <= n => Distinct(f[k])}
<1>0. n \in Nat /\ \A k \in 0..n : f[k] \in Seq(Slot)
  <2>1. \A k \in 0..Len(tiles) : f[k] \in Seq(Slot) /\ Len(f[k]) <= SlotsN
    BY SlotsGrow
  <2> QED
    BY <2>1
<1>1. 0 \in P
  BY DEF SlotSteps
<1>2. ASSUME NEW k \in Nat, k \in P PROVE k + 1 \in P
  <2> SUFFICES ASSUME k + 1 <= n PROVE Distinct(f[k + 1])
    OBVIOUS
  <2>1. k + 1 \in 1..n /\ (k + 1) - 1 = k /\ k \in 0..n /\ k <= n
    BY <1>0
  <2>2. f[k + 1] = AddSlot(f[k], tiles[k + 1], log) /\ tiles[k + 1] \in Tile
    BY <2>1 DEF SlotSteps
  <2>3. f[k] \in Seq(Slot) /\ Distinct(f[k])
    BY <1>0, <1>2, <2>1
  <2> QED
    BY <2>2, <2>3, AddDistinct
<1> HIDE DEF P
<1>3. \A k \in Nat : k \in P
  BY <1>1, <1>2, SetInduction
<1> QED
  BY <1>0, <1>3 DEF P

LEMMA AddedFits ==
    ASSUME NEW S \in Seq(Slot), Len(S) <= SlotsN, Distinct(S), NEW tiles \in Seq(Tile),
           NEW log \in 0..9, NEW f, SlotSteps(f, S, tiles, log),
           NEW fmt, AllFit(S, fmt, log), \A k \in 1..Len(tiles) : FitTile(tiles[k], fmt)
    PROVE  /\ AllFit(f[Len(tiles)], fmt, log)
           /\ \A k \in 1..Len(tiles) : SlotOf(f[k], tiles[k]) # 0
<1> DEFINE n == Len(tiles)
           P == {k \in Nat : k <= n => AllFit(f[k], fmt, log)}
<1>0. /\ n \in Nat /\ \A k \in 0..n : f[k] \in Seq(Slot) /\ Len(f[k]) <= SlotsN
      /\ \A k \in 0..n : Distinct(f[k])
  <2>1. \A k \in 0..Len(tiles) : f[k] \in Seq(Slot) /\ Len(f[k]) <= SlotsN
    BY SlotsGrow
  <2>2. \A k \in 0..Len(tiles) : Distinct(f[k])
    BY AddedDistinct
  <2> QED
    BY <2>1, <2>2
<1>1. ASSUME NEW k \in Nat, k + 1 <= n, AllFit(f[k], fmt, log)
      PROVE  AllFit(f[k + 1], fmt, log) /\ SlotOf(f[k + 1], tiles[k + 1]) # 0
  <2>1. k + 1 \in 1..n /\ (k + 1) - 1 = k /\ k \in 0..n
    BY <1>0, <1>1
  <2>2. /\ f[k + 1] = AddSlot(f[k], tiles[k + 1], log) /\ tiles[k + 1] \in Tile
        /\ FitTile(tiles[k + 1], fmt)
    BY <2>1 DEF SlotSteps
  <2>3. f[k] \in Seq(Slot) /\ Len(f[k]) <= SlotsN /\ Distinct(f[k])
    BY <1>0, <2>1
  <2> QED
    BY <1>1, <2>2, <2>3, AddFits
<1>2. 0 \in P
  BY DEF SlotSteps
<1>3. ASSUME NEW k \in Nat, k \in P PROVE k + 1 \in P
  BY <1>0, <1>1, <1>3
<1>4. \A k \in Nat : k \in P
  <2> HIDE DEF P
  <2> QED
    BY <1>2, <1>3, SetInduction
<1>5. AllFit(f[n], fmt, log)
  BY <1>0, <1>4
<1>6. ASSUME NEW k \in 1..n PROVE SlotOf(f[k], tiles[k]) # 0
  <2>1. k - 1 \in Nat /\ (k - 1) + 1 = k /\ k - 1 <= n /\ k <= n
    BY <1>0
  <2>2. AllFit(f[k - 1], fmt, log)
    BY <1>4, <2>1
  <2> QED
    BY <1>1, <2>1, <2>2
<1> QED
  BY <1>5, <1>6

\* A tile without a buffer: all four are taken, and stay what they are.
LEMMA AddRunsOut ==
    ASSUME NEW S \in Seq(Slot), Len(S) <= SlotsN, NEW t \in Tile, NEW log \in 0..9,
           SlotOf(AddSlot(S, t, log), t) = 0
    PROVE  Len(AddSlot(S, t, log)) = SlotsN
<1> DEFINE e == [wd |-> t.x2 - t.x1, he |-> t.y2 - t.y1, log |-> log]
           A == Append(S, e)
<1>1. AddSlot(S, t, log) = IF SlotOf(S, t) = 0 /\ Len(S) < SlotsN THEN A ELSE S
  BY DEF AddSlot
<1>2. e \in Slot /\ e.wd = t.x2 - t.x1 /\ e.he = t.y2 - t.y1
  BY DEF Slot, Tile
<1> HIDE DEF e
<1>3. A \in Seq(Slot) /\ Len(S) + 1 \in DOMAIN A /\ A[Len(S) + 1] = e
  BY <1>2
<1> HIDE DEF A
<1>4. SlotOf(A, t) # 0
  BY <1>2, <1>3, FindSlotIs
<1>5. AddSlot(S, t, log) = S /\ ~(SlotOf(S, t) = 0 /\ Len(S) < SlotsN)
  BY <1>1, <1>4
<1>6. SlotOf(S, t) = 0
  BY <1>5
<1>7. Len(S) = SlotsN
  <2>1. ~(Len(S) < SlotsN)
    BY <1>5, <1>6, Zenon
  <2>2. \A x \in Nat : x <= 4 /\ ~(x < 4) => x = 4
    OBVIOUS
  <2>3. Len(S) \in Nat
    OBVIOUS
  <2> QED
    BY <2>1, <2>2, <2>3, Zenon DEF SlotsN
<1> QED
  BY <1>5, <1>7, Zenon

LEMMA FullStays ==
    ASSUME NEW S \in Seq(Slot), NEW T \in Seq(Slot), Extends(S, T), Len(T) <= SlotsN, Len(S) = SlotsN
    PROVE  T = S
BY DEF Extends, SlotsN

\* A buffer that is there stays the one of its size.
LEMMA StillFound ==
    ASSUME NEW S \in Seq(Slot), NEW T \in Seq(Slot), Extends(S, T), NEW t \in Tile, SlotOf(S, t) # 0
    PROVE  SlotOf(T, t) # 0
<1>1. PICK i \in DOMAIN S : S[i].wd = t.x2 - t.x1 /\ S[i].he = t.y2 - t.y1
  <2>1. SlotOf(S, t) \in 1..Len(S)
    <3>1. SlotOf(S, t) \in 0..Len(S) /\ Len(S) \in Nat
      BY FindSlotIs
    <3> HIDE DEF SlotOf
    <3> QED
      BY <3>1
  <2> QED
    BY <2>1, FindSlotIs
<1>2. i \in DOMAIN T /\ T[i] = S[i]
  BY DEF Extends
<1> QED
  BY <1>1, <1>2, FindSlotIs

\* The buffers that WorldBegin adds: of the sizes of tiles that had none.
IsNew(x, S, tiles, log) ==
    \E j \in 1..Len(tiles) : /\ x = [wd |-> tiles[j].x2 - tiles[j].x1,
                                    he |-> tiles[j].y2 - tiles[j].y1, log |-> log]
                             /\ SlotOf(S, tiles[j]) = 0 /\ Len(S) < SlotsN
OldOrNew(T, S, tiles, log) ==
    \A i \in DOMAIN T : (\E j \in DOMAIN S : T[i] = S[j]) \/ IsNew(T[i], S, tiles, log)

LEMMA AddedFrom ==
    ASSUME NEW S \in Seq(Slot), Len(S) <= SlotsN, NEW tiles \in Seq(Tile), NEW log \in 0..9,
           NEW f, SlotSteps(f, S, tiles, log)
    PROVE  OldOrNew(f[Len(tiles)], S, tiles, log)
<1> DEFINE n == Len(tiles)
           P == {k \in Nat : k <= n => OldOrNew(f[k], S, tiles, log) /\ Extends(S, f[k])}
<1>0. n \in Nat /\ \A k \in 0..n : f[k] \in Seq(Slot) /\ Len(f[k]) <= SlotsN
  <2>1. \A k \in 0..Len(tiles) : f[k] \in Seq(Slot) /\ Len(f[k]) <= SlotsN
    BY SlotsGrow
  <2> QED
    BY <2>1
<1>1. 0 \in P
  <2>1. f[0] = S
    BY DEF SlotSteps
  <2>2. OldOrNew(f[0], S, tiles, log)
    BY <2>1 DEF OldOrNew
  <2>3. Extends(S, f[0])
    BY <2>1 DEF Extends
  <2> QED
    BY <2>2, <2>3
<1>2. ASSUME NEW k \in Nat, k \in P PROVE k + 1 \in P
  <2> SUFFICES ASSUME k + 1 <= n PROVE OldOrNew(f[k + 1], S, tiles, log) /\ Extends(S, f[k + 1])
    OBVIOUS
  <2>1. k + 1 \in 1..n /\ (k + 1) - 1 = k /\ k \in 0..n /\ k <= n
    BY <1>0
  <2>2. PICK T \in Seq(Slot), t \in Tile :
           T = f[k] /\ t = tiles[k + 1] /\ f[k + 1] = AddSlot(T, t, log) /\ Len(T) <= SlotsN
    BY <1>0, <2>1 DEF SlotSteps
  <2>3. OldOrNew(T, S, tiles, log) /\ Extends(S, T)
    BY <1>2, <2>1, <2>2
  <2>4. Extends(T, f[k + 1])
    BY <2>2, AddSlotIs
  <2>5. Extends(S, f[k + 1])
    BY <2>3, <2>4 DEF Extends
  <2> DEFINE e == [wd |-> t.x2 - t.x1, he |-> t.y2 - t.y1, log |-> log]
  <2>6. CASE SlotOf(T, t) = 0 /\ Len(T) < SlotsN
    <3>1. f[k + 1] = Append(T, e)
      BY <2>2, <2>6 DEF AddSlot
    <3>2. SlotOf(S, t) = 0
      BY <2>3, <2>6, StillFound
    <3>3. Len(S) < SlotsN
      BY <2>3, <2>6 DEF Extends, SlotsN
    <3>4. IsNew(e, S, tiles, log)
      BY <2>1, <2>2, <3>2, <3>3 DEF IsNew
    <3> HIDE DEF e
    <3>5. \A i \in DOMAIN Append(T, e) : Append(T, e)[i] = e \/ \E j \in DOMAIN T : Append(T, e)[i] = T[j]
      OBVIOUS
    <3>6. \A i \in DOMAIN f[k + 1] : f[k + 1][i] = e \/ \E j \in DOMAIN T : f[k + 1][i] = T[j]
      BY <3>1, <3>5, Zenon
    <3>7. OldOrNew(f[k + 1], S, tiles, log)
      BY <2>3, <3>4, <3>6, Zenon DEF OldOrNew
    <3> QED
      BY <2>5, <3>7
  <2>7. CASE ~(SlotOf(T, t) = 0 /\ Len(T) < SlotsN)
    BY <2>2, <2>3, <2>7 DEF AddSlot
  <2> QED
    BY <2>6, <2>7
<1> HIDE DEF P
<1>3. \A k \in Nat : k \in P
  BY <1>1, <1>2, SetInduction
<1> QED
  BY <1>0, <1>3 DEF P

----------------------------------------------------------------------------
(* ServeInv is inductive beside HiderInv.  Its parts as relations of the   *)
(* variables.                                                              *)
WorldsAre(w, o, m, f, b, s) ==
    /\ w \in Nat /\ o \in Nat /\ m \in BOOLEAN
    /\ w > 0 => \E set \in Settings : f = FrameOf(set)
    /\ w = 0 => s = <<>> /\ o = 0 /\ ~m
    /\ o = 0 => b = <<>>
    /\ o = 1 => /\ Len(b) = Len(Tiles(f.fmt))
                /\ \A k \in DOMAIN b : b[k].rect = Tiles(f.fmt)[k]

SameSize(s, t) == s.wd = t.x2 - t.x1 /\ s.he = t.y2 - t.y1
SlotsAre(b, s, f, m) ==
    /\ \A k \in DOMAIN b : IF b[k].slot # 0 THEN SameSize(s[b[k].slot], b[k].rect)
                            ELSE m /\ Len(s) = SlotsN /\ SlotOf(s, b[k].rect) = 0
    /\ Distinct(s)
    /\ ~m => AllFit(s, f.fmt, f.log)

PrimsOf(x) == {x.prims[i] : i \in DOMAIN x.prims}
SeenBy(b, h) ==
    \A k, m \in DOMAIN b : \A a \in PrimsOf(b[k]) :
        Intersects(b[m].rect, h[a].bound) => a \in PrimsOf(b[m])
BorrowsAre(b, W, h, o) ==
    /\ \A k \in DOMAIN b : \A a \in PrimsOf(b[k]) : a \notin W
    /\ o <= 1 => SeenBy(b, h)

LEMMA WorldsHere ==
    /\ WorldsKnown <=> WorldsAre(worlds, opened, mixed, frame, buckets, slots)
    /\ WorldsKnown' <=> WorldsAre(worlds', opened', mixed', frame', buckets', slots')
<1>1. WorldsKnown <=> WorldsAre(worlds, opened, mixed, frame, buckets, slots)
  BY Zenon DEF WorldsKnown, WorldsAre
<1>2. WorldsKnown' <=> WorldsAre(worlds', opened', mixed', frame', buckets', slots')
  BY Zenon DEF WorldsKnown, WorldsAre
<1> QED
  BY <1>1, <1>2

LEMMA SlotsHere ==
    /\ SlotsKnown <=> SlotsAre(buckets, slots, frame, mixed)
    /\ SlotsKnown' <=> SlotsAre(buckets', slots', frame', mixed')
<1>1. SlotsKnown <=> SlotsAre(buckets, slots, frame, mixed)
  BY Zenon DEF SlotsKnown, SlotsAre, SameSize, Distinct, AllFit
<1>2. SlotsKnown' <=> SlotsAre(buckets', slots', frame', mixed')
  BY Zenon DEF SlotsKnown, SlotsAre, SameSize, Distinct, AllFit
<1> QED
  BY <1>1, <1>2

LEMMA BorrowsHere ==
    /\ BorrowedWhereSeen <=> BorrowsAre(buckets, Waits, heap, opened)
    /\ BorrowedWhereSeen' <=> BorrowsAre(buckets', Waits', heap', opened')
<1>1. BorrowedWhereSeen <=> BorrowsAre(buckets, Waits, heap, opened)
  BY DEF BorrowedWhereSeen, BorrowsAre, SeenBy, Borrowed, PrimsOf
<1>2. BorrowedWhereSeen' <=> BorrowsAre(buckets', Waits', heap', opened')
  BY DEF BorrowedWhereSeen, BorrowsAre, SeenBy, Borrowed, PrimsOf
<1> QED
  BY <1>1, <1>2

\* All steps but three leave buckets and worlds alone.
Serves == <<buckets, slots, frame, worlds, opened, mixed, firsts>>
LEMMA ServeCases ==
    ASSUME HNext \/ UNCHANGED hvars
    PROVE  \/ \E set \in Settings : HWorldBegin(set)
           \/ \E b \in Bounds : Dice(b)
           \/ RenderReturns
           \/ UNCHANGED Serves
<1>1. CASE \E complex, bad \in BOOLEAN : HInsert(complex, bad)
  BY <1>1 DEF HInsert, Serves
<1>2. CASE \E n \in 0..MaxParts : Simplify(n)
  BY <1>2 DEF Simplify, Serves
<1>3. CASE \E n \in 0..MaxParts : SimplifyThrows(n)
  BY <1>3 DEF SimplifyThrows, Serves
<1>4. CASE SplitPrim
  BY <1>4 DEF SplitPrim, PrimDone, Serves
<1>5. CASE Cull \/ DropPrim
  BY <1>5 DEF Cull, DropPrim, PrimDone, Serves
<1>6. CASE SplitEnd
  BY <1>6 DEF SplitEnd, Serves
<1>7. CASE Passes
  BY <1>7 DEF Passes, HWorldEnd, SimplifySkip, SimplifyNull, SimplifyEnd, SplitSkip, RenderNull,
              RenderThrows, hvars, Serves
<1> QED
  BY <1>1, <1>2, <1>3, <1>4, <1>5, <1>6, <1>7, StepCases

\* Dice appends the primitive to the lists of the buckets that its bound meets.
DicedTo(b, p, c, b2) ==
    /\ DOMAIN b2 = DOMAIN b
    /\ \A i \in DOMAIN b : /\ b2[i].rect = b[i].rect /\ b2[i].slot = b[i].slot
                           /\ PrimsOf(b2[i]) = IF Intersects(b[i].rect, c) THEN PrimsOf(b[i]) \cup {p}
                                               ELSE PrimsOf(b[i])

LEMMA PrimsAppend ==
    ASSUME NEW x, NEW y, NEW p, x.prims \in Seq(Addrs), p \in Addrs, y.prims = Append(x.prims, p)
    PROVE  PrimsOf(y) = PrimsOf(x) \cup {p}
<1>1. PICK s \in Seq(Addrs) : s = x.prims
  OBVIOUS
<1>2. {Append(s, p)[i] : i \in DOMAIN Append(s, p)} = {s[i] : i \in DOMAIN s} \cup {p}
  <2>1. /\ Len(s) \in Nat /\ DOMAIN s = 1..Len(s) /\ DOMAIN Append(s, p) = 1..(Len(s) + 1)
        /\ \A i \in 1..(Len(s) + 1) : Append(s, p)[i] = IF i <= Len(s) THEN s[i] ELSE p
    OBVIOUS
  <2>2. Len(s) + 1 \in DOMAIN Append(s, p) /\ Append(s, p)[Len(s) + 1] = p
    BY <2>1
  <2>3. \A i \in DOMAIN s : i \in DOMAIN Append(s, p) /\ Append(s, p)[i] = s[i]
    BY <2>1
  <2>4. \A i \in DOMAIN Append(s, p) : i \in DOMAIN s \/ Append(s, p)[i] = p
    BY <2>1
  <2> QED
    BY <2>2, <2>3, <2>4, Zenon
<1> QED
  BY <1>1, <1>2 DEF PrimsOf

LEMMA DiceIs ==
    ASSUME ListTypes, NEW b \in Bounds, Dice(b)
    PROVE  /\ DicedTo(buckets, hprims[hidx], b, buckets') /\ hidx \in DOMAIN hprims
           /\ hprims[hidx] # 0 /\ UNCHANGED <<slots, frame, worlds, opened, mixed, firsts>>
<1> DEFINE p == hprims[hidx]
           B == {i \in DOMAIN buckets : Intersects(buckets[i].rect, b)}
<1>1. /\ hprims \in Lists0 /\ buckets \in Seq(Bucket) /\ hidx \in DOMAIN hprims /\ p # 0
      /\ UNCHANGED <<slots, frame, worlds, opened, mixed, firsts>>
  BY DEF ListTypes, HTypeOK, Lists0, Dice, AtPrim, PrimDone
<1>2. buckets' = Borrow(buckets, B, p)
  BY DEF Dice, Borrow
<1>3. p \in Addrs /\ B \in SUBSET DOMAIN buckets
  BY <1>1 DEF Lists0
<1>4. \A i \in DOMAIN buckets : i \in B <=> Intersects(buckets[i].rect, b)
  OBVIOUS
<1> HIDE DEF p, B
<1>5. /\ DOMAIN buckets' = DOMAIN buckets
      /\ \A i \in DOMAIN buckets : buckets'[i].prims =
             IF i \in B THEN Append(buckets[i].prims, p) ELSE buckets[i].prims
      /\ \A i \in DOMAIN buckets : /\ buckets'[i].rect = buckets[i].rect
                                   /\ buckets'[i].slot = buckets[i].slot
  BY <1>1, <1>2, <1>3, BorrowType
<1>6. ASSUME NEW i \in DOMAIN buckets
      PROVE  PrimsOf(buckets'[i]) = IF i \in B THEN PrimsOf(buckets[i]) \cup {p} ELSE PrimsOf(buckets[i])
  <2>1. buckets[i].prims \in Seq(Addrs)
    <3>1. buckets[i] \in Bucket
      BY <1>1
    <3> QED
      BY <3>1 DEF Bucket
  <2>2. CASE i \in B
    <3>1. buckets'[i].prims = Append(buckets[i].prims, p)
      BY <1>5, <2>2
    <3> QED
      BY <1>3, <2>1, <2>2, <3>1, PrimsAppend
  <2>3. CASE i \notin B
    BY <1>5, <2>3 DEF PrimsOf
  <2> QED
    BY <2>2, <2>3
<1>7. DicedTo(buckets, p, b, buckets')
  BY <1>4, <1>5, <1>6 DEF DicedTo
<1> QED
  BY <1>1, <1>7 DEF p

\* The buckets of a new world behind those that are there.
Joined(b, e, c) ==
    /\ DOMAIN c = 1..(Len(b) + Len(e)) /\ Len(c) = Len(b) + Len(e)
    /\ \A k \in DOMAIN c : \/ k \in DOMAIN b /\ c[k] = b[k]
                           \/ k - Len(b) \in DOMAIN e /\ c[k] = e[k - Len(b)]

LEMMA JoinedAre ==
    ASSUME NEW b \in Seq(Bucket), NEW e \in Seq(Bucket)
    PROVE  Joined(b, e, b \o e) /\ (b = <<>> => b \o e = e)
<1>1. Joined(b, e, b \o e)
  BY DEF Joined
<1>2. b = <<>> => b \o e = e
  OBVIOUS
<1> QED
  BY <1>1, <1>2

LEMMA BeginIs ==
    ASSUME ListTypes, RefsExact, NEW set \in Settings, HWorldBegin(set)
    PROVE  /\ Begins(set) /\ worlds' = worlds + 1 /\ opened' = opened + 1
           /\ mixed' = (mixed \/ (worlds > 0 /\ frame' # frame)) /\ UNCHANGED <<hprims, heap>>
           /\ slots \in Seq(Slot) /\ Len(slots) <= SlotsN /\ buckets \in Seq(Bucket)
<1>1. Begins(set) /\ UNCHANGED <<hprims, heap>>
  BY WorldBeginStep
<1>2. /\ worlds' = worlds + 1 /\ opened' = opened + 1
      /\ mixed' = (mixed \/ (worlds > 0 /\ frame' # frame))
  BY DEF HWorldBegin
<1> QED
  BY <1>1, <1>2 DEF ListTypes, HTypeOK

LEMMA WorldsStep ==
    ASSUME ListTypes, RefsExact, WorldsKnown, HNext \/ UNCHANGED hvars
    PROVE  WorldsKnown'
<1>0. WorldsAre(worlds, opened, mixed, frame, buckets, slots) /\ buckets \in Seq(Bucket)
  BY WorldsHere DEF ListTypes
<1>1. ASSUME NEW set \in Settings, HWorldBegin(set) PROVE WorldsKnown'
  <2>1. /\ Begins(set) /\ worlds' = worlds + 1 /\ opened' = opened + 1
        /\ mixed' = (mixed \/ (worlds > 0 /\ frame' # frame))
    BY <1>1, BeginIs
  <2>2. PICK new : /\ Added(new, slots, Tiles(set.fmt), FrameOf(set).log)
                   /\ slots' = new.slots /\ buckets' = buckets \o new.buckets
    BY <2>1 DEF Begins
  <2>3. frame' = FrameOf(set) /\ FrameOf(set).fmt = set.fmt
    BY <2>1 DEF Begins, FrameOf
  <2>4. PICK e \in Seq(Bucket) : /\ e = new.buckets /\ Len(e) = Len(Tiles(set.fmt))
                                 /\ \A k \in 1..Len(Tiles(set.fmt)) : e[k].rect = Tiles(set.fmt)[k]
    BY <2>2 DEF Added
  <2>5. worlds \in Nat /\ opened \in Nat /\ mixed \in BOOLEAN /\ (opened = 0 => buckets = <<>>)
    BY <1>0 DEF WorldsAre
  <2>6. /\ worlds' \in Nat /\ opened' \in Nat /\ worlds' # 0 /\ opened' # 0
        /\ (opened' = 1 => opened = 0)
    BY <2>1, <2>5
  <2>7. mixed' \in BOOLEAN
    BY <2>1, <2>5, Zenon
  <2>8. ASSUME opened' = 1
        PROVE  /\ Len(buckets') = Len(Tiles(frame'.fmt))
               /\ \A k \in DOMAIN buckets' : buckets'[k].rect = Tiles(frame'.fmt)[k]
    <3>1. buckets = <<>>
      BY <2>5, <2>6, <2>8
    <3>2. buckets' = e
      BY <1>0, <2>2, <2>4, <3>1, JoinedAre
    <3>3. DOMAIN e = 1..Len(Tiles(set.fmt))
      BY <2>4
    <3> QED
      BY <2>3, <2>4, <3>2, <3>3
  <2>9. \E s \in Settings : frame' = FrameOf(s)
    BY <2>3
  <2>10. WorldsAre(worlds', opened', mixed', frame', buckets', slots')
    BY <2>6, <2>7, <2>8, <2>9, Zenon DEF WorldsAre
  <2> QED
    BY <2>10, WorldsHere
<1>2. ASSUME NEW b \in Bounds, Dice(b) PROVE WorldsKnown'
  <2>1. /\ DicedTo(buckets, hprims[hidx], b, buckets')
        /\ UNCHANGED <<slots, frame, worlds, opened, mixed, firsts>>
    BY <1>2, DiceIs
  <2>2. buckets' \in Seq(Bucket) /\ DOMAIN buckets' = DOMAIN buckets
    <3>1. ListTypes'
      BY <1>2, DiceStep
    <3> QED
      BY <2>1, <3>1 DEF ListTypes, DicedTo
  <2>3. Len(buckets') = Len(buckets) /\ (buckets = <<>> => buckets' = <<>>)
    BY <1>0, <2>2
  <2>4. \A k \in DOMAIN buckets' : buckets'[k].rect = buckets[k].rect
    BY <2>1 DEF DicedTo
  <2>5. WorldsAre(worlds', opened', mixed', frame', buckets', slots')
    BY <1>0, <2>1, <2>2, <2>3, <2>4 DEF WorldsAre
  <2> QED
    BY <2>5, WorldsHere
<1>3. CASE RenderReturns
  <2>1. buckets' = <<>> /\ opened' = 0 /\ UNCHANGED <<slots, frame, worlds, mixed, firsts>>
    BY <1>3 DEF RenderReturns
  <2>2. WorldsAre(worlds', opened', mixed', frame', buckets', slots')
    BY <1>0, <2>1 DEF WorldsAre
  <2> QED
    BY <2>2, WorldsHere
<1>4. CASE UNCHANGED Serves
  BY <1>0, <1>4, WorldsHere DEF Serves
<1> QED
  BY <1>1, <1>2, <1>3, <1>4, ServeCases

LEMMA SlotsStep ==
    ASSUME ListTypes, RefsExact, WorldsKnown, SlotsKnown, HNext \/ UNCHANGED hvars
    PROVE  SlotsKnown'
<1>0. /\ WorldsAre(worlds, opened, mixed, frame, buckets, slots)
      /\ SlotsAre(buckets, slots, frame, mixed)
  BY WorldsHere, SlotsHere
<1>1. ASSUME NEW set \in Settings, HWorldBegin(set) PROVE SlotsKnown'
  <2>1. /\ Begins(set) /\ mixed' = (mixed \/ (worlds > 0 /\ frame' # frame))
        /\ slots \in Seq(Slot) /\ Len(slots) <= SlotsN /\ buckets \in Seq(Bucket)
    BY <1>1, BeginIs
  <2> DEFINE tiles == Tiles(set.fmt)
             log == FrameOf(set).log
  <2>2. PICK new : Added(new, slots, tiles, log) /\ slots' = new.slots /\ buckets' = buckets \o new.buckets
    BY <2>1 DEF Begins
  <2>3. /\ frame' = FrameOf(set) /\ frame'.fmt = set.fmt /\ frame'.log = log /\ log \in 0..9
        /\ set.fmt \in (Nat \ {0}) \X (Nat \ {0})
    BY <2>1 DEF Begins, FrameOf
  <2>4. tiles \in Seq(Tile)
    BY <2>3, TilesAre
  <2>5. \A k \in 1..Len(tiles) : FitTile(tiles[k], set.fmt)
    BY <2>3, TilesFit
  <2> HIDE DEF tiles, log
  <2>6. PICK f : /\ SlotSteps(f, slots, tiles, log) /\ slots' = f[Len(tiles)]
                 /\ \A k \in 1..Len(tiles) : new.buckets[k].slot = SlotOf(f[k], tiles[k])
    BY <2>2 DEF Added
  <2>7. /\ Distinct(slots)
        /\ \A k \in DOMAIN buckets :
              IF buckets[k].slot # 0 THEN SameSize(slots[buckets[k].slot], buckets[k].rect)
              ELSE mixed /\ Len(slots) = SlotsN /\ SlotOf(slots, buckets[k].rect) = 0
    BY <1>0 DEF SlotsAre
  <2>8. \A k \in 0..Len(tiles) : Distinct(f[k])
    BY <2>1, <2>3, <2>4, <2>6, <2>7, AddedDistinct
  <2>9. \A k \in 0..Len(tiles) : f[k] \in Seq(Slot) /\ Len(f[k]) <= SlotsN
    BY <2>1, <2>3, <2>4, <2>6, SlotsGrow
  <2>10. \A k \in 0..Len(tiles) : Extends(f[k], slots')
    BY <2>1, <2>3, <2>4, <2>6, SlotsGrow
  <2>11. Extends(slots, slots')
    BY <2>1, <2>3, <2>4, <2>6, SlotsGrow
  <2>12. PICK e \in Seq(Bucket) : /\ e = new.buckets /\ DOMAIN e = 1..Len(tiles) /\ Len(tiles) \in Nat
                                  /\ \A k \in 1..Len(tiles) : e[k].rect = tiles[k]
    BY <2>2, <2>4 DEF Added
  <2>13. \A k \in DOMAIN buckets' :
            \/ k \in DOMAIN buckets /\ buckets'[k] = buckets[k]
            \/ \E j \in DOMAIN e : buckets'[k] = e[j]
    <3>1. Joined(buckets, e, buckets \o e)
      BY <2>1, JoinedAre
    <3>2. Joined(buckets, e, buckets')
      BY <2>2, <2>12, <3>1
    <3> QED
      BY <3>2, Zenon DEF Joined
  <2>14. ASSUME NEW j \in DOMAIN e, e[j].slot # 0
         PROVE  SameSize(slots'[e[j].slot], e[j].rect)
    <3>1. /\ j \in 0..Len(tiles) /\ j \in 1..Len(tiles) /\ tiles[j] \in Tile
          /\ e[j].slot = SlotOf(f[j], tiles[j]) /\ e[j].rect = tiles[j]
      BY <2>4, <2>6, <2>12
    <3>2. f[j] \in Seq(Slot) /\ Extends(f[j], slots')
      BY <2>9, <2>10, <3>1
    <3>3. /\ SlotOf(f[j], tiles[j]) \in 0..Len(f[j])
          /\ SameSize(f[j][e[j].slot], tiles[j])
      BY <2>14, <3>1, <3>2, FindSlotIs DEF SameSize
    <3>4. e[j].slot \in DOMAIN f[j]
      BY <2>14, <3>1, <3>2, <3>3
    <3> QED
      BY <3>1, <3>2, <3>3, <3>4 DEF Extends
  <2>15. ASSUME NEW k \in DOMAIN buckets, buckets[k].slot # 0
         PROVE  SameSize(slots'[buckets[k].slot], buckets[k].rect)
    <3>1. buckets[k].slot \in DOMAIN slots
      <4>1. buckets[k].slot \in 0..Len(slots)
        BY DEF ListTypes, HTypeOK
      <4> QED
        BY <2>1, <2>15, <4>1
    <3> QED
      BY <2>7, <2>11, <2>15, <3>1 DEF Extends
  <2>16. \A k \in DOMAIN buckets' : buckets'[k].slot # 0 => SameSize(slots'[buckets'[k].slot], buckets'[k].rect)
    BY <2>13, <2>14, <2>15
  <2>161. slots' \in Seq(Slot) /\ Len(slots') <= SlotsN
    <3>1. Len(tiles) \in 0..Len(tiles)
      BY <2>12
    <3> QED
      BY <2>6, <2>9, <3>1
  <2>162. ASSUME NEW j \in DOMAIN e, e[j].slot = 0
          PROVE  Len(slots') = SlotsN /\ SlotOf(slots', e[j].rect) = 0
    <3>1. /\ j \in 0..Len(tiles) /\ j \in 1..Len(tiles) /\ tiles[j] \in Tile
          /\ e[j].slot = SlotOf(f[j], tiles[j]) /\ e[j].rect = tiles[j]
          /\ j - 1 \in 0..Len(tiles)
      BY <2>4, <2>6, <2>12
    <3>2. f[j] = AddSlot(f[j - 1], tiles[j], log)
      BY <2>6, <3>1 DEF SlotSteps
    <3>3. f[j] \in Seq(Slot) /\ Extends(f[j], slots') /\ f[j - 1] \in Seq(Slot) /\ Len(f[j - 1]) <= SlotsN
      BY <2>9, <2>10, <3>1
    <3>4. Len(f[j]) = SlotsN
      <4>1. PICK S \in Seq(Slot), t \in Tile : S = f[j - 1] /\ t = tiles[j] /\ Len(S) <= SlotsN
        BY <3>1, <3>3
      <4>2. f[j] = AddSlot(S, t, log) /\ SlotOf(AddSlot(S, t, log), t) = 0
        BY <2>162, <3>1, <3>2, <4>1
      <4>3. Len(AddSlot(S, t, log)) = SlotsN
        BY <2>3, <4>1, <4>2, AddRunsOut
      <4> QED
        BY <4>2, <4>3, Zenon
    <3>5. slots' = f[j]
      BY <2>161, <3>3, <3>4, FullStays
    <3> QED
      BY <2>162, <3>1, <3>4, <3>5
  <2>163. ASSUME NEW k \in DOMAIN buckets, buckets[k].slot = 0
          PROVE  mixed' /\ Len(slots') = SlotsN /\ SlotOf(slots', buckets[k].rect) = 0
    <3>1. mixed /\ Len(slots) = SlotsN /\ SlotOf(slots, buckets[k].rect) = 0
      BY <2>7, <2>163
    <3>2. slots' = slots
      BY <2>1, <2>11, <2>161, <3>1, FullStays
    <3>3. mixed'
      BY <2>1, <3>1, Zenon
    <3> QED
      BY <3>1, <3>2, <3>3
  <2>17. Distinct(slots')
    <3>1. Len(tiles) \in 0..Len(tiles)
      BY <2>12
    <3> QED
      BY <2>6, <2>8, <3>1
  <2>18. ASSUME ~mixed'
         PROVE  (\A j \in DOMAIN e : e[j].slot # 0) /\ AllFit(slots', frame'.fmt, frame'.log)
    <3>1. ~mixed /\ (worlds = 0 \/ frame' = frame)
      <4>1. ~mixed /\ ~(worlds > 0 /\ frame' # frame)
        BY <2>1, <2>18, Zenon
      <4>2. worlds \in Nat
        BY <1>0 DEF WorldsAre
      <4>3. worlds = 0 \/ worlds > 0
        BY <4>2
      <4> QED
        BY <4>1, <4>3, Zenon
    <3>2. AllFit(slots, set.fmt, log)
      <4>1. CASE worlds = 0
        <5>1. slots = <<>>
          BY <1>0, <4>1 DEF WorldsAre
        <5> QED
          BY <5>1 DEF AllFit
      <4>2. CASE frame' = frame
        BY <1>0, <2>3, <3>1, <4>2 DEF SlotsAre
      <4> QED
        BY <3>1, <4>1, <4>2
    <3>3. /\ AllFit(f[Len(tiles)], set.fmt, log)
          /\ \A k \in 1..Len(tiles) : SlotOf(f[k], tiles[k]) # 0
      BY <2>1, <2>3, <2>4, <2>5, <2>6, <2>7, <3>2, AddedFits
    <3>4. \A j \in DOMAIN e : e[j].slot # 0
      BY <2>6, <2>12, <3>3
    <3> QED
      BY <2>3, <2>6, <3>3, <3>4
  <2>181. mixed' \in BOOLEAN
    BY <1>0, <2>1 DEF WorldsAre
  <2>182. ASSUME NEW k \in DOMAIN buckets', buckets'[k].slot = 0
          PROVE  mixed' /\ Len(slots') = SlotsN /\ SlotOf(slots', buckets'[k].rect) = 0
    <3>1. CASE k \in DOMAIN buckets /\ buckets'[k] = buckets[k]
      BY <2>163, <2>182, <3>1
    <3>2. ASSUME NEW j \in DOMAIN e, buckets'[k] = e[j]
          PROVE  mixed' /\ Len(slots') = SlotsN /\ SlotOf(slots', buckets'[k].rect) = 0
      <4>1. mixed'
        <5>1. ~(e[j].slot # 0)
          BY <2>182, <3>2
        <5> QED
          BY <2>18, <5>1
      <4> QED
        BY <2>162, <2>182, <3>2, <4>1
    <3> QED
      BY <2>13, <3>1, <3>2
  <2>19. SlotsAre(buckets', slots', frame', mixed')
    BY <2>16, <2>17, <2>18, <2>182, Zenon DEF SlotsAre
  <2> QED
    BY <2>19, SlotsHere
<1>2. ASSUME NEW b \in Bounds, Dice(b) PROVE SlotsKnown'
  <2>1. /\ DicedTo(buckets, hprims[hidx], b, buckets')
        /\ UNCHANGED <<slots, frame, worlds, opened, mixed, firsts>>
    BY <1>2, DiceIs
  <2>2. DOMAIN buckets' = DOMAIN buckets /\ \A k \in DOMAIN buckets' : /\ buckets'[k].rect = buckets[k].rect
                                                                       /\ buckets'[k].slot = buckets[k].slot
    BY <2>1 DEF DicedTo
  <2>3. SlotsAre(buckets', slots', frame', mixed')
    BY <1>0, <2>1, <2>2 DEF SlotsAre
  <2> QED
    BY <2>3, SlotsHere
<1>3. CASE RenderReturns
  <2>1. buckets' = <<>> /\ UNCHANGED <<slots, frame, worlds, mixed, firsts>>
    BY <1>3 DEF RenderReturns
  <2>2. SlotsAre(buckets', slots', frame', mixed')
    BY <1>0, <2>1 DEF SlotsAre
  <2> QED
    BY <2>2, SlotsHere
<1>4. CASE UNCHANGED Serves
  BY <1>0, <1>4, SlotsHere DEF Serves
<1> QED
  BY <1>1, <1>2, <1>3, <1>4, ServeCases

(* SlotsFirst as a relation of the buffers and of the sizes known.         *)
FirstsAre(s, k) ==
    /\ \A i \in DOMAIN s : s[i] \in k
    /\ Len(s) < SlotsN => \A x \in k : \E i \in DOMAIN s : s[i].wd = x.wd /\ s[i].he = x.he

LEMMA FirstsHere ==
    (SlotsFirst <=> FirstsAre(slots, firsts)) /\ (SlotsFirst' <=> FirstsAre(slots', firsts'))
<1>1. SlotsFirst <=> FirstsAre(slots, firsts)
  BY Zenon DEF SlotsFirst, FirstsAre
<1>2. SlotsFirst' <=> FirstsAre(slots', firsts')
  BY Zenon DEF SlotsFirst, FirstsAre
<1> QED
  BY <1>1, <1>2

\* What Firsts adds, and that it adds every size that is not known.
LEMMA FirstsIs ==
    ASSUME NEW K, NEW tiles \in Seq(Tile), NEW log \in 0..9
    PROVE  /\ K \subseteq Firsts(K, tiles, log)
           /\ \A x \in Firsts(K, tiles, log) \ K : \E j \in 1..Len(tiles) :
                 x.wd = tiles[j].x2 - tiles[j].x1 /\ x.he = tiles[j].y2 - tiles[j].y1
           /\ \A j \in 1..Len(tiles) :
                 \/ \E x \in K : x.wd = tiles[j].x2 - tiles[j].x1 /\ x.he = tiles[j].y2 - tiles[j].y1
                 \/ [wd |-> tiles[j].x2 - tiles[j].x1, he |-> tiles[j].y2 - tiles[j].y1, log |-> log]
                       \in Firsts(K, tiles, log)
<1> DEFINE Z == {SizeOf(tiles[k]) : k \in DOMAIN tiles}
           Old == {<<x.wd, x.he>> : x \in K}
           R(z) == [wd |-> z[1], he |-> z[2], log |-> log]
           New == {R(z) : z \in Z \ Old}
<1>1. Firsts(K, tiles, log) = K \cup New
  BY DEF Firsts
<1>2. DOMAIN tiles = 1..Len(tiles)
  OBVIOUS
<1>3. ASSUME NEW j \in 1..Len(tiles)
      PROVE  /\ SizeOf(tiles[j])[1] = tiles[j].x2 - tiles[j].x1
             /\ SizeOf(tiles[j])[2] = tiles[j].y2 - tiles[j].y1
             /\ R(SizeOf(tiles[j])) = [wd |-> tiles[j].x2 - tiles[j].x1, he |-> tiles[j].y2 - tiles[j].y1,
                                       log |-> log]
  BY DEF SizeOf
<1>4. \A z : R(z).wd = z[1] /\ R(z).he = z[2]
  OBVIOUS
<1>5. ASSUME NEW x \in Firsts(K, tiles, log) \ K
      PROVE  \E j \in 1..Len(tiles) :
                 x.wd = tiles[j].x2 - tiles[j].x1 /\ x.he = tiles[j].y2 - tiles[j].y1
  <2>1. PICK z \in Z : x = R(z)
    BY <1>1, <1>5
  <2>2. PICK j \in 1..Len(tiles) : z = SizeOf(tiles[j])
    BY <1>2, <2>1
  <2> QED
    BY <1>3, <1>4, <2>1, <2>2
<1>6. ASSUME NEW j \in 1..Len(tiles)
      PROVE  \/ \E x \in K : x.wd = tiles[j].x2 - tiles[j].x1 /\ x.he = tiles[j].y2 - tiles[j].y1
             \/ [wd |-> tiles[j].x2 - tiles[j].x1, he |-> tiles[j].y2 - tiles[j].y1, log |-> log]
                   \in Firsts(K, tiles, log)
  <2>1. SizeOf(tiles[j]) \in Z
    BY <1>2
  <2>2. CASE SizeOf(tiles[j]) \in Old
    <3>1. PICK x \in K : SizeOf(tiles[j]) = <<x.wd, x.he>>
      BY <2>2
    <3>2. x.wd = SizeOf(tiles[j])[1] /\ x.he = SizeOf(tiles[j])[2]
      BY <3>1
    <3> QED
      BY <1>3, <3>2
  <2>3. CASE SizeOf(tiles[j]) \notin Old
    <3>1. R(SizeOf(tiles[j])) \in New
      BY <2>1, <2>3
    <3> QED
      BY <1>1, <1>3, <3>1
  <2> QED
    BY <2>2, <2>3
<1> QED
  BY <1>1, <1>5, <1>6

LEMMA FirstsStep ==
    ASSUME ListTypes, RefsExact, SlotsFirst, HNext \/ UNCHANGED hvars
    PROVE  SlotsFirst'
<1>0. FirstsAre(slots, firsts)
  BY FirstsHere
<1>1. ASSUME NEW set \in Settings, HWorldBegin(set) PROVE SlotsFirst'
  <2>1. /\ Begins(set) /\ slots \in Seq(Slot) /\ Len(slots) <= SlotsN /\ buckets \in Seq(Bucket)
    BY <1>1, BeginIs
  <2> DEFINE tiles == Tiles(set.fmt)
             log == FrameOf(set).log
  <2>2. firsts' = Firsts(firsts, tiles, log)
    BY <1>1 DEF HWorldBegin
  <2>3. PICK new : Added(new, slots, tiles, log) /\ slots' = new.slots
    BY <2>1 DEF Begins
  <2>4. log \in 0..9 /\ set.fmt \in (Nat \ {0}) \X (Nat \ {0})
    BY <2>1 DEF Begins
  <2>5. tiles \in Seq(Tile)
    BY <2>4, TilesAre
  <2> HIDE DEF tiles, log
  <2>6. PICK f : SlotSteps(f, slots, tiles, log) /\ slots' = f[Len(tiles)]
    BY <2>3 DEF Added
  <2>7. /\ \A k \in 0..Len(tiles) : f[k] \in Seq(Slot) /\ Len(f[k]) <= SlotsN
        /\ \A k \in 0..Len(tiles) : Extends(f[k], slots')
        /\ Extends(slots, slots')
    BY <2>1, <2>4, <2>5, <2>6, SlotsGrow
  <2>8. OldOrNew(slots', slots, tiles, log)
    BY <2>1, <2>4, <2>5, <2>6, AddedFrom
  <2>9. firsts \subseteq firsts'
    BY <2>2, <2>4, <2>5, FirstsIs
  <2>10. ASSUME NEW i \in DOMAIN slots' PROVE slots'[i] \in firsts'
    <3>1. CASE \E j \in DOMAIN slots : slots'[i] = slots[j]
      BY <1>0, <2>9, <3>1 DEF FirstsAre
    <3>2. CASE IsNew(slots'[i], slots, tiles, log)
      <4>1. PICK j \in 1..Len(tiles) :
               /\ slots'[i] = [wd |-> tiles[j].x2 - tiles[j].x1, he |-> tiles[j].y2 - tiles[j].y1,
                              log |-> log]
               /\ SlotOf(slots, tiles[j]) = 0 /\ Len(slots) < SlotsN
        BY <3>2 DEF IsNew
      <4>2. tiles[j] \in Tile
        BY <2>5
      <4>3. ~\E x \in firsts : x.wd = tiles[j].x2 - tiles[j].x1 /\ x.he = tiles[j].y2 - tiles[j].y1
        <5>1. \A m \in DOMAIN slots :
                 ~(slots[m].wd = tiles[j].x2 - tiles[j].x1 /\ slots[m].he = tiles[j].y2 - tiles[j].y1)
          BY <2>1, <4>1, <4>2, FindSlotIs
        <5>2. \A x \in firsts : \E m \in DOMAIN slots : slots[m].wd = x.wd /\ slots[m].he = x.he
          BY <1>0, <4>1 DEF FirstsAre
        <5> QED
          BY <5>1, <5>2
      <4> QED
        BY <2>2, <2>4, <2>5, <4>1, <4>3, FirstsIs
    <3> QED
      BY <2>8, <3>1, <3>2 DEF OldOrNew
  <2>11. ASSUME Len(slots') < SlotsN, NEW x \in firsts'
         PROVE  \E i \in DOMAIN slots' : slots'[i].wd = x.wd /\ slots'[i].he = x.he
    <3>0. Len(tiles) \in Nat /\ slots' \in Seq(Slot)
      BY <2>5, <2>6, <2>7
    <3>1. CASE x \in firsts
      <4>1. Len(slots) < SlotsN
        BY <2>1, <2>7, <2>11, <3>0 DEF Extends, SlotsN
      <4>2. PICK i \in DOMAIN slots : slots[i].wd = x.wd /\ slots[i].he = x.he
        BY <1>0, <3>1, <4>1 DEF FirstsAre
      <4>3. i \in DOMAIN slots' /\ slots'[i] = slots[i]
        BY <2>1, <2>7, <3>0, <4>2 DEF Extends
      <4> QED
        BY <4>2, <4>3
    <3>2. CASE x \notin firsts
      <4>1. PICK j \in 1..Len(tiles) :
               x.wd = tiles[j].x2 - tiles[j].x1 /\ x.he = tiles[j].y2 - tiles[j].y1
        BY <2>2, <2>4, <2>5, <3>2, FirstsIs
      <4>2. j \in 0..Len(tiles) /\ j - 1 \in 0..Len(tiles) /\ tiles[j] \in Tile
        BY <2>5, <3>0
      <4>3. f[j] = AddSlot(f[j - 1], tiles[j], log)
        BY <2>6 DEF SlotSteps
      <4>4. /\ f[j - 1] \in Seq(Slot) /\ Len(f[j - 1]) <= SlotsN /\ f[j] \in Seq(Slot)
            /\ Extends(f[j], slots')
        BY <2>7, <4>2
      <4>5. SlotOf(f[j], tiles[j]) # 0
        <5>1. ASSUME SlotOf(f[j], tiles[j]) = 0 PROVE FALSE
          <6>0. PICK S \in Seq(Slot), t \in Tile : S = f[j - 1] /\ t = tiles[j] /\ Len(S) <= SlotsN
            BY <4>2, <4>4
          <6>1. Len(f[j]) = SlotsN
            <7>1. f[j] = AddSlot(S, t, log) /\ SlotOf(AddSlot(S, t, log), t) = 0
              BY <4>3, <5>1, <6>0
            <7>2. Len(AddSlot(S, t, log)) = SlotsN
              BY <2>4, <6>0, <7>1, AddRunsOut
            <7> QED
              BY <7>1, <7>2, Zenon
          <6> QED
            BY <2>11, <3>0, <4>4, <6>1 DEF Extends, SlotsN
        <5> QED
          BY <5>1
      <4>6. SlotOf(slots', tiles[j]) # 0
        BY <3>0, <4>2, <4>4, <4>5, StillFound
      <4>7. SlotOf(slots', tiles[j]) \in DOMAIN slots'
        <5>1. SlotOf(slots', tiles[j]) \in 0..Len(slots') /\ DOMAIN slots' = 1..Len(slots') /\ Len(slots') \in Nat
          BY <3>0, <4>2, FindSlotIs
        <5> QED
          BY <4>6, <5>1
      <4>8. /\ slots'[SlotOf(slots', tiles[j])].wd = tiles[j].x2 - tiles[j].x1
            /\ slots'[SlotOf(slots', tiles[j])].he = tiles[j].y2 - tiles[j].y1
        BY <3>0, <4>2, <4>6, FindSlotIs
      <4> QED
        BY <4>1, <4>7, <4>8
    <3> QED
      BY <3>1, <3>2
  <2>12. FirstsAre(slots', firsts')
    BY <2>10, <2>11 DEF FirstsAre
  <2> QED
    BY <2>12, FirstsHere
<1>2. ASSUME NEW b \in Bounds, Dice(b) PROVE SlotsFirst'
  <2>1. UNCHANGED <<slots, firsts>>
    BY <1>2, DiceIs
  <2> QED
    BY <1>0, <2>1, FirstsHere
<1>3. CASE RenderReturns
  <2>1. UNCHANGED <<slots, firsts>>
    BY <1>3 DEF RenderReturns
  <2> QED
    BY <1>0, <2>1, FirstsHere
<1>4. CASE UNCHANGED Serves
  BY <1>0, <1>4, FirstsHere DEF Serves
<1> QED
  BY <1>1, <1>2, <1>3, <1>4, ServeCases

LEMMA UsedIfBorrowed ==
    ASSUME NEW h, NEW l \in Lists0, NEW b \in Seq(Bucket), Exact(h, l, b),
           NEW k \in DOMAIN b, NEW a \in PrimsOf(b[k])
    PROVE  a \in Addrs /\ h[a].ref # 0
<1>1. PICK i \in DOMAIN b[k].prims : a = b[k].prims[i]
  BY DEF PrimsOf
<1>2. a \in Addrs
  <2>1. b[k].prims \in Seq(Addrs)
    <3>1. b[k] \in Bucket
      OBVIOUS
    <3> QED
      BY <3>1 DEF Bucket
  <2> QED
    BY <1>1, <2>1
<1>3. Lists(b, a) \in Nat /\ Lists(b, a) # 0
  BY <1>1, EntriesFinite, ListsNone
<1>4. Occ(l, a) \in Nat
  BY AtFinite DEF Lists0
<1>5. h[a].ref = Occ(l, a) + Lists(b, a)
  BY <1>2 DEF Exact
<1> QED
  BY <1>2, <1>3, <1>4, <1>5

\* What was borrowed stays as it is when only what waits, or is new, changes.
LEMMA BorrowStays ==
    ASSUME ListTypes, RefsExact, BorrowedWhereSeen, UNCHANGED <<buckets, opened>>,
           \A a \in Waits' : a \in Waits \/ heap[a].ref = 0,
           \A a \in Addrs : heap[a].ref # 0 /\ a \notin Waits => heap'[a] = heap[a]
    PROVE  BorrowedWhereSeen'
<1>0. BorrowsAre(buckets, Waits, heap, opened)
  BY BorrowsHere
<1>1. ASSUME NEW k \in DOMAIN buckets, NEW a \in PrimsOf(buckets[k])
      PROVE  a \in Addrs /\ heap[a].ref # 0 /\ a \notin Waits
  <2>1. hprims \in Lists0 /\ buckets \in Seq(Bucket) /\ Exact(heap, hprims, buckets)
    BY RefsAre DEF ListTypes, HTypeOK, Lists0
  <2>2. a \in Addrs /\ heap[a].ref # 0
    BY <2>1, UsedIfBorrowed
  <2> QED
    BY <1>0, <2>2 DEF BorrowsAre
<1>2. ASSUME NEW k \in DOMAIN buckets, NEW a \in PrimsOf(buckets[k])
      PROVE  heap'[a] = heap[a] /\ a \notin Waits'
  BY <1>1
<1>3. BorrowsAre(buckets, Waits', heap', opened)
  BY <1>0, <1>2 DEF BorrowsAre, SeenBy
<1> QED
  BY <1>3, BorrowsHere

LEMMA BorrowAdds ==
    ASSUME ListTypes, RefsExact, ListedOnce, BorrowedWhereSeen, UNCHANGED <<buckets, opened>>,
           NEW A, NEW n, NEW s, Adds(heap, hprims, A, n, s, heap', hprims')
    PROVE  BorrowedWhereSeen'
<1>1. Waits' = (Waits \ {}) \cup {A[i] : i \in 1..n}
  BY AddsTurnsHere DEF Turns
<1>2. heap \in [Addrs -> Prim] /\ hprims \in Lists0
  BY DEF ListTypes, HTypeOK, Lists0
<1>3. /\ \A i \in 1..n : heap[A[i]].ref = 0
      /\ \A a \in Addrs : (\A i \in 1..n : A[i] # a) => heap'[a] = heap[a]
  BY <1>2, AddsTypes
<1>4. \A a \in Waits' : a \in Waits \/ heap[a].ref = 0
  BY <1>1, <1>3
<1>5. \A a \in Addrs : heap[a].ref # 0 => heap'[a] = heap[a]
  BY <1>3
<1> QED
  BY <1>4, <1>5, BorrowStays

OnlyNew(h, A, n, g) ==
    /\ \A i \in 1..n : h[A[i]].ref = 0
    /\ \A a \in Addrs : (\A i \in 1..n : A[i] # a) => g[a] = h[a]

LEMMA AddsOnlyNew ==
    ASSUME NEW h \in [Addrs -> Prim], NEW l \in Lists0, NEW A, NEW n, NEW s, NEW h2, NEW l2,
           Adds(h, l, A, n, s, h2, l2)
    PROVE  OnlyNew(h, A, n, h2)
<1>1. \A i \in 1..n : h[A[i]].ref = 0
  BY AddsTypes
<1>2. \A a \in Addrs : (\A i \in 1..n : A[i] # a) => h2[a] = h[a]
  BY AddsTypes
<1> QED
  BY <1>1, <1>2 DEF OnlyNew

LEMMA BorrowReplaces ==
    ASSUME ListTypes, RefsExact, ListedOnce, BorrowedWhereSeen, UNCHANGED <<buckets, opened>>,
           NEW A, NEW n, NEW s, Replaces(A, n, s), hidx \in DOMAIN hprims, hprims[hidx] # 0
    PROVE  BorrowedWhereSeen'
<1>1. /\ hprims[hidx] \in Waits /\ Waits' = (Waits \ {hprims[hidx]}) \cup {A[i] : i \in 1..n}
  BY ReplacesTurnsHere DEF Turns
<1>2. heap \in [Addrs -> Prim] /\ hprims \in Lists0
  BY DEF ListTypes, HTypeOK, Lists0
<1>3. PICK g, m : /\ Adds(heap, hprims, A, n, s, g, m) /\ m[hidx] = hprims[hidx]
                  /\ Freed(heap', hprims', g, m, hidx, buckets)
  BY DEF Replaces
<1>4. /\ \A i \in 1..n : heap[A[i]].ref = 0
      /\ \A a \in Addrs : (\A i \in 1..n : A[i] # a) => g[a] = heap[a]
  <2>1. OnlyNew(heap, A, n, g)
    BY <1>2, <1>3, AddsOnlyNew
  <2> QED
    BY <2>1 DEF OnlyNew
<1>5. \A a \in Addrs : a # hprims[hidx] => heap'[a] = g[a]
  BY <1>3 DEF Freed
<1>6. \A a \in Waits' : a \in Waits \/ heap[a].ref = 0
  BY <1>1, <1>4
<1>7. \A a \in Addrs : heap[a].ref # 0 /\ a \notin Waits => heap'[a] = heap[a]
  BY <1>1, <1>4, <1>5
<1> QED
  BY <1>6, <1>7, BorrowStays

LEMMA BorrowLeaves ==
    ASSUME ListTypes, RefsExact, ListedOnce, BorrowedWhereSeen, Cull \/ DropPrim
    PROVE  BorrowedWhereSeen'
<1>1. Freed(heap', hprims', heap, hprims, hidx, buckets)
  BY CullStep
<1>2. UNCHANGED <<buckets, opened>> /\ hidx \in DOMAIN hprims
  <2>1. hphase = "split" /\ hidx <= Len(hprims) => hidx \in DOMAIN hprims
    BY DEF ListTypes, HTypeOK
  <2>2. UNCHANGED <<buckets, opened>> /\ hphase = "split" /\ hidx <= Len(hprims)
    BY DEF Cull, DropPrim, PrimDone, AtPrim
  <2> QED
    BY <2>1, <2>2
<1>3. /\ hprims[hidx] \in Waits
      /\ Waits' = (Waits \ {hprims[hidx]}) \cup {<<>>[i] : i \in 1..0}
  BY <1>1, <1>2, FreedTurnsHere DEF Turns
<1>4. \A a \in Addrs : a # hprims[hidx] => heap'[a] = heap[a]
  BY <1>1 DEF Freed
<1>5. \A a \in Waits' : a \in Waits \/ heap[a].ref = 0
  BY <1>3
<1>6. \A a \in Addrs : heap[a].ref # 0 /\ a \notin Waits => heap'[a] = heap[a]
  BY <1>3, <1>4
<1> QED
  BY <1>2, <1>5, <1>6, BorrowStays

(* The primitive that is diced no longer waits; where its record is still  *)
(* there it has the bound by which the buckets were chosen.                *)
LEMMA DicedIs ==
    ASSUME ListTypes, RefsExact, ListedOnce, NEW b \in Bounds, Dice(b)
    PROVE  /\ hprims[hidx] \in Waits /\ hprims[hidx] \in Addrs /\ Waits' = Waits \ {hprims[hidx]}
           /\ \A a \in Addrs : a # hprims[hidx] => heap'[a] = heap[a]
           /\ heap'[hprims[hidx]].ref # 0 => heap'[hprims[hidx]].bound = b
<1> DEFINE p == hprims[hidx]
           g == Diced(b)
<1>1. g \in [Addrs -> Prim] /\ Freed(heap', hprims', g, hprims, hidx, buckets')
  BY DiceStep
<1>2. hidx \in DOMAIN hprims /\ p # 0
  BY DiceIs
<1>3. p \in Addrs
  BY <1>1 DEF Freed
<1>4. heap \in [Addrs -> Prim] /\ hprims \in Lists0
  BY DEF ListTypes, HTypeOK, Lists0
<1>5. \A a \in Addrs : a # p => g[a] = heap[a]
  BY <1>3, <1>4 DEF Diced
<1>6. Waits \subseteq Addrs
  BY <1>4, WaitsType
<1>7. p \in Waits /\ Waits' = (Waits \ {p}) \cup {<<>>[i] : i \in 1..0}
  <2>1. \A a \in Waits : a # p => g[a] = heap[a]
    BY <1>5, <1>6
  <2> QED
    BY <1>1, <1>2, <2>1, FreedTurnsHere DEF Turns
<1>8. \A a \in Addrs : a # p => heap'[a] = heap[a]
  BY <1>1, <1>5 DEF Freed
<1>9. ASSUME heap'[p].ref # 0 PROVE heap'[p].bound = b
  <2>1. heap' = Release(g, p)
    BY DEF Dice, PrimDone, Diced
  <2>2. heap \in [Addrs -> Prim]
    BY DEF ListTypes, HTypeOK
  <2>3. g[p].bound = b
    BY <1>3, <2>2 DEF Diced, Prim
  <2>4. heap'[p] = IF g[p].ref = 1 THEN Nothing ELSE [g[p] EXCEPT !.ref = @ - 1]
    BY <1>1, <1>3, <2>1 DEF Release
  <2>5. heap'[p] = [g[p] EXCEPT !.ref = @ - 1]
    BY <1>9, <2>4, NothingType
  <2>6. g[p] \in Prim
    BY <1>1, <1>3
  <2> QED
    BY <2>3, <2>5, <2>6 DEF Prim
<1> QED
  BY <1>3, <1>7, <1>8, <1>9

LEMMA BorrowDice ==
    ASSUME ListTypes, RefsExact, ListedOnce, BorrowedWhereSeen, NEW b \in Bounds, Dice(b)
    PROVE  BorrowedWhereSeen'
<1> DEFINE p == hprims[hidx]
<1>0. /\ p \in Waits /\ p \in Addrs /\ Waits' = Waits \ {p}
      /\ \A a \in Addrs : a # p => heap'[a] = heap[a]
      /\ heap'[p].ref # 0 => heap'[p].bound = b
  BY DicedIs
<1>1. DicedTo(buckets, p, b, buckets') /\ opened' = opened
  BY DiceIs
<1>2. BorrowsAre(buckets, Waits, heap, opened)
  BY BorrowsHere
<1>3. hprims' \in Lists0 /\ buckets' \in Seq(Bucket) /\ Exact(heap', hprims', buckets')
  <2>1. ListTypes' /\ RefsExact'
    BY DiceStep
  <2> QED
    BY <2>1, RefsWillBe DEF ListTypes, HTypeOK, Lists0
<1>4. ASSUME NEW k \in DOMAIN buckets', NEW a \in PrimsOf(buckets'[k])
      PROVE  a \in Addrs /\ heap'[a].ref # 0
  BY <1>3, UsedIfBorrowed
<1> HIDE DEF p
<1>5. ASSUME NEW k \in DOMAIN buckets', NEW a \in PrimsOf(buckets'[k]) PROVE a \notin Waits'
  BY <1>0, <1>1, <1>2 DEF DicedTo, BorrowsAre
<1>6. ASSUME opened <= 1, NEW k \in DOMAIN buckets', NEW m \in DOMAIN buckets',
             NEW a \in PrimsOf(buckets'[k]), Intersects(buckets'[m].rect, heap'[a].bound)
      PROVE  a \in PrimsOf(buckets'[m])
  <2>1. k \in DOMAIN buckets /\ m \in DOMAIN buckets /\ buckets'[m].rect = buckets[m].rect
    BY <1>1 DEF DicedTo
  <2>2. CASE a = p
    <3>1. Intersects(buckets[m].rect, b)
      BY <1>0, <1>4, <1>6, <2>1, <2>2
    <3> QED
      BY <1>1, <2>1, <2>2, <3>1 DEF DicedTo
  <2>3. CASE a # p
    <3>1. heap'[a] = heap[a]
      BY <1>0, <1>4, <2>3
    <3>2. a \in PrimsOf(buckets[k])
      BY <1>1, <2>1, <2>3 DEF DicedTo
    <3>3. Intersects(buckets[m].rect, heap[a].bound)
      BY <1>6, <2>1, <3>1
    <3>4. a \in PrimsOf(buckets[m])
      BY <1>2, <1>6, <2>1, <3>2, <3>3 DEF BorrowsAre, SeenBy
    <3> QED
      BY <1>1, <2>1, <3>4 DEF DicedTo
  <2> QED
    BY <2>2, <2>3
<1>7. BorrowsAre(buckets', Waits', heap', opened')
  BY <1>1, <1>5, <1>6, Zenon DEF BorrowsAre, SeenBy
<1> QED
  BY <1>7, BorrowsHere

LEMMA BorrowBegin ==
    ASSUME ListTypes, RefsExact, WorldsKnown, BorrowedWhereSeen, NEW set \in Settings, HWorldBegin(set)
    PROVE  BorrowedWhereSeen'
<1>1. Begins(set) /\ opened' = opened + 1 /\ UNCHANGED <<hprims, heap>> /\ buckets \in Seq(Bucket)
  BY BeginIs
<1>2. PICK new : Added(new, slots, Tiles(set.fmt), FrameOf(set).log) /\ buckets' = buckets \o new.buckets
  BY <1>1 DEF Begins
<1>3. set.fmt \in (Nat \ {0}) \X (Nat \ {0})
  BY <1>1 DEF Begins
<1>4. Len(Tiles(set.fmt)) \in Nat
  BY <1>3, TilesAre
<1>5. PICK e \in Seq(Bucket) : /\ e = new.buckets /\ DOMAIN e = 1..Len(Tiles(set.fmt))
                               /\ \A k \in DOMAIN e : e[k].prims = <<>>
  BY <1>2, <1>4 DEF Added
<1>6. Joined(buckets, e, buckets') /\ (buckets = <<>> => buckets' = e)
  <2>1. Joined(buckets, e, buckets \o e) /\ (buckets = <<>> => buckets \o e = e)
    BY <1>1, JoinedAre
  <2> QED
    BY <1>2, <1>5, <2>1
<1>7. \A k \in DOMAIN e : PrimsOf(e[k]) = {}
  BY <1>5 DEF PrimsOf
<1>8. BorrowsAre(buckets, Waits, heap, opened)
  BY BorrowsHere
<1>9. Waits' = Waits
  BY <1>1 DEF Waits
<1>10. ASSUME NEW k \in DOMAIN buckets', NEW a \in PrimsOf(buckets'[k]) PROVE a \notin Waits'
  <2>1. \/ k \in DOMAIN buckets /\ buckets'[k] = buckets[k]
        \/ k - Len(buckets) \in DOMAIN e /\ buckets'[k] = e[k - Len(buckets)]
    BY <1>6 DEF Joined
  <2> QED
    BY <1>7, <1>8, <1>9, <2>1 DEF BorrowsAre
<1>11. ASSUME opened' <= 1 PROVE SeenBy(buckets', heap')
  <2>1. opened = 0 /\ buckets = <<>>
    BY <1>1, <1>11 DEF WorldsKnown
  <2> QED
    BY <1>6, <1>7, <2>1 DEF SeenBy
<1>12. BorrowsAre(buckets', Waits', heap', opened')
  BY <1>10, <1>11, Zenon DEF BorrowsAre
<1> QED
  BY <1>12, BorrowsHere

LEMMA BorrowStep ==
    ASSUME ListTypes, RefsExact, PhasesDone, ListedOnce, WorldsKnown, BorrowedWhereSeen,
           HNext \/ UNCHANGED hvars
    PROVE  BorrowedWhereSeen'
<1>0. hphase \in {"simplify", "split"} /\ hidx <= Len(hprims) => hidx \in DOMAIN hprims
  BY DEF ListTypes, HTypeOK
<1>1. CASE \E set \in Settings : HWorldBegin(set)
  BY <1>1, BorrowBegin
<1>2. ASSUME NEW complex \in BOOLEAN, NEW bad \in BOOLEAN, HInsert(complex, bad) PROVE BorrowedWhereSeen'
  <2>1. Adds(heap, hprims, NewAddrs(1), 1, <<Inserted(complex, bad)>>, heap', hprims')
    BY <1>2, InsertStep
  <2>2. UNCHANGED <<buckets, opened>>
    BY <1>2 DEF HInsert
  <2> QED
    BY <2>1, <2>2, BorrowAdds
<1>3. ASSUME NEW n \in 0..MaxParts, Simplify(n) PROVE BorrowedWhereSeen'
  <2>1. Replaces(NewAddrs(n), n, NewSurfaces(n))
    BY <1>3, SimplifyStep
  <2>2. UNCHANGED <<buckets, opened>> /\ hidx \in DOMAIN hprims /\ hprims[hidx] # 0
    BY <1>0, <1>3 DEF Simplify, AtPrim
  <2> QED
    BY <2>1, <2>2, BorrowReplaces
<1>4. ASSUME NEW n \in 0..MaxParts, SimplifyThrows(n) PROVE BorrowedWhereSeen'
  <2>1. Adds(heap, hprims, NewAddrs(n), n, NewSurfaces(n), heap', hprims')
    BY <1>4, ThrowStep
  <2>2. UNCHANGED <<buckets, opened>>
    BY <1>4 DEF SimplifyThrows
  <2> QED
    BY <2>1, <2>2, BorrowAdds
<1>5. CASE SplitPrim
  <2>1. Replaces(NewAddrs(4), 4, Quarters(heap[hprims[hidx]]))
    BY <1>5, SplitPrimStep
  <2>2. UNCHANGED <<buckets, opened>> /\ hidx \in DOMAIN hprims /\ hprims[hidx] # 0
    BY <1>0, <1>5 DEF SplitPrim, PrimDone, AtPrim
  <2> QED
    BY <2>1, <2>2, BorrowReplaces
<1>6. CASE Cull \/ DropPrim
  BY <1>6, BorrowLeaves
<1>7. CASE \E b \in Bounds : Dice(b)
  BY <1>7, BorrowDice
<1>8. CASE SplitEnd
  <2>1. UNCHANGED <<heap, buckets, opened>> /\ hprims' = <<>>
    BY <1>8 DEF SplitEnd
  <2>2. Waits' = {}
    BY <2>1 DEF Waits
  <2> QED
    BY <2>1, <2>2, BorrowStays
<1>9. CASE RenderReturns
  <2>1. buckets' = <<>>
    BY <1>9 DEF RenderReturns
  <2>2. BorrowsAre(buckets', Waits', heap', opened')
    BY <2>1 DEF BorrowsAre, SeenBy
  <2> QED
    BY <2>2, BorrowsHere
<1>10. CASE Passes
  <2>1. UNCHANGED <<hprims, heap, buckets>>
    BY <1>10, PassStep
  <2>2. opened' = opened
    BY <1>10 DEF Passes, HWorldEnd, SimplifySkip, SimplifyNull, SimplifyEnd, SplitSkip, RenderNull,
                 RenderThrows, hvars
  <2>3. Waits' = Waits
    BY <2>1 DEF Waits
  <2> QED
    BY <2>1, <2>2, <2>3, BorrowStays
<1> QED
  BY <1>1, <1>2, <1>3, <1>4, <1>5, <1>6, <1>7, <1>8, <1>9, <1>10, StepCases

(* Whose the buckets are, what they have borrowed and which sample buffers *)
(* there are, in every reachable state.                                    *)
THEOREM ServeInvariance == HSpec => []ServeInv
<1>1. HInit => ServeInv
  <2> SUFFICES ASSUME HInit PROVE ServeInv
    OBVIOUS
  <2>1. buckets = <<>> /\ slots = <<>> /\ worlds = 0 /\ opened = 0 /\ mixed = FALSE
    BY DEF HInit
  <2>2. WorldsAre(worlds, opened, mixed, frame, buckets, slots)
    <3>1. worlds \in Nat /\ opened \in Nat /\ ~(worlds > 0) /\ opened # 1
      BY <2>1
    <3>2. mixed \in BOOLEAN /\ ~mixed
      BY <2>1, Zenon
    <3> QED
      BY <2>1, <3>1, <3>2, Zenon DEF WorldsAre
  <2>3. SlotsAre(buckets, slots, frame, mixed)
    <3>1. DOMAIN buckets = {} /\ DOMAIN slots = {}
      BY <2>1
    <3>2. AllFit(slots, frame.fmt, frame.log) /\ Distinct(slots)
      BY <3>1 DEF AllFit, Distinct
    <3> QED
      BY <3>1, <3>2 DEF SlotsAre
  <2>4. BorrowsAre(buckets, Waits, heap, opened)
    BY <2>1 DEF BorrowsAre, SeenBy
  <2>5. FirstsAre(slots, firsts)
    BY DEF HInit, FirstsAre
  <2> QED
    BY <2>2, <2>3, <2>4, <2>5, WorldsHere, SlotsHere, BorrowsHere, FirstsHere DEF ServeInv
<1>2. HiderInv /\ ServeInv /\ [HNext]_hvars => ServeInv'
  <2> SUFFICES ASSUME HiderInv, ServeInv, HNext \/ UNCHANGED hvars PROVE ServeInv'
    OBVIOUS
  <2>1. ListTypes /\ RefsExact /\ PhasesDone /\ ListedOnce
    BY HiderParts
  <2>2. WorldsKnown /\ BorrowedWhereSeen /\ SlotsKnown /\ SlotsFirst
    BY DEF ServeInv
  <2>6. SlotsFirst'
    BY <2>1, <2>2, FirstsStep
  <2>3. WorldsKnown'
    BY <2>1, <2>2, WorldsStep
  <2>4. SlotsKnown'
    BY <2>1, <2>2, SlotsStep
  <2>5. BorrowedWhereSeen'
    BY <2>1, <2>2, BorrowStep
  <2> QED
    BY <2>3, <2>4, <2>5, <2>6 DEF ServeInv
<1> QED
  BY <1>1, <1>2, HiderInvariance, PTL DEF HSpec

\* A pixel of a bound in a bucket: the bucket meets the bound.
LEMMA PixelMeets ==
    ASSUME NEW t \in Tile, NEW b \in Int \X Int \X Int \X Int, NEW p \in Int \X Int,
           Contains(t, p), InBound(p, b)
    PROVE  Intersects(t, b)
<1>1. PICK x1 \in Int, y1 \in Int, x2 \in Int, y2 \in Int :
          t.x1 = x1 /\ t.y1 = y1 /\ t.x2 = x2 /\ t.y2 = y2
  BY DEF Tile
<1>2. PICK b1 \in Int, b2 \in Int, b3 \in Int, b4 \in Int :
          b[1] = b1 /\ b[2] = b2 /\ b[3] = b3 /\ b[4] = b4
  OBVIOUS
<1>3. PICK p1 \in Int, p2 \in Int : p[1] = p1 /\ p[2] = p2
  OBVIOUS
<1>4. p1 >= x1 /\ p2 >= y1 /\ p1 < x2 /\ p2 < y2 /\ p1 >= b1 /\ p2 >= b2 /\ p1 < b3 /\ p2 < b4
  BY <1>1, <1>2, <1>3 DEF Contains, InBound
<1>5. b1 < x2 /\ b3 >= x1 /\ b2 < y2 /\ b4 >= y1
  BY <1>4
<1> QED
  BY <1>1, <1>2, <1>5 DEF Intersects

LEMMA TilesServe ==
    ASSUME ListTypes, WorldsKnown, BorrowedWhereSeen, opened = 1
    PROVE  BucketsTile
<1>1. /\ heap \in [Addrs -> Prim] /\ buckets \in Seq(Bucket)
  BY DEF ListTypes, HTypeOK
<1>2. /\ Len(buckets) = Len(Tiles(frame.fmt))
      /\ \A k \in DOMAIN buckets : buckets[k].rect = Tiles(frame.fmt)[k]
      /\ \E set \in Settings : frame = FrameOf(set)
  BY DEF WorldsKnown
<1>3. frame.fmt \in (Nat \ {0}) \X (Nat \ {0})
  BY <1>2, HiderAssumption DEF FrameOf
<1>4. BorrowsAre(buckets, Waits, heap, opened)
  BY BorrowsHere
<1>5. Tiles(frame.fmt) \in Seq(Tile) /\ DOMAIN buckets = DOMAIN Tiles(frame.fmt)
  BY <1>1, <1>2, <1>3, TilesAre
<1> SUFFICES ASSUME NEW p \in Pixels
             PROVE  \E i \in DOMAIN buckets :
                      /\ Contains(buckets[i].rect, p)
                      /\ \A k \in DOMAIN buckets : Contains(buckets[k].rect, p) => k = i
                      /\ \A k \in DOMAIN buckets : \A a \in Sx!Range(buckets[k].prims) :
                           InBound(p, heap[a].bound) => a \in Sx!Range(buckets[i].prims)
  BY DEF BucketsTile
<1>6. p \in Nat \X Nat /\ p[1] < frame.fmt[1] /\ p[2] < frame.fmt[2]
  <2>1. PICK w \in Nat, h \in Nat : frame.fmt[1] = w /\ frame.fmt[2] = h
    BY <1>3
  <2> QED
    BY <2>1 DEF Pixels
<1>7. PICK i \in DOMAIN buckets :
         /\ Contains(buckets[i].rect, p)
         /\ \A k \in DOMAIN buckets : Contains(buckets[k].rect, p) => k = i
  <2>1. TilesHold(Tiles(frame.fmt), p)
    BY <1>3, <1>6, TilesCover
  <2> QED
    BY <1>2, <1>5, <2>1 DEF TilesHold
<1>8. \A k \in DOMAIN buckets : Sx!Range(buckets[k].prims) = PrimsOf(buckets[k])
  BY DEF Sx!Range, PrimsOf
<1>9. ASSUME NEW k \in DOMAIN buckets, NEW a \in PrimsOf(buckets[k]), InBound(p, heap[a].bound)
      PROVE  a \in PrimsOf(buckets[i])
  <2>1. a \in Addrs
    <3>1. buckets[k] \in Bucket
      BY <1>1
    <3> QED
      BY <3>1 DEF Bucket, PrimsOf
  <2>2. heap[a].bound \in Int \X Int \X Int \X Int
    <3>1. heap[a].bound \in Bounds \cup {Nothing.bound}
      BY <1>1, <2>1 DEF Prim
    <3> QED
      BY <3>1, HiderAssumption DEF Nothing
  <2>3. buckets[i].rect \in Tile
    <3>1. buckets[i] \in Bucket
      BY <1>1
    <3> QED
      BY <3>1 DEF Bucket
  <2>4. Intersects(buckets[i].rect, heap[a].bound)
    BY <1>6, <1>7, <1>9, <2>2, <2>3, PixelMeets
  <2> QED
    BY <1>4, <2>4 DEF BorrowsAre, SeenBy
<1> QED
  BY <1>7, <1>8, <1>9

LEMMA SamplesServe ==
    ASSUME ListTypes, SlotsKnown, SlotsFirst
    PROVE  SamplesFit
<1>1. SlotsAre(buckets, slots, frame, mixed) /\ FirstsAre(slots, firsts)
  BY SlotsHere, FirstsHere
<1>2. buckets \in Seq(Bucket) /\ slots \in Seq(Slot)
  BY DEF ListTypes
<1>3. ASSUME NEW i \in DOMAIN buckets, buckets[i].slot # 0
      PROVE  /\ <<slots[buckets[i].slot].wd, slots[buckets[i].slot].he>> = SizeOf(buckets[i].rect)
             /\ slots[buckets[i].slot] \in firsts
             /\ ~mixed => slots[buckets[i].slot].log = frame.log
  <2>1. buckets[i].slot \in DOMAIN slots
    <3>1. buckets[i].slot \in 0..Len(slots) /\ slots \in Seq(Slot)
      BY DEF ListTypes, HTypeOK
    <3> QED
      BY <1>3, <3>1
  <2>2. SameSize(slots[buckets[i].slot], buckets[i].rect)
    BY <1>1, <1>3 DEF SlotsAre
  <2> QED
    BY <1>1, <2>1, <2>2 DEF SlotsAre, FirstsAre, AllFit, Fits, SameSize, SizeOf
<1>4. ASSUME NEW i \in DOMAIN buckets, buckets[i].slot = 0
      PROVE  /\ mixed /\ Len(slots) = SlotsN
             /\ \A j \in DOMAIN slots : <<slots[j].wd, slots[j].he>> # SizeOf(buckets[i].rect)
  <2>1. mixed /\ Len(slots) = SlotsN /\ SlotOf(slots, buckets[i].rect) = 0
    BY <1>1, <1>4 DEF SlotsAre
  <2>2. PICK t \in Tile : t = buckets[i].rect
    <3>1. buckets[i] \in Bucket
      BY <1>2
    <3> QED
      BY <3>1 DEF Bucket
  <2>3. \A j \in DOMAIN slots : ~(slots[j].wd = t.x2 - t.x1 /\ slots[j].he = t.y2 - t.y1)
    BY <1>2, <2>1, <2>2, FindSlotIs
  <2>4. \A j \in DOMAIN slots : <<slots[j].wd, slots[j].he>> # SizeOf(t)
    BY <2>3 DEF SizeOf
  <2> QED
    BY <2>1, <2>2, <2>4
<1> QED
  BY <1>3, <1>4 DEF SamplesFit

LEMMA GridServes ==
    ASSUME WorldsKnown
    PROVE  NearestGrid
<1> DEFINE area == frame.samps[1] * frame.samps[2]
<1> SUFFICES ASSUME worlds > 0 PROVE IsNearest(frame.log, area)
  <2> HIDE DEF area
  <2>1. NearestGrid <=> (worlds > 0 => IsNearest(frame.log, area))
    BY Zenon DEF NearestGrid, IsNearest, area
  <2> QED
    BY <2>1
<1> HIDE DEF area
<1>1. PICK set \in Settings : frame = FrameOf(set)
  BY DEF WorldsKnown
<1>0. set.samps[1] \in 1..64 /\ set.samps[2] \in 1..64
  <2>1. set \in [fmt : (Nat \ {0}) \X (Nat \ {0}), samps : (1..64) \X (1..64)]
    BY HiderAssumption, Zenon
  <2>2. set.samps \in (1..64) \X (1..64)
    BY <2>1
  <2> QED
    BY <2>2
<1>2. PICK x \in Sides, y \in Sides : x = set.samps[1] /\ y = set.samps[2]
  BY <1>0 DEF Sides
<1>3. x * y \in Areas
  BY AreaBound
<1>4. IsNearest(SubPixDimLog2(x * y), x * y)
  BY <1>3, SubPixIs
<1> QED
  BY <1>1, <1>2, <1>4 DEF FrameOf, area

(* Every pixel has one bucket, with all primitives that are over it; a     *)
(* bucket's sample buffer has its size and the sampling that the first     *)
(* world with buckets of that size asked for, and is missing only when     *)
(* four other sizes have taken all buffers, which takes worlds of          *)
(* different resolution; and the grid in a pixel is the nearest power of   *)
(* four to the samples asked for.                                          *)
THEOREM BucketsServed == HSpec => []BucketsServe
<1>1. HiderInv /\ ServeInv => BucketsServe
  <2> SUFFICES ASSUME HiderInv, ServeInv PROVE BucketsServe
    OBVIOUS
  <2>1. ListTypes /\ WorldsKnown /\ BorrowedWhereSeen /\ SlotsKnown /\ SlotsFirst
    BY HiderParts DEF ServeInv
  <2>2. BucketsTile
    <3>1. CASE opened = 1
      BY <2>1, <3>1, TilesServe
    <3>2. CASE opened # 1
      BY <3>2 DEF BucketsTile
    <3> QED
      BY <3>1, <3>2
  <2> QED
    BY <2>1, <2>2, SamplesServe, GridServes DEF BucketsServe
<1> QED
  BY <1>1, HiderInvariance, ServeInvariance, PTL
=============================================================================
