-------------------------------- MODULE Hider --------------------------------
(***************************************************************************)
(* RI::Hider and the WorldEnd of RI::Framework: the buckets of a world and *)
(* the sample buffers they share, the primitives that wait in the hider,   *)
(* how WorldEnd simplifies, splits and hands them to buckets, and who      *)
(* counts as an owner of a primitive.  Worlds follow each other, and one   *)
(* may end in an exception that leaves its state to the next.              *)
(*                                                                         *)
(* A primitive is its part of the surface: a square of the (u,v) plane in  *)
(* units, UvDim of them on a side.  What CheckForSplit decides and the     *)
(* screen bound it computes are inputs.                                    *)
(***************************************************************************)
EXTENDS Integers, Sequences, FiniteSets, FiniteSetsExt

Sx == INSTANCE SequencesExt

CONSTANTS
    BucketSize, \* BUCKET_SIZE
    Settings,   \* options of a world: <<mXRes, mYRes>> and PixelSamples, in 1..64
    Bounds,     \* screen bounds <<minX, minY, maxX, maxY>> of diced primitives
    UvDim,      \* units on a side of the (u,v) square
    MaxSplit,   \* a primitive split more often than this is dropped (9)
    MaxParts,   \* bound: simple primitives that a complex one becomes
    MaxObjs,    \* bound: primitives allocated at a time
    MaxInserts, \* bound: primitives inserted
    MaxWorlds   \* bound: worlds begun

\* 2^n
Pow2[n \in Nat] == IF n = 0 THEN 1 ELSE 2 * Pow2[n - 1]

\* The last: the units are so fine that every split halves a part exactly.
ASSUME HiderAssumption ==
    /\ BucketSize \in Nat \ {0} /\ UvDim \in Nat \ {0} /\ MaxSplit \in Nat
    /\ Settings \subseteq [fmt : (Nat \ {0}) \X (Nat \ {0}), samps : (1..64) \X (1..64)]
    /\ Bounds \subseteq Int \X Int \X Int \X Int
    /\ MaxParts \in Nat /\ MaxObjs \in Nat /\ MaxInserts \in Nat /\ MaxWorlds \in Nat
    /\ \E m \in 1..UvDim : UvDim = m * Pow2[MaxSplit + 1]

VARIABLES
    hphase,     \* Framework::WorldEnd: "idle", "simplify", "split", "render"
    hidx,       \* its loop index
    hprims,     \* mpPrims of the hider: addresses, 0 for NULL
    heap,       \* the primitives allocated
    buckets,    \* mpBuckets
    slots,      \* mSampCoordBuffs that are initialised
    frame,      \* mOptions: resolution and sub-pixel dimension
    hub,        \* a NULL that is dereferenced ends the model
    \* History, read by the properties only:
    fates,      \* parts that this WorldEnd has diced, culled or dropped
    inserted,   \* primitives inserted, simple ones and parts of complex ones
    worlds,     \* worlds begun
    opened,     \* worlds begun since the hider had no buckets
    mixed,      \* two worlds differ in resolution or sampling
    firsts      \* sizes of buckets, each with the sampling of the world that had it first

hvars == <<hphase, hidx, hprims, heap, buckets, slots, frame, hub,
           fates, inserted, worlds, opened, mixed, firsts>>

Addrs == 1..MaxObjs
Nothing == [ref |-> 0, complex |-> FALSE, bad |-> FALSE, cnt |-> 0, root |-> 0,
            u |-> <<0, 0>>, v |-> <<0, 0>>, bound |-> <<0, 0, 0, 0>>]
Free == {a \in Addrs : heap[a].ref = 0}

\* n different free addresses.
NewAddrs(n) == CHOOSE A \in [1..n -> Free] : \A i, j \in 1..n : A[i] = A[j] => i = j

HInit ==
    /\ hphase = "idle" /\ hidx = 0 /\ hprims = <<>>
    /\ heap = [a \in Addrs |-> Nothing]
    /\ buckets = <<>> /\ slots = <<>> /\ hub = "no"
    /\ frame = [fmt |-> <<0, 0>>, samps |-> <<1, 1>>, log |-> 0]
    /\ fates = {} /\ inserted = 0 /\ worlds = 0 /\ opened = 0 /\ mixed = FALSE
    /\ firsts = {}

----------------------------------------------------------------------------
(* Buckets and sample buffers.                                             *)

Dist(a, b) == IF a < b THEN b - a ELSE a - b

\* findClosestSquareAreaLog2Dim, for the areas that PixelSamples can give.
SubPixDimLog2(area) ==
    LET k == CHOOSE j \in 0..8 : Pow2[2 * j] <= area /\ area < Pow2[2 * (j + 1)]
    IN  IF Dist(area, Pow2[2 * (k + 1)]) < Dist(area, Pow2[2 * k]) THEN k + 1 ELSE k

SlotsN == 4

\* A buffer of that size, whatever its sub-pixel dimension; 0 if there is none.
FindSlot(S, wd, he) ==
    LET F == {i \in DOMAIN S : S[i].wd = wd /\ S[i].he = he}
    IN  IF F = {} THEN 0 ELSE Min(F)

\* The loops of Hider::WorldBegin, row by row.
Tiles(fmt) ==
    LET nx == (fmt[1] + BucketSize - 1) \div BucketSize
        ny == (fmt[2] + BucketSize - 1) \div BucketSize
    IN  [k \in 1..(nx * ny) |->
            LET x == ((k - 1) % nx) * BucketSize
                y == ((k - 1) \div nx) * BucketSize
            IN  [x1 |-> x, y1 |-> y,
                 x2 |-> Min({x + BucketSize, fmt[1]}), y2 |-> Min({y + BucketSize, fmt[2]})]]

SlotOf(S, t) == FindSlot(S, t.x2 - t.x1, t.y2 - t.y1)

\* findOrAddSampCoordBuff: a buffer of the tile's size is there, or added while there is room.
AddSlot(S, t, log) ==
    IF SlotOf(S, t) = 0 /\ Len(S) < SlotsN
    THEN Append(S, [wd |-> t.x2 - t.x1, he |-> t.y2 - t.y1, log |-> log])
    ELSE S

\* The buffers after each tile in turn.
SlotsAfter(S, tiles, log) ==
    LET after[k \in 0..Len(tiles)] ==
            IF k = 0 THEN S ELSE AddSlot(after[k - 1], tiles[k], log)
    IN  after

\* A bucket for each tile, with the buffer it has got: NULL (0) if there was no room.
AddBuckets(S, tiles, log) ==
    LET after == SlotsAfter(S, tiles, log)
    IN  [slots |-> after[Len(tiles)],
         buckets |-> [k \in 1..Len(tiles) |->
                         [rect |-> tiles[k], slot |-> SlotOf(after[k], tiles[k]), prims |-> <<>>]]]

SizeOf(t) == <<t.x2 - t.x1, t.y2 - t.y1>>

\* The sizes of those tiles beside the sizes known so far.
Firsts(known, tiles, log) ==
    known \cup {[wd |-> z[1], he |-> z[2], log |-> log] :
                   z \in {SizeOf(tiles[k]) : k \in DOMAIN tiles} \ {<<f.wd, f.he>> : f \in known}}

FrameOf(set) == [fmt |-> set.fmt, samps |-> set.samps,
                 log |-> SubPixDimLog2(set.samps[1] * set.samps[2])]

\* Framework::WorldBegin; buckets of a world that has failed are still there.
HWorldBegin(set) ==
    /\ hphase = "idle" /\ worlds < MaxWorlds
    /\ frame' = FrameOf(set)
    /\ LET new == AddBuckets(slots, Tiles(set.fmt), FrameOf(set).log) IN
       /\ slots' = new.slots
       /\ buckets' = buckets \o new.buckets
       /\ mixed' = (mixed \/ (worlds > 0 /\ frame' # frame))
       /\ firsts' = Firsts(firsts, Tiles(set.fmt), FrameOf(set).log)
    /\ worlds' = worlds + 1 /\ opened' = opened + 1
    /\ UNCHANGED <<hphase, hidx, hprims, heap, hub, fates, inserted>>

----------------------------------------------------------------------------
(* Primitives.                                                             *)

\* The heap with the records of s at the first free addresses.
Alloc(h, A, s) == [a \in Addrs |-> IF \E i \in DOMAIN s : A[i] = a
                                   THEN s[CHOOSE i \in DOMAIN s : A[i] = a] ELSE h[a]]

Release(h, a) ==
    [h EXCEPT ![a] = IF h[a].ref = 1 THEN Nothing ELSE [h[a] EXCEPT !.ref = @ - 1]]

Surface(r) == [Nothing EXCEPT !.ref = 1, !.root = r, !.u = <<0, UvDim>>, !.v = <<0, UvDim>>]

(* Hider::Insert of a simple primitive, or of a complex one, which may     *)
(* have parameters that only Simplify finds missing.                       *)
HInsert(complex, bad) ==
    /\ hphase = "idle" /\ inserted < MaxInserts /\ Free # {}
    /\ bad => complex
    /\ LET A == NewAddrs(1)
           p == IF complex THEN [Nothing EXCEPT !.ref = 1, !.complex = TRUE, !.bad = bad]
                ELSE Surface(inserted + 1) IN
       /\ heap' = Alloc(heap, A, <<p>>)
       /\ hprims' = hprims \o A
    /\ inserted' = inserted + 1
    /\ UNCHANGED <<hphase, hidx, buckets, slots, frame, hub, fates, worlds, opened, mixed, firsts>>

HWorldEnd ==
    /\ hphase = "idle"
    /\ hphase' = "simplify" /\ hidx' = 1
    /\ fates' = {}
    /\ UNCHANGED <<hprims, heap, buckets, slots, frame, hub, inserted, worlds, opened, mixed, firsts>>

AtPrim(ph) == hphase = ph /\ hidx <= Len(hprims)

\* worldEnd_simplify: a simple primitive stays.
SimplifySkip ==
    /\ AtPrim("simplify") /\ hprims[hidx] # 0 /\ ~heap[hprims[hidx]].complex
    /\ hidx' = hidx + 1
    /\ UNCHANGED <<hphase, hprims, heap, buckets, slots, frame, hub, fates, inserted,
                   worlds, opened, mixed, firsts>>

\* Mutant: the complex primitive is not released.
SimplifyKeeps(n) ==
    LET p == hprims[hidx]
        A == NewAddrs(n) IN
    /\ AtPrim("simplify") /\ p # 0 /\ heap[p].complex /\ ~heap[p].bad
    /\ n <= Cardinality(Free) /\ inserted + n <= MaxInserts
    /\ heap' = Alloc(heap, A, [i \in 1..n |-> Surface(inserted + i)])
    /\ hprims' = [hprims EXCEPT ![hidx] = 0] \o A
    /\ inserted' = inserted + n
    /\ hidx' = hidx + 1
    /\ UNCHANGED <<hphase, buckets, slots, frame, hub, fates, worlds, opened, mixed, firsts>>

(* A complex primitive inserts n simple ones behind the others (which the  *)
(* loop then meets) and is released.                                       *)
Simplify(n) ==
    LET p == hprims[hidx]
        A == NewAddrs(n) IN
    /\ AtPrim("simplify") /\ p # 0 /\ heap[p].complex /\ ~heap[p].bad
    /\ n <= Cardinality(Free) /\ inserted + n <= MaxInserts
    /\ heap' = Release(Alloc(heap, A, [i \in 1..n |-> Surface(inserted + i)]), p)
    /\ hprims' = [hprims EXCEPT ![hidx] = 0] \o A
    /\ inserted' = inserted + n
    /\ hidx' = hidx + 1
    /\ UNCHANGED <<hphase, buckets, slots, frame, hub, fates, worlds, opened, mixed, firsts>>

(* One whose parameters are wrong throws, after n have been inserted: the  *)
(* exception leaves WorldEnd before anything is cleaned up.                *)
SimplifyThrows(n) ==
    LET p == hprims[hidx]
        A == NewAddrs(n) IN
    /\ AtPrim("simplify") /\ p # 0 /\ heap[p].bad
    /\ n <= Cardinality(Free) /\ inserted + n <= MaxInserts
    /\ heap' = Alloc(heap, A, [i \in 1..n |-> Surface(inserted + i)])
    /\ hprims' = hprims \o A
    /\ inserted' = inserted + n
    /\ hphase' = "idle" /\ hidx' = 0
    /\ UNCHANGED <<buckets, slots, frame, hub, fates, worlds, opened, mixed, firsts>>

(* The entry of a primitive that an earlier WorldEnd simplified before it  *)
(* threw: IsComplex is called on NULL.                                     *)
SimplifyNull ==
    /\ AtPrim("simplify") /\ hprims[hidx] = 0
    /\ hub' = "null"
    /\ UNCHANGED <<hphase, hidx, hprims, heap, buckets, slots, frame, fates, inserted,
                   worlds, opened, mixed, firsts>>

SimplifyEnd ==
    /\ hphase = "simplify" /\ hidx > Len(hprims)
    /\ hphase' = "split" /\ hidx' = 1
    /\ UNCHANGED <<hprims, heap, buckets, slots, frame, hub, fates, inserted, worlds,
                   opened, mixed, firsts>>

\* worldEnd_splitAndAddToBuckets skips what has been simplified.
SplitSkip ==
    /\ AtPrim("split") /\ hprims[hidx] = 0
    /\ hidx' = hidx + 1
    /\ UNCHANGED <<hphase, hprims, heap, buckets, slots, frame, hub, fates, inserted,
                   worlds, opened, mixed, firsts>>

Fate(p, dropped) == [root |-> p.root, u |-> p.u, v |-> p.v, dropped |-> dropped]

\* The loop is done with the primitive: it is released.
PrimDone(h, list, f) ==
    /\ heap' = Release(h, hprims[hidx])
    /\ hprims' = [list EXCEPT ![hidx] = 0]
    /\ fates' = fates \cup f
    /\ hidx' = hidx + 1
    /\ UNCHANGED <<hphase, slots, frame, hub, inserted, worlds, opened, mixed, firsts>>

Cull ==
    /\ AtPrim("split") /\ hprims[hidx] # 0
    /\ PrimDone(heap, hprims, {Fate(heap[hprims[hidx]], FALSE)})
    /\ UNCHANGED buckets

\* Mutant: a bucket that only touches the lower corner of the bound is left out.
IntersectsStrictly(t, b) ==
    b[1] < t.x2 - 1 /\ b[3] >= t.x1 /\ b[2] < t.y2 - 1 /\ b[4] >= t.y1

Intersects(t, b) == b[1] < t.x2 /\ b[3] >= t.x1 /\ b[2] < t.y2 /\ b[4] >= t.y1

\* InsertForDicing: every bucket that meets the bound borrows the primitive.
Dice(b) ==
    LET p == hprims[hidx]
        B == {i \in DOMAIN buckets : Intersects(buckets[i].rect, b)} IN
    /\ AtPrim("split") /\ p # 0
    /\ buckets' = [i \in DOMAIN buckets |->
                     IF i \in B THEN [buckets[i] EXCEPT !.prims = Append(@, p)] ELSE buckets[i]]
    /\ PrimDone([heap EXCEPT ![p].ref = @ + Cardinality(B), ![p].bound = b],
                hprims, {Fate(heap[p], FALSE)})

Lower(r) == <<r[1], (r[1] + r[2]) \div 2>>
Upper(r) == <<(r[1] + r[2]) \div 2, r[2]>>

\* Mutant: the upper halves are cloned after the lower ones are cut.
QuartersCutFirst(p) ==
    LET q(u, v, n) == [p EXCEPT !.ref = 1, !.u = u, !.v = v, !.cnt = p.cnt + n] IN
    << q(Lower(p.u), Lower(p.v), 1), q(Upper(p.u), Lower(p.v), 1),
       q(Lower(p.u), Upper(Lower(p.v)), 2), q(Upper(p.u), Upper(Lower(p.v)), 2) >>

(* Split in u and v (CheckForSplit asks for both): two clones with half    *)
(* the u range, then for each a clone with the upper half of v.  The       *)
(* second pair is cloned from the first and counts one split more.         *)
Quarters(p) ==
    LET q(u, v, n) == [p EXCEPT !.ref = 1, !.u = u, !.v = v, !.cnt = p.cnt + n] IN
    << q(Lower(p.u), Lower(p.v), 1), q(Upper(p.u), Lower(p.v), 1),
       q(Lower(p.u), Upper(p.v), 2), q(Upper(p.u), Upper(p.v), 2) >>

\* mSplitCnt > 9
TooManySplits(p) == p.cnt > MaxSplit

SplitPrim ==
    LET p == heap[hprims[hidx]]
        A == NewAddrs(4) IN
    /\ AtPrim("split") /\ hprims[hidx] # 0
    /\ ~TooManySplits(p) /\ Cardinality(Free) >= 4
    /\ PrimDone(Alloc(heap, A, Quarters(p)), hprims \o A, {})
    /\ UNCHANGED buckets

\* Split returns without a trace when there have been too many.
DropPrim ==
    /\ AtPrim("split") /\ hprims[hidx] # 0
    /\ TooManySplits(heap[hprims[hidx]])
    /\ PrimDone(heap, hprims, {Fate(heap[hprims[hidx]], TRUE)})
    /\ UNCHANGED buckets

SplitEnd ==
    /\ hphase = "split" /\ hidx > Len(hprims)
    /\ hprims' = <<>>
    /\ hphase' = "render" /\ hidx' = 0
    /\ UNCHANGED <<heap, buckets, slots, frame, hub, fates, inserted, worlds, opened, mixed, firsts>>

----------------------------------------------------------------------------
(* Rendering, and the end of the world.                                    *)

\* How often the buckets list a primitive.
Listed(a) ==
    Cardinality(UNION {{k} \X {i \in DOMAIN buckets[k].prims : buckets[k].prims[i] = a} :
                          k \in DOMAIN buckets})

\* RenderBucket_s reads the sample buffer of every bucket.
RenderNull ==
    /\ hphase = "render" /\ \E i \in DOMAIN buckets : buckets[i].slot = 0
    /\ hub' = "slots"
    /\ UNCHANGED <<hphase, hidx, hprims, heap, buckets, slots, frame, fates, inserted,
                   worlds, opened, mixed, firsts>>

Renders == hphase = "render" /\ \A i \in DOMAIN buckets : buckets[i].slot # 0

\* Every bucket releases its primitives and is deleted.
RenderReturns ==
    /\ Renders
    /\ heap' = [a \in Addrs |-> IF heap[a].ref = Listed(a) THEN Nothing
                                ELSE [heap[a] EXCEPT !.ref = @ - Listed(a)]]
    /\ buckets' = <<>> /\ opened' = 0
    /\ hphase' = "idle"
    /\ UNCHANGED <<hidx, hprims, slots, frame, hub, fates, inserted, worlds, mixed, firsts>>

\* A display or a bucket throws: buckets and primitives stay.
RenderThrows ==
    /\ Renders
    /\ hphase' = "idle"
    /\ UNCHANGED <<hidx, hprims, heap, buckets, slots, frame, hub, fates, inserted, worlds,
                   opened, mixed, firsts>>

WorldEndStep ==
    \/ SimplifySkip \/ SimplifyNull \/ SimplifyEnd
    \/ \E n \in 0..MaxParts : Simplify(n) \/ SimplifyThrows(n)
    \/ SplitSkip \/ Cull \/ SplitPrim \/ DropPrim \/ SplitEnd
    \/ \E b \in Bounds : Dice(b)
    \/ RenderNull \/ RenderReturns \/ RenderThrows

HNext ==
    /\ hub = "no"
    /\ \/ \E set \in Settings : HWorldBegin(set)
       \/ \E complex, bad \in BOOLEAN : HInsert(complex, bad)
       \/ HWorldEnd
       \/ WorldEndStep

HSpec == HInit /\ [][HNext]_hvars

HFairSpec == HSpec /\ WF_hvars(hub = "no" /\ WorldEndStep)

----------------------------------------------------------------------------
(* Properties.                                                             *)

Prim == [ref : Nat, complex : BOOLEAN, bad : BOOLEAN, cnt : Nat, root : Nat,
         u : (0..UvDim) \X (0..UvDim), v : (0..UvDim) \X (0..UvDim),
         bound : Bounds \cup {Nothing.bound}]

\* The state keeps to its types.
HTypeOK ==
    /\ hphase \in {"idle", "simplify", "split", "render"} /\ hidx \in 0..(Len(hprims) + 1)
    /\ hprims \in Seq(Addrs \cup {0}) /\ heap \in [Addrs -> Prim]
    /\ \A i \in DOMAIN buckets : buckets[i].slot \in 0..Len(slots)
    /\ Len(slots) <= SlotsN /\ hub \in {"no", "null", "slots"}

Waiting(a) == Cardinality({i \in DOMAIN hprims : hprims[i] = a})

(* Every reference that a primitive counts is an entry of the hider's list *)
(* or of a bucket's, through failed worlds too: none is used after it is   *)
(* deleted and none is left when the lists are empty.                      *)
RefsExact ==
    \A a \in Addrs : heap[a].ref = Waiting(a) + Listed(a)

Covers(p, i, j) == p.u[1] <= i /\ i < p.u[2] /\ p.v[1] <= j /\ j < p.v[2]
PiecesOf(r) == {a \in Addrs : Waiting(a) > 0 /\ heap[a].root = r}

(* Every unit of every surface is in exactly one part that waits, was      *)
(* diced, culled or dropped.                                               *)
PartsPartition ==
    \A r \in ({heap[hprims[i]].root : i \in {j \in DOMAIN hprims : hprims[j] # 0}}
                 \cup {f.root : f \in fates}) \ {0} :
        \A i, j \in 0..(UvDim - 1) :
            Cardinality({a \in PiecesOf(r) : Covers(heap[a], i, j)})
              + Cardinality({f \in fates : f.root = r /\ Covers(f, i, j)}) = 1

(* A part is dropped only when it has been halved at least (MaxSplit+1)/2  *)
(* times each way (not MaxSplit times: the upper halves count double), so  *)
(* what may be missing of a surface is bounded.                            *)
DropsAreSmall ==
    \A f \in fates : f.dropped =>
        /\ (f.u[2] - f.u[1]) * Pow2[(MaxSplit + 2) \div 2] <= UvDim
        /\ (f.v[2] - f.v[1]) * Pow2[(MaxSplit + 2) \div 2] <= UvDim

\* Splitting loses nothing but parts that are small enough, and draws nothing twice.
SplitsPartition == PartsPartition /\ DropsAreSmall

Pixels == (0..(frame.fmt[1] - 1)) \X (0..(frame.fmt[2] - 1))
InBound(p, b) == p[1] >= b[1] /\ p[2] >= b[2] /\ p[1] < b[3] /\ p[2] < b[4]
Contains(t, p) == p[1] >= t.x1 /\ p[2] >= t.y1 /\ p[1] < t.x2 /\ p[2] < t.y2

(* The buckets of one world tile its image, and a diced primitive is in    *)
(* the bucket of every pixel of its bound.                                 *)
BucketsTile ==
    (opened = 1 /\ buckets # <<>>) =>
        \A p \in Pixels :
            \E i \in DOMAIN buckets :
                /\ Contains(buckets[i].rect, p)
                /\ \A k \in DOMAIN buckets : Contains(buckets[k].rect, p) => k = i
                /\ \A k \in DOMAIN buckets : \A a \in Sx!Range(buckets[k].prims) :
                     InBound(p, heap[a].bound) => a \in Sx!Range(buckets[i].prims)

(* A bucket's sample buffer has the size of the bucket, and the sampling   *)
(* of the first world that had buckets of that size: the world's own, as   *)
(* long as all worlds have had the same resolution and sampling.  A bucket *)
(* has none only when the four buffers are taken by other sizes.           *)
SamplesFit ==
    \A i \in DOMAIN buckets :
        LET b == buckets[i] IN
        IF b.slot # 0
        THEN /\ <<slots[b.slot].wd, slots[b.slot].he>> = SizeOf(b.rect)
             /\ slots[b.slot] \in firsts
             /\ ~mixed => slots[b.slot].log = frame.log
        ELSE /\ mixed /\ Len(slots) = SlotsN
             /\ \A j \in DOMAIN slots : <<slots[j].wd, slots[j].he>> # SizeOf(b.rect)

(* The sub-pixel grid is the power of four nearest to the samples per      *)
(* pixel that were asked for.                                              *)
NearestGrid ==
    worlds > 0 => LET area == frame.samps[1] * frame.samps[2] IN
                  \A k \in 0..8 : Dist(area, Pow2[2 * frame.log]) <= Dist(area, Pow2[2 * k])

(* Every pixel has its bucket, with all the primitives that are over it    *)
(* and samples of the size and number that it needs.                       *)
BucketsServe == BucketsTile /\ SamplesFit /\ NearestGrid

(* A sample buffer is found or added for every bucket: the assertion at    *)
(* the end of Hider::findOrAddSampCoordBuff (RI_HiderST.cpp:67).           *)
SlotFound == \A i \in DOMAIN buckets : buckets[i].slot # 0

\* WorldEnd is under way and has not read through a NULL.
InWorldEnd == hphase # "idle" /\ hub = "no"

----------------------------------------------------------------------------
(* The invariant that the proofs of RefsExact and SplitsPartition use.     *)

Tile == [x1 : Int, y1 : Int, x2 : Int, y2 : Int]
Bucket == [rect : Tile, slot : Nat, prims : Seq(Addrs)]
Ranges == (0..UvDim) \X (0..UvDim)
Slot == [wd : Int, he : Int, log : 0..9]
Part == [root : Nat, u : Ranges, v : Ranges, dropped : BOOLEAN]

ListTypes ==
    /\ HTypeOK /\ (hphase \in {"simplify", "split"} => hidx # 0)
    /\ slots \in Seq(Slot) /\ buckets \in Seq(Bucket) /\ fates \subseteq Part /\ inserted \in Nat

\* What each phase of WorldEnd has done when it goes over to the next.
PhasesDone ==
    /\ hphase = "simplify" => fates = {}
    /\ hphase = "split" => \A i \in DOMAIN hprims : i < hidx => hprims[i] = 0
    /\ hphase = "render" => hprims = <<>>

Waits == {hprims[i] : i \in DOMAIN hprims} \ {0}

ListedOnce == \A i, j \in DOMAIN hprims : hprims[i] # 0 /\ hprims[i] = hprims[j] => i = j

(* Surfaces are numbered as they come; a complex primitive is none.  What  *)
(* the last WorldEnd has done with is of other surfaces than what waits.   *)
RootsKnown ==
    /\ \A a \in Waits : heap[a].root <= inserted
    /\ \A f \in fates : f.root <= inserted
    /\ hphase = "idle" => \A a \in Waits, f \in fates : heap[a].root = f.root => f.root = 0

\* A part halved n times each way.
Unit == CHOOSE m \in 1..UvDim : UvDim = m * Pow2[MaxSplit + 1]
Halved(p, n) ==
    /\ p.u[2] = p.u[1] + Unit * Pow2[MaxSplit + 1 - n]
    /\ p.v[2] = p.v[1] + Unit * Pow2[MaxSplit + 1 - n]
    /\ n <= p.cnt /\ p.cnt <= 2 * n

PartsHalved ==
    \A a \in Waits :
        IF heap[a].complex THEN heap[a].root = 0 /\ heap[a].u = <<0, 0>> /\ heap[a].v = <<0, 0>>
        ELSE \E n \in 0..(MaxSplit + 1) : Halved(heap[a], n)

\* The same part of the surface r, as one that waits or one that is done with.
WaitsAt(a, r, i, j) == a \in Waits /\ heap[a].root = r /\ Covers(heap[a], i, j)
DoneAt(f, r, i, j) == f \in fates /\ f.root = r /\ Covers(f, i, j)
CoveredOnce(r, i, j) ==
    \/ \E a \in Addrs : /\ WaitsAt(a, r, i, j)
                        /\ \A b \in Addrs : WaitsAt(b, r, i, j) => b = a
                        /\ \A f \in fates : ~DoneAt(f, r, i, j)
    \/ \E f \in fates : /\ DoneAt(f, r, i, j)
                        /\ \A g \in fates : DoneAt(g, r, i, j) => g = f
                        /\ \A a \in Addrs : ~WaitsAt(a, r, i, j)

Roots == {heap[a].root : a \in Waits} \cup {f.root : f \in fates}

SurfacesCovered ==
    \A r \in Roots \ {0} : \A i, j \in 0..(UvDim - 1) : CoveredOnce(r, i, j)

HiderInv ==
    /\ ListTypes /\ RefsExact /\ PhasesDone /\ ListedOnce /\ RootsKnown /\ PartsHalved
    /\ DropsAreSmall /\ SurfacesCovered

(* What BucketsServe needs beside it: whose the buckets are, what they     *)
(* have borrowed and which sample buffers there are.                       *)
WorldsKnown ==
    /\ worlds \in Nat /\ opened \in Nat /\ mixed \in BOOLEAN
    /\ worlds > 0 => \E set \in Settings : frame = FrameOf(set)
    /\ worlds = 0 => slots = <<>> /\ opened = 0 /\ ~mixed
    /\ opened = 0 => buckets = <<>>
    /\ opened = 1 => /\ Len(buckets) = Len(Tiles(frame.fmt))
                     /\ \A k \in DOMAIN buckets : buckets[k].rect = Tiles(frame.fmt)[k]

Borrowed(k) == {buckets[k].prims[i] : i \in DOMAIN buckets[k].prims}

BorrowedWhereSeen ==
    /\ \A k \in DOMAIN buckets : Borrowed(k) \cap Waits = {}
    /\ opened <= 1 =>
         \A k, m \in DOMAIN buckets : \A a \in Borrowed(k) :
             Intersects(buckets[m].rect, heap[a].bound) => a \in Borrowed(m)

\* A tile is as wide and as high as BUCKET_SIZE or as what is left at the edge.
Edge(n) == n - ((n - 1) \div BucketSize) * BucketSize
Fits(s, fmt, log) ==
    s.wd \in {BucketSize, Edge(fmt[1])} /\ s.he \in {BucketSize, Edge(fmt[2])} /\ s.log = log

SlotsKnown ==
    /\ \A k \in DOMAIN buckets :
         IF buckets[k].slot # 0
         THEN /\ slots[buckets[k].slot].wd = buckets[k].rect.x2 - buckets[k].rect.x1
              /\ slots[buckets[k].slot].he = buckets[k].rect.y2 - buckets[k].rect.y1
         ELSE mixed /\ Len(slots) = SlotsN /\ SlotOf(slots, buckets[k].rect) = 0
    /\ \A i, j \in DOMAIN slots :
         slots[i].wd = slots[j].wd /\ slots[i].he = slots[j].he => i = j
    /\ ~mixed => \A i \in DOMAIN slots : Fits(slots[i], frame.fmt, frame.log)

\* Every buffer is of the first world of its size, and none is missing while there is room.
SlotsFirst ==
    /\ \A i \in DOMAIN slots : slots[i] \in firsts
    /\ Len(slots) < SlotsN =>
         \A f \in firsts : \E i \in DOMAIN slots : slots[i].wd = f.wd /\ slots[i].he = f.he

ServeInv == WorldsKnown /\ BorrowedWhereSeen /\ SlotsKnown /\ SlotsFirst
=============================================================================
