---------------------------- MODULE Primitives ----------------------------
(***************************************************************************)
(* How complex primitives become patches: Simplify of Polygon,             *)
(* PointsPolygons, PointsGeneralPolygons and PatchMesh.  One action for    *)
(* each patch, or three of them, that is given to the hider.               *)
(*                                                                         *)
(* A point is the set of the vertices it is the mean of, a vertex its      *)
(* place in the list of vertices, or <<u, v>> in a mesh.                   *)
(***************************************************************************)
EXTENDS Integers, Sequences, FiniteSets

CONSTANTS
    PolyPrims,  \* [kind, nloops, nverts, n]: n is the number of vertex indices
    MeshPrims   \* [kind, nu, nv, up, vp, us, vs]

Least(a, b) == IF a < b THEN a ELSE b
Polys == {"polygon", "points", "general"}

\* Only the first loop of a polygon is drawn; a Polygon, or one of PointsPolygons, has one.
NLoops(p, i) == IF p.kind = "general" THEN Least(p.nloops[i], 1) ELSE 1
NPolys(p) == IF p.kind = "general" THEN Len(p.nloops) ELSE Len(p.nverts)

\* The loops of each polygon, and how many of them are drawn.
Loops(p) == [i \in 1..NPolys(p) |-> IF p.kind = "general" THEN p.nloops[i] ELSE 1]
Drawn(p) == [i \in 1..NPolys(p) |-> NLoops(p, i)]

\* The sums of the first i elements.
Totals(s) ==
    LET F[i \in Nat] == IF i = 0 THEN 0 ELSE F[i - 1] + IF i \in DOMAIN s THEN s[i] ELSE 0 IN F

(* The lists of a polygon primitive are long enough for the loops drawn    *)
(* (what the DASSERTs of Simplify mean).                                   *)
ASSUME PrimAssumption ==
    /\ \A p \in PolyPrims :
          /\ p.kind \in Polys /\ p.nverts \in Seq(Nat)
          /\ p.kind = "general" => p.nloops \in Seq(Nat)
          /\ LET loops == Totals(Drawn(p))[NPolys(p)] IN
             loops <= Len(p.nverts) /\ p.n \in Nat /\ Totals(p.nverts)[loops] <= p.n
    /\ \A p \in MeshPrims :
          /\ p.kind \in {"bilinear", "bicubic"} /\ p.nu \in Nat /\ p.nv \in Nat
          /\ p.up \in BOOLEAN /\ p.vp \in BOOLEAN /\ p.us \in Int /\ p.vs \in Int

VARIABLES
    gprim,      \* the primitive
    gphase,     \* "loops", "fan", "mesh", "done" or "threw"
    gpoly,      \* polygon: index in nloops
    gloop,      \* nVertsIdx: loops taken
    gfirst,     \* idxVertsIdx: the first vertex of the loop
    gstart, gend, \* the fan's place in the loop
    gi, gj,     \* mesh: the patch
    gout,       \* patches inserted, in order: [poly, loop, pts]
    gdrawn      \* history: the loop each polygon is drawn with: [poly, loop]

gvars == <<gprim, gphase, gpoly, gloop, gfirst, gstart, gend, gi, gj, gout, gdrawn>>

LoopVars == <<gpoly, gloop, gfirst, gstart, gend, gdrawn>>

GInit ==
    /\ gprim \in PolyPrims \cup MeshPrims
    /\ gphase = IF gprim.kind \in Polys THEN "loops" ELSE "mesh"
    /\ gpoly = 1 /\ gloop = 0 /\ gfirst = 0 /\ gstart = 1 /\ gend = 0
    /\ gi = 0 /\ gj = 0 /\ gout = <<>> /\ gdrawn = <<>>

----------------------------------------------------------------------------
(* Polygons.                                                               *)

FanEnd(start, last) == Least(start + 2, last)

NVerts == gprim.nverts[gloop]

\* A polygon that has a loop: its vertices are the next of the list.
TakeLoop ==
    /\ gphase = "loops" /\ gpoly <= NPolys(gprim) /\ NLoops(gprim, gpoly) = 1
    /\ gloop' = gloop + 1
    /\ gstart' = 1
    /\ gend' = FanEnd(1, gprim.nverts[gloop + 1] - 1)
    /\ gdrawn' = Append(gdrawn, [poly |-> gpoly, loop |-> gloop + 1])
    /\ gphase' = "fan"
    /\ UNCHANGED <<gprim, gpoly, gfirst, gi, gj, gout>>

NoLoop ==
    /\ gphase = "loops" /\ gpoly <= NPolys(gprim) /\ NLoops(gprim, gpoly) = 0
    /\ gpoly' = gpoly + 1
    /\ UNCHANGED <<gprim, gphase, gloop, gfirst, gstart, gend, gi, gj, gout, gdrawn>>

NoPolyLeft ==
    /\ gphase = "loops" /\ gpoly > NPolys(gprim)
    /\ gphase' = "done"
    /\ UNCHANGED <<gprim, LoopVars, gi, gj, gout>>

Vertex(k) == {gfirst + k}

\* tessellateToBilinearPatches: a quad.
Quad ==
    /\ gphase = "fan" /\ gend - gstart = 2
    /\ gout' = Append(gout, [loop |-> gloop,
                             pts |-> <<Vertex(0), Vertex(gstart), Vertex(gend), Vertex(gstart + 1)>>])
    /\ gstart' = gend
    /\ gend' = FanEnd(gend, NVerts - 1)
    /\ UNCHANGED <<gprim, gphase, gpoly, gloop, gfirst, gi, gj, gdrawn>>

\* Mutant: the third patch is at the second corner again.
simplifyAddTriangleTwice(v1, v2, v3) ==
    LET mid == v1 \cup v2 \cup v3  a == v1 \cup v2  b == v2 \cup v3  c == v1 \cup v3
    IN  << <<v1, a, c, mid>>, <<v2, a, b, mid>>, <<v2, b, c, mid>> >>

simplifyAddTriangle(v1, v2, v3) ==
    LET mid == v1 \cup v2 \cup v3  a == v1 \cup v2  b == v2 \cup v3  c == v1 \cup v3
    IN  << <<v1, a, c, mid>>, <<v2, a, b, mid>>, <<v3, b, c, mid>> >>

NextPoly ==
    /\ gphase' = "loops"
    /\ gpoly' = gpoly + 1
    /\ gfirst' = gfirst + NVerts

\* The end of a loop: a triangle if one is left.
Triangle ==
    /\ gphase = "fan" /\ gend - gstart = 1
    /\ gout' = gout \o [i \in 1..3 |->
                  [loop |-> gloop,
                   pts |-> simplifyAddTriangle(Vertex(0), Vertex(gstart), Vertex(gend))[i]]]
    /\ NextPoly
    /\ UNCHANGED <<gprim, gloop, gstart, gend, gi, gj, gdrawn>>

FanOver ==
    /\ gphase = "fan" /\ gend - gstart \notin {1, 2}
    /\ NextPoly
    /\ UNCHANGED <<gprim, gloop, gstart, gend, gi, gj, gout, gdrawn>>

----------------------------------------------------------------------------
(* Patch meshes.                                                           *)

\* The integer division of the machine: towards zero.
Quotient(a, b) == IF a >= 0 THEN a \div b ELSE -((-a) \div b)

\* nUPatches and nVPatches.
NPatches(kind, n, periodic, steps) ==
    CASE kind = "bilinear" -> n - 1 + IF periodic THEN 1 ELSE 0
      [] kind = "bicubic" /\ periodic -> Quotient(n, steps)
      [] OTHER -> Quotient(n - 4, steps) + 1

NU == NPatches(gprim.kind, gprim.nu, gprim.up, gprim.us)
NV == NPatches(gprim.kind, gprim.nv, gprim.vp, gprim.vs)
BadSteps == gprim.kind = "bicubic" /\ (gprim.us \notin 1..16 \/ gprim.vs \notin 1..16)
Hull(u, v) == {<<u % gprim.nu, v % gprim.nv>>}

BilinearHull ==
    <<Hull(gi, gj), Hull(gi + 1, gj), Hull(gi, gj + 1), Hull(gi + 1, gj + 1)>>

BicubicHull ==
    [k \in 1..16 |-> Hull(((k - 1) % 4) + gi * gprim.us, ((k - 1) \div 4) + gj * gprim.vs)]

(* The next patch; bilinear ones by rows, bicubic ones by columns.         *)
MeshPatch ==
    /\ gphase = "mesh" /\ ~BadSteps /\ gi < NU /\ gj < NV
    /\ gout' = Append(gout, [loop |-> 0, pts |-> IF gprim.kind = "bilinear" THEN BilinearHull
                                                 ELSE BicubicHull])
    /\ IF gprim.kind = "bilinear"
       THEN /\ gj' = (gj + 1) % NV
            /\ gi' = IF gj + 1 = NV THEN gi + 1 ELSE gi
       ELSE /\ gi' = (gi + 1) % NU
            /\ gj' = IF gi + 1 = NU THEN gj + 1 ELSE gj
    /\ UNCHANGED <<gprim, gphase, LoopVars>>

\* The steps of the basis are checked first.
MeshThrows ==
    /\ gphase = "mesh" /\ BadSteps
    /\ gphase' = "threw"
    /\ UNCHANGED <<gprim, LoopVars, gi, gj, gout>>

MeshOver ==
    /\ gphase = "mesh" /\ ~BadSteps
    /\ gi >= NU \/ gj >= NV
    /\ gphase' = "done"
    /\ UNCHANGED <<gprim, LoopVars, gi, gj, gout>>

GNext ==
    \/ TakeLoop \/ NoLoop \/ NoPolyLeft \/ Quad \/ Triangle \/ FanOver
    \/ MeshPatch \/ MeshThrows \/ MeshOver

GSpec == GInit /\ [][GNext]_gvars

----------------------------------------------------------------------------
(* Properties.                                                             *)

\* The sides of a patch, in halves.
Side(x, y) ==
    IF Cardinality(x) = 1 /\ Cardinality(y) = 1 THEN {{x, x \cup y}, {x \cup y, y}} ELSE {{x, y}}

Sides(p) == Side(p[1], p[2]) \cup Side(p[2], p[4]) \cup Side(p[4], p[3]) \cup Side(p[3], p[1])

Count(s, patches) == Cardinality({i \in patches : s \in Sides(gout[i].pts)})
AllSides(patches) == UNION {Sides(gout[i].pts) : i \in patches}

\* The sides of a loop of n vertices that begins with the vertex f.
Outline(f, n) ==
    UNION {Side({f + k}, {f + ((k + 1) % n)}) : k \in 0..(n - 1)}

OutlineOf(l) == Outline(Totals(gprim.nverts)[l - 1], gprim.nverts[l])

(* The patches of a polygon cover it without a gap or an overlap: a side   *)
(* on the outline belongs to one patch, every other one to two, and the    *)
(* whole outline is there.                                                 *)
PolygonsCovered ==
    gphase = "done" /\ gprim.kind \in Polys =>
        \A d \in {gdrawn[i] : i \in DOMAIN gdrawn} :
            LET patches == {i \in DOMAIN gout : gout[i].loop = d.loop} IN
            IF gprim.nverts[d.loop] < 3 THEN patches = {}
            ELSE /\ OutlineOf(d.loop) \subseteq AllSides(patches)
                 /\ \A s \in AllSides(patches) :
                       Count(s, patches) = IF s \in OutlineOf(d.loop) THEN 1 ELSE 2

(* As long as no polygon has had a hole, each is drawn with its own first  *)
(* loop; after one with holes, a polygon is drawn with a loop before it.   *)
OwnLoops ==
    gprim.kind \in Polys =>
        \A i \in DOMAIN gdrawn :
            LET S == Totals(Loops(gprim))
                own == S[gdrawn[i].poly - 1] + 1
            IN  /\ gdrawn[i].loop <= own
                /\ (\A k \in 1..(gdrawn[i].poly - 1) : NLoops(gprim, k) = Loops(gprim)[k])
                       => gdrawn[i].loop = own

\* The sizes for which a mesh is made of whole patches.
Whole(n, periodic, steps) ==
    IF gprim.kind = "bilinear" THEN n >= IF periodic THEN 3 ELSE 2
    ELSE IF periodic THEN n % steps = 0 /\ n >= 4 ELSE n >= 4 /\ (n - 4) % steps = 0

\* A side of a bilinear mesh between two of its rows or columns, or on the rim.
OnRim(s) ==
    LET at(k) == {v[k] : v \in UNION s} IN
    \/ ~gprim.up /\ (at(1) = {0} \/ at(1) = {gprim.nu - 1})
    \/ ~gprim.vp /\ (at(2) = {0} \/ at(2) = {gprim.nv - 1})

(* A bilinear mesh has no gap and no overlap: a side on its rim belongs to *)
(* one patch, every other one to two; a periodic direction has no rim.     *)
BilinearSeamless ==
    gphase = "done" /\ gprim.kind = "bilinear"
    /\ Whole(gprim.nu, gprim.up, 1) /\ Whole(gprim.nv, gprim.vp, 1) =>
        /\ Len(gout) = NU * NV
        /\ \A s \in AllSides(DOMAIN gout) :
              Count(s, DOMAIN gout) = IF OnRim(s) THEN 1 ELSE 2

(* A bicubic mesh uses its whole hull: every control point in some patch,  *)
(* and no hull is used by two patches.                                     *)
BicubicComplete ==
    gphase = "done" /\ gprim.kind = "bicubic" /\ gprim.us <= 4 /\ gprim.vs <= 4
    /\ Whole(gprim.nu, gprim.up, gprim.us) /\ Whole(gprim.nv, gprim.vp, gprim.vs) =>
        /\ UNION UNION {{gout[i].pts[k] : k \in 1..16} : i \in DOMAIN gout}
              = (0..(gprim.nu - 1)) \X (0..(gprim.nv - 1))
        /\ \A i, j \in DOMAIN gout : gout[i].pts = gout[j].pts => i = j

(* Polygons and meshes are covered by their patches, each polygon with its *)
(* own loop, without gap or overlap.                                       *)
PatchesCover == PolygonsCovered /\ OwnLoops /\ BilinearSeamless /\ BicubicComplete

(* Every loop that is drawn lies within the lists of counts and indices.   *)
GTypeOK ==
    /\ gphase \in {"loops", "fan", "mesh", "done", "threw"}
    /\ gprim.kind \in Polys =>
          /\ gloop <= Len(gprim.nverts) /\ gfirst <= gprim.n
          /\ \A i \in DOMAIN gout : UNION {gout[i].pts[k] : k \in 1..4} \subseteq 0..(gprim.n - 1)
=============================================================================
