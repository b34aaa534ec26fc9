--------------------------- MODULE Shaders_proofs ---------------------------
(***************************************************************************)
(* Proofs about SceneShaders and ShaderVM.                                 *)
(*                                                                         *)
(* For all search paths, files, commands and bounds: a search finds the    *)
(* first file that exists in the order of precedence, and a primitive is   *)
(* shaded with the lights it was meant to be shaded with.                  *)
(*                                                                         *)
(* For all programs, attributes, lights and sizes of the stack of blocks:  *)
(* a run executes what the program's text says, and the lights of a grid   *)
(* are those of its own attributes.                                        *)
(***************************************************************************)
EXTENDS SceneShaders, ShaderVM, NatInduction, FiniteSetTheorems

----------------------------------------------------------------------------
(* The lights of a scene.                                                  *)

LEMMA LightTypes ==
    ASSUME LightInv
    PROVE  \A i \in DOMAIN slights : slights[i] \in Light /\ slights[i].uid \in Nat
<1>1. slights \in Seq(Light)
  BY DEF LightInv
<1>2. \A i \in DOMAIN slights : slights[i] \in Light
  BY <1>1
<1>3. \A x \in Light : x.uid \in Nat
  BY DEF Light
<1> QED
  BY <1>2, <1>3

LEMMA LightIsAdded ==
    ASSUME LightInv, NEW l \in Light, l.uid = scount, AddLightSource(l), sprims' = sprims,
           scount' \in Nat, scount <= scount', Idle' \/ scmd'.id \in LightIds \cup {0}
    PROVE  LightInv'
<1> DEFINE same == {i \in DOMAIN slights : slights[i].id = l.id}
           at == IF same = {} THEN Len(slights) + 1 ELSE Min(same)
<1>0. slights \in Seq(Light) /\ sact \in Seq(Nat) /\ scount \in Nat
  BY DEF LightInv
<1>1. same # {} => at \in same
  <2>1. same \in SUBSET Nat
    BY <1>0
  <2> HIDE DEF same
  <2> QED
    BY <2>1, LeastExists
<1>2. /\ slights' = IF same = {} THEN Append(slights, l) ELSE [slights EXCEPT ![at] = l]
      /\ sact' = IF \E i \in DOMAIN sact : sact[i] = at THEN sact ELSE Append(sact, at)
  BY DEF AddLightSource
<1>3. at \in Nat
  BY <1>0, <1>1
<1>4. same # {} => at \in DOMAIN slights /\ slights[at].id = l.id
  BY <1>1
<1>s. same = {} => at = Len(slights) + 1
  OBVIOUS
<1> HIDE DEF at, same
<1>5. /\ slights' \in Seq(Light) /\ DOMAIN slights \subseteq DOMAIN slights' /\ at \in DOMAIN slights'
      /\ \A i \in DOMAIN slights' :
            slights'[i] = l \/ (i \in DOMAIN slights /\ slights'[i] = slights[i])
      /\ \A i \in DOMAIN slights :
            slights'[i] = slights[i] \/ (slights'[i] = l /\ slights[i].id = l.id)
  <2>1. CASE same = {}
    <3>1. slights' = Append(slights, l) /\ at = Len(slights) + 1
      BY <1>2, <1>s, <2>1
    <3> QED
      BY <1>0, <3>1
  <2>2. CASE same # {}
    <3>1. slights' = [slights EXCEPT ![at] = l] /\ at \in DOMAIN slights
      BY <1>2, <1>4, <2>2
    <3>2. slights' \in Seq(Light) /\ DOMAIN slights' = DOMAIN slights
      BY <1>0, <3>1
    <3>3. \A i \in DOMAIN slights : slights'[i] = IF i = at THEN l ELSE slights[i]
      BY <1>0, <3>1
    <3> QED
      BY <1>4, <2>2, <3>1, <3>2, <3>3
  <2> QED
    BY <2>1, <2>2
<1>6. sact' \in Seq(Nat) /\ \A i \in DOMAIN sact' : sact'[i] \in DOMAIN slights'
  <2>1. \A i \in DOMAIN sact : sact[i] \in DOMAIN slights'
    BY <1>5 DEF LightInv
  <2>2. sact' = sact \/ sact' = Append(sact, at)
    BY <1>2
  <2>3. \A s : s \in Seq(Nat) /\ s = Append(sact, at) =>
            \A i \in DOMAIN s : s[i] = at \/ (i \in DOMAIN sact /\ s[i] = sact[i])
    BY <1>0, <1>3
  <2>4. Append(sact, at) \in Seq(Nat)
    BY <1>0, <1>3
  <2> QED
    BY <1>0, <1>5, <2>1, <2>2, <2>3, <2>4
<1>7. \A i \in DOMAIN slights' : slights'[i].uid <= scount'
  <2> SUFFICES ASSUME NEW i \in DOMAIN slights' PROVE slights'[i].uid <= scount'
    OBVIOUS
  <2>1. CASE slights'[i] = l
    BY <1>0, <2>1
  <2>2. CASE i \in DOMAIN slights /\ slights'[i] = slights[i]
    <3>1. slights[i].uid \in Nat /\ slights[i].uid <= scount
      BY <2>2, LightTypes DEF LightInv
    <3> QED
      BY <1>0, <2>2, <3>1
  <2> QED
    BY <1>5, <2>1, <2>2
<1>8. ASSUME NEW p \in sprims, NEW i \in DOMAIN p.act
      PROVE  /\ p.act[i] \in DOMAIN slights' /\ p.meant[i] \in Light
             /\ LET now == slights'[p.act[i]] IN
                now = p.meant[i] \/ (now.id = p.meant[i].id /\ now.uid > p.meant[i].uid)
  <2> DEFINE k == p.act[i]  m == p.meant[i]
  <2>1. /\ k \in DOMAIN slights /\ m \in Light
        /\ slights[k] = m \/ (slights[k].id = m.id /\ slights[k].uid > m.uid)
    BY DEF LightInv, LightsMeant
  <2>2. slights[k] \in Light /\ slights[k].uid <= scount
    BY <1>0, <2>1 DEF LightInv
  <2> HIDE DEF k, m
  <2>3. slights[k].uid \in Nat /\ m.uid \in Nat /\ l.uid \in Nat /\ scount \in Nat
    BY <1>0, <2>1, <2>2 DEF Light
  <2>4. CASE slights'[k] = slights[k]
    BY <1>5, <2>1, <2>4 DEF k, m
  <2>5. CASE slights'[k] = l /\ slights[k].id = l.id
    <3>1. l.id = m.id /\ l.uid >= m.uid
      BY <2>1, <2>2, <2>3, <2>5
    <3>2. l.uid = m.uid => l = m
      BY <2>1, <3>1 DEF Light
    <3>3. l = m \/ l.uid > m.uid
      BY <2>3, <3>1, <3>2
    <3> QED
      BY <1>5, <2>1, <2>5, <3>1, <3>3 DEF k, m
  <2> QED
    BY <1>5, <2>1, <2>4, <2>5
<1>9. LightsMeant'
  BY <1>8 DEF LightsMeant
<1> QED
  BY <1>5, <1>6, <1>7, <1>8, <1>9 DEF LightInv

\* A step that leaves lights and primitives alone.
LEMMA LightsStay ==
    ASSUME LightInv, UNCHANGED <<slights, sact, sprims>>, scount' \in Nat, scount <= scount',
           Idle' \/ scmd'.id \in LightIds \cup {0}
    PROVE  LightInv'
<1>1. \A i \in DOMAIN slights : slights[i].uid \in Nat
  BY LightTypes
<1>2. \A i \in DOMAIN slights : slights[i].uid <= scount'
  BY <1>1 DEF LightInv
<1>3. LightsMeant'
  BY DEF LightInv, LightsMeant
<1>4. \A p \in sprims : \A i \in DOMAIN p.act :
         p.act[i] \in DOMAIN slights /\ p.meant[i] \in Light
  BY DEF LightInv
<1>5. /\ slights \in Seq(Light) /\ sact \in Seq(Nat)
      /\ \A i \in DOMAIN sact : sact[i] \in DOMAIN slights
  BY DEF LightInv
<1> QED
  BY <1>2, <1>3, <1>4, <1>5 DEF LightInv

LEMMA LightsApply ==
    ASSUME LightInv, NEW cmd, cmd.id \in LightIds \cup {0}, NEW file, Apply(cmd, file),
           sprims' = sprims, scount' \in Nat, scount <= scount',
           Idle' \/ scmd'.id \in LightIds \cup {0}
    PROVE  LightInv'
<1>1. CASE cmd.kind = "light" /\ file # NoFile
  <2> DEFINE l == [id |-> cmd.id, uid |-> scount]
  <2>1. l \in Light /\ l.uid = scount
    BY DEF Light, LightInv
  <2>2. AddLightSource(l)
    BY <1>1 DEF Apply
  <2> HIDE DEF l
  <2> QED
    BY <2>1, <2>2, LightIsAdded
<1>2. CASE ~(cmd.kind = "light" /\ file # NoFile)
  <2>1. UNCHANGED <<slights, sact>>
    BY <1>2 DEF Apply
  <2> QED
    BY <2>1, LightsStay
<1> QED
  BY <1>1, <1>2

LEMMA LightsInserted ==
    ASSUME LightInv, SInsert
    PROVE  LightInv'
<1> DEFINE new == [act |-> sact, meant |-> [i \in DOMAIN sact |-> slights[sact[i]]]]
<1>1. /\ sprims' = sprims \cup {new} /\ scount' = scount + 1
      /\ UNCHANGED <<scmd, slights, sact>>
  BY DEF SInsert
<1>2. ASSUME NEW p \in sprims', NEW i \in DOMAIN p.act
      PROVE  /\ p.act[i] \in DOMAIN slights /\ p.meant[i] \in Light
             /\ LET now == slights[p.act[i]] IN
                now = p.meant[i] \/ (now.id = p.meant[i].id /\ now.uid > p.meant[i].uid)
  <2>1. CASE p \in sprims
    BY <2>1 DEF LightInv, LightsMeant
  <2>2. CASE p = new
    <3>1. i \in DOMAIN sact /\ p.act[i] = sact[i] /\ p.meant[i] = slights[sact[i]]
      BY <2>2
    <3>2. sact[i] \in DOMAIN slights /\ slights[sact[i]] \in Light
      BY <3>1 DEF LightInv
    <3> QED
      BY <3>1, <3>2
  <2> QED
    BY <1>1, <2>1, <2>2
<1>3. LightsMeant'
  BY <1>1, <1>2 DEF LightsMeant
<1>4. \A i \in DOMAIN slights : slights[i].uid <= scount'
  <2>1. \A i \in DOMAIN slights : slights[i].uid \in Nat
    BY LightTypes
  <2> QED
    BY <1>1, <2>1 DEF LightInv
<1>5. scount' \in Nat /\ (Idle' \/ scmd'.id \in LightIds \cup {0})
  BY <1>1 DEF LightInv, Idle
<1> HIDE DEF new
<1> QED
  BY <1>1, <1>2, <1>3, <1>4, <1>5 DEF LightInv

LEMMA LightStep == LightInv /\ [SNext]_svars => LightInv'
<1> SUFFICES ASSUME LightInv, [SNext]_svars PROVE LightInv'
  OBVIOUS
<1>0. scount \in Nat /\ (Idle \/ scmd.id \in LightIds \cup {0})
  BY DEF LightInv
<1>1. ASSUME NEW k \in DOMAIN spaths, NEW toks \in PathLists, OptionSearchPath(k, toks)
      PROVE  LightInv'
  BY <1>0, <1>1, LightsStay DEF OptionSearchPath, Idle
<1>2. ASSUME NEW kind, NEW name, NEW id \in LightIds \cup {0}, Command(kind, name, id)
      PROVE  LightInv'
  <2> DEFINE cmd == [kind |-> kind, name |-> name, id |-> id]
  <2>1. scount' = scount + 1 /\ sprims' = sprims /\ cmd.id \in LightIds \cup {0} /\ Idle
    BY <1>2 DEF Command
  <2>2. CASE kind # "archive" /\ sres[name] # NoFile
    <3>1. Apply(cmd, sres[name]) /\ scmd' = scmd
      BY <1>2, <2>2 DEF Command
    <3> QED
      BY <1>0, <2>1, <3>1, LightsApply DEF Idle
  <2>3. CASE ~(kind # "archive" /\ sres[name] # NoFile)
    <3>1. scmd' = cmd /\ UNCHANGED <<slights, sact>>
      BY <1>2, <2>3 DEF Command
    <3> QED
      BY <1>0, <2>1, <3>1, LightsStay DEF Idle
  <2> QED
    BY <2>2, <2>3
<1>3. CASE ScanMiss
  BY <1>0, <1>3, LightsStay DEF ScanMiss, Idle
<1>4. CASE ScanHit
  <2>1. PICK f, sha : /\ ~Idle /\ scmd' = NoCmd /\ UNCHANGED <<sprims, scount>>
                      /\ UNCHANGED <<slights, sact>> \/ Apply(scmd, sha)
    BY <1>4 DEF ScanHit, Done
  <2> QED
    BY <1>0, <2>1, LightsStay, LightsApply DEF Idle
<1>5. CASE ScanOver
  <2>1. CASE sscan.ext = "sl"
    BY <1>0, <1>5, <2>1, LightsStay DEF ScanOver, Idle
  <2>2. CASE sscan.ext # "sl"
    <3>1. /\ ~Idle /\ scmd' = NoCmd /\ UNCHANGED <<sprims, scount>>
          /\ Apply(scmd, NoFile)
      BY <1>5, <2>2 DEF ScanOver, Done
    <3> QED
      BY <1>0, <3>1, LightsApply DEF Idle
  <2> QED
    BY <2>1, <2>2
<1>6. CASE SInsert
  BY <1>6, LightsInserted
<1>7. CASE UNCHANGED svars
  BY <1>0, <1>7, LightsStay DEF svars, Idle
<1> QED
  BY <1>1, <1>2, <1>3, <1>4, <1>5, <1>6, <1>7 DEF SNext, SStep

(* Whatever is loaded, kept by name or fails, the lights that a primitive  *)
(* refers to are those that were active when it was inserted, or later     *)
(* ones with the same IDs.                                                 *)
THEOREM LightsAsMeant == SSpec => []LightsMeant
<1>1. SInit => LightInv
  BY DEF SInit, LightInv, LightsMeant, Idle
<1>2. LightInv => LightsMeant
  BY DEF LightInv
<1> QED
  BY <1>1, <1>2, LightStep, PTL DEF SSpec
----------------------------------------------------------------------------
(* The directories of a search path.                                       *)

Dir == {"base", "default"} \cup STRING \cup {Beside(p) : p \in STRING}

LEMMA DirsOfType ==
    ASSUME NEW p \in STRING, NEW d \in BOOLEAN
    PROVE  DirsOf(p, d) \in Seq(Dir)
<1>1. p \in Dir /\ Beside(p) \in Dir /\ "default" \in Dir
  BY DEF Dir
<1> HIDE DEF Dir, Beside
<1> QED
  BY <1>1 DEF DirsOf

DirSteps(f, list, d) ==
    /\ DOMAIN f = 0..Len(list) /\ f[0] = <<"base">>
    /\ \A k \in 1..Len(list) : f[k] = f[k - 1] \o DirsOf(list[k], d)

LEMMA DirsUpToIs ==
    ASSUME NEW list \in Seq(STRING), NEW d \in BOOLEAN
    PROVE  DirSteps(DirsUpTo(list, d), list, d)
<1> DEFINE n == Len(list)
           X == Seq(Dir)
           g == [p \in Nat \X X |-> IF p[1] + 1 \in 1..n THEN p[2] \o DirsOf(list[p[1] + 1], d)
                                    ELSE p[2]]
           Q(f) == f = [k \in 0..n |-> IF k = 0 THEN <<"base">> ELSE f[k - 1] \o DirsOf(list[k], d)]
<1>0. n \in Nat /\ <<"base">> \in X /\ \A k \in 1..n : list[k] \in STRING
  BY DEF Dir
<1>1. g \in [Nat \X X -> X]
  <2>1. \A k \in 1..n, s \in X : s \o DirsOf(list[k], d) \in X
    <3>1. \A s \in X, t \in X : s \o t \in X
      <4> HIDE DEF Dir
      <4> QED
        OBVIOUS
    <3> QED
      BY <1>0, <3>1, DirsOfType
  <2> HIDE DEF X, n
  <2> QED
    BY <2>1
<1>2. PICK h : Starts(h, n, X, <<"base">>, g)
  <2> HIDE DEF X, g, n
  <2> QED
    BY <1>0, <1>1, StartsExist
<1>3. h \in [0..n -> X] /\ h[0] = <<"base">>
  BY <1>2 DEF Starts
<1>4. \A k \in 1..n : h[k] = h[k - 1] \o DirsOf(list[k], d)
  <2> SUFFICES ASSUME NEW k \in 1..n PROVE h[k] = h[k - 1] \o DirsOf(list[k], d)
    OBVIOUS
  <2>1. PICK j \in Nat : j < n /\ k = j + 1 /\ j = k - 1 /\ j \in 0..n
    <3>1. k - 1 \in Nat /\ k - 1 < n /\ k = (k - 1) + 1 /\ k - 1 \in 0..n
      BY <1>0
    <3> QED
      BY <3>1
  <2>2. h[j + 1] = g[<<j, h[j]>>]
    <3> HIDE DEF g, X, n
    <3> QED
      BY <1>2, <2>1 DEF Starts
  <2>3. h[j] \in X
    BY <1>3, <2>1
  <2>4. \A s \in X : g[<<j, s>>] = s \o DirsOf(list[j + 1], d)
    <3> HIDE DEF X
    <3> QED
      BY <2>1
  <2>5. h[j + 1] = h[j] \o DirsOf(list[j + 1], d)
    <3> HIDE DEF g, X
    <3> QED
      BY <2>2, <2>3, <2>4
  <2> QED
    BY <2>1, <2>5
<1>5. Q(h)
  <2>1. \A k \in 0..n : h[k] = IF k = 0 THEN <<"base">> ELSE h[k - 1] \o DirsOf(list[k], d)
    BY <1>3, <1>4
  <2> HIDE DEF X, n
  <2> QED
    BY <1>3, <2>1
<1>6. Q(DirsUpTo(list, d))
  <2>1. DirsUpTo(list, d) = CHOOSE f : Q(f)
    BY DEF DirsUpTo
  <2> HIDE DEF Q
  <2> QED
    BY <1>5, <2>1
<1> DEFINE f == DirsUpTo(list, d)
<1>7. f = [k \in 0..n |-> IF k = 0 THEN <<"base">> ELSE f[k - 1] \o DirsOf(list[k], d)]
  BY <1>6
<1> HIDE DEF f, n
<1>8. DOMAIN f = 0..n /\ \A k \in 0..n : f[k] = IF k = 0 THEN <<"base">> ELSE f[k - 1] \o DirsOf(list[k], d)
  BY <1>7
<1>9. 0 \in 0..n /\ \A k \in 1..n : k \in 0..n /\ k # 0
  BY <1>0
<1> QED
  BY <1>8, <1>9 DEF DirSteps, f, n

\* t begins with s.
Leads(s, t) == Len(s) <= Len(t) /\ \A j \in 1..Len(s) : s[j] = t[j]

LEMMA LeadsCat ==
    ASSUME NEW T, NEW s \in Seq(T), NEW t \in Seq(T)
    PROVE  Leads(s, s \o t) /\ Leads(s, s)
BY DEF Leads

LEMMA LeadsTrans ==
    ASSUME NEW T, NEW r \in Seq(T), NEW s \in Seq(T), NEW t \in Seq(T), Leads(r, s), Leads(s, t)
    PROVE  Leads(r, t)
BY DEF Leads

\* The directories of a list's first k paths begin those of the whole list.
LEMMA DirsGrow ==
    ASSUME NEW list \in Seq(STRING), NEW d \in BOOLEAN, NEW f, DirSteps(f, list, d)
    PROVE  /\ \A k \in 0..Len(list) : f[k] \in Seq(Dir)
           /\ \A k \in 0..Len(list) : Leads(f[k], f[Len(list)])
<1> DEFINE n == Len(list)
           P == {k \in Nat : k <= n => f[k] \in Seq(Dir)}
           R == {k \in Nat : k <= n => Leads(f[n - k], f[n])}
<1>0. n \in Nat
  OBVIOUS
<1>1. \A k \in 1..n : DirsOf(list[k], d) \in Seq(Dir) /\ f[k] = f[k - 1] \o DirsOf(list[k], d)
  <2>1. \A k \in 1..n : list[k] \in STRING
    OBVIOUS
  <2> QED
    BY <2>1, DirsOfType DEF DirSteps
<1>2. \A k \in Nat : k \in P
  <2>1. 0 \in P
    <3>1. <<"base">> \in Seq(Dir)
      BY DEF Dir
    <3> QED
      BY <3>1 DEF DirSteps
  <2>2. ASSUME NEW k \in Nat, k \in P PROVE k + 1 \in P
    <3> SUFFICES ASSUME k + 1 <= n PROVE f[k + 1] \in Seq(Dir)
      OBVIOUS
    <3>1. k + 1 \in 1..n /\ (k + 1) - 1 = k /\ k <= n
      BY <1>0
    <3>2. f[k] \in Seq(Dir)
      BY <2>2, <3>1
    <3>3. DirsOf(list[k + 1], d) \in Seq(Dir) /\ f[k + 1] = f[k] \o DirsOf(list[k + 1], d)
      BY <1>1, <3>1
    <3> HIDE DEF Dir
    <3> QED
      BY <3>2, <3>3
  <2> HIDE DEF P
  <2> QED
    BY <2>1, <2>2, SetInduction
<1>3. \A k \in 0..n : f[k] \in Seq(Dir)
  BY <1>0, <1>2
<1>4. \A k \in Nat : k \in R
  <2>1. 0 \in R
    <3>1. n - 0 = n /\ n \in 0..n
      BY <1>0
    <3>2. Leads(f[n], f[n])
      BY <1>3, <3>1 DEF Leads
    <3> QED
      BY <3>1, <3>2
  <2>2. ASSUME NEW k \in Nat, k \in R PROVE k + 1 \in R
    <3> SUFFICES ASSUME k + 1 <= n PROVE Leads(f[n - (k + 1)], f[n])
      OBVIOUS
    <3>1. n - k \in 1..n /\ (n - k) - 1 = n - (k + 1) /\ n - (k + 1) \in 0..n /\ n - k \in 0..n /\ n \in 0..n
      BY <1>0
    <3>2. PICK s \in Seq(Dir), t \in Seq(Dir), r \in Seq(Dir) :
              s = f[n - (k + 1)] /\ t = f[n - k] /\ r = f[n]
      BY <1>3, <3>1
    <3>3. DirsOf(list[n - k], d) \in Seq(Dir) /\ t = s \o DirsOf(list[n - k], d)
      BY <1>1, <3>1, <3>2
    <3>4. Leads(s, t)
      BY <3>3, LeadsCat
    <3>5. Leads(t, r)
      BY <2>2, <3>1, <3>2
    <3> QED
      BY <3>2, <3>4, <3>5, LeadsTrans
  <2> HIDE DEF R
  <2> QED
    BY <2>1, <2>2, SetInduction
<1>5. ASSUME NEW k \in 0..n PROVE Leads(f[k], f[n])
  <2>1. n - k \in Nat /\ n - k <= n /\ n - (n - k) = k
    BY <1>0
  <2> QED
    BY <1>4, <2>1
<1> QED
  BY <1>3, <1>5

\* Paths that stand for no directory change nothing.
LEMMA DirsSkipped ==
    ASSUME NEW list \in Seq(STRING), NEW d \in BOOLEAN, NEW f, DirSteps(f, list, d),
           NEW i \in 0..Len(list), NEW j \in 0..Len(list), i <= j,
           \A k \in (i + 1)..j : DirsOf(list[k], d) = <<>>
    PROVE  f[j] = f[i]
<1> DEFINE P == {m \in Nat : i + m <= j => f[i + m] = f[i]}
<1>1. \A m \in Nat : m \in P
  <2>1. 0 \in P
    OBVIOUS
  <2>2. ASSUME NEW m \in Nat, m \in P PROVE m + 1 \in P
    <3> SUFFICES ASSUME i + (m + 1) <= j PROVE f[i + (m + 1)] = f[i]
      OBVIOUS
    <3>1. i + (m + 1) \in (i + 1)..j /\ i + (m + 1) \in 1..Len(list) /\ (i + (m + 1)) - 1 = i + m
          /\ i + m <= j /\ i + m \in 0..Len(list)
      OBVIOUS
    <3>2. f[i + (m + 1)] = f[i + m] \o <<>>
      BY <3>1 DEF DirSteps
    <3>3. f[i + m] = f[i]
      BY <2>2, <3>1
    <3>4. f[i + m] \in Seq(Dir)
      BY <3>1, DirsGrow
    <3> QED
      BY <3>2, <3>3, <3>4
  <2> HIDE DEF P
  <2> QED
    BY <2>1, <2>2, SetInduction
<1>2. j - i \in Nat /\ i + (j - i) = j
  OBVIOUS
<1> QED
  BY <1>1, <1>2
----------------------------------------------------------------------------
(* What the scanner passes.                                                *)

PassedAt(list, d, base, idx) ==
    IF base THEN <<>>
    ELSE IF list # <<>> THEN DirsUpTo(list, d)[idx - 1]
    ELSE IF idx = 1 THEN <<"base">> ELSE Directories(list, d)

NextAt(list, d, base, idx) ==
    IF base THEN [dir |-> "base", abs |-> TRUE, base |-> FALSE, idx |-> idx]
    ELSE IF list = <<>>
    THEN IF idx = 1 /\ d THEN [dir |-> "default", abs |-> TRUE, base |-> FALSE, idx |-> 2] ELSE NoDir
    ELSE LET rest == {i \in idx..Len(list) : list[i] # "@" \/ d} IN
         IF rest = {} THEN NoDir
         ELSE LET i == Min(rest) IN
              [dir |-> IF list[i] = "@" THEN "default" ELSE list[i],
               abs |-> list[i] = "@", base |-> FALSE, idx |-> i + 1]

\* Where FindResFile looks in one directory of the scanner.
Tries(n) == IF n.abs THEN <<n.dir>> ELSE <<n.dir, Beside(n.dir)>>

Position(list, base, idx) ==
    /\ base \in BOOLEAN /\ idx \in 1..(Len(list) + 2)
    /\ list # <<>> => idx <= Len(list) + 1
    /\ base => idx = 1

LEMMA DirsAre ==
    /\ "base" \in Dir /\ "default" \in Dir
    /\ \A p \in STRING : p \in Dir /\ Beside(p) \in Dir
BY DEF Dir

LEMMA Pair ==
    ASSUME NEW T, NEW a \in T, NEW b \in T
    PROVE  /\ <<a>> \o <<b>> = <<a, b>> /\ <<a>> \o <<>> = <<a>> /\ <<>> \o <<a>> = <<a>>
<1>1. <<a>> \in Seq(T) /\ <<b>> \in Seq(T) /\ <<>> \in Seq(T) /\ <<a, b>> \in Seq(T)
  OBVIOUS
<1>2. <<a>> \o <<b>> = <<a, b>>
  <2> DEFINE c == <<a>> \o <<b>>  r == <<a, b>>
  <2>1. c \in Seq(T) /\ Len(c) = 2 /\ c[1] = a /\ c[2] = b
    BY <1>1
  <2>2. r \in Seq(T) /\ Len(r) = 2 /\ r[1] = a /\ r[2] = b
    BY <1>1
  <2> HIDE DEF c, r
  <2>3. \A j \in 1..2 : c[j] = r[j]
    <3>1. \A j \in 1..2 : j = 1 \/ j = 2
      OBVIOUS
    <3> QED
      BY <2>1, <2>2, <3>1
  <2>4. c = r
    BY <2>1, <2>2, <2>3
  <2> QED
    BY <2>4 DEF c, r
<1>3. <<a>> \o <<>> = <<a>> /\ <<>> \o <<a>> = <<a>>
  BY <1>1
<1> QED
  BY <1>2, <1>3

LEMMA DirectoriesType ==
    ASSUME NEW list \in Seq(STRING), NEW d \in BOOLEAN
    PROVE  /\ Directories(list, d) \in Seq(Dir)
           /\ list = <<>> => Directories(list, d) = IF d THEN <<"base", "default">> ELSE <<"base">>
           /\ list # <<>> => Directories(list, d) = DirsUpTo(list, d)[Len(list)]
<1>1. CASE list = <<>>
  <2>1. Directories(list, d) = <<"base">> \o DirsOf("@", d)
    BY <1>1 DEF Directories
  <2>2. DirsOf("@", d) = IF d THEN <<"default">> ELSE <<>>
    BY DEF DirsOf
  <2>3. <<"base">> \o <<"default">> = <<"base", "default">> /\ <<"base">> \o <<>> = <<"base">>
    BY DirsAre, Pair
  <2>4. <<"base", "default">> \in Seq(Dir) /\ <<"base">> \in Seq(Dir)
    BY DEF Dir
  <2> QED
    BY <1>1, <2>1, <2>2, <2>3, <2>4
<1>2. CASE list # <<>>
  <2>1. Len(list) \in 0..Len(list)
    OBVIOUS
  <2> QED
    BY <1>2, <2>1, DirsUpToIs, DirsGrow DEF Directories
<1> QED
  BY <1>1, <1>2

\* The next directories follow those that are passed, and are passed next.
Follows(n, list, d, base, idx) ==
    LET P == PassedAt(list, d, base, idx)
        D == Directories(list, d)
    IN  IF n = NoDir THEN P = D
        ELSE /\ n.base = FALSE /\ n.abs \in BOOLEAN /\ n.dir \in Dir
             /\ n.abs \/ Beside(n.dir) \in Dir
             /\ Position(list, FALSE, n.idx)
             /\ PassedAt(list, d, FALSE, n.idx) = P \o Tries(n)
             /\ Leads(P \o Tries(n), D)

LEMMA FirstFollows ==
    ASSUME NEW list \in Seq(STRING), NEW d \in BOOLEAN
    PROVE  Follows(NextAt(list, d, TRUE, 1), list, d, TRUE, 1)
<1> DEFINE n == [dir |-> "base", abs |-> TRUE, base |-> FALSE, idx |-> 1]
<1>1. NextAt(list, d, TRUE, 1) = n /\ n # NoDir
  BY DEF NextAt, NoDir
<1>2. n.base = FALSE /\ n.abs = TRUE /\ n.dir = "base" /\ n.idx = 1 /\ n.abs \in BOOLEAN
  OBVIOUS
<1>3. "base" \in Dir
  BY DirsAre
<1>4. Position(list, FALSE, 1)
  BY DEF Position
<1>5. PassedAt(list, d, TRUE, 1) = <<>> /\ PassedAt(list, d, FALSE, 1) = <<"base">>
  <2>1. DirsUpTo(list, d)[1 - 1] = <<"base">>
    <3>1. 1 - 1 = 0 /\ DirSteps(DirsUpTo(list, d), list, d)
      BY DirsUpToIs
    <3> HIDE DEF DirSteps
    <3>2. DirsUpTo(list, d)[0] = <<"base">>
      BY <3>1 DEF DirSteps
    <3> QED
      BY <3>1, <3>2
  <2> QED
    BY <2>1 DEF PassedAt
<1>6. Tries(n) = <<"base">> /\ <<>> \o <<"base">> = <<"base">>
  <2>1. Tries(n) = <<"base">>
    BY <1>2 DEF Tries
  <2> QED
    BY <2>1, DirsAre, Pair
<1>7. Leads(<<"base">>, Directories(list, d))
  <2>1. CASE list = <<>>
    <3>1. Leads(<<"base">>, <<"base", "default">>) /\ Leads(<<"base">>, <<"base">>)
      BY DEF Leads
    <3> QED
      BY <2>1, <3>1, DirectoriesType
  <2>2. CASE list # <<>>
    <3>1. 0 \in 0..Len(list) /\ DirSteps(DirsUpTo(list, d), list, d)
      BY DirsUpToIs
    <3> QED
      BY <2>2, <3>1, DirsGrow, DirectoriesType DEF DirSteps
  <2> QED
    BY <2>1, <2>2
<1> HIDE DEF n
<1> QED
  BY <1>1, <1>2, <1>3, <1>4, <1>5, <1>6, <1>7 DEF Follows

LEMMA DefaultFollows ==
    ASSUME NEW d \in BOOLEAN, NEW idx \in 1..2
    PROVE  Follows(NextAt(<<>>, d, FALSE, idx), <<>>, d, FALSE, idx)
<1> DEFINE n == [dir |-> "default", abs |-> TRUE, base |-> FALSE, idx |-> 2]
           D == Directories(<<>>, d)
<1>0. <<>> \in Seq(STRING) /\ Len(<<>>) = 0
  OBVIOUS
<1>d. D = IF d THEN <<"base", "default">> ELSE <<"base">>
  BY <1>0, DirectoriesType
<1>p. PassedAt(<<>>, d, FALSE, idx) = IF idx = 1 THEN <<"base">> ELSE D
  BY DEF PassedAt
<1>1. CASE idx = 1 /\ d
  <2>1. NextAt(<<>>, d, FALSE, idx) = n /\ n # NoDir
    BY <1>1 DEF NextAt, NoDir
  <2>2. n.base = FALSE /\ n.abs = TRUE /\ n.dir = "default" /\ n.idx = 2 /\ n.abs \in BOOLEAN
    OBVIOUS
  <2>3. "default" \in Dir
    BY DirsAre
  <2>4. Position(<<>>, FALSE, 2)
    BY <1>0 DEF Position
  <2>5. PassedAt(<<>>, d, FALSE, 2) = D
    BY DEF PassedAt
  <2>6. Tries(n) = <<"default">> /\ <<"base">> \o <<"default">> = <<"base", "default">>
    <3>1. Tries(n) = <<"default">>
      BY <2>2 DEF Tries
    <3> QED
      BY <3>1, DirsAre, Pair
  <2>7. Leads(<<"base", "default">>, <<"base", "default">>)
    BY DEF Leads
  <2> HIDE DEF n, D
  <2> QED
    BY <1>1, <1>d, <1>p, <2>1, <2>2, <2>3, <2>4, <2>5, <2>6, <2>7 DEF Follows, D
<1>2. CASE ~(idx = 1 /\ d)
  <2>1. NextAt(<<>>, d, FALSE, idx) = NoDir
    BY <1>2 DEF NextAt
  <2>2. PassedAt(<<>>, d, FALSE, idx) = D
    BY <1>2, <1>d, <1>p
  <2> QED
    BY <2>1, <2>2 DEF Follows
<1> QED
  BY <1>1, <1>2

LEMMA PathFollows ==
    ASSUME NEW list \in Seq(STRING), list # <<>>, NEW d \in BOOLEAN, NEW idx \in 1..(Len(list) + 1)
    PROVE  Follows(NextAt(list, d, FALSE, idx), list, d, FALSE, idx)
<1> DEFINE f == DirsUpTo(list, d)
           D == Directories(list, d)
           m == Len(list)
           rest == {i \in idx..m : list[i] # "@" \/ d}
<1>0. m \in Nat /\ idx - 1 \in 0..m /\ m \in 0..m
  OBVIOUS
<1>1. DirSteps(f, list, d)
  BY DirsUpToIs
<1>2. /\ \A k \in 0..m : f[k] \in Seq(Dir)
      /\ \A k \in 0..m : Leads(f[k], D)
  <2>1. D = f[m]
    BY DirectoriesType
  <2> HIDE DEF f, D
  <2> QED
    BY <1>1, <2>1, DirsGrow
<1>3. D = f[m]
  BY DirectoriesType
<1>4. \A k \in idx..m : k \notin rest => DirsOf(list[k], d) = <<>>
  BY DEF DirsOf
<1>5. /\ PassedAt(list, d, FALSE, idx) = f[idx - 1]
      /\ \A k : PassedAt(list, d, FALSE, k) = f[k - 1]
  BY DEF PassedAt
<1>6. CASE rest = {}
  <2>1. NextAt(list, d, FALSE, idx) = NoDir
    BY <1>6 DEF NextAt
  <2>2. \A k \in ((idx - 1) + 1)..m : DirsOf(list[k], d) = <<>>
    BY <1>4, <1>6
  <2>3. f[m] = f[idx - 1]
    <3> HIDE DEF f
    <3> QED
      BY <1>0, <1>1, <2>2, DirsSkipped
  <2> QED
    BY <1>3, <1>5, <2>1, <2>3 DEF Follows
<1>7. CASE rest # {}
  <2> DEFINE i == Min(rest)
             n == [dir |-> IF list[i] = "@" THEN "default" ELSE list[i],
                   abs |-> list[i] = "@", base |-> FALSE, idx |-> i + 1]
  <2>1. i \in rest /\ \A k \in rest : i <= k
    <3>1. rest \in SUBSET Nat
      OBVIOUS
    <3> HIDE DEF rest
    <3> QED
      BY <1>7, <3>1, LeastExists
  <2>2. NextAt(list, d, FALSE, idx) = n
    BY <1>7 DEF NextAt
  <2> HIDE DEF i
  <2>3. i \in idx..m /\ i \in 1..m /\ i - 1 \in 0..m /\ i \in 0..m /\ idx - 1 <= i - 1
        /\ list[i] \in STRING /\ (list[i] # "@" \/ d)
    BY <2>1
  <2>4. f[i - 1] = f[idx - 1]
    <3>1. \A k \in ((idx - 1) + 1)..(i - 1) : DirsOf(list[k], d) = <<>>
      <4> SUFFICES ASSUME NEW k \in ((idx - 1) + 1)..(i - 1) PROVE DirsOf(list[k], d) = <<>>
        OBVIOUS
      <4>1. k \in idx..m /\ ~(i <= k)
        BY <2>3
      <4>2. k \notin rest
        BY <2>1, <4>1
      <4> QED
        BY <1>4, <4>1, <4>2
    <3> HIDE DEF f
    <3> QED
      BY <1>0, <1>1, <2>3, <3>1, DirsSkipped
  <2>5. n # NoDir
    <3>1. n.idx = i + 1 /\ i + 1 # 0 /\ NoDir.idx = 0
      BY <2>3 DEF NoDir
    <3> QED
      BY <3>1
  <2>6. n.base = FALSE /\ n.abs \in BOOLEAN /\ n.idx = i + 1
        /\ n.dir = (IF list[i] = "@" THEN "default" ELSE list[i]) /\ n.abs = (list[i] = "@")
    OBVIOUS
  <2> HIDE DEF n
  <2>7. n.dir \in Dir /\ (n.abs \/ Beside(n.dir) \in Dir)
    BY <2>3, <2>6, DirsAre
  <2>8. Position(list, FALSE, n.idx)
    BY <2>3, <2>6 DEF Position
  <2>9. Tries(n) = DirsOf(list[i], d)
    BY <2>3, <2>6 DEF Tries, DirsOf
  <2>10. f[i] = f[i - 1] \o DirsOf(list[i], d)
    BY <1>1, <2>3 DEF DirSteps
  <2>11. PassedAt(list, d, FALSE, n.idx) = f[i]
    <3>1. (i + 1) - 1 = i
      BY <2>3
    <3> QED
      BY <1>5, <2>6, <3>1
  <2>12. Leads(f[i], D)
    BY <1>2, <2>3
  <2> HIDE DEF f, D, rest
  <2> QED
    BY <1>5, <2>2, <2>4, <2>5, <2>6, <2>7, <2>8, <2>9, <2>10, <2>11, <2>12 DEF Follows, D
<1> QED
  BY <1>6, <1>7

LEMMA NextFollows ==
    ASSUME NEW list \in Seq(STRING), NEW d \in BOOLEAN, NEW base, NEW idx, Position(list, base, idx)
    PROVE  Follows(NextAt(list, d, base, idx), list, d, base, idx)
<1>1. CASE base
  <2>1. base = TRUE /\ idx = 1
    BY <1>1 DEF Position
  <2> QED
    BY <2>1, FirstFollows
<1>2. CASE ~base /\ list = <<>>
  <2>1. base = FALSE /\ idx \in 1..2
    BY <1>2 DEF Position
  <2> QED
    BY <1>2, <2>1, DefaultFollows
<1>3. CASE ~base /\ list # <<>>
  <2>1. base = FALSE /\ idx \in 1..(Len(list) + 1)
    BY <1>3 DEF Position
  <2> QED
    BY <1>3, <2>1, PathFollows
<1> QED
  BY <1>1, <1>2, <1>3

LEMMA PassedType ==
    ASSUME NEW list \in Seq(STRING), NEW d \in BOOLEAN, NEW base, NEW idx, Position(list, base, idx)
    PROVE  PassedAt(list, d, base, idx) \in Seq(Dir)
<1>1. base \in BOOLEAN /\ idx \in Nat
  BY DEF Position
<1>2. Directories(list, d) \in Seq(Dir) /\ <<"base">> \in Seq(Dir) /\ <<>> \in Seq(Dir)
  BY DirectoriesType DEF Dir
<1>3. list # <<>> /\ ~base => DirsUpTo(list, d)[idx - 1] \in Seq(Dir)
  <2> SUFFICES ASSUME list # <<>>, ~base PROVE DirsUpTo(list, d)[idx - 1] \in Seq(Dir)
    OBVIOUS
  <2>1. idx - 1 \in 0..Len(list)
    BY DEF Position
  <2> QED
    BY <2>1, DirsUpToIs, DirsGrow
<1> QED
  BY <1>1, <1>2, <1>3 DEF PassedAt----------------------------------------------------------------------------
(* Searches.                                                               *)

LEMMA LongerType ==
    ASSUME NEW T
    PROVE  /\ \A s \in Seq(T), t \in Seq(T) : s \o t \in Seq(T)
           /\ \A s \in Seq(T), x \in T : Append(s, x) \in Seq(T)
OBVIOUS

LEMMA AcceptedType ==
    ASSUME NEW toks \in Seq(STRING)
    PROVE  Accepted(toks) \in Seq(STRING)
<1> DEFINE twice == {i \in DOMAIN toks : toks[i] \in {"&", "@"}
                                         /\ \E j \in 1..(i - 1) : toks[j] = toks[i]}
<1>1. Accepted(toks) = IF twice = {} THEN toks ELSE SubSeq(toks, 1, Min(twice) - 1)
  BY DEF Accepted
<1>2. twice # {} => Min(twice) \in DOMAIN toks
  <2>1. twice \in SUBSET Nat
    OBVIOUS
  <2>2. twice \subseteq DOMAIN toks
    OBVIOUS
  <2> HIDE DEF twice
  <2> QED
    BY <2>1, <2>2, LeastExists
<1> HIDE DEF twice
<1>3. CASE twice # {}
  <2>1. \A m \in DOMAIN toks : SubSeq(toks, 1, m - 1) \in Seq(STRING)
    OBVIOUS
  <2> QED
    BY <1>1, <1>2, <1>3, <2>1
<1> QED
  BY <1>1, <1>3

LEMMA NewPathsType ==
    ASSUME NEW old \in Seq(STRING), NEW toks \in Seq(STRING)
    PROVE  NewPaths(old, toks) \in Seq(STRING)
<1> DEFINE acc == Accepted(toks)
           n == Len(acc)
           X == Seq(STRING)
           after(s, t) == IF t = "&" THEN s \o old ELSE Append(s, t)
           g == [p \in Nat \X X |-> IF p[1] + 1 \in 1..n THEN after(p[2], acc[p[1] + 1]) ELSE p[2]]
           Q(f) == f = [k \in 0..n |-> IF k = 0 THEN <<>> ELSE after(f[k - 1], acc[k])]
<1>0. n \in Nat /\ <<>> \in X /\ \A k \in 1..n : acc[k] \in STRING
  BY AcceptedType
<1>a. \A s \in X, t \in STRING : after(s, t) \in X
  <2> SUFFICES ASSUME NEW s \in X, NEW t \in STRING PROVE after(s, t) \in X
    OBVIOUS
  <2>1. s \in Seq(STRING)
    OBVIOUS
  <2>2. s \o old \in Seq(STRING) /\ Append(s, t) \in Seq(STRING)
    BY <2>1, LongerType, Zenon
  <2> QED
    BY <2>2
<1> HIDE DEF after
<1>1. g \in [Nat \X X -> X]
  <2>1. \A k \in 1..n, s \in X : after(s, acc[k]) \in X
    BY <1>0, <1>a
  <2> HIDE DEF X, n
  <2> QED
    BY <2>1
<1>2. PICK h : Starts(h, n, X, <<>>, g)
  <2> HIDE DEF X, g, n
  <2> QED
    BY <1>0, <1>1, StartsExist
<1>3. h \in [0..n -> X] /\ h[0] = <<>>
  BY <1>2 DEF Starts
<1>4. \A k \in 1..n : h[k] = after(h[k - 1], acc[k])
  <2> SUFFICES ASSUME NEW k \in 1..n PROVE h[k] = after(h[k - 1], acc[k])
    OBVIOUS
  <2>1. PICK j \in Nat : j < n /\ k = j + 1 /\ j = k - 1 /\ j \in 0..n
    <3>1. k - 1 \in Nat /\ k - 1 < n /\ k = (k - 1) + 1 /\ k - 1 \in 0..n
      BY <1>0
    <3> QED
      BY <3>1
  <2>2. h[j + 1] = g[<<j, h[j]>>]
    <3> HIDE DEF g, X, n
    <3> QED
      BY <1>2, <2>1 DEF Starts
  <2>3. h[j] \in X
    BY <1>3, <2>1
  <2>4. \A s \in X : g[<<j, s>>] = after(s, acc[j + 1])
    <3> HIDE DEF X, acc
    <3> QED
      BY <2>1
  <2>5. h[j + 1] = after(h[j], acc[j + 1])
    <3> HIDE DEF g, X
    <3> QED
      BY <2>2, <2>3, <2>4
  <2> QED
    BY <2>1, <2>5
<1>5. Q(h)
  <2>1. \A k \in 0..n : h[k] = IF k = 0 THEN <<>> ELSE after(h[k - 1], acc[k])
    BY <1>3, <1>4
  <2> HIDE DEF X, n
  <2> QED
    BY <1>3, <2>1
<1>6. NewPaths(old, toks) = (CHOOSE f : Q(f))[n]
  BY DEF NewPaths, after
<1> DEFINE f == CHOOSE ff : Q(ff)
<1>7. Q(f)
  <2> HIDE DEF Q
  <2> QED
    BY <1>5
<1> HIDE DEF f, n
<1>8. f[0] = <<>> /\ \A k \in 1..n : f[k] = after(f[k - 1], acc[k])
  <2>1. \A k \in 0..n : f[k] = IF k = 0 THEN <<>> ELSE after(f[k - 1], acc[k])
    BY <1>7
  <2>2. 0 \in 0..n /\ \A k \in 1..n : k \in 0..n /\ k # 0
    BY <1>0
  <2> QED
    BY <2>1, <2>2
<1> DEFINE P == {k \in Nat : k <= n => f[k] \in X}
<1>9. \A k \in Nat : k \in P
  <2>1. 0 \in P
    BY <1>0, <1>8
  <2>2. ASSUME NEW k \in Nat, k \in P PROVE k + 1 \in P
    <3> SUFFICES ASSUME k + 1 <= n PROVE f[k + 1] \in X
      OBVIOUS
    <3>1. k + 1 \in 1..n /\ (k + 1) - 1 = k /\ k <= n
      BY <1>0
    <3>2. f[k] \in X /\ acc[k + 1] \in STRING /\ f[k + 1] = after(f[k], acc[k + 1])
      BY <1>0, <1>8, <2>2, <3>1
    <3> HIDE DEF X
    <3> QED
      BY <1>a, <3>2
  <2> HIDE DEF P
  <2> QED
    BY <2>1, <2>2, SetInduction
<1>10. f[n] \in X
  BY <1>0, <1>9
<1> QED
  BY <1>6, <1>10 DEF f

\* The first element of a sequence that is in a set, or nothing.
FirstOf(C, S, nothing) ==
    LET there == {i \in DOMAIN C : C[i] \in S} IN IF there = {} THEN nothing ELSE C[Min(there)]

LEMMA FirstIs ==
    ASSUME NEW T, NEW C \in Seq(T), NEW S, NEW nothing
    PROVE  /\ (\A i \in DOMAIN C : C[i] \notin S) => FirstOf(C, S, nothing) = nothing
           /\ \A q \in DOMAIN C : C[q] \in S /\ (\A i \in 1..(q - 1) : C[i] \notin S)
                                  => FirstOf(C, S, nothing) = C[q]
<1> DEFINE there == {i \in DOMAIN C : C[i] \in S}
<1>1. FirstOf(C, S, nothing) = IF there = {} THEN nothing ELSE C[Min(there)]
  BY DEF FirstOf
<1>2. ASSUME NEW q \in DOMAIN C, C[q] \in S, \A i \in 1..(q - 1) : C[i] \notin S
      PROVE  there # {} /\ Min(there) = q
  <2>1. there \in SUBSET Nat /\ q \in there
    BY <1>2
  <2>2. \A y \in there : q <= y
    <3> SUFFICES ASSUME NEW y \in there, ~(q <= y) PROVE FALSE
      OBVIOUS
    <3>1. y \in 1..(q - 1) /\ C[y] \in S
      OBVIOUS
    <3> QED
      BY <1>2, <3>1
  <2> HIDE DEF there
  <2> QED
    BY <2>1, <2>2, MinIs
<1> QED
  BY <1>1, <1>2

\* The files that a list of directories stands for.
FilesIn(dirs, name, ext) == [i \in DOMAIN dirs |-> <<dirs[i], name, ext>>]

LEMMA CandidatesAre ==
    \A cmd, list :
        /\ cmd.kind = "archive" =>
              Candidates(cmd, list) = FilesIn(Directories(list, FALSE), cmd.name, "rib")
        /\ cmd.kind # "archive" =>
              Candidates(cmd, list) = FilesIn(Directories(list, TRUE), cmd.name, "sl")
                                      \o FilesIn(Directories(list, TRUE), cmd.name, "rrasm")
<1> SUFFICES ASSUME NEW cmd, NEW list
             PROVE  /\ cmd.kind = "archive" =>
                          Candidates(cmd, list) = FilesIn(Directories(list, FALSE), cmd.name, "rib")
                    /\ cmd.kind # "archive" =>
                          Candidates(cmd, list) = FilesIn(Directories(list, TRUE), cmd.name, "sl")
                                      \o FilesIn(Directories(list, TRUE), cmd.name, "rrasm")
  OBVIOUS
<1> QED
  BY DEF Candidates, FilesIn
\* None of the files is in a set.
NotIn(dirs, name, ext, S) == \A i \in DOMAIN dirs : <<dirs[i], name, ext>> \notin S

\* The first of the files that is in a set.
FirstIn(dirs, r, name, ext, S) ==
    /\ r \in DOMAIN dirs /\ <<dirs[r], name, ext>> \in S
    /\ \A i \in 1..(r - 1) : <<dirs[i], name, ext>> \notin S

FileIn(name) == {<<d, name, e>> : d \in Dir, e \in {"sl", "rrasm", "rib"}}

LEMMA FilesInIs ==
    ASSUME NEW dirs \in Seq(Dir), NEW name, NEW ext \in {"sl", "rrasm", "rib"}
    PROVE  /\ FilesIn(dirs, name, ext) \in Seq(FileIn(name))
           /\ Len(FilesIn(dirs, name, ext)) = Len(dirs)
           /\ \A i \in DOMAIN dirs : FilesIn(dirs, name, ext)[i] = <<dirs[i], name, ext>>
<1>1. \A i \in DOMAIN dirs : <<dirs[i], name, ext>> \in FileIn(name)
  <2>1. \A i \in DOMAIN dirs : dirs[i] \in Dir
    OBVIOUS
  <2> HIDE DEF Dir
  <2> QED
    BY <2>1 DEF FileIn
<1>2. DOMAIN dirs = 1..Len(dirs) /\ Len(dirs) \in Nat
  OBVIOUS
<1> HIDE DEF FileIn
<1> QED
  BY <1>1, <1>2 DEF FilesIn

\* What a search finds, from where it stands when it ends.
LEMMA CandidatesFirst ==
    ASSUME NEW cmd, NEW list \in Seq(STRING), NEW S, NEW d, NEW ext,
           d = (cmd.kind # "archive"), ext \in IF d THEN {"sl", "rrasm"} ELSE {"rib"},
           ext = "rrasm" => NotIn(Directories(list, TRUE), cmd.name, "sl", S)
    PROVE  /\ ext # "sl" /\ NotIn(Directories(list, d), cmd.name, ext, S)
                => FirstOf(Candidates(cmd, list), S, NoFile) = NoFile
           /\ \A r : FirstIn(Directories(list, d), r, cmd.name, ext, S)
                => FirstOf(Candidates(cmd, list), S, NoFile)
                     = <<Directories(list, d)[r], cmd.name, ext>>
<1> DEFINE D == Directories(list, d)
           n == cmd.name
           T == FileIn(n)
           C == Candidates(cmd, list)
           F(e) == FilesIn(D, n, e)
<1>0. d \in BOOLEAN /\ D \in Seq(Dir)
  BY DirectoriesType
<1>1. \A e \in {"sl", "rrasm", "rib"} :
         F(e) \in Seq(T) /\ Len(F(e)) = Len(D) /\ \A i \in DOMAIN D : F(e)[i] = <<D[i], n, e>>
  <2> HIDE DEF D, n
  <2> QED
    BY <1>0, FilesInIs
<1>2. C = IF d THEN F("sl") \o F("rrasm") ELSE F("rib")
  BY CandidatesAre
<1>3. /\ d /\ ext = "rrasm" => NotIn(D, n, "sl", S)
      /\ d => ext \in {"sl", "rrasm"}
      /\ ~d => ext = "rib"
  OBVIOUS
<1> HIDE DEF D, n, T, C, F
<1>l. Len(D) \in Nat /\ DOMAIN D = 1..Len(D)
  BY <1>0
<1>4. CASE ~d
  <2>1. C = F(ext) /\ ext = "rib" /\ C \in Seq(T) /\ DOMAIN C = DOMAIN D
        /\ \A i \in DOMAIN D : C[i] = <<D[i], n, ext>>
    <3>1. ext = "rib" /\ C = F(ext)
      BY <1>2, <1>3, <1>4
    <3>2. F(ext) \in Seq(T) /\ Len(F(ext)) = Len(D) /\ \A i \in DOMAIN D : F(ext)[i] = <<D[i], n, ext>>
      BY <1>1, <3>1
    <3>3. C \in Seq(T) /\ Len(C) = Len(D)
      BY <3>1, <3>2
    <3>4. DOMAIN C = DOMAIN D
      BY <1>l, <3>3
    <3> QED
      BY <3>1, <3>2, <3>3, <3>4
  <2>2. NotIn(D, n, ext, S) => FirstOf(C, S, NoFile) = NoFile
    <3>1. NotIn(D, n, ext, S) => \A i \in DOMAIN C : C[i] \notin S
      BY <2>1 DEF NotIn
    <3>2. (\A i \in DOMAIN C : C[i] \notin S) => FirstOf(C, S, NoFile) = NoFile
      BY <2>1, FirstIs
    <3> QED
      BY <3>1, <3>2
  <2>3. ASSUME NEW r, FirstIn(D, r, n, ext, S) PROVE FirstOf(C, S, NoFile) = <<D[r], n, ext>>
    <3>1. r \in DOMAIN C /\ C[r] \in S /\ C[r] = <<D[r], n, ext>>
      BY <2>1, <2>3 DEF FirstIn
    <3>2. \A i \in 1..(r - 1) : C[i] \notin S
      <4>1. \A i \in 1..(r - 1) : i \in DOMAIN D
        BY <1>l, <2>1, <3>1
      <4> QED
        BY <2>1, <2>3, <4>1 DEF FirstIn
    <3> QED
      BY <2>1, <3>1, <3>2, FirstIs
  <2> QED
    BY <2>2, <2>3 DEF C, D, n
<1>5. CASE d
  <2>1. /\ C \in Seq(T) /\ Len(C) = Len(D) + Len(D) /\ DOMAIN C = 1..(Len(D) + Len(D))
        /\ \A i \in 1..Len(D) : C[i] = <<D[i], n, "sl">> /\ C[Len(D) + i] = <<D[i], n, "rrasm">>
    <3>1. PICK A \in Seq(T), B \in Seq(T) : A = F("sl") /\ B = F("rrasm")
      BY <1>1
    <3>2. /\ Len(A) = Len(D) /\ Len(B) = Len(D) /\ C = A \o B
          /\ \A i \in 1..Len(D) : A[i] = <<D[i], n, "sl">> /\ B[i] = <<D[i], n, "rrasm">>
      BY <1>1, <1>2, <1>5, <1>l, <3>1
    <3>3. /\ A \o B \in Seq(T) /\ Len(A \o B) = Len(A) + Len(B) /\ DOMAIN (A \o B) = 1..(Len(A) + Len(B))
          /\ \A i \in 1..Len(A) : (A \o B)[i] = A[i]
          /\ \A i \in 1..Len(B) : (A \o B)[Len(A) + i] = B[i]
      OBVIOUS
    <3> QED
      BY <3>2, <3>3
  <2>2. CASE ext = "rrasm"
    <3>1. \A i \in 1..Len(D) : C[i] \notin S
      BY <1>3, <1>5, <1>l, <2>1, <2>2 DEF NotIn
    <3>2. NotIn(D, n, ext, S) => FirstOf(C, S, NoFile) = NoFile
      <4> SUFFICES ASSUME NotIn(D, n, ext, S) PROVE \A i \in DOMAIN C : C[i] \notin S
        BY <2>1, FirstIs
      <4> TAKE i \in DOMAIN C
      <4>1. CASE i \in 1..Len(D)
        BY <3>1, <4>1
      <4>2. CASE i \notin 1..Len(D)
        <5>1. i - Len(D) \in 1..Len(D) /\ Len(D) + (i - Len(D)) = i
          BY <1>l, <2>1, <4>2
        <5>2. C[i] = <<D[i - Len(D)], n, ext>>
          BY <2>1, <2>2, <5>1
        <5> QED
          BY <1>l, <5>1, <5>2 DEF NotIn
      <4> QED
        BY <4>1, <4>2
    <3>3. ASSUME NEW r, FirstIn(D, r, n, ext, S) PROVE FirstOf(C, S, NoFile) = <<D[r], n, ext>>
      <4> DEFINE q == Len(D) + r
      <4>1. r \in 1..Len(D) /\ <<D[r], n, ext>> \in S
        BY <1>l, <3>3 DEF FirstIn
      <4>2. q \in DOMAIN C /\ C[q] = <<D[r], n, ext>>
        BY <1>l, <2>1, <2>2, <4>1
      <4>3. ASSUME NEW i \in 1..(q - 1) PROVE C[i] \notin S
        <5>1. CASE i \in 1..Len(D)
          BY <3>1, <5>1
        <5>2. CASE i \notin 1..Len(D)
          <6>1. i - Len(D) \in 1..(r - 1) /\ i - Len(D) \in 1..Len(D) /\ Len(D) + (i - Len(D)) = i
            BY <1>l, <4>1, <5>2
          <6>2. C[i] = <<D[i - Len(D)], n, ext>>
            BY <2>1, <2>2, <6>1
          <6> QED
            BY <3>3, <6>1, <6>2 DEF FirstIn
        <5> QED
          BY <5>1, <5>2
      <4> HIDE DEF q
      <4>4. C \in Seq(T) /\ C[q] \in S /\ \A i \in 1..(q - 1) : C[i] \notin S
        BY <2>1, <4>1, <4>2, <4>3
      <4>5. FirstOf(C, S, NoFile) = C[q]
        BY <4>2, <4>4, FirstIs
      <4> QED
        BY <4>2, <4>5
    <3> QED
      BY <3>2, <3>3 DEF C, D, n
  <2>3. CASE ext = "sl"
    <3>1. ASSUME NEW r, FirstIn(D, r, n, ext, S) PROVE FirstOf(C, S, NoFile) = <<D[r], n, ext>>
      <4>1. r \in 1..Len(D) /\ <<D[r], n, ext>> \in S
        BY <1>l, <3>1 DEF FirstIn
      <4>2. r \in DOMAIN C /\ C[r] = <<D[r], n, ext>>
        BY <1>l, <2>1, <2>3, <4>1
      <4>3. \A i \in 1..(r - 1) : C[i] \notin S
        <5>1. \A i \in 1..(r - 1) : i \in 1..Len(D)
          BY <1>l, <4>1
        <5> QED
          BY <2>1, <2>3, <3>1, <5>1 DEF FirstIn
      <4>4. C \in Seq(T) /\ C[r] \in S
        BY <2>1, <4>1, <4>2
      <4>5. FirstOf(C, S, NoFile) = C[r]
        BY <4>2, <4>3, <4>4, FirstIs
      <4> QED
        BY <4>2, <4>5
    <3> QED
      BY <2>3, <3>1 DEF C, D, n
  <2> QED
    BY <1>3, <1>5, <2>2, <2>3
<1> QED
  BY <1>0, <1>4, <1>5

\* What is found among the next directories is found among all of them.
LEMMA FoundAmong ==
    ASSUME NEW T, NEW P \in Seq(T), NEW N \in Seq(T), NEW D \in Seq(T), Leads(P \o N, D),
           NEW name, NEW ext, NEW S, NotIn(P, name, ext, S), NEW q, FirstIn(N, q, name, ext, S)
    PROVE  \E r : FirstIn(D, r, name, ext, S) /\ D[r] = N[q]
<1> DEFINE r == Len(P) + q
<1>1. q \in 1..Len(N) /\ Len(P) \in Nat /\ Len(N) \in Nat /\ Len(D) \in Nat /\ q \in Nat
  BY DEF FirstIn
<1>2. /\ Len(P) + Len(N) <= Len(D)
      /\ \A j \in 1..Len(P) : D[j] = P[j]
      /\ \A j \in 1..Len(N) : D[Len(P) + j] = N[j]
  <2>1. PICK c \in Seq(T) : c = P \o N /\ IsCat(c, P, N)
    BY CatIs
  <2>2. /\ Len(c) = Len(P) + Len(N)
        /\ \A j \in 1..Len(P) : c[j] = P[j]
        /\ \A j \in 1..Len(N) : c[Len(P) + j] = N[j]
    BY <2>1 DEF IsCat
  <2>3. Len(c) <= Len(D) /\ \A j \in 1..Len(c) : c[j] = D[j]
    BY <2>1 DEF Leads
  <2>4. \A j \in 1..Len(P) : j \in 1..Len(c)
    BY <1>1, <2>2
  <2>5. \A j \in 1..Len(N) : Len(P) + j \in 1..Len(c)
    BY <1>1, <2>2
  <2> QED
    BY <2>2, <2>3, <2>4, <2>5
<1>3. r \in DOMAIN D /\ D[r] = N[q] /\ <<N[q], name, ext>> \in S
  <2>1. r \in 1..Len(D)
    BY <1>1, <1>2
  <2> QED
    BY <1>1, <1>2, <2>1 DEF FirstIn
<1>4. ASSUME NEW i \in 1..(r - 1) PROVE <<D[i], name, ext>> \notin S
  <2>1. CASE i \in 1..Len(P)
    <3>1. D[i] = P[i] /\ i \in DOMAIN P
      BY <1>2, <2>1
    <3> QED
      BY <3>1 DEF NotIn
  <2>2. CASE i \notin 1..Len(P)
    <3>1. i - Len(P) \in 1..(q - 1) /\ i - Len(P) \in 1..Len(N) /\ Len(P) + (i - Len(P)) = i
      BY <1>1, <2>2
    <3>2. D[i] = N[i - Len(P)]
      BY <1>2, <3>1
    <3> QED
      BY <3>1, <3>2 DEF FirstIn
  <2> QED
    BY <2>1, <2>2
<1> HIDE DEF r
<1> QED
  BY <1>3, <1>4 DEF FirstIn
----------------------------------------------------------------------------
(* Where a search stands.                                                  *)

\* The state of a search in terms of its list of paths and its position.
Stands(list, d, base, idx) ==
    /\ list \in Seq(STRING) /\ d \in BOOLEAN /\ d = (scmd.kind # "archive")
    /\ Position(list, base, idx)
    /\ Passed = PassedAt(list, d, base, idx)
    /\ NextDir = NextAt(list, d, base, idx)

LEMMA KindsOfPath ==
    /\ HasDefault \in BOOLEAN /\ HasDefault = (scmd.kind # "archive")
    /\ HasDefault' \in BOOLEAN /\ HasDefault' = (scmd'.kind # "archive")
    /\ \A k : PathKind(k) \in {"shader", "archive"}
BY DEF HasDefault, PathKind

LEMMA SearchStands ==
    ASSUME ScanInv, ~Idle
    PROVE  Stands(PathList, HasDefault, sscan.base, sscan.idx)
<1>1. PathList \in Seq(STRING)
  BY KindsOfPath DEF PathList, ScanInv
<1>2. Position(PathList, sscan.base, sscan.idx)
  <2> HIDE DEF PathList
  <2> QED
    BY DEF ScanInv, Position
<1>3. Passed = PassedAt(PathList, HasDefault, sscan.base, sscan.idx)
  BY DEF Passed, PassedAt
<1>4. NextDir = NextAt(PathList, HasDefault, sscan.base, sscan.idx)
  BY DEF NextDir, NextAt
<1> QED
  BY <1>1, <1>2, <1>3, <1>4, KindsOfPath DEF Stands

LEMMA SearchNext ==
    ASSUME ScanInv, ~Idle
    PROVE  /\ Follows(NextDir, PathList, HasDefault, sscan.base, sscan.idx)
           /\ Passed \in Seq(Dir) /\ Directories(PathList, HasDefault) \in Seq(Dir)
<1>1. PICK list, d, base, idx : /\ list = PathList /\ d = HasDefault /\ base = sscan.base /\ idx = sscan.idx
  OBVIOUS
<1>2. Stands(list, d, base, idx)
  BY <1>1, SearchStands
<1>3. Follows(NextAt(list, d, base, idx), list, d, base, idx)
  BY <1>2, NextFollows DEF Stands
<1>4. PassedAt(list, d, base, idx) \in Seq(Dir) /\ Directories(list, d) \in Seq(Dir)
  BY <1>2, PassedType, DirectoriesType DEF Stands
<1> QED
  BY <1>1, <1>2, <1>3, <1>4 DEF Stands

\* A directory has the file where FindResFile tries it first, or not at all.
LEMMA HitIs ==
    ASSUME NEW n, n.abs \in BOOLEAN, sscan.ext \in {"sl", "rrasm", "rib"}
    PROVE  /\ Hit(n) = NoFile => NotIn(Tries(n), scmd.name, sscan.ext, sfiles)
           /\ Hit(n) # NoFile =>
                 \E q : /\ FirstIn(Tries(n), q, scmd.name, sscan.ext, sfiles)
                        /\ Hit(n) = <<Tries(n)[q], scmd.name, sscan.ext>>
<1> DEFINE a == n.dir
           b == Beside(n.dir)
           N == Tries(n)
<1>1. N = IF n.abs THEN <<a>> ELSE <<a, b>>
  BY DEF Tries
<1>2. Hit(n) = IF File(a) \in sfiles THEN File(a)
               ELSE IF ~n.abs /\ File(b) \in sfiles THEN File(b) ELSE NoFile
  BY DEF Hit
<1>3. \A x : File(x) = <<x, scmd.name, sscan.ext>> /\ File(x) # NoFile
  BY DEF File, NoFile
<1> HIDE DEF a, b, N
<1>4. /\ 1 \in DOMAIN N /\ N[1] = a /\ DOMAIN N \subseteq 1..2
      /\ n.abs => DOMAIN N = {1}
      /\ ~n.abs => 2 \in DOMAIN N /\ N[2] = b
  <2>1. CASE n.abs
    BY <1>1, <2>1
  <2>2. CASE ~n.abs
    BY <1>1, <2>2
  <2> QED
    BY <2>1, <2>2
<1>5. CASE File(a) \in sfiles
  <2>1. FirstIn(N, 1, scmd.name, sscan.ext, sfiles) /\ Hit(n) = <<N[1], scmd.name, sscan.ext>>
    <3>1. \A i \in 1..(1 - 1) : FALSE
      OBVIOUS
    <3> QED
      BY <1>2, <1>3, <1>4, <1>5, <3>1 DEF FirstIn
  <2> QED
    BY <1>2, <1>3, <1>5, <2>1 DEF N
<1>6. CASE File(a) \notin sfiles /\ ~n.abs /\ File(b) \in sfiles
  <2>1. FirstIn(N, 2, scmd.name, sscan.ext, sfiles) /\ Hit(n) = <<N[2], scmd.name, sscan.ext>>
    <3>1. \A i \in 1..(2 - 1) : i = 1
      OBVIOUS
    <3> QED
      BY <1>2, <1>3, <1>4, <1>6, <3>1 DEF FirstIn
  <2> QED
    BY <1>2, <1>3, <1>6, <2>1 DEF N
<1>7. CASE File(a) \notin sfiles /\ (n.abs \/ File(b) \notin sfiles)
  <2>1. NotIn(N, scmd.name, sscan.ext, sfiles)
    <3>1. \A i \in DOMAIN N : i = 1 \/ (i = 2 /\ ~n.abs)
      BY <1>4
    <3> QED
      BY <1>3, <1>4, <1>7, <3>1 DEF NotIn
  <2> QED
    BY <1>2, <1>7, <2>1 DEF N
<1> QED
  BY <1>5, <1>6, <1>7
----------------------------------------------------------------------------
(* Every step keeps ScanInv.                                               *)

\* What the last search found is the first of its candidates.
LEMMA FoundFirst ==
    FindsFirst <=> (slast.cmd # NoCmd =>
                      slast.found = FirstOf(Candidates(slast.cmd, slast.list), sfiles, NoFile))
BY Zenon DEF FindsFirst, FirstOf

LEMMA FoundFirstNext ==
    FindsFirst' <=> (slast'.cmd # NoCmd =>
                       slast'.found = FirstOf(Candidates(slast'.cmd, slast'.list), sfiles', NoFile))
BY Zenon DEF FindsFirst, FirstOf

LEMMA FoundKept == FindsFirst /\ UNCHANGED <<slast, sfiles>> => FindsFirst'
BY FoundFirst, FoundFirstNext

\* No search is under way after the step, and it finds what the last one found.
LEMMA IdleKeeps ==
    ASSUME ScanInv, spaths' \in [{"shader", "archive"} -> Seq(STRING)], scmd' = NoCmd, FindsFirst'
    PROVE  ScanInv'
<1>1. Idle'
  BY DEF Idle
<1> HIDE DEF Idle
<1> QED
  BY <1>1 DEF ScanInv

\* A search that is under way after the step stands where it is said to.
LEMMA ScanKeeps ==
    ASSUME ScanInv, spaths' = spaths, slast' = slast, sfiles' = sfiles,
           NEW d, d = (scmd'.kind # "archive"), NEW list, list = spaths[PathKind(scmd'.kind)],
           scmd'.kind \in DOMAIN Extension, sscan'.ext \in IF d THEN {"sl", "rrasm"} ELSE {"rib"},
           sscan' = [ext |-> sscan'.ext, idx |-> sscan'.idx, base |-> sscan'.base],
           Position(list, sscan'.base, sscan'.idx),
           NotIn(PassedAt(list, d, sscan'.base, sscan'.idx), scmd'.name, sscan'.ext, sfiles),
           sscan'.ext = "rrasm" => NotIn(Directories(list, TRUE), scmd'.name, "sl", sfiles)
    PROVE  ScanInv'
<1>1. HasDefault' = d /\ PathList' = list
  BY KindsOfPath DEF PathList
<1> DEFINE base == sscan'.base  idx == sscan'.idx  ext == sscan'.ext
<1>2. sscan'.ext = ext /\ sscan'.idx = idx /\ sscan'.base = base
  OBVIOUS
<1>3. Passed' = PassedAt(list, d, base, idx)
  BY <1>1, <1>2 DEF Passed, PassedAt
<1>4. Misses(Passed, scmd.name, sscan.ext)'
  BY <1>2, <1>3 DEF Misses, NotIn
<1>5. ext = "rrasm" => Misses(Directories(PathList, TRUE), scmd.name, "sl")'
  BY <1>1 DEF Misses, NotIn
<1>6. FindsFirst'
  BY FoundKept DEF ScanInv
<1>7. base \in BOOLEAN /\ idx \in 1..(Len(list) + 2) /\ (list # <<>> => idx <= Len(list) + 1)
      /\ (base => idx = 1)
  BY DEF Position
<1>8. spaths' \in [{"shader", "archive"} -> Seq(STRING)]
  BY DEF ScanInv
<1>9. sscan' \in [ext : IF d THEN {"sl", "rrasm"} ELSE {"rib"}, idx : 1..(Len(list) + 2), base : BOOLEAN]
  <2> HIDE DEF base, idx, ext
  <2>1. sscan' = [ext |-> ext, idx |-> idx, base |-> base]
    BY DEF base, idx, ext
  <2>2. ext \in IF d THEN {"sl", "rrasm"} ELSE {"rib"}
    BY DEF ext
  <2> QED
    BY <1>7, <2>1, <2>2
<1> QED
  BY <1>1, <1>2, <1>4, <1>5, <1>6, <1>7, <1>8, <1>9 DEF ScanInv

LEMMA OptionScans ==
    ASSUME ScanInv, NEW k \in DOMAIN spaths, NEW toks \in PathLists, OptionSearchPath(k, toks)
    PROVE  ScanInv'
<1>1. toks \in Seq(STRING) /\ spaths \in [{"shader", "archive"} -> Seq(STRING)] /\ scmd = NoCmd
  BY ShadersAssumption DEF ScanInv, OptionSearchPath, Idle
<1>2. NewPaths(spaths[k], toks) \in Seq(STRING)
  BY <1>1, NewPathsType
<1>3. spaths' = [spaths EXCEPT ![k] = NewPaths(spaths[k], toks)] /\ UNCHANGED <<scmd, slast, sfiles>>
  BY DEF OptionSearchPath
<1>4. spaths' \in [{"shader", "archive"} -> Seq(STRING)]
  BY <1>1, <1>2, <1>3
<1>5. FindsFirst'
  BY <1>3, FoundKept DEF ScanInv
<1> QED
  BY <1>1, <1>3, <1>4, <1>5, IdleKeeps

LEMMA ExtensionIs ==
    \A k \in DOMAIN Extension : Extension[k] = IF k = "archive" THEN "rib" ELSE "sl"
<1>1. DOMAIN Extension = {"surface", "displace", "light", "archive"}
  BY DEF Extension
<1>2. /\ Extension["surface"] = "sl" /\ Extension["displace"] = "sl"
      /\ Extension["light"] = "sl" /\ Extension["archive"] = "rib"
  BY DEF Extension
<1> QED
  BY <1>1, <1>2

LEMMA CommandScans ==
    ASSUME ScanInv, NEW kind \in DOMAIN Extension, NEW name, NEW id, Command(kind, name, id)
    PROVE  ScanInv'
<1> DEFINE cmd == [kind |-> kind, name |-> name, id |-> id]
<1>1. UNCHANGED <<spaths, slast, sfiles>> /\ scmd = NoCmd
  BY DEF Command, Idle
<1>2. \/ scmd' = scmd
      \/ scmd' = cmd /\ sscan' = [ext |-> Extension[kind], idx |-> 1, base |-> TRUE]
  BY DEF Command
<1>3. CASE scmd' = scmd
  BY <1>1, <1>3, FoundKept, IdleKeeps DEF ScanInv
<1>4. CASE scmd' = cmd /\ sscan' = [ext |-> Extension[kind], idx |-> 1, base |-> TRUE]
  <2>1. PICK list, d, ext : /\ list = spaths[PathKind(kind)] /\ d = (kind # "archive")
                            /\ ext = Extension[kind]
    OBVIOUS
  <2>2. ext \in IF d THEN {"sl"} ELSE {"rib"}
    BY <2>1, ExtensionIs
  <2>3. list \in Seq(STRING)
    BY <2>1, KindsOfPath DEF ScanInv
  <2>4. Position(list, TRUE, 1)
    BY <2>3 DEF Position
  <2>5. NotIn(PassedAt(list, d, TRUE, 1), name, ext, sfiles)
    BY DEF NotIn, PassedAt
  <2>6. scmd'.kind = kind /\ scmd'.name = name /\ sscan'.ext = ext /\ sscan'.idx = 1 /\ sscan'.base = TRUE
    BY <1>4, <2>1
  <2> HIDE DEF cmd
  <2>7. ext # "rrasm" /\ ext \in IF d THEN {"sl", "rrasm"} ELSE {"rib"}
    BY <2>2
  <2> QED
    <3>1. d = (scmd'.kind # "archive") /\ list = spaths[PathKind(scmd'.kind)]
      BY <2>1, <2>6
    <3>2. scmd'.kind \in DOMAIN Extension /\ sscan'.ext \in IF d THEN {"sl", "rrasm"} ELSE {"rib"}
      BY <2>6, <2>7
    <3>3. Position(list, sscan'.base, sscan'.idx)
      BY <2>4, <2>6
    <3>4. NotIn(PassedAt(list, d, sscan'.base, sscan'.idx), scmd'.name, sscan'.ext, sfiles)
      BY <2>5, <2>6
    <3>5. sscan'.ext # "rrasm"
      BY <2>6, <2>7
    <3>6. spaths' = spaths /\ slast' = slast /\ sfiles' = sfiles
      BY <1>1
    <3>7. sscan' = [ext |-> sscan'.ext, idx |-> sscan'.idx, base |-> sscan'.base]
      BY <1>4
    <3> QED
      BY <3>1, <3>2, <3>3, <3>4, <3>5, <3>6, <3>7, ScanKeeps
<1> QED
  BY <1>2, <1>3, <1>4
LEMMA NotInCat ==
    ASSUME NEW T, NEW P \in Seq(T), NEW N \in Seq(T), NEW name, NEW ext, NEW S,
           NotIn(P, name, ext, S), NotIn(N, name, ext, S)
    PROVE  NotIn(P \o N, name, ext, S)
<1>1. PICK c \in Seq(T) : c = P \o N /\ IsCat(c, P, N)
  BY CatIs
<1>2. Len(P) \in Nat /\ Len(N) \in Nat /\ DOMAIN c = 1..(Len(P) + Len(N))
  BY <1>1 DEF IsCat
<1>3. ASSUME NEW i \in DOMAIN c PROVE <<c[i], name, ext>> \notin S
  <2>1. CASE i \in 1..Len(P)
    <3>1. c[i] = P[i] /\ i \in DOMAIN P
      BY <1>1, <2>1 DEF IsCat
    <3> QED
      BY <3>1 DEF NotIn
  <2>2. CASE i \notin 1..Len(P)
    <3>1. i - Len(P) \in 1..Len(N) /\ Len(P) + (i - Len(P)) = i
      BY <1>2, <2>2
    <3>2. c[i] = N[i - Len(P)] /\ i - Len(P) \in DOMAIN N
      BY <1>1, <3>1 DEF IsCat
    <3> QED
      BY <3>2 DEF NotIn
  <2> QED
    BY <2>1, <2>2
<1> QED
  BY <1>1, <1>3 DEF NotIn

\* What a search that is under way knows, in terms of its list and position.
Knows(list, d, base, idx, ext, P, D) ==
    /\ list \in Seq(STRING) /\ d \in BOOLEAN /\ P \in Seq(Dir) /\ D \in Seq(Dir)
    /\ list = PathList /\ d = HasDefault /\ d = (scmd.kind # "archive")
    /\ scmd.kind \in DOMAIN Extension
    /\ sscan = [ext |-> ext, idx |-> idx, base |-> base]
    /\ ext \in IF d THEN {"sl", "rrasm"} ELSE {"rib"}
    /\ P = PassedAt(list, d, base, idx) /\ D = Directories(list, d)
    /\ Follows(NextDir, list, d, base, idx)
    /\ NotIn(P, scmd.name, ext, sfiles)
    /\ ext = "rrasm" => NotIn(Directories(list, TRUE), scmd.name, "sl", sfiles)

LEMMA SearchKnows ==
    ASSUME ScanInv, ~Idle
    PROVE  \E list, d, base, idx, ext, P, D : Knows(list, d, base, idx, ext, P, D)
<1>1. PICK list, d, base, idx, ext :
         /\ list = PathList /\ d = HasDefault /\ base = sscan.base /\ idx = sscan.idx /\ ext = sscan.ext
  OBVIOUS
<1>2. Stands(list, d, base, idx)
  BY <1>1, SearchStands
<1>3. Follows(NextDir, list, d, base, idx) /\ Passed \in Seq(Dir) /\ Directories(list, d) \in Seq(Dir)
  BY <1>1, SearchNext
<1>4. /\ scmd.kind \in DOMAIN Extension
      /\ sscan \in [ext : IF d THEN {"sl", "rrasm"} ELSE {"rib"}, idx : 1..(Len(list) + 2), base : BOOLEAN]
      /\ Misses(Passed, scmd.name, ext)
      /\ ext = "rrasm" => Misses(Directories(list, TRUE), scmd.name, "sl")
  BY <1>1 DEF ScanInv
<1>5. sscan = [ext |-> ext, idx |-> idx, base |-> base] /\ ext \in IF d THEN {"sl", "rrasm"} ELSE {"rib"}
  BY <1>1, <1>4
<1>6. NotIn(Passed, scmd.name, ext, sfiles)
      /\ (ext = "rrasm" => NotIn(Directories(list, TRUE), scmd.name, "sl", sfiles))
  BY <1>4 DEF Misses, NotIn
<1>7. PICK P \in Seq(Dir), D \in Seq(Dir) : P = Passed /\ D = Directories(list, d)
  BY <1>3
<1>8. /\ list \in Seq(STRING) /\ d \in BOOLEAN /\ d = (scmd.kind # "archive")
      /\ P = PassedAt(list, d, base, idx)
  BY <1>2, <1>7 DEF Stands
<1>9. Knows(list, d, base, idx, ext, P, D)
  BY <1>1, <1>3, <1>4, <1>5, <1>6, <1>7, <1>8 DEF Knows
<1> QED
  BY <1>9, Zenon
LEMMA MissScans ==
    ASSUME ScanInv, ScanMiss
    PROVE  ScanInv'
<1> DEFINE n == NextDir
           N == Tries(n)
<1>1. ~Idle /\ n # NoDir /\ Hit(n) = NoFile /\ UNCHANGED <<spaths, scmd, slast, sfiles>>
      /\ sscan' = [sscan EXCEPT !.idx = n.idx, !.base = n.base]
  BY DEF ScanMiss
<1>2. PICK list, d, base, idx, ext, P, D : Knows(list, d, base, idx, ext, P, D)
  BY <1>1, SearchKnows
<1>3. /\ n.base = FALSE /\ n.abs \in BOOLEAN /\ n.dir \in Dir /\ (n.abs \/ Beside(n.dir) \in Dir)
      /\ Position(list, FALSE, n.idx) /\ PassedAt(list, d, FALSE, n.idx) = P \o N
  BY <1>1, <1>2 DEF Knows, Follows
<1> HIDE DEF n
<1>4. sscan.ext = ext /\ ext \in {"sl", "rrasm", "rib"}
  BY <1>2 DEF Knows
<1>5. NotIn(N, scmd.name, ext, sfiles)
  BY <1>1, <1>3, <1>4, HitIs
<1>6. N \in Seq(Dir)
  <2> HIDE DEF Dir
  <2> QED
    BY <1>3 DEF Tries
<1>7. NotIn(P \o N, scmd.name, ext, sfiles)
  BY <1>2, <1>5, <1>6, NotInCat DEF Knows
<1>8. sscan' = [ext |-> ext, idx |-> n.idx, base |-> FALSE]
  BY <1>1, <1>2, <1>3 DEF Knows
<1>9. /\ sscan'.ext = ext /\ sscan'.idx = n.idx /\ sscan'.base = FALSE
      /\ sscan' = [ext |-> sscan'.ext, idx |-> sscan'.idx, base |-> sscan'.base]
  BY <1>8
<1>10. /\ d = (scmd'.kind # "archive") /\ list = spaths[PathKind(scmd'.kind)]
       /\ scmd'.kind \in DOMAIN Extension /\ sscan'.ext \in IF d THEN {"sl", "rrasm"} ELSE {"rib"}
  BY <1>1, <1>2, <1>9 DEF Knows, PathList
<1>11. Position(list, sscan'.base, sscan'.idx)
  BY <1>3, <1>9
<1>12. NotIn(PassedAt(list, d, sscan'.base, sscan'.idx), scmd'.name, sscan'.ext, sfiles)
  BY <1>1, <1>3, <1>7, <1>9
<1>13. sscan'.ext = "rrasm" => NotIn(Directories(list, TRUE), scmd'.name, "sl", sfiles)
  BY <1>1, <1>2, <1>9 DEF Knows
<1> QED
  BY <1>1, <1>9, <1>10, <1>11, <1>12, <1>13, ScanKeeps

LEMMA HitScans ==
    ASSUME ScanInv, ScanHit
    PROVE  ScanInv'
<1> DEFINE n == NextDir
           N == Tries(n)
           h == Hit(n)
<1>1. ~Idle /\ n # NoDir /\ h # NoFile /\ UNCHANGED <<spaths, sfiles>>
      /\ scmd' = NoCmd /\ slast' = [list |-> PathList, cmd |-> scmd, found |-> h]
  BY DEF ScanHit, Done
<1>2. PICK list, d, base, idx, ext, P, D : Knows(list, d, base, idx, ext, P, D)
  BY <1>1, SearchKnows
<1>3. /\ n.abs \in BOOLEAN /\ n.dir \in Dir /\ (n.abs \/ Beside(n.dir) \in Dir)
      /\ Leads(P \o N, D)
  BY <1>1, <1>2 DEF Knows, Follows
<1> HIDE DEF n
<1>4. sscan.ext = ext /\ ext \in {"sl", "rrasm", "rib"}
  BY <1>2 DEF Knows
<1>5. PICK q : FirstIn(N, q, scmd.name, ext, sfiles) /\ h = <<N[q], scmd.name, ext>>
  BY <1>1, <1>3, <1>4, HitIs
<1>6. N \in Seq(Dir)
  <2> HIDE DEF Dir
  <2> QED
    BY <1>3 DEF Tries
<1>7. PICK r : FirstIn(D, r, scmd.name, ext, sfiles) /\ D[r] = N[q]
  BY <1>2, <1>3, <1>5, <1>6, FoundAmong DEF Knows
<1>8. FirstOf(Candidates(scmd, list), sfiles, NoFile) = <<D[r], scmd.name, ext>>
  <2>1. /\ list \in Seq(STRING) /\ d = (scmd.kind # "archive")
        /\ ext \in IF d THEN {"sl", "rrasm"} ELSE {"rib"}
        /\ ext = "rrasm" => NotIn(Directories(list, TRUE), scmd.name, "sl", sfiles)
        /\ D = Directories(list, d)
    BY <1>2 DEF Knows
  <2>2. \A m : FirstIn(Directories(list, d), m, scmd.name, ext, sfiles)
               => FirstOf(Candidates(scmd, list), sfiles, NoFile)
                    = <<Directories(list, d)[m], scmd.name, ext>>
    BY <2>1, CandidatesFirst
  <2> QED
    BY <1>7, <2>1, <2>2
<1>9. slast'.found = FirstOf(Candidates(slast'.cmd, slast'.list), sfiles', NoFile)
  <2>1. slast'.found = h /\ slast'.cmd = scmd /\ slast'.list = list
    BY <1>1, <1>2 DEF Knows
  <2> QED
    BY <1>1, <1>5, <1>7, <1>8, <2>1
<1>10. FindsFirst'
  BY <1>9, FoundFirstNext
<1> QED
  BY <1>1, <1>10, IdleKeeps DEF ScanInv

LEMMA OverScans ==
    ASSUME ScanInv, ScanOver
    PROVE  ScanInv'
<1>1. ~Idle /\ NextDir = NoDir /\ UNCHANGED <<spaths, sfiles>>
  BY DEF ScanOver
<1>2. PICK list, d, base, idx, ext, P, D : Knows(list, d, base, idx, ext, P, D)
  BY <1>1, SearchKnows
<1>3. sscan.ext = ext /\ P = D /\ NotIn(D, scmd.name, ext, sfiles)
  BY <1>1, <1>2 DEF Knows, Follows
<1>4. CASE ext = "sl"
  <2>1. sscan' = [ext |-> "rrasm", idx |-> 1, base |-> TRUE] /\ UNCHANGED <<scmd, slast>>
    BY <1>3, <1>4 DEF ScanOver
  <2>2. d = TRUE /\ D = Directories(list, TRUE) /\ list \in Seq(STRING)
    BY <1>2, <1>4 DEF Knows
  <2>3. sscan'.ext = "rrasm" /\ sscan'.idx = 1 /\ sscan'.base = TRUE
        /\ sscan' = [ext |-> sscan'.ext, idx |-> sscan'.idx, base |-> sscan'.base]
    BY <2>1
  <2>4. /\ d = (scmd'.kind # "archive") /\ list = spaths[PathKind(scmd'.kind)]
        /\ scmd'.kind \in DOMAIN Extension /\ sscan'.ext \in IF d THEN {"sl", "rrasm"} ELSE {"rib"}
    BY <1>2, <2>1, <2>2, <2>3 DEF Knows, PathList
  <2>5. Position(list, sscan'.base, sscan'.idx)
    <3>1. Position(list, TRUE, 1)
      BY <2>2 DEF Position
    <3> QED
      BY <2>3, <3>1
  <2>6. NotIn(PassedAt(list, d, sscan'.base, sscan'.idx), scmd'.name, sscan'.ext, sfiles)
    BY <2>3 DEF NotIn, PassedAt
  <2>7. NotIn(Directories(list, TRUE), scmd'.name, "sl", sfiles)
    BY <1>3, <1>4, <2>1, <2>2
  <2> QED
    BY <1>1, <2>1, <2>3, <2>4, <2>5, <2>6, <2>7, ScanKeeps
<1>5. CASE ext # "sl"
  <2>1. scmd' = NoCmd /\ slast' = [list |-> PathList, cmd |-> scmd, found |-> NoFile]
    BY <1>3, <1>5 DEF ScanOver, Done
  <2>2. FirstOf(Candidates(scmd, list), sfiles, NoFile) = NoFile
    BY <1>2, <1>3, <1>5, CandidatesFirst DEF Knows
  <2>3. slast'.found = NoFile /\ slast'.cmd = scmd /\ slast'.list = list
    BY <1>2, <2>1 DEF Knows
  <2>4. FindsFirst'
    BY <1>1, <2>2, <2>3, FoundFirstNext
  <2> QED
    BY <1>1, <2>1, <2>4, IdleKeeps DEF ScanInv
<1> QED
  BY <1>4, <1>5

LEMMA ScanStep == ScanInv /\ [SNext]_svars => ScanInv'
<1>1. ASSUME ScanInv, UNCHANGED svars PROVE ScanInv'
  BY <1>1 DEF svars, ScanInv, FindsFirst, Idle, HasDefault, PathList, Passed, Misses
<1>2. ASSUME ScanInv, SInsert PROVE ScanInv'
  <2>1. scmd' = NoCmd /\ UNCHANGED <<spaths, slast, sfiles>>
    BY <1>2 DEF SInsert, Idle
  <2> QED
    BY <1>2, <2>1, FoundKept, IdleKeeps DEF ScanInv
<1>3. ASSUME ScanInv, SNext PROVE ScanInv'
  BY <1>2, <1>3, OptionScans, CommandScans, MissScans, HitScans, OverScans DEF SNext, SStep
<1> QED
  BY <1>1, <1>3

(* A search finds the first file that exists in the order of precedence:   *)
(* the base directory, then the search paths as given, each also below the *)
(* base directory, or the default directory, and a compiled shader only if *)
(* no source is anywhere.                                                  *)
THEOREM FirstFound == SSpec => []FindsFirst
<1>1. SInit => ScanInv
  BY DEF SInit, ScanInv, FindsFirst, Idle
<1>2. ScanInv => FindsFirst
  BY DEF ScanInv
<1> QED
  BY <1>1, <1>2, ScanStep, PTL DEF SSpec

----------------------------------------------------------------------------
(* The shader virtual machine.                                             *)

(* The invariant of the parser.  b opens a block or the second part of one *)
(* in the text c.                                                          *)
Opens(c, b) == c[b].op \in Begins \cup {"orelse"}

\* Up to e, what b has opened is neither closed nor followed by a second part.
Inside(c, b, e) ==
    /\ \A j \in (b + 1)..e : Depth(c, j) >= Depth(c, b + 1)
    /\ \A j \in (b + 1)..(e - 1) : c[j].op = "orelse" => Depth(c, j) # Depth(c, b + 1)

Linked(c, b, e) ==
    /\ e \in DOMAIN c /\ e > b /\ c[e].op \in {"orelse", "end"}
    /\ Depth(c, e) = Depth(c, b + 1) /\ Inside(c, b, e)

Programs(n) == Seq([op : Ops, end : 1..n \cup {INVALID_ADDR}])

\* The depths of a text whose ends all belong to a block.
Nested(c) ==
    /\ \A j \in 1..(Len(c) + 1) : Depth(c, j) >= 0
    /\ \A j \in DOMAIN c : c[j].op \in {"orelse", "end"} => Depth(c, j) >= 1

Links(c, begins) ==
    /\ begins \in Seq(DOMAIN c) /\ Len(begins) = Depth(c, Len(c) + 1)
    /\ \A k \in DOMAIN begins : /\ Opens(c, begins[k]) /\ c[begins[k]].end = INVALID_ADDR
                                /\ Depth(c, begins[k] + 1) = k
                                /\ Inside(c, begins[k], Len(c) + 1)
    /\ \A b \in DOMAIN c : Opens(c, b) => \/ \E k \in DOMAIN begins : begins[k] = b
                                          \/ Linked(c, b, c[b].end)

ParseInv ==
    /\ vsrc \in Sources
    /\ vphase \in {"parse", "rejected", "idle", "run", "ret"}
    /\ vline \in 1..(Len(vsrc) + 1) /\ Len(vcode) < vline
    /\ vmain \in 0..(Len(vcode) + 1) /\ vdef \in 0..(Len(vcode) + 1)
    /\ vcode \in Programs(Len(vcode)) /\ Nested(vcode) /\ Links(vcode, vbegins)
    /\ vphase \in {"idle", "run", "ret"} => vmain # 0

----------------------------------------------------------------------------
\* The invariant of a run.

\* How often the body of the illuminance has been begun, when the next light is ill.
Begun(NA, ill) == Cardinality({i \in NA : i < ill})

\* Where the instructions may be, relative to a block that is open.
Alive(c, i, pc, ill, body) ==
    /\ c[i].op = "ifT" => ~InElse(c, i, pc)
    /\ c[i].op = "ifF" => InElse(c, i, pc) \/ pc = c[i].end
    /\ c[i].op = "solar" => Depth(c, i) = 0
    /\ c[i].op = "illum" => Depth(c, i) = 0 /\ ill > 0 /\ body = i + 1

Stack(c, pc, fop, ill, body) ==
    /\ Len(fop) = Depth(c, pc)
    /\ \A i \in Open(c, pc) : /\ fop[Depth(c, i) + 1] = Flag(c, i, pc)
                              /\ Alive(c, i, pc, ill, body)

\* The body of the illuminance that is run.
Loop(c, NA, start, pc, ill, body) ==
    ill > 0 => /\ body - 1 \in Open(c, pc) /\ c[body - 1].op = "illum"
               /\ start <= body - 1
               /\ ill = 1 => pc = CloseOf(c, body - 1)
               /\ ill > 1 => ill - 1 \in NA

InBody(c, q, ill, body) == ill > 0 /\ body <= q /\ q < CloseOf(c, body - 1)

Should(c, NA, start, pc, ill, body, q) ==
    IF q < start \/ Skipped(c, Cardinality(NA), q) THEN 0
    ELSE IF InBody(c, q, ill, body)
         THEN IF q < pc THEN Begun(NA, ill) ELSE Begun(NA, ill) - 1
    ELSE IF q >= pc THEN 0
    ELSE IF \E i \in Open(c, q) : c[i].op = "illum" THEN Cardinality(NA) ELSE 1

Visits(c, NA, start, pc, ill, body, visits) ==
    /\ DOMAIN visits = DOMAIN c
    /\ \A q \in DOMAIN c : c[q].op \in {"op", "ambient"} =>
           visits[q] = Should(c, NA, start, pc, ill, body, q)

\* What may be passed: no ret, and no illuminance within another block.
Passable(c, q) == c[q].op # "ret" /\ \A i \in Open(c, q) : c[i].op = "illum" => Depth(c, i) = 0

PassedBy(c, NA, start, pc, ill, body) ==
    /\ \A q \in start..(pc - 1) : \/ Skipped(c, Cardinality(NA), q) \/ Passable(c, q)
                                  \/ ill = 1 /\ q >= body
    /\ Begun(NA, ill) > 1 => \A q \in body..(CloseOf(c, body - 1) - 1) :
           Skipped(c, Cardinality(NA), q) \/ Passable(c, q)

RunOf(c, NA, start, pc, fop, ill, body, visits) ==
    /\ start \in 1..(Len(c) + 1) /\ pc \in start..(Len(c) + 1)
    /\ Stack(c, pc, fop, ill, body)
    /\ Loop(c, NA, start, pc, ill, body)
    /\ Visits(c, NA, start, pc, ill, body, visits)
    /\ PassedBy(c, NA, start, pc, ill, body)

Shining == NonAmbient(vctx.attr)

Flags == {"IF", "IFTRUE", "IFVARY", "ORELSE", "ILLUM", "SOLAR"}

MachineInv ==
    /\ vfop \in Seq(Flags) /\ Len(vfop) <= MaxFop
    /\ vill \in Nat /\ vbody \in Nat
    /\ vstarts \in {<<>>, <<vmain>>} /\ (vphase = "parse" => vstarts = <<>>)
    /\ vphase \in {"run", "ret"} => vvisits \in [DOMAIN vcode -> Int]
    /\ vub \in {"no", "code", "segment", "lights"} /\ vout \in {None, "done", "thrown"}

\* Why a run may be cut short.
CutShort ==
    \/ HasBad(vctx.attr)
    \/ \E pc \in DOMAIN vcode : vcode[pc].op \in {"illum", "solar"} /\ Open(vcode, pc) # {}
    \/ \E pc \in DOMAIN vcode : Depth(vcode, pc) = MaxFop /\ vcode[pc].op \in Begins

RunInv ==
    WellFormed =>
      /\ vphase = "run" => RunOf(vcode, Shining, vstart, vpc, vfop, vill, vbody, vvisits)
      /\ (vphase = "ret" /\ vout = "done") =>
             \A pc \in DOMAIN vcode : vcode[pc].op \in {"op", "ambient"} =>
                 vvisits[pc] = Expected(vcode, LightsN, vstart, pc)
      /\ (vphase = "ret" /\ vout = "thrown") => CutShort
      /\ vub # "code"

(* The invariant of the contexts.  A light's context is new or has been    *)
(* set up for the attributes and the light.                                *)
Made(a, l) == [attr |-> a, light |-> l, bound |-> l \notin BadLights]
AmbientIs(a, v) == v = AmbientOf(a) \/ HasBad(a)

Lights(ctx) ==
    ctx.lights = <<>> \/
      /\ ctx.attr \in Attribs /\ DOMAIN ctx.lights = DOMAIN ActLights[ctx.attr]
      /\ \A i \in DOMAIN ctx.lights : ctx.lights[i] \in {NewCtx, Made(ctx.attr, ActLights[ctx.attr][i])}

Context(ctx) ==
    /\ ctx = [attr |-> ctx.attr, lights |-> ctx.lights, done |-> ctx.done, amb |-> ctx.amb]
    /\ ctx.done \in BOOLEAN /\ (ctx.done => ctx.attr \in Attribs /\ AmbientIs(ctx.attr, ctx.amb))
    /\ Lights(ctx)

BoundFor(ctx, ill) ==
    ill > 1 => /\ ill - 1 \in DOMAIN ctx.lights
               /\ ctx.lights[ill - 1] = [attr |-> ctx.attr, light |-> ActLights[ctx.attr][ill - 1],
                                         bound |-> TRUE]

ContextInv ==
    /\ Context(vctx) /\ (vphase \in {"run", "ret"} => vctx.attr \in Attribs)
    /\ \A v \in vused : AmbientIs(vctx.attr, v)
    /\ vphase = "run" => BoundFor(vctx, vill)
    /\ vub # "lights" /\ (vub = "segment" => HasBad(vctx.attr))

IInv == ParseInv /\ MachineInv /\ RunInv /\ ContextInv


----------------------------------------------------------------------------
(* The structure of a text.                                                *)

LEMMA CountGrows ==
    ASSUME NEW S, NEW j \in Nat \ {0}
    PROVE  /\ Cardinality({i \in 1..(j - 1) : i \in S}) \in Nat
           /\ Cardinality({i \in 1..j : i \in S})
                = Cardinality({i \in 1..(j - 1) : i \in S}) + (IF j \in S THEN 1 ELSE 0)
<1> DEFINE A == {i \in 1..(j - 1) : i \in S}
<1>1. IsFiniteSet(A)
  <2>1. IsFiniteSet(1..(j - 1))
    BY FS_Interval
  <2> QED
    BY <2>1, FS_Subset
<1>2. j \notin A
  OBVIOUS
<1>3. {i \in 1..j : i \in S} = IF j \in S THEN A \cup {j} ELSE A
  OBVIOUS
<1> HIDE DEF A
<1>4. Cardinality(A \cup {j}) = Cardinality(A) + 1 /\ Cardinality(A) \in Nat
  BY <1>1, <1>2, FS_AddElement, FS_CardinalityType
<1>5. Cardinality({i \in 1..j : i \in S}) = Cardinality(A) + (IF j \in S THEN 1 ELSE 0)
  <2>1. CASE j \in S
    <3>1. {i \in 1..j : i \in S} = A \cup {j}
      BY <1>3, <2>1, Zenon
    <3> QED
      BY <1>4, <2>1, <3>1
  <2>2. CASE j \notin S
    <3>1. {i \in 1..j : i \in S} = A
      BY <1>3, <2>2, Zenon
    <3> QED
      BY <1>4, <2>2, <3>1
  <2> QED
    BY <2>1, <2>2
<1> QED
  BY <1>4, <1>5 DEF A

Change(op) == IF op \in Begins THEN 1 ELSE IF op = "end" THEN -1 ELSE 0

LEMMA DepthIs ==
    ASSUME NEW c
    PROVE  /\ Depth(c, 1) = 0
           /\ \A j \in Nat \ {0} : /\ Depth(c, j) \in Int
                                   /\ Depth(c, j + 1) = Depth(c, j) + Change(c[j].op)
<1>1. Depth(c, 1) = 0
  <2>1. \A S : {i \in 1..(1 - 1) : i \in S} = {}
    OBVIOUS
  <2>2. {i \in 1..(1 - 1) : c[i].op \in Begins} = {} /\ {i \in 1..(1 - 1) : c[i].op = "end"} = {}
    OBVIOUS
  <2> QED
    BY <2>2, FS_EmptySet DEF Depth
<1>2. ASSUME NEW j \in Nat \ {0}
      PROVE  Depth(c, j) \in Int /\ Depth(c, j + 1) = Depth(c, j) + Change(c[j].op)
  <2> DEFINE B == {i \in 1..j : c[i].op \in Begins}
             E == {i \in 1..j : c[i].op = "end"}
  <2>1. /\ {i \in 1..(j - 1) : i \in B} = {i \in 1..(j - 1) : c[i].op \in Begins}
        /\ {i \in 1..(j - 1) : i \in E} = {i \in 1..(j - 1) : c[i].op = "end"}
        /\ {i \in 1..j : i \in B} = B /\ {i \in 1..j : i \in E} = E
        /\ (j \in B <=> c[j].op \in Begins) /\ (j \in E <=> c[j].op = "end")
    OBVIOUS
  <2>2. (j + 1) - 1 = j
    OBVIOUS
  <2>3. Depth(c, j + 1) = Cardinality(B) - Cardinality(E)
    BY <2>2 DEF Depth
  <2> DEFINE b == Cardinality({i \in 1..(j - 1) : c[i].op \in Begins})
             e == Cardinality({i \in 1..(j - 1) : c[i].op = "end"})
  <2>4. Depth(c, j) = b - e
    BY DEF Depth
  <2> HIDE DEF B, E
  <2>5. b \in Nat /\ Cardinality(B) = b + (IF j \in B THEN 1 ELSE 0)
    BY <2>1, CountGrows
  <2>6. e \in Nat /\ Cardinality(E) = e + (IF j \in E THEN 1 ELSE 0)
    BY <2>1, CountGrows
  <2> HIDE DEF b, e
  <2>7. Cardinality(B) = b + (IF c[j].op \in Begins THEN 1 ELSE 0)
    BY <2>1, <2>5, Zenon
  <2>8. Cardinality(E) = e + (IF c[j].op = "end" THEN 1 ELSE 0)
    BY <2>1, <2>6, Zenon
  <2>9. ~(c[j].op \in Begins /\ c[j].op = "end")
    BY DEF Begins
  <2> QED
    BY <2>3, <2>4, <2>5, <2>6, <2>7, <2>8, <2>9 DEF Change
<1> QED
  BY <1>1, <1>2

\* The depth at j is a matter of what is before j.
LEMMA DepthOfPrefix ==
    ASSUME NEW c, NEW d, NEW j \in Nat, \A i \in 1..(j - 1) : c[i].op = d[i].op
    PROVE  Depth(c, j) = Depth(d, j)
<1>1. {i \in 1..(j - 1) : c[i].op \in Begins} = {i \in 1..(j - 1) : d[i].op \in Begins}
  OBVIOUS
<1>2. {i \in 1..(j - 1) : c[i].op = "end"} = {i \in 1..(j - 1) : d[i].op = "end"}
  OBVIOUS
<1> QED
  BY <1>1, <1>2 DEF Depth

Code == Seq([op : Ops, end : Nat])

LEMMA CodeTypes ==
    ASSUME NEW c \in Code
    PROVE  /\ Len(c) \in Nat /\ DOMAIN c = 1..Len(c)
           /\ \A i \in DOMAIN c : c[i].op \in Ops /\ c[i].end \in Nat
<1> DEFINE R == [op : Ops, end : Nat]
<1>1. \A x \in R : x.op \in Ops /\ x.end \in Nat
  OBVIOUS
<1>2. c \in Seq(R)
  BY DEF Code
<1> HIDE DEF R
<1>3. Len(c) \in Nat /\ DOMAIN c = 1..Len(c) /\ \A i \in DOMAIN c : c[i] \in R
  BY <1>2
<1> QED
  BY <1>1, <1>3

\* The blocks of c are closed, and none is closed that is not open.
Sound(c) == c \in Code /\ Nested(c) /\ Closed(c)

LEMMA CloseIs ==
    ASSUME NEW c, Sound(c), NEW i \in DOMAIN c, c[i].op \in Begins
    PROVE  /\ CloseOf(c, i) \in DOMAIN c /\ i < CloseOf(c, i) /\ c[CloseOf(c, i)].op = "end"
           /\ Depth(c, CloseOf(c, i)) = Depth(c, i) + 1
           /\ \A j \in DOMAIN c : i < j /\ c[j].op = "end" /\ Depth(c, j) = Depth(c, i) + 1
                                     => CloseOf(c, i) <= j
<1>1. Len(c) \in Nat /\ DOMAIN c = 1..Len(c)
  BY CodeTypes DEF Sound
<1>2. Closers(c, i) # {}
  BY DEF Sound, Closed
<1>3. Closers(c, i) \in SUBSET Nat
  BY <1>1 DEF Closers
<1>4. CloseOf(c, i) \in Closers(c, i) /\ \A j \in Closers(c, i) : CloseOf(c, i) <= j
  BY <1>2, <1>3, LeastExists DEF CloseOf
<1> QED
  BY <1>1, <1>4 DEF Closers

\* Within a block the depth is greater than that of the block.
LEMMA DeeperInside ==
    ASSUME NEW c, Sound(c), NEW i \in DOMAIN c, c[i].op \in Begins
    PROVE  \A j \in (i + 1)..CloseOf(c, i) : Depth(c, j) >= Depth(c, i) + 1
<1>0. Len(c) \in Nat /\ DOMAIN c = 1..Len(c) /\ i \in Nat \ {0}
  BY CodeTypes DEF Sound
<1> DEFINE C == CloseOf(c, i)
           S == {n \in Nat : i + 1 + n <= C => Depth(c, i + 1 + n) >= Depth(c, i) + 1}
<1>1. /\ C \in DOMAIN c /\ i < C
      /\ \A j \in DOMAIN c : i < j /\ c[j].op = "end" /\ Depth(c, j) = Depth(c, i) + 1 => C <= j
  BY CloseIs
<1> HIDE DEF C
<1>2. Depth(c, i) \in Int /\ Depth(c, i + 1) = Depth(c, i) + 1
  BY <1>0, DepthIs DEF Change
<1>3. 0 \in S
  BY <1>0, <1>2
<1>4. ASSUME NEW n \in Nat, n \in S PROVE n + 1 \in S
  <2> SUFFICES ASSUME i + 1 + (n + 1) <= C PROVE Depth(c, i + 1 + (n + 1)) >= Depth(c, i) + 1
    OBVIOUS
  <2> DEFINE j == i + 1 + n
  <2>1. j \in DOMAIN c /\ i < j /\ j < C /\ j \in Nat \ {0} /\ i + 1 + (n + 1) = j + 1
    BY <1>0, <1>1
  <2>2. Depth(c, j) >= Depth(c, i) + 1
    BY <1>0, <1>1, <1>4
  <2>3. ~(c[j].op = "end" /\ Depth(c, j) = Depth(c, i) + 1)
    BY <1>0, <1>1, <2>1
  <2>4. Depth(c, j) \in Int /\ Depth(c, j + 1) = Depth(c, j) + Change(c[j].op)
    BY <2>1, DepthIs
  <2> HIDE DEF j
  <2> QED
    BY <1>2, <2>1, <2>2, <2>3, <2>4 DEF Change
<1> HIDE DEF S
<1>5. \A n \in Nat : n \in S
  BY <1>3, <1>4, SetInduction
<1>6. ASSUME NEW j \in (i + 1)..C PROVE Depth(c, j) >= Depth(c, i) + 1
  <2>1. j - (i + 1) \in Nat /\ i + 1 + (j - (i + 1)) = j /\ j <= C
    BY <1>0, <1>1
  <2>2. j - (i + 1) \in S
    BY <1>5, <2>1
  <2> QED
    BY <2>1, <2>2 DEF S
<1> QED
  BY <1>6 DEF C

\* A block that is open, and where.
LEMMA OpenIs ==
    ASSUME NEW c, Sound(c), NEW pc \in 1..(Len(c) + 1), NEW i \in Open(c, pc)
    PROVE  /\ i \in DOMAIN c /\ i \in Nat \ {0} /\ c[i].op \in Begins /\ i < pc /\ pc <= CloseOf(c, i)
           /\ CloseOf(c, i) \in DOMAIN c /\ Depth(c, i) \in Nat /\ Depth(c, i) < Depth(c, pc)
<1>0. Len(c) \in Nat /\ DOMAIN c = 1..Len(c)
  BY CodeTypes DEF Sound
<1>1. i \in DOMAIN c /\ i \in Nat \ {0} /\ c[i].op \in Begins /\ i < pc /\ pc <= CloseOf(c, i)
  BY <1>0 DEF Open
<1>2. CloseOf(c, i) \in DOMAIN c
  BY <1>1, CloseIs
<1>3. Depth(c, i) \in Int /\ Depth(c, i) >= 0 /\ Depth(c, pc) \in Int
  BY <1>0, <1>1, DepthIs DEF Sound, Nested
<1>4. Depth(c, pc) >= Depth(c, i) + 1
  <2>1. pc \in (i + 1)..CloseOf(c, i)
    BY <1>0, <1>1, <1>2
  <2> QED
    BY <1>1, <2>1, DeeperInside
<1> QED
  BY <1>1, <1>2, <1>3, <1>4

LEMMA OneOpen ==
    ASSUME NEW c, Sound(c), NEW pc \in 1..(Len(c) + 1), NEW i \in Open(c, pc), NEW k \in Open(c, pc),
           Depth(c, i) = Depth(c, k)
    PROVE  i = k
<1>0. Len(c) \in Nat /\ DOMAIN c = 1..Len(c)
  BY CodeTypes DEF Sound
<1>1. \A a, b \in Open(c, pc) : a < b => Depth(c, a) # Depth(c, b)
  <2> SUFFICES ASSUME NEW a \in Open(c, pc), NEW b \in Open(c, pc), a < b
               PROVE  Depth(c, a) # Depth(c, b)
    OBVIOUS
  <2>1. a \in DOMAIN c /\ a \in Nat /\ c[a].op \in Begins /\ pc <= CloseOf(c, a) /\ CloseOf(c, a) \in DOMAIN c
    BY OpenIs
  <2>2. b \in Nat /\ b < pc /\ Depth(c, a) \in Nat /\ Depth(c, b) \in Nat
    BY OpenIs
  <2>3. b \in (a + 1)..CloseOf(c, a)
    BY <1>0, <2>1, <2>2
  <2>4. Depth(c, b) >= Depth(c, a) + 1
    BY <2>1, <2>3, DeeperInside
  <2> QED
    BY <2>2, <2>4
<1>2. i \in Nat /\ k \in Nat
  BY OpenIs
<1> QED
  BY <1>1, <1>2

LEMMA OpenAtDepth ==
    ASSUME NEW c, Sound(c)
    PROVE  \A pc \in 1..(Len(c) + 1) : \A k \in 0..(Depth(c, pc) - 1) :
               \E i \in Open(c, pc) : Depth(c, i) = k
<1>0. Len(c) \in Nat /\ DOMAIN c = 1..Len(c)
  BY CodeTypes DEF Sound
<1> DEFINE Has(pc) == \A k \in 0..(Depth(c, pc) - 1) : \E i \in Open(c, pc) : Depth(c, i) = k
           S == {n \in Nat : n <= Len(c) => Has(n + 1)}
<1>1. 0 \in S
  <2>1. Depth(c, 0 + 1) = 0 /\ 0 \in Nat
    BY DepthIs
  <2> QED
    BY <2>1
<1>2. ASSUME NEW n \in Nat, n \in S PROVE n + 1 \in S
  <2> SUFFICES ASSUME n + 1 <= Len(c) PROVE Has(n + 1 + 1)
    OBVIOUS
  <2> DEFINE pc == n + 1
  <2>1. pc \in DOMAIN c /\ pc \in Nat \ {0} /\ pc \in 1..(Len(c) + 1) /\ n <= Len(c)
    BY <1>0
  <2>2. Has(pc)
    BY <1>2, <2>1
  <2>3. Depth(c, pc) \in Int /\ Depth(c, pc + 1) = Depth(c, pc) + Change(c[pc].op)
    BY <2>1, DepthIs
  <2> HIDE DEF pc
  <2> SUFFICES ASSUME NEW k \in 0..(Depth(c, pc + 1) - 1)
               PROVE  \E i \in Open(c, pc + 1) : Depth(c, i) = k
    BY DEF pc
  <2>4. CASE c[pc].op \in Begins /\ k = Depth(c, pc)
    <3>1. CloseOf(c, pc) \in DOMAIN c /\ pc < CloseOf(c, pc)
      BY <2>1, <2>4, CloseIs
    <3>2. pc \in Open(c, pc + 1)
      BY <1>0, <2>1, <2>4, <3>1 DEF Open
    <3> QED
      BY <2>4, <3>2
  <2>5. CASE ~(c[pc].op \in Begins /\ k = Depth(c, pc))
    <3>1. k < Depth(c, pc) /\ (c[pc].op = "end" => k + 1 < Depth(c, pc))
      BY <2>3, <2>5 DEF Change, Begins
    <3>2. PICK i \in Open(c, pc) : Depth(c, i) = k
      BY <2>2, <2>3, <3>1
    <3>3. /\ i \in DOMAIN c /\ i \in Nat \ {0} /\ c[i].op \in Begins /\ i < pc /\ pc <= CloseOf(c, i)
          /\ CloseOf(c, i) \in DOMAIN c
      BY <2>1, OpenIs
    <3>4. c[CloseOf(c, i)].op = "end" /\ Depth(c, CloseOf(c, i)) = k + 1
      BY <3>2, <3>3, CloseIs
    <3>5. pc # CloseOf(c, i)
      BY <2>3, <3>1, <3>4
    <3>6. i \in Open(c, pc + 1)
      BY <1>0, <2>1, <3>3, <3>5 DEF Open
    <3> QED
      BY <3>2, <3>6
  <2> QED
    BY <2>4, <2>5
<1> HIDE DEF S
<1>3. \A n \in Nat : n \in S
  BY <1>1, <1>2, SetInduction
<1>4. ASSUME NEW pc \in 1..(Len(c) + 1) PROVE Has(pc)
  <2>1. pc - 1 \in Nat /\ pc - 1 <= Len(c) /\ (pc - 1) + 1 = pc
    BY <1>0
  <2>2. pc - 1 \in S
    BY <1>3, <2>1
  <2> HIDE DEF Has
  <2> QED
    BY <2>1, <2>2 DEF S
<1> QED
  BY <1>4

\* At the outermost level of a block, it and those around it are open.
LEMMA OpenInside ==
    ASSUME NEW c, Sound(c), NEW i \in DOMAIN c, c[i].op \in Begins,
           NEW t \in (i + 1)..CloseOf(c, i), Depth(c, t) = Depth(c, i) + 1
    PROVE  /\ t \in 1..(Len(c) + 1) /\ t \in DOMAIN c /\ i \in Open(c, t)
           /\ Open(c, t) = Open(c, i) \cup {i}
<1>0. Len(c) \in Nat /\ DOMAIN c = 1..Len(c)
  BY CodeTypes DEF Sound
<1>1. CloseOf(c, i) \in DOMAIN c /\ i < CloseOf(c, i)
  BY CloseIs
<1>2. t \in 1..(Len(c) + 1) /\ t \in DOMAIN c /\ i \in 1..(Len(c) + 1)
  BY <1>0, <1>1
<1>3. i \in Open(c, t)
  BY <1>0, <1>1 DEF Open
<1>4. ASSUME NEW a \in Open(c, i) PROVE a \in Open(c, t)
  <2>1. /\ a \in DOMAIN c /\ a \in Nat \ {0} /\ c[a].op \in Begins /\ a < i /\ i <= CloseOf(c, a)
        /\ CloseOf(c, a) \in DOMAIN c /\ Depth(c, a) \in Nat /\ Depth(c, a) < Depth(c, i)
    BY <1>2, OpenIs
  <2>2. c[CloseOf(c, a)].op = "end" /\ Depth(c, CloseOf(c, a)) = Depth(c, a) + 1
    BY <2>1, CloseIs
  <2>3. i # CloseOf(c, a)
    BY <2>2 DEF Begins
  <2>4. Depth(c, i) \in Int
    BY <1>0, DepthIs
  <2>5. ~(CloseOf(c, a) < t)
    <3> SUFFICES ASSUME CloseOf(c, a) < t PROVE FALSE
      OBVIOUS
    <3>1. CloseOf(c, a) \in (i + 1)..CloseOf(c, i)
      BY <1>0, <1>1, <2>1, <2>3
    <3>2. Depth(c, CloseOf(c, a)) >= Depth(c, i) + 1
      BY <3>1, DeeperInside
    <3> QED
      BY <2>1, <2>2, <2>4, <3>2
  <2> QED
    BY <1>0, <1>1, <2>1, <2>5 DEF Open
<1>5. ASSUME NEW b \in Open(c, t) PROVE b \in Open(c, i) \cup {i}
  <2>1. Depth(c, b) \in Nat /\ Depth(c, b) < Depth(c, t) /\ Depth(c, i) \in Int
    BY <1>0, <1>2, OpenIs, DepthIs
  <2>2. CASE Depth(c, b) = Depth(c, i)
    <3>1. b = i
      BY <1>2, <1>3, <2>2, OneOpen
    <3> QED
      BY <3>1
  <2>3. CASE Depth(c, b) # Depth(c, i)
    <3>1. Depth(c, b) \in 0..(Depth(c, i) - 1)
      BY <2>1, <2>3
    <3>2. PICK a \in Open(c, i) : Depth(c, a) = Depth(c, b)
      BY <1>2, <3>1, OpenAtDepth
    <3>3. a = b
      BY <1>2, <1>4, <3>2, OneOpen
    <3> QED
      BY <3>3
  <2> QED
    BY <2>2, <2>3
<1> QED
  BY <1>2, <1>3, <1>4, <1>5

LEMMA OpenNext ==
    ASSUME NEW c, Sound(c), NEW pc \in DOMAIN c
    PROVE  /\ c[pc].op \in Begins => Open(c, pc + 1) = Open(c, pc) \cup {pc}
           /\ c[pc].op \notin Begins \cup {"end"} => Open(c, pc + 1) = Open(c, pc)
           /\ c[pc].op = "end" =>
                 Open(c, pc + 1) = {i \in Open(c, pc) : Depth(c, i) < Depth(c, pc) - 1}
<1>0. Len(c) \in Nat /\ DOMAIN c = 1..Len(c) /\ pc \in Nat \ {0} /\ pc \in 1..(Len(c) + 1)
      /\ pc + 1 \in 1..(Len(c) + 1)
  BY CodeTypes DEF Sound
<1>1. Depth(c, pc) \in Int /\ Depth(c, pc + 1) = Depth(c, pc) + Change(c[pc].op)
  BY <1>0, DepthIs
<1>2. ASSUME c[pc].op \in Begins PROVE Open(c, pc + 1) = Open(c, pc) \cup {pc}
  <2>1. CloseOf(c, pc) \in DOMAIN c /\ pc < CloseOf(c, pc)
    BY <1>2, CloseIs
  <2>2. pc + 1 \in (pc + 1)..CloseOf(c, pc) /\ Depth(c, pc + 1) = Depth(c, pc) + 1
    BY <1>0, <1>1, <1>2, <2>1 DEF Change
  <2> QED
    BY <1>2, <2>2, OpenInside
<1>3. ASSUME NEW i \in Open(c, pc)
      PROVE  /\ i \in 1..(pc - 1) /\ c[i].op \in Begins /\ CloseOf(c, i) \in Nat
             /\ pc <= CloseOf(c, i) /\ Depth(c, i) \in Nat
             /\ c[CloseOf(c, i)].op = "end" /\ Depth(c, CloseOf(c, i)) = Depth(c, i) + 1
  <2>1. /\ i \in DOMAIN c /\ i \in Nat \ {0} /\ c[i].op \in Begins /\ i < pc /\ pc <= CloseOf(c, i)
        /\ CloseOf(c, i) \in DOMAIN c /\ Depth(c, i) \in Nat
    BY <1>0, OpenIs
  <2> QED
    BY <1>0, <2>1, CloseIs
<1>4. ASSUME NEW i \in Open(c, pc + 1), c[pc].op \notin Begins
      PROVE  i \in Open(c, pc) /\ Depth(c, i) < Depth(c, pc + 1) /\ Depth(c, i) \in Nat
  <2>1. /\ i \in Nat \ {0} /\ c[i].op \in Begins /\ i < pc + 1 /\ pc + 1 <= CloseOf(c, i)
        /\ CloseOf(c, i) \in DOMAIN c /\ Depth(c, i) \in Nat /\ Depth(c, i) < Depth(c, pc + 1)
    BY <1>0, OpenIs
  <2>2. i # pc
    BY <1>4, <2>1
  <2> QED
    BY <1>0, <2>1, <2>2 DEF Open
<1>5. ASSUME c[pc].op \notin Begins \cup {"end"} PROVE Open(c, pc + 1) = Open(c, pc)
  <2>1. ASSUME NEW i \in Open(c, pc) PROVE i \in Open(c, pc + 1)
    <3>1. pc # CloseOf(c, i)
      BY <1>3, <1>5, <2>1
    <3> QED
      BY <1>0, <1>3, <2>1, <3>1 DEF Open
  <2> QED
    BY <1>4, <1>5, <2>1
<1>6. ASSUME c[pc].op = "end"
      PROVE  Open(c, pc + 1) = {i \in Open(c, pc) : Depth(c, i) < Depth(c, pc) - 1}
  <2>1. c[pc].op \notin Begins /\ Depth(c, pc + 1) = Depth(c, pc) - 1
    BY <1>1, <1>6 DEF Change, Begins
  <2>2. ASSUME NEW i \in Open(c, pc), Depth(c, i) < Depth(c, pc) - 1 PROVE i \in Open(c, pc + 1)
    <3>1. pc # CloseOf(c, i)
      BY <1>1, <1>3, <2>2
    <3> QED
      BY <1>0, <1>3, <2>2, <3>1 DEF Open
  <2> QED
    BY <1>4, <2>1, <2>2
<1> QED
  BY <1>2, <1>5, <1>6

LEMMA AtMostOne ==
    ASSUME NEW S, IsFiniteSet(S), Cardinality(S) <= 1, NEW x \in S, NEW y \in S
    PROVE  x = y
<1> SUFFICES ASSUME x # y PROVE FALSE
  OBVIOUS
<1>1. IsFiniteSet({x}) /\ Cardinality({x}) = 1
  BY FS_Singleton
<1>2. IsFiniteSet({x} \cup {y}) /\ Cardinality({x} \cup {y}) = 2
  <2>1. y \notin {x}
    OBVIOUS
  <2> QED
    BY <1>1, <2>1, FS_AddElement
<1>3. {x} \cup {y} \in SUBSET S
  OBVIOUS
<1>4. Cardinality({x} \cup {y}) <= Cardinality(S) /\ Cardinality(S) \in Nat
  BY <1>3, FS_Subset, FS_CardinalityType
<1> QED
  BY <1>2, <1>4

\* The innermost block at an end or an orelse.
LEMMA TopOpen ==
    ASSUME NEW c, Sound(c), NEW pc \in DOMAIN c, c[pc].op \in {"end", "orelse"}
    PROVE  \E i \in DOMAIN c :
             /\ c[i].op \in Begins /\ i < pc /\ pc <= CloseOf(c, i) /\ Depth(c, pc) = Depth(c, i) + 1
             /\ i \in Open(c, pc) /\ Open(c, pc) = Open(c, i) \cup {i}
             /\ c[pc].op = "end" => pc = CloseOf(c, i)
             /\ c[pc].op = "orelse" => /\ ElseOf(c, i) = {pc} /\ pc < CloseOf(c, i)
                                       /\ c[i].op \notin {"illum", "solar"}
<1>0. Len(c) \in Nat /\ DOMAIN c = 1..Len(c) /\ pc \in Nat \ {0} /\ pc \in 1..(Len(c) + 1)
  BY CodeTypes DEF Sound
<1>1. Depth(c, pc) \in Int /\ Depth(c, pc) >= 1
  BY <1>0, DepthIs DEF Sound, Nested
<1>2. PICK i \in Open(c, pc) : Depth(c, i) = Depth(c, pc) - 1
  <2>1. Depth(c, pc) - 1 \in 0..(Depth(c, pc) - 1)
    BY <1>1
  <2> QED
    BY <1>0, <2>1, OpenAtDepth
<1>3. /\ i \in DOMAIN c /\ i \in Nat \ {0} /\ c[i].op \in Begins /\ i < pc /\ pc <= CloseOf(c, i)
      /\ CloseOf(c, i) \in DOMAIN c
  BY <1>0, OpenIs
<1>4. Depth(c, pc) = Depth(c, i) + 1
  BY <1>1, <1>2
<1>5. Open(c, pc) = Open(c, i) \cup {i}
  <2>1. pc \in (i + 1)..CloseOf(c, i)
    BY <1>0, <1>3
  <2> QED
    BY <1>3, <1>4, <2>1, OpenInside
<1>6. /\ c[CloseOf(c, i)].op = "end"
      /\ \A j \in DOMAIN c : i < j /\ c[j].op = "end" /\ Depth(c, j) = Depth(c, i) + 1
                                => CloseOf(c, i) <= j
  BY <1>3, CloseIs
<1>7. c[pc].op = "end" => pc = CloseOf(c, i)
  BY <1>0, <1>3, <1>4, <1>6
<1>8. ASSUME c[pc].op = "orelse"
      PROVE  ElseOf(c, i) = {pc} /\ pc < CloseOf(c, i) /\ c[i].op \notin {"illum", "solar"}
  <2>1. pc < CloseOf(c, i)
    <3>1. pc # CloseOf(c, i)
      BY <1>6, <1>8
    <3> QED
      BY <1>0, <1>3, <3>1
  <2>2. pc \in ElseOf(c, i)
    BY <1>0, <1>3, <1>4, <1>8, <2>1 DEF ElseOf
  <2>3. IsFiniteSet(ElseOf(c, i))
    <3>1. ElseOf(c, i) \in SUBSET ((i + 1)..(CloseOf(c, i) - 1))
      BY DEF ElseOf
    <3>2. IsFiniteSet((i + 1)..(CloseOf(c, i) - 1))
      <4>1. i + 1 \in Int /\ CloseOf(c, i) - 1 \in Int
        BY <1>0, <1>3
      <4> QED
        BY <4>1, FS_Interval
    <3> QED
      BY <3>1, <3>2, FS_Subset
  <2>4. Cardinality(ElseOf(c, i)) <= (IF c[i].op \in {"illum", "solar"} THEN 0 ELSE 1)
    BY <1>3 DEF Sound, Closed
  <2>5. Cardinality(ElseOf(c, i)) # 0 /\ Cardinality(ElseOf(c, i)) \in Nat
    BY <2>2, <2>3, FS_EmptySet, FS_CardinalityType
  <2>6. c[i].op \notin {"illum", "solar"} /\ Cardinality(ElseOf(c, i)) <= 1
    BY <2>4, <2>5
  <2>7. \A j \in ElseOf(c, i) : j = pc
    BY <2>2, <2>3, <2>6, AtMostOne
  <2> QED
    BY <2>1, <2>2, <2>6, <2>7
<1> QED
  BY <1>2, <1>3, <1>4, <1>5, <1>7, <1>8

\* As many blocks are open as the depth says.
LEMMA OpenCount ==
    ASSUME NEW c, Sound(c), NEW pc \in 1..(Len(c) + 1)
    PROVE  Cardinality(Open(c, pc)) = Depth(c, pc)
<1>0. Len(c) \in Nat /\ DOMAIN c = 1..Len(c)
  BY CodeTypes DEF Sound
<1>1. Depth(c, pc) \in Nat
  BY <1>0, DepthIs DEF Sound, Nested
<1> DEFINE S == Open(c, pc)
           T == 0..(Depth(c, pc) - 1)
           f == [i \in S |-> Depth(c, i)]
<1>2. IsFiniteSet(S)
  <2>1. S \in SUBSET (1..(pc - 1)) /\ pc - 1 \in Int
    BY <1>0 DEF Open
  <2>2. IsFiniteSet(1..(pc - 1))
    BY <2>1, FS_Interval
  <2> HIDE DEF S
  <2> QED
    BY <2>1, <2>2, FS_Subset
<1>3. \A i \in S : Depth(c, i) \in T
  BY <1>1, OpenIs
<1>4. \A i, k \in S : Depth(c, i) = Depth(c, k) => i = k
  BY OneOpen
<1>5. \A k \in T : \E i \in S : Depth(c, i) = k
  BY OpenAtDepth
<1> HIDE DEF S, T
<1>6. f \in [S -> T] /\ (\A i, k \in S : f[i] = f[k] => i = k) /\ (\A k \in T : \E i \in S : f[i] = k)
  BY <1>3, <1>4, <1>5
<1> HIDE DEF f
<1>7. ExistsBijection(S, T)
  BY <1>6 DEF ExistsBijection, Bijection, Injection, Surjection, IsInjective
<1>8. Cardinality(T) = Cardinality(S)
  BY <1>2, <1>7, FS_Bijection
<1>9. Cardinality(T) = Depth(c, pc)
  <2> DEFINE d == Depth(c, pc) - 1
  <2>1. d \in Int /\ 0 \in Int /\ T = 0..d
    BY <1>1 DEF T
  <2> HIDE DEF d
  <2>2. Cardinality(T) = IF 0 > d THEN 0 ELSE d - 0 + 1
    BY <2>1, FS_Interval
  <2> QED
    BY <1>1, <2>1, <2>2 DEF d
<1> QED
  BY <1>8, <1>9 DEF S

----------------------------------------------------------------------------
(* The ends of blocks, as they are linked.                                 *)

LEMMA AfterClose ==
    ASSUME NEW c, Sound(c), NEW i \in DOMAIN c, c[i].op \in Begins
    PROVE  /\ CloseOf(c, i) + 1 \in 1..(Len(c) + 1)
           /\ Depth(c, CloseOf(c, i) + 1) = Depth(c, i) /\ Depth(c, i) \in Nat
           /\ Depth(c, i + 1) = Depth(c, i) + 1
<1>0. Len(c) \in Nat /\ DOMAIN c = 1..Len(c) /\ i \in Nat \ {0}
  BY CodeTypes DEF Sound
<1>1. CloseOf(c, i) \in DOMAIN c /\ c[CloseOf(c, i)].op = "end"
      /\ Depth(c, CloseOf(c, i)) = Depth(c, i) + 1
  BY CloseIs
<1>2. Depth(c, i) \in Int /\ Depth(c, i + 1) = Depth(c, i) + Change(c[i].op) /\ Depth(c, i) >= 0
  <2>1. Depth(c, i) \in Int /\ Depth(c, i + 1) = Depth(c, i) + Change(c[i].op)
    BY <1>0, DepthIs
  <2>2. i \in 1..(Len(c) + 1)
    BY <1>0
  <2> QED
    BY <2>1, <2>2 DEF Sound, Nested
<1>3. CloseOf(c, i) \in Nat \ {0}
  BY <1>0, <1>1
<1>4. Depth(c, CloseOf(c, i) + 1) = Depth(c, CloseOf(c, i)) + Change("end")
  BY <1>1, <1>3, DepthIs
<1>5. Change("end") = -1 /\ Change(c[i].op) = 1
  BY DEF Change, Begins
<1> QED
  BY <1>0, <1>1, <1>2, <1>3, <1>4, <1>5

\* What opens at the outermost level of a block is linked within the block.
LEMMA LinkedWithin ==
    ASSUME NEW c, Sound(c), NEW begins, Links(c, begins), NEW i \in DOMAIN c, c[i].op \in Begins,
           NEW b \in DOMAIN c, Opens(c, b), i <= b, b < CloseOf(c, i),
           Depth(c, b + 1) = Depth(c, i) + 1
    PROVE  LET t == c[b].end IN
           /\ t \in (b + 1)..CloseOf(c, i) /\ t \in DOMAIN c /\ c[t].op \in {"orelse", "end"}
           /\ Depth(c, t) = Depth(c, i) + 1
           /\ c[t].op = "end" => t = CloseOf(c, i)
           /\ c[t].op = "orelse" => t \in ElseOf(c, i)
           /\ \A j \in ElseOf(c, i) : b < j => t <= j
<1>0. Len(c) \in Nat /\ DOMAIN c = 1..Len(c) /\ i \in Nat \ {0} /\ b \in Nat \ {0}
  BY CodeTypes DEF Sound
<1>1. /\ CloseOf(c, i) + 1 \in 1..(Len(c) + 1) /\ Depth(c, CloseOf(c, i) + 1) = Depth(c, i)
      /\ Depth(c, i) \in Nat
  BY AfterClose
<1>2. /\ CloseOf(c, i) \in DOMAIN c /\ c[CloseOf(c, i)].op = "end"
      /\ \A j \in DOMAIN c : i < j /\ c[j].op = "end" /\ Depth(c, j) = Depth(c, i) + 1
                                => CloseOf(c, i) <= j
  BY CloseIs
<1>3. ASSUME NEW e \in Nat, Inside(c, b, e) PROVE e <= CloseOf(c, i)
  <2> SUFFICES ASSUME e > CloseOf(c, i) PROVE FALSE
    BY <1>0, <1>2
  <2>1. CloseOf(c, i) + 1 \in (b + 1)..e
    BY <1>0, <1>2
  <2>2. Depth(c, CloseOf(c, i) + 1) >= Depth(c, b + 1)
    BY <1>3, <2>1 DEF Inside
  <2> QED
    BY <1>1, <2>2
<1>4. Linked(c, b, c[b].end)
  <2>1. ASSUME NEW k \in DOMAIN begins, begins[k] = b PROVE FALSE
    <3>1. Inside(c, b, Len(c) + 1)
      BY <2>1 DEF Links
    <3> QED
      BY <1>0, <1>2, <1>3, <3>1
  <2> QED
    BY <2>1 DEF Links
<1> DEFINE t == c[b].end
<1>5. t \in DOMAIN c /\ t > b /\ c[t].op \in {"orelse", "end"} /\ Depth(c, t) = Depth(c, i) + 1
      /\ Inside(c, b, t)
  BY <1>4 DEF Linked
<1> HIDE DEF t
<1>6. t <= CloseOf(c, i)
  BY <1>0, <1>3, <1>5
<1>7. t \in (b + 1)..CloseOf(c, i)
  BY <1>0, <1>2, <1>5, <1>6
<1>8. c[t].op = "end" => t = CloseOf(c, i)
  <2>1. i < t
    BY <1>0, <1>5
  <2> QED
    BY <1>0, <1>2, <1>5, <1>6, <2>1
<1>9. c[t].op = "orelse" => t \in ElseOf(c, i)
  <2> SUFFICES ASSUME c[t].op = "orelse" PROVE t \in ElseOf(c, i)
    OBVIOUS
  <2>1. t # CloseOf(c, i)
    BY <1>2
  <2>2. t \in (i + 1)..(CloseOf(c, i) - 1)
    BY <1>0, <1>2, <1>7, <2>1
  <2> QED
    BY <1>5, <2>2 DEF ElseOf
<1>10. ASSUME NEW j \in ElseOf(c, i), b < j PROVE t <= j
  <2>1. c[j].op = "orelse" /\ Depth(c, j) = Depth(c, i) + 1 /\ j \in Nat
    BY <1>0, <1>2 DEF ElseOf
  <2> SUFFICES ASSUME j < t PROVE FALSE
    BY <1>0, <1>5, <2>1
  <2>2. j \in (b + 1)..(t - 1)
    BY <1>0, <1>5, <1>10, <2>1
  <2>3. Depth(c, j) # Depth(c, b + 1)
    BY <1>5, <2>1, <2>2 DEF Inside
  <2> QED
    BY <2>1, <2>3
<1> QED
  BY <1>5, <1>7, <1>8, <1>9, <1>10 DEF t

\* The end of a block that begins at i.
LEMMA BeginEnd ==
    ASSUME NEW c, Sound(c), NEW begins, Links(c, begins), NEW i \in DOMAIN c, c[i].op \in Begins
    PROVE  /\ c[i].end \in (i + 1)..CloseOf(c, i) /\ c[i].end \in DOMAIN c
           /\ c[c[i].end].op \in {"orelse", "end"}
           /\ Depth(c, c[i].end) = Depth(c, i) + 1
           /\ \A j \in ElseOf(c, i) : c[i].end <= j
           /\ c[i].op \in {"illum", "solar"} => c[i].end = CloseOf(c, i)
<1>0. Len(c) \in Nat /\ DOMAIN c = 1..Len(c) /\ i \in Nat \ {0}
  BY CodeTypes DEF Sound
<1>1. i < CloseOf(c, i) /\ CloseOf(c, i) \in DOMAIN c
  BY CloseIs
<1>2. Depth(c, i + 1) = Depth(c, i) + 1
  BY AfterClose
<1>3. Opens(c, i) /\ i <= i
  BY <1>0 DEF Opens
<1>4. /\ c[i].end \in (i + 1)..CloseOf(c, i) /\ c[i].end \in DOMAIN c
      /\ c[c[i].end].op \in {"orelse", "end"}
      /\ Depth(c, c[i].end) = Depth(c, i) + 1
      /\ c[c[i].end].op = "end" => c[i].end = CloseOf(c, i)
      /\ c[c[i].end].op = "orelse" => c[i].end \in ElseOf(c, i)
      /\ \A j \in ElseOf(c, i) : i < j => c[i].end <= j
  BY <1>1, <1>2, <1>3, LinkedWithin
<1>5. \A j \in ElseOf(c, i) : i < j
  BY <1>0, <1>1 DEF ElseOf
<1>6. ASSUME c[i].op \in {"illum", "solar"} PROVE ElseOf(c, i) = {}
  <2>1. IsFiniteSet(ElseOf(c, i))
    <3>1. ElseOf(c, i) \in SUBSET ((i + 1)..(CloseOf(c, i) - 1))
      BY DEF ElseOf
    <3>2. IsFiniteSet((i + 1)..(CloseOf(c, i) - 1))
      BY <1>0, <1>1, FS_Interval
    <3> QED
      BY <3>1, <3>2, FS_Subset
  <2>2. Cardinality(ElseOf(c, i)) <= 0
    BY <1>6 DEF Sound, Closed
  <2>3. Cardinality(ElseOf(c, i)) \in Nat
    BY <2>1, FS_CardinalityType
  <2>4. Cardinality(ElseOf(c, i)) = 0
    BY <2>2, <2>3
  <2> QED
    BY <2>1, <2>4, FS_EmptySet
<1> QED
  BY <1>4, <1>5, <1>6

\* The end of the second part of a block is that of the block.
LEMMA ElseEnd ==
    ASSUME NEW c, Sound(c), NEW begins, Links(c, begins), NEW i \in DOMAIN c, c[i].op \in Begins,
           NEW b \in DOMAIN c, c[b].op = "orelse", i < b, b < CloseOf(c, i),
           Depth(c, b) = Depth(c, i) + 1, ElseOf(c, i) = {b}
    PROVE  c[b].end = CloseOf(c, i)
<1>0. Len(c) \in Nat /\ DOMAIN c = 1..Len(c) /\ i \in Nat \ {0} /\ b \in Nat \ {0}
  BY CodeTypes DEF Sound
<1>1. Depth(c, b + 1) = Depth(c, i) + 1
  <2>1. Depth(c, b) \in Int /\ Depth(c, b + 1) = Depth(c, b) + Change(c[b].op)
    BY <1>0, DepthIs
  <2> QED
    BY <2>1 DEF Change, Begins
<1>2. Opens(c, b) /\ i <= b
  BY <1>0 DEF Opens
<1>3. /\ c[b].end \in (b + 1)..CloseOf(c, i) /\ c[c[b].end].op \in {"orelse", "end"}
      /\ c[c[b].end].op = "end" => c[b].end = CloseOf(c, i)
      /\ c[c[b].end].op = "orelse" => c[b].end \in ElseOf(c, i)
  BY <1>1, <1>2, LinkedWithin
<1>4. c[b].end # b
  BY <1>0, <1>3
<1> QED
  BY <1>3, <1>4

\* A block within another has nothing of the other's second part.
LEMMA ElseNotWithin ==
    ASSUME NEW c, Sound(c), NEW k \in DOMAIN c, c[k].op \in Begins, NEW i \in Open(c, k),
           NEW j \in ElseOf(c, i)
    PROVE  j \in Nat /\ ~(k <= j /\ j <= CloseOf(c, k))
<1>0. Len(c) \in Nat /\ DOMAIN c = 1..Len(c) /\ k \in Nat \ {0} /\ k \in 1..(Len(c) + 1)
  BY CodeTypes DEF Sound
<1>1. i \in DOMAIN c /\ i \in Nat \ {0} /\ CloseOf(c, i) \in DOMAIN c
      /\ Depth(c, i) \in Nat /\ Depth(c, i) < Depth(c, k)
  BY <1>0, OpenIs
<1>2. j \in Nat /\ c[j].op = "orelse" /\ Depth(c, j) = Depth(c, i) + 1
  BY <1>0, <1>1 DEF ElseOf
<1>3. CloseOf(c, k) \in DOMAIN c /\ Depth(c, k) \in Int
  BY <1>0, CloseIs, DepthIs
<1> SUFFICES ASSUME k <= j, j <= CloseOf(c, k) PROVE FALSE
  BY <1>2
<1>4. k # j
  BY <1>2 DEF Begins
<1>5. j \in (k + 1)..CloseOf(c, k)
  BY <1>0, <1>2, <1>3, <1>4
<1>6. Depth(c, j) >= Depth(c, k) + 1
  BY <1>5, DeeperInside
<1> QED
  BY <1>1, <1>2, <1>3, <1>6

----------------------------------------------------------------------------
(* The stack of blocks, for each way in which a run goes on.               *)

LEMMA FlagSame ==
    ASSUME NEW c, NEW i, NEW p, NEW q, InElse(c, i, p) <=> InElse(c, i, q)
    PROVE  Flag(c, i, p) = Flag(c, i, q)
BY Zenon DEF Flag

LEMMA ElseStays ==
    ASSUME NEW c, NEW i, NEW p \in Nat, NEW q \in Nat, p <= q, ElseOf(c, i) \subseteq Nat,
           \A j \in ElseOf(c, i) : ~(p <= j /\ j < q)
    PROVE  InElse(c, i, p) <=> InElse(c, i, q)
<1>1. \A j \in Nat : (p <= j /\ j < q) \/ (j < p <=> j < q)
  OBVIOUS
<1> QED
  BY <1>1 DEF InElse

LEMMA ElseNat ==
    ASSUME NEW c, Sound(c), NEW i \in DOMAIN c, c[i].op \in Begins
    PROVE  ElseOf(c, i) \subseteq Nat
<1>1. Len(c) \in Nat /\ DOMAIN c = 1..Len(c)
  BY CodeTypes DEF Sound
<1>2. CloseOf(c, i) \in DOMAIN c
  BY CloseIs
<1> QED
  BY <1>1, <1>2 DEF ElseOf

LEMMA Pushed ==
    ASSUME NEW s \in Seq(Flags), NEW f \in Flags
    PROVE  /\ Append(s, f) \in Seq(Flags) /\ Len(Append(s, f)) = Len(s) + 1
           /\ Append(s, f)[Len(s) + 1] = f
           /\ \A k \in 1..Len(s) : Append(s, f)[k] = s[k]
OBVIOUS

LEMMA Popped ==
    ASSUME NEW S, NEW s \in Seq(S), s # <<>>
    PROVE  /\ VPop(s) \in Seq(S) /\ Len(VPop(s)) = Len(s) - 1 /\ Len(s) >= 1
           /\ VTop(s) = s[Len(s)] /\ VTop(s) \in S
           /\ \A k \in 1..(Len(s) - 1) : VPop(s)[k] = s[k]
<1>1. Len(s) \in Nat /\ Len(s) >= 1 /\ s[Len(s)] \in S
  OBVIOUS
<1>2. /\ SubSeq(s, 1, Len(s) - 1) \in Seq(S) /\ Len(SubSeq(s, 1, Len(s) - 1)) = Len(s) - 1
      /\ \A k \in 1..(Len(s) - 1) : SubSeq(s, 1, Len(s) - 1)[k] = s[k]
  <2> DEFINE n == Len(s) - 1
  <2>1. n \in Nat /\ n <= Len(s)
    BY <1>1
  <2> HIDE DEF n
  <2>2. SubSeq(s, 1, n) \in Seq(S)
    BY <1>1, <2>1
  <2>3. Len(SubSeq(s, 1, n)) = n
    BY <1>1, <2>1
  <2>4. \A k \in 1..n : SubSeq(s, 1, n)[k] = s[k]
    BY <1>1, <2>1
  <2> QED
    BY <2>2, <2>3, <2>4 DEF n
<1> QED
  BY <1>1, <1>2 DEF VPop, VTop

\* An instruction that is not about blocks.
LEMMA StackNext ==
    ASSUME NEW c, Sound(c), NEW begins, Links(c, begins), NEW pc \in DOMAIN c,
           NEW fop, NEW ill, NEW body,
           Stack(c, pc, fop, ill, body), c[pc].op \notin Begins \cup {"orelse", "end"}
    PROVE  Stack(c, pc + 1, fop, ill, body)
<1>0. Len(c) \in Nat /\ DOMAIN c = 1..Len(c) /\ pc \in Nat \ {0} /\ pc \in 1..(Len(c) + 1)
  BY CodeTypes DEF Sound
<1>1. Depth(c, pc + 1) = Depth(c, pc)
  <2>1. Depth(c, pc) \in Int /\ Depth(c, pc + 1) = Depth(c, pc) + Change(c[pc].op)
    BY <1>0, DepthIs
  <2> QED
    BY <2>1 DEF Change
<1>2. Open(c, pc + 1) = Open(c, pc)
  BY OpenNext
<1>3. ASSUME NEW i \in Open(c, pc)
      PROVE  fop[Depth(c, i) + 1] = Flag(c, i, pc + 1) /\ Alive(c, i, pc + 1, ill, body)
  <2>1. i \in DOMAIN c /\ c[i].op \in Begins
    BY <1>0, OpenIs
  <2>2. InElse(c, i, pc) <=> InElse(c, i, pc + 1)
    <3>1. \A j \in ElseOf(c, i) : j # pc
      BY DEF ElseOf
    <3>2. ElseOf(c, i) \subseteq Nat
      BY <2>1, ElseNat
    <3>3. \A j \in ElseOf(c, i) : ~(pc <= j /\ j < pc + 1)
      BY <1>0, <3>1, <3>2
    <3> QED
      BY <1>0, <3>2, <3>3, ElseStays
  <2>3. pc # c[i].end
    BY <2>1, BeginEnd
  <2>4. fop[Depth(c, i) + 1] = Flag(c, i, pc) /\ Alive(c, i, pc, ill, body)
    BY DEF Stack
  <2>5. Alive(c, i, pc + 1, ill, body)
    BY <2>2, <2>3, <2>4 DEF Alive
  <2> QED
    BY <2>2, <2>4, <2>5, FlagSame
<1> QED
  BY <1>1, <1>2, <1>3 DEF Stack

\* A block is entered at t, its beginning or what it is linked to.
LEMMA StackEnter ==
    ASSUME NEW c, Sound(c), NEW begins, Links(c, begins), NEW pc \in DOMAIN c, c[pc].op \in Begins,
           NEW fop \in Seq(Flags), NEW flag \in Flags, NEW ill, NEW body, NEW ill2, NEW body2,
           Stack(c, pc, fop, ill, body),
           NEW t \in (pc + 1)..CloseOf(c, pc), Depth(c, t) = Depth(c, pc) + 1,
           \A j \in ElseOf(c, pc) : t <= j,
           ~InElse(c, pc, t) => flag = Flag(c, pc, t) /\ Alive(c, pc, t, ill2, body2),
           (ill2 = ill /\ body2 = body) \/ Open(c, pc) = {}
    PROVE  Stack(c, t, Append(fop, flag), ill2, body2)
<1>0. Len(c) \in Nat /\ DOMAIN c = 1..Len(c) /\ pc \in Nat \ {0} /\ pc \in 1..(Len(c) + 1)
  BY CodeTypes DEF Sound
<1>1. /\ t \in 1..(Len(c) + 1) /\ t \in DOMAIN c /\ pc \in Open(c, t)
      /\ Open(c, t) = Open(c, pc) \cup {pc}
  BY OpenInside
<1>2. Len(fop) = Depth(c, pc) /\ Len(fop) \in Nat
  BY DEF Stack
<1>3. /\ Len(Append(fop, flag)) = Len(fop) + 1 /\ Append(fop, flag)[Len(fop) + 1] = flag
      /\ \A k \in 1..Len(fop) : Append(fop, flag)[k] = fop[k]
  BY Pushed
<1>4. ~InElse(c, pc, t)
  <2>1. ElseOf(c, pc) \subseteq Nat /\ t \in Nat
    BY <1>0, <1>1, ElseNat
  <2> QED
    BY <2>1 DEF InElse
<1>5. Append(fop, flag)[Depth(c, pc) + 1] = Flag(c, pc, t) /\ Alive(c, pc, t, ill2, body2)
  BY <1>2, <1>3, <1>4
<1>6. ASSUME NEW i \in Open(c, pc)
      PROVE  Append(fop, flag)[Depth(c, i) + 1] = Flag(c, i, t) /\ Alive(c, i, t, ill2, body2)
  <2>1. /\ i \in DOMAIN c /\ c[i].op \in Begins /\ Depth(c, i) \in Nat
        /\ Depth(c, i) < Depth(c, pc)
    BY <1>0, OpenIs
  <2>2. InElse(c, i, pc) <=> InElse(c, i, t)
    <3>1. ElseOf(c, i) \subseteq Nat
      BY <2>1, ElseNat
    <3>2. \A j \in ElseOf(c, i) : ~(pc <= j /\ j <= CloseOf(c, pc))
      BY ElseNotWithin
    <3>3. CloseOf(c, pc) \in Nat /\ t \in Nat /\ pc <= t /\ t <= CloseOf(c, pc)
      BY <1>0, <1>1, CloseIs
    <3>4. \A j \in ElseOf(c, i) : ~(pc <= j /\ j < t)
      BY <1>0, <3>1, <3>2, <3>3
    <3> QED
      BY <1>0, <3>1, <3>3, <3>4, ElseStays
  <2>3. pc # c[i].end
    <3>1. c[c[i].end].op \in {"orelse", "end"}
      BY <2>1, BeginEnd
    <3> QED
      BY <3>1 DEF Begins
  <2>4. fop[Depth(c, i) + 1] = Flag(c, i, pc) /\ Alive(c, i, pc, ill, body)
    BY DEF Stack
  <2>5. Append(fop, flag)[Depth(c, i) + 1] = fop[Depth(c, i) + 1]
    <3>1. Depth(c, i) + 1 \in 1..Len(fop)
      BY <1>2, <2>1
    <3> QED
      BY <1>3, <3>1
  <2>6. Alive(c, i, t, ill2, body2)
    BY <2>2, <2>3, <2>4 DEF Alive
  <2> QED
    BY <2>2, <2>4, <2>5, <2>6, FlagSame
<1>7. \A i \in Open(c, t) : Append(fop, flag)[Depth(c, i) + 1] = Flag(c, i, t)
                            /\ Alive(c, i, t, ill2, body2)
  BY <1>1, <1>5, <1>6
<1>8. Len(Append(fop, flag)) = Depth(c, t)
  BY <1>2, <1>3
<1> QED
  BY <1>7, <1>8 DEF Stack

LEMMA OpenAfter ==
    ASSUME NEW c, Sound(c), NEW i \in DOMAIN c, c[i].op \in Begins
    PROVE  Open(c, CloseOf(c, i) + 1) = Open(c, i)
<1>0. Len(c) \in Nat /\ DOMAIN c = 1..Len(c) /\ i \in Nat \ {0} /\ i \in 1..(Len(c) + 1)
  BY CodeTypes DEF Sound
<1> DEFINE e == CloseOf(c, i)
<1>1. e \in DOMAIN c /\ i < e /\ c[e].op = "end" /\ Depth(c, e) = Depth(c, i) + 1
  BY CloseIs
<1>2. Depth(c, i) \in Nat
  BY AfterClose
<1>3. Open(c, e) = Open(c, i) \cup {i}
  <2>1. e \in (i + 1)..CloseOf(c, i)
    BY <1>0, <1>1
  <2> QED
    BY <1>1, <2>1, OpenInside
<1>4. Open(c, e + 1) = {k \in Open(c, e) : Depth(c, k) < Depth(c, e) - 1}
  BY <1>1, OpenNext
<1>5. \A k \in Open(c, i) : Depth(c, k) \in Nat /\ Depth(c, k) < Depth(c, i)
  BY <1>0, OpenIs
<1>6. Depth(c, e) - 1 = Depth(c, i)
  BY <1>1, <1>2
<1>7. Open(c, e + 1) = {k \in Open(c, i) \cup {i} : Depth(c, k) < Depth(c, i)}
  BY <1>3, <1>4, <1>6
<1>8. ~(Depth(c, i) < Depth(c, i))
  BY <1>2
<1> QED
  BY <1>5, <1>7, <1>8, Zenon

\* The innermost block is left, at its end or from its second part.
LEMMA StackLeave ==
    ASSUME NEW c, Sound(c), NEW pc \in DOMAIN c, c[pc].op \in {"end", "orelse"},
           NEW begins, Links(c, begins),
           NEW fop \in Seq(Flags), NEW ill, NEW body, NEW ill2, NEW body2,
           Stack(c, pc, fop, ill, body),
           NEW i \in DOMAIN c, c[i].op \in Begins, i < pc, pc <= CloseOf(c, i),
           Depth(c, pc) = Depth(c, i) + 1, Open(c, pc) = Open(c, i) \cup {i},
           (ill2 = ill /\ body2 = body) \/ Open(c, i) = {}
    PROVE  Stack(c, CloseOf(c, i) + 1, VPop(fop), ill2, body2)
<1>0. Len(c) \in Nat /\ DOMAIN c = 1..Len(c) /\ pc \in Nat \ {0} /\ pc \in 1..(Len(c) + 1)
      /\ i \in Nat \ {0} /\ i \in 1..(Len(c) + 1)
  BY CodeTypes DEF Sound
<1> DEFINE e == CloseOf(c, i)
<1>1. e \in DOMAIN c /\ i < e /\ c[e].op = "end" /\ Depth(c, e) = Depth(c, i) + 1
  BY CloseIs
<1>2. e + 1 \in 1..(Len(c) + 1) /\ Depth(c, e + 1) = Depth(c, i) /\ Depth(c, i) \in Nat
  BY AfterClose
<1>5. Open(c, e + 1) = Open(c, i)
  BY OpenAfter
<1>6. Len(fop) = Depth(c, i) + 1
  BY DEF Stack
<1>7. Len(VPop(fop)) = Len(fop) - 1 /\ \A k \in 1..(Len(fop) - 1) : VPop(fop)[k] = fop[k]
  <2>1. fop # <<>>
    BY <1>2, <1>6
  <2> QED
    BY <2>1, Popped
<1>8. ASSUME NEW k \in Open(c, i)
      PROVE  VPop(fop)[Depth(c, k) + 1] = Flag(c, k, e + 1) /\ Alive(c, k, e + 1, ill2, body2)
  <2>1. /\ k \in DOMAIN c /\ c[k].op \in Begins /\ Depth(c, k) \in Nat
        /\ Depth(c, k) < Depth(c, i)
    BY <1>0, OpenIs
  <2>2. InElse(c, k, pc) <=> InElse(c, k, e + 1)
    <3>1. ElseOf(c, k) \subseteq Nat
      BY <2>1, ElseNat
    <3>2. \A j \in ElseOf(c, k) : ~(i <= j /\ j <= e)
      BY ElseNotWithin
    <3>3. e \in Nat /\ pc <= e
      BY <1>0, <1>1
    <3>4. \A j \in ElseOf(c, k) : ~(pc <= j /\ j < e + 1)
      BY <1>0, <3>1, <3>2, <3>3
    <3> HIDE DEF e
    <3> QED
      BY <1>0, <3>1, <3>3, <3>4, ElseStays
  <2>3. pc # c[k].end
    <3>1. Depth(c, c[k].end) = Depth(c, k) + 1
      BY <2>1, BeginEnd
    <3> QED
      BY <1>2, <2>1, <3>1
  <2>4. fop[Depth(c, k) + 1] = Flag(c, k, pc) /\ Alive(c, k, pc, ill, body)
    BY DEF Stack
  <2>5. VPop(fop)[Depth(c, k) + 1] = fop[Depth(c, k) + 1]
    <3>1. Depth(c, k) + 1 \in 1..(Len(fop) - 1)
      BY <1>2, <1>6, <2>1
    <3> QED
      BY <1>7, <3>1
  <2> HIDE DEF e
  <2>6. Alive(c, k, e + 1, ill2, body2)
    BY <2>2, <2>3, <2>4 DEF Alive
  <2> QED
    BY <2>2, <2>4, <2>5, <2>6, FlagSame
<1>9. Len(VPop(fop)) = Depth(c, e + 1)
  BY <1>2, <1>6, <1>7
<1> QED
  BY <1>5, <1>8, <1>9 DEF Stack

\* The second part of the innermost block is entered.
LEMMA StackElse ==
    ASSUME NEW c, Sound(c), NEW pc \in DOMAIN c, c[pc].op = "orelse",
           NEW begins, Links(c, begins),
           NEW fop \in Seq(Flags), NEW ill, NEW body, Stack(c, pc, fop, ill, body),
           VTop(fop) # "IFTRUE"
    PROVE  Stack(c, pc + 1, Append(VPop(fop), "ORELSE"), ill, body)
<1>0. Len(c) \in Nat /\ DOMAIN c = 1..Len(c) /\ pc \in Nat \ {0} /\ pc \in 1..(Len(c) + 1)
  BY CodeTypes DEF Sound
<1>1. PICK i \in DOMAIN c :
         /\ c[i].op \in Begins /\ i < pc /\ pc <= CloseOf(c, i) /\ Depth(c, pc) = Depth(c, i) + 1
         /\ i \in Open(c, pc) /\ Open(c, pc) = Open(c, i) \cup {i}
         /\ ElseOf(c, i) = {pc} /\ pc < CloseOf(c, i)
         /\ c[i].op \notin {"illum", "solar"}
  BY TopOpen
<1>2. i \in Nat \ {0} /\ i \in 1..(Len(c) + 1) /\ Depth(c, i) \in Nat
  BY <1>0, <1>1, OpenIs
<1>3. Open(c, pc + 1) = Open(c, pc)
  BY <1>1, OpenNext DEF Begins
<1>4. Depth(c, pc + 1) = Depth(c, pc)
  <2>1. Depth(c, pc) \in Int /\ Depth(c, pc + 1) = Depth(c, pc) + Change(c[pc].op)
    BY <1>0, DepthIs
  <2> QED
    BY <2>1 DEF Change, Begins
<1>5. Len(fop) = Depth(c, i) + 1
  BY <1>1 DEF Stack
<1> DEFINE f == Append(VPop(fop), "ORELSE")
<1>6. VPop(fop) \in Seq(Flags) /\ Len(VPop(fop)) = Depth(c, i) /\ VTop(fop) = fop[Len(fop)]
      /\ \A k \in 1..Depth(c, i) : VPop(fop)[k] = fop[k]
  <2>1. fop # <<>>
    BY <1>2, <1>5
  <2>2. Len(fop) - 1 = Depth(c, i)
    BY <1>2, <1>5
  <2> QED
    BY <2>1, <2>2, Popped
<1>7. Len(f) = Depth(c, i) + 1 /\ f[Depth(c, i) + 1] = "ORELSE"
      /\ \A k \in 1..Depth(c, i) : f[k] = fop[k]
  <2>1. "ORELSE" \in Flags
    BY DEF Flags
  <2>2. /\ Len(f) = Len(VPop(fop)) + 1 /\ f[Len(VPop(fop)) + 1] = "ORELSE"
        /\ \A k \in 1..Len(VPop(fop)) : f[k] = VPop(fop)[k]
    BY <1>6, <2>1, Pushed
  <2> QED
    BY <1>6, <2>2
<1> HIDE DEF f
<1>8. InElse(c, i, pc + 1) /\ ~InElse(c, i, pc)
  BY <1>0, <1>1 DEF InElse
<1>9. f[Depth(c, i) + 1] = Flag(c, i, pc + 1) /\ Alive(c, i, pc + 1, ill, body)
  <2>1. Flag(c, i, pc + 1) = "ORELSE"
    BY <1>1, <1>8 DEF Flag
  <2>2. fop[Depth(c, i) + 1] = Flag(c, i, pc)
    BY <1>1 DEF Stack
  <2>3. c[i].op # "ifT"
    BY <1>5, <1>6, <1>8, <2>2 DEF Flag
  <2> QED
    BY <1>1, <1>7, <1>8, <2>1, <2>3 DEF Alive
<1>10. ASSUME NEW k \in Open(c, i)
       PROVE  f[Depth(c, k) + 1] = Flag(c, k, pc + 1) /\ Alive(c, k, pc + 1, ill, body)
  <2>1. /\ k \in DOMAIN c /\ c[k].op \in Begins /\ Depth(c, k) \in Nat
        /\ Depth(c, k) < Depth(c, i)
    BY <1>2, OpenIs
  <2>2. InElse(c, k, pc) <=> InElse(c, k, pc + 1)
    <3>1. ElseOf(c, k) \subseteq Nat
      BY <2>1, ElseNat
    <3>2. \A j \in ElseOf(c, k) : ~(i <= j /\ j <= CloseOf(c, i))
      BY <1>1, ElseNotWithin
    <3>3. CloseOf(c, i) \in Nat
      BY <1>0, <1>1, CloseIs
    <3>4. \A j \in ElseOf(c, k) : ~(pc <= j /\ j < pc + 1)
      BY <1>0, <1>1, <1>2, <3>1, <3>2, <3>3
    <3> QED
      BY <1>0, <3>1, <3>4, ElseStays
  <2>3. pc # c[k].end
    <3>1. Depth(c, c[k].end) = Depth(c, k) + 1
      BY <2>1, BeginEnd
    <3> QED
      BY <1>1, <1>2, <2>1, <3>1
  <2>4. fop[Depth(c, k) + 1] = Flag(c, k, pc) /\ Alive(c, k, pc, ill, body)
    BY <1>1 DEF Stack
  <2>5. f[Depth(c, k) + 1] = fop[Depth(c, k) + 1]
    <3>1. Depth(c, k) + 1 \in 1..Depth(c, i)
      BY <1>2, <2>1
    <3> QED
      BY <1>7, <3>1
  <2>6. Alive(c, k, pc + 1, ill, body)
    BY <2>2, <2>3, <2>4 DEF Alive
  <2> QED
    BY <2>2, <2>4, <2>5, <2>6, FlagSame
<1> QED
  BY <1>1, <1>3, <1>4, <1>7, <1>9, <1>10 DEF Stack, f

----------------------------------------------------------------------------
(* The steps of a run.                                                     *)

LEMMA BegunIs ==
    ASSUME NEW L \in SUBSET (Nat \ {0}), IsFiniteSet(L)
    PROVE  /\ Cardinality(L) \in Nat /\ \A n \in Nat : Begun(L, n) \in Nat
           /\ Begun(L, 0) = 0 /\ Begun(L, 1) = 0
           /\ \A n \in Nat : (\A i \in L : i < n) => Begun(L, n) = Cardinality(L)
           /\ \A n \in Nat, i \in L : n <= i /\ (\A j \in L : n <= j => i <= j)
                                         => Begun(L, i + 1) = Begun(L, n) + 1
           /\ \A n \in Nat : n - 1 \in L => Begun(L, n) > 0
           /\ L # {} => Cardinality(L) # 0
<1>1. Cardinality(L) \in Nat
  BY FS_CardinalityType
<1>2. ASSUME NEW n \in Nat
      PROVE  IsFiniteSet({i \in L : i < n}) /\ Begun(L, n) \in Nat
  <2>1. {i \in L : i < n} \in SUBSET L
    OBVIOUS
  <2>2. IsFiniteSet({i \in L : i < n})
    BY <2>1, FS_Subset
  <2> QED
    BY <2>2, FS_CardinalityType DEF Begun
<1>0. \A i \in L : i \in Nat /\ i >= 1
  OBVIOUS
<1>3. Begun(L, 0) = 0 /\ Begun(L, 1) = 0
  <2>1. \A i \in L : ~(i < 0) /\ ~(i < 1)
    BY <1>0
  <2>2. {i \in L : i < 0} = {} /\ {i \in L : i < 1} = {}
    BY <2>1, Zenon
  <2> QED
    BY <2>2, FS_EmptySet DEF Begun
<1>4. ASSUME NEW n \in Nat, \A i \in L : i < n PROVE Begun(L, n) = Cardinality(L)
  <2>1. {i \in L : i < n} = L
    BY <1>4, Zenon
  <2> QED
    BY <2>1 DEF Begun
<1>5. ASSUME NEW n \in Nat, NEW i \in L, n <= i, \A j \in L : n <= j => i <= j
      PROVE  Begun(L, i + 1) = Begun(L, n) + 1
  <2> DEFINE A == {j \in L : j < n}
  <2>0. i \in Nat /\ \A j \in L : j \in Nat
    BY <1>0
  <2>1. \A j \in L : j < i + 1 <=> j < n \/ j = i
    BY <1>5, <2>0
  <2>2. {j \in L : j < i + 1} = A \cup {i}
    BY <2>1, Zenon
  <2>3. i \notin A
    BY <1>5, <2>0
  <2>4. IsFiniteSet(A) /\ Begun(L, n) = Cardinality(A)
    BY <1>2 DEF Begun
  <2>5. Begun(L, i + 1) = Cardinality({j \in L : j < i + 1})
    BY DEF Begun
  <2> HIDE DEF A
  <2>6. Cardinality(A \cup {i}) = Cardinality(A) + 1
    BY <2>3, <2>4, FS_AddElement
  <2> QED
    BY <2>2, <2>4, <2>5, <2>6
<1>6. ASSUME NEW n \in Nat, n - 1 \in L PROVE Begun(L, n) > 0
  <2> DEFINE A == {i \in L : i < n}
  <2>1. n - 1 < n
    OBVIOUS
  <2>2. n - 1 \in A
    BY <1>6, <2>1
  <2>3. IsFiniteSet(A) /\ Begun(L, n) = Cardinality(A) /\ Begun(L, n) \in Nat
    BY <1>2 DEF Begun
  <2> HIDE DEF A
  <2>4. Cardinality(A) # 0
    BY <2>2, <2>3, FS_EmptySet
  <2> QED
    BY <2>3, <2>4
<1>7. L # {} => Cardinality(L) # 0
  BY FS_EmptySet
<1> QED
  BY <1>1, <1>2, <1>3, <1>4, <1>5, <1>6, <1>7

\* A sound program that is linked, and the lights that are not ambient.
Setting(c, begins, L) ==
    Sound(c) /\ Links(c, begins) /\ L \in SUBSET (Nat \ {0}) /\ IsFiniteSet(L)

\* Execution does not come to what is skipped, but for the ends of its parts.
LEMMA NotSkipped ==
    ASSUME NEW c, NEW begins, NEW L, Setting(c, begins, L), NEW start, NEW pc \in DOMAIN c,
           NEW fop, NEW ill, NEW body,
           Stack(c, pc, fop, ill, body), Loop(c, L, start, pc, ill, body),
           ill \in Nat, body \in Nat, c[pc].op \notin {"orelse", "end"}
    PROVE  ~Skipped(c, Cardinality(L), pc) /\ (c[pc].op # "ret" => Passable(c, pc)) /\ ill # 1
<1>0. Sound(c) /\ Links(c, begins) /\ L \in SUBSET (Nat \ {0}) /\ IsFiniteSet(L)
  BY DEF Setting
<1>1. Len(c) \in Nat /\ DOMAIN c = 1..Len(c) /\ pc \in 1..(Len(c) + 1)
  BY <1>0, CodeTypes DEF Sound
<1>2. ill # 1
  <2> SUFFICES ASSUME ill = 1 PROVE FALSE
    OBVIOUS
  <2>1. body - 1 \in Open(c, pc) /\ pc = CloseOf(c, body - 1)
    BY DEF Loop
  <2>2. body - 1 \in DOMAIN c /\ c[body - 1].op \in Begins
    BY <1>0, <1>1, <2>1, OpenIs
  <2>3. c[CloseOf(c, body - 1)].op = "end"
    BY <1>0, <2>2, CloseIs
  <2> QED
    BY <2>1, <2>3
<1>3. ASSUME NEW i \in Open(c, pc)
      PROVE  /\ ~(c[i].op = "ifF" /\ ~InElse(c, i, pc))
             /\ ~(c[i].op = "ifT" /\ InElse(c, i, pc))
             /\ ~(c[i].op = "illum" /\ Cardinality(L) = 0)
             /\ c[i].op = "illum" => Depth(c, i) = 0
  <2>1. i \in DOMAIN c /\ c[i].op \in Begins
    BY <1>0, <1>1, OpenIs
  <2>2. pc # c[i].end
    BY <1>0, <2>1, BeginEnd
  <2>3. Alive(c, i, pc, ill, body)
    BY DEF Stack
  <2>4. ASSUME c[i].op = "illum" PROVE Cardinality(L) # 0
    <3>1. ill > 1
      BY <1>2, <2>3, <2>4 DEF Alive
    <3>2. ill - 1 \in L
      BY <3>1 DEF Loop
    <3> QED
      BY <1>0, <3>2, BegunIs
  <2> QED
    BY <2>2, <2>3, <2>4 DEF Alive
<1> QED
  BY <1>2, <1>3 DEF Skipped, Passable

\* An end or an orelse may be passed.
LEMMA EndPassable ==
    ASSUME NEW c, NEW pc, NEW fop, NEW ill, NEW body, Stack(c, pc, fop, ill, body), c[pc].op # "ret"
    PROVE  Passable(c, pc)
BY DEF Stack, Alive, Passable

(* A step forward to t that leaves the loop over the lights as it is; what *)
(* it jumps over is skipped.                                               *)
LEMMA RunForward ==
    ASSUME NEW c, NEW begins, NEW L, Setting(c, begins, L), NEW start, NEW pc \in DOMAIN c,
           NEW fop, NEW ill \in Nat, NEW body \in Nat, NEW visits, NEW fop2,
           RunOf(c, L, start, pc, fop, ill, body, visits),
           NEW t \in (pc + 1)..(Len(c) + 1), Stack(c, t, fop2, ill, body),
           c[pc].op \notin {"op", "ambient", "ret"},
           \A q \in (pc + 1)..(t - 1) : Skipped(c, Cardinality(L), q),
           ill > 0 => ill # 1 /\ body - 1 \in Open(c, t)
    PROVE  RunOf(c, L, start, t, fop2, ill, body, visits)
<1>0. Sound(c) /\ Len(c) \in Nat /\ DOMAIN c = 1..Len(c) /\ pc \in Nat
  BY CodeTypes DEF Sound, Setting
<1>1. /\ start \in 1..(Len(c) + 1) /\ pc \in start..(Len(c) + 1)
      /\ Stack(c, pc, fop, ill, body) /\ Loop(c, L, start, pc, ill, body)
      /\ Visits(c, L, start, pc, ill, body, visits)
      /\ PassedBy(c, L, start, pc, ill, body)
  BY DEF RunOf
<1>2. t \in start..(Len(c) + 1) /\ t \in Nat /\ pc < t
  BY <1>0, <1>1
<1>3. Loop(c, L, start, t, ill, body)
  BY <1>1 DEF Loop
<1>4. ASSUME NEW q \in DOMAIN c, c[q].op \in {"op", "ambient"}
      PROVE  Should(c, L, start, pc, ill, body, q) = Should(c, L, start, t, ill, body, q)
  <2>1. CASE q < start \/ Skipped(c, Cardinality(L), q)
    BY <2>1 DEF Should
  <2>2. CASE ~(q < start \/ Skipped(c, Cardinality(L), q))
    <3>1. q # pc
      BY <1>4
    <3>2. q \notin (pc + 1)..(t - 1)
      BY <2>2
    <3>3. (q < pc <=> q < t) /\ (q >= pc <=> q >= t)
      BY <1>0, <1>2, <3>1, <3>2
    <3> QED
      BY <2>2, <3>3 DEF Should
  <2> QED
    BY <2>1, <2>2
<1>5. Visits(c, L, start, t, ill, body, visits)
  BY <1>1, <1>4 DEF Visits
<1>6. PassedBy(c, L, start, t, ill, body)
  <2>1. Passable(c, pc)
    BY <1>1, EndPassable
  <2>2. ASSUME NEW q \in start..(t - 1)
        PROVE  Skipped(c, Cardinality(L), q) \/ Passable(c, q) \/ (ill = 1 /\ q >= body)
    <3>1. q \in start..(pc - 1) \/ q = pc \/ q \in (pc + 1)..(t - 1)
      BY <1>0, <1>1, <1>2
    <3> QED
      BY <1>1, <2>1, <3>1 DEF PassedBy
  <2> QED
    BY <1>1, <2>2 DEF PassedBy
<1> QED
  BY <1>1, <1>2, <1>3, <1>5, <1>6 DEF RunOf

\* An instruction that is counted.
LEMMA RunPlain ==
    ASSUME NEW c, NEW begins, NEW L, Setting(c, begins, L), NEW start, NEW pc \in DOMAIN c,
           NEW fop, NEW ill \in Nat, NEW body \in Nat, NEW visits,
           RunOf(c, L, start, pc, fop, ill, body, visits), visits \in [DOMAIN c -> Int],
           c[pc].op \in {"op", "ambient"}
    PROVE  RunOf(c, L, start, pc + 1, fop, ill, body, [visits EXCEPT ![pc] = @ + 1])
<1>0. Sound(c) /\ Links(c, begins) /\ Len(c) \in Nat /\ DOMAIN c = 1..Len(c) /\ pc \in Nat
      /\ L \in SUBSET (Nat \ {0}) /\ IsFiniteSet(L)
  BY CodeTypes DEF Sound, Setting
<1>1. /\ start \in 1..(Len(c) + 1) /\ pc \in start..(Len(c) + 1)
      /\ Stack(c, pc, fop, ill, body) /\ Loop(c, L, start, pc, ill, body)
      /\ Visits(c, L, start, pc, ill, body, visits)
      /\ PassedBy(c, L, start, pc, ill, body)
  BY DEF RunOf
<1>2. ~Skipped(c, Cardinality(L), pc) /\ Passable(c, pc) /\ ill # 1
  BY <1>1, NotSkipped
<1>3. Stack(c, pc + 1, fop, ill, body)
  BY <1>0, <1>1, StackNext DEF Begins
<1>4. Open(c, pc + 1) = Open(c, pc)
  BY <1>0, OpenNext DEF Begins
<1>5. Loop(c, L, start, pc + 1, ill, body)
  BY <1>1, <1>2, <1>4 DEF Loop
<1>6. Begun(L, ill) \in Nat
  BY <1>0, BegunIs
<1> DEFINE v == [visits EXCEPT ![pc] = @ + 1]
<1>7. DOMAIN v = DOMAIN c /\ v[pc] = visits[pc] + 1 /\ \A q \in DOMAIN c : q # pc => v[q] = visits[q]
  OBVIOUS
<1> HIDE DEF v
<1>8. ASSUME NEW q \in DOMAIN c, c[q].op \in {"op", "ambient"}, q # pc
      PROVE  v[q] = Should(c, L, start, pc + 1, ill, body, q)
  <2>1. (q < pc <=> q < pc + 1) /\ (q >= pc <=> q >= pc + 1)
    BY <1>0, <1>8
  <2>2. Should(c, L, start, pc, ill, body, q) = Should(c, L, start, pc + 1, ill, body, q)
    BY <2>1 DEF Should
  <2> QED
    BY <1>1, <1>7, <1>8, <2>2 DEF Visits
<1>9. v[pc] = Should(c, L, start, pc + 1, ill, body, pc)
  <2>1. visits[pc] = Should(c, L, start, pc, ill, body, pc)
    BY <1>1 DEF Visits
  <2>2. ~(pc < start \/ Skipped(c, Cardinality(L), pc)) /\ ~(pc < pc) /\ pc < pc + 1 /\ ~(pc >= pc + 1)
        /\ pc >= pc
    BY <1>0, <1>1, <1>2
  <2>3. CASE InBody(c, pc, ill, body)
    <3>1. visits[pc] = Begun(L, ill) - 1
      BY <2>1, <2>2, <2>3 DEF Should
    <3>2. Should(c, L, start, pc + 1, ill, body, pc) = Begun(L, ill)
      BY <2>2, <2>3 DEF Should
    <3> QED
      BY <1>6, <1>7, <3>1, <3>2
  <2>4. CASE ~InBody(c, pc, ill, body)
    <3>1. ASSUME NEW i \in Open(c, pc), c[i].op = "illum" PROVE FALSE
      <4>1. ill > 0 /\ body = i + 1
        BY <1>1, <3>1 DEF Stack, Alive
      <4>2. i \in DOMAIN c /\ i < pc /\ pc <= CloseOf(c, i) /\ CloseOf(c, i) \in DOMAIN c
            /\ c[i].op \in Begins
        BY <1>0, <1>1, OpenIs
      <4>3. c[CloseOf(c, i)].op = "end"
        BY <1>0, <4>2, CloseIs
      <4>4. pc # CloseOf(c, i)
        BY <4>3
      <4>5. body - 1 = i
        BY <1>0, <4>1, <4>2
      <4>6. body <= pc /\ pc < CloseOf(c, body - 1)
        BY <1>0, <4>1, <4>2, <4>4, <4>5
      <4> QED
        BY <2>4, <4>1, <4>6 DEF InBody
    <3>2. visits[pc] = 0
      BY <2>1, <2>2, <2>4 DEF Should
    <3>3. Should(c, L, start, pc + 1, ill, body, pc) = 1
      BY <2>2, <2>4, <3>1 DEF Should
    <3> QED
      BY <1>7, <3>2, <3>3
  <2> QED
    BY <2>3, <2>4
<1>10. Visits(c, L, start, pc + 1, ill, body, v)
  BY <1>7, <1>8, <1>9 DEF Visits
<1>11. PassedBy(c, L, start, pc + 1, ill, body)
  <2>1. ASSUME NEW q \in start..((pc + 1) - 1)
        PROVE  Skipped(c, Cardinality(L), q) \/ Passable(c, q) \/ (ill = 1 /\ q >= body)
    <3>1. q \in start..(pc - 1) \/ q = pc
      BY <1>0, <1>1
    <3> QED
      BY <1>1, <1>2, <3>1 DEF PassedBy
  <2> QED
    BY <1>1, <2>1 DEF PassedBy
<1>12. pc + 1 \in start..(Len(c) + 1)
  BY <1>0, <1>1
<1> QED
  BY <1>1, <1>3, <1>5, <1>10, <1>11, <1>12 DEF RunOf, v

\* On an empty stack no block is open and no loop is running.
LEMMA Outside ==
    ASSUME NEW c, Sound(c), NEW pc \in 1..(Len(c) + 1), NEW fop \in Seq(Flags), NEW ill \in Nat,
           NEW body, NEW L, NEW start, Stack(c, pc, fop, ill, body), Loop(c, L, start, pc, ill, body)
    PROVE  /\ fop = <<>> <=> Open(c, pc) = {}
           /\ fop = <<>> => ill = 0 /\ Depth(c, pc) = 0
           /\ Len(fop) = Depth(c, pc)
<1>1. Len(fop) = Depth(c, pc) /\ Len(fop) \in Nat /\ (fop = <<>> <=> Len(fop) = 0)
  BY DEF Stack
<1>2. ASSUME fop = <<>> PROVE Open(c, pc) = {}
  <2>1. \A i \in Open(c, pc) : Depth(c, i) \in Nat /\ Depth(c, i) < Depth(c, pc)
    BY OpenIs
  <2> QED
    BY <1>1, <1>2, <2>1
<1>3. ASSUME fop # <<>> PROVE Open(c, pc) # {}
  <2>1. 0 \in 0..(Depth(c, pc) - 1)
    BY <1>1, <1>3
  <2> QED
    BY <2>1, OpenAtDepth
<1>4. ASSUME fop = <<>> PROVE ill = 0
  BY <1>2, <1>4 DEF Loop
<1> QED
  BY <1>1, <1>2, <1>3, <1>4

\* The flags tell which block it is.
LEMMA FlagIs ==
    ASSUME NEW c, NEW i, NEW pc
    PROVE  /\ Flag(c, i, pc) = "ILLUM" <=> c[i].op = "illum"
           /\ Flag(c, i, pc) = "IFTRUE" => c[i].op = "ifT" /\ ~InElse(c, i, pc)
<1>1. CASE InElse(c, i, pc)
  <2> DEFINE e == InElse(c, i, pc)
  <2> HIDE DEF e
  <2>1. e
    BY <1>1 DEF e
  <2> QED
    BY <2>1, SMT DEF Flag, e
<1>2. CASE ~InElse(c, i, pc)
  BY <1>2, SMT DEF Flag
<1> QED
  BY <1>1, <1>2

\* The top of the stack is that of the innermost block.
LEMMA TopIs ==
    ASSUME NEW c, Sound(c), NEW pc \in DOMAIN c, c[pc].op \in {"end", "orelse"},
           NEW fop \in Seq(Flags), NEW ill, NEW body, Stack(c, pc, fop, ill, body)
    PROVE  fop # <<>> /\ \E i \in DOMAIN c :
             /\ c[i].op \in Begins /\ i < pc /\ pc <= CloseOf(c, i) /\ Depth(c, pc) = Depth(c, i) + 1
             /\ i \in Open(c, pc) /\ Open(c, pc) = Open(c, i) \cup {i}
             /\ c[pc].op = "end" => pc = CloseOf(c, i)
             /\ c[pc].op = "orelse" => ElseOf(c, i) = {pc} /\ pc < CloseOf(c, i)
             /\ VTop(fop) = Flag(c, i, pc) /\ Alive(c, i, pc, ill, body)
<1>1. PICK i \in DOMAIN c :
             /\ c[i].op \in Begins /\ i < pc /\ pc <= CloseOf(c, i) /\ Depth(c, pc) = Depth(c, i) + 1
             /\ i \in Open(c, pc) /\ Open(c, pc) = Open(c, i) \cup {i}
             /\ c[pc].op = "end" => pc = CloseOf(c, i)
             /\ c[pc].op = "orelse" => ElseOf(c, i) = {pc} /\ pc < CloseOf(c, i)
  BY TopOpen
<1>2. fop[Depth(c, i) + 1] = Flag(c, i, pc) /\ Alive(c, i, pc, ill, body) /\ Len(fop) = Depth(c, i) + 1
  BY <1>1 DEF Stack
<1>3. pc \in 1..(Len(c) + 1)
  BY CodeTypes DEF Sound
<1>4. Depth(c, i) \in Nat
  BY <1>1, <1>3, OpenIs
<1>5. fop # <<>>
  BY <1>2, <1>4
<1>6. VTop(fop) = Flag(c, i, pc)
  BY <1>2 DEF VTop
<1> QED
  BY <1>1, <1>2, <1>5, <1>6

\* The loop over the lights begins, at the end of its body.
LEMMA RunLoop ==
    ASSUME NEW c, NEW begins, NEW L, Setting(c, begins, L), NEW start, NEW pc \in DOMAIN c,
           NEW fop \in Seq(Flags), NEW ill \in Nat, NEW body \in Nat, NEW visits, fop = <<>>,
           RunOf(c, L, start, pc, fop, ill, body, visits), c[pc].op = "illum"
    PROVE  RunOf(c, L, start, c[pc].end, Append(fop, "ILLUM"), 1, pc + 1, visits)
<1>0. Sound(c) /\ Links(c, begins) /\ Len(c) \in Nat /\ DOMAIN c = 1..Len(c) /\ pc \in Nat
      /\ L \in SUBSET (Nat \ {0}) /\ IsFiniteSet(L) /\ c[pc].op \in Begins
  BY CodeTypes DEF Sound, Setting, Begins
<1>1. /\ start \in 1..(Len(c) + 1) /\ pc \in start..(Len(c) + 1)
      /\ Stack(c, pc, fop, ill, body) /\ Loop(c, L, start, pc, ill, body)
      /\ Visits(c, L, start, pc, ill, body, visits)
      /\ PassedBy(c, L, start, pc, ill, body)
  BY DEF RunOf
<1> DEFINE t == c[pc].end
<1>2. t = CloseOf(c, pc) /\ t \in (pc + 1)..CloseOf(c, pc) /\ t \in DOMAIN c
      /\ Depth(c, t) = Depth(c, pc) + 1 /\ \A j \in ElseOf(c, pc) : t <= j
  BY <1>0, BeginEnd
<1> HIDE DEF t
<1>3. "ILLUM" \in Flags /\ pc \in 1..(Len(c) + 1)
  BY <1>0 DEF Flags
<1>4. Open(c, pc) = {} /\ ill = 0 /\ Depth(c, pc) = 0
  BY <1>0, <1>1, <1>3, Outside
<1>5. Flag(c, pc, t) = "ILLUM" /\ Alive(c, pc, t, 1, pc + 1)
  BY <1>4, FlagIs DEF Alive
<1>6. Stack(c, t, Append(fop, "ILLUM"), 1, pc + 1)
  BY <1>0, <1>1, <1>2, <1>3, <1>4, <1>5, StackEnter
<1>7. pc \in Open(c, t)
  BY <1>0, <1>2, OpenInside
<1>8. Loop(c, L, start, t, 1, pc + 1)
  <2>1. (pc + 1) - 1 = pc
    BY <1>0
  <2> QED
    BY <1>0, <1>1, <1>2, <1>7, <2>1 DEF Loop
<1>9. Begun(L, 1) = 0
  BY <1>0, BegunIs
<1>10. ASSUME NEW q \in DOMAIN c, c[q].op \in {"op", "ambient"}
       PROVE  Should(c, L, start, pc, ill, body, q) = Should(c, L, start, t, 1, pc + 1, q)
  <2>1. CASE q < start \/ Skipped(c, Cardinality(L), q)
    BY <2>1 DEF Should
  <2>2. CASE ~(q < start \/ Skipped(c, Cardinality(L), q))
    <3>0. ~InBody(c, q, ill, body) /\ (pc + 1) - 1 = pc /\ q # pc /\ q \in Nat /\ t \in Nat /\ pc < t
      BY <1>0, <1>2, <1>4, <1>10 DEF InBody
    <3>1. CASE q < pc
      <4>1. ~InBody(c, q, 1, pc + 1) /\ q < t /\ ~(q >= pc) /\ ~(q >= t)
        BY <1>0, <3>0, <3>1 DEF InBody
      <4> QED
        BY <2>2, <3>0, <4>1 DEF Should
    <3>2. CASE pc < q /\ q < t
      <4>1. InBody(c, q, 1, pc + 1) /\ q >= pc
        BY <1>0, <1>2, <3>0, <3>2 DEF InBody
      <4> QED
        BY <1>9, <2>2, <3>0, <3>2, <4>1 DEF Should
    <3>3. CASE q >= t
      <4>1. ~InBody(c, q, 1, pc + 1) /\ q >= pc
        BY <1>0, <1>2, <3>0, <3>3 DEF InBody
      <4> QED
        BY <2>2, <3>0, <3>3, <4>1 DEF Should
    <3> QED
      BY <1>0, <3>0, <3>1, <3>2, <3>3
  <2> QED
    BY <2>1, <2>2
<1>11. Visits(c, L, start, t, 1, pc + 1, visits)
  BY <1>1, <1>10 DEF Visits
<1>12. PassedBy(c, L, start, t, 1, pc + 1)
  <2>1. Passable(c, pc)
    BY <1>1, NotSkipped
  <2>2. ASSUME NEW q \in start..(t - 1)
        PROVE  Skipped(c, Cardinality(L), q) \/ Passable(c, q) \/ (1 = 1 /\ q >= pc + 1)
    <3>1. q \in start..(pc - 1) \/ q = pc \/ q >= pc + 1
      BY <1>0, <1>1, <1>2
    <3> QED
      BY <1>1, <1>4, <2>1, <3>1 DEF PassedBy
  <2> QED
    BY <1>9, <2>2 DEF PassedBy
<1>13. t \in start..(Len(c) + 1)
  BY <1>0, <1>1, <1>2
<1> QED
  BY <1>1, <1>6, <1>8, <1>11, <1>12, <1>13 DEF RunOf, t

\* The end of the body of the illuminance that is run.
LEMMA LoopEnd ==
    ASSUME NEW c, Sound(c), NEW pc \in DOMAIN c, c[pc].op = "end", NEW fop \in Seq(Flags),
           NEW ill \in Nat, NEW body \in Nat, Stack(c, pc, fop, ill, body), VTop(fop) = "ILLUM"
    PROVE  /\ ill > 0 /\ body - 1 \in DOMAIN c /\ c[body - 1].op = "illum" /\ body \in Nat \ {0}
           /\ pc = CloseOf(c, body - 1) /\ body <= pc /\ Depth(c, pc) = Depth(c, body - 1) + 1
           /\ Depth(c, body - 1) = 0 /\ Open(c, body - 1) = {} /\ Open(c, pc) = {body - 1}
           /\ fop[1] = "ILLUM" /\ Len(fop) = 1
<1>0. Len(c) \in Nat /\ DOMAIN c = 1..Len(c)
  BY CodeTypes DEF Sound
<1>1. PICK i \in DOMAIN c :
             /\ c[i].op \in Begins /\ i < pc /\ pc <= CloseOf(c, i) /\ Depth(c, pc) = Depth(c, i) + 1
             /\ i \in Open(c, pc) /\ Open(c, pc) = Open(c, i) \cup {i}
             /\ pc = CloseOf(c, i)
             /\ VTop(fop) = Flag(c, i, pc) /\ Alive(c, i, pc, ill, body)
  BY TopIs
<1>2. c[i].op = "illum"
  BY <1>1, FlagIs
<1>3. Depth(c, i) = 0 /\ ill > 0 /\ body = i + 1
  BY <1>1, <1>2 DEF Alive
<1>4. body - 1 = i /\ body <= pc /\ body \in Nat \ {0} /\ i \in 1..(Len(c) + 1)
  BY <1>0, <1>1, <1>3
<1>5. Open(c, i) = {}
  <2>1. \A j \in Open(c, i) : Depth(c, j) \in Nat /\ Depth(c, j) < Depth(c, i)
    BY <1>4, OpenIs
  <2> QED
    BY <1>3, <2>1
<1>6. Len(fop) = 1 /\ fop[1] = "ILLUM"
  BY <1>1, <1>3 DEF Stack, VTop
<1> QED
  BY <1>1, <1>2, <1>3, <1>4, <1>5, <1>6

\* The next light that is not ambient.
LEMMA RunLight ==
    ASSUME NEW c, NEW begins, NEW L, Setting(c, begins, L), NEW start, NEW pc \in DOMAIN c,
           NEW fop \in Seq(Flags), NEW ill \in Nat, NEW body \in Nat, NEW visits,
           RunOf(c, L, start, pc, fop, ill, body, visits), c[pc].op = "end", VTop(fop) = "ILLUM",
           NEW k \in L, ill <= k, \A j \in L : ill <= j => k <= j
    PROVE  RunOf(c, L, start, body, fop, k + 1, body, visits)
<1>0. Sound(c) /\ Links(c, begins) /\ Len(c) \in Nat /\ DOMAIN c = 1..Len(c) /\ pc \in Nat
      /\ L \in SUBSET (Nat \ {0}) /\ IsFiniteSet(L) /\ k \in Nat /\ k > 0
  BY CodeTypes DEF Sound, Setting
<1>1. /\ start \in 1..(Len(c) + 1) /\ pc \in start..(Len(c) + 1)
      /\ Stack(c, pc, fop, ill, body) /\ Loop(c, L, start, pc, ill, body)
      /\ Visits(c, L, start, pc, ill, body, visits)
      /\ PassedBy(c, L, start, pc, ill, body)
  BY DEF RunOf
<1> DEFINE i == body - 1
<1>2. /\ ill > 0 /\ i \in DOMAIN c /\ c[i].op = "illum" /\ body \in Nat \ {0}
      /\ pc = CloseOf(c, i) /\ body <= pc /\ Depth(c, pc) = Depth(c, i) + 1
      /\ Depth(c, i) = 0 /\ Open(c, i) = {} /\ Open(c, pc) = {i}
      /\ fop[1] = "ILLUM" /\ Len(fop) = 1
  BY <1>0, <1>1, LoopEnd
<1>3. i + 1 = body /\ i \in Nat /\ c[i].op \in Begins
  BY <1>0, <1>2 DEF Begins
<1> HIDE DEF i
<1>4. Depth(c, body) = Depth(c, i) + 1
  BY <1>0, <1>2, <1>3, AfterClose
<1>5. i \in Open(c, body) /\ Open(c, body) = {i}
  <2>1. body \in (i + 1)..CloseOf(c, i)
    BY <1>0, <1>2, <1>3
  <2>2. i \in Open(c, body) /\ Open(c, body) = Open(c, i) \cup {i}
    BY <1>0, <1>2, <1>3, <1>4, <2>1, OpenInside
  <2> QED
    BY <1>2, <2>2
<1>6. Stack(c, body, fop, k + 1, body)
  <2>1. Flag(c, i, body) = "ILLUM"
    BY <1>2, FlagIs
  <2>2. Alive(c, i, body, k + 1, body)
    BY <1>0, <1>2, <1>3 DEF Alive
  <2> QED
    BY <1>2, <1>4, <1>5, <2>1, <2>2 DEF Stack
<1>7. start <= i
  BY <1>1, <1>2 DEF Loop, i
<1>8. Loop(c, L, start, body, k + 1, body)
  BY <1>0, <1>2, <1>5, <1>7 DEF Loop, i
<1>9. Begun(L, k + 1) = Begun(L, ill) + 1 /\ Begun(L, ill) \in Nat /\ (ill = 1 => Begun(L, ill) = 0)
  BY <1>0, BegunIs
<1>10. ASSUME NEW q \in DOMAIN c, c[q].op \in {"op", "ambient"}
       PROVE  Should(c, L, start, pc, ill, body, q) = Should(c, L, start, body, k + 1, body, q)
  <2>1. CASE q < start \/ Skipped(c, Cardinality(L), q)
    BY <2>1 DEF Should
  <2>2. CASE ~(q < start \/ Skipped(c, Cardinality(L), q))
    <3>0. q # i /\ q # pc /\ q \in Nat /\ (InBody(c, q, ill, body) <=> body <= q /\ q < pc)
          /\ (InBody(c, q, k + 1, body) <=> body <= q /\ q < pc)
      BY <1>0, <1>2, <1>10 DEF InBody, i
    <3>1. CASE body <= q /\ q < pc
      <4>1. Should(c, L, start, pc, ill, body, q) = Begun(L, ill)
        BY <2>2, <3>0, <3>1 DEF Should
      <4>2. ~(q < body)
        BY <1>2, <3>0, <3>1
      <4>3. Should(c, L, start, body, k + 1, body, q) = Begun(L, k + 1) - 1
        BY <2>2, <3>0, <3>1, <4>2 DEF Should
      <4> QED
        BY <1>9, <4>1, <4>3
    <3>2. CASE ~(body <= q /\ q < pc)
      <4>1. q >= pc <=> q >= body
        BY <1>0, <1>2, <3>0, <3>2
      <4> QED
        BY <2>2, <3>0, <3>2, <4>1 DEF Should
    <3> QED
      BY <3>1, <3>2
  <2> QED
    BY <2>1, <2>2
<1>11. Visits(c, L, start, body, k + 1, body, visits)
  BY <1>1, <1>10 DEF Visits
<1>12. PassedBy(c, L, start, body, k + 1, body)
  <2>1. ASSUME NEW q \in start..(body - 1)
        PROVE  Skipped(c, Cardinality(L), q) \/ Passable(c, q)
    <3>1. q \in start..(pc - 1) /\ ~(q >= body)
      BY <1>0, <1>1, <1>2
    <3> QED
      BY <1>1, <3>1 DEF PassedBy
  <2>2. ASSUME Begun(L, k + 1) > 1, NEW q \in body..(CloseOf(c, i) - 1)
        PROVE  Skipped(c, Cardinality(L), q) \/ Passable(c, q)
    <3>1. ill # 1
      BY <1>9, <2>2
    <3>2. q \in start..(pc - 1)
      BY <1>0, <1>1, <1>2, <1>3, <1>7
    <3> QED
      BY <1>1, <3>1, <3>2 DEF PassedBy
  <2> QED
    BY <2>1, <2>2 DEF PassedBy, i
<1>13. body \in start..(Len(c) + 1)
  BY <1>0, <1>1, <1>2, <1>3, <1>7
<1> QED
  BY <1>1, <1>6, <1>8, <1>11, <1>12, <1>13 DEF RunOf

\* The last light that is not ambient has been run.
LEMMA RunLightsOver ==
    ASSUME NEW c, NEW begins, NEW L, Setting(c, begins, L), NEW start, NEW pc \in DOMAIN c,
           NEW fop \in Seq(Flags), NEW ill \in Nat, NEW body \in Nat, NEW visits,
           RunOf(c, L, start, pc, fop, ill, body, visits), c[pc].op = "end", VTop(fop) = "ILLUM",
           \A j \in L : j < ill
    PROVE  RunOf(c, L, start, pc + 1, VPop(fop), 0, body, visits)
<1>0. Sound(c) /\ Links(c, begins) /\ Len(c) \in Nat /\ DOMAIN c = 1..Len(c) /\ pc \in Nat
      /\ L \in SUBSET (Nat \ {0}) /\ IsFiniteSet(L)
  BY CodeTypes DEF Sound, Setting
<1>1. /\ start \in 1..(Len(c) + 1) /\ pc \in start..(Len(c) + 1)
      /\ Stack(c, pc, fop, ill, body) /\ Loop(c, L, start, pc, ill, body)
      /\ Visits(c, L, start, pc, ill, body, visits)
      /\ PassedBy(c, L, start, pc, ill, body)
  BY DEF RunOf
<1> DEFINE i == body - 1
<1>2. /\ ill > 0 /\ i \in DOMAIN c /\ c[i].op = "illum" /\ body \in Nat \ {0}
      /\ pc = CloseOf(c, i) /\ body <= pc /\ Depth(c, pc) = Depth(c, i) + 1
      /\ Depth(c, i) = 0 /\ Open(c, i) = {} /\ Open(c, pc) = {i}
      /\ fop[1] = "ILLUM" /\ Len(fop) = 1
  BY <1>0, <1>1, LoopEnd
<1>3. i + 1 = body /\ i \in Nat /\ c[i].op \in Begins /\ i < pc
  BY <1>0, <1>2 DEF Begins
<1> HIDE DEF i
<1>4. Stack(c, pc + 1, VPop(fop), 0, body)
  BY <1>0, <1>1, <1>2, <1>3, StackLeave
<1>5. Loop(c, L, start, pc + 1, 0, body)
  BY DEF Loop
<1>6. Begun(L, ill) = Cardinality(L) /\ (ill = 1 => Cardinality(L) = 0) /\ Begun(L, 0) = 0
  BY <1>0, BegunIs
<1>7. ASSUME NEW q \in DOMAIN c, body <= q, q < pc PROVE i \in Open(c, q)
  BY <1>0, <1>2, <1>3, <1>7 DEF Open
<1>8. ASSUME NEW q \in DOMAIN c, c[q].op \in {"op", "ambient"}
      PROVE  Should(c, L, start, pc, ill, body, q) = Should(c, L, start, pc + 1, 0, body, q)
  <2>1. CASE q < start \/ Skipped(c, Cardinality(L), q)
    BY <2>1 DEF Should
  <2>2. CASE ~(q < start \/ Skipped(c, Cardinality(L), q))
    <3>0. q # pc /\ q \in Nat /\ (InBody(c, q, ill, body) <=> body <= q /\ q < pc)
          /\ ~InBody(c, q, 0, body) /\ (q >= pc + 1 <=> q >= pc)
      BY <1>0, <1>2, <1>8 DEF InBody, i
    <3>1. CASE body <= q /\ q < pc
      <4>1. Should(c, L, start, pc, ill, body, q) = Cardinality(L)
        BY <1>6, <2>2, <3>0, <3>1 DEF Should
      <4>2. i \in Open(c, q) /\ ~(q >= pc + 1)
        BY <1>0, <1>7, <3>0, <3>1
      <4>3. Should(c, L, start, pc + 1, 0, body, q) = Cardinality(L)
        BY <1>2, <2>2, <3>0, <4>2 DEF Should
      <4> QED
        BY <4>1, <4>3
    <3>2. CASE ~(body <= q /\ q < pc)
      BY <2>2, <3>0, <3>2 DEF Should
    <3> QED
      BY <3>1, <3>2
  <2> QED
    BY <2>1, <2>2
<1>9. Visits(c, L, start, pc + 1, 0, body, visits)
  BY <1>1, <1>8 DEF Visits
<1>10. PassedBy(c, L, start, pc + 1, 0, body)
  <2>1. Passable(c, pc)
    BY <1>1, EndPassable
  <2>2. ASSUME NEW q \in start..((pc + 1) - 1)
        PROVE  Skipped(c, Cardinality(L), q) \/ Passable(c, q)
    <3>1. q \in start..(pc - 1) \/ q = pc
      BY <1>0, <1>1
    <3>2. ASSUME q \in start..(pc - 1), ill = 1, q >= body PROVE Skipped(c, Cardinality(L), q)
      <4>1. q \in DOMAIN c /\ body <= q /\ q < pc
        BY <1>0, <1>1, <1>2, <3>2
      <4> QED
        BY <1>2, <1>6, <1>7, <3>2, <4>1 DEF Skipped
    <3> QED
      BY <1>1, <2>1, <3>1, <3>2 DEF PassedBy
  <2> QED
    BY <1>6, <2>2 DEF PassedBy
<1>11. pc + 1 \in start..(Len(c) + 1)
  BY <1>0, <1>1
<1> QED
  BY <1>1, <1>4, <1>5, <1>9, <1>10, <1>11 DEF RunOf

\* An illuminance without lights is passed.
LEMMA RunNoLights ==
    ASSUME NEW c, NEW begins, NEW L, Setting(c, begins, L), NEW start, NEW pc \in DOMAIN c,
           NEW fop \in Seq(Flags), NEW ill \in Nat, NEW body \in Nat, NEW visits, fop = <<>>,
           RunOf(c, L, start, pc, fop, ill, body, visits), c[pc].op = "illum", L = {}
    PROVE  RunOf(c, L, start, c[pc].end + 1, fop, ill, body, visits) /\ c[pc].end \in DOMAIN c
<1>0. Sound(c) /\ Links(c, begins) /\ Len(c) \in Nat /\ DOMAIN c = 1..Len(c) /\ pc \in Nat
      /\ pc \in 1..(Len(c) + 1) /\ c[pc].op \in Begins
  BY CodeTypes DEF Sound, Setting, Begins
<1>1. Stack(c, pc, fop, ill, body) /\ Loop(c, L, start, pc, ill, body)
  BY DEF RunOf
<1>2. Open(c, pc) = {} /\ ill = 0 /\ Depth(c, pc) = 0 /\ Len(fop) = 0
  BY <1>0, <1>1, Outside
<1> DEFINE e == c[pc].end
<1>3. e = CloseOf(c, pc) /\ e \in (pc + 1)..CloseOf(c, pc) /\ e \in DOMAIN c
  BY <1>0, BeginEnd
<1> HIDE DEF e
<1>4. Open(c, e + 1) = {} /\ Depth(c, e + 1) = 0
  BY <1>0, <1>2, <1>3, OpenAfter, AfterClose
<1>5. Stack(c, e + 1, fop, ill, body)
  BY <1>2, <1>4 DEF Stack
<1>6. ASSUME NEW q \in (pc + 1)..((e + 1) - 1) PROVE Skipped(c, Cardinality(L), q)
  <2>1. pc \in Open(c, q)
    BY <1>0, <1>3 DEF Open
  <2>2. Cardinality(L) = 0
    BY FS_EmptySet
  <2> QED
    BY <2>1, <2>2 DEF Skipped
<1>7. e + 1 \in (pc + 1)..(Len(c) + 1)
  BY <1>0, <1>3
<1>8. c[pc].op \notin {"op", "ambient", "ret"}
  BY <1>0 DEF Begins
<1>9. RunOf(c, L, start, e + 1, fop, ill, body, visits)
  BY <1>2, <1>5, <1>6, <1>7, <1>8, RunForward
<1> QED
  BY <1>3, <1>9 DEF e

\* A block other than an illuminance is entered.
LEMMA RunEnter ==
    ASSUME NEW c, NEW begins, NEW L, Setting(c, begins, L), NEW start, NEW pc \in DOMAIN c,
           NEW fop \in Seq(Flags), NEW ill \in Nat, NEW body \in Nat, NEW visits,
           RunOf(c, L, start, pc, fop, ill, body, visits),
           c[pc].op \in {"ifT", "ifF", "ifV", "solar"}, c[pc].op = "solar" => fop = <<>>,
           NEW flag \in Flags, NEW t,
           \/ c[pc].op = "solar" /\ flag = "SOLAR" /\ t = pc + 1
           \/ c[pc].op = "ifV" /\ flag = "IFVARY" /\ t = pc + 1
           \/ c[pc].op = "ifT" /\ flag = "IFTRUE" /\ t = pc + 1
           \/ c[pc].op = "ifF" /\ flag = "IF" /\ t = c[pc].end
    PROVE  RunOf(c, L, start, t, Append(fop, flag), ill, body, visits)
<1>0. Sound(c) /\ Links(c, begins) /\ Len(c) \in Nat /\ DOMAIN c = 1..Len(c) /\ pc \in Nat
      /\ pc \in 1..(Len(c) + 1) /\ c[pc].op \in Begins
  BY CodeTypes DEF Sound, Setting, Begins
<1>1. Stack(c, pc, fop, ill, body) /\ Loop(c, L, start, pc, ill, body)
  BY DEF RunOf
<1>2. c[pc].end \in (pc + 1)..CloseOf(c, pc) /\ Depth(c, c[pc].end) = Depth(c, pc) + 1
      /\ \A j \in ElseOf(c, pc) : c[pc].end <= j
  BY <1>0, BeginEnd
<1>3. CloseOf(c, pc) \in DOMAIN c /\ pc < CloseOf(c, pc) /\ Depth(c, pc + 1) = Depth(c, pc) + 1
  BY <1>0, CloseIs, AfterClose
<1>4. \A j \in ElseOf(c, pc) : j \in Nat /\ pc + 1 <= j
  BY <1>0, <1>3 DEF ElseOf
<1>5. t \in (pc + 1)..CloseOf(c, pc) /\ Depth(c, t) = Depth(c, pc) + 1
      /\ \A j \in ElseOf(c, pc) : t <= j
  <2>1. CASE t = pc + 1
    BY <1>0, <1>3, <1>4, <2>1
  <2>2. CASE t = c[pc].end
    BY <1>2, <2>2
  <2> QED
    BY <2>1, <2>2
<1>6. ~InElse(c, pc, t)
  BY <1>0, <1>3, <1>4, <1>5 DEF InElse
<1>7. flag = Flag(c, pc, t)
  <2> DEFINE e == InElse(c, pc, t)
  <2>1. ~e
    BY <1>6
  <2> HIDE DEF e
  <2> QED
    BY <2>1 DEF Flag, e
<1>8. c[pc].op = "solar" => Depth(c, pc) = 0
  BY <1>0, <1>1, Outside
<1>9. Alive(c, pc, t, ill, body)
  BY <1>6, <1>8 DEF Alive
<1>10. Stack(c, t, Append(fop, flag), ill, body)
  BY <1>0, <1>1, <1>5, <1>7, <1>9, StackEnter
<1>11. Open(c, t) = Open(c, pc) \cup {pc}
  BY <1>0, <1>5, OpenInside
<1>12. ill # 1
  BY <1>1, NotSkipped
<1>13. ill > 0 => ill # 1 /\ body - 1 \in Open(c, t)
  BY <1>1, <1>11, <1>12 DEF Loop
<1>14. ASSUME NEW q \in (pc + 1)..(t - 1) PROVE Skipped(c, Cardinality(L), q)
  <2>1. c[pc].op = "ifF"
    BY <1>0
  <2>2. pc \in Open(c, q)
    BY <1>0, <1>3, <1>5 DEF Open
  <2>3. ~InElse(c, pc, q)
    BY <1>0, <1>3, <1>4, <1>5 DEF InElse
  <2> QED
    BY <2>1, <2>2, <2>3 DEF Skipped
<1>15. t \in (pc + 1)..(Len(c) + 1)
  BY <1>0, <1>3, <1>5
<1> QED
  BY <1>10, <1>13, <1>14, <1>15, RunForward

\* The second part of a block follows its first part or is entered.
LEMMA RunElse ==
    ASSUME NEW c, NEW begins, NEW L, Setting(c, begins, L), NEW start, NEW pc \in DOMAIN c,
           NEW fop \in Seq(Flags), NEW ill \in Nat, NEW body \in Nat, NEW visits,
           RunOf(c, L, start, pc, fop, ill, body, visits), c[pc].op = "orelse"
    PROVE  /\ VTop(fop) = "IFTRUE" =>
                 /\ RunOf(c, L, start, c[pc].end + 1, VPop(fop), ill, body, visits)
                 /\ c[pc].end \in DOMAIN c
           /\ VTop(fop) # "IFTRUE" =>
                 RunOf(c, L, start, pc + 1, Append(VPop(fop), "ORELSE"), ill, body, visits)
<1>0. Sound(c) /\ Links(c, begins) /\ Len(c) \in Nat /\ DOMAIN c = 1..Len(c) /\ pc \in Nat
      /\ pc \in 1..(Len(c) + 1) /\ c[pc].op \in {"end", "orelse"} /\ c[pc].op \notin {"op", "ambient", "ret"}
  BY CodeTypes DEF Sound, Setting, Begins
<1>1. Stack(c, pc, fop, ill, body) /\ Loop(c, L, start, pc, ill, body)
  BY DEF RunOf
<1>2. ill > 0 => ill # 1 /\ body - 1 \in Open(c, pc) /\ c[body - 1].op = "illum"
  <2> SUFFICES ASSUME ill > 0 PROVE ill # 1 /\ body - 1 \in Open(c, pc) /\ c[body - 1].op = "illum"
    OBVIOUS
  <2>1. body - 1 \in Open(c, pc) /\ c[body - 1].op = "illum" /\ (ill = 1 => pc = CloseOf(c, body - 1))
    BY <1>1 DEF Loop
  <2>2. body - 1 \in DOMAIN c /\ c[body - 1].op \in Begins
    BY <1>0, <2>1, OpenIs
  <2>3. c[CloseOf(c, body - 1)].op = "end"
    BY <1>0, <2>2, CloseIs
  <2> QED
    BY <2>1, <2>3
<1>3. PICK i \in DOMAIN c :
             /\ c[i].op \in Begins /\ i < pc /\ pc <= CloseOf(c, i) /\ Depth(c, pc) = Depth(c, i) + 1
             /\ i \in Open(c, pc) /\ Open(c, pc) = Open(c, i) \cup {i}
             /\ c[pc].op = "end" => pc = CloseOf(c, i)
             /\ c[pc].op = "orelse" => ElseOf(c, i) = {pc} /\ pc < CloseOf(c, i)
             /\ VTop(fop) = Flag(c, i, pc) /\ Alive(c, i, pc, ill, body)
  BY <1>0, <1>1, TopIs
<1>4. CASE VTop(fop) = "IFTRUE"
  <2> DEFINE e == c[pc].end
  <2>1. c[i].op = "ifT"
    BY <1>3, <1>4, FlagIs
  <2>2. e = CloseOf(c, i) /\ e \in DOMAIN c
    BY <1>0, <1>3, ElseEnd, CloseIs
  <2> HIDE DEF e
  <2>3. Stack(c, e + 1, VPop(fop), ill, body)
    BY <1>0, <1>1, <1>3, <2>2, StackLeave
  <2>4. Open(c, e + 1) = Open(c, i)
    BY <1>0, <1>3, <2>2, OpenAfter
  <2>5. ill > 0 => ill # 1 /\ body - 1 \in Open(c, e + 1)
    BY <1>2, <1>3, <2>1, <2>4
  <2>6. ASSUME NEW q \in (pc + 1)..((e + 1) - 1) PROVE Skipped(c, Cardinality(L), q)
    <3>1. i \in Open(c, q) /\ pc < q
      BY <1>0, <1>3, <2>2 DEF Open
    <3>2. InElse(c, i, q)
      BY <1>3, <3>1 DEF InElse
    <3> QED
      BY <2>1, <3>1, <3>2 DEF Skipped
  <2>7. e + 1 \in (pc + 1)..(Len(c) + 1)
    BY <1>0, <1>3, <2>2
  <2>8. RunOf(c, L, start, e + 1, VPop(fop), ill, body, visits)
    BY <1>0, <2>3, <2>5, <2>6, <2>7, RunForward
  <2> QED
    BY <1>4, <2>2, <2>8 DEF e
<1>5. CASE VTop(fop) # "IFTRUE"
  <2>1. Stack(c, pc + 1, Append(VPop(fop), "ORELSE"), ill, body)
    BY <1>0, <1>1, <1>5, StackElse
  <2>2. Open(c, pc + 1) = Open(c, pc)
    BY <1>0, OpenNext DEF Begins
  <2>3. ill > 0 => ill # 1 /\ body - 1 \in Open(c, pc + 1)
    BY <1>2, <2>2
  <2>4. pc + 1 \in (pc + 1)..(Len(c) + 1) /\ \A q \in (pc + 1)..((pc + 1) - 1) : FALSE
    BY <1>0
  <2>5. RunOf(c, L, start, pc + 1, Append(VPop(fop), "ORELSE"), ill, body, visits)
    BY <1>0, <2>1, <2>3, <2>4, RunForward
  <2> QED
    BY <1>5, <2>5
<1> QED
  BY <1>4, <1>5

\* A block other than an illuminance ends.
LEMMA RunEnd ==
    ASSUME NEW c, NEW begins, NEW L, Setting(c, begins, L), NEW start, NEW pc \in DOMAIN c,
           NEW fop \in Seq(Flags), NEW ill \in Nat, NEW body \in Nat, NEW visits,
           RunOf(c, L, start, pc, fop, ill, body, visits), c[pc].op = "end", VTop(fop) # "ILLUM"
    PROVE  RunOf(c, L, start, pc + 1, VPop(fop), ill, body, visits)
<1>0. Sound(c) /\ Links(c, begins) /\ Len(c) \in Nat /\ DOMAIN c = 1..Len(c) /\ pc \in Nat
      /\ pc \in 1..(Len(c) + 1) /\ c[pc].op \in {"end", "orelse"} /\ c[pc].op \notin {"op", "ambient", "ret"}
  BY CodeTypes DEF Sound, Setting, Begins
<1>1. Stack(c, pc, fop, ill, body) /\ Loop(c, L, start, pc, ill, body)
  BY DEF RunOf
<1>2. PICK i \in DOMAIN c :
             /\ c[i].op \in Begins /\ i < pc /\ pc <= CloseOf(c, i) /\ Depth(c, pc) = Depth(c, i) + 1
             /\ i \in Open(c, pc) /\ Open(c, pc) = Open(c, i) \cup {i}
             /\ pc = CloseOf(c, i)
             /\ VTop(fop) = Flag(c, i, pc)
  BY <1>0, <1>1, TopIs
<1>3. c[i].op # "illum"
  BY <1>2, FlagIs
<1>4. Stack(c, pc + 1, VPop(fop), ill, body)
  BY <1>0, <1>1, <1>2, StackLeave
<1>5. Open(c, pc + 1) = Open(c, i) /\ i \in 1..(Len(c) + 1)
  BY <1>0, <1>2, OpenAfter
<1>6. ASSUME ill > 0 PROVE ill # 1 /\ body - 1 \in Open(c, pc + 1)
  <2>1. body - 1 \in Open(c, pc) /\ c[body - 1].op = "illum" /\ (ill = 1 => pc = CloseOf(c, body - 1))
    BY <1>1, <1>6 DEF Loop
  <2>2. body - 1 \in Open(c, i)
    BY <1>2, <1>3, <2>1
  <2>3. /\ body - 1 \in DOMAIN c /\ c[body - 1].op \in Begins
        /\ Depth(c, body - 1) \in Nat /\ Depth(c, body - 1) < Depth(c, i)
    BY <1>0, <1>5, <2>2, OpenIs
  <2>4. Depth(c, CloseOf(c, body - 1)) = Depth(c, body - 1) + 1
    BY <1>0, <2>3, CloseIs
  <2>5. Depth(c, i) \in Nat
    BY <1>0, <1>2, OpenIs
  <2>6. ill # 1
    <3> SUFFICES ASSUME ill = 1 PROVE FALSE
      OBVIOUS
    <3>1. Depth(c, body - 1) + 1 = Depth(c, i) + 1
      BY <1>2, <2>1, <2>4
    <3> QED
      BY <2>3, <2>5, <3>1
  <2> QED
    BY <1>5, <2>2, <2>6
<1>7. pc + 1 \in (pc + 1)..(Len(c) + 1) /\ \A q \in (pc + 1)..((pc + 1) - 1) : FALSE
  BY <1>0
<1> QED
  BY <1>0, <1>4, <1>6, <1>7, RunForward

\* Where the run began.
LEMMA RunStart ==
    ASSUME NEW c, Sound(c), NEW L, NEW start \in 1..(Len(c) + 1), Depth(c, start) = 0,
           L \in SUBSET (Nat \ {0}), IsFiniteSet(L)
    PROVE  RunOf(c, L, start, start, <<>>, 0, 0, [i \in DOMAIN c |-> 0])
<1>0. Len(c) \in Nat /\ DOMAIN c = 1..Len(c) /\ start \in Nat
  BY CodeTypes DEF Sound
<1>1. Open(c, start) = {}
  <2>1. \A i \in Open(c, start) : Depth(c, i) \in Nat /\ Depth(c, i) < Depth(c, start)
    BY OpenIs
  <2> QED
    BY <2>1
<1>2. Stack(c, start, <<>>, 0, 0)
  BY <1>1 DEF Stack
<1>3. Loop(c, L, start, start, 0, 0)
  BY DEF Loop
<1>4. ASSUME NEW q \in DOMAIN c PROVE Should(c, L, start, start, 0, 0, q) = 0
  <2>1. ~InBody(c, q, 0, 0) /\ (~(q < start) => q >= start)
    BY <1>0 DEF InBody
  <2> QED
    BY <2>1 DEF Should
<1>5. Visits(c, L, start, start, 0, 0, [i \in DOMAIN c |-> 0])
  BY <1>4 DEF Visits
<1>6. Begun(L, 0) = 0
  BY BegunIs
<1>7. PassedBy(c, L, start, start, 0, 0)
  <2>1. \A q \in start..(start - 1) : FALSE
    BY <1>0
  <2> QED
    BY <1>6, <2>1 DEF PassedBy
<1>8. start \in start..(Len(c) + 1)
  BY <1>0
<1> QED
  BY <1>2, <1>3, <1>5, <1>7, <1>8 DEF RunOf

\* Where a run ends is what the text says.
LEMMA LastIs ==
    ASSUME NEW c, NEW begins, NEW L, Setting(c, begins, L), NEW start, NEW pc \in 1..(Len(c) + 1),
           NEW fop, NEW ill \in Nat, NEW body \in Nat, NEW visits,
           RunOf(c, L, start, pc, fop, ill, body, visits),
           pc \notin DOMAIN c \/ c[pc].op = "ret"
    PROVE  LastPC(c, Cardinality(L), start) = pc /\ ill # 1
<1>0. Sound(c) /\ Len(c) \in Nat /\ DOMAIN c = 1..Len(c) /\ pc \in Nat
  BY CodeTypes DEF Sound, Setting
<1>1. /\ start \in 1..(Len(c) + 1) /\ pc \in start..(Len(c) + 1)
      /\ Stack(c, pc, fop, ill, body) /\ Loop(c, L, start, pc, ill, body)
      /\ PassedBy(c, L, start, pc, ill, body)
  BY DEF RunOf
<1>2. ill # 1 /\ (pc \in DOMAIN c => ~Skipped(c, Cardinality(L), pc))
  <2>1. CASE pc \in DOMAIN c
    <3>1. c[pc].op \notin {"orelse", "end"}
      BY <2>1
    <3> QED
      BY <1>1, <2>1, <3>1, NotSkipped
  <2>2. CASE pc \notin DOMAIN c
    <3>1. ill # 1
      <4> SUFFICES ASSUME ill = 1 PROVE FALSE
        OBVIOUS
      <4>1. body - 1 \in Open(c, pc)
        BY <1>1 DEF Loop
      <4>2. pc <= CloseOf(c, body - 1) /\ CloseOf(c, body - 1) \in DOMAIN c
        BY <1>0, <4>1, OpenIs
      <4> QED
        BY <1>0, <2>2, <4>2
    <3> QED
      BY <2>2, <3>1
  <2> QED
    BY <2>1, <2>2
<1> DEFINE S == {Len(c) + 1} \cup
                {i \in start..Len(c) : c[i].op = "ret" /\ ~Skipped(c, Cardinality(L), i)}
<1>3. pc \in S
  BY <1>0, <1>1, <1>2
<1>4. ASSUME NEW i \in S PROVE pc <= i /\ i \in Nat
  <2>1. i \in Nat /\ i >= start /\ i <= Len(c) + 1
    BY <1>0, <1>1
  <2>2. ASSUME i < pc PROVE FALSE
    <3>1. i \in start..(pc - 1) /\ i # Len(c) + 1
      BY <1>0, <1>1, <2>1, <2>2
    <3>2. c[i].op = "ret" /\ ~Skipped(c, Cardinality(L), i)
      BY <3>1
    <3>3. Skipped(c, Cardinality(L), i) \/ Passable(c, i)
      BY <1>1, <1>2, <3>1 DEF PassedBy
    <3> QED
      BY <3>2, <3>3 DEF Passable
  <2> QED
    BY <1>0, <2>1, <2>2
<1>5. LastPC(c, Cardinality(L), start) = Min(S)
  BY DEF LastPC
<1> HIDE DEF S
<1>6. Min(S) \in S /\ \A i \in S : Min(S) <= i
  <2>1. S \in SUBSET Nat /\ S # {}
    BY <1>3, <1>4
  <2> QED
    BY <2>1, LeastExists
<1>7. Min(S) = pc
  <2>1. Min(S) <= pc /\ pc <= Min(S) /\ Min(S) \in Nat
    BY <1>3, <1>4, <1>6
  <2> QED
    BY <1>0, <2>1
<1> QED
  BY <1>2, <1>5, <1>7

\* A run that has come to its end has executed what the text says.
LEMMA RunIsOver ==
    ASSUME NEW c, NEW begins, NEW L, Setting(c, begins, L), NEW start, NEW pc \in 1..(Len(c) + 1),
           NEW fop, NEW ill \in Nat, NEW body \in Nat, NEW visits,
           RunOf(c, L, start, pc, fop, ill, body, visits),
           pc \notin DOMAIN c \/ c[pc].op = "ret",
           NEW q \in DOMAIN c, c[q].op \in {"op", "ambient"}
    PROVE  visits[q] = Expected(c, Cardinality(L), start, q)
<1>0. Sound(c) /\ Len(c) \in Nat /\ DOMAIN c = 1..Len(c) /\ pc \in Nat /\ q \in Nat /\ q # pc
      /\ L \in SUBSET (Nat \ {0}) /\ IsFiniteSet(L) /\ q \in 1..(Len(c) + 1)
  BY CodeTypes DEF Sound, Setting
<1> DEFINE n == Cardinality(L)
<1>1. /\ start \in 1..(Len(c) + 1) /\ pc \in start..(Len(c) + 1)
      /\ Stack(c, pc, fop, ill, body) /\ Loop(c, L, start, pc, ill, body)
      /\ PassedBy(c, L, start, pc, ill, body)
      /\ visits[q] = Should(c, L, start, pc, ill, body, q)
  BY DEF RunOf, Visits
<1>2. LastPC(c, n, start) = pc /\ ill # 1
  BY LastIs
<1>3. CASE q < start \/ Skipped(c, n, q)
  <2>1. visits[q] = 0
    BY <1>1, <1>3 DEF Should
  <2> QED
    BY <1>3, <2>1 DEF Expected
<1>4. CASE ~(q < start \/ Skipped(c, n, q)) /\ InBody(c, q, ill, body)
  <2>1. /\ ill > 1 /\ body - 1 \in Open(c, pc) /\ c[body - 1].op = "illum" /\ ill - 1 \in L
        /\ start <= body - 1 /\ body <= q /\ q < CloseOf(c, body - 1)
    BY <1>1, <1>2, <1>4 DEF InBody, Loop
  <2>2. /\ body - 1 \in DOMAIN c /\ c[body - 1].op \in Begins /\ pc <= CloseOf(c, body - 1)
        /\ body - 1 < pc /\ CloseOf(c, body - 1) \in DOMAIN c
    BY <1>0, <2>1, OpenIs
  <2>3. Depth(c, body - 1) = 0
    BY <1>1, <2>1 DEF Stack, Alive
  <2>4. pc \in DOMAIN c /\ c[pc].op = "ret"
    BY <1>0, <2>2
  <2>5. pc \in body..(CloseOf(c, body - 1) - 1)
    <3>1. c[CloseOf(c, body - 1)].op = "end"
      BY <1>0, <2>2, CloseIs
    <3>2. pc # CloseOf(c, body - 1)
      BY <2>4, <3>1
    <3> QED
      BY <1>0, <2>2, <3>2
  <2>6. ~Skipped(c, n, pc)
    BY <1>1, <2>4, NotSkipped
  <2>7. Begun(L, ill) = 1
    <3>1. Begun(L, ill) \in Nat /\ Begun(L, ill) > 0
      BY <1>0, <2>1, BegunIs
    <3>2. ~(Begun(L, ill) > 1)
      BY <1>1, <2>4, <2>5, <2>6 DEF PassedBy, Passable
    <3> QED
      BY <3>1, <3>2
  <2>8. CASE q > pc
    <3>1. visits[q] = 0
      BY <1>0, <1>1, <1>4, <2>7, <2>8 DEF Should
    <3> QED
      BY <1>2, <2>8, <3>1 DEF Expected
  <2>9. CASE q < pc
    <3>1. visits[q] = 1
      BY <1>0, <1>1, <1>4, <2>7, <2>9 DEF Should
    <3>2. body - 1 \in Open(c, q)
      BY <1>0, <2>1, <2>2 DEF Open
    <3>3. Passable(c, q)
      <4>1. q \in start..(pc - 1)
        BY <1>0, <1>1, <1>4, <2>9
      <4> QED
        BY <1>1, <1>2, <1>4, <4>1 DEF PassedBy
    <3>4. ASSUME NEW i \in Open(c, q), c[i].op = "illum" PROVE ~(pc > CloseOf(c, i))
      <4>1. Depth(c, i) = Depth(c, body - 1)
        BY <2>3, <3>3, <3>4 DEF Passable
      <4>2. i = body - 1
        BY <1>0, <3>2, <4>1, OneOpen
      <4> QED
        BY <1>0, <2>2, <4>2
    <3>5. ~(q > pc)
      BY <1>0, <2>9
    <3> QED
      BY <1>2, <1>4, <3>1, <3>4, <3>5 DEF Expected
  <2> QED
    BY <1>0, <2>8, <2>9
<1>5. CASE ~(q < start \/ Skipped(c, n, q)) /\ ~InBody(c, q, ill, body)
  <2>1. CASE q > pc
    <3>1. q >= pc
      BY <1>0, <2>1
    <3>2. visits[q] = 0
      BY <1>1, <1>5, <3>1 DEF Should
    <3> QED
      BY <1>2, <2>1, <3>2 DEF Expected
  <2>2. CASE q < pc
    <3>1. ~(q >= pc) /\ ~(q > pc)
      BY <1>0, <2>2
    <3>2. visits[q] = IF \E i \in Open(c, q) : c[i].op = "illum" THEN n ELSE 1
      BY <1>1, <1>5, <3>1 DEF Should
    <3>3. ASSUME NEW i \in Open(c, q), c[i].op = "illum" PROVE pc > CloseOf(c, i)
      <4>1. i \in DOMAIN c /\ i \in Nat /\ i < q /\ q <= CloseOf(c, i) /\ CloseOf(c, i) \in DOMAIN c
            /\ c[i].op \in Begins
        BY <1>0, OpenIs
      <4> SUFFICES ASSUME pc <= CloseOf(c, i) PROVE FALSE
        BY <1>0, <4>1
      <4>2. i \in Open(c, pc)
        BY <1>0, <2>2, <4>1 DEF Open
      <4>3. ill > 0 /\ body = i + 1
        BY <1>1, <3>3, <4>2 DEF Stack, Alive
      <4>4. body - 1 = i /\ body <= q /\ q < CloseOf(c, i)
        BY <1>0, <2>2, <4>1, <4>3
      <4> QED
        BY <1>5, <4>3, <4>4 DEF InBody
    <3>4. CASE \E i \in Open(c, q) : c[i].op = "illum"
      <4>1. \E i \in Open(c, q) : c[i].op = "illum" /\ pc > CloseOf(c, i)
        BY <3>3, <3>4
      <4> QED
        BY <1>2, <1>5, <3>1, <3>2, <3>4, <4>1 DEF Expected
    <3>5. CASE ~\E i \in Open(c, q) : c[i].op = "illum"
      BY <1>2, <1>5, <3>1, <3>2, <3>5 DEF Expected
    <3> QED
      BY <3>4, <3>5
  <2> QED
    BY <1>0, <2>1, <2>2
<1> QED
  BY <1>3, <1>4, <1>5

----------------------------------------------------------------------------
(* The parser.                                                             *)

LEMMA ProgramTypes ==
    ASSUME NEW n \in Nat, NEW c \in Programs(n), n < INVALID_ADDR
    PROVE  /\ Len(c) \in Nat /\ DOMAIN c = 1..Len(c) /\ c \in Code
           /\ \A i \in DOMAIN c : c[i].op \in Ops /\ c[i].end \in 1..n \cup {INVALID_ADDR}
<1> DEFINE R == [op : Ops, end : 1..n \cup {INVALID_ADDR}]
           T == [op : Ops, end : Nat]
<1>1. \A x \in R : x.op \in Ops /\ x.end \in 1..n \cup {INVALID_ADDR} /\ x \in T
  BY DEF INVALID_ADDR
<1>2. c \in Seq(R)
  BY DEF Programs
<1> HIDE DEF R, T
<1>3. Len(c) \in Nat /\ DOMAIN c = 1..Len(c) /\ \A i \in DOMAIN c : c[i] \in R
  BY <1>2
<1>4. c \in Seq(T)
  BY <1>1, <1>2, <1>3
<1>5. c \in Code
  BY <1>4 DEF Code, T
<1> QED
  BY <1>1, <1>3, <1>5

\* The code after a line, and what of it is as before.
Linking(c, begins, op) ==
    Append(IF op \in {"orelse", "end"} THEN [c EXCEPT ![VTop(begins)].end = Len(c) + 1] ELSE c,
           [op |-> op, end |-> INVALID_ADDR])

LEMMA LinkCode ==
    ASSUME NEW c, c \in Programs(Len(c)), NEW begins \in Seq(DOMAIN c), NEW op \in Ops, Len(c) \in Nat,
           op \in {"orelse", "end"} => begins # <<>>, Len(c) + 1 < INVALID_ADDR
    PROVE  LET d == Linking(c, begins, op) IN
           /\ d \in Programs(Len(c) + 1) /\ Len(d) = Len(c) + 1 /\ DOMAIN d = 1..(Len(c) + 1)
           /\ \A i \in DOMAIN c : d[i].op = c[i].op
           /\ \A i \in DOMAIN c :
                 d[i].end = IF op \in {"orelse", "end"} /\ i = VTop(begins) THEN Len(c) + 1 ELSE c[i].end
           /\ d[Len(c) + 1].op = op /\ d[Len(c) + 1].end = INVALID_ADDR
<1> DEFINE n == Len(c)
           R == [op : Ops, end : 1..(n + 1) \cup {INVALID_ADDR}]
           Q == [op : Ops, end : 1..n \cup {INVALID_ADDR}]
           x == [op |-> op, end |-> INVALID_ADDR]
           e == IF op \in {"orelse", "end"} THEN [c EXCEPT ![VTop(begins)].end = n + 1] ELSE c
<1>1. n \in Nat /\ DOMAIN c = 1..n /\ c \in Seq(Q)
  BY DEF Programs
<1>2. x \in R /\ \A y \in Q : y \in R /\ [y EXCEPT !.end = n + 1] \in R
                              /\ [y EXCEPT !.end = n + 1].op = y.op /\ [y EXCEPT !.end = n + 1].end = n + 1
  OBVIOUS
<1>3. x.op = op /\ x.end = INVALID_ADDR
  OBVIOUS
<1>4. op \in {"orelse", "end"} => VTop(begins) \in 1..n
  BY <1>1 DEF VTop
<1> HIDE DEF R, Q, x
<1>5. \A i \in 1..n : c[i] \in Q
  BY <1>1
<1>6. /\ e \in Seq(R) /\ Len(e) = n
      /\ \A i \in 1..n : /\ e[i].op = c[i].op
                         /\ e[i].end = IF op \in {"orelse", "end"} /\ i = VTop(begins) THEN n + 1 ELSE c[i].end
  <2>1. CASE op \in {"orelse", "end"}
    <3> DEFINE k == VTop(begins)
    <3>1. k \in 1..n
      BY <1>4, <2>1
    <3> HIDE DEF k
    <3>2. e = [c EXCEPT ![k].end = n + 1]
      BY <2>1 DEF k
    <3>3. DOMAIN e = 1..n /\ e[k] = [c[k] EXCEPT !.end = n + 1] /\ \A i \in 1..n : i # k => e[i] = c[i]
      BY <1>1, <3>1, <3>2
    <3> HIDE DEF e
    <3>4. \A i \in 1..n : e[i] \in R
      BY <1>2, <1>5, <3>1, <3>3
    <3>5. e = [i \in 1..n |-> e[i]]
      BY <3>2, <1>1
    <3>6. e \in Seq(R) /\ Len(e) = n
      BY <1>1, <3>4, <3>5
    <3>7. ASSUME NEW i \in 1..n
          PROVE  e[i].op = c[i].op /\ e[i].end = IF i = k THEN n + 1 ELSE c[i].end
      <4>1. CASE i = k
        BY <1>2, <1>5, <3>1, <3>3, <4>1
      <4>2. CASE i # k
        BY <3>3, <4>2
      <4> QED
        BY <4>1, <4>2
    <3> QED
      BY <2>1, <3>6, <3>7 DEF k
  <2>2. CASE op \notin {"orelse", "end"}
    <3>1. e = c
      BY <2>2
    <3>2. \A i \in 1..n : c[i] \in R
      BY <1>2, <1>5
    <3>3. c \in Seq(R) /\ Len(c) = n
      BY <1>1, <3>2
    <3> QED
      BY <2>2, <3>1, <3>3
  <2> QED
    BY <2>1, <2>2
<1>7. Linking(c, begins, op) = Append(e, x)
  BY DEF Linking, x
<1> HIDE DEF e
<1>8. /\ Append(e, x) \in Seq(R) /\ Len(Append(e, x)) = n + 1 /\ DOMAIN Append(e, x) = 1..(n + 1)
      /\ \A i \in 1..n : Append(e, x)[i] = e[i]
      /\ Append(e, x)[n + 1] = x
  BY <1>1, <1>2, <1>6
<1>9. Append(e, x) \in Programs(n + 1)
  BY <1>8 DEF Programs, R
<1> QED
  BY <1>1, <1>3, <1>6, <1>7, <1>8, <1>9

\* What is known of the code so far is so of the code with another line.
LEMMA LinkSame ==
    ASSUME NEW c, NEW d, NEW n \in Nat, DOMAIN c = 1..n, DOMAIN d = 1..(n + 1),
           \A i \in 1..n : d[i].op = c[i].op
    PROVE  /\ \A j \in 1..(n + 1) : Depth(d, j) = Depth(c, j)
           /\ \A b \in 1..n, e \in 1..(n + 1) : Inside(c, b, e) <=> Inside(d, b, e)
           /\ \A b \in 1..n : Opens(c, b) <=> Opens(d, b)
           /\ \A b \in 1..n, e \in 1..n : Linked(c, b, e) <=> Linked(d, b, e)
<1>1. ASSUME NEW j \in 1..(n + 1) PROVE Depth(d, j) = Depth(c, j)
  <2>1. \A i \in 1..(j - 1) : d[i].op = c[i].op
    OBVIOUS
  <2> QED
    BY <2>1, DepthOfPrefix
<1>2. ASSUME NEW b \in 1..n, NEW e \in 1..(n + 1) PROVE Inside(c, b, e) <=> Inside(d, b, e)
  <2>1. Depth(d, b + 1) = Depth(c, b + 1)
    BY <1>1
  <2>2. \A j \in (b + 1)..e : Depth(d, j) = Depth(c, j)
    BY <1>1
  <2>3. \A j \in (b + 1)..(e - 1) : Depth(d, j) = Depth(c, j) /\ d[j].op = c[j].op
    BY <1>1
  <2> QED
    BY <2>1, <2>2, <2>3 DEF Inside
<1>3. ASSUME NEW b \in 1..n, NEW e \in 1..n PROVE Linked(c, b, e) <=> Linked(d, b, e)
  <2>1. Depth(d, b + 1) = Depth(c, b + 1) /\ Depth(d, e) = Depth(c, e) /\ e \in DOMAIN c /\ e \in DOMAIN d
    BY <1>1
  <2> QED
    BY <1>2, <2>1 DEF Linked
<1> QED
  BY <1>1, <1>2, <1>3 DEF Opens

\* The blocks that are open after a line.
Beginning(begins, op, at) ==
    CASE op \in Begins -> Append(begins, at)
      [] op = "orelse" -> Append(VPop(begins), at)
      [] op = "end" -> VPop(begins)
      [] OTHER -> begins

\* How many of them were open before.
Kept(begins, op) == IF op \in {"orelse", "end"} THEN Len(begins) - 1 ELSE Len(begins)
More(op) == IF op \in Begins \cup {"orelse"} THEN 1 ELSE 0

LEMMA BeginningIs ==
    ASSUME NEW n \in Nat, NEW begins \in Seq(1..n), NEW op \in Ops,
           op \in {"orelse", "end"} => begins # <<>>
    PROVE  LET b2 == Beginning(begins, op, n + 1) IN
              /\ b2 \in Seq(1..(n + 1)) /\ Kept(begins, op) \in Nat /\ Len(b2) = Kept(begins, op) + More(op)
              /\ Len(b2) = Len(begins) + Change(op)
              /\ \A k \in 1..Kept(begins, op) : b2[k] = begins[k]
              /\ op \in Begins \cup {"orelse"} => b2[Len(b2)] = n + 1
<1> DEFINE S == 1..(n + 1)
           b2 == Beginning(begins, op, n + 1)
           p == op \in {"orelse", "end"}
           q == op \in Begins \cup {"orelse"}
<1>0. Len(begins) \in Nat /\ begins \in Seq(S) /\ n + 1 \in S
  OBVIOUS
<1>1. /\ op \in Begins => b2 = Append(begins, n + 1) /\ Change(op) = 1 /\ ~p /\ q
      /\ op = "orelse" => b2 = Append(VPop(begins), n + 1) /\ Change(op) = 0 /\ p /\ q
      /\ op = "end" => b2 = VPop(begins) /\ Change(op) = -1 /\ p /\ ~q
      /\ op \notin Begins \cup {"orelse", "end"} => b2 = begins /\ Change(op) = 0 /\ ~p /\ ~q
  BY DEF Beginning, Begins, Change
<1>2. p => begins # <<>>
  OBVIOUS
<1> DEFINE kept == Kept(begins, op)
           more == More(op)
<1>3. (p => kept = Len(begins) - 1) /\ (~p => kept = Len(begins)) /\ (q => more = 1) /\ (~q => more = 0)
  BY DEF Kept, More
<1> HIDE DEF S, p, q, kept, more
<1>4. ASSUME NEW s \in Seq(S)
      PROVE  /\ Append(s, n + 1) \in Seq(S) /\ Len(Append(s, n + 1)) = Len(s) + 1 /\ Len(s) \in Nat
             /\ \A k \in 1..Len(s) : Append(s, n + 1)[k] = s[k]
             /\ Append(s, n + 1)[Len(s) + 1] = n + 1
  BY <1>0
<1>5. ASSUME p
      PROVE  /\ VPop(begins) \in Seq(S) /\ Len(VPop(begins)) = Len(begins) - 1
             /\ Len(begins) - 1 \in Nat
             /\ \A k \in 1..(Len(begins) - 1) : VPop(begins)[k] = begins[k]
  <2>1. begins # <<>>
    BY <1>2, <1>5
  <2>2. /\ VPop(begins) \in Seq(S) /\ Len(VPop(begins)) = Len(begins) - 1 /\ Len(begins) >= 1
        /\ \A k \in 1..(Len(begins) - 1) : VPop(begins)[k] = begins[k]
    BY <1>0, <2>1, Popped
  <2> QED
    BY <1>0, <2>2
<1> HIDE DEF b2
<1>6. ASSUME op \in Begins
    PROVE  /\ b2 \in Seq(S) /\ kept \in Nat /\ Len(b2) = kept + more
           /\ Len(b2) = Len(begins) + Change(op)
           /\ \A k \in 1..kept : b2[k] = begins[k]
           /\ op \in Begins \cup {"orelse"} => b2[Len(b2)] = n + 1
  <2>1. b2 = Append(begins, n + 1) /\ Change(op) = 1 /\ kept = Len(begins) /\ more = 1
    BY <1>1, <1>3, <1>6
  <2> QED
    BY <1>0, <1>4, <2>1
<1>7. ASSUME op = "orelse"
    PROVE  /\ b2 \in Seq(S) /\ kept \in Nat /\ Len(b2) = kept + more
           /\ Len(b2) = Len(begins) + Change(op)
           /\ \A k \in 1..kept : b2[k] = begins[k]
           /\ op \in Begins \cup {"orelse"} => b2[Len(b2)] = n + 1
  <2>0. p
    BY <1>1, <1>7
  <2> DEFINE w == VPop(begins)
  <2>1. b2 = Append(w, n + 1) /\ Change(op) = 0 /\ kept = Len(begins) - 1 /\ more = 1
    BY <1>1, <1>3, <1>7
  <2>2. /\ w \in Seq(S) /\ Len(w) = Len(begins) - 1 /\ Len(begins) - 1 \in Nat
        /\ \A k \in 1..(Len(begins) - 1) : w[k] = begins[k]
    BY <1>5, <2>0
  <2> HIDE DEF w
  <2> QED
    BY <1>0, <1>4, <2>1, <2>2
<1>8. ASSUME op = "end"
    PROVE  /\ b2 \in Seq(S) /\ kept \in Nat /\ Len(b2) = kept + more
           /\ Len(b2) = Len(begins) + Change(op)
           /\ \A k \in 1..kept : b2[k] = begins[k]
           /\ op \in Begins \cup {"orelse"} => b2[Len(b2)] = n + 1
  <2>0. p /\ op \notin Begins \cup {"orelse"}
    BY <1>1, <1>8 DEF Begins
  <2>1. b2 = VPop(begins) /\ Change(op) = -1 /\ kept = Len(begins) - 1 /\ more = 0
    BY <1>1, <1>3, <1>8
  <2> QED
    BY <1>0, <1>5, <2>0, <2>1
<1>9. ASSUME op \notin Begins \cup {"orelse", "end"}
    PROVE  /\ b2 \in Seq(S) /\ kept \in Nat /\ Len(b2) = kept + more
           /\ Len(b2) = Len(begins) + Change(op)
           /\ \A k \in 1..kept : b2[k] = begins[k]
           /\ op \in Begins \cup {"orelse"} => b2[Len(b2)] = n + 1
  <2>0. op \notin Begins \cup {"orelse"}
    BY <1>9
  <2>1. b2 = begins /\ Change(op) = 0 /\ kept = Len(begins) /\ more = 0
    BY <1>1, <1>3, <1>9
  <2> QED
    BY <1>0, <2>0, <2>1
<1>10. /\ b2 \in Seq(S) /\ kept \in Nat /\ Len(b2) = kept + more
       /\ Len(b2) = Len(begins) + Change(op)
       /\ \A k \in 1..kept : b2[k] = begins[k]
       /\ op \in Begins \cup {"orelse"} => b2[Len(b2)] = n + 1
  BY <1>6, <1>7, <1>8, <1>9
<1> QED
  <2>1. b2 \in Seq(1..(n + 1))
    BY <1>10 DEF S
  <2>2. op \in Begins \cup {"orelse"} => b2[Len(b2)] = n + 1
    BY <1>10
  <2>3. /\ Kept(begins, op) \in Nat /\ Len(b2) = Kept(begins, op) + More(op)
        /\ Len(b2) = Len(begins) + Change(op) /\ \A k \in 1..Kept(begins, op) : b2[k] = begins[k]
    BY <1>10 DEF kept, more
  <2> QED
    BY <2>1, <2>2, <2>3 DEF b2

\* A line keeps the links of the code.
LEMMA LineLinks ==
    ASSUME NEW c, c \in Programs(Len(c)), Len(c) \in Nat, Nested(c), NEW begins, Links(c, begins),
           NEW op \in Ops, op \in {"orelse", "end"} => begins # <<>>, Len(c) + 1 < INVALID_ADDR
    PROVE  LET d == Linking(c, begins, op) IN
           /\ Nested(d) /\ Links(d, Beginning(begins, op, Len(c) + 1))
<1> DEFINE n == Len(c)
           d == Linking(c, begins, op)
           b2 == Beginning(begins, op, n + 1)
           kept == Kept(begins, op)
           closing == op \in {"orelse", "end"}
<1>1. /\ DOMAIN c = 1..n /\ begins \in Seq(1..n) /\ Len(begins) = Depth(c, n + 1) /\ n \in Nat
      /\ begins \in Seq(DOMAIN c) /\ Len(begins) \in Nat /\ DOMAIN begins = 1..Len(begins)
      /\ \A k \in 1..Len(begins) : begins[k] \in 1..n
  <2>1. DOMAIN c = 1..n
    BY ProgramTypes
  <2> QED
    BY <2>1 DEF Links
<1>2. /\ Len(d) = n + 1 /\ DOMAIN d = 1..(n + 1)
      /\ \A i \in 1..n : d[i].op = c[i].op
      /\ \A i \in 1..n : d[i].end = IF closing /\ i = VTop(begins) THEN n + 1 ELSE c[i].end
      /\ d[n + 1].op = op /\ d[n + 1].end = INVALID_ADDR
  BY <1>1, LinkCode
<1>3. /\ b2 \in Seq(1..(n + 1)) /\ kept \in Nat
      /\ Len(b2) = kept + More(op)
      /\ Len(b2) = Len(begins) + Change(op)
      /\ \A k \in 1..kept : b2[k] = begins[k]
      /\ op \in Begins \cup {"orelse"} => b2[Len(b2)] = n + 1
  BY <1>1, BeginningIs
<1>15. op \in Begins \cup {"orelse"} \/ More(op) = 0
  BY DEF More
<1>16. op \in Begins \cup {"orelse"} => More(op) = 1
  BY DEF More
<1>4. kept <= Len(begins) /\ (closing => kept < Len(begins) /\ kept = Len(begins) - 1 /\ VTop(begins) = begins[Len(begins)]
                                          /\ Len(begins) \in 1..Len(begins))
      /\ (~closing => kept = Len(begins)) /\ (op = "orelse" => closing)
  BY <1>1 DEF VTop, Kept
<1> HIDE DEF d, b2, kept, closing
<1>5. /\ \A j \in 1..(n + 1) : Depth(d, j) = Depth(c, j)
      /\ \A b \in 1..n, e \in 1..(n + 1) : Inside(c, b, e) <=> Inside(d, b, e)
      /\ \A b \in 1..n : Opens(c, b) <=> Opens(d, b)
      /\ \A b \in 1..n, e \in 1..n : Linked(c, b, e) <=> Linked(d, b, e)
  BY <1>1, <1>2, LinkSame
<1>6. Depth(d, n + 2) = Len(b2) /\ Len(b2) \in Nat /\ Depth(d, n + 1) = Len(begins) /\ DOMAIN b2 = 1..Len(b2)
  <2>1. n + 1 \in Nat \ {0} /\ (n + 1) + 1 = n + 2
    BY <1>1
  <2>2. Depth(d, n + 2) = Depth(d, n + 1) + Change(op)
    BY <1>2, <2>1, DepthIs
  <2> QED
    BY <1>1, <1>3, <1>5, <2>1, <2>2
<1>7. Nested(d)
  <2>1. ASSUME NEW j \in 1..(n + 2) PROVE Depth(d, j) >= 0
    <3>1. CASE j \in 1..(n + 1)
      BY <1>5, <3>1 DEF Nested
    <3>2. CASE j = n + 2
      BY <1>6, <3>2
    <3> QED
      BY <1>1, <3>1, <3>2
  <2>2. ASSUME NEW j \in 1..(n + 1), d[j].op \in {"orelse", "end"} PROVE Depth(d, j) >= 1
    <3>1. CASE j \in 1..n
      BY <1>1, <1>2, <1>5, <2>2, <3>1 DEF Nested
    <3>2. CASE j = n + 1
      BY <1>1, <1>2, <1>4, <1>6, <2>2, <3>2 DEF closing
    <3> QED
      BY <1>1, <3>1, <3>2
  <2>3. Len(d) + 1 = n + 2
    BY <1>1, <1>2
  <2> QED
    BY <1>2, <2>1, <2>2, <2>3 DEF Nested
<1>14. \A k \in 1..Len(begins) : /\ Opens(c, begins[k]) /\ c[begins[k]].end = INVALID_ADDR
                                  /\ Depth(c, begins[k] + 1) = k /\ Inside(c, begins[k], n + 1)
  BY <1>1 DEF Links
<1>8. ASSUME NEW k \in 1..Len(begins), NEW m \in 1..Len(begins), begins[k] = begins[m] PROVE k = m
  BY <1>8, <1>14
<1>9. ASSUME NEW k \in 1..kept
      PROVE  /\ b2[k] \in 1..n /\ Opens(d, b2[k]) /\ d[b2[k]].end = INVALID_ADDR
             /\ Depth(d, b2[k] + 1) = k /\ Inside(d, b2[k], n + 2)
  <2> DEFINE b == begins[k]
  <2>1. /\ k \in 1..Len(begins) /\ b2[k] = b /\ b \in 1..n
        /\ Opens(c, b) /\ c[b].end = INVALID_ADDR /\ Depth(c, b + 1) = k /\ Inside(c, b, n + 1)
    <3>1. k \in 1..Len(begins)
      BY <1>1, <1>3, <1>4
    <3> QED
      BY <1>1, <1>3, <1>14, <3>1
  <2>2. closing => b # VTop(begins)
    BY <1>1, <1>4, <1>8, <2>1
  <2> HIDE DEF b
  <2>3. d[b].end = INVALID_ADDR /\ Opens(d, b)
    BY <1>2, <1>5, <2>1, <2>2
  <2>4. Depth(d, b + 1) = k /\ Inside(d, b, n + 1)
    BY <1>1, <1>5, <2>1
  <2>5. k <= Len(b2) /\ (op = "orelse" => k < Len(begins)) /\ k \in Nat
    BY <1>3, <1>4, <1>1, <1>15, <1>16
  <2>6. ASSUME NEW j \in (b + 1)..(n + 2) PROVE Depth(d, j) >= Depth(d, b + 1)
    <3>1. CASE j \in (b + 1)..(n + 1)
      BY <2>4, <3>1 DEF Inside
    <3>2. CASE j = n + 2
      BY <1>6, <2>4, <2>5, <3>2
    <3> QED
      BY <1>1, <2>1, <3>1, <3>2
  <2>7. ASSUME NEW j \in (b + 1)..((n + 2) - 1), d[j].op = "orelse" PROVE Depth(d, j) # Depth(d, b + 1)
    <3>1. CASE j \in (b + 1)..((n + 1) - 1)
      BY <2>4, <2>7, <3>1 DEF Inside
    <3>2. CASE j = n + 1
      <4>1. op = "orelse"
        BY <1>2, <2>7, <3>2
      <4>2. k < Len(begins) /\ Depth(d, j) = Len(begins)
        BY <1>6, <2>5, <3>2, <4>1
      <4> QED
        <5>1. Depth(d, b + 1) = k /\ Len(begins) \in Nat
          BY <1>1, <2>4
        <5> QED
          BY <2>5, <4>2, <5>1
    <3>3. j \in (b + 1)..((n + 1) - 1) \/ j = n + 1
      BY <1>1, <2>1
    <3> QED
      BY <3>1, <3>2, <3>3
  <2>8. Inside(d, b, n + 2)
    BY <2>6, <2>7 DEF Inside
  <2> QED
    BY <2>1, <2>3, <2>4, <2>8
<1>10. ASSUME op \in Begins \cup {"orelse"}
       PROVE  LET k == Len(b2) IN
              /\ k \in 1..Len(b2) /\ b2[k] = n + 1 /\ Opens(d, b2[k]) /\ d[b2[k]].end = INVALID_ADDR
              /\ Depth(d, b2[k] + 1) = k /\ Inside(d, b2[k], n + 2)
  <2>1. Len(b2) \in 1..Len(b2) /\ b2[Len(b2)] = n + 1 /\ (n + 1) + 1 = n + 2
    BY <1>1, <1>3, <1>6, <1>10, <1>16
  <2>2. Inside(d, n + 1, n + 2)
    <3>1. \A j \in ((n + 1) + 1)..(n + 2) : j = (n + 1) + 1
      BY <1>1
    <3>2. \A j \in ((n + 1) + 1)..((n + 2) - 1) : FALSE
      BY <1>1
    <3>3. Depth(d, (n + 1) + 1) >= Depth(d, (n + 1) + 1)
      BY <1>6, <2>1
    <3> QED
      BY <3>1, <3>2, <3>3 DEF Inside
  <2> QED
    BY <1>2, <1>6, <1>10, <2>1, <2>2 DEF Opens
<1>11. ASSUME NEW k \in DOMAIN b2
       PROVE  /\ Opens(d, b2[k]) /\ d[b2[k]].end = INVALID_ADDR
              /\ Depth(d, b2[k] + 1) = k /\ Inside(d, b2[k], n + 2)
  <2>1. CASE k \in 1..kept
    BY <1>9, <2>1
  <2>2. CASE k \notin 1..kept
    <3>1. op \in Begins \cup {"orelse"} /\ k = Len(b2)
      BY <1>3, <1>6, <1>15, <1>16, <2>2
    <3> QED
      BY <1>10, <3>1
  <2> QED
    BY <2>1, <2>2
<1>12. ASSUME NEW b \in 1..(n + 1), Opens(d, b)
       PROVE  (\E k \in DOMAIN b2 : b2[k] = b) \/ Linked(d, b, d[b].end)
  <2>1. CASE b = n + 1
    <3>1. op \in Begins \cup {"orelse"}
      BY <1>2, <1>12, <2>1 DEF Opens
    <3> QED
      BY <1>6, <1>10, <2>1, <3>1
  <2>2. CASE b \in 1..n /\ \E k \in 1..Len(begins) : begins[k] = b
    <3>1. PICK k \in 1..Len(begins) : begins[k] = b
      BY <2>2
    <3>2. CASE k \in 1..kept
      <4>1. k \in 1..Len(b2)
        BY <1>3, <1>15, <1>16, <3>2
      <4> QED
        BY <1>3, <1>6, <3>1, <3>2, <4>1
    <3>3. CASE k \notin 1..kept
      <4>1. closing /\ b = VTop(begins) /\ k = Len(begins)
        BY <1>1, <1>3, <1>4, <3>1, <3>3
      <4>2. d[b].end = n + 1
        BY <1>2, <2>2, <4>1
      <4>3. Depth(c, b + 1) = Len(begins) /\ Inside(c, b, n + 1)
        BY <1>14, <3>1, <4>1
      <4>4. Depth(d, n + 1) = Depth(d, b + 1) /\ Inside(d, b, n + 1)
        BY <1>1, <1>5, <1>6, <2>2, <4>3
      <4>5. n + 1 \in DOMAIN d /\ n + 1 > b /\ d[n + 1].op \in {"orelse", "end"}
        BY <1>1, <1>2, <2>2, <4>1 DEF closing
      <4> QED
        BY <4>2, <4>4, <4>5 DEF Linked
    <3> QED
      BY <3>2, <3>3
  <2>3. CASE b \in 1..n /\ ~\E k \in 1..Len(begins) : begins[k] = b
    <3>1. Opens(c, b)
      BY <1>5, <1>12, <2>3
    <3>2. Linked(c, b, c[b].end)
      BY <1>1, <2>3, <3>1 DEF Links
    <3>3. c[b].end \in 1..n
      BY <1>1, <3>2 DEF Linked
    <3>4. closing => b # VTop(begins)
      BY <1>4, <2>3
    <3>5. d[b].end = c[b].end
      BY <1>2, <2>3, <3>4
    <3> QED
      BY <1>5, <2>3, <3>2, <3>3, <3>5
  <2> QED
    BY <1>1, <2>1, <2>2, <2>3
<1>13. Links(d, b2)
  <2>1. Len(d) + 1 = n + 2
    BY <1>1, <1>2
  <2> QED
    BY <1>2, <1>3, <1>6, <1>11, <1>12, <2>1 DEF Links
<1> QED
  BY <1>7, <1>13 DEF d, b2

----------------------------------------------------------------------------
(* The invariants of the machine.                                          *)

\* What no instruction changes.
KeptBySteps == <<vsrc, vline, vcode, vbegins, vmain, vdef, vstarts, vstart, vgrids>>

LEMMA StepKeeps ==
    ASSUME VStep
    PROVE  vphase = "run" /\ vphase' \in {"run", "ret"} /\ UNCHANGED KeptBySteps
<1> DEFINE K == vphase = "run" /\ vphase' \in {"run", "ret"} /\ UNCHANGED KeptBySteps
<1> USE DEF At, Goto, Ends, Undefined, Pushes, parsing, running, KeptBySteps
<1>1. Plain => K
  BY DEF Plain
<1>2. RunOver => K
  BY DEF RunOver
<1>3. Ambient => K
  BY DEF Ambient
<1>4. Illuminance => K
  BY DEF Illuminance
<1>5. IlluminanceNoLights => K
  BY DEF IlluminanceNoLights
<1>6. NestedThrows => K
  BY DEF NestedThrows
<1>7. Solar => K
  BY DEF Solar
<1>8. IfTrue => K
  BY DEF IfTrue
<1>9. OrElse => K
  BY DEF OrElse
<1>10. EmptyThrows => K
  BY DEF EmptyThrows
<1>11. FuncopEnd => K
  BY DEF FuncopEnd
<1>12. IlluminanceNext => K
  BY DEF IlluminanceNext, NextLight
<1>13. IlluminanceOver => K
  BY DEF IlluminanceOver
<1>14. CompareLess => K
  BY DEF CompareLess
<1> HIDE DEF K
<1>15. K
  BY <1>1, <1>2, <1>3, <1>4, <1>5, <1>6, <1>7, <1>8, <1>9, <1>10, <1>11, <1>12, <1>13, <1>14 DEF VStep
<1> QED
  BY <1>15 DEF K

LEMMA ParseInit ==
    ASSUME VInit
    PROVE  ParseInv
<1>1. vsrc \in Sources /\ vphase = "parse" /\ vline = 1 /\ vcode = <<>> /\ vbegins = <<>>
      /\ vmain = 0 /\ vdef = 0
  BY DEF VInit
<1>2. Len(vsrc) \in Nat
  BY <1>1, VMAssumption
<1>3. Len(vcode) = 0 /\ DOMAIN vcode = {} /\ \A n \in Nat : vcode \in Programs(n)
  BY <1>1 DEF Programs
<1>4. Depth(vcode, 1) = 0
  BY DepthIs
<1>5. Nested(vcode)
  BY <1>3, <1>4 DEF Nested
<1>6. Links(vcode, vbegins)
  BY <1>1, <1>3, <1>4 DEF Links
<1> QED
  BY <1>1, <1>2, <1>3, <1>5, <1>6 DEF ParseInv

LEMMA ParseStep ==
    ASSUME ParseInv, [VNext]_vvars
    PROVE  ParseInv'
<1>0. /\ vsrc \in Sources /\ vphase \in {"parse", "rejected", "idle", "run", "ret"}
      /\ vline \in 1..(Len(vsrc) + 1) /\ Len(vcode) < vline
      /\ vmain \in 0..(Len(vcode) + 1) /\ vdef \in 0..(Len(vcode) + 1)
      /\ vcode \in Programs(Len(vcode)) /\ Nested(vcode) /\ Links(vcode, vbegins)
      /\ (vphase \in {"idle", "run", "ret"} => vmain # 0)
  BY DEF ParseInv
<1>1. /\ vsrc \in Seq(Ops \cup Labels) /\ Len(vsrc) < INVALID_ADDR /\ Len(vsrc) \in Nat
      /\ Len(vcode) \in Nat
  <2>1. vsrc \in Seq(Ops \cup Labels) /\ Len(vsrc) < INVALID_ADDR
    BY <1>0, VMAssumption
  <2>2. Len(vcode) \in Nat
    BY <1>0 DEF Programs
  <2> QED
    BY <2>1, <2>2
<1>2. ASSUME UNCHANGED <<vsrc, vline, vcode, vbegins, vmain, vdef>>,
             vphase' \in {"parse", "rejected", "idle", "run", "ret"},
             vphase' \in {"idle", "run", "ret"} => vmain # 0
      PROVE  ParseInv'
  BY <1>0, <1>2 DEF ParseInv
<1>3. CASE ParseLabel
  <2>1. /\ vsrc' = vsrc /\ vcode' = vcode /\ vbegins' = vbegins /\ vphase' = "parse"
        /\ vline' = vline + 1 /\ vline <= Len(vsrc)
        /\ vmain' \in {vmain, Len(vcode) + 1} /\ vdef' \in {vdef, Len(vcode) + 1}
    BY <1>3 DEF ParseLabel
  <2>2. vline' \in 1..(Len(vsrc) + 1) /\ Len(vcode) < vline'
        /\ vmain' \in 0..(Len(vcode) + 1) /\ vdef' \in 0..(Len(vcode) + 1)
    BY <1>0, <1>1, <2>1
  <2> QED
    BY <1>0, <2>1, <2>2 DEF ParseInv
<1>4. CASE ParseCodeLine
  <2> DEFINE op == vsrc[vline]
  <2>1. /\ vsrc' = vsrc /\ vmain' = vmain /\ vdef' = vdef /\ vphase = "parse" /\ vline <= Len(vsrc)
        /\ op \notin Labels
    BY <1>4 DEF ParseCodeLine
  <2>2. CASE op \in {"orelse", "end"} /\ vbegins = <<>>
    <3>1. vphase' = "rejected" /\ vline' = vline /\ vcode' = vcode /\ vbegins' = vbegins
      BY <1>4, <2>2 DEF ParseCodeLine
    <3> QED
      BY <1>2, <2>1, <3>1
  <2>3. CASE ~(op \in {"orelse", "end"} /\ vbegins = <<>>)
    <3>1. Link(op, Len(vcode) + 1) /\ vline' = vline + 1 /\ vphase' = "parse"
      BY <1>4, <2>3 DEF ParseCodeLine
    <3>2. op \in Ops
      <4>1. vline \in 1..Len(vsrc)
        BY <1>0, <1>1, <2>1
      <4> QED
        BY <1>1, <2>1, <4>1
    <3> HIDE DEF op
    <3>3. vcode' = Linking(vcode, vbegins, op) /\ vbegins' = Beginning(vbegins, op, Len(vcode) + 1)
      <4>1. vcode' = Linking(vcode, vbegins, op)
        BY <3>1 DEF Link, Linking
      <4>2. vbegins' = Beginning(vbegins, op, Len(vcode) + 1)
        BY <3>1, Zenon DEF Link, Beginning
      <4> QED
        BY <4>1, <4>2
    <3>4. Len(vcode) + 1 < INVALID_ADDR /\ vbegins \in Seq(DOMAIN vcode)
      <4>1. vbegins \in Seq(DOMAIN vcode)
        BY <1>0 DEF Links
      <4> QED
        BY <1>0, <1>1, <2>1, <4>1 DEF INVALID_ADDR
    <3>5. op \in {"orelse", "end"} => vbegins # <<>>
      BY <2>3
    <3>6. vcode' \in Programs(Len(vcode) + 1) /\ Len(vcode') = Len(vcode) + 1
      BY <1>0, <1>1, <3>2, <3>3, <3>4, <3>5, LinkCode
    <3>7. Nested(vcode') /\ Links(vcode', vbegins')
      BY <1>0, <1>1, <3>2, <3>3, <3>4, <3>5, LineLinks
    <3>8. vline' \in 1..(Len(vsrc) + 1) /\ Len(vcode') < vline'
          /\ vmain' \in 0..(Len(vcode') + 1) /\ vdef' \in 0..(Len(vcode') + 1)
      BY <1>0, <1>1, <2>1, <3>1, <3>6
    <3> QED
      BY <1>0, <2>1, <3>1, <3>6, <3>7, <3>8 DEF ParseInv
  <2> QED
    BY <2>2, <2>3
<1>5. CASE ParseEnd
  <2>1. UNCHANGED <<vsrc, vline, vcode, vbegins, vmain, vdef>> /\ vphase' \in {"rejected", "idle"}
        /\ (vphase' = "idle" => vmain # 0)
    BY <1>5 DEF ParseEnd, parsing
  <2> QED
    BY <1>2, <2>1
<1>6. CASE \E a \in Attribs : Shade(a)
  <2>1. UNCHANGED <<vsrc, vline, vcode, vbegins, vmain, vdef>> /\ vphase' = "run" /\ vphase = "idle"
    BY <1>6 DEF Shade, RunFrom, parsing
  <2> QED
    BY <1>0, <1>2, <2>1
<1>7. CASE NextRun
  <2>1. UNCHANGED <<vsrc, vline, vcode, vbegins, vmain, vdef>> /\ vphase' \in {"run", "idle"} /\ vphase = "ret"
    BY <1>7 DEF NextRun, RunFrom, parsing
  <2> QED
    BY <1>0, <1>2, <2>1
<1>8. CASE VStep
  <2>1. UNCHANGED <<vsrc, vline, vcode, vbegins, vmain, vdef>> /\ vphase' \in {"run", "ret"} /\ vphase = "run"
    BY <1>8, StepKeeps DEF KeptBySteps
  <2> QED
    BY <1>0, <1>2, <2>1
<1>9. CASE UNCHANGED vvars
  <2>1. UNCHANGED <<vsrc, vline, vcode, vbegins, vmain, vdef, vphase>>
    BY <1>9 DEF vvars
  <2> QED
    BY <1>0, <1>2, <2>1
<1> QED
  BY <1>3, <1>4, <1>5, <1>6, <1>7, <1>8, <1>9 DEF VNext

\* The lights of a grid.
LEMMA LightsAre ==
    ASSUME NEW a \in Attribs
    PROVE  /\ ActLights[a] \in Seq({ActLights[a][i] : i \in DOMAIN ActLights[a]})
           /\ Len(ActLights[a]) \in Nat /\ DOMAIN ActLights[a] = 1..Len(ActLights[a])
           /\ NonAmbient(a) \in SUBSET (Nat \ {0}) /\ IsFiniteSet(NonAmbient(a))
           /\ NonAmbient(a) \subseteq DOMAIN ActLights[a]
           /\ ActLights[a] = <<>> => NonAmbient(a) = {}
<1> DEFINE A == ActLights[a]
           R == {A[i] : i \in DOMAIN A}
<1>1. A \in Seq(R)
  BY VMAssumption
<1> HIDE DEF A, R
<1>2. Len(A) \in Nat /\ DOMAIN A = 1..Len(A)
  BY <1>1
<1>3. NonAmbient(a) \subseteq DOMAIN A
  BY DEF NonAmbient, A
<1>4. IsFiniteSet(DOMAIN A)
  BY <1>2, FS_Interval
<1>5. IsFiniteSet(NonAmbient(a))
  BY <1>3, <1>4, FS_Subset
<1>6. NonAmbient(a) \in SUBSET (Nat \ {0})
  BY <1>2, <1>3
<1>7. A = <<>> => NonAmbient(a) = {}
  BY <1>2, <1>3
<1> QED
  BY <1>1, <1>2, <1>3, <1>5, <1>6, <1>7 DEF A, R

LEMMA MachineInit ==
    ASSUME VInit
    PROVE  MachineInv
<1>1. MaxFop \in Nat
  BY VMAssumption
<1> QED
  BY <1>1 DEF VInit, MachineInv

\* The start of a run.
LEMMA MachineStart ==
    ASSUME NEW s, RunFrom(s), MaxFop \in Nat, vcode' = vcode, vmain' = vmain,
           Tail(s) \in {<<>>, <<vmain>>}, vub' = vub, vub \in {"no", "code", "segment", "lights"}
    PROVE  MachineInv'
<1>1. /\ vfop' = <<>> /\ vill' = 0 /\ vbody' = 0 /\ vphase' = "run" /\ vout' = None
      /\ vvisits' = [i \in DOMAIN vcode |-> 0] /\ vstarts' \in {<<>>, <<vmain>>}
  BY DEF RunFrom
<1>2. vfop' \in Seq(Flags) /\ Len(vfop') <= MaxFop
  BY <1>1
<1>3. vvisits' \in [DOMAIN vcode -> Int]
  BY <1>1
<1> QED
  BY <1>1, <1>2, <1>3 DEF MachineInv

LEMMA MachineStep ==
    ASSUME ParseInv, MachineInv, ContextInv, [VNext]_vvars
    PROVE  MachineInv'
<1>0. /\ vfop \in Seq(Flags) /\ Len(vfop) <= MaxFop /\ vill \in Nat /\ vbody \in Nat
      /\ vstarts \in {<<>>, <<vmain>>} /\ (vphase = "parse" => vstarts = <<>>)
      /\ (vphase \in {"run", "ret"} => vvisits \in [DOMAIN vcode -> Int])
      /\ vub \in {"no", "code", "segment", "lights"} /\ vout \in {None, "done", "thrown"}
      /\ MaxFop \in Nat /\ Len(vfop) \in Nat
  <2>1. MaxFop \in Nat
    BY VMAssumption
  <2> QED
    BY <2>1 DEF MachineInv
<1>1. ASSUME UNCHANGED <<vfop, vill, vbody, vstarts, vvisits, vub, vout, vcode>>,
             vphase' = "parse" => vphase = "parse", vphase' \in {"run", "ret"} => vphase \in {"run", "ret"},
             vmain' = vmain \/ vphase = "parse"
      PROVE  MachineInv'
  BY <1>0, <1>1 DEF MachineInv
<1>2. CASE ParseLabel
  <2>1. UNCHANGED <<vfop, vill, vbody, vstarts, vvisits, vub, vout, vcode>> /\ vphase = "parse" /\ vphase' = "parse"
    BY <1>2 DEF ParseLabel, running
  <2> QED
    BY <1>1, <2>1
<1>3. CASE ParseCodeLine
  <2>1. UNCHANGED <<vfop, vill, vbody, vstarts, vvisits, vub, vout, vmain>> /\ vphase = "parse"
        /\ vphase' \in {"parse", "rejected"}
    BY <1>3 DEF ParseCodeLine, running
  <2> QED
    BY <1>0, <2>1 DEF MachineInv
<1>4. CASE ParseEnd
  <2>1. UNCHANGED <<vfop, vill, vbody, vstarts, vvisits, vub, vout, vcode, vmain>> /\ vphase' \in {"rejected", "idle"}
    BY <1>4 DEF ParseEnd, running, parsing
  <2> QED
    BY <1>1, <2>1
<1>5. CASE \E a \in Attribs : Shade(a)
  <2> DEFINE s == IF vdef = 0 THEN <<vmain>> ELSE <<vdef, vmain>>
  <2>1. RunFrom(s) /\ vcode' = vcode /\ vmain' = vmain /\ vub' = vub
    BY <1>5 DEF Shade, parsing
  <2>2. Tail(s) \in {<<>>, <<vmain>>}
    <3>1. CASE vdef = 0
      <4>1. s = <<vmain>>
        BY <3>1
      <4> QED
        BY <4>1
    <3>2. CASE vdef # 0
      <4>1. s = <<vdef, vmain>>
        BY <3>2
      <4>2. Tail(s) = <<vmain>>
        BY <4>1
      <4> QED
        BY <4>2
    <3> QED
      BY <3>1, <3>2
  <2> HIDE DEF s
  <2> QED
    BY <1>0, <2>1, <2>2, MachineStart
<1>6. CASE NextRun
  <2>1. CASE vstarts # <<>>
    <3>1. RunFrom(vstarts) /\ vcode' = vcode /\ vmain' = vmain /\ vub' = vub
      BY <1>6, <2>1 DEF NextRun, parsing
    <3>2. Tail(vstarts) = <<>>
      <4>1. vstarts = <<vmain>>
        BY <1>0, <2>1
      <4> QED
        BY <4>1
    <3> QED
      BY <1>0, <3>1, <3>2, MachineStart
  <2>2. CASE vstarts = <<>>
    <3>1. UNCHANGED <<vfop, vill, vbody, vstarts, vvisits, vub, vout, vcode, vmain>> /\ vphase' = "idle"
      BY <1>6, <2>2 DEF NextRun, parsing, running
    <3> QED
      BY <1>1, <3>1
  <2> QED
    BY <2>1, <2>2
<1>7. CASE VStep
  <2>0. vphase = "run" /\ vphase' \in {"run", "ret"} /\ vstarts' = vstarts /\ vmain' = vmain /\ vcode' = vcode
    BY <1>7, StepKeeps DEF KeptBySteps
  <2> DEFINE M == /\ vfop' \in Seq(Flags) /\ Len(vfop') <= MaxFop /\ vill' \in Nat /\ vbody' \in Nat
                  /\ vvisits' \in [DOMAIN vcode -> Int]
                  /\ vub' \in {"no", "code", "segment", "lights"} /\ vout' \in {None, "done", "thrown"}
  <2>1. M => MachineInv'
    BY <1>0, <2>0 DEF MachineInv
  <2>2. vvisits \in [DOMAIN vcode -> Int]
    BY <1>0, <2>0
  <2>3. ASSUME vfop # <<>>
        PROVE  /\ VPop(vfop) \in Seq(Flags) /\ Len(VPop(vfop)) = Len(vfop) - 1
               /\ Append(VPop(vfop), "ORELSE") \in Seq(Flags) /\ Len(Append(VPop(vfop), "ORELSE")) = Len(vfop)
    <3>1. VPop(vfop) \in Seq(Flags) /\ Len(VPop(vfop)) = Len(vfop) - 1
      BY <1>0, <2>3, Popped
    <3>2. "ORELSE" \in Flags
      BY DEF Flags
    <3> HIDE DEF VPop
    <3> QED
      BY <1>0, <3>1, <3>2
  <2>4. ASSUME NEW f \in Flags, NEW pc, Pushes(f, pc)
        PROVE  /\ vfop' \in Seq(Flags) /\ Len(vfop') <= MaxFop /\ vill' = vill /\ vbody' = vbody
               /\ vub' = vub /\ vout' \in {vout, "thrown"}
    <3>1. CASE Len(vfop) < MaxFop
      <4>1. vfop' = Append(vfop, f) /\ vill' = vill /\ vbody' = vbody /\ vub' = vub /\ vout' = vout
        BY <2>4, <3>1 DEF Pushes, Goto
      <4> QED
        BY <1>0, <3>1, <4>1
    <3>2. CASE ~(Len(vfop) < MaxFop)
      BY <1>0, <2>4, <3>2 DEF Pushes, Ends
    <3> QED
      BY <3>1, <3>2
  <2>5. ASSUME Ends("done") \/ Ends("thrown"), vvisits' = vvisits
        PROVE  M
    BY <1>0, <2>2, <2>5 DEF Ends
  <2>6. ASSUME NEW u \in {"code", "segment", "lights"}, Undefined(u)
        PROVE  M
    <3>1. vub' = u /\ UNCHANGED <<vfop, vill, vbody, vvisits, vout>>
      BY <2>6 DEF Undefined, running
    <3> QED
      BY <1>0, <2>2, <3>1
  <2>7. Visit => vvisits' \in [DOMAIN vcode -> Int]
    <3> SUFFICES ASSUME Visit PROVE vvisits' \in [DOMAIN vcode -> Int]
      OBVIOUS
    <3>1. vvisits' \in {vvisits, [vvisits EXCEPT ![vpc] = @ + 1]}
      BY DEF Visit
    <3>2. vpc \in DOMAIN vvisits => vvisits[vpc] + 1 \in Int
      BY <2>2
    <3> QED
      BY <2>2, <3>1, <3>2
  <2>8. ASSUME NEW pc, NEW fop, Goto(pc, fop), fop \in Seq(Flags), Len(fop) <= MaxFop,
               vill' \in Nat, vbody' \in Nat, vvisits' \in [DOMAIN vcode -> Int]
        PROVE  M
    BY <1>0, <2>8 DEF Goto
  <2>9. Plain => M
    BY <1>0, <2>7, <2>8 DEF Plain
  <2>10. RunOver => M
    BY <2>5 DEF RunOver
  <2>11. Ambient => M
    BY <1>0, <2>5, <2>7, <2>8 DEF Ambient
  <2>12. Illuminance => M
    <3> SUFFICES ASSUME Illuminance PROVE M
      OBVIOUS
    <3>1. /\ At({"illum"}) /\ MaxFop > 0 /\ vill' = 1 /\ vbody' = vpc + 1
          /\ Goto(vcode[vpc].end, <<"ILLUM">>) /\ vvisits' = vvisits
      BY DEF Illuminance
    <3>2. vpc \in Nat
      <4>1. DOMAIN vcode = 1..Len(vcode) /\ Len(vcode) \in Nat
        BY DEF ParseInv, Programs
      <4> QED
        BY <3>1, <4>1 DEF At
    <3> DEFINE e == <<"ILLUM">>
    <3>3. e \in Seq(Flags) /\ Len(e) = 1
      BY DEF Flags
    <3>4. Goto(vcode[vpc].end, e)
      BY <3>1
    <3> HIDE DEF e
    <3>5. Len(e) <= MaxFop /\ vill' \in Nat /\ vbody' \in Nat /\ vvisits' \in [DOMAIN vcode -> Int]
      BY <1>0, <2>2, <3>1, <3>2, <3>3
    <3> QED
      BY <2>8, <3>3, <3>4, <3>5
  <2>13. IlluminanceNoLights => M
    BY <1>0, <2>2, <2>6, <2>8 DEF IlluminanceNoLights
  <2>14. NestedThrows => M
    BY <2>5 DEF NestedThrows
  <2>15. Solar => M
    <3>1. "SOLAR" \in Flags
      BY DEF Flags
    <3> QED
      BY <1>0, <2>2, <2>4, <3>1 DEF Solar
  <2>16. IfTrue => M
    <3>1. {"IFVARY", "IFTRUE", "IF"} \subseteq Flags
      BY DEF Flags
    <3>2. IfTrue => vvisits' = vvisits /\ \E f \in {"IFVARY", "IFTRUE", "IF"}, pc \in {vpc + 1, vcode[vpc].end} :
                                            Pushes(f, pc)
      BY DEF IfTrue, At
    <3> QED
      BY <1>0, <2>2, <2>4, <3>1, <3>2
  <2>17. OrElse => M
    <3> SUFFICES ASSUME OrElse PROVE M
      OBVIOUS
    <3>1. vfop # <<>>
      BY DEF OrElse
    <3>2. Len(VPop(vfop)) <= MaxFop
      BY <1>0, <2>3, <3>1
    <3>3. CASE Undefined("code")
      BY <2>6, <3>3
    <3>4. CASE /\ Goto(vcode[vpc].end + 1, VPop(vfop)) /\ vill' = vill /\ vbody' = vbody /\ vvisits' = vvisits
      BY <1>0, <2>2, <2>3, <2>8, <3>1, <3>2, <3>4
    <3>5. CASE /\ Goto(vpc + 1, Append(VPop(vfop), "ORELSE")) /\ vill' = vill /\ vbody' = vbody
               /\ vvisits' = vvisits
      BY <1>0, <2>2, <2>3, <2>8, <3>1, <3>5
    <3> QED
      BY <3>3, <3>4, <3>5 DEF OrElse
  <2>18. EmptyThrows => M
    BY <2>5 DEF EmptyThrows
  <2>19. FuncopEnd => M
    <3> SUFFICES ASSUME FuncopEnd PROVE M
      OBVIOUS
    <3>1. vfop # <<>> /\ Goto(vpc + 1, VPop(vfop)) /\ vill' = vill /\ vbody' = vbody /\ vvisits' = vvisits
      BY DEF FuncopEnd
    <3>2. Len(VPop(vfop)) <= MaxFop
      BY <1>0, <2>3, <3>1
    <3> QED
      BY <1>0, <2>2, <2>3, <2>8, <3>1, <3>2
  <2>20. IlluminanceNext => M
    <3> SUFFICES ASSUME IlluminanceNext PROVE M
      OBVIOUS
    <3> DEFINE i == Min(MoreLights)
    <3>0. i \in Nat
      <4>1. vctx.attr \in Attribs /\ MoreLights # {}
        BY <2>0 DEF ContextInv, IlluminanceNext
      <4>2. MoreLights \in SUBSET Nat
        BY <4>1, LightsAre DEF MoreLights
      <4> QED
        BY <4>1, <4>2, LeastExists
    <3>1. \/ Undefined("lights") \/ Undefined("segment")
          \/ NextLight(i)
          \/ Ends("thrown") /\ vvisits' = vvisits
      BY DEF IlluminanceNext
    <3> HIDE DEF i
    <3>2. CASE NextLight(i)
      <4>1. vill' = i + 1 /\ Goto(vbody, vfop) /\ vbody' = vbody /\ vvisits' = vvisits
        BY <3>2 DEF NextLight
      <4> QED
        BY <1>0, <2>2, <2>8, <3>0, <4>1
    <3> QED
      BY <2>5, <2>6, <3>1, <3>2
  <2>21. IlluminanceOver => M
    <3> SUFFICES ASSUME IlluminanceOver PROVE M
      OBVIOUS
    <3>1. vfop # <<>> /\ Goto(vpc + 1, VPop(vfop)) /\ vill' = 0 /\ vbody' = vbody /\ vvisits' = vvisits
      BY DEF IlluminanceOver
    <3>2. Len(VPop(vfop)) <= MaxFop
      BY <1>0, <2>3, <3>1
    <3> QED
      BY <1>0, <2>2, <2>3, <2>8, <3>1, <3>2
  <2> HIDE DEF M
  <2>22. CompareLess => M
    BY <1>0, <2>2, <2>8 DEF CompareLess
  <2> QED
    BY <1>7, <2>1, <2>9, <2>10, <2>11, <2>12, <2>13, <2>14, <2>15, <2>16, <2>17, <2>18, <2>19, <2>20, <2>21, <2>22 DEF VStep
<1>9. CASE UNCHANGED vvars
  <2>1. UNCHANGED <<vfop, vill, vbody, vstarts, vvisits, vub, vout, vcode, vmain, vphase>>
    BY <1>9 DEF vvars
  <2> QED
    BY <1>1, <2>1
<1> QED
  BY <1>2, <1>3, <1>4, <1>5, <1>6, <1>7, <1>9 DEF VNext

----------------------------------------------------------------------------
(* The contexts of the grid and of its lights.                             *)

LEMMA SetupContext ==
    ASSUME NEW ctx, Context(ctx), NEW a \in Attribs
    PROVE  Context(SetupIfChanged(ctx, a)) /\ SetupIfChanged(ctx, a).attr = a
<1>1. ctx = [attr |-> ctx.attr, lights |-> ctx.lights, done |-> ctx.done, amb |-> ctx.amb]
  BY DEF Context
<1>2. CASE ctx.attr = a
  BY <1>2 DEF SetupIfChanged
<1>3. CASE ctx.attr # a
  <2>1. SetupIfChanged(ctx, a) = [attr |-> a, lights |-> <<>>, done |-> FALSE, amb |-> ctx.amb]
    BY <1>1, <1>3 DEF SetupIfChanged
  <2> QED
    BY <2>1 DEF Context, Lights
<1> QED
  BY <1>2, <1>3

LEMMA CheckedContext ==
    ASSUME NEW ctx, Context(ctx), ctx.attr \in Attribs, NEW ill \in Nat, BoundFor(ctx, ill)
    PROVE  LET c == CheckInit(ctx) IN
           /\ Context(c) /\ BoundFor(c, ill) /\ DOMAIN c.lights = DOMAIN ActLights[c.attr]
           /\ c.attr = ctx.attr /\ c.done = ctx.done /\ c.amb = ctx.amb
           /\ \A i \in DOMAIN c.lights : c.lights[i] \in {NewCtx, Made(c.attr, ActLights[c.attr][i])}
<1>1. ctx = [attr |-> ctx.attr, lights |-> ctx.lights, done |-> ctx.done, amb |-> ctx.amb]
      /\ ctx.done \in BOOLEAN /\ (ctx.done => AmbientIs(ctx.attr, ctx.amb)) /\ Lights(ctx)
  BY DEF Context
<1>2. CASE ctx.lights # <<>>
  <2>1. CheckInit(ctx) = ctx
    BY <1>2 DEF CheckInit
  <2>2. /\ DOMAIN ctx.lights = DOMAIN ActLights[ctx.attr]
        /\ \A i \in DOMAIN ctx.lights : ctx.lights[i] \in {NewCtx, Made(ctx.attr, ActLights[ctx.attr][i])}
    BY <1>1, <1>2 DEF Lights
  <2> QED
    BY <2>1, <2>2
<1>3. CASE ctx.lights = <<>>
  <2> DEFINE ls == [i \in DOMAIN ActLights[ctx.attr] |-> NewCtx]
             c == [attr |-> ctx.attr, lights |-> ls, done |-> ctx.done, amb |-> ctx.amb]
  <2>1. CheckInit(ctx) = c
    BY <1>1, <1>3 DEF CheckInit
  <2>2. c.attr = ctx.attr /\ c.lights = ls /\ c.done = ctx.done /\ c.amb = ctx.amb
        /\ c = [attr |-> c.attr, lights |-> c.lights, done |-> c.done, amb |-> c.amb]
    OBVIOUS
  <2>3. DOMAIN ls = DOMAIN ActLights[ctx.attr] /\ \A i \in DOMAIN ls : ls[i] = NewCtx
    OBVIOUS
  <2>4. ~(ill > 1)
    BY <1>3 DEF BoundFor
  <2> HIDE DEF c, ls
  <2>5. Context(c)
    BY <1>1, <2>2, <2>3 DEF Context, Lights
  <2>6. BoundFor(c, ill)
    BY <2>4 DEF BoundFor
  <2> QED
    BY <2>1, <2>2, <2>3, <2>5, <2>6
<1> QED
  BY <1>2, <1>3

LEMMA LightMade ==
    ASSUME NEW a \in Attribs, NEW l, NEW x \in {NewCtx, Made(a, l)}
    PROVE  LightSetup(x, a, l) = Made(a, l)
<1>1. a # None
  BY VMAssumption
<1>2. CASE x = NewCtx
  <2>1. x.attr = None
    BY <1>2 DEF NewCtx
  <2> QED
    BY <1>1, <2>1 DEF LightSetup, Made
<1>3. CASE x = Made(a, l)
  BY <1>3 DEF LightSetup, Made
<1> QED
  BY <1>2, <1>3

\* One light's context is set up.
LEMMA LightContext ==
    ASSUME NEW c, Context(c), c.attr \in Attribs, DOMAIN c.lights = DOMAIN ActLights[c.attr],
           NEW S, NEW ls, DOMAIN ls = DOMAIN c.lights,
           \A i \in DOMAIN ls : ls[i] = IF i \in S THEN Made(c.attr, ActLights[c.attr][i]) ELSE c.lights[i],
           \A i \in DOMAIN c.lights : c.lights[i] \in {NewCtx, Made(c.attr, ActLights[c.attr][i])},
           NEW done \in BOOLEAN, NEW amb, done => AmbientIs(c.attr, amb)
    PROVE  /\ Context([attr |-> c.attr, lights |-> ls, done |-> done, amb |-> amb])
           /\ \A ill \in Nat : BoundFor(c, ill) =>
                  BoundFor([attr |-> c.attr, lights |-> ls, done |-> done, amb |-> amb], ill)
<1> DEFINE d == [attr |-> c.attr, lights |-> ls, done |-> done, amb |-> amb]
<1>1. d.attr = c.attr /\ d.lights = ls /\ d.done = done /\ d.amb = amb
      /\ d = [attr |-> d.attr, lights |-> d.lights, done |-> d.done, amb |-> d.amb]
  OBVIOUS
<1> HIDE DEF d
<1>2. \A i \in DOMAIN ls : ls[i] \in {NewCtx, Made(c.attr, ActLights[c.attr][i])}
  OBVIOUS
<1>3. Context(d)
  BY <1>1, <1>2 DEF Context, Lights
<1>4. ASSUME NEW ill \in Nat, BoundFor(c, ill) PROVE BoundFor(d, ill)
  <2> SUFFICES ASSUME ill > 1
               PROVE  /\ ill - 1 \in DOMAIN d.lights
                      /\ d.lights[ill - 1] = [attr |-> d.attr, light |-> ActLights[d.attr][ill - 1],
                                              bound |-> TRUE]
    BY DEF BoundFor
  <2> DEFINE k == ill - 1
             m == [attr |-> c.attr, light |-> ActLights[c.attr][k], bound |-> TRUE]
  <2>1. k \in DOMAIN ls /\ c.lights[k] = m
    BY <1>4 DEF BoundFor
  <2>2. m # NewCtx
    <3>1. m.bound = TRUE /\ NewCtx.bound = FALSE
      BY DEF NewCtx
    <3> QED
      BY <3>1
  <2>3. m = Made(c.attr, ActLights[c.attr][k])
    BY <2>1, <2>2
  <2>4. ls[k] = m
    BY <2>1, <2>3
  <2> QED
    BY <1>1, <2>1, <2>4
<1> QED
  BY <1>3, <1>4 DEF d

LEMMA LightInit ==
    ASSUME VInit
    PROVE  ContextInv
<1>1. vctx = [attr |-> None, lights |-> <<>>, done |-> FALSE, amb |-> {None}]
      /\ vused = {} /\ vphase = "parse" /\ vub = "no"
  BY DEF VInit
<1>2. Context(vctx)
  BY <1>1 DEF Context, Lights
<1> QED
  BY <1>1, <1>2 DEF ContextInv

\* A step that leaves the contexts alone and begins with no light.
LEMMA LightSame ==
    ASSUME ContextInv, vctx' = vctx, vused' \in {vused, {}},
           vub' = vub \/ vub' = "code" \/ (vub' = "segment" /\ HasBad(vctx.attr)),
           vphase' \in {"run", "ret"} => vphase \in {"run", "ret"},
           vphase' = "run" => (vill' = vill /\ vphase = "run") \/ vill' \in {0, 1}
    PROVE  ContextInv'
<1>1. /\ Context(vctx) /\ (vphase \in {"run", "ret"} => vctx.attr \in Attribs)
      /\ \A v \in vused : AmbientIs(vctx.attr, v)
      /\ (vphase = "run" => BoundFor(vctx, vill))
      /\ vub # "lights" /\ (vub = "segment" => HasBad(vctx.attr))
  BY DEF ContextInv
<1>2. vphase' = "run" => BoundFor(vctx', vill')
  <2>1. ASSUME vill' \in {0, 1} PROVE ~(vill' > 1)
    BY <2>1
  <2>2. ASSUME ~(vill' > 1) PROVE BoundFor(vctx', vill')
    BY <2>2 DEF BoundFor
  <2>3. ASSUME vill' = vill, vphase = "run" PROVE BoundFor(vctx', vill')
    BY <1>1, <2>3
  <2> QED
    BY <2>1, <2>2, <2>3
<1>3. \A v \in vused' : AmbientIs(vctx'.attr, v)
  BY <1>1
<1>4. vub' # "lights" /\ (vub' = "segment" => HasBad(vctx'.attr))
  BY <1>1
<1>5. Context(vctx') /\ (vphase' \in {"run", "ret"} => vctx'.attr \in Attribs)
  BY <1>1
<1> QED
  BY <1>2, <1>3, <1>4, <1>5 DEF ContextInv

LEMMA ContextStep ==
    ASSUME MachineInv, ContextInv, [VNext]_vvars
    PROVE  ContextInv'
<1>0. /\ Context(vctx) /\ (vphase \in {"run", "ret"} => vctx.attr \in Attribs)
      /\ \A v \in vused : AmbientIs(vctx.attr, v)
      /\ (vphase = "run" => BoundFor(vctx, vill))
      /\ vub # "lights" /\ (vub = "segment" => HasBad(vctx.attr)) /\ vill \in Nat
  BY DEF ContextInv, MachineInv
<1>1. CASE UNCHANGED vvars
  <2>1. UNCHANGED <<vctx, vused, vub, vphase, vill>>
    BY <1>1 DEF vvars
  <2> QED
    BY <2>1, LightSame
<1>2. CASE ParseLabel \/ ParseCodeLine \/ ParseEnd
  <2>1. UNCHANGED <<vctx, vused, vub>> /\ vphase' \in {"parse", "rejected", "idle"}
    BY <1>2 DEF ParseLabel, ParseCodeLine, ParseEnd, running
  <2> QED
    BY <2>1, LightSame
<1>3. CASE vub = "no" /\ \E a \in Attribs : Shade(a)
  <2>1. PICK a \in Attribs : Shade(a)
    BY <1>3
  <2>2. vctx' = SetupIfChanged(vctx, a) /\ vub' = vub /\ vused' = {} /\ vill' = 0
    BY <2>1 DEF Shade, RunFrom
  <2>3. Context(vctx') /\ vctx'.attr = a
    BY <1>0, <2>2, SetupContext
  <2>4. BoundFor(vctx', vill')
    BY <2>2 DEF BoundFor
  <2> QED
    BY <1>3, <2>2, <2>3, <2>4 DEF ContextInv
<1>4. CASE NextRun
  <2>1. vctx' = vctx /\ vub' = vub /\ vphase = "ret" /\ vused' \in {vused, {}}
        /\ (vphase' = "run" => vill' = 0)
    BY <1>4 DEF NextRun, RunFrom, running
  <2> QED
    BY <2>1, LightSame
<1>5. CASE vub = "no" /\ VStep
  <2>0. vphase = "run" /\ vphase' \in {"run", "ret"} /\ vctx.attr \in Attribs /\ BoundFor(vctx, vill)
    BY <1>0, <1>5, StepKeeps
  <2> USE DEF At, Goto, Ends, Undefined, Pushes, running
  <2> DEFINE Same == /\ vctx' = vctx /\ vused' = vused /\ vub' \in {vub, "code"}
                     /\ vphase' = "run" => vill' = vill \/ vill' \in {0, 1}
  <2>1. Same => ContextInv'
    BY <2>0, LightSame
  <2>2. Plain => Same
    BY DEF Plain
  <2>3. RunOver => Same
    BY DEF RunOver
  <2>4. Illuminance => Same
    BY DEF Illuminance
  <2>5. IlluminanceNoLights => Same
    BY DEF IlluminanceNoLights
  <2>6. NestedThrows => Same
    BY DEF NestedThrows
  <2>7. Solar => Same
    BY DEF Solar
  <2>8. IfTrue => Same
    BY DEF IfTrue
  <2>9. OrElse => Same
    BY DEF OrElse
  <2>10. EmptyThrows => Same
    BY DEF EmptyThrows
  <2>11. FuncopEnd => Same
    BY DEF FuncopEnd
  <2>12. IlluminanceOver => Same
    BY DEF IlluminanceOver
  <2>29. CompareLess => Same
    BY DEF CompareLess
  <2> HIDE DEF Same
  <2> DEFINE a == vctx.attr
             c == CheckInit(vctx)
  <2>13. /\ Context(c) /\ BoundFor(c, vill) /\ DOMAIN c.lights = DOMAIN ActLights[a]
         /\ c.attr = a /\ c.done = vctx.done /\ c.amb = vctx.amb /\ a \in Attribs
         /\ c = [attr |-> c.attr, lights |-> c.lights, done |-> c.done, amb |-> c.amb]
         /\ \A i \in DOMAIN c.lights : c.lights[i] \in {NewCtx, Made(a, ActLights[a][i])}
         /\ c.done \in BOOLEAN /\ (c.done => AmbientIs(a, c.amb))
    <3>1. /\ Context(c) /\ BoundFor(c, vill) /\ DOMAIN c.lights = DOMAIN ActLights[c.attr]
          /\ c.attr = a /\ c.done = vctx.done /\ c.amb = vctx.amb
          /\ \A i \in DOMAIN c.lights : c.lights[i] \in {NewCtx, Made(c.attr, ActLights[c.attr][i])}
      BY <1>0, <2>0, CheckedContext
    <3>2. /\ c = [attr |-> c.attr, lights |-> c.lights, done |-> c.done, amb |-> c.amb]
          /\ c.done \in BOOLEAN /\ (c.done => AmbientIs(c.attr, c.amb))
      BY <3>1 DEF Context
    <3> QED
      BY <2>0, <3>1, <3>2
  <2>14. CASE Ambient
    <3> DEFINE amb == DOMAIN ActLights[a] \ NonAmbient(a)
               bad == {i \in amb : ActLights[a][i] \in BadLights}
               ran == IF bad = {} THEN amb ELSE {i \in amb : i <= Min(bad)}
               ls == [i \in DOMAIN c.lights |-> IF i \in ran THEN LightSetup(c.lights[i], a, ActLights[a][i])
                                                            ELSE c.lights[i]]
               m == IF bad = {} THEN AmbientOf(a) ELSE c.amb
               d == [attr |-> c.attr, lights |-> ls, done |-> TRUE, amb |-> m]
    <3>1. CASE vctx.done
      <4>1. vctx' = vctx /\ vused' = {vctx.amb} /\ vub' = vub /\ vill' = vill
        BY <2>14, <3>1 DEF Ambient
      <4>2. AmbientIs(vctx'.attr, vctx.amb)
        BY <2>13, <3>1, <4>1
      <4> QED
        BY <1>0, <1>5, <2>0, <4>1, <4>2 DEF ContextInv
    <3>2. CASE ~vctx.done
      <4>1. vctx' = IF bad = {} THEN [[c EXCEPT !.done = TRUE, !.lights = ls] EXCEPT !.amb = AmbientOf(a)]
                                ELSE [c EXCEPT !.done = TRUE, !.lights = ls]
        BY <2>14, <3>2 DEF Ambient
      <4>2. /\ vub' = vub /\ (bad # {} => vused' = vused /\ vphase' = "ret")
            /\ (bad = {} => vused' = {vctx'.amb} /\ vill' = vill)
        BY <2>14, <3>2 DEF Ambient
      <4>3. bad # {} => HasBad(a)
        BY DEF HasBad
      <4>4. \A i \in DOMAIN c.lights : ls[i] = IF i \in ran THEN Made(a, ActLights[a][i]) ELSE c.lights[i]
        <5>1. \A i \in DOMAIN c.lights : LightSetup(c.lights[i], a, ActLights[a][i]) = Made(a, ActLights[a][i])
          BY <2>13, LightMade
        <5> HIDE DEF ran, c
        <5> QED
          BY <5>1
      <4>5. DOMAIN ls = DOMAIN c.lights
        OBVIOUS
      <4> HIDE DEF bad, ran, ls, c
      <4>6. vctx' = d
        BY <2>13, <4>1
      <4>7. AmbientIs(a, m)
        BY <4>3 DEF AmbientIs
      <4> HIDE DEF m, a
      <4>8. /\ Context([attr |-> c.attr, lights |-> ls, done |-> TRUE, amb |-> m])
            /\ BoundFor([attr |-> c.attr, lights |-> ls, done |-> TRUE, amb |-> m], vill)
        BY <1>0, <2>13, <4>4, <4>5, <4>7, LightContext
      <4>9. Context(d) /\ BoundFor(d, vill) /\ d.attr = a /\ d.amb = m
        BY <2>13, <4>8
      <4> HIDE DEF d
      <4>10. \A v \in vused' : AmbientIs(vctx'.attr, v)
        <5>1. CASE bad = {}
          BY <4>2, <4>6, <4>7, <4>9, <5>1
        <5>2. CASE bad # {}
          BY <1>0, <4>2, <4>3, <4>6, <4>9, <5>2 DEF AmbientIs
        <5> QED
          BY <5>1, <5>2
      <4>11. vphase' = "run" => BoundFor(vctx', vill')
        BY <4>2, <4>6, <4>9
      <4> QED
        BY <1>5, <2>13, <4>2, <4>6, <4>9, <4>10, <4>11 DEF ContextInv
    <3> QED
      BY <3>1, <3>2
  <2>15. CASE IlluminanceNext
    <3> DEFINE i == Min(MoreLights)
               l == ActLights[a][i]
               x == LightSetup(c.lights[i], a, l)
               d == [c EXCEPT !.lights[i] = x]
    <3>1. /\ MoreLights # {} /\ \/ i \notin DOMAIN c.lights
                                \/ i \in DOMAIN c.lights /\ x.bound /\ vctx' = d /\ NextLight(i)
                                \/ i \in DOMAIN c.lights /\ ~x.bound /\ Undefined("segment") /\ vctx' = vctx
                                \/ i \in DOMAIN c.lights /\ ~x.bound /\ vctx' = d /\ Ends("thrown") /\ vused' = vused
      BY <2>15 DEF IlluminanceNext
    <3>2. i \in NonAmbient(a) /\ i \in Nat /\ i > 0
      <4>1. MoreLights \in SUBSET Nat /\ MoreLights \subseteq NonAmbient(a) /\ NonAmbient(a) \subseteq Nat \ {0}
        BY <2>0, LightsAre DEF MoreLights
      <4> QED
        BY <3>1, <4>1, LeastExists
    <3>3. i \in DOMAIN c.lights
      BY <2>0, <2>13, <3>2, LightsAre
    <3>4. x = Made(a, l)
      BY <2>13, <3>3, LightMade
    <3>5. ~x.bound => HasBad(a)
      <4>1. CASE l \in BadLights
        <5>1. i \in DOMAIN ActLights[a]
          BY <2>13, <3>3
        <5> HIDE DEF i, c
        <5> QED
          BY <4>1, <5>1 DEF HasBad
      <4>2. CASE l \notin BadLights
        <5>1. Made(a, l).bound = (l \notin BadLights)
          BY DEF Made
        <5>2. x.bound = (l \notin BadLights)
          BY <3>4, <5>1
        <5> HIDE DEF x
        <5> QED
          BY <4>2, <5>2
      <4> QED
        BY <4>1, <4>2
    <3> DEFINE ls == [c.lights EXCEPT ![i] = x]
    <3>6. d = [attr |-> c.attr, lights |-> ls, done |-> c.done, amb |-> c.amb]
      BY <2>13
    <3>7. DOMAIN ls = DOMAIN c.lights /\ ls[i] = x /\ \A j \in DOMAIN c.lights :
              ls[j] = IF j \in {i} THEN Made(a, ActLights[a][j]) ELSE c.lights[j]
      BY <3>3, <3>4
    <3> HIDE DEF ls, c, x, i
    <3>8. Context(d) /\ d.attr = a /\ d.lights = ls
      <4>1. Context([attr |-> c.attr, lights |-> ls, done |-> c.done, amb |-> c.amb])
        BY <2>13, <3>7, LightContext
      <4> QED
        BY <2>13, <3>6, <4>1
    <3> HIDE DEF d
    <3>9. CASE x.bound /\ vctx' = d /\ NextLight(i)
      <4>1. vused' = vused /\ vub' = vub /\ vill' = i + 1
        BY <3>9 DEF NextLight
      <4>2. BoundFor(d, i + 1)
        <5>1. (i + 1) - 1 = i
          BY <3>2
        <5>2. x = [attr |-> a, light |-> l, bound |-> TRUE]
          BY <3>4, <3>9 DEF Made
        <5> QED
          BY <3>3, <3>7, <3>8, <5>1, <5>2 DEF BoundFor
      <4> QED
        BY <1>0, <1>5, <2>0, <3>8, <3>9, <4>1, <4>2 DEF ContextInv
    <3>10. CASE ~x.bound /\ Undefined("segment") /\ vctx' = vctx
      <4>1. vub' = "segment" /\ vphase' = vphase /\ vill' = vill /\ vused' = vused
        BY <3>10
      <4> QED
        BY <2>0, <3>5, <3>10, <4>1, LightSame
    <3>11. CASE ~x.bound /\ vctx' = d /\ Ends("thrown") /\ vused' = vused
      <4>1. vphase' = "ret" /\ vub' = vub
        BY <3>11
      <4> QED
        BY <1>0, <1>5, <2>0, <3>8, <3>11, <4>1 DEF ContextInv
    <3> QED
      BY <3>1, <3>3, <3>9, <3>10, <3>11
  <2> QED
    BY <1>5, <2>1, <2>2, <2>3, <2>4, <2>5, <2>6, <2>7, <2>8, <2>9, <2>10, <2>11, <2>12, <2>14, <2>15, <2>29 DEF VStep
<1> QED
  BY <1>1, <1>2, <1>3, <1>4, <1>5 DEF VNext

\* The next light that is not ambient; one that does not bind ends the run.
LEMMA NextIs ==
    ASSUME MachineInv, ContextInv, vphase = "run", IlluminanceNext
    PROVE  LET i == Min(MoreLights) IN
           /\ i \in NonAmbient(vctx.attr) /\ vill <= i
           /\ \A j \in NonAmbient(vctx.attr) : vill <= j => i <= j
           /\ NextLight(i) \/ (HasBad(vctx.attr) /\ (Undefined("segment") \/ Ends("thrown")))
<1> DEFINE a == vctx.attr
           c == CheckInit(vctx)
           i == Min(MoreLights)
           l == ActLights[a][i]
           x == LightSetup(c.lights[i], a, l)
<1>0. a \in Attribs /\ Context(vctx) /\ BoundFor(vctx, vill) /\ vill \in Nat
  BY DEF ContextInv, MachineInv
<1>1. NonAmbient(a) \in SUBSET (Nat \ {0}) /\ NonAmbient(a) \subseteq DOMAIN ActLights[a]
  BY <1>0, LightsAre
<1>2. /\ MoreLights # {} /\ \/ i \notin DOMAIN c.lights
                            \/ NextLight(i)
                            \/ ~x.bound /\ (Undefined("segment") \/ Ends("thrown"))
  BY DEF IlluminanceNext
<1>3. i \in MoreLights /\ \A j \in MoreLights : i <= j
  <2>1. MoreLights \in SUBSET Nat
    BY <1>1 DEF MoreLights
  <2> QED
    BY <1>2, <2>1, LeastExists
<1>4. i \in NonAmbient(a) /\ vill <= i /\ \A j \in NonAmbient(a) : vill <= j => i <= j
  <2>1. \A j \in NonAmbient(a) : j \in MoreLights <=> vill <= j
    BY <1>0, <1>1 DEF MoreLights
  <2>2. MoreLights \subseteq NonAmbient(a)
    BY DEF MoreLights
  <2> QED
    BY <1>3, <2>1, <2>2
<1>5. DOMAIN c.lights = DOMAIN ActLights[a] /\ c.attr = a
      /\ \A j \in DOMAIN c.lights : c.lights[j] \in {NewCtx, Made(a, ActLights[a][j])}
  <2>1. /\ DOMAIN c.lights = DOMAIN ActLights[c.attr] /\ c.attr = a
        /\ \A j \in DOMAIN c.lights : c.lights[j] \in {NewCtx, Made(c.attr, ActLights[c.attr][j])}
    BY <1>0, CheckedContext
  <2> QED
    BY <2>1
<1>6. i \in DOMAIN c.lights /\ i \in DOMAIN ActLights[a]
  BY <1>1, <1>4, <1>5
<1>7. x = Made(a, l)
  BY <1>0, <1>5, <1>6, LightMade
<1>8. ~x.bound => HasBad(a)
  <2>1. CASE l \in BadLights
    <3> HIDE DEF i, c
    <3> QED
      BY <1>6, <2>1 DEF HasBad
  <2>2. CASE l \notin BadLights
    <3>1. Made(a, l).bound = (l \notin BadLights)
      BY DEF Made
    <3>2. x.bound = (l \notin BadLights)
      BY <1>7, <3>1
    <3> HIDE DEF x
    <3> QED
      BY <2>2, <3>2
  <2> QED
    BY <2>1, <2>2
<1> HIDE DEF x, c, l
<1>9. NextLight(i) \/ (HasBad(a) /\ (Undefined("segment") \/ Ends("thrown")))
  BY <1>2, <1>6, <1>8
<1> QED
  BY <1>4, <1>9

\* The attributes stay those of the grid.
LEMMA AttrKept ==
    ASSUME ContextInv, VStep
    PROVE  vctx'.attr = vctx.attr
<1> DEFINE c == CheckInit(vctx)
<1>1. c.attr = vctx.attr /\ c = [attr |-> c.attr, lights |-> c.lights, done |-> c.done, amb |-> c.amb]
  <2>1. vctx = [attr |-> vctx.attr, lights |-> vctx.lights, done |-> vctx.done, amb |-> vctx.amb]
    BY DEF ContextInv, Context
  <2>2. CASE vctx.lights # <<>>
    <3>1. c = vctx
      BY <2>2 DEF CheckInit
    <3> QED
      BY <2>1, <3>1
  <2>3. CASE vctx.lights = <<>>
    <3>1. c = [attr |-> vctx.attr, lights |-> [i \in DOMAIN ActLights[vctx.attr] |-> NewCtx],
               done |-> vctx.done, amb |-> vctx.amb]
      BY <2>1, <2>3 DEF CheckInit
    <3> QED
      BY <3>1
  <2> QED
    BY <2>2, <2>3
<1>2. CASE Ambient
  <2>1. vctx' = vctx \/ \E ls, m : \/ vctx' = [[c EXCEPT !.done = TRUE, !.lights = ls] EXCEPT !.amb = m]
                                   \/ vctx' = [c EXCEPT !.done = TRUE, !.lights = ls]
    <3> DEFINE a == vctx.attr
               amb == DOMAIN ActLights[a] \ NonAmbient(a)
               bad == {i \in amb : ActLights[a][i] \in BadLights}
               ran == IF bad = {} THEN amb ELSE {i \in amb : i <= Min(bad)}
               ls == [i \in DOMAIN c.lights |-> IF i \in ran THEN LightSetup(c.lights[i], a, ActLights[a][i])
                                                            ELSE c.lights[i]]
    <3>1. \/ vctx' = vctx
          \/ vctx' = [[c EXCEPT !.done = TRUE, !.lights = ls] EXCEPT !.amb = AmbientOf(a)]
          \/ vctx' = [c EXCEPT !.done = TRUE, !.lights = ls]
      BY <1>2 DEF Ambient
    <3> HIDE DEF ls, c
    <3> QED
      BY <3>1
  <2> HIDE DEF c
  <2> QED
    BY <1>1, <2>1
<1>3. CASE IlluminanceNext
  <2>1. vctx' = vctx \/ \E i, x : vctx' = [c EXCEPT !.lights[i] = x]
    BY <1>3 DEF IlluminanceNext, Undefined
  <2> HIDE DEF c
  <2> QED
    BY <1>1, <2>1
<1>4. CASE ~Ambient /\ ~IlluminanceNext
  <2> USE DEF Undefined
  <2>1. vctx' = vctx
    BY <1>4 DEF VStep, Plain, CompareLess, RunOver, Illuminance, IlluminanceNoLights, NestedThrows, Solar, IfTrue,
                OrElse, EmptyThrows, FuncopEnd, IlluminanceOver
  <2> QED
    BY <2>1
<1> QED
  BY <1>2, <1>3, <1>4

\* A program that is well-formed can be reasoned about.
LEMMA SoundIs ==
    ASSUME ParseInv, WellFormed
    PROVE  Sound(vcode) /\ Links(vcode, vbegins) /\ Len(vcode) \in Nat /\ DOMAIN vcode = 1..Len(vcode)
           /\ Len(vcode) < INVALID_ADDR
<1>1. Len(vcode) \in Nat /\ vcode \in Programs(Len(vcode)) /\ Nested(vcode) /\ Links(vcode, vbegins)
  BY DEF ParseInv, Programs
<1>2. Len(vcode) < INVALID_ADDR
  <2>1. Len(vsrc) \in Nat /\ Len(vsrc) < INVALID_ADDR
    BY VMAssumption DEF ParseInv
  <2>2. vline \in 1..(Len(vsrc) + 1) /\ Len(vcode) < vline
    BY DEF ParseInv
  <2> QED
    BY <1>1, <2>1, <2>2 DEF INVALID_ADDR
<1>3. vcode \in Code /\ DOMAIN vcode = 1..Len(vcode)
  BY <1>1, <1>2, ProgramTypes
<1>4. Closed(vcode)
  BY DEF WellFormed
<1> QED
  BY <1>1, <1>2, <1>3, <1>4 DEF Sound

\* The start of a run of a well-formed program.
LEMMA RunBegins ==
    ASSUME ParseInv, NEW s, RunFrom(s), s[1] = vmain \/ (s[1] = vdef /\ vdef # 0), vmain # 0,
           vcode' = vcode, vmain' = vmain, vdef' = vdef, vctx'.attr \in Attribs, vub' # "code"
    PROVE  RunInv'
<1> SUFFICES ASSUME WellFormed' PROVE RunInv'
  BY DEF RunInv
<1>1. WellFormed
  BY DEF WellFormed, Jumps
<1>2. Sound(vcode) /\ Len(vcode) \in Nat
  BY <1>1, SoundIs
<1>3. s[1] \in 1..(Len(vcode) + 1) /\ Depth(vcode, s[1]) = 0
  BY <1>1, <1>2 DEF ParseInv, WellFormed
<1>4. NonAmbient(vctx'.attr) \in SUBSET (Nat \ {0}) /\ IsFiniteSet(NonAmbient(vctx'.attr))
  BY LightsAre
<1>5. RunOf(vcode, NonAmbient(vctx'.attr), s[1], s[1], <<>>, 0, 0, [i \in DOMAIN vcode |-> 0])
  BY <1>2, <1>3, <1>4, RunStart
<1>6. /\ vpc' = s[1] /\ vstart' = s[1] /\ vfop' = <<>> /\ vill' = 0 /\ vbody' = 0
      /\ vvisits' = [i \in DOMAIN vcode |-> 0] /\ vphase' = "run"
  BY DEF RunFrom
<1>7. RunOf(vcode', NonAmbient(vctx'.attr), vstart', vpc', vfop', vill', vbody', vvisits')
  BY <1>5, <1>6
<1> QED
  BY <1>6, <1>7 DEF RunInv, Shining

LEMMA RunStep ==
    ASSUME ParseInv, MachineInv, ContextInv, RunInv, ContextInv', [VNext]_vvars
    PROVE  RunInv'
<1>0. ParseInv /\ MachineInv /\ ContextInv /\ RunInv /\ ContextInv'
  OBVIOUS
<1>1. CASE UNCHANGED vvars
  <2>1. UNCHANGED <<vcode, vmain, vdef, vphase, vctx, vstart, vpc, vfop, vill, vbody, vvisits, vout, vub>>
    BY <1>1 DEF vvars
  <2>2. WellFormed' = WellFormed /\ CutShort' = CutShort /\ Shining' = Shining /\ LightsN' = LightsN
    BY <2>1 DEF WellFormed, Jumps, CutShort, Shining, LightsN
  <2> QED
    BY <1>0, <2>1, <2>2 DEF RunInv
<1>2. CASE vub = "no" /\ (ParseLabel \/ ParseCodeLine \/ ParseEnd)
  <2>1. vphase' \in {"parse", "rejected", "idle"} /\ vub' = vub
    BY <1>2 DEF ParseLabel, ParseCodeLine, ParseEnd
  <2> QED
    BY <1>2, <2>1 DEF RunInv
<1>3. CASE vub = "no" /\ \E a \in Attribs : Shade(a)
  <2> DEFINE s == IF vdef = 0 THEN <<vmain>> ELSE <<vdef, vmain>>
  <2>1. RunFrom(s) /\ vcode' = vcode /\ vmain' = vmain /\ vdef' = vdef /\ vub' = vub /\ vphase = "idle"
        /\ vphase' = "run"
    BY <1>3 DEF Shade, RunFrom, parsing
  <2>2. s[1] = vmain \/ (s[1] = vdef /\ vdef # 0)
    OBVIOUS
  <2>3. vmain # 0 /\ vctx'.attr \in Attribs
    BY <1>0, <2>1 DEF ParseInv, ContextInv
  <2> HIDE DEF s
  <2> QED
    BY <1>0, <1>3, <2>1, <2>2, <2>3, RunBegins
<1>4. CASE vub = "no" /\ NextRun
  <2>1. CASE vstarts # <<>>
    <3>1. RunFrom(vstarts) /\ vcode' = vcode /\ vmain' = vmain /\ vdef' = vdef /\ vub' = vub /\ vphase = "ret"
          /\ vphase' = "run"
      BY <1>4, <2>1 DEF NextRun, RunFrom, parsing
    <3>2. vstarts[1] = vmain
      <4>1. vstarts = <<vmain>>
        BY <1>0, <2>1 DEF MachineInv
      <4> QED
        BY <4>1
    <3>3. vmain # 0 /\ vctx'.attr \in Attribs
      BY <1>0, <3>1 DEF ParseInv, ContextInv
    <3> QED
      BY <1>0, <1>4, <3>1, <3>2, <3>3, RunBegins
  <2>2. CASE vstarts = <<>>
    <3>1. vphase' = "idle" /\ vub' = vub
      BY <1>4, <2>2 DEF NextRun
    <3> QED
      BY <1>4, <3>1 DEF RunInv
  <2> QED
    BY <2>1, <2>2
<1>5. CASE vub = "no" /\ VStep
  <2> SUFFICES ASSUME WellFormed' PROVE RunInv'
    BY DEF RunInv
  <2>0. /\ vphase = "run" /\ vphase' \in {"run", "ret"} /\ vcode' = vcode /\ vbegins' = vbegins
        /\ vmain' = vmain /\ vdef' = vdef /\ vstart' = vstart /\ vctx'.attr = vctx.attr
    BY <1>0, <1>5, StepKeeps, AttrKept DEF KeptBySteps
  <2>1. WellFormed /\ Shining' = Shining /\ LightsN' = LightsN /\ CutShort' = CutShort
        /\ LightsN = Cardinality(Shining)
    BY <2>0 DEF WellFormed, Jumps, Shining, LightsN, CutShort
  <2> DEFINE c == vcode
             L == Shining
             GoesOn == /\ vub' # "code" /\ vphase' = "run"
                       /\ RunOf(c, L, vstart, vpc', vfop', vill', vbody', vvisits')
             Cut == vub' # "code" /\ vphase' = "ret" /\ vout' = "thrown" /\ CutShort
             Finished == /\ vub' # "code" /\ vphase' = "ret" /\ vout' = "done"
                         /\ \A pc \in DOMAIN c : c[pc].op \in {"op", "ambient"} =>
                                vvisits'[pc] = Expected(c, Cardinality(L), vstart, pc)
             Lost == vub' # "code" /\ UNCHANGED <<vphase, vpc, vfop, vill, vbody, vvisits>>
  <2>2. RunOf(c, L, vstart, vpc, vfop, vill, vbody, vvisits)
    BY <1>0, <2>0, <2>1 DEF RunInv
  <2>3. GoesOn => RunInv'
    BY <2>0, <2>1 DEF RunInv
  <2>4. Cut => RunInv'
    BY <2>0, <2>1 DEF RunInv
  <2>5. Finished => RunInv'
    BY <2>0, <2>1 DEF RunInv
  <2>6. Lost => RunInv'
    BY <2>0, <2>1, <2>2 DEF RunInv
  <2>7. Sound(c) /\ Links(c, vbegins) /\ Len(c) \in Nat /\ DOMAIN c = 1..Len(c) /\ Len(c) < INVALID_ADDR
    BY <1>0, <2>1, SoundIs
  <2>8. vctx.attr \in Attribs /\ vfop \in Seq(Flags) /\ Len(vfop) <= MaxFop /\ vill \in Nat /\ vbody \in Nat
        /\ vvisits \in [DOMAIN c -> Int] /\ MaxFop \in Nat /\ Len(vfop) \in Nat
    BY <1>0, <2>0, VMAssumption DEF MachineInv, ContextInv
  <2>9. L \in SUBSET (Nat \ {0}) /\ IsFiniteSet(L) /\ (ActLights[vctx.attr] = <<>> => L = {})
    BY <2>8, LightsAre DEF Shining
  <2>10. Setting(c, vbegins, L)
    BY <2>7, <2>9 DEF Setting
  <2>11. /\ vstart \in 1..(Len(c) + 1) /\ vpc \in 1..(Len(c) + 1)
         /\ Stack(c, vpc, vfop, vill, vbody) /\ Loop(c, L, vstart, vpc, vill, vbody)
    BY <2>2, <2>7 DEF RunOf
  <2>12. /\ vfop = <<>> <=> Open(c, vpc) = {}
         /\ Len(vfop) = Depth(c, vpc)
    BY <2>7, <2>8, <2>11, Outside
  <2>13. vub' = vub => vub' # "code"
    BY <1>5
  <2>30. ~Jumps(c)
    BY <2>1 DEF WellFormed
  <2>31. ~CompareLess
    BY <2>30 DEF CompareLess, At, Jumps
  <2> HIDE DEF L, GoesOn, Cut, Finished, Lost, c
  <2>14. Plain => GoesOn
    <3> SUFFICES ASSUME Plain PROVE GoesOn
      OBVIOUS
    <3>1. vpc \in DOMAIN c /\ c[vpc].op = "op" /\ vpc' = vpc + 1 /\ vfop' = vfop /\ vill' = vill /\ vbody' = vbody
          /\ vvisits' = [vvisits EXCEPT ![vpc] = @ + 1] /\ vphase' = "run" /\ vub' = vub
      BY <2>0, <2>30 DEF Plain, At, Goto, Visit, c
    <3>2. RunOf(c, L, vstart, vpc + 1, vfop, vill, vbody, [vvisits EXCEPT ![vpc] = @ + 1])
      BY <2>2, <2>8, <2>10, <3>1, RunPlain
    <3> QED
      BY <2>13, <3>1, <3>2 DEF GoesOn
  <2>15. RunOver => Finished
    <3> SUFFICES ASSUME RunOver PROVE Finished
      OBVIOUS
    <3>1. vpc \notin DOMAIN c \/ c[vpc].op = "ret"
      BY DEF RunOver, At, c
    <3>2. vphase' = "ret" /\ vout' = "done" /\ vvisits' = vvisits /\ vub' = vub
      BY DEF RunOver, Ends
    <3>3. \A q \in DOMAIN c : c[q].op \in {"op", "ambient"} =>
              vvisits[q] = Expected(c, Cardinality(L), vstart, q)
      BY <2>2, <2>8, <2>10, <2>11, <3>1, RunIsOver
    <3> QED
      BY <2>13, <3>2, <3>3 DEF Finished
  <2>16. Ambient => GoesOn \/ Cut
    <3> SUFFICES ASSUME Ambient PROVE GoesOn \/ Cut
      OBVIOUS
    <3> DEFINE bad == {i \in DOMAIN ActLights[vctx.attr] \ NonAmbient(vctx.attr) :
                           ActLights[vctx.attr][i] \in BadLights}
    <3>1. \/ bad # {} /\ Ends("thrown")
          \/ Goto(vpc + 1, vfop) /\ Visit /\ vill' = vill /\ vbody' = vbody
      BY DEF Ambient
    <3>2. bad # {} => HasBad(vctx.attr)
      BY DEF HasBad
    <3> HIDE DEF bad
    <3>3. CASE bad # {} /\ Ends("thrown")
      BY <2>13, <3>2, <3>3 DEF Ends, Cut, CutShort
    <3>4. CASE Goto(vpc + 1, vfop) /\ Visit /\ vill' = vill /\ vbody' = vbody
      <4>1. vpc \in DOMAIN c /\ c[vpc].op = "ambient" /\ vpc' = vpc + 1 /\ vfop' = vfop /\ vill' = vill
            /\ vbody' = vbody /\ vvisits' = [vvisits EXCEPT ![vpc] = @ + 1] /\ vphase' = "run" /\ vub' = vub
        BY <2>0, <2>30, <3>4 DEF Ambient, At, Goto, Visit, c
      <4>2. RunOf(c, L, vstart, vpc + 1, vfop, vill, vbody, [vvisits EXCEPT ![vpc] = @ + 1])
        BY <2>2, <2>8, <2>10, <4>1, RunPlain
      <4> QED
        BY <2>13, <4>1, <4>2 DEF GoesOn
    <3> QED
      BY <3>1, <3>3, <3>4
  <2>17. Illuminance => GoesOn
    <3> SUFFICES ASSUME Illuminance PROVE GoesOn
      OBVIOUS
    <3>1. vpc \in DOMAIN c /\ c[vpc].op = "illum" /\ vfop = <<>> /\ vpc' = c[vpc].end /\ vfop' = <<"ILLUM">>
          /\ vill' = 1 /\ vbody' = vpc + 1 /\ vvisits' = vvisits /\ vphase' = "run" /\ vub' = vub
      BY <2>0 DEF Illuminance, At, Goto, c
    <3>2. <<"ILLUM">> = Append(vfop, "ILLUM")
      BY <3>1
    <3>3. RunOf(c, L, vstart, c[vpc].end, Append(vfop, "ILLUM"), 1, vpc + 1, vvisits)
      BY <2>2, <2>8, <2>10, <3>1, RunLoop
    <3>4. RunOf(c, L, vstart, vpc', vfop', vill', vbody', vvisits')
      BY <3>1, <3>2, <3>3
    <3> QED
      BY <2>13, <3>1, <3>4 DEF GoesOn
  <2>18. IlluminanceNoLights => GoesOn
    <3> SUFFICES ASSUME IlluminanceNoLights PROVE GoesOn
      OBVIOUS
    <3>1. vpc \in DOMAIN c /\ c[vpc].op = "illum" /\ vfop = <<>> /\ L = {}
      BY <2>9 DEF IlluminanceNoLights, At, c
    <3>2. RunOf(c, L, vstart, c[vpc].end + 1, vfop, vill, vbody, vvisits) /\ c[vpc].end \in DOMAIN c
      BY <2>2, <2>8, <2>10, <3>1, RunNoLights
    <3>3. c[vpc].end # INVALID_ADDR
      BY <2>7, <3>2 DEF INVALID_ADDR
    <3>4. vpc' = c[vpc].end + 1 /\ vfop' = vfop /\ vill' = vill /\ vbody' = vbody /\ vvisits' = vvisits
          /\ vphase' = "run" /\ vub' = vub
      BY <2>0, <3>3 DEF IlluminanceNoLights, Unlinked, Goto, c
    <3> QED
      BY <2>13, <3>2, <3>4 DEF GoesOn
  <2>19. NestedThrows => Cut
    <3> SUFFICES ASSUME NestedThrows PROVE Cut
      OBVIOUS
    <3>1. vpc \in DOMAIN c /\ c[vpc].op \in {"illum", "solar"} /\ vfop # <<>>
          /\ vphase' = "ret" /\ vout' = "thrown" /\ vub' = vub
      BY DEF NestedThrows, At, Ends, c
    <3>2. CutShort
      BY <2>12, <3>1 DEF CutShort, c
    <3> QED
      BY <2>13, <3>1, <3>2 DEF Cut
  <2>20. ASSUME NEW f \in Flags, NEW t, Pushes(f, t), vpc \in DOMAIN c, vvisits' = vvisits,
                c[vpc].op \in {"ifT", "ifF", "ifV", "solar"}, c[vpc].op = "solar" => vfop = <<>>,
                \/ c[vpc].op = "solar" /\ f = "SOLAR" /\ t = vpc + 1
                \/ c[vpc].op = "ifV" /\ f = "IFVARY" /\ t = vpc + 1
                \/ c[vpc].op = "ifT" /\ f = "IFTRUE" /\ t = vpc + 1
                \/ c[vpc].op = "ifF" /\ f = "IF" /\ t = c[vpc].end
         PROVE  GoesOn \/ Cut
    <3>1. CASE Len(vfop) < MaxFop
      <4>1. vpc' = t /\ vfop' = Append(vfop, f) /\ vill' = vill /\ vbody' = vbody /\ vphase' = "run" /\ vub' = vub
        BY <2>0, <2>20, <3>1 DEF Pushes, Goto
      <4>2. RunOf(c, L, vstart, t, Append(vfop, f), vill, vbody, vvisits)
        BY <2>2, <2>8, <2>10, <2>20, RunEnter
      <4> QED
        BY <2>13, <2>20, <4>1, <4>2 DEF GoesOn
    <3>2. CASE ~(Len(vfop) < MaxFop)
      <4>1. vphase' = "ret" /\ vout' = "thrown" /\ vub' = vub
        BY <2>20, <3>2 DEF Pushes, Ends
      <4>2. Depth(c, vpc) = MaxFop /\ c[vpc].op \in Begins
        BY <2>8, <2>12, <2>20, <3>2 DEF Begins
      <4>3. CutShort
        BY <2>20, <4>2 DEF CutShort, c
      <4> QED
        BY <2>13, <4>1, <4>3 DEF Cut
    <3> QED
      BY <3>1, <3>2
  <2>21. Solar => GoesOn \/ Cut
    <3>1. "SOLAR" \in Flags
      BY DEF Flags
    <3>2. Solar => vpc \in DOMAIN c /\ c[vpc].op = "solar" /\ vfop = <<>> /\ Pushes("SOLAR", vpc + 1)
                   /\ vvisits' = vvisits
      BY DEF Solar, At, c
    <3> QED
      BY <2>20, <3>1, <3>2
  <2>22. IfTrue => GoesOn \/ Cut
    <3> SUFFICES ASSUME IfTrue PROVE GoesOn \/ Cut
      OBVIOUS
    <3>1. "IFVARY" \in Flags /\ "IFTRUE" \in Flags /\ "IF" \in Flags
      BY DEF Flags
    <3>2. vpc \in DOMAIN c /\ vvisits' = vvisits
          /\ \/ c[vpc].op = "ifV" /\ Pushes("IFVARY", vpc + 1)
             \/ c[vpc].op = "ifT" /\ Pushes("IFTRUE", vpc + 1)
             \/ c[vpc].op = "ifF" /\ Pushes("IF", c[vpc].end)
      BY DEF IfTrue, At, c
    <3> QED
      BY <2>20, <3>1, <3>2
  <2>23. OrElse => GoesOn
    <3> SUFFICES ASSUME OrElse PROVE GoesOn
      OBVIOUS
    <3>1. vpc \in DOMAIN c /\ c[vpc].op = "orelse"
      BY DEF OrElse, At, c
    <3>2. CASE VTop(vfop) = "IFTRUE"
      <4>1. RunOf(c, L, vstart, c[vpc].end + 1, VPop(vfop), vill, vbody, vvisits) /\ c[vpc].end \in DOMAIN c
        BY <2>2, <2>8, <2>10, <3>1, <3>2, RunElse
      <4>2. c[vpc].end # INVALID_ADDR
        BY <2>7, <4>1 DEF INVALID_ADDR
      <4>3. vpc' = c[vpc].end + 1 /\ vfop' = VPop(vfop) /\ vill' = vill /\ vbody' = vbody /\ vvisits' = vvisits
            /\ vphase' = "run" /\ vub' = vub
        BY <2>0, <3>2, <4>2 DEF OrElse, Unlinked, Goto, c
      <4> QED
        BY <2>13, <4>1, <4>3 DEF GoesOn
    <3>3. CASE VTop(vfop) # "IFTRUE"
      <4>1. RunOf(c, L, vstart, vpc + 1, Append(VPop(vfop), "ORELSE"), vill, vbody, vvisits)
        BY <2>2, <2>8, <2>10, <3>1, <3>3, RunElse
      <4>2. vpc' = vpc + 1 /\ vfop' = Append(VPop(vfop), "ORELSE") /\ vill' = vill /\ vbody' = vbody
            /\ vvisits' = vvisits /\ vphase' = "run" /\ vub' = vub
        BY <2>0, <3>3 DEF OrElse, Goto
      <4> QED
        BY <2>13, <4>1, <4>2 DEF GoesOn
    <3> QED
      BY <3>2, <3>3
  <2>24. ~EmptyThrows
    <3> SUFFICES ASSUME EmptyThrows PROVE FALSE
      OBVIOUS
    <3>1. vpc \in DOMAIN c /\ c[vpc].op \in {"end", "orelse"} /\ vfop = <<>>
      BY DEF EmptyThrows, At, c
    <3> QED
      BY <2>7, <2>8, <2>11, <3>1, TopIs
  <2>25. FuncopEnd => GoesOn
    <3> SUFFICES ASSUME FuncopEnd PROVE GoesOn
      OBVIOUS
    <3>1. vpc \in DOMAIN c /\ c[vpc].op = "end" /\ VTop(vfop) # "ILLUM" /\ vpc' = vpc + 1 /\ vfop' = VPop(vfop)
          /\ vill' = vill /\ vbody' = vbody /\ vvisits' = vvisits /\ vphase' = "run" /\ vub' = vub
      BY <2>0 DEF FuncopEnd, At, Goto, c
    <3>2. RunOf(c, L, vstart, vpc + 1, VPop(vfop), vill, vbody, vvisits)
      BY <2>2, <2>8, <2>10, <3>1, RunEnd
    <3> QED
      BY <2>13, <3>1, <3>2 DEF GoesOn
  <2>26. IlluminanceNext => GoesOn \/ Cut \/ Lost
    <3> SUFFICES ASSUME IlluminanceNext PROVE GoesOn \/ Cut \/ Lost
      OBVIOUS
    <3> DEFINE i == Min(MoreLights)
    <3>1. vpc \in DOMAIN c /\ c[vpc].op = "end" /\ VTop(vfop) = "ILLUM"
      BY DEF IlluminanceNext, At, c
    <3>2. /\ i \in L /\ vill <= i
          /\ \A j \in L : vill <= j => i <= j
          /\ NextLight(i) \/ (HasBad(vctx.attr) /\ (Undefined("segment") \/ Ends("thrown")))
      BY <1>0, <2>0, NextIs DEF L, Shining
    <3> HIDE DEF i
    <3>3. CASE NextLight(i)
      <4>1. vpc' = vbody /\ vfop' = vfop /\ vill' = i + 1 /\ vbody' = vbody /\ vvisits' = vvisits
            /\ vphase' = "run" /\ vub' = vub
        BY <2>0, <3>3 DEF NextLight, Goto
      <4>2. RunOf(c, L, vstart, vbody, vfop, i + 1, vbody, vvisits)
        BY <2>2, <2>8, <2>10, <3>1, <3>2, RunLight
      <4> QED
        BY <2>13, <4>1, <4>2 DEF GoesOn
    <3>4. CASE HasBad(vctx.attr) /\ Undefined("segment")
      BY <3>4 DEF Undefined, running, Lost
    <3>5. CASE HasBad(vctx.attr) /\ Ends("thrown")
      BY <2>13, <3>5 DEF Ends, Cut, CutShort
    <3> QED
      BY <3>2, <3>3, <3>4, <3>5
  <2>27. IlluminanceOver => GoesOn
    <3> SUFFICES ASSUME IlluminanceOver PROVE GoesOn
      OBVIOUS
    <3>1. vpc \in DOMAIN c /\ c[vpc].op = "end" /\ VTop(vfop) = "ILLUM" /\ vpc' = vpc + 1 /\ vfop' = VPop(vfop)
          /\ vill' = 0 /\ vbody' = vbody /\ vvisits' = vvisits /\ vphase' = "run" /\ vub' = vub
          /\ MoreLights = {}
      BY <2>0 DEF IlluminanceOver, At, Goto, c
    <3>2. \A j \in L : j < vill
      <4>1. \A j \in L : j \in Nat /\ ~(j >= vill)
        BY <2>9, <3>1 DEF MoreLights, L, Shining
      <4> QED
        BY <2>8, <4>1
    <3>3. RunOf(c, L, vstart, vpc + 1, VPop(vfop), 0, vbody, vvisits)
      BY <2>2, <2>8, <2>10, <3>1, <3>2, RunLightsOver
    <3> QED
      BY <2>13, <3>1, <3>3 DEF GoesOn
  <2>28. GoesOn \/ Cut \/ Finished \/ Lost
    BY <1>5, <2>14, <2>15, <2>16, <2>17, <2>18, <2>19, <2>21, <2>22, <2>23, <2>24, <2>25, <2>26, <2>27, <2>31 DEF VStep
  <2> QED
    BY <2>3, <2>4, <2>5, <2>6, <2>28
<1> QED
  BY <1>1, <1>2, <1>3, <1>4, <1>5 DEF VNext

----------------------------------------------------------------------------
(* The theorems.                                                           *)

\* The invariant of the parser and of the machine holds throughout.
THEOREM ShaderInvariance == VSpec => []IInv
<1>1. VInit => IInv
  <2> SUFFICES ASSUME VInit PROVE IInv
    OBVIOUS
  <2>1. RunInv
    BY DEF VInit, RunInv
  <2> QED
    BY <2>1, ParseInit, MachineInit, LightInit DEF IInv
<1>2. IInv /\ [VNext]_vvars => IInv'
  <2> SUFFICES ASSUME IInv, [VNext]_vvars PROVE IInv'
    OBVIOUS
  <2>1. ParseInv /\ MachineInv /\ RunInv /\ ContextInv
    BY DEF IInv
  <2>2. ParseInv'
    BY <2>1, ParseStep
  <2>3. MachineInv'
    BY <2>1, MachineStep
  <2>4. ContextInv'
    BY <2>1, ContextStep
  <2>5. RunInv'
    BY <2>1, <2>4, RunStep
  <2> QED
    BY <2>2, <2>3, <2>4, <2>5 DEF IInv
<1> QED
  BY <1>1, <1>2, PTL DEF VSpec

(* The state keeps to its types; an address that is linked lies in the     *)
(* code, and the stack of blocks keeps to its size (mFopStack, mCode).     *)
THEOREM ShaderTypes == VSpec => []VTypeOK
<1>1. IInv => VTypeOK
  <2> SUFFICES ASSUME IInv PROVE VTypeOK
    OBVIOUS
  <2>1. ParseInv /\ MachineInv
    BY DEF IInv
  <2>2. Len(vcode) \in Nat /\ vcode \in Programs(Len(vcode))
    BY <2>1 DEF ParseInv, Programs
  <2>3. \A i \in DOMAIN vcode : vcode[i].end \in DOMAIN vcode \cup {INVALID_ADDR}
    <3> DEFINE R == [op : Ops, end : 1..Len(vcode) \cup {INVALID_ADDR}]
    <3>1. \A x \in R : x.end \in 1..Len(vcode) \cup {INVALID_ADDR}
      OBVIOUS
    <3>2. vcode \in Seq(R)
      BY <2>2 DEF Programs
    <3> HIDE DEF R
    <3>3. DOMAIN vcode = 1..Len(vcode) /\ \A i \in DOMAIN vcode : vcode[i] \in R
      BY <2>2, <3>2
    <3> QED
      BY <3>1, <3>3
  <2> QED
    BY <2>1, <2>3 DEF ParseInv, MachineInv, VTypeOK
<1> QED
  BY <1>1, ShaderInvariance, PTL

(* A run of a well-formed program executes what the text says (runFrom):   *)
(* each instruction once, per light or not at all, and the stack of blocks *)
(* is that of the text.                                                    *)
THEOREM RunsAreAsWritten == VSpec => []RunsAsWritten
<1>1. IInv => RunsAsWritten
  <2> SUFFICES ASSUME IInv PROVE RunsAsWritten
    OBVIOUS
  <2>1. ParseInv /\ MachineInv /\ RunInv
    BY DEF IInv
  <2>2. FopMatches
    <3> SUFFICES ASSUME vphase = "run", WellFormed, vpc \in DOMAIN vcode
                 PROVE  /\ Len(vfop) = Cardinality(Open(vcode, vpc))
                        /\ \A k \in DOMAIN vfop : \E i \in Open(vcode, vpc) :
                              Depth(vcode, i) = k - 1 /\ vfop[k] = Flag(vcode, i, vpc)
      BY DEF FopMatches
    <3>1. Stack(vcode, vpc, vfop, vill, vbody)
      BY <2>1 DEF RunInv, RunOf
    <3>2. Sound(vcode) /\ vpc \in 1..(Len(vcode) + 1)
      BY <2>1, SoundIs
    <3>3. Len(vfop) = Depth(vcode, vpc) /\ vfop \in Seq(Flags)
      BY <2>1, <3>1 DEF Stack, MachineInv
    <3>4. Len(vfop) = Cardinality(Open(vcode, vpc))
      BY <3>2, <3>3, OpenCount
    <3>5. ASSUME NEW k \in DOMAIN vfop
          PROVE  \E i \in Open(vcode, vpc) : Depth(vcode, i) = k - 1 /\ vfop[k] = Flag(vcode, i, vpc)
      <4>1. k \in Nat /\ k - 1 \in 0..(Depth(vcode, vpc) - 1)
        BY <3>3
      <4>2. PICK i \in Open(vcode, vpc) : Depth(vcode, i) = k - 1
        BY <3>2, <4>1, OpenAtDepth
      <4>3. vfop[Depth(vcode, i) + 1] = Flag(vcode, i, vpc)
        BY <3>1 DEF Stack
      <4>4. Depth(vcode, i) + 1 = k
        BY <4>1, <4>2
      <4> QED
        BY <4>2, <4>3, <4>4
    <3> QED
      BY <3>4, <3>5
  <2> QED
    BY <2>1, <2>2 DEF RunInv, RunsAsWritten, CutShort
<1> QED
  BY <1>1, ShaderInvariance, PTL

(* What the lights of a grid contribute is that of its own attributes,     *)
(* whatever was shaded or has failed before (Inst_Ambient,                 *)
(* FuncOpEnd_Illuminance, SetupIfChanged).                                 *)
THEOREM LightsAreCurrent == VSpec => []LightsCurrent
<1>1. IInv => LightsCurrent
  BY DEF IInv, ContextInv, LightsCurrent, AmbientCurrent, LightsBound, AmbientIs, BoundFor
<1> QED
  BY <1>1, ShaderInvariance, PTL
=============================================================================
