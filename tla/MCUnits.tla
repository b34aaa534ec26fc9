------------------------------ MODULE MCUnits ------------------------------
(***************************************************************************)
(* One instance of each unit that works on its own: the RIB parser, the    *)
(* search for shaders and light sources, primitives, the hider, the shader *)
(* VM, the connection set-up, and of the RSL compiler the preprocessor and *)
(* what becomes of expressions.  A behaviour is one of one unit; the       *)
(* variables of the others keep their initial values.                      *)
(***************************************************************************)
EXTENDS MCRibParser, SceneShaders, Primitives, MCHider, ShaderVM, Connect, MCRslPrepro, MCRslExpr

VARIABLE unit

uvars == <<unit, rvars, svars, gvars, hvars, vvars, cvars, pvars, evars>>

\* SceneShaders: search paths and files.
MCPathLists == {<<"&", "p">>, <<"p", "q">>, <<"@", "p">>, <<"@", "@">>, <<"&", "@", "&">>}
MCFileSets ==
    { {<<"base", "n", "sl">>},
      {<<"default", "n", "sl">>, <<"p", "n", "rrasm">>, <<"base/p", "m", "rib">>},
      {<<"base/q", "n", "sl">>, <<"q", "n", "sl">>, <<"p", "m", "sl">>, <<"default", "m", "rib">>},
      {<<"p", "n", "rrasm">>, <<"base/p", "n", "sl">>, <<"default", "m", "sl">>, <<"q", "m", "rib">>} }
MCBadFiles == {<<"p", "m", "sl">>}

\* Primitives: polygons of up to 7 vertices, meshes of up to 7 x 6.
Total(s) == LET F[i \in 0..Len(s)] == IF i = 0 THEN 0 ELSE F[i - 1] + s[i] IN F[Len(s)]
PolyOf(k, nl, nv) == [kind |-> k, nloops |-> nl, nverts |-> nv, n |-> Total(nv)]
MCPolyPrims ==
    {PolyOf("polygon", <<1>>, <<n>>) : n \in 0..7}
    \cup {PolyOf("points", <<>>, <<a, b>>) : a, b \in 0..7}
    \cup {PolyOf("general", nl, nv) : nl \in [1..3 -> 0..2],
                                      nv \in {<<3, 4, 5, 6, 4, 3>>, <<5, 0, 4, 7, 2, 6>>}}
MCMeshPrims ==
    {[kind |-> "bilinear", nu |-> nu, nv |-> nv, up |-> up, vp |-> vp, us |-> 1, vs |-> 1] :
        nu, nv \in 1..4, up, vp \in BOOLEAN}
    \cup {[kind |-> "bicubic", nu |-> nu, nv |-> nv, up |-> up, vp |-> vp, us |-> us, vs |-> vs] :
        nu \in {3, 4, 6, 7}, nv \in {4, 5, 6}, up, vp \in BOOLEAN, us \in {0, 1, 3}, vs \in {1, 2, 17}}

\* ShaderVM: programs by hand, and all short ones.
MCSources ==
    { <<"main:", "op", "ambient", "illum", "op", "end", "op">>,
      <<"def:", "op", "ret", "main:", "ifT", "op", "orelse", "op", "end", "op">>,
      <<"def:", "op", "main:", "ifF", "op", "orelse", "op", "end", "op", "ret">>,
      <<"main:", "ifF", "op", "end", "ifV", "op", "orelse", "op", "end", "op">>,
      <<"main:", "illum", "ifT", "op", "ifF", "op", "end", "end", "end", "op">>,
      <<"main:", "illum", "ifT", "op", "orelse", "op", "end", "op", "end", "illum", "op", "end">>,
      <<"main:", "illum", "ifV", "op", "orelse", "ret", "end", "end", "op">>,
      <<"main:", "ifT", "illum", "op", "end", "end", "op">>,
      <<"main:", "ifT", "ifV", "ifT", "op", "end", "end", "end">>,
      <<"main:", "solar", "op", "end", "op", "ambient">>,
      <<"main:", "op", "illum", "op">>,
      <<"main:", "ifT", "op", "orelse", "op">>,
      <<"main:", "illum", "op", "orelse", "op", "end">>,
      <<"ifT", "main:", "op", "end", "op">>,
      <<"main:", "op", "end">>, <<"op">>,
      <<"main:", "loop:", "ambient", "lt", "op", "ret">>,
      <<"main:", "illum", "loop:", "op", "lt", "end", "ambient">>,
      <<"loop:", "main:", "illum", "ifV", "lt", "end", "op", "end", "op">>,
      <<"main:", "op", "lt", "illum", "op", "loop:", "end", "ambient">>,
      <<"main:", "illum", "ifT", "lt", "end", "end", "loop:", "op">>,
      <<"main:", "op", "lt">> }
    \cup {<<"main:">> \o s :
             s \in [1..3 -> {"op", "ambient", "illum", "ifT", "ifF", "orelse", "end"}]}
MCAttribs == {"a0", "a1", "a2", "a3", "a4"}
MCActLights ==
    [a \in MCAttribs |-> CASE a = "a0" -> <<>>
                           [] a = "a1" -> <<"amb", "sun">>
                           [] a = "a2" -> <<"sun", "spot", "amb2">>
                           [] a = "a3" -> <<"amb", "broken">>
                           [] a = "a4" -> <<"amb", "fog", "sun">>]

----------------------------------------------------------------------------
Units == {"rib", "shaders", "prims", "hider", "vm", "connect", "prepro", "code"}

\* A unit that does not run starts in one of its initial states.
UInit ==
    /\ unit \in Units
    /\ RInit /\ HInit
    /\ SInit /\ (unit # "shaders" => sfiles = CHOOSE f \in FileSets : TRUE)
    /\ GInit /\ (unit # "prims" => gprim = CHOOSE p \in MeshPrims : TRUE)
    /\ VInit /\ (unit # "vm" => vsrc = <<"op">>)
    /\ CInit /\ (unit # "connect" => \A i \in Srvs : lstate[i] = "listening")
    /\ IF unit = "prepro" THEN PInit ELSE PInitOn({<<LF>>}, {})
    /\ IF unit = "code" THEN EInit ELSE EInitOn({<<"a", "=", "b", ";">>})

UNext ==
    \/ unit = "rib" /\ RNext /\ UNCHANGED <<unit, svars, gvars, hvars, vvars, cvars, pvars, evars>>
    \/ unit = "shaders" /\ SNext /\ UNCHANGED <<unit, rvars, gvars, hvars, vvars, cvars, pvars, evars>>
    \/ unit = "prims" /\ GNext /\ UNCHANGED <<unit, rvars, svars, hvars, vvars, cvars, pvars, evars>>
    \/ unit = "hider" /\ HNext /\ UNCHANGED <<unit, rvars, svars, gvars, vvars, cvars, pvars, evars>>
    \/ unit = "vm" /\ VNext /\ UNCHANGED <<unit, rvars, svars, gvars, hvars, cvars, pvars, evars>>
    \/ unit = "connect" /\ CNext /\ UNCHANGED <<unit, rvars, svars, gvars, hvars, vvars, pvars, evars>>
    \/ unit = "prepro" /\ PNext /\ UNCHANGED <<unit, rvars, svars, gvars, hvars, vvars, cvars, evars>>
    \/ unit = "code" /\ ENext /\ UNCHANGED <<unit, rvars, svars, gvars, hvars, vvars, cvars, pvars>>

\* The fairness of each unit's own specification, for the behaviours of that unit.
UFairSpec ==
    /\ UInit /\ [][UNext]_uvars
    /\ WF_svars(unit = "shaders" /\ SStep)
    /\ WF_hvars(unit = "hider" /\ hub = "no" /\ WorldEndStep)
    /\ WF_vvars(unit = "vm" /\ vub = "no" /\ VStep)
    /\ WF_pvars(unit = "prepro" /\ PStep)
    /\ WF_cvars(unit = "connect" /\ CStep) /\ WF_cvars(unit = "connect" /\ Expire)
    /\ \A i \in Srvs : WF_cvars(unit = "connect" /\ TaskEnds(i))
                        /\ WF_cvars(unit = "connect" /\ TakeJob(i))

\* The state of every unit keeps to its types.
UTypeOK == RTypeOK /\ STypeOK /\ GTypeOK /\ HTypeOK /\ VTypeOK /\ CTypeOK /\ PTypeOK /\ ETypeOK

\* The unit does something that must come to an end.
Working ==
    CASE unit = "shaders" -> Searching
      [] unit = "hider" -> InWorldEnd
      [] unit = "vm" -> InRun /\ ~JumpsBack
      [] unit = "connect" -> Connecting
      [] unit = "prepro" -> InProcessFile
      [] OTHER -> FALSE

(* No unit hangs: a search ends, WorldEnd ends although splitting adds to  *)
(* its list (or reads through a NULL), the run of a program that does not  *)
(* jump back ends, well-formed or not, with jumps forward into and out of  *)
(* blocks, ConnectToServers returns and a server that served comes back to *)
(* its port, and preprocessing ends if no file includes itself, except in  *)
(* the loop of CutsForEver.                                                *)
UnitsGoOn == (Working ~> ~Working) /\ ServersBack
=============================================================================
