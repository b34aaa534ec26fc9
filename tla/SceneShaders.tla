---------------------------- MODULE SceneShaders ----------------------------
(***************************************************************************)
(* How a scene finds its shaders and archives and what it does with them:  *)
(* Option "searchpath", SearchPathScanner, State::FindResFile, GetShader   *)
(* and the shaders it keeps by name, Surface, Displacement, LightSource    *)
(* and the light sources of the state, which primitives refer to by index. *)
(* Commands that fail are followed by others.                              *)
(*                                                                         *)
(* A file is <<directory, name, extension>>; the directory of a relative   *)
(* search path p is p itself, or "base/" and p.                            *)
(***************************************************************************)
EXTENDS Integers, Sequences, FiniteSets, FiniteSetsExt

Fx == INSTANCE SequencesExt

CONSTANTS
    PathLists,  \* search paths, split at ":": sequences of "&", "@" and paths
    FileSets,   \* the files that may exist: a set of sets
    BadFiles,   \* files that do not compile
    ShaderNames, \* names of shaders
    LightIds,   \* IDs of light sources
    MaxSPaths,  \* bound: length of a search path list
    MaxCommands \* bound: commands

ASSUME ShadersAssumption ==
    /\ \A toks \in PathLists : toks \in Seq(STRING)
    /\ MaxSPaths \in Nat /\ MaxCommands \in Nat

VARIABLES
    spaths,     \* mSearchPaths of the current options
    sfiles,     \* the files that exist
    scmd,       \* the command that looks for a file
    sscan,      \* its SearchPathScanner: [ext, idx, base]
    sres,       \* shaders kept by name: their file
    ssurf,      \* moSurfaceSHI: the shader's file
    slights,    \* mpLightSources: [id, uid]
    sact,       \* mActiveLights: indices
    sprims,     \* primitives inserted: [act, meant]
    scount,     \* commands so far, also the next light's uid
    slast       \* history: what the last search found, and where it looked

svars == <<spaths, sfiles, scmd, sscan, sres, ssurf, slights, sact, sprims, scount, slast>>

NoFile == <<"none", "none", "none">>
NoCmd == [kind |-> "none", name |-> "none", id |-> 0]
Idle == scmd = NoCmd
Extension == [surface |-> "sl", displace |-> "sl", light |-> "sl", archive |-> "rib"]
PathKind(kind) == IF kind = "archive" THEN "archive" ELSE "shader"

SInit ==
    /\ sfiles \in FileSets
    /\ spaths = [k \in {"shader", "archive"} |-> <<>>]
    /\ scmd = NoCmd /\ sscan = [ext |-> "none", idx |-> 1, base |-> TRUE]
    /\ sres = [n \in ShaderNames |-> NoFile] /\ ssurf = NoFile
    /\ slights = <<>> /\ sact = <<>> /\ sprims = {}
    /\ scount = 0 /\ slast = [list |-> <<>>, cmd |-> NoCmd, found |-> NoFile]

----------------------------------------------------------------------------
(* Search paths.                                                           *)

\* The tokens before the second use of one that may be used once only.
Accepted(toks) ==
    LET twice == {i \in DOMAIN toks : toks[i] \in {"&", "@"}
                                       /\ \E j \in 1..(i - 1) : toks[j] = toks[i]}
    IN  IF twice = {} THEN toks ELSE SubSeq(toks, 1, Min(twice) - 1)

(* processSearchPath: "&" stands for the old list.  The list is cleared    *)
(* first: an error leaves what came before it.                             *)
NewPaths(old, toks) ==
    LET acc == Accepted(toks)
        new[k \in 0..Len(acc)] == IF k = 0 THEN <<>>
                                  ELSE IF acc[k] = "&" THEN new[k - 1] \o old
                                  ELSE Append(new[k - 1], acc[k])
    IN  new[Len(acc)]

OptionSearchPath(k, toks) ==
    /\ Idle /\ scount < MaxCommands
    /\ Len(NewPaths(spaths[k], toks)) <= MaxSPaths
    /\ spaths' = [spaths EXCEPT ![k] = NewPaths(@, toks)]
    /\ scount' = scount + 1
    /\ UNCHANGED <<sfiles, scmd, sscan, sres, ssurf, slights, sact, sprims, slast>>

NoDir == [dir |-> "none", abs |-> TRUE, base |-> FALSE, idx |-> 0]

\* Only shaders have a default directory.
HasDefault == PathKind(scmd.kind) = "shader"
PathList == spaths[PathKind(scmd.kind)]

\* Mutant: an empty list gives the base directory only.
NextDirNoDefault ==
    IF sscan.base THEN [dir |-> "base", abs |-> TRUE, base |-> FALSE, idx |-> sscan.idx]
    ELSE LET rest == {i \in sscan.idx..Len(PathList) : PathList[i] # "@" \/ HasDefault} IN
         IF rest = {} THEN NoDir
         ELSE LET i == Min(rest) IN
              [dir |-> IF PathList[i] = "@" THEN "default" ELSE PathList[i],
               abs |-> PathList[i] = "@", base |-> FALSE, idx |-> i + 1]

(* SearchPathScanner::GetNext: the base directory first; then the default  *)
(* one if there are no search paths, or else these in turn, without "@"    *)
(* where there is no default.                                              *)
NextDir ==
    IF sscan.base THEN [dir |-> "base", abs |-> TRUE, base |-> FALSE, idx |-> sscan.idx]
    ELSE IF PathList = <<>>
    THEN IF sscan.idx = 1 /\ HasDefault
         THEN [dir |-> "default", abs |-> TRUE, base |-> FALSE, idx |-> 2]
         ELSE NoDir
    ELSE LET rest == {i \in sscan.idx..Len(PathList) : PathList[i] # "@" \/ HasDefault} IN
         IF rest = {} THEN NoDir
         ELSE LET i == Min(rest) IN
              [dir |-> IF PathList[i] = "@" THEN "default" ELSE PathList[i],
               abs |-> PathList[i] = "@", base |-> FALSE, idx |-> i + 1]

Beside(p) == "base/" \o p
File(dir) == <<dir, scmd.name, sscan.ext>>

\* FindResFile: a path that is not absolute is tried below the base directory too.
Hit(d) ==
    CASE File(d.dir) \in sfiles -> File(d.dir)
      [] File(d.dir) \notin sfiles /\ ~d.abs /\ File(Beside(d.dir)) \in sfiles -> File(Beside(d.dir))
      [] OTHER -> NoFile

----------------------------------------------------------------------------
(* What a command does with the file.                                      *)

\* Mutant: every light is added, in front of the others.
AddLightSourceFront(l) ==
    /\ slights' = <<l>> \o slights
    /\ sact' = IF sact = <<>> THEN <<1>> ELSE sact

\* AddLightSource; Dpush_back_unique of its index.
AddLightSource(l) ==
    LET same == {i \in DOMAIN slights : slights[i].id = l.id}
        at == IF same = {} THEN Len(slights) + 1 ELSE Min(same)
    IN
    /\ slights' = IF same = {} THEN Append(slights, l) ELSE [slights EXCEPT ![at] = l]
    /\ sact' = IF \E i \in DOMAIN sact : sact[i] = at THEN sact ELSE Append(sact, at)

(* cmdSurface keeps the surface it had if there is no shader, without a    *)
(* word; cmdDisplacement and cmdLightSource throw.                         *)
Apply(cmd, file) ==
    /\ IF cmd.kind = "surface" /\ file # NoFile THEN ssurf' = file ELSE UNCHANGED ssurf
    /\ IF cmd.kind = "light" /\ file # NoFile
       THEN AddLightSource([id |-> cmd.id, uid |-> scount])
       ELSE UNCHANGED <<slights, sact>>

Done(file) ==
    /\ scmd' = NoCmd
    /\ slast' = [list |-> PathList, cmd |-> scmd, found |-> file]

----------------------------------------------------------------------------
(* Commands.                                                               *)

\* Surface, Displacement, LightSource or ReadArchive.
Command(kind, name, id) ==
    LET cmd == [kind |-> kind, name |-> name, id |-> id] IN
    /\ Idle /\ scount < MaxCommands
    /\ kind # "light" => id = 0
    /\ scount' = scount + 1
    /\ IF kind # "archive" /\ sres[name] # NoFile
       THEN Apply(cmd, sres[name]) /\ UNCHANGED <<scmd, sscan>>
       ELSE /\ scmd' = cmd
            /\ sscan' = [ext |-> Extension[kind], idx |-> 1, base |-> TRUE]
            /\ UNCHANGED <<ssurf, slights, sact>>
    /\ UNCHANGED <<spaths, sfiles, sres, sprims, slast>>

\* A directory without the file.
ScanMiss ==
    /\ ~Idle /\ NextDir # NoDir /\ Hit(NextDir) = NoFile
    /\ sscan' = [sscan EXCEPT !.idx = NextDir.idx, !.base = NextDir.base]
    /\ UNCHANGED <<spaths, sfiles, scmd, sres, ssurf, slights, sact, sprims, scount, slast>>

\* The file is there: a shader is compiled and kept, unless that throws.
ScanHit ==
    /\ ~Idle /\ NextDir # NoDir /\ Hit(NextDir) # NoFile
    /\ LET f == Hit(NextDir)
           sha == IF f \in BadFiles THEN NoFile ELSE f IN
       /\ Done(f)
       /\ IF scmd.kind = "archive" THEN UNCHANGED <<sres, ssurf, slights, sact>>
          ELSE sres' = [sres EXCEPT ![scmd.name] = sha] /\ Apply(scmd, sha)
    /\ UNCHANGED <<spaths, sfiles, sscan, sprims, scount>>

\* No directory is left: .rrasm is tried after .sl, then the command fails.
ScanOver ==
    /\ ~Idle /\ NextDir = NoDir
    /\ IF sscan.ext = "sl"
       THEN /\ sscan' = [ext |-> "rrasm", idx |-> 1, base |-> TRUE]
            /\ UNCHANGED <<scmd, ssurf, slights, sact, slast>>
       ELSE Done(NoFile) /\ Apply(scmd, NoFile) /\ UNCHANGED sscan
    /\ UNCHANGED <<spaths, sfiles, sres, sprims, scount>>

\* A primitive copies the active lights; GetLight looks them up when it is shaded.
SInsert ==
    /\ Idle /\ scount < MaxCommands
    /\ sprims' = sprims \cup {[act |-> sact, meant |-> [i \in DOMAIN sact |-> slights[sact[i]]]]}
    /\ scount' = scount + 1
    /\ UNCHANGED <<spaths, sfiles, scmd, sscan, sres, ssurf, slights, sact, slast>>

SStep == ScanMiss \/ ScanHit \/ ScanOver

SNext ==
    \/ \E k \in DOMAIN spaths, toks \in PathLists : OptionSearchPath(k, toks)
    \/ \E kind \in DOMAIN Extension, n \in ShaderNames, id \in LightIds \cup {0} :
          Command(kind, n, id)
    \/ SStep
    \/ SInsert

SSpec == SInit /\ [][SNext]_svars

SFairSpec == SSpec /\ WF_svars(SStep)

----------------------------------------------------------------------------
(* Properties.                                                             *)

\* The state keeps to its types.
STypeOK ==
    /\ \A k \in DOMAIN spaths : Len(spaths[k]) <= MaxSPaths /\ "&" \notin Fx!Range(spaths[k])
    /\ Fx!Range(sact) \subseteq DOMAIN slights /\ scount \in 0..MaxCommands
    /\ \A n \in ShaderNames : sres[n] \in sfiles \cup {NoFile}

\* The directories that one path stands for, in the order of precedence.
DirsOf(p, default) ==
    IF p # "@" THEN <<p, Beside(p)>> ELSE IF default THEN <<"default">> ELSE <<>>

\* The base directory and those of the first k paths of a list.
DirsUpTo(list, default) ==
    LET upto[k \in 0..Len(list)] == IF k = 0 THEN <<"base">>
                                    ELSE upto[k - 1] \o DirsOf(list[k], default)
    IN  upto

Directories(list, default) ==
    IF list = <<>> THEN <<"base">> \o DirsOf("@", default)
    ELSE DirsUpTo(list, default)[Len(list)]

Candidates(cmd, list) ==
    LET all(ext, default) ==
            [i \in DOMAIN Directories(list, default) |->
                <<Directories(list, default)[i], cmd.name, ext>>]
    IN  IF cmd.kind = "archive" THEN all("rib", FALSE)
        ELSE all("sl", TRUE) \o all("rrasm", TRUE)

(* A search finds the first file that exists in the order of precedence:   *)
(* the base directory, then the search paths as given (each also below the *)
(* base directory) or the default directory, and a compiled shader only if *)
(* no source is anywhere; it finds nothing only if nothing is there.       *)
FindsFirst ==
    slast.cmd # NoCmd =>
        LET C == Candidates(slast.cmd, slast.list)
            there == {i \in DOMAIN C : C[i] \in sfiles}
        IN  slast.found = IF there = {} THEN NoFile ELSE C[Min(there)]

(* A primitive is shaded with the lights that were active when it was      *)
(* inserted, except where a later LightSource has used a light's ID again. *)
LightsMeant ==
    \A p \in sprims : \A i \in DOMAIN p.act :
        LET now == slights[p.act[i]] IN
        now = p.meant[i] \/ (now.id = p.meant[i].id /\ now.uid > p.meant[i].uid)

\* A search is under way.
Searching == ~Idle

----------------------------------------------------------------------------
(* The invariants that the proofs of FindsFirst and LightsMeant use.       *)

\* The directories that the scanner has passed.
Passed ==
    IF sscan.base THEN <<>>
    ELSE IF PathList # <<>> THEN DirsUpTo(PathList, HasDefault)[sscan.idx - 1]
    ELSE IF sscan.idx = 1 THEN <<"base">> ELSE Directories(PathList, HasDefault)

Misses(dirs, name, ext) == \A i \in DOMAIN dirs : <<dirs[i], name, ext>> \notin sfiles

(* A search that is under way has looked everywhere it has passed, and for *)
(* a compiled shader everywhere for the source.                            *)
ScanInv ==
    /\ spaths \in [{"shader", "archive"} -> Seq(STRING)]
    /\ ~Idle =>
          /\ scmd.kind \in DOMAIN Extension
          /\ sscan \in [ext : IF HasDefault THEN {"sl", "rrasm"} ELSE {"rib"},
                        idx : 1..(Len(PathList) + 2), base : BOOLEAN]
          /\ PathList # <<>> => sscan.idx <= Len(PathList) + 1
          /\ sscan.base => sscan.idx = 1
          /\ Misses(Passed, scmd.name, sscan.ext)
          /\ sscan.ext = "rrasm" => Misses(Directories(PathList, TRUE), scmd.name, "sl")
    /\ FindsFirst

Light == [id : LightIds \cup {0}, uid : Nat]

(* What a primitive refers to stays in the list of lights, and the lights  *)
(* that come are no older than those that are there.                       *)
LightInv ==
    /\ slights \in Seq(Light) /\ sact \in Seq(Nat) /\ scount \in Nat
    /\ Idle \/ scmd.id \in LightIds \cup {0}
    /\ \A i \in DOMAIN sact : sact[i] \in DOMAIN slights
    /\ \A i \in DOMAIN slights : slights[i].uid <= scount
    /\ \A p \in sprims : \A i \in DOMAIN p.act :
          p.act[i] \in DOMAIN slights /\ p.meant[i] \in Light
    /\ LightsMeant
=============================================================================
