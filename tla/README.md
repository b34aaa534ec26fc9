# RibTools in TLA+

A verification project for RibTools, a RenderMan-style renderer: TLA+ models of
its parts, TLC runs that check them on small instances, and TLAPS proofs of what
holds for every instance. Definitions are translated from the sources under
`src/`; `PROJECT.json` maps each one to the lines it stands for.

The build that is modelled is the Windows one: "RibTools currently only compiles
for Windows" (`docs/src/Dev_Manual.txt:26`), and only there does `ThreadedBase`
start its thread (`DSystem/src/DThreads.cpp:61`).

## 1. Inventory

| Component | State it keeps | Operations | Talks to |
|---|---|---|---|
| **Network render client** (`RRL_Net_RenderBucketsClient.cpp`) | server list, `mBusyCnt` of each server, the output image | `Render`: dispatch loop, local rendering, `checkServersData`, `sendRendDoneToNotBusy`, final wait | servers through `PacketManager`; the hider's image; bucket tasks |
| **File server** (`RRL_Net_FileServer.cpp`, a thread per link in the client) | the request it holds | take a request from the receive queue, answer it | the same receive queue as the client's main thread |
| **Render server** (`RibRenderServer.cpp`, `RRL_Net_RenderBucketsServer.cpp`, `RRL_Net_FileManager.cpp`) | its parse of the RIB file, the range in work, the open file request | wait for the job, parse, `Render`, `GrabFile`, `FileExists` | the client |
| **Packet transport** (`DNetwork_PacketManager.cpp`) | send and receive queues, packet in progress in each direction, `mFatalError` | `Send`, `GetNextPacket...`, `RemovePacket`, `threadMain` | sockets, and every thread that sends or reads |
| **Connection set-up** (`RRL_Net_Connection...`, `DNetwork_Connecter.cpp`, `DNetwork_Listener.cpp`, `serverMain`) | sockets being connected, who owns them, deadline, the listener | `InitServers`, `ConnectToServers`, `Accept`, the restart of a listener | `PacketManager` |
| **Bucket tasks** (`DThreads.h`, `ParallelTasks`) | futures, oldest first | `AddTask`, destructor | hider, caller of `Render` |
| **RI state** (`RI_State*.cpp`, options, attributes, transforms) | mode stack, option/attribute/transform stacks, revisions | `Begin`..`End`, `FrameBegin`.., `AttributeBegin`.., declarations, primitives | framework |
| **RIB parser, translator** (`RI_Parser.cpp`, `RRL_Translator*.cpp`, `RibRenderLib.cpp`) | tokenizer state, command being built | `AddChar`, `FlushNewCommand`, `AddCommand`, `readArchive` | RI state |
| **Primitives** (`RI_Primitive.cpp`, polygons, meshes) | vertices, split count, reference count | `Simplify`, `Split` | hider |
| **Framework, hider** (`RI_Framework.cpp`, `RI_HiderST.cpp`, ...) | primitives of the world, unique attributes and transforms, buckets, image, sample-coordinate cache | `WorldBegin`, `AddPrim`, `WorldEnd`, `RenderBucket_s` | displays, network client |
| **Resources** (`RI_Resource.cpp`, textures, shaders) | resource list with reference counts | `AddResource`, `FindResource`, `Collect`, `GetTexture` | bucket tasks |
| **Shader machine** (`RI_SVM_*.cpp`, `RI_RRASM_Parser.cpp`) | program counter, conditional and function stacks, lane masks | instructions; assembler | symbols, attributes |
| **RSL compiler** (`RSLCompilerLib`) | token tree, variables, functions, registers | preprocess, tokenize, rewrite, assign registers, write RRASM | files |
| **Base libraries** (`DSystem`, `DMath`, `DImage`) | vectors, memory files, images | container and conversion operations | everybody |

What is hard here: three kinds of threads per connection (main loop, file
server, packet thread) share one receive queue; two processes count the same
buckets on both sides of a FIFO link; links fail for good and silently; tasks
throw; the same connection serves several frames without saying which; packets
are cut into arbitrary pieces; bucket tasks share textures whose counts are plain
integers; one State, one hider and one shader context live through many worlds and
grids, some of which end in an exception. Section 6 lists where each of these bites
(`hazards` in `PROJECT.json` has the lines).

What makes the parts correct:

* client: no bucket is lost or counted twice, the image is complete when
  `Render` returns, a server is never given work while it has some, it is told
  exactly once per frame that the frame is over, `Render` returns;
* file service: every request is answered, an answer is never taken for another
  request's, the two readers of a receive queue do not disturb each other;
* transport: packets arrive whole, in order and once; nobody starves;
* bucket tasks: all joined before the scope ends, exceptions not lost;
* RI state: the stacks agree with the modes; nothing of an inner block leaks out;
* framework: every visible primitive is in every bucket it touches, everything
  allocated for a world is released once;
* resources: never freed while in use, looked up consistently by tasks; a search
  gives the first file in the order of the path, and a primitive is lit by the
  lights that were on when it was read;
* RIB parser: the commands are those that were written, whatever the layout;
* primitives: every polygon and mesh is covered by its patches, without gaps;
* connections: every socket has one owner, nobody waits for a server that cannot
  come, a server comes back for the next client;
* shader machine: the stack of open blocks follows the program, lights are bound
  to the grid at hand, nothing cached survives what it was computed from;
* RSL compiler: the lines that conditions, includes and comments leave are those
  the text means, and the instructions compute what the statements say.

## 2. Plan

1. **Network render** (`RenderBuckets`, `RenderBuckets_proofs`): done.
2. **Transport** (`PacketManager` implementing `PacketLink`, `Network_proofs`): done.
3. **Bucket tasks** (`ParallelTasks`, proofs in `Textures_proofs`): done.
4. **RI state** (`RiState`, `Interface_proofs`): modes and stacks, revisions,
   sharing of states by primitives, displays: done.
5. **Textures** shared by bucket tasks (`Textures`, `Textures_proofs`): done.
6. **Connection set-up** (`Connect`, `Network_proofs`): done.
7. **Framework and hider** (`Hider`, `Hider_proofs`): done.
8. **Shaders and lights of a scene** (`SceneShaders`) and **shader machine and
   assembler** (`ShaderVM`), both with `Shaders_proofs`; **primitives** (`Primitives`,
   `Primitives_proofs`): done. **RIB tokenizer and parser** (`RibParser`,
   `Interface_proofs`): done.
9. **RSL compiler**: preprocessor (`RslPrepro`), assignments from tokens to
   instructions (`RslExpr`): done for TLC. Left: functions and their inlining,
   conditions and loops, uniform against varying.
10. Memory files and containers.

`RenderBuckets` composes client, file server, render server and the transport's
contract; its links behave as `PacketLink` says, and `PacketManager` is shown to
implement `PacketLink`. `ParallelTasks` shows which exceptions of a batch reach the
caller (`Unasked`), what `RenderBuckets` uses as `NeverGot`; `Textures` puts texture
instructions into those tasks and implements it. `Connect` ends where
`RenderBuckets` begins.

## 3. Modules

### RenderBuckets

One client, `NServers` render servers, `NFrames` worlds of the RIB file.

| Variables | Code |
|---|---|
| `cpc`, `x1`, `scanI`, `peek`, `allDone`, `reply` | where the client's main thread is in `Render`, `buckRangeX1`, the index, the peeked packet and `allDone` of `checkServersData`, `replyDoneIfNotbusy` |
| `cFrame`, `out` | the world being rendered; for each bucket of the hider's list what its pixels show: a frame, `Several`, or 0 for none |
| `cN`, `sN` | the lengths of the bucket lists (`mpBuckets`) of the client's and of each server's hider |
| `busy`, `cFatal` | `mBusyCnt`; the client's `!IsConnected()` of each server |
| `fsv` | the request the file server thread of the link holds |
| `spc`, `sRet`, `sFrame`, `sFiles`, `sNext`, `sX2`, `sFatal` | the server process: where it is, where a file request returns to, its own world, file requests of this world, next bucket and end of the range, its `!IsConnected()` |
| `toSrv`, `ans`, `wire`, `recvQ` | control messages and file answers on their way to the server; messages on their way to the client and in its receive queue |
| `batch`, `overrun`, `holes` | history only: last range given to each server, a `Render` that ended early, buckets whose task failed without anybody noticing |

One action per step of the code between two points where another thread can
interfere. `checkServersData` is one action per server and, where it peeks at a
packet and removes it later, two: the file server may take the packet in
between. What it then reads is freed memory, so the outcome is a choice
(`ClientPassOver`, `ClientReadReused`, `ClientReadBroken`). `FileServerTake` and
`FileServerAnswer` are the file server's thread; the `Server...` actions are the
server process; `Deliver`, `...LinkFails` and `...TailLost` are the transport.
`ClientLocalDone` and `ClientLocalThrow` run a batch through `ParallelTasks`:
`NeverGot` are the tasks whose exceptions are dropped.

Faults are a constant: `clientLink`, `serverLink` (a socket call fails at that
end), `clientThrow`, `serverThrow` (a bucket task throws), `noFile`, `longName`
(a request that is refused, or dropped without answer), `exit` (an end is
destroyed with packets unsent).

A `Render` that throws takes `Framework::WorldEnd` past `Hider::WorldEnd`, the only
place where the list of buckets is emptied, and the next `WorldBegin` appends to it
(`RI_Framework.cpp:348`, `RI_HiderST.cpp:142,193`). So `ClientNextWorld` and the
server's `EndFrame` go on with `NextList`: the buckets of the world that was abandoned
stay in front, and hold primitives of both (`Shows`). Client and servers name a bucket by
its index in their own list. After an exception on one side the lists differ, and a
server may read a range that its own does not have: `ServerRangeOutside`, where the
assertion of `rendBucketsRange` fails and `buckets_stale` stops.

Abstracted: pixels, file names and contents, printing, and the time of polls.

### PacketLink, PacketManager

`PacketLink` is a FIFO of whole packets from which a reader may take any.
`PacketManager` is both ends of a connection down to bytes: `Send` frames a
payload, `FlushInQueue`, `SendSome`, `SendDone`, `RecvHead`, `HeadWaits`,
`HeadKnown` and `RecvBody` are the steps of `threadMain`, `SocketError` its error
paths, `KillThread` and `LoopQuit` the end. The socket is external: bounded, in
order, moving any number of bytes at a time. `Base` and `HeadSize` replace 256
and 4, so that sizes still have a low and a high byte. With `SplitHeads` a
header, too, may arrive in parts.

### ParallelTasks

One scope that adds `N` tasks and ends. The caller is where it is in the loop of
`AddTask` or in the destructor; `futures` is `mFutures`; each task is not started,
running, returned or failed. `std::async` and its futures are external: a task
runs on its own, `get()` waits and rethrows, the destructor of a future waits
without rethrowing.

### RiState

`State` and what `Framework` and `readArchive` keep or do for it, one command of
a RIB file per action.

| Variables | Code |
|---|---|
| `modes`, `stack` | `mModeStack`; the `CopyStack`s of options, attributes and transforms (open and close transforms move together) |
| `rev`, `seen` | the `RevisionTracker`s of attributes and transforms; the framework's `RevisionChecker`s |
| `uniq`, `prims`, `kept` | `mpUniqueAttribs` and `mpUniqueTransform`; primitives in the hider, and in the buckets after a `WorldEnd` that threw |
| `live`, `fwDisp` | `Options::Display` objects that are allocated; those in the framework's copy of the options |
| `ub` | undefined behaviour has been reached, and which |
| `saved`, `ill`, `restored`, `owner`, `crossed` | history only |

Options are a set of displays, attributes and a transform one value each. A
command with an error leaves what it changed before the error: `BlockEnd` pops
the stacks before it looks at the mode, `AttributeThrows` changes the shader and
not the revision, `WorldEndThrows` frees the framework's displays and leaves the
world open. Commands that are refused without effect (`verifyOpType`) are
guards. Reading an empty stack or a deleted display ends the behaviour
(`EmptyStack`, `DeletedDisplay`, `StaleFramework`). Exceptions while primitives
are split (before the `try` of `WorldEnd`) are in `Hider`.

### Textures

`ParallelTasks` with what a task does: any number of `texture()` instructions up to
`MaxLookups`, each of which looks a name up in the `ResourceManager` of the State
(`FindResource`, under its mutex), makes and adds the texture when it is not there
(`NewTexture`, `LoadThrows`, `AddResource`: the mutex is not held in between, so several
tasks may load the same file), takes a reference, samples and gives it back. A file of
which no texture can be made throws (`Broken`, `LoadThrows`), and `runFrom` catches it. A
file that is not found gives no texture but NULL (`Missing`, `NotFound`): the instruction
asserts that it is not NULL, and then passes over it if no point of the grid is active
(`SkipsNull`) or dereferences it, which ends the program (`SamplesNull`; `phase` is then
"crashed" and nothing goes on). `objs` are the textures made, with `mCount` and whether
they are allocated, `mpList` the manager's list, `op` where the instruction of each task
is. A count is a plain `int` in the code, so an update is a load and a store. `Collect` is
the end of the State. `raced` is history: an update was lost.

### Connect

`ConnectToServers` on the client, with a `Connecter` per server, its polls and the
time-out, the sending of the jobs; on each server `serverMain`, its `Listener` and the
task of a client. Variables: the client's place and index, per server the connecter,
who owns the socket, how often `mpPakMan` was set, and the listener's state. The
network completes, refuses or breaks a connection by itself; a refused one may
look writable or not look like anything, as systems differ (external). One client
with `NServers` servers; `Unresolvable` names have no address.

### Hider

`WorldBegin` (buckets, sample buffers kept from an earlier world), `Insert`, `WorldEnd`
step by step: simplify complex primitives, split or dice or cull or drop each simple one,
hand it to the buckets its bound touches, render, release. A primitive is its square of
the (u,v) plane, its number of splits and its reference count; what `CheckForSplit` finds
and the bound are inputs. A step may throw, which leaves the lists and counts of the world
to the next one. Rendering takes a bucket with no sample buffer as undefined behaviour
(`hub`). The buffers are found or added tile by tile (`AddSlot`, `SlotsAfter`), as
`WorldBegin` goes over them; `firsts` is history: the sizes of buckets so far, each with
the sampling of the first world that had it. Which free addresses an allocation returns is
a choice made once for all (`NewAddrs`): addresses are only names, and no step depends on
which one it gets.

### Primitives

`Simplify` of `Polygon`, `PointsPolygons`, `PointsGeneralPolygons` and `PatchMesh`, a
patch at a time: the loops over polygons and loops with their running indices, the
fan of a polygon and its last triangle, the hulls of mesh patches. A point is the
set of vertices it is the mean of, so that a fan's centre and edge points are told
apart without coordinates.

### SceneShaders

`Option "searchpath"`, the `SearchPathScanner` directory by directory,
`FindResFile`, `GetShader` and its cache by name, `Surface`, `Displacement`,
`LightSource`, `ReadArchive`. A file is directory, name and extension. A command that
fails is followed by others.

### RibParser

`Tokenizer`, `Parser` and the loop of `readArchive`, one character per action. The
writer of the file is external: it puts down lexemes and blanks and remembers what
it means. Numbers are digits and a point (a float in tenths), without signs and
exponents.

### ShaderVM

`RRASM::Parser` line by line (labels and references to them, links from a block to its
`orelse` and end), then `ShaderInst::runFrom` over several grids: the stack of open blocks
(`SRC_FuncopStack`), `iftrue` on uniform and varying values, `illuminance` and `solar`
over the active lights, the contexts of lights and the cached ambient colour, and `cmplt`,
which jumps to its label, back or forward, or goes on (`CompareLess`). What an instruction
computes is left out, and with it which of the two `cmplt` does; how often instructions
run is counted in programs without jumps only. A run may end in an exception and the next
grid uses what is left.

### RslPrepro

`processFile` over a text of lines and newlines, a line per action: `HandleIfDef`,
`HandleElse`, `HandleEndIf`, `HandleInclude` (the file takes the place of the line and is
processed in turn), `HandleDefine`, `applySymbols`, and the cutting of what is inactive,
which moves the text under the index. A line is a directive with a name, or text that uses
one. A line is matched up to where it ends, so a bare `#if` is an `#ifdef` without its
name (`Directive`). `ClearChunk`, which comes before, works on characters and is a
function of them: joined lines, comments, white space, one action each. The map of symbols
compares addresses, so what a look-up finds once something is defined is a choice
(`Find`), and `TextAsMeant` takes the answers as given.

### RslExpr

The passes of `RSLCompiler::RSLCompiler` over the assignments of a code block, a pass
per action, each a function on the tree: `MakeTree`, `RemoveSemicolons`,
`ReparentOperators` (in place, a priority after the other), `RemoveOpeningExprBrackets`,
`ExpandAssingOperators`, `OptimizeConstantExpressions`, `SolveExpressions` (types),
`AssignRegisters`, `WriteFunctions`. A value is a term, and a number is its token;
how numbers are printed (folded ones with six decimals) is left out. The
instructions are executed on terms (`Exec`, external: the shader VM) and compared with
the statements, which are parsed and evaluated on their own (`Parsed`, `Eval`).
Passes that find nothing to do in such a block (declarations, functions, whole arrays)
are left out.

### The MC modules

`MCRenderBuckets`, `MCPacketManager`, `MCRiState`, `MCHider`, `MCRibParser`,
`MCRslPrepro` and `MCRslExpr` have the values of the constants for TLC; `MCRiState`
also puts three scenes into one run, one rich in blocks, one in primitives and one in
displays. Three more put parts side by side that do not interact: `MCFailures` (`Render`
whose links fail, `Render` that throws, the scenes of `RiState`), `MCThreads` (what runs
in threads, under their fairness) and `MCUnits` (eight units that work on their own). A
behaviour is one of one part, chosen at the start, and the others keep an initial
state. A property of a part is checked over exactly the behaviours of that part's own
specification, within the bounds of the part.

Modules that are put together name their specifications apart: `RiSpec`, `TasksSpec`,
`LinkSpec`, `TexSpec`, `HSpec` and so on; `Spec` is that of `RenderBuckets`.

## 4. Runs

| Run | Instance | Shows |
|---|---|---|
| `failures` | `Render`: 1 server, 5 buckets in batches of 2, 2 frames, 2 threads, links that fail in one part and a client that throws in another; `RiState`: three scenes | the book-keeping invariants of `RenderBuckets` and `FrameAgreement`; `WellStacked`, `Restores`, `PrimsShare`, `OwnedDisplays` |
| `threads` | two servers without failures; one server with file requests and failing links; packets of 2 sizes, 2 + 1 of them, over a connection of 2 bytes, and with failures; 3 texture tasks on 2 threads, a texture that is there, one that is broken and one missing | `ImageComplete`, `RendDoneBalance`; `ClientEnds` and `RequestsAnswered`; `StreamInStep`, the refinement `Reliable`, `SentArrives`; `Outcome`, `TasksEnd`, `UsesLive`, `FewCopies`, `CountsExact`, `StableLookup`, the refinement `ImplementsTasks` |
| `units` | the eight units of `MCUnits` | see below |
| `buckets_wait` | 1 server, 1 frame | **violation**: `Render` may return before a server completes |
| `buckets_stale` | 1 server, 2 frames, the client's first `Render` throws | **violation**: a server is sent a range that its list does not have |
| `packets_split` | one-byte messages, headers in parts | **violation**: the header is assembled wrongly |
| `tex_refs` | 2 tasks, 1 texture | **violation**: `SubRef` meets a count of 0 |
| `tex_missing` | a texture whose file is not found | **violation**: the instruction gets NULL |
| `ri_states` | attribute and world blocks, no faults | **violation**: a primitive after `AttributeEnd` has the block's attributes |
| `hider_slots` | worlds of two resolutions | **violation**: a bucket gets no sample buffer |
| `rsl_order` | assignments with `&&` and `\|\|` | **violation**: the code has them on one level |
| `rib_eof` | files of a few lexemes | **violation**: the token that the end of the file completes is a number |

What `units` says of each unit:

| Unit | Properties | What they leave open |
|---|---|---|
| RIB parser | `CommandsAsWritten`: the commands taken are those written, and the line given with a command is one of its own; where the end of the file completes a token, what is given then (`Given`): a number is not a parameter but the last command again, and a single name is lost | nothing |
| scene | `FindsFirst`: a search gives the first match in the order of the path; `LightsMeant`: a primitive's lights are those that were on | a light ID that is used again |
| primitives | `PatchesCover`: which patch takes which vertices (`PolygonsCovered`, `OwnLoops`, `BilinearSeamless`, `BicubicComplete`) | polygons after one with holes (`OwnLoops`) |
| hider | `RefsExact`; `SplitsPartition` (`PartsPartition`, `DropsAreSmall`); `BucketsServe` (`BucketsTile`, `SamplesFit`, `NearestGrid`): whatever worlds there were, a bucket's samples are of its size and of the first world with that size, and are missing only when four other sizes have the buffers | nothing |
| shader machine | `RunsAsWritten` (against the nesting of the source, with `FopMatches`); `LightsCurrent` (`AmbientCurrent`, `LightsBound`) | how often instructions run in a program with jumps; attributes with a light that does not bind (`HasBad`) |
| connections | `SocketsOwned`, `WaitsInVain` | a client that gave up before it looked |
| RSL preprocessor | `TextAsMeant`: the lines left are those the text means (`LinesAsMeant`), and only comments, line ends after a backslash and blanks are taken out before (`ChunkAsMeant`) | an `#else` inside a block that is off; a file without a last newline in the middle; a comment that is empty or touches another |
| RSL expressions | `CodeAsWritten`: the instructions leave in every variable what the statements say with the priorities of `ReparentOperators`, and what is refused is wrong in its types; for an array item that is assigned to and an `==` of constant numbers, what the compiler makes of them (`Eval`, `Early`) | a minus without left operand (only that it never compiles) |
| all | `UTypeOK`; `UnitsGoOn`: a search, `WorldEnd`, a shader's run, `ConnectToServers` and preprocessing end, a server comes back to its port (`Working`, `ServersBack`) | a program that jumps back (`JumpsBack`: how often is up to its data); a text that ends inside a block that is off (`CutsForEver`), which is cut for ever; a file that includes itself, which is outside the bounds (it would be included for ever) |

What is left open is where the code does otherwise and no assertion, table or test of
the repository says that it should not; where one does, a run shows the violation (all but one,
see the findings). `hazards` has the lines.

Bounds. In `failures`, five buckets in batches of two give two full batches and a short
one, so a server can be given a second range, can be busy while the client renders the
rest, and the last batch is clipped; two frames are the least in which something can be
late; one file request per frame is enough for it to stand before, between and after
bucket data; with two threads the first task of a batch has its exception seen and the
second has not. A client that throws and links that fail are in parts of their own, which
keeps the run short; only the proofs have both. In `threads`, two servers is the least in
which one is found free while another is busy, and three buckets in batches of two are one
batch for each. For bytes: two packets one way make a packet boundary inside a buffer, one
packet the other way makes both ends send and receive at once, and a connection of two
bytes is smaller than a packet; with failures only one end sends. Three tasks on two
threads: the pool fills, drains by waiting, and its last tasks are never waited for by
`AddTask`; two of them load the same texture while a third finds it or meets one that is
broken or missing. For `RiState`, `MaxModes` 4 is the first `MD_UNDEFINED`, the `Begin` of
`Render::Render` and two blocks, one inside the other; two values tell a stale copy from a
current one; two changes of attributes or of transforms (`MaxRev`; in all, or in the scene
with primitives two of attributes and one of transforms) happen before, in or after a
block; two displays make one that replaces another and the reuse of an address. For the
units: four lexemes are a command with parameters and the start of the next one, in every
order of types, with two blanks of which one is a comment holding a quote; three commands
set a path, fail and go on; polygons of 0 to 7 vertices take every branch of the fan;
meshes up to 4 by 4 and 7 by 6 wrap or not in each direction, with bad steps too; two
worlds with two settings leave buffers of another size behind, a split depth of 2 (9 in
the code) and a square of 8 units reach the drop of parts, two primitives meet in a
bucket; the shader programs are 22 written for a case each, six of them with jumps back or
forward, into and out of blocks, and all of three lines, a stack of 2 (16 in the code)
overflows, and three grids put a failure between two that work; two servers make one
refuse while the other is waited for. Texts of four lines, or three inside an `#ifdef`
with an `#else`, put every directive before, in and after every other, with files that
include others, are guarded or do not end their last line; four pieces of text open, close
and touch comments in every way. Three operators without brackets, two with, give every
order of two levels and a third to the left or right of both; chains of three assignments
and three statements in turn use what the ones before have left. The "blocks" scene of
`failures` stops at the first `End` that does not match. That drops nothing: both of its
properties are empty from then on, and the other scenes and the proofs go on beyond it.

Deadlock checking is off in the three passing runs: the programs of `RenderBuckets` and
`Textures` really end, both ends of a connection may be destroyed, a file of `RiState`
and `units` may end anywhere, and undefined behaviour ends the model. That nobody waits
for ever is what the liveness properties say.

Fairness. `TFairSpec` of `MCThreads` gives each part the fairness of its own module.
`FairSpec` of `RenderBuckets` makes every thread that can go on go on (they poll with
time-outs and sleeps, none waits for a lock while another holds it for ever) and the
network deliver; faults are never forced. `LinkFairSpec` of `PacketManager` adds that a
connection that is asked again and again for bytes it holds gives some (strong fairness of
the two receiving actions): TCP does. `TexFairSpec` makes the caller go on when it can,
every texture instruction go on, every running task return or throw and the State end
(nothing goes on once the program has crashed): a bucket task waits only for the mutex of
the list, which is held for one action. `UFairSpec` has the fairness of each unit:
sequential code that can go on does (a search, `WorldEnd`, a shader run,
`ConnectToServers`, the preprocessor), the client's clock runs (`Expire`), and a server
takes its job from a connection and its tasks end. Nothing is assumed of the network, of
files or of what a user writes.

### Findings

* `buckets_wait`: `checkServersData` leaves `allDone` true when the head of a busy
  server's queue is not bucket data, although its caller is to "wait for all servers to
  complete !!". It takes a file request still in the queue at the moment of the last scan.
* `buckets_stale`: a `Render` that throws leaves its buckets in the list of the hider, the
  next world's are numbered behind them, and the client sends a server ranges that the
  server's list does not have, which `rendBucketsRange` asserts it has.
* `packets_split`: each part of a header is received into the first bytes of
  `curRecvPackDataSize`.
* `ri_states`: `Framework::Insert` copies a state only when its revision counter has
  changed; the counters belong to the stacks as a whole and the `End` of a block, which
  changes the current value, does not bump them.
* `tex_refs`: the reference count of a texture is a plain `int` (`RI_Base.h:204`), and
  bucket tasks that take the same texture lose an update.
* `tex_missing`: `Attributes::GetTexture` gives NULL for a file that is not found;
  `Inst_Texture` asserts that it does not and then dereferences it.
* `hider_slots`: four sizes of sample buffers are enough for the worlds of one format;
  with a second format `findOrAddSampCoordBuff` reaches its `DASSERT( 0 )` and gives NULL.
* `rsl_order`: the table of operators in `RSLC_Operators.cpp:159` lists `&&` above `||`,
  and the levels below it put both on one.
* `rib_eof`: `Parser::AddChar` takes the token that the end of the file completes for a
  name, which `GetDataAphaNum` asserts, whatever it is.

One more is a hazard without a run: the symbols of `#define` are in a map from
`const char *` (`RSLC_Prepro_Base.h:23`), which compares addresses, so that whether a symbol
is found does not depend on its name, although `test10_1.sl` says what its symbols "should
become". The model has it as a choice (`Find`).

## 5. Proofs

`RenderBuckets_proofs` proves, for every number of servers, buckets, frames,
threads and file requests, every batch size and every set of faults
(`ConstAssumption` only asks for the numbers to be positive), that `Spec` implies
`[]TypeOK`, `[]QueueUnmixed`, `[]BusyAccounts`, `[]OneRangeAtATime`,
`[]OneRequestAtATime`, `[]PeekedDataStays`, `[]ImageAccounted` and
`[]ImageComplete`.

None of these is inductive alone. Why a peeked packet stays needs that requests
and data are never in the queue together (`QueueUnmixed`); that needs the server
not to ask for files while its data is under way, which holds because it gets
neither RENDDONE nor a new range before its last bucket is stored
(`OneRangeAtATime`); that needs `mBusyCnt` to agree with what is under way, packet
by packet (`BusyAccounts`), which in turn needs that nobody else removes data.
What worlds that were abandoned leave in the lists needs `ListsFit`: a server whose own
`Render` threw works on no further range, since the client waits for that one for good
or the link is dead, and any other has the buckets of one world, which every list
begins with. So a bucket that comes back is in the client's list, and `ImageAccounted`
(`NoBucketLost`) speaks of all of that list, the buckets of abandoned worlds included.
`IInv` is the conjunction, plus `AllHandedOut` (where `x1` stands in each phase
of `Render`), and the proof follows it: `SInv(s)` collects what is said of one
server, each action has a lemma that it keeps `SInv` of the server it touches
(`OthersKept`, `SInvStable` for the rest), lemmas about `Flight` say what an
action does to the messages under way, and three lemmas deal with the client
(`PeekStep`, `HandedOutStep`, `ImageStep`). `IInvStep` combines them; `Invariance`
is `Spec => []IInv`.

`FrameAgreement` and `RendDoneBalance` need a second invariant beside it, `FrameInv`,
because no message says which frame it is of. `FrameDue(s)` is the frame that a server
will be in once it has read the RENDDONEs on their way to it. `FrameInv` says for each
server that its range and its data are of the client's frame (`RangeOfFrame`,
`DataOfFrame`), that its due frame is the client's, or the next once it was told that
this one is over (`FrameBalance`), and why a range can be left short: a server threw out
of a `Render`, a link failed or an end is gone (`Short`, `WhyShort`, `Abandoned`).
`RendDonesBalanced` is for fault sets without `serverThrow`: a server that throws out of
its `Render` goes on to its next world without a RENDDONE. `FramesAgree` holds whatever
servers and links do, as long as no `Render` of the client threw or returned early: after
that an index no longer means the same bucket on both sides (`buckets_stale`).

The first part of `Network_proofs` is about `PacketManager`. It proves, for every base
and header size, every set of payloads that a header can give the size of and every
capacity of the connection, `[]StreamInStep`, `[]BodyHasRoom` and `Reliable`: each
direction implements `PacketLink`, step by step. All three have the hypothesis
`~SplitHeads`, that `recv` gives the bytes of a header in one piece. It is needed:
`packets_split` shows the assertion violated without it, and that is a finding, not a
case left out. `LinkInv` says that the queues of an end hold whole frames and only the
first is partly sent (`SendsFrames`), and that an end either waits for a header or has
read the size of the oldest payload sent to it and misses some of it (`AwaitsHead`,
`AwaitsBody`). With the bytes in step, a header that is read is the beginning of the
oldest payload's frame, and so its size (`SizeOf` undoes `Digits`, by induction over the
digits) is that payload's.

The first part of `Textures_proofs` is about `ParallelTasks` alone and uses only its
assumption on the numbers of tasks and threads: no task outlives the scope, no more
tasks run than there are threads, and a scope ends with the outcome it should (`Joined`,
`Bounded`, `Outcome`). The invariant says where the future of
each task is: the tasks already got are a prefix and have returned, those in
`mFutures` follow in order, the rest is not started.

The first part of `Interface_proofs` is about `RiState`. It proves `[]RiTypeOK`,
`[]WellStacked`, `Restores`, `[]PrimsShare` and `[]OwnedDisplays` for every nesting depth
and every set of values, displays, block kinds and faults (`RiAssumption` gives the
constants their types).

* `WellStacked` relates each stack to the depths at which the open blocks began;
  `StackInv` adds that these depths grow with the nesting and that, under the top
  of a stack, each block's saved value still stands. A step opens a block
  (`Opens`), closes the innermost one (`Closes`) or changes at most the tops
  (`SameKeeps`); `Restores` follows in the `Closes` case.
* `PrimsShare` rests on `CopyCurrent`: while the revision is the one last seen and
  nothing was restored or half changed, the last copy is the current value.
* `OwnedDisplays` rests on `MadeBelow`: options list only displays made at their
  own depth or further out, so deleting a display at the depth where it was made
  cannot touch a list below, even when its address is used again.

The rest of `Interface_proofs`, about `RibParser`, proves `[]CommandsAsWritten` and
`[]RTypeOK` for every set of lexemes and blanks that `RibAssumption` allows and for files
of any length: names, numbers, strings and arrays of any size, with any white space and
comments between them and between the words of an array.

* `RibInv` has three cases: nothing is written (`Fresh`), `pos` characters of a lexeme and
  its blank have been read (`Place` and `Told`), or the end of the file has been
  (`Over`). `CommandsAsWritten` alone says nothing of a lexeme half read, or of the two
  commands that the `Parser` holds.
* `Place` says what the `Tokenizer` holds at that character (`TokAt`): the part of a plain
  token or a string that has been read; in an array (`InArray`) whether it is in a word or in a
  gap, the elements so far (`PushedSo`: as integers until the first float, all as
  floats from then on), and whether a comment is open. `ReadStep` is the step by one
  character. It compares the decisions taken at each character with the text as a whole;
  what `atoi` and `atof` give is taken as it is, save that they agree on
  a word that is no float (`WholeNumber`, for `changeToFloatArray`).
* `Told` relates the `Parser` to the commands meant: it has heard all tokens that are
  complete (`Heard`: the last name waits in `next`, the parameters are those of the last
  command that is heard, the command before is given when the next name
  comes), and what is written beyond that is the one lexeme being read (`Written`).
* After the end of the file (`Ending`) the commands left are given one by one. Where it
  completed a last token (`LastCut`) they are those of `Given`: a number is dropped from
  the parameters and its command given again (`NumberCut`), a single name is lost
  (`NameLost`).

The rest of `Textures_proofs` proves, for every number of tasks, threads, names and
look-ups: `TexturesImplementTasks` (`TexSpec => ImplementsTasks`: every step of a texture
instruction is a stutter of `ParallelTasks` or the end of a task), with which `Joined` and
the rest hold of the tasks with textures; `[]UsesLive`; and `StableLookup`. `TexInv` says
that an instruction runs only in a running task (`OpsRun`), that the State is up until the
scope is left (`StateStays`), that the list holds allocated textures while it is
(`AllLive`), that an instruction holds a texture of its own name (`OwnNames`) and has none
only if there is no such file (`NoFile`). `UsesLive` then comes from `Joined` of
`ParallelTasks`: when the State goes, no task runs. The counts play no part in it, which
is why lost updates do not free a texture in use. `FewCopies` bounds the copies in the
list of one texture by the tasks that can run at a time: a task begins to load a name only
while no copy of it is listed, so until then every copy has a running task that is about
to add it, and after that no load begins. `Listed` and `FewToCome` (the copies and the
tasks still loading together) say that, with `FewRun` of `ParallelTasks`. `CountsExact`
counts the holders of a texture whose updates did not meet; `UpdatesAlone` says that what
an update has loaded is then still the count. `AssertNeedsRace` is the other side of
`tex_refs`: the assertion fails only for a texture that two tasks were updating at once.

The rest of `Network_proofs`, about `Connect`, proves `[]CTypeOK`, `[]SocketsOwned` and
`[]WaitsInVain` for every number of servers and every set of names without address.
`CInv` adds what the loops have done so far (`LoopsDone`), which stages of a socket go
together on both sides (`SocketStages`) and that jobs follow connections (`JobsFollow`).

The first part of `Shaders_proofs` is about `SceneShaders`. It proves `[]FindsFirst` and
`[]LightsMeant` for all search paths, files, shader names, light IDs and numbers of
commands.

* `ScanInv` says that a search has missed the file in every directory it has passed, and
  a search for a compiled shader in all of them for the source. The scanner walks over a
  list of paths with an index, the property over the list of directories that the paths
  stand for. `NextFollows` joins the two: what `NextDir` gives comes next after what is
  passed, and once it gives nothing all has been passed (`Passed`, `DirsUpTo`, by
  induction over the list, a path that stands for no directory being skipped). A file
  that is found is then the first of the candidates (`FoundAmong`, `CandidatesFirst`).
* `LightInv` says that the active lights and those of every primitive are in the list
  of lights, and that no light there is younger than the commands so far: one that
  takes the ID of another later is younger than it.

The rest of `Shaders_proofs` is about `ShaderVM`. It proves `[]VTypeOK`, `[]RunsAsWritten`
and `[]LightsCurrent` for all programs that are shorter than an address can count, all
attributes and lists of lights, any lights that do not bind, and every size of the
stack and number of grids (`VMAssumption`).

* `ParseInv` is about the assembler: the blocks still open are where `mFuncOpBeginIdx`
  says, innermost last, every other block is linked to its `orelse` and its end, and two
  blocks are apart or one lies in the other (`Nested`). When the text ends with no block
  open, the code is the nesting that the text means.
* `RunInv` is about the machine in such a program, if it has no jumps. The stack of blocks
  holds one flag for each block of the text around the instruction, the flag that this
  block should have (`Stack`); an `illuminance` under way is one of them, at a light that
  counts (`Loop`); and each instruction has been executed as often as the text says it
  should have been by now (`Visits`): not if it is skipped, once per light if it is in an
  `illuminance`, one time less if this light has yet to reach it. At the end that is the
  count of `RunsAsWritten`. What has been passed had nothing that must throw (`PassedBy`),
  so that a run that does throw has a reason (`CutShort`).
* `ContextInv` is about what outlives a grid. The contexts of lights are new or were made
  for the attributes at hand, and the cached colour, once it counts as done, is that of
  these attributes or of a bad light: setting up for other attributes throws away both, a
  failure between the two leaves neither marked as done.

`Primitives_proofs` proves `[]GTypeOK` and `[]PatchesCover` for polygons of any number of
vertices, any lists of loops and meshes of any size, patch steps and wrapping.
`PrimAssumption` only asks that the lists are long enough for the loops that are drawn,
which is what the DASSERTs of `Simplify` are there for.

* `LoopsInv` says that the running indices are sums: as many loops are taken as the
  polygons so far draw, and the first vertex of a loop is the number of vertices in
  the loops before it. That a polygon is drawn with a loop that is its own or, once
  one had holes, comes before it compares two such sums.
* `FansInv` says what a fan leaves behind. When it has come to the vertex `s`, its patches
  cover the polygon of the vertices `0..s`: a half side of that polygon's outline is
  in one patch, any other in none or two (`Fan`). A quad turns the chord it stands on
  into an inner side and adds its other three to the outline; the three patches of the last
  triangle do the same, and the sides between them meet in pairs. With the last
  vertex the polygon is the whole loop (`Covered`). Sides are sets of points, so that
  which half sides are equal has to be shown (`HalvesAt`, `HalfEnds`).
* `MeshInv` says that the patches made are those of the cells before the next, each once:
  by rows if bilinear, by columns if bicubic. That these leave no gap is shown
  for one direction at a time (`HullsOnAxis`) and then put together.

`Hider_proofs` proves `[]RefsExact`, `[]SplitsPartition` and `[]BucketsServe` for every
resolution, sampling (1 to 64 each way, what `cmdPixelSamples` clamps to), bucket size,
screen bound, number of primitives and worlds, and depth of splitting.
`HiderAssumption` asks, beside the types, that the units of a surface are so fine that
every split halves a part exactly: the (u,v) plane is continuous in the code, so the
size of a unit is the model's choice.

* `HiderInv` is about the primitives. Between two steps of `WorldEnd` the count of a
  primitive is the number of entries that refer to it (`RefsExact`), the list holds it
  at most once (`ListedOnce`), and each phase has done what the next relies on
  (`PhasesDone`). `PartsHalved` says that a part with `cnt` splits has been halved `n`
  times each way with `n <= cnt <= 2n`: the upper halves of a split count double, so
  `cnt` alone does not give the size, and `DropsAreSmall` follows from `n`.
  `PartsPartition` counts pieces; the proof uses `CoveredOnce` (there is one, and any
  other is the same), which a split of a part into its quarters keeps, and turns it
  into the count at the end. `RootsKnown` keeps the surfaces of an earlier world
  that threw apart from new ones.
* `ServeInv` is about buckets and buffers. The buckets of one world are its tiles
  (`WorldsKnown`); a primitive that a bucket has borrowed is also in every other
  bucket that its bound meets (`BorrowedWhereSeen`); a buffer has the size of its
  bucket, no two buffers are alike and, in worlds of one format, there are at most two
  widths and two heights, so that four buffers are enough (`SlotsKnown`). Every buffer is
  that of the first world of its size, and there is one for every size met so far while
  there is room (`SlotsFirst`), so in worlds of several formats a buffer is missing only
  when the four are taken.

`NatInduction` has what several of these proofs need: inductions, stated for a set of
numbers and for functions (SetInduction, and that a function defined on the naturals
from its predecessor exists and keeps what its start and its step keep), and the laws
of concatenation, element by element, from which the queues and lists of the models
are put together and taken apart.

Only model-checked: `UTypeOK`, `TextAsMeant`, `CodeAsWritten`, and all liveness, which
is out of this prover's reach.

* `TextAsMeant` and `CodeAsWritten` are about `RslPrepro` and `RslExpr`, whose trees and
  included files are walked with recursive operators.
* `UTypeOK` puts the types of eight units together, two of which are those of `RslPrepro`
  and `RslExpr`. Those of `RibParser`, `ShaderVM`, `Primitives` and `Connect` are proved
  on their own.

## 6. Hazards and what covers them

See `hazards` in `PROJECT.json`: each has the line, what can go wrong and the
properties that would show it, or why none does yet.

## 7. Not modelled

Listed under `components` with status `not_modelled`, or as the missing part of one that
is `partly` modelled:

* of the RSL compiler the tokenizer, declarations, functions and their inlining,
  conditions and loops, and uniform against varying variables;
* memory files (Section 2), symbols and parameters (tables without steps of their
  own);
* lane masks, operands and arithmetic of the shader machine, and with them how often a
  program that jumps back does so;
* floating-point mathematics, noise, quadrics, `NuPatch`, dicing, sampling, filtering
  (no arithmetic of that kind in TLC or the provers);
* image file formats, windows and command lines (I/O over external libraries),
  `RI_System/old` (not built);
* vendored code: `externals/` (libtiff and its tools above all) is by far the
  largest part of the repository's lines and none of its own logic. Of the project's own
  about 21 000 lines of code the map covers about 7 600.

Seen while modelling and stated by no property, since nothing in the repository says
otherwise: two of the three patches a triangle becomes are oriented the other way round
than the first.
