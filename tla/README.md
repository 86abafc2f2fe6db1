# RenderScript runtime: TLA+ models, checks and proofs

TLA+ specifications of the RenderScript runtime, TLC configurations that check
them on small instances, and TLAPS proofs of some of their properties for every
instance. `PROJECT.json` lists the components, the runs, the source lines behind
each definition, the hazards and the theorems.

## The system

RenderScript runs compute (and, formerly, graphics) scripts for an application.

| part | where | state | operations |
|---|---|---|---|
| context | `rsContext.*` | `mRunning`, `mError`, `mExit`, its thread | create, init, thread loop, destroy |
| command FIFO | `rsThreadIO.*`, `rsFifoSocket.*`, code made by `rsg_generator.c` | a socket pair, a send buffer, a read buffer | marshal, commit, play, reply |
| message channel | the same sockets, `cpp/RenderScript.cpp`, Java `RenderScript.java` and JNI | a second socket pair, the last header read | send, peek, get, shut down |
| objects | `rsObjectBase.*`; types and elements are cached (`rsType.*`, `rsElement.*`) | user and system counts, an object list, caches | create, look up, bind, release, delete |
| CPU driver | `cpu_ref/rsCpuCore.*`, `rsSignal.*`, `cpu_ref/rsCpuScript.cpp` | helper threads, launch and completion signals, a slice counter | start, launch, walk, reduce, stop |
| data | `rsAllocation.*`, `rsType.*`, `rsElement.*`, `driver/rsdAllocation.cpp`, `driver/runtime/`, the client classes | memory of cells, levels, faces and planes | copy, resize, pack, access from scripts |
| buffer queues | `rsGrallocConsumer.*`, `driver/rsdAllocation.cpp`, `support/jni/android_rscompat_usage_io*` | shared consumers, windows | receive, send, attach, release |
| script groups | `rsScriptGroup*.cpp`, `rsClosure.cpp`, `cpu_ref/rsCpuScriptGroup*.cpp`, Java `ScriptGroup` | graph of kernels | order, batch, execute |
| script code | `cpu_ref/rsCpuScript.cpp`, `cpu_ref/rsCpuExecutable.cpp` | a cache directory, loaded libraries | compile, link, load, check |
| fixed functions | `cpu_ref/rsCpuIntrinsic*`, `rsMatrix*`, the client classes | kernels, tables, matrices | set up, launch, compute |
| files | `rsStream.*`, `rsFileA3D.*` | byte streams | save, load |
| graphics | `rsProgram*`, `rsMesh`, `rsFont`, `rsFBOCache`, `driver/` | caches, dirty flags | find or create, bind, draw |
| other drivers | `rsov/` | Vulkan objects | the driver table |
| clients | `cpp/`, `support/java`, `support/jni` | wrapper objects, a message thread | the public API |

How they interact. A client thread marshals a call into the FIFO and, for a call
with a result or with data too large to inline, waits for a reply. The context's
thread takes commands out and runs them, and so owns almost every object; but
objects that are shared through a cache (types, elements) are looked up and
created on the client's threads. A kernel launch is forked over the driver's
helpers and joined by the context's thread. Scripts and errors send messages back
through the second socket, which a message thread of the client reads. Java
finalizers send `ObjDestroy` at any time. Tearing a context down involves all of
them: the last commands, the message thread, the objects, the context's thread,
the driver's helpers.

What is hard to test is therefore at these borders; the hazards, each with its
line, are in `PROJECT.json`.

## Modules

Threads and protocols:

| module | models | variables ↔ code |
|---|---|---|
| `WorkerPool` | the driver's helpers: `init`, `helperThreadProc`, `launchThreads`, the destructor, `Signal` | `mRunningCount`, `mLaunchCount`, `mSet` of each signal, the place of each thread |
| `ForkJoin` | what a launch promises: every slice once, nothing before fork or after join | abstract; implemented by `WorkerPool` |
| `MessageChannel` | messages to the client, for the C++ and the Java client | the socket's contents, `mLastClientHeader`, `mShutdown`, the message thread |
| `CommandFifo` | client calls, finalizers, `playCoreCommands`, replies, vsync | the two sockets, `mSendBuffer`, the read buffer |
| `CommandQueue` | what the FIFO promises: calls run one at a time, in order, and return what they computed | abstract; implemented by `CommandFifo` |
| `ObjectRefs` | reference counts, `checkDelete`, the cache, handles, a script slot, teardown | `mUserRefCount`, `mSysRefCount`, `gObjectInitMutex`, `mTypes`, the place of each thread in a release |
| `ContextLife` | `createContext`, `initContext`, `threadProc`, `rsi_ContextDestroy`, `~Context` | `mRunning`, `mError`, `mExit`, the command socket |
| `WorkerPoolTypes`, `WorkerPoolSafety`, `ContextLifeSafety` | proofs about `WorkerPool` and `ContextLife` | |

How scripts run (`MCScripts`):

| module | models | variables ↔ code |
|---|---|---|
| `KernelLaunch` | pure operators: `setUpMtlsDimensions`, `sliceInt`, the ranges of the walkers, slice sizes, in `uint32_t` arithmetic modulo 2^W | |
| `ForEachLaunch` | one forEach: lanes fetch slices and run the kernel | `mSliceNum`; the cells finished, once or more |
| `ReduceLaunch` | one reduction: accumulators, walkers, combining, outconverter | `accumCount`, `accumPtr`, the cells folded into each accumulator |
| `ScriptGroups` | groups of linked kernels: the builders, `validateCycle`, `validateDAG`, `calcOrder`, execution kernel by kernel, fused over rows, and by the compatibility library | nodes and lines of the builder, the order, which kernel's output each row of an allocation holds |
| `ClosureGroups` | groups of closures: futures, global and argument bindings, inputs, cutting into batches, batched execution | `mArgs`, `mGlobals`, `mBatches`, what each cell was computed from |
| `CodeCache` | compiling, linking, loading and checking script libraries, private copies, process ends in between | files of the cache by variant, `LoadedLibraries`, live scripts |

What allocations hold (`MCAllocations`, `MCCopies`):

| module | models | variables ↔ code |
|---|---|---|
| `AllocLayout` | `Type::compute`, `AllocationBuildPointerTable`, `requiredAlignment`, cell counts, `GetOffsetPtr` | the table of levels and the face offset |
| `AllocJava`, `AllocCpp` | the checks and commands of every copy method of the two `Allocation` classes | pure: a request to the command it sends, or the exception |
| `AllocCopies` | the driver's copies, padding of 3-vectors, chroma planes, bitmaps, mipmaps, `resize1D` | every byte of the allocation, where it came from |
| `FieldPacker` | `FieldPacker.java`: adds, subs, alignment, reset, resize | `mPos`, `mLen`, `mData`, the alignment marks |
| `StructFields` | struct elements in Java, C++, the core and the runtime; field writes; the packed form | builder, offsets, visible fields, bytes of cells |
| `ScriptAccess` | `rsGetElementAt` and stores, frame access, vector loads, `rsSample` | the allocation and the last access |
| `IoInput` | consumers shared by allocations: attach, share, frame callbacks, receive, release | `mGrallocConsumer`, `mAlloc`, `mNumAlloc`, `mAcquiredBuffer`, the place of a callback |
| `IoOutput` | windows: `setSurface`, `ioSend`, buffers dequeued, locked, queued, cancelled, with failures, in the driver and the support library | `wndSurface`, the buffer held, the window's references |

What the fixed functions compute (`MCCompute`, `MCBlas`):

| module | models | variables ↔ code |
|---|---|---|
| `BlasCall` | the call record and what the checks of the two front ends share | |
| `BlasJava`, `BlasCpp` | checks and call of every routine in each front end | pure |
| `BlasDispatch` | `invokeForEach`: operands, leading dimensions, and the tiled product over lanes | the call, `mSliceNum`, tiles taken and computed |
| `IntrinsicFront` | constructors, setters and launches of ten intrinsics in Java and C++, lookup tables and their dirty flag | script, CPU side, table, cached table |
| `IntrinsicRows` | which cells each row of a launch reads and stores, scalar and vector builds, the blur's row buffer | the launch, the lane's scratch buffer, the stores |
| `IntrinsicPixels` | blend modes, lookups, YUV, histogram sums per lane, the colour matrix's key and compiled kernel | lane sums, the compiled key |
| `Matrices` | loads, products, inverses, transposes, projections and frustum tests in Java, core and script runtime | the same matrix in the three libraries and exactly |

Every action is a handler, or the part of one between two points where another
thread can see or change shared state. Some definitions have a sibling just
before them with a longer name (`Join_NoWait`, `releaseIdxKept`): the same step
with a plausible mistake in it. These are used nowhere in the specifications and
serve to show that a property would notice the mistake; `PROJECT.json` lists them
under "mutants".

Abstractions. A command's or message's data is reduced to its size class and an
identity; an object's contents to the one object it refers to (a type's element);
a kernel to the set of cells it has visited, or to the term it computes from its
inputs; an accumulator to the set of cells folded into it; a byte of an allocation
to the place it was copied from; a matrix entry to an exact integer, with
rotations by right angles only; a pixel to one colour channel and alpha at the
levels where rounding and saturation change. cblas, the image reader, windows, the
compiler and the linker are external: they do what the code relies on, or fail.
The 16 kB rule for slice sizes is an input (rows per chunk). All `Max...`
constants are bounds on how often a client does something.

`KernelLaunch` relies on `WorkerPool` for "each lane's walker is called once, and
the launch returns when all have returned" (`EveryLaneCalled`, `RefinesForkJoin`):
`ForEachLaunch`, `ReduceLaunch`, `BlasDispatch` and the histogram start from that.
`AllocCopies` joins the front ends to the driver: each request goes through
`AllocJava` or `AllocCpp`, the command it sends and the bytes the driver moves, and
`ScriptAccess` reads cells from the layout of `AllocLayout`.

## Runs

Passing runs:

| run | what it shows | bounds |
|---|---|---|
| `pool` | slices run once and each lane is called (`LaunchExact`), no helper runs a launch that has returned, only initialised signals are set; launches, the destructor and an `init` whose helpers could be created return; `ForkJoin` is implemented | 3 lanes, of which some may not be created; 2 launches, so that a completion left over from one meets the next; 2 slices; spurious wakeups of the completion signal |
| `messages` | messages whole and in order, nothing used after destroy, errors handled, teardown ends, everything sent while the client listens is delivered | Java: 2 senders of 2 messages, a socket that holds less than one burst; C++: 2 senders of 1 message, a socket that holds everything, see below |
| `fifo` | commands whole, addresses valid while used, own replies, calls return while vsync events compete; `CommandQueue` is implemented | 2 callers, 2 finalizers, data below, at and above the inline limit, a socket for two commands |
| `objects` | exact counts, no leak, no use after free, everything freed by the context's destruction, which ends | an object that holds a cached one that holds a cached one (allocation, type, element), 2 client threads and the context's, one script slot |
| `context` | create and destroy return, a created context runs, its thread is gone before it is freed unless it reported an error, only the last command can lose its data | all four kinds of context, 2 commands, every step of creation may fail |
| `scripts` | forEach runs the kernel exactly once over each cell; reductions fold each cell once in accumulators of their own; an accepted group is connected and without cycles and computes what its connections say; batched closures compute what they compute one by one; scripts run their own code with globals of their own | dimensions on both sides of every choice of walker, 1 to 3 lanes, W = 5; 4 kernels of 3 scripts with up to 3 connections; 3 closures; one script and one group name, 2 builds of the system, 2 live instances |
| `allocations` | copies move the bytes asked for and no others; levels, faces and cells do not overlap; what a packer packs is found again; Java, C++, core and runtime agree on elements; scripts reach the cells and samples they name; shared consumers, frame callbacks and windows keep their buffers | 320 types for layout, 18 for copies, one copy from each state; 3 adds; structs of up to 3 fields; 3 allocations on a queue for 2; 2 windows, 5 calls, any of which may fail |
| `compute` | BLAS calls reach cblas with their operands' shapes, from both front ends alike, and a tiled product computes each entry once; rows of the intrinsics read and store the right cells; front ends launch kernels only on what they were built for; pixels are what the formulas say; the matrix libraries agree with exact arithmetic | every routine and precision, operands up to 3 x 2 (5 x 5 for products); widths around the vector lengths; levels 0, 1, 127, 128, 254, 255; 2 matrix calls |

`scripts`, `allocations` and `compute` each hold several components that share no
state: a behaviour explores one of them, named by `part`, and the variables of the
others keep the value `Off`. Their properties begin with the part they are about.
There is no fairness and no liveness in them; `scripts` and `allocations` include
launches and callbacks of several threads. Their behaviours end, so they do not
check for deadlock; the five other passing runs do, with an explicit idle step for
a system that has finished.

Runs in which the code disagrees with its own comments (quoted under "findings"
in `PROJECT.json`):

| run | disagreement |
|---|---|
| `pool_init_hang` | after a failed `pthread_create`, `init` waits for helpers that do not exist |
| `message_cpp_hang` | `~RS` stops reading messages before `finish()`; a sender blocked on the full socket is never released |
| `object_split_read` | `checkDelete` reads its two counts one after the other while `getType` moves a reference from one to the other outside the lock |
| `context_unjoined` | a thread whose driver fails to load is not joined before the context is deleted |

The passing runs leave these cases out, and some more:

* `objects` treats the two reads of `checkDelete` as one for cached objects
  (they are not in the set `Split`), and separately for the uncached one. It
  lets no finalizer send an `ObjDestroy` between `finish()` and the destroy
  (`LateDestroy`); with one, the context's thread and the client's can both
  release an object.
* The C++ client of `messages` never fills the socket, and has both handlers
  installed: the message thread calls an error handler only if a message handler
  is set.
* `DeliveredIntact` lets the last message be dispatched again after `shutdown()`,
  which leaves the last header in place.
* `CreateReturns` excepts an error that graphics start-up sets and survives:
  the client then joins a thread nobody stops.
* `TornIsLast` says that a command whose data could not be read is the last one
  played, not that it is not played.
* Launch signals are not woken spuriously in `pool`: `Signal::wait` tests its flag
  with `if`, and a spurious return would start a helper early.
* `CodeMatches` ends when a group is linked under a new name because its library is
  loaded: the link takes whatever object file is there.
* `SlotsOwned` excepts an allocation whose share of a full queue was refused; it
  keeps a pointer to a consumer it is not counted in.
* `BuffersReturned` lets the support library lose a buffer after a failed post.
* Rows of `YuvToRGB` with an odd end are excepted: its loop stores pairs.
* `OperandsExact` excepts `syr2k` with a conjugate transpose, and slots that name an
  operand of the main context in a call to the compatibility context.
* `PackedRoundTrip` excepts arrays and padded structs inside a packed struct,
  `SubReturnsAdded` a packer that was reset or skipped, whose marks are stale.
* Elements of C++ differ from the core's for objects on 64 bits and for
  `PIXEL_DEPTH`; `LayoutsAgree` says where.

Statements of the documentation that do not hold. Besides the four runs above, these
definitions state what a comment or a page says without the exceptions that the
checked property makes; TLC finds a counterexample to each when it is put in the
place of that property. They are kept so that a repair of the code can be checked.

| definition | says | the code |
|---|---|---|
| `ScriptGroups!RunsInOrder` | kernels run "one by one in the correct order" (`ScriptGroup.java`) | the order walk stops at a node it has met, and two paths of different length give a kernel a place before one it reads from (`rsScriptGroup.cpp:89`) |
| `ClosureGroups!EveryGroupComputes` | closures give what they give in the order they were added | one batch sets a script's global once for closures that bind it differently (`rsCpuScriptGroup2.cpp:580-622`) |
| `IoInput!NoFrameKeepsData` | a receive without a new frame does nothing (`rsAllocation.cpp:639`) | the held image is given back first (`rsGrallocConsumer.cpp:95-107`) |
| `AllocCopies!WholeCopied` | `copyFrom(Allocation)` copies the allocation (`Allocation.java:974`) | the range has height 0 in one dimension and one slice in three (`:984`) |
| `ScriptAccess!SampleDescribed` | `rsSample` fetches "in a way described by the sampler" (`rs_allocation_data.spec:412`) | 565 textures, some channel orders and LINEAR minification differ (`rs_sample.c`) |
| `IntrinsicPixels!MatrixAlwaysComputes` | a colour matrix applies to every format | the kernel compiled for a dot product fills all channels only in integer code that copies alpha or has none, and integer code has no sum for a red that is always zero (`rsCpuIntrinsicColorMatrix.cpp:506`, `:583-587`) |
| `IntrinsicRows!ResizeClipped` | a resize can be restricted to a range (`ScriptIntrinsicResize.java:104-112`) | a range that does not start at column 0 is stored that far to the right |
| `Matrices!JavaExact` | `loadMultiply` and `loadRotate` of `Matrix4f` | its own left factor is overwritten while it is read, and the axis is not normalised |

Why the bounds are enough. The protocols have no counter that grows past the
number of threads, except `mSliceNum`, which the launches exhaust; every pair of
steps that can meet does so with two clients and the context's thread. A second
launch, a second command, a second message are there because state left over from
the first is what could go wrong. Three closures or connections are the fewest in
which a dependence can pass through a third kernel; a queue for two that three
allocations want is full and is released in every order. Copies, rows and matrices
have no history beyond the last call, except where a buffer, a table, a compiled
kernel or a matrix is reused: there two calls or launches follow one another. The
dimensions of forEach with W = 5 go up to 4/5
of 2^W, the largest for which the fetches after the end cannot wrap round; with
32 bits that is 3.4 thousand million cells, above what an `int` argument of the
Java client can ask for.

## Fairness

Weak fairness of each thread's own steps: the operating system runs every thread
that can run, and condition variables, sockets and joins wake their waiter. In
`CommandFifo` a caller's commit to a full socket has strong fairness: several
callers wait for room and the kernel serves them in turn. What a client
does of its own will (send, destroy, look up) has no fairness. Java finalizers
have none either.

## Proofs

For any number of CPUs, launches, slices (`WorkerPool`), and any number of
commands and set of possible failures (`ContextLife`):

* `WorkerPoolTypes!TypeCorrect`, `ContextLifeSafety!TypeCorrect`: the type
  invariants.
* `WorkerPoolSafety!StaleLaunchFree`: if launch signals are not woken spuriously,
  no helper runs with a launch that has returned. This is not inductive: it
  depends on `mRunningCount` being exactly the number of helpers that still owe a
  decrement. The inductive invariant says so (`CountInv`, with the cardinality of
  the set of owing helpers), and adds who is started, who has consumed their
  signal, and that outside a pool launch nobody owes anything.
* `WorkerPoolSafety!SignalsInitialised`: only initialised signals are set.
* `ContextLifeSafety!CreatedRuns`: whatever fails, a context handed out has a
  thread in its loop. The invariant ties `mRunning` and `mError` to the place of
  the thread (`ThreadState`) and the place of the client to both (`ClientState`):
  the thread sets `mError` before it can ever set `mRunning`.
* `ContextLifeSafety!JoinedBeforeDelete`: whatever fails, the destructor ends after
  the context's thread, unless that thread has set `mError`. `Joinable` adds that
  without an error, when the destructor starts the thread does not exist, has
  exited, or has set `mRunning`. The exception is needed: `context_unjoined` is
  the counterexample without it.

Assumptions: only those stated with the constants (`NumCpuAssumption`,
`CmdAssumption`, ...), which TLC evaluates in the runs, and the hypotheses in the
theorems.

Only model-checked: everything under fairness (liveness is outside this prover),
both refinements, and all properties of the other modules.

## What could come next

Theorems: `EveryLaneCalled` and `SlicesRunOnce`, then `WorkerPool` implements
`ForkJoin`; the slices of `KernelLaunch` are disjoint and cover the box when the
box is small enough for the word, and from it `EachCellOnce`; `CountsExact` and
`NoUseAfterFree` for `ObjectRefs` with no `Split` objects among the `Shared`;
`OwnAccumulator`; `SlotsOwned` for any number of allocations; `OwnGlobals`;
`CommandFifo` implements `CommandQueue` (safety).

Models: several contexts in one process (the TLS key count, two type lookups that
both insert), the references held in object cells of an allocation
(`freeChildren`), and `ContextLife`, `MessageChannel` and `ObjectRefs` composed for
a teardown.

## Not modelled

* The graphics part (programs, samplers, meshes, fonts, the frame buffer cache) and
  the GL driver: their state is a copy of what the GPU holds, and their correctness
  is what OpenGL draws. Of A3D files and streams only the packed form of cells is
  modelled; the rest is file I/O for that part.
* The Vulkan driver: nearly all calls to Vulkan. The SPIR-V compiler: a translator
  of programs, without protocol state.
* Loading of drivers and the HIDL adaptation: dynamic linking and tables of
  functions; a failed load is an input of `ContextLife`.
* `Script`, `ScriptC` and the script library's stubs: they forward a value to
  compiled code or to the core.
* Vector mathematics and conversions of the runtime library, the weights of blur,
  bicubic resize and convolution, and rounding in matrices: floating point.
* The key count of the thread-local storage (`rsCpuCore.cpp:266`, `:317`), two
  lookups that insert the same type (`rsType.cpp:249`) and object cells
  (`rsAllocation.cpp:543`): see above.
* Generated headers and documentation, logging, timers, thread priorities, system
  properties.

`PROJECT.json` gives the reason for each part. The hardware memory model is taken
as sequentially consistent: the code's own barriers are around the counters
modelled here, but flags such as `mRunning` and `mExit` are plain variables.
