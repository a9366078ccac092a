# A verification project for strixhalo-npu-setup

The repository holds three bodies of code around the AMD XDNA2 NPU of Strix
Halo: a control plane (`npu_control_plane/`, the command `npu-ctrl`) that
keeps its data in JSON files, compiler components
(`npu_control_plane/compiler/`) that allocate the memory banks of a core,
schedule its VLIW loop and generate a kernel, and designs (`experiments/`)
that lay a GEMM over the array of cores. The modules of this directory model
those parts of them whose correctness rests on order, interleaving or
arithmetic, and check and prove what they promise. `PROJECT.json` maps every
definition to the lines it stands for.

Paths below are relative to the repository; `scheduler.py:552` is a line.

## 1. The system

| Component | State | Operations | Interacts with |
|---|---|---|---|
| MetadataStore (`metadata.py`) | JSON files under `.npu-control/`, a `.tmp` file for each | `read_json`, `write_json` | the file system; every npu-ctrl process |
| KernelRegistry (`registry.py`) | `registry/kernels/index.json`, copies of artifacts | `register`, `list` | the store, `copy2`, the build that makes the artifacts |
| BenchmarkRecorder (`benchmark.py`) | a record file for each run, `benchmarks/summary.json` | `record_command`, `list_runs` | the store, `run_command` |
| Command probe (`probe.py`) | none | `run_command`, `which` | external programs, with a timeout |
| Discovery, toolchains | `devices.json`, `toolchains.json` (overwritten whole) | `discover`, `probe`, `status` | the command probe, the store, programs of the machine |
| Command line (`cli.py`) | none | `main` | all of the above; decides which exceptions become exit code 2 |
| Experiment runner, experiments_lib | none | `NpuRunner.run`, shape formulas | `npu-ctrl bench run` as a subprocess |
| VLIW software pipeliner (`scheduler.py`) | dependence graph with times, windows and slots; bundles | `schedule_sms`, graph and bounds, pipeline generation | machine model, kernel generator |
| L1 bank allocator (`bank_allocator.py`) | placements and the free offset of four banks | `allocate`, `reset`, `layout_gemm`, suggestions, stride analysis | tile optimizer |
| Machine model, tile optimizer, kernel generator | register and bank counters; none; none | counters; a search; text of a kernel | each other and the two components above |
| GEMM designs (`experiment_7` to `_10`) | ObjectFifos, cores, task groups of DMA transfers | the runtime sequence, `core_fn`, the DMA engines | host memory, the array |
| Micro kernels (`kernel_gemm_*.cc`) | accumulators, register pipeline | zero, matmul of one tile | the core that calls them |
| BFP16 packing (`pack_bfp16.py`) | none | pack A, pack B, unpack C | design 10 |
| Instruction buffers (`instr_compiler.py`, `npu_compiler.py`, `xaie_gemm_generator.py`) | a list of commands | build, parse, generate | the firmware of the array |
| Experiments 1-6, `validate.py`, saved binaries, results, documents | none | scripts | |

Calls that interact:

* every npu-ctrl command is a process of its own; processes share nothing but
  files, and take no lock. `register` and `record_command` read a list, change
  it and write it back by two calls of the store.
* a design couples its cores through fifos: a row of cores shares each tile of
  A, a column each tile of B, and the host orders transfers in groups without
  knowing how far the cores are.
* the allocator, the scheduler and the optimizer are called one after another
  by sequential code; what is hard in them is arithmetic and state that stays
  from one attempt to the next.

### What is hard, and what makes each part right

| Part | Hard behaviour | Correct if |
|---|---|---|
| MetadataStore | two processes in one `write_json`, which share the `.tmp` name; a crash or a failing dump between its steps; `exists()` then `open()` | files are whole documents, or the reader gets the default; a file never disappears; calls never wait for each other; with one writer it is an atomic store |
| KernelRegistry | copy, hash, read, change and write are separate; builds and crashes between any two; a copy that fails midway over a listed file; a key registered twice | keys unique, nothing listed that was not copied, a file registered undisturbed holds what its hash says until it is opened again, nothing acknowledged is lost unless two commands update at once |
| BenchmarkRecorder | warm-up and timed passes in one loop, each of which may fail or time out; two files written one after the other | a listed run has its record and the durations of exactly the passes after its warm-up, no run is lost unless two commands update at once |
| Discovery, status | programs that fail, hang or print bytes before they are killed; a report published while another is being made or read | only a whole report replaces a report, status shows the newest unless two commands overlap, every command ends |
| Bank allocator | exact fits, spills into the bank of another operand, alignment, layouts without reset, failed layouts | live buffers disjoint, inside their bank and aligned; a fresh layout keeps A and B apart and is refused exactly where one of two conditions on its operands fails |
| Tile search | a test of bytes in one module, banks in another, a second allocator in a third; layouts tried on one allocator that keeps its state | the two allocators agree, the best tile can be placed, no better alternative is lost |
| Scheduler | cyclic times modulo the II, windows left from a smaller II, loads that change unit while they are tried, ramp-up and drain | dependences hold across iterations, a unit is used once, the times the windows are made of respect the dependences at each II, each instruction is issued as often as every other |
| GEMM designs | order is the only name a tile has; rows and columns block each other; groups are freed although only the drains of C were awaited; the array is not reset between runs | C = A x B in any interleaving, no deadlock, no freed transfer outstanding, nothing left in the array |
| Micro kernels, packing | a block has no name but its address, computed in Python for the DMA engine and in C++ for the kernel; loops unrolled and pipelined by hand | each block of C gets each product once, in the order of K, over all calls; where it does not (a layout the kernel does not know, an odd number of steps in the unrolled loop) is known exactly |
| Generated kernel | a K loop pipelined by hand whose counter and prologue have to fit together | each pair is multiplied once |
| Instruction buffers | lengths written down twice, in a parser and a builder | what is read and built again is the same in every byte |

`PROJECT.json` lists these as hazards, each with its line and the properties
that would catch it going wrong.

## 2. Modules

| Module | Models | Kind |
|---|---|---|
| `MetadataStore` | the file-system steps of `read_json` and `write_json` | component, used by four others |
| `AtomicStore` | what the store promises with one writer for each path | abstract specification |
| `StoreClients` | any processes calling the store, any of them killed | composition; refines `AtomicStore` |
| `KernelRegistry` | `npu-ctrl kernels register` of several processes, on the store | component, EXTENDS MetadataStore |
| `BenchmarkRecorder` | `npu-ctrl bench run` of several processes, on the store | component, EXTENDS MetadataStore |
| `DeviceStatus` | `npu-ctrl discover`, `toolchain probe` and `status` of several processes, on the store | component, EXTENDS MetadataStore |
| `BankAllocator` | the allocator, calls in any order | component |
| `TilePlanner` | the search for a tile: optimizer, layouts, alternatives, the second allocator | composition, EXTENDS BankAllocator |
| `ModuloScheduler` | the scheduler, from the body of a loop to its bundles | component |
| `GemmArray` | fifos, DMA engines and cores of designs 7, 9a and 10 | component |
| `WholeArray` | the runtime sequence of the same designs, on the array | composition, EXTENDS GemmArray |
| `MicroKernel` | the kernels of one core, the order of their operands, the packing | component |
| `GeneratedKernel` | the C++ kernel that `kernel_generator.py` writes | component |
| `InstrStream` | the parsers and builders of instruction buffers | component |
| `MC...` | small instances of each | model checking |
| `StoreProofs` | lemmas about each step of the store, for whoever takes it, and theorems about `StoreClients` | proofs |
| `KernelRegistryProofs`, `BenchmarkRecorderProofs`, `DeviceStatusProofs` | theorems about the modules they are named after, each EXTENDS StoreProofs | proofs |
| `BankAllocatorProofs` | theorems about the allocator, alone and under `TilePlanner` | proofs |
| `ModuloSchedulerProofs` | theorems about the scheduler | proofs |
| `WholeArrayProofs` | theorems about the runtime sequence on the array | proofs |
| `MicroKernelProofs` | theorems about the kernels of one core | proofs |

Operators whose names begin with `Bug` are wrong on purpose: each is what a
slip in the code would make of the definition after it. A property is kept
only if one of them breaks it.

### How state and actions correspond to the code

**MetadataStore.** `file[x]` and `tmp[x]` are the inodes at a path and at its
`.tmp` name, `content` what inodes hold, `call[p]` how far process p is in a
call. Inodes are needed because a handle outlives a rename: a reader keeps
reading the file it opened, a writer keeps writing into the one it created
even when it has been renamed by another. `OpenTmp`, `CloseTmp` and
`ReplaceFile` are `open("w")`, the end of the `with` block and `replace`;
`CheckExists`, `OpenFile`, `LoadFile` are `exists()`, `open("r")` and
`json.load`; `DumpFails` is any exception of `json.dump` or of the disk. A
document is the set of its entries; what matters of its text is whether
writing it over another leaves a document, a longer text's tail, or nothing
(`Overwrite`). The text reaches the file when the handle is closed: a
beginning of it that is flushed sooner could be seen only through a renamed
`.tmp` file, which is already the torn case.

**KernelRegistry.** `reg[p]` is the command of process p: `Start` validates,
`HashFile` is `_hash_file` with the key made of it and the refusal of a path
outside the store (`Escaping`), `OpenCopy` and `FinishCopy` are `copy2` (which
opens its source, truncates its destination and fills it), `CopyFails` is any
OSError on that way, a full disk in the middle of `copy2` included,
`ReadIndex` and `WriteIndex` are the two store calls, `Finish` and `Fail` how
`main` ends. A command that ends inside `copy2`, by an error or a kill, leaves
in its file what was there, a beginning of the bytes or all of them
(`BreakOff`). Of a hash the key holds the first twelve characters (`ShortOf`),
so that two sources may share a key. `Build` is external: the artifact files
belong to a build that may replace or remove them at any time; it replaces
whole files, so that a hash or a copy sees the bytes of one build. `raced`,
`acked`, `alone` (commands that copied what they had hashed and met no other
in their file) and `sound` (the files that one of these has registered and
that nobody has opened since) are history variables.

**BenchmarkRecorder.** `RunOnce` is one pass of the loop with any outcome of
`run_command` (its own return code, 127, 124, an exception), `WriteRecord`,
`ReadSummary`, `WriteSummary` the store calls in their order. The durations
are the set of the passes they were taken from (`timed`); `passes`, the number
of passes made, is a history.

**DeviceStatus.** `cmd[p]` is a command: `Launch` starts its next program,
which ends (`Answer`), is missing or hangs until `TimeOut`; `Publish` begins
`write_json`, `ReadDevices` and `ReadToolchains` are the two `read_json` of
`status`, `Show` the end. A report is the number of its command, since what
matters is which one is seen; `text` says whether it holds captured bytes, at
which `StoreStep` makes `json.dump` raise. `printed`, `floor` and `crossed`
are history variables.

**BankAllocator.** `Allocate` is one call, `StartLayout` and `LayoutStep` the
calls `layout_gemm` makes one by one, as they leave placements behind when a
later one raises. Banks, sizes and alignments are numbers in bytes.

**TilePlanner.** `BestTiles` is what `find_optimal_tile` may put first:
`FittingTiles` are its candidates that divide the problem and pass its test of
L1, `Faster` its estimate over integers (of equal tiles rounding decides, so
that all are kept). `Plan` lays such a tile, or another, out on the allocator
of `BankAllocator`; `AllocateGemmBuffers` gives the same tile to the allocator
of `machine_model.py`, a function (`GemmBuffers`); `SuggestAlternativeTiles`
goes through `Candidate(tile, 0)`, `Candidate(tile, 1)` ... in the order of
the three loops, each with a reset and a layout, and `Rank` ends it.
`Suggested` is the head of the sorted list. `Leave` hands the allocator, as it
was left, to callers of the other methods. `BankAllocator` keeps its own
`Next` and `Spec`, which its proofs are about.

**ModuloScheduler.** The graph is `Edges(body)`; each pass of
`_compute_asap_alap` and each cycle tried by `_find_slot` is a step
(`AsapPass`, `AlapPass`, `HeightPass`, `TryCycle`, `NextII`, `Success`). A
pass of the model computes all nodes from the values before it, the code
updates them in place: both end at the same fixed point, the code's perhaps in
fewer passes. The model has been compared with the Python code on several
hundred bodies and interleaves and gives the same II and the same cycles and
slots. The bundles of ramp-up, kernel and drain are `Prologue`, `Kernel`,
`Epilogue`. `GemmInnerLoop` and `GemmStore` are the bodies
`optimize_gemm_loop` builds. When `NextII` passes the largest II,
`FallbackSchedule` makes the serial schedule: an instruction each cycle, in
the order of the body.

**GemmArray, WholeArray.** A tile is its place in its matrix and what a core
has accumulated is the set of the pairs it multiplied, so that a result tells
whether each product is there. A fifo is a sequence of at most `Depth` tiles;
`acquire` and `release` of one element are the `Head`/`Tail` and `Append` of
an action. `SendA` (with its split over rows), `ForwardA` (with its
broadcast), `SendB`, `ForwardB`, `ForwardC` and `WriteC` (with the join over
rows) are DMA engines, `AcquireOut`, `MatMul`, `ReleaseOut` the steps of
`core_fn`. On the host, `Order` is the body of the loop over columns (a drain
and its fills), `EndStep` the end of a ping or pong with `finish_task_group`.
A packed B is cut into pieces of the size of a tile (`Piece`), of which K / k
make up a column tile: they are tiles only if K = k, and otherwise hold some
of its columns for all of K (the step `AllK`). The runtime takes orders in the
order of the program and does not block the host; only `finish_task_group`
waits, and only for the drains (`wait=True`). This and the fifos are external
code, modelled as these designs rely on them. A design is a record (`design`),
so that one run takes several: `stepRows` is 1 with `--c-col-maj` and 2
without, `SingleCore` is the design of experiment 7.

**MicroKernel.** The tiles that `GemmArray` moves as one are here rows of
blocks, in the order that `Offset(dims, e)` gives for the lists of sizes and
strides in `dims_to_stream`, or that the loops of `pack_bfp16.py` give. A
kernel is a record of what sets it apart (blocks of a pass, unrolling,
pipelining, order of B); `StartPass`, `LoadThenMac`, `EndLoop` are the plain
and the unrolled loop, `Prologue`, `MacThenLoad`, `Epilogue` the pipelined
one, `Store` the end of a pass. An accumulator is the sequence of the products
added to it, so that a product that is lost, doubled or out of order shows.
`Selected` is the choice of experiment 10, `Verify` the kernel in Python of
`_verify`. The 8 x 8 elements of a block are `Edge` x `Edge`. `Designs` are
the kernels with every layout of B that the options of a design give, also
those its kernel does not expect (`Agreed` tells them apart), and `Fits` is
what the static_asserts ask, so that the unrolled loop also runs on an odd
number of steps of K (`Steps` is how many it makes). What is read beyond a
tile is `Beyond`.

**GeneratedKernel.** The text that `_generate_mmul_kernel` returns, read as
the program it is: `ZeroAccumulators`, `Prologue`, `SteadyState` (one
iteration of the K loop), `Epilogue` and `Store` for each micro tile. A loaded
pair is the pair of chunks it came from, an accumulator the sequence of its
products.

**InstrStream.** A buffer is a sequence of half words, each the name of the
field it is part of. `ParseCommand` is one round of the parser of the tool,
which steps `StepSize` and keeps what `Keeps` says; `Build` packs what was
kept by the `pack` methods (`CmdPack`, `PackCommand`).

## 3. Runs

Each run is exhaustive over its instance.

| Run | Instance | Shows |
|---|---|---|
| `StoreSerial` | 2 paths with one writer each, 1 pure reader, 4 calls, 1 kill | StoreClients implements AtomicStore |
| `DeviceStatus` | 2 processes, 3 commands, programs that end, are missing, hang or fail in any mixture, 1 kill | files whole until two writes overlap and never gone; only whole reports published; status fresh; every command ends |
| `StoreTorn` (violation) | 3 processes writing and reading 1 path, no kill | two writers publish a torn file |
| `RegistryRaces` | 2 processes, 5 requests (one name from two files under two source hashes that begin alike, another name under the hash of its file, a bad name, a key that leads out of the store), 3 commands, copies that fail, 1 kill, 1 build | keys unique, listed artifacts exist, those registered undisturbed are intact, acknowledged stays, nothing forgotten |
| `BenchRuns` | 2 processes, 2 runs, warm-up -1..1, 0..2 iterations, every outcome, 1 kill | records, the passes that were timed, summary |
| `BankLayouts` | the real sizes (4 banks of 16384), 67 tiles, two calls between resets, direct buffers with alignments 32, 64, 128; the best tiles of 9 problems and 6 more tiles planned, with their alternatives | disjoint, in bounds, aligned, A and B apart, nothing missing from a returned layout, refused exactly where an operand exceeds a bank or the second B has no room; the allocators agree; best tile and alternatives right |
| `SchedulerBodies` | the GEMM loop in four forms, a crossing body, all acyclic bodies of up to 3 of 7 instructions, interleave 1 and 4, target 0 and 8, the serial fallback | dependences, units, which windows are open and from which II their times come, even issue, termination |
| `Arrays` | six designs: a column of 2 cores that share a stream of A, depth 2, 3 steps, K in 2, 2 column tiles, 2 runs; 2 x 2 cores, depth 1, 3 steps; a column with steps of two block rows, 2 runs; one core (experiment 7), K in 4, 3 runs; 1 row of 2 columns with 2 column tiles each; 1 row of 2 columns with a packed B of one piece each, 2 runs | C right and complete, groups freed in time, two steps outstanding at most, array clean after each run, no deadlock, every run ends |
| `MicroKernels` | all kernels that the designs select on all layouts of B, tiles of 1, 2 and 4 rows, 1 to 5 steps of K, 1, 2, 4 and 8 columns, 1 and 2 calls, blocks of 2 x 2 | which block each register holds; the tile of C is right exactly where kernel and layout agree and the steps of K fill the loop; sums in the order of K; no deadlock |
| `PrePack` (violation) | a column of 2 cores, B pre-packed | the design with `--pre-pack` never completes |
| `GeneratedLoop` (violation) | a tile of 16 x 64 x 16, k_steps 4 and 8 | the K loop of the generated kernel leaves pairs out |
| `InstrRoundTrip` (violation) | both tools, all templates of up to 2 commands | a buffer is not rebuilt as it was read |

### Why the bounds are enough

* Store: a race needs two writers and its damage a reader, all in flight; four
  calls let a third write or a second read follow. A fifth inode is free
  whenever a file is created.
* Registry and recorder: one entry in the index, then two commands at once, is
  three commands; one kill or one build can hit each step, and any command may
  fail in its copy.
* Devices: two commands at once and a status that sees what they left are
  three.
* Bank sizes are the real ones, so that exact fits are the real ones; tiles
  were chosen so that buffers fill a bank, half a bank or less, and spill.
  Problems and asked tiles include that of `validate.py`, ones at both ends of
  each loop of the search, and two whose best tile cannot be placed. Times are
  in units of 50 ps (II 6 at 1.6 GHz is 75, 10 GB/s is 2 per byte, 20 us is
  400000), which makes the estimate exact.
* Scheduler: three instructions give every shape of dependence (chain, fork,
  join, parallel edges, loop-carried) and two units competing for a cycle; the
  bodies the kernel generator uses are taken whole, up to 14 instructions.
  `MaxII` (12) is above every II at which one of them is scheduled; what is
  not scheduled by then gets the serial schedule.
* Array: three steps are the first ping and pong, finished together, and one
  more; two block rows of A use different taps; two column tiles make the
  repetition of A and the order of C matter. Depth 1 blocks most. In the code
  the depth is 2, rows are 4, columns 1 to 8: `Wide` has, as 8 columns have,
  columns without a stream of A of their own, which all rows supply. The core
  of experiment 7 has more steps of K than its fifos have buffers.
* Micro kernels: one to five steps of K are the shortest loops, odd and even;
  four rows or columns are two passes, or one of the kernel with eight
  accumulators, which makes two of eight; the second call finds the sums of
  the first. Edge 2 is enough for strides of rows, blocks and elements to
  differ. Two kernels promise their compiler 4 and 8 iterations
  (`kernel_gemm_bfp16_unroll2x.cc:76`, `kernel_gemm_bfp16_packed.cc:143`); the
  model takes their loops as they are written, for any number.

### Fairness

`DeviceStatus`: weak fairness of the next step of each command: a program ends
or is killed after 5 s (`probe.py:21`), and a command waits for no other
process. `ModuloScheduler`: the program runs. `WholeArray`: weak fairness of
the host and the array taken together: some engine, core or the host moves
while any can. This is all that is used, since no action of the array can be
repeated for ever. No liveness is claimed for the registry and the recorder,
and a `kill` is never fair. `CHECK_DEADLOCK FALSE` is set where processes run
out of calls (store, status, registry, recorder) or the program ends
(`GeneratedLoop`, `InstrRoundTrip`), and in `PrePack`, where the array stops.

## 4. Disagreements found

Four runs end in a counterexample to what the repository says of its code:

* `StoreTorn`: "atomic-ish reads/writes" does not hold for two writers, since
  `path.with_suffix(... ".tmp")` is one name for all (`metadata.py:48`).
* `PrePack`: with `--pre-pack` one tile of B is ordered for each block row
  where each core needs `K // k` for every tile of C
  (`experiment_10_phase5.py:382`).
* `GeneratedLoop`: of the pairs of a tile of K the kernel never multiplies 0
  and 2, where its comment says C += A x B (`kernel_generator.py:370`,
  `:434`).
* `InstrRoundTrip`: neither tool writes what it reads, where both promise the
  exact format (`instr_compiler.py:4`, `npu_compiler.py:7`): the header of
  `WriteCmd` and `BlockWriteCmd` is two bytes short (:65), `parse_insts` drops
  MASKWRITE and SYNC, `npu_compiler.py` the last word of DDR_PATCH.

Met while modelling, and left as notes:

* `bank_allocator.py`: `layout_gemm` on banks that are not reset may put A and
  B into one bank (:107-108 says they are kept apart, :234 does not reset);
  the second B of a tile of 56x112x32 goes where `_preferred_bank` would not
  put it (:167); the stack of a 90x91x45 tile is dropped without an error
  (:211, :250); mixed alignments give offsets that are not aligned (:150
  aligns sizes only); the docstring of `check_dual_load_conflict` is inverted
  (:91, :100). The properties say what holds instead: `DualLoadSafe` after a
  reset, `OperandsPlaced` without the stack, `OffsetsAligned` if every buffer
  asks for one alignment.
* `scheduler.py`: a self-dependence is left out (:303), so the recurrence
  bound of the GEMM loop is 1 where :473-474 count its latency; WAR edges are
  never loop-carried (:332); a load on unit 1 is written over unit 0 in a
  ramp-up or drain bundle (:876, hence the exception in `IssuedEvenly`);
  windows do not grow with the II (:413-416, :663): asap is only ever raised
  (:515), stays that of the first II although :505 says "at a given II", and
  the window of a node with an asap of two IIs or more is empty
  (`WindowsOpen`; the mmul of the GEMM loop at an II of 3 to 5), so that the
  II found is not always the smallest and the GEMM loop with two micro-kernels
  falls back to the serial schedule, which ignores latencies
  (`DependencesHold` exempts it); two micro-kernels on one accumulator give a
  cycle of dependences on which the passes never settle (:552), so
  `schedule_sms` does not return.
* `registry.py:58` copies in place: registering a key again with a full disk,
  or in a process that is killed, leaves a truncated file under the entry that
  lists it with its old hash, until the key is registered once more. The key
  holds twelve characters of the source hash (:53), so that sources that begin
  alike replace each other. `ListedArtifactIntact` says what holds of a file
  that a command has registered without another one in it.
* `probe.py:34`: `TimeoutExpired.stdout` is bytes even with `text=True`, so
  that a benchmark which prints and then times out makes `json.dump` raise
  TypeError and is not recorded (the field `text` of `BenchmarkRecorder`).
* Micro kernels: they read B by columns of blocks, except that of experiment
  9a, and do not look at the options of the design: `--b-col-maj 1` in 9a
  (`experiment_9a_whole_array_custom_kernel.py:204`) and `0` in 10
  (`experiment_10_phase5.py:248`) give them the other order, and a wrong tile
  of C without an error, but for a tile of one step of K. `--c-col-maj 1`
  (:275) expects C in an order that no kernel stores it in. `unroll2x` makes
  (colA + 1) / 2 iterations where its comment says "colA/2 iterations" (:76):
  if k / 8 is odd, which its static_asserts (:158-160) allow, it adds a
  product of the next rows and columns, or of what is beyond the tiles.
  `TileRight` says that these are all the cases in which a tile is wrong,
  `OperandsArrived` what is read in them.
* `experiment_10_phase5.py:94-102` cuts a packed B, in which all of K of a
  block column comes before the next, into pieces of n * k elements and counts
  them off for one column after the other. "Each L1 tile (n×k elements) is a
  contiguous chunk of the packed array" (:84) holds only if K = k; and if
  there are several columns with several column tiles each, the tiles of C
  (:345) are spread over the columns in another way. `ResultRight` holds of a
  packed B in the other cases (`PiecesFit`).
* The comments disagree on whether a block of B arrives transposed: 9a hands
  rows of B to the mac that `experiment_10_phase5.py:154-156` says takes rows
  of the transpose. A model of blocks cannot tell.
* `discovery.py:14`, `toolchains.py:22` expect text where a program that
  printed and then hung gives bytes; `cli.py` does not catch the TypeError of
  the dump, against "CLI commands must never fail just because optional
  toolchains are missing"
  (`docs/superpowers/plans/2026-06-26-npu-control-plane-mvp.md:19`; a missing
  one does no harm). Two discoveries at once may leave the older report even
  if their writes do not overlap: `StatusFresh` with `overlapped` for
  `crossed` does not hold.
* Tile search: `gemm_optimizer.py:101` speaks of 32 KB of L1 where :117 tests
  64, :172 of banks of 8 KB; the test knows no banks: the best tile of 136 x 8
  x 1024 has a C of more than a bank, that of 96 x 88 x 1024 a B of more than
  half a bank; both pass the test, and the first cannot be placed, nor the
  second with double buffers (`BestPlaced`: only one operand of more than a
  bank, or such a B, is ever in the way). `layout_gemm` tries banks greedily
  and refuses 8 x 64 x 128 with double buffers although the five buffers can
  be packed in the four banks (`RefusedOnlyWhenFull` says what it does find).
  `suggest_alternative_tiles` searches -16 to +16 where :406 says 8, has
  nothing for an n of 80 or an m or k of 144, and leaves the placements of its
  last candidate in the allocator. The padding that `analyze_2d_stride`
  advises may break the fit.
* Generated kernel: `store_v` writes 64 floats in a row over those of the
  neighbours, and stores where the comment says it adds; with the default
  k_steps of 64 the loads of A leave the tile; the pragma promises 16
  iterations of a loop that makes k_steps - 3.
* `experiment_8_gemm_multitile.py:225-228` fills B once for a step where each
  block row needs it, gives A in objects of four rows (:180-185), and does not
  finish the first group (:212).
* `experiment_9_handwritten_kernel.py` drains C once for each step of K.
* `xaie_gemm_generator.py:197-212` divides `M_tiles` twice, and its addresses
  overflow 32 bits for large matrices (:224).

## 5. Proofs

TLAPS proves the theorems below for all values of the constants that satisfy
the modules' assumptions: no bound on processes, paths, documents, commands,
kills, banks, buffers, tiles, bodies, the II, rows and columns of cores, fifo
depths, the size of the matrices, of tiles or of blocks, or the runs of a
kernel. Every safety property of the runs `StoreSerial`, `DeviceStatus`,
`RegistryRaces`, `BenchRuns`, `BankLayouts`, `SchedulerBodies`, `Arrays` and
`MicroKernels` is among them.

| Theorem | States | From |
|---|---|---|
| `StoreProofs!ClientsTypeCorrect` | type invariant of the store and its clients | `StoreInv` |
| `StoreProofs!FilesWhole` | `WholeUnlessOverlapped` | `StoreInv` |
| `StoreProofs!FilesStay` | `NeverVanishes` | `StoreInv` |
| `StoreProofs!StoreIsAtomic` | `ImplementsAtomicStore`, given `OneWriter` | `SerialClients` |
| `KernelRegistryProofs!RegistryTypeCorrect` | type invariant of the registry | `RegisterInv` |
| `KernelRegistryProofs!RegistryKeysUnique`, `RegistryArtifactsExist` | `KeysUnique`, `ListedArtifactExists` | `RegisterInv` |
| `KernelRegistryProofs!RegistryKeepsAcked`, `RegistryForgetsNothing` | `AckedStaysListed`, `NothingForgotten` | `SerialInv` |
| `KernelRegistryProofs!RegistryArtifactsIntact` | `ListedArtifactIntact` | `IntactInv`, with the two above |
| `BenchmarkRecorderProofs!BenchRecordsThere`, `BenchTimedThroughout` | `ListedRunsHaveRecords`, `SuccessTimedThroughout` | `RecordInv` |
| `BenchmarkRecorderProofs!BenchSummaryKeepsRuns` | `SummaryKeepsRuns` | `SerialInv` |
| `DeviceStatusProofs!StatusShowsNewest`, `StatusFilesWhole` | `StatusFresh`, `WholeUnlessOverlapped` | `ReportInv` |
| `DeviceStatusProofs!StatusReportsWhole`, `StatusFilesStay` | `OnlyWholeReports`, `NeverVanishes` | `ReportInv` |
| `BankAllocatorProofs!TypeCorrect`, `BuffersDisjoint`, `BuffersWithin` | `TypeOK`, `NoOverlap`, `WithinBank` | `BankInv` |
| `BankAllocatorProofs!BuffersAligned` | `OffsetsAligned` | `AlignInv` |
| `BankAllocatorProofs!LayoutComplete`, `DualLoads` | `OperandsPlaced`, `DualLoadSafe` | `LayoutInv`, `FreshInv` |
| `BankAllocatorProofs!SearchedBuffersSound`, `SearchedLayoutsSound` | the same five under `PlanSpec`, the search for a tile | `PlanInv` |
| `BankAllocatorProofs!ReturnedInL1`, `SearchedInL1` | `ReturnedFits`, alone and under `PlanSpec` | `BankInv`, `LayoutLive` |
| `BankAllocatorProofs!RefusedExactly` | `RefusedOnlyWhenFull`, for four banks | `RefuseInv` |
| `BankAllocatorProofs!BestTilePlaced` | `BestPlaced`, for the four banks of L1 | `RefuseInv`, `PlannedInv` |
| `BankAllocatorProofs!TwoAllocators` | `AllocatorsAgree`, for four banks | those two, `LayoutLive`, `SizesKept` |
| `BankAllocatorProofs!BestAlternatives` | `AlternativesRight`, for four banks | `RefuseInv`, `PlannedInv`, `FoundInv` |
| `ModuloSchedulerProofs!DependencesRespected`, `UnitsNotShared` | `DependencesHold`, `UnitsExclusive` | `SchedInv` |
| `ModuloSchedulerProofs!SchedulerTypeCorrect`, `WindowsStayOpen` | `TypeOK`, `WindowsOpen` | `WindowInv`, `StaleInv` |
| `ModuloSchedulerProofs!InstructionsIssuedEvenly` | `IssuedEvenly` | both |
| `WholeArrayProofs!TypesCorrect`, `ResultsRight` | `TypeOK`, `ResultRight` | `GemmInv` |
| `WholeArrayProofs!FreedDone`, `TwoInFlight` | `FreedTransfersDone`, `PingPong` | `GemmInv` |
| `WholeArrayProofs!LeavesArrayClean` | `ArrayClean` | `GemmInv` |
| `MicroKernelProofs!KernelTypes`, `KernelOperands` | `TypeOK`, `OperandsArrived` | `KernelInv` |
| `MicroKernelProofs!KernelSumOrder`, `KernelTileRight` | `SumOrder`, `TileRight` | `KernelInv` |

*Store.* `WholeUnlessOverlapped` is not inductive: it says nothing of a writer
that is still writing, nor of who else might change an inode it names.
`StoreInv` adds `CallShape` (which stages hold a path and a handle),
`HeldOnce` (an inode belongs to one path only, as its file, its `.tmp` file or
an open handle) and `PathInv` (for a path without overlap: one writer at most,
whose handle is the `.tmp` file, blank while it writes and its document once
closed; neither the file nor what a reader holds open is that `.tmp` file, and
both are whole). Each action of `MetadataStore` has a lemma in `StoreProofs`,
with frame lemmas for the paths it does not touch; the module needs nothing of
its clients. `PathDocs(x, D)` says that every document of the path x that is,
or may yet be, in its file or before a reader is in D; the lemmas about it
show that only the document a writer begins with has to be judged. It holds
with overlap too, where a file may be torn: a torn one reads as the empty
default. The clients' proofs put their own claims into D.

*Refinement.* `StoreClients` implements `AtomicStore` only with one writer for
each path (`OneWriter`); `StoreTorn` shows what happens otherwise. Under it
`SerialClients` holds: no write overlaps, and a file that `exists()` has found
is still there when it is opened. `replace()` is the put, the `open` of a
reader its get (the handle keeps the document of that moment); a failing dump
is the failed put; every other step, kills included, is a stutter.

*Registry.* `KeysUnique` and `ListedArtifactExists` speak of the file only,
but an entry goes through the memory of commands that may be killed, or
overtaken by another. `RegisterInv` therefore says of every document ever made
of the index that it lists copied artifacts only and each key once (`Indexes`,
by `PathDocs`), and of each command what it holds in each step (`CommandInv`).
`SerialInv` is about the time until two commands are updating the index at
once: the one that is has read what is there now, and will write all those
keys and its own. `ListedArtifactIntact` relates an entry to a file that
others may truncate. `IntactInv` says of each command (`FileInv`) that no file
it has opened is `sound`, and that while it is `alone` it finds there what it
has put; and of the index, whose other entries it must not bring back in an
older form, that what a command is about to publish is the index of that
moment without its key, and its own entry (`NewDoc`, which needs `SerialInv`).
A file counts as `Registered` from the moment in which the index is replaced,
before the command has ended. Nothing is asked of builds, nor of hashes:
sources may collide in their first characters and be hashes of other
artifacts.

*Recorder.* A summary may list a run only if its record is there and nobody
will write it again; since commands and kills come between the two files,
`RecordInv` says it of every document of the summary (`GoodEntries`, by
`PathDocs`), with `Settled` for an entry: no command that may still write the
record has this run. `CountInv` ties the passes that were timed, and those
made, to the place in the loop. `SerialInv` is as for the registry.
`BenchAssumption` asks the store's `Entry` to have an entry for each result a
command can have, so that recording is never refused for want of one.

*Device status.* `StatusFresh` compares what a command shows at its end with
what had been printed when it began. `ReportInv` follows both: until a path is
crossed its report is not older than what was printed of it (`printed`), a
maker that has not replaced the file has a newer number than the file, and a
status holds, in each step of each read, something not older than its floor.
`OnlyWholeReports` follows from `MakerInv`: a maker whose text holds bytes
never gets to a closed `.tmp` file.

*Allocator.* `NoOverlap` says nothing of the free offset at which the next
buffer begins. `BankInv` adds `Covered` (every buffer ends at or before the
free offset of its bank), the type invariant (free offsets stay within the
bank) and `RunningHasTodo`; a new buffer begins at the free offset and so
meets no other. `AlignInv` adds that the free offset is a multiple of whatever
all buffers below it were aligned to. `LayoutInv` says that each class is
allocated once, in its turn, and is placed, missed or still to come, and that
the second operands are judged together; `FreshInv`, that on empty banks each
class finds its preferred bank empty as long as it waits, so that A and B end
up apart, with the second A in bank 3 and the second B anywhere else. The
search resets and lays out on the same allocator: `PlanSteps` shows that each
of its steps is one of the allocator's, or leaves it alone, so that the
invariants carry over to `PlanSpec`. `RefuseInv` follows a tile through its
layout: how many requests are done says exactly what each bank holds. Its
theorem assumes `NumBanks = 4`, as in the code (`bank_allocator.py` numbers
them 0 to 3); a fifth bank would take any second B. `ReturnedFits` rests on
`LayoutLive`, that what a layout holds has not been freed: a class then takes
of a bank only bytes within it (`UsageWithin`), and the sum over the banks, a
recursive function, exists and is bounded by an induction from its least
counterexample (`SumsExist`, `LeastNatural`).

*Tile search.* `BestPlaced` is not about the order of the ranking: sides that
are multiples of 8 make sizes that need no rounding (`EightsRounded`; that is
the assumption `64 % Alignment = 0`, the code has 64), and among tiles that
fit in L1 twice, which here are the four banks and no more (`L1Bytes = 4 *
BankBytes`), not more than one operand can be larger than a bank
(`LargeOperand`). `AllocatorsAgree` compares a history of steps with a
function: `SizesKept` says that each buffer has the size of its operand,
`FreshInv` that it begins its preferred bank, and `ModelIs` that the three
calls of the other allocator find theirs empty too. Rounding does not matter
where banks are a multiple of the alignment (`RoundedFits`; 16384 and 64 in
the code). `AlternativesRight` needs the whole search: `FoundInv` says that
the list holds exactly the tiles before the present one that can be laid out
(by `RefuseInv`), each once (`CandidatesDiffer`: the three loops are the
digits of one counter), with its worth, which no conflict of A and B
diminishes (`DualLayout`). The order of the sorted list is a strict one
(`AheadOrder`); of such an order exactly the first so many have fewer before
them (`LeadingCount`), so that what is cut off is worth no more.

*Scheduler.* `SchedInv` joins `PlaceType` (the types of what placement reads
and writes, and that no edge goes from a node to itself), `DependencesHold`
and `UnitsExclusive`; the latter two need each other's types only, but a node
is placed between neighbours placed before and after it. `TryCycle` places a
node only where `DependencesMet` and `UnitFree` hold against all placed nodes,
in both directions; the lemma `TryCycleSound` carries this over, and a change
of the II empties the schedule; `FallbackSound` covers the serial schedule,
whose units are never shared because no two instructions have one cycle.
`WindowInv` says what the passes leave for each other: once the ASAP pass
changes nothing, every edge is respected by the earliest times
(`AsapSettled`), so that latest times computed from them are not before them;
and at the end every node has a cycle. `StaleInv` says that asap is, in all
phases and at all IIs, what the first II has given: at a larger II every edge
asks less (`StartsMonotone`), so that the pass finds nothing to raise.
`WindowBounds` puts the two together: asap is not after alap, so that only the
bound of two IIs can close a window. The passes take maxima and minima of
sets, which the module defines by CHOOSE: that they exist needs the sets to be
bounded (`LeastNatural`, by well-founded induction, `MaxOfBounded`,
`MinOfBounded`), which holds because a body is finite (`TableBounded`).
`IssuedEvenly` counts, for each instruction, the stages of ramp-up, kernel and
drain in which its bundle is issued: they are complementary intervals, and
units that are exclusive keep one instruction from being written over another.

*Array.* `ResultRight` says what is in host memory; why it is right is spread
over all the fifos on the way. What the host orders makes up streams, numbered
from 0 in each run (`AStream`, `BStream`, `CStream`); the tiles that pass in a
row of cores, in a column and out of a core are streams too (`RowStream`,
`ColStream`, `SumStream`). `GemmInv` says that each fifo holds a segment of
its stream (`AInv`, `BInv`, `CInv`), and where the segment begins: what has
passed a point is what was ordered without what is still before it, and of C
what was written and what lies between. For each core the two counts meet
(`CoreInv`): it has used as much of A as of B, `KSteps` tiles of each for
every tile of C it has released and k for the one it is adding up, which holds
exactly the first k products of what its stream of B has in these places. So
both tiles of a `MatMul` are of the same step of K (`TilesOfSum`), and the sum
written to a place is that of its column's tiles (`PlaceOf`, `ResultInv`). Up
to here a piece of a packed B may be anything; `MultipliedProducts` shows that
the tiles of the column are those of A x B if B is not packed or the pieces
fit (`PiecesFit`). `HostInv` adds that from the third step on, and when the
sequence has returned, the steps before are written. All counts are natural
numbers because a core never takes more than was ordered; hence, where no tile
of C is missing, nothing is left of A and B either (`DrainedWhenWritten`).
That is why the descriptors of a group may be freed although only its drains
were awaited, and why the next run begins as the first did (`StartRunStep`).
The rest is arithmetic of `%` and `\div`: `ATapsInOrder`, `BTapsInOrder` and
`CTapInOrder` show that the taps of a step are the next objects of the
streams, `ShimFacts` and `RowFacts` that the streams of A are shared out to
the rows once each. `SequenceAssumption` asks what the code asks or computes:
whole blocks and steps, and with `pre_pack` no more block rows than tiles of B
in a column (beyond that the list of taps ends and the design is not built).

*Micro kernels.* `TileRight` speaks of the end only, and relates three things
that the code computes apart: the order in which a DMA engine or the host puts
the elements of a tile, the addresses at which a kernel loads, and the order
in which the tile of C leaves. The first part of the proof has no state. An
element number written in the digits of the four sizes of a `dims_to_stream`
is a row, a place in it, a block and a place in that (`FourDigits`,
`OffsetOf`), so that `ABlockIs` and `BBlockIs` say which block has arrived at
which address, for each layout of B. Whatever block it is, `AOf` and `BOf`
name the one that is loaded for a row or column and a step of K, so that the
second part, about the loops, need not know whether kernel and layout agree,
nor whether the last step is one of the tile. There the products of a block of
C are numbered over all calls (`Product`), as many a call as the loop makes
steps, and `Sum` is the first so many. `KernelInv` says that an accumulator
holds the `Sum` of the calls before and of the steps it has got (`AccInv`;
with a pipelined loop one less than has been loaded, and `HeldInv` says which
are held), and that a block of C holds that up to this call if a pass has
stored it and up to the one before if not (`TileInv`). The passes cover the
tile once a call because the rows and columns of a pass divide those of the
tile (`PassesInOrder`), which is what the static_asserts say (`Fits`).

The third part says what these blocks are. `AIs`: the block of its row and
step, or, for the step after the last, the first of the next row. `BPlaceIs`
and `BIs`: the block of its step and column where kernel and layout agree.
From them follow `OperandsArrived`, `SumOrder` (by the numbering) and both
directions of `TileRight`. `DepartedIs` reads `DimsC` by its digits. Where all
agrees, the numbering is a bijection onto the products wanted (`WholeSum`,
`AgreedSum`). Where it does not (`OtherSum`), the first block is wrong: an
extra step adds more products than are wanted, and a layout that does not
agree gives its second product a block of B of another step or column. Nothing
is assumed but `KernelAssumption`: sizes are positive.

Only model-checked:

* liveness (`CommandsEnd`, `SchedulingEnds`, `Completes`), which the prover
  does not reach;
* what the four runs that expect a violation show.

## 6. Not modelled

* Argument parsing, printing and reports: no state. Floating point values, the
  transposition inside a block of B and the hardware below the fifos are
  abstracted from.
* `experiments/runner.py`, `experiments_lib`: formulas and tables; what would
  run raises NotImplementedError.
* `machine_model.py` beyond the allocator and the issue slots: counters and
  tables that no other module calls.
* `kernel_generator.py`: the IRON design it writes (`generate_iron_design`,
  and its output `generated_gemm_iron.py`), which fills whole tensors and
  finishes no group; the inner loops nothing calls; the estimate.
* Experiments 8 and 9: section 4 says why their sequences cannot complete or
  add up; a property of theirs would say that and nothing else.
* `xaie_gemm_generator.py`: writes a stream for part of C only (section 4)
  with buffer descriptors that it reuses without waiting.
* Experiments 1 to 6, kernel definitions, `validate.py`: straight scripts.

`PROJECT.json` gives the state of each part.

## 7. Plan

Done, in this order: MetadataStore with its clients, its abstract
specification and its proof; KernelRegistry and BenchmarkRecorder on it;
BankAllocator and ModuloScheduler with their proofs; GemmArray and WholeArray;
MicroKernel; DeviceStatus; TilePlanner; GeneratedKernel; InstrStream; the
serial fallback of the scheduler and the design of experiment 7.

After them the proofs of section 5: all safety properties of the store and its
three users, the refinement of `AtomicStore`, the scheduler, the allocator
alone and under the search, the array of cores, the kernels of one core, the
tile search.

Next would be what section 6 leaves out that has state: the patching of a
parsed instruction buffer and the stream of `xaie_gemm_generator.py`.
