# aria-t4: a verification project

TLA+ models of `tworker`, the stratum miner of this repository, with the TLC
configurations that check them and the TLAPS proofs about them. Paths below are those of
the repository; `src/src/stratum.rs` in `PROJECT.json` is `src/stratum.rs` here.

## 1. The system

`tworker` connects to a Pearl pool, receives jobs, searches matrix products for tiles
whose hash beats a bound, and submits proofs. Three kinds of process share its state:

```
   pool / relay                                    CUDA device (gpu build)
       | lines                                          ^  grind2
       v                                                |
  session task  -- job_tx (broadcast, 64) -->  main loop          search threads
  stratum.rs    <------- submit_tx (mpsc, 256, try_send) -------  spawn_grind
                                               |  job_slot (Arc<Mutex>), stop  ^
                                               +-------------------------------+
```

| component | state it keeps | operations | what makes it correct |
|---|---|---|---|
| **Session task** `src/stratum.rs`, `src/protocol.rs` | round (user / dev), its deadline, backoff; per session: request id, pending map, current job | connect (TCP, wss relay), drain, handshake of three dialects, `select!` over line / share / deadline, sleep | answers are matched to their requests; a share goes to the wallet and the job it belongs to; what is stale is dropped; a lost connection is left and re-opened |
| **Main loop** `src/bin/tworker.rs` | params, difficulty, slot, generation of threads, grid in the environment | one branch per event, lag, closed channel, signals, `autotune_grid`, `retire` | the newest job and difficulty are what is searched for; one generation at a time; a signal ends the process with threads joined |
| **Search threads, CPU** `spawn_grind` | the slot read for this attempt | attempt, hit, stop | every thread gets to the current job |
| **Search thread, GPU** `spawn_grind` (feature `gpu`), `src/gpu_ffi.rs` | cached key and bound, seed of the resident B, seed of the prefetched setup, context | refresh, new context, `grind2`, assemble, verify locally, submit | host and device agree on which A and B a hit belongs to |
| **Resident context** `cuda/pearl_resident_lib.cu` | device buffers, two slots, `pend_valid`, `last_jk`, streams and events | `resident_run`, `resident_run2`, batch pipeline | no kernel reads what another is writing; every setup gives the output it gives alone |
| **Bounds and grid** `src/stratum_to_official.rs`, `src/cpu_engine.rs`, `src/protocol.rs` | none | targets, bounds, `fit_dim` | exact arithmetic at the edges |
| **Merkle trees, proofs** `cuda/merkle_simple.cuh`, `cuda/pearl_gpu_proof_lib.cu`, `src/official_grind.rs` | tree scratch | build, collect siblings | every proof verifies, for every tree shape |
| **GPU host paths** `src/gpu_ffi.rs`, `src/official_grind.rs`, `spawn_grind` | contexts, proof contexts and the dimensions they were made for | the attempts on the GPU, five ways of rebuilding a proof from a hit | every hit of the declared shape becomes a proof that the pool accepts; no buffer is outgrown |
| **Kernel selection** `src/bin/tworker.rs`, `src/official_grind.rs`, `cuda/pearl_resident_lib.cu` | environment variables | defaults, declared tile, dispatch | the tile declared is the tile searched |
| **CPU grinder** `src/official_grind.rs` | the workspace of a thread | `try_mine_one_bounded`: commit, noise, sweep, proof | a proof of a tile that meets the bound, whenever there is one |
| **Micro-kernels and noise** `src/microkernel.rs`, `src/vnni.rs`, `src/pearl_compute.rs`, `src/fast_noise.rs` | none that lasts | packing, dot products, tiles, shuffled noise | the words of the reference, for every shape |
| **CPU engine** `src/cpu_engine.rs` | the adopted job, the position in the sweep, `local`, `attempts_ctr` | `grind_thread` | every pair of groups once; stop is honoured soon; hits are of the adopted job |
| CUDA GEMM kernels, first-generation format (`gemm.rs`, `merkle.rs`, `proof.rs`) | none that lasts | arithmetic | not modelled |
| Telemetry, duty shaping, probes, packaging | counters, delays | display | nothing depends on them |

**Hard behaviours.** The pool's lines, the shares and the deadline reach the session
task in any order, over a connection that can close, reset or go silent at any step.
Sessions follow each other and share the two channels, which overflow. The main loop
looks at no event while it tunes (25 s per candidate). Threads read the slot once per
attempt. Host and device remember job key, B and prefetched prologue independently of
each other. Three CUDA streams touch shared buffers, ordered by events only. The same
jackpot is computed by eight routines and the same proof rebuilt in nine ways, which a
pool tells apart from the reference only by rejecting shares.
`PROJECT.json` lists each hazard at its line, with the properties aimed at it.

## 2. Modules

| module | models | composed with |
|---|---|---|
| `Channels` | the two tokio channels (external) | all below |
| `PoolSession` | abstract specification: what the session task promises the rest of the miner | refined by `Stratum`, environment of `Tworker` |
| `Stratum` | `run`, `run_session`, `handle_notification`, `handle_response`, pool and network as environment | `INSTANCE PoolSession` |
| `StratumProofs` | its theorems | |
| `Tworker` | main loop, tuning, generations of threads, CPU search loop | `PoolSession` actions as environment |
| `TworkerProofs` | its theorems | |
| `GpuWorker` | the search thread of the gpu build, one step per `grind2` | |
| `GpuWorkerProofs` | its theorems | |
| `OverlapPipeline` | the inside of `resident_run2`: streams, events, kernels, buffers | |
| `OverlapProofs` | its theorems | |
| `Input` | the record of a function and its arguments, one state of `Algorithms` | extended by what is checked input by input |
| `Bounds` | targets, bounds, `fit_dim` | `Tiles`, `Algorithms` |
| `Ascending` | a set in ascending order, as a `BTreeSet` is walked | `Tiles`, `MerkleProof` |
| `Tiles` | `PeriodicPattern` (external), `threads_partition` | extends `Bounds` |
| `MerkleProof` | the device's trees, the sibling walk, the pool's multileaf check (external) | `Buffers` |
| `Buffers` | the CPU thread's `Workspace`, the GPU thread's proof contexts | extends `Tiles`, `MerkleProof` |
| `GrindProofs` | theorems about bounds, tiles, buffers, trees and the choice of kernel; induction and recursion over numbers, and division, for the proofs that extend it | |
| `Lanes` | the widths of vectors and tiles | extended by `Jackpot`, `Buffers`, `CpuEngine` |
| `Jackpot` | words, exclusive or, the reference jackpot and every variant of it: flat, VNNI, register-blocked | extended by `FastNoise` |
| `FastNoise` | the shuffled noise, its fallback and the reference (external) | extends `Jackpot` |
| `OfficialGrind` | one attempt of the CPU miner, the pool's verifier (external) | extends `FastNoise`, `Buffers` |
| `KernelProofs` | theorems about jackpots and noise | extends `FastNoise`, `GrindProofs` |
| `GpuGrind` | `gpu_ffi` calls, GPU attempts, proofs rebuilt from hits; the device is external | extends `OfficialGrind` |
| `AttemptProofs` | theorems about attempts on CPU and GPU | extends `GpuGrind`, `KernelProofs` |
| `KernelChoice` | what the environment makes the miner declare and the CUDA library launch | `Algorithms` |
| `CpuEngine` | a thread of `grind_thread` as a state machine | `Algorithms` |
| `CpuEngineProofs` | its theorems | |
| `MC*`, `Algorithms` | instances for TLC; `Algorithms` has the inputs that the arithmetic is run on | |

**State and code.** Variables carry the code's names. In `Stratum`, `pc` is the `await`
the task is suspended at, and each `select!` branch is one action: between its wake-up
and the next turn of the loop the task awaits nothing but its own write. To a peer that
reads, that write takes no time; to one that has silently gone it may wait, its
buffers full (`SubmitBlocks`), and then the task is at `writing`, where it selects nothing, until
the kernel gives the connection up (`BlockedWriteFails`). `queued_in`, and `round` in a
request, are history: the round in which a share was queued. `link`, `wire`,
`unanswered` and `poolJob` are the environment's.
In `Tworker`, `mpc` is the position of the main loop, `job_slot[g]`, `stop[g]` and
`thread[g]` belong to generation `g` (candidates 1.. of the tuning, and the last one,
which mines); `outcome` is its only history variable: what became of the newest
announcement and whether the last build succeeded. In `GpuWorker` the variables of the
second group are fields of the C++ context (`jk_set` and the key together are
`last_jk`); a seed is a model value, and a matrix is the pair of the seed it was
generated from and the key it was committed under. In `OverlapPipeline` a launch appends
to a stream's queue, a kernel is under way between its start and its end, and buffers
carry tags of origin. In the arithmetic modules matrices are functions from 0, a SIMD
register is the set of its lanes, and a loop over lanes or blocks is a function over
them. BLAKE3 is a constant operator, `Blake3(key, data)`; in the run it is `MCBlake3`, a
number that depends on the key and on every byte in its place. In
`CpuEngine`, `pc` is the loop the thread is in, and a look at the stop flag is part of
the step before it. Adopting the job and making its matrices are two steps, and the slot may
move on between them and after; `a_seed` is the key that the seeds were derived with when the
matrices were made, and a hit carries it beside what it takes from the job. Elsewhere
hashes, wording, statistics and sleeps are left out throughout.

`Name_Suffix` definitions marked "Mutated form" are bugs planted for the mutation runs:
replacing `Name` by `Name_Suffix` must break the property `PROJECT.json` pairs it with.
They are not part of any specification.

## 3. Runs

| run | states | question and answer |
|---|---|---|
| `Stratum_safety` | 1.26 M | Over the wss relay, two jobs, one-place channels, every kind of connection loss: are answers correlated, is no request and no queued share carried over from one wallet's round into the other's, is staleness judged by this session's job, and is `PoolSession` implemented? Yes. |
| `Stratum_live` | 99 k | Over plain TCP with fair scheduling: is a silently lost connection left, and are both rounds served again and again once the network behaves? Yes, because the round's deadline is a `select!` branch of its own, and a write that waits for a peer that has gone fails in the end. |
| `Tworker_main` | 888 k | Pearl dialect, params that do not build, vardiff, a channel of two: does the slot follow the newest job and difficulty? Yes, up to events that were forgotten or refused. |
| `Tworker_tune` | 70 k | Tuning first, two threads, signals at any time: one generation at a time, a signal always ends the process, every thread gets to the job. |
| `GpuWorker_main` | 3.7 k | fix-B and overlap, ids, keys and bounds that change independently: host and device agree; a hit that is filtered is one of an id announced again with other contents. |
| `Overlap_main` | 24 k | Five calls, the key changing at will, every interleaving of the streams: no kernels collide except on the permutation scratch (and on a rewrite of B's noise seed by its own value), what is ground belongs to its setup, calls return. |
| `Algorithms` | 18.7 k | One state per input: targets, bounds, dimensions and trees against reference definitions; every jackpot routine against the reference (`KernelsAgree`) and the noise against the verifier's (`NoiseAgrees`); tiles share out a dimension (`TilesPartition`); whole attempts on the CPU (`AttemptVerifies`) and from the GPU's hits, by each of the nine ways (`HitsVerify`), against the pool's verification; buffers kept across jobs (`WorkspaceFits`, `ProofBuffersFit`); every setting of the environment on every device (`PatternTracksKernel`). And the behaviours of a CPU engine thread, the slot and the stop flag changing at any time (`SweepOnce`, `StopIsHonoured`, `HitIsOfItsJob`). All hold. |
| `Stratum_devfee` | violation | A share is submitted with the dev wallet, against README.md:9 ("0% dev-fee"). |
| `Stratum_wss` | violation | A peer that goes silent during the upgrade hangs the task for ever: `connect_async` has no timeout and the deadline is not awaited there. README.md:17 promises reconnection. |
| `Tworker_autotune` | violation | A candidate's thread submits a share, in the wrong encoding for HeroMiners; tworker.rs:699 says autotune never submits. |
| `GpuWorker_vardiff` | violation | A new difficulty for the live job keeps its id, so the GPU thread keeps the cached bound; tworker.rs:1098 says vardiff applies immediately. |
| `Overlap_scratch` | violation | The first prefetched prologue of a key races the cold one on `d_faA`/`d_saA`; pearl_resident_lib.cu:395 says one prologue in flight at a time. |

**Bounds, and why they are enough.** Jobs and shares: two ids are the least with which a
job can be replaced, and announced again. Channels of one or two places overflow after
one or two events, which 64 and 256 would do much later in the same way. `MaxId` = 3
covers the handshake and at least one share of a session, and since every session
restarts the ids, longer sessions repeat that; `MaxWire` = 2 lets an announcement and an
answer be under way in either order. `MaxBackoff` only scales a delay that no property
measures. One candidate exercises the same loop as five; `Tworker_tune` has two threads
so that one can lag behind the other. `Overlap_main`: a slot is reused at every second
call, so five calls reuse each slot twice, and let the key change in between.
`Algorithms` replaces bytes by digits to the base 3 and 32 of them by 4: carries,
saturation and the overflow test do not depend on either number; trees of up to nine
leaves include powers of two, odd layers at every height, and a lone node carried up
three times; their nodes are also counted for 129, 1023 and 1024. Bytes have 4 bits, words 9, so that sums of products wrap; a dword has 2
bytes, a vector register 4 or 2 lanes: enough for groups, tails and an odd dword, which
is what the unrolled loops and the packings distinguish. The noise registers hold 2
bytes each, so ranks 4 (shuffled) and 2 (fallback) both occur, as do rows with a tail.
Leaves have 4 bytes, so that rows of 8 span several and rows of 2 share one. Panels of
5 and 256 tiles, grids with and without a rest after the quads, and `CheckEvery` = 4
(128) let every loop of the sweeps end in each of its ways. `MaxSetups` = 2 lets a job
be replaced between setups. Bounds that are not in the code are named in the constants' comments.

Deadlock is checked except in `Stratum_safety` and `Stratum_wss` (over the relay the
task really can hang, the finding above) and in the `GpuWorker` runs (the thread
returns).

**Fairness.** `Stratum`: tokio polls a ready branch sooner or later, the kernel reports
a broken connection and gives up on data that no one acknowledges, sleeps end and the clock
reaches the deadline. Nothing is assumed
of the pool, of the network or of the rate of shares; `RecoversAndAlternates` has the
network's good behaviour as its hypothesis. `Tworker`: the runtime polls the main task,
whose `select!` picks a ready branch at random and therefore takes an enabled signal
branch eventually, and the operating system runs every thread. An attempt ends.
`OverlapPipeline`: the calling thread runs and the device gets round to every stream. No
fairness is strong.

**What the runs leave open**, noted while reading:

* A share is known by its job id only. `OneWalletPerConnection` speaks of the round in which it
  was queued; one that was found in the user's round and is queued after the drain
  (stratum.rs:260) is submitted in the dev's when that session has no job yet, or has one of
  the same id. That the dev's wallet submits at all is the finding of `Stratum_devfee`.
* The share branch awaits its write (stratum.rs:357). A peer that acknowledges and never reads
  would hold the task there, past its deadline, for as long as it likes. The model's peers
  read or have gone.
* A job that comes before the params, or cannot be built, is dropped (tworker.rs:1118, :1162).
  `SlotFollowsPool` and `SlotHasDifficulty` except what was refused, for slot and pool do
  disagree then; they say that the next job that can be built sets both right.
* An exponent of nbits from 33 to 35 makes `decode_nbits` panic (protocol.rs:170). The panic is an
  action of `Stratum`; that it does not happen is no property, because it can.
* The comment at cpu_engine.rs:147 has a hit's `job_id` be "the job live at the moment of the hit
  (workers adopt new jobs mid-run)"; the one at :194 has the sweep finish against the job adopted.
  The code does what the second says, and so does `HitIsOfItsJob`: with the first, a hit would
  name a job whose key is not in its matrices, which is what the mutated `Column_Readopts` makes.
* `spawn_grind` allows ceil(k/1024) leaves for a row (tworker.rs:581); a row of k bytes
  can touch one more when k is no multiple of 1024 (k = 4032), and `gather` then panics.
  The depths in `ProofBuffersFit`, and in the theorem about it (`AlignedJobs`), are those
  that rows and leaves line up with.
* `build_tree` and `pearl_proof_create` set aside 2n + 8 nodes for a tree of n leaves
  (gpu_ffi.rs:389, pearl_gpu_proof_lib.cu:162), and the struct's comment says that there are
  at most 2n (:136). A tree has one node more for every odd layer: 11 for 5 leaves, and
  2059 for 1025, one more than 2n + 8. Doubling the leaves changes nothing, so what fits
  for n fits for n times a power of two. `LayersFit` says just this: up to 1024 leaves all
  trees fit, and the default grids (2048 to 16384, 65536, 131072 rows of a depth that is a
  power of two) have such a number times a power of two. A batch of 65600 rows of 4096
  bytes (1025 times 256 leaves) is one node too large.
* `try_mine_one_bounded` guards its fast path by k % 4, not rank % 4
  (official_grind.rs:329); ranks here are multiples of a dword. `tile_jackpot_flat` has
  room for 256 cells (:254).
* `LuckyPool` declares rank 256 (tworker.rs:90), while main sets `ARIA_RANK` to 128 and
  the kernel folds by that. With `ARIA_TMA_MS` set it declares the pattern of the other
  kernel (`LuckyPoolMayDiffer`). `canonical_gpu_config` differs from the dispatch on
  Hopper when neither WGMMA variable is set (`CanonicalMayDiffer`). For HeroMiners,
  `Contradictory` names all the settings that pull the two apart, and the property says
  that there are no others.
* `grind_thread` takes k and r from the first job only (cpu_engine.rs:171).
* `set_difficulty` rebuilds the live job with the params of now, although tworker.rs:1101
  says that header and config are reused. No run has it: under the constants of
  `Tworker_main`, with params that all build, TLC refutes `VardiffKeepsConfig` by params and
  a difficulty that are announced between two jobs.

## 4. Proofs

TLAPS checks `StratumProofs`, `TworkerProofs`, `GpuWorkerProofs`, `OverlapProofs`,
`CpuEngineProofs`, `GrindProofs`, `KernelProofs` and `AttemptProofs`, for every value of the
constants that meets the named assumptions (in the modules that declare the constants; TLC
evaluates them on every run).

*Session task.* Neither the types nor the safety invariants are inductive as they stand.
`TypeInv` adds to `TypeOK` that the handshake stays within its requests and that their
ids are their positions. `SessionInv` has five parts: `InFlightOK`, every request the
pool holds or has answered has its entry in the map, an id below `next_id`, this
round's wallet and was queued in this round, and no two share an id; `QueuedThisRound`, while
there is a connection every share that waits was queued in this round, which the drain at its
beginning sees to; `AnsweredOnce`, no answer under way is for a
request the pool still holds, or for one answered twice; `NothingLeftOver`, without a
connection the wire and the pool's memory are empty, which is why a session can start
its ids at 1; `LastAnnouncement`, the last announcement under way, or else
`current_job_id`, is the pool's job. Each action has a step. From the invariant follow
`StratumTypeCorrect`, `StratumCorrelates`, `StratumOneWallet`, `StratumTracksPool`, the
action property `StratumStaleOnlyUnderWay`, and `StratumImplementsPoolSession`: under
the refinement mapping at the end of `Stratum`, every step of the task and its
environment is a step of `PoolSession` or a stutter. So what `Tworker` is checked
against really is what the task does, for any channel capacity, dialect and transport.

*Main loop.* `PhaseInv` says where the main loop and the threads may be at the same
time: a generation has busy threads only while the main loop measures it, waits for it
to end or, the last one, mines; from it follows `TworkerOneGeneration`, for any number of
candidates and threads. `NewestInv` follows the newest announcement: while it is queued,
the last announcement in the channel is the pool's, and once it is taken, the job held -
by the tuning, or in the slot - is. The channel may forget it and the loop refuse it, and
nothing else can come between: `TworkerSlotFollowsPool`, for channels of any capacity.
`SlotHasDifficulty` is inductive with these two (`TworkerSlotHasDifficulty`).
`TworkerImplementsClient`: every step of main loop and threads is one that `PoolSession`
allows its clients, or a stutter. With `StratumImplementsPoolSession` both sides of the
channels are shown against the one specification they share.

*Overlap.* A stream always holds the rest of what was last launched on it, so the
position of the three streams says which events have fired and what the buffers hold.
There are two shapes: after a cold launch (`ColdAt`) all three work; after a hot one
(`HotInv`) sB is idle and either sA still waits for the prefetched prologue
(`HotWaits`), with the next one queued behind it on sP, or the two slots have changed
roles (`HotGrinds`). Each step of a stream advances one position. When the key is copied while sP
still works (`KeyKept` fails), what sP makes is under no one key, but the call that
follows is cold: it waits for the device and throws the prefetched setup away. From
the invariant follow `OverlapTypeCorrect`, `OverlapSlotsExclusive`,
`OverlapGrindsItsSetup` and `OverlapNoiseSettles`, for any number of calls and keys.

*GPU thread.* `BInSync` speaks of the moment before a call. The inductive `SyncInv` says
what survives from call to call: a call leaves the context on the cached key, so a key
that changes afterwards is one the context has not seen; B and the thread's seed for it
agree, or the thread has none; a prefetched prologue is for the context's key and its B.
`HitInv` follows for the attempt just made: what the device multiplied is what the proof
will be built from. From them `GpuTypeCorrect`, `GpuBInSync`, `GpuContextFits`,
`GpuPrefetchIsCurrent` and `GpuNoHitWasted` - with or without fix-B and overlap, for any
set of jobs. The last one says what the local verifier's filter can still throw away:
hits of a job id announced again with another header or bound.

*CPU engine.* The sweep is in order, so `PlaceInv` and `SweptInv` compare what has been
hashed with what lies before the position (`Before`): never more, and not less unless the
thread is being stopped. The end of a panel is the beginning of the next
(`BeforePanel`), whatever is left over, and from that follows `EngineSweepOnce`, for any
batches, panels, shapes of tile and processors. `LateInv` bounds what is hashed after the
flag by a quad and the remainder of the row group's number, which is 0 again where the
last loop looks: `EngineStopIsHonoured`. `SeedInv` ties what was drawn to what is held: from
the making of the matrices to the end of their sweep, the key in the seeds is that of the job
adopted, wherever the slot has moved. From it
follows `EngineHitIsOfItsJob`. `EngineAssumption` asks that a batch holds at least one group each
way and that panels are not empty, which `ARIA_PANEL_RG`'s filter sees to.

*Induction.* What a fold, a power, a list of layers or a loop with a carry computes is
proved by induction over numbers. The library's induction theorems take an operator, which
the provers cannot instantiate, so `GrindProofs` starts from their set form:
`LeastNatural` (a set of naturals that is not empty has a least member, from well-founded
induction), `Induction` and `InductionTo` for sets, and `Recursion` and `RecursionOnNat`,
that a recursive function defined by CHOOSE exists and meets its equation. Each property of
a loop is then the set of the steps at which it holds, shown to contain 0 and to be closed
under the step. The same part has what the provers do not know of `\div` and `%`
(`Division`, `DivideTwice`, `DivideByProduct`).

*Bounds* (`GrindProofs`), for every `Base`, `Width` (`WidthAssumption`), difficulty, factor and grid.
`BigEndianIs` and `WeightIs` give the recursions of an array's number; `FirstDifference`,
that two arrays with the same leading digits are ordered by the first that differs, gives
`LeLeqIsNumeric`: comparing bytes is comparing numbers. The invariant of the long division
(`ShareTargetIs`) is that the digits written times d, plus the remainder, are the largest
number of as many digits; that of the carry (`ScaledBoundIs`), that the digits written and
the carry are the product so far. With `BoundSaturates` follows `BoundAlwaysExact`.
`NbitsAlwaysDecoded` follows the mantissa's three digits through the places they are
written to (`WrittenIs`). `FitDimAlwaysLeast` needs no induction, only `CeilDivIsLeast` and
`SmallestValidIsLeast`.

*Tiles and buffers* (`GrindProofs`). `SortedIs`: the i-th of a finite set is the one with
i - 1 below it, for every finite set of numbers. `TilesAlwaysPartition` goes by the
dimensions of a pattern (`SharesOn`): what the first dimensions span shares out each
period of theirs, and a dimension that repeats it by a multiple of that period shares out
its own. It holds for `NestedPatterns`, any number of dimensions each a multiple of what
the ones before span, as `PeriodicPattern` demands; TLC checks that the patterns of the code
are such (`PatternsAreNested`). `WorkspaceAlwaysFits`: over any sequence of jobs a buffer
only grows (`EnsureEnough`), and the tiles of a dimension that is a multiple of its period
(`FittingJobs`, the assertion of `threads_partition`) are in it and are as many as fit in
the order of tiles (`TilesCount`). `LeavesAlwaysFit`: for any sequence of `AlignedJobs` - a
whole number of leaves, as `pearl_proof_build_tree` demands, and rows that leaves line up
with - a row touches `LeavesPerRow` leaves (`RowLeaves`), and a context kept has the depth
of the job (`HasRoom`). `PatternAlwaysTracksKernel` is a case analysis over the
variables, for every rank and every major version of the device.

*Trees* (`GrindProofs`). Layer after layer has half the nodes, rounded up, so within n
layers the root is reached (`BuiltSizes`, `RootReached`), and the nodes are as many as
`msimple_layers_words` sums up (`NodesAre`): `LayersAlwaysFit`, and with `LeavesAlwaysFit`
`ProofBuffersAlwaysFit`. That a tree of up to 1024 leaves has at most 2n + 8 nodes is by
halving: a bound for layers of up to m nodes is, with one node more, one for layers of up to
2m (`WithinTwice`), nine times from 2. For `ProofsAlwaysVerify` the invariant of the
verifier's walk is `Known`: at level l it knows exactly the nodes of layer l above the
leaves shown, with the values that were built, and has used as many siblings as the miner
collected below. A step keeps it (`ClimbIs`) because a node it knows needs a sibling exactly
when the miner's walk asks for one (`ValueIs`), in the same ascending order, and because
the flattened list has the siblings of a level where those of the levels below end
(`FlattenIs`). It holds for every number of leaves and every nonempty set of them.

*Jackpots* (`KernelProofs`). A sum, an exclusive or and a walk over blocks are recursive
functions; each is the last of its prefixes (`SumHasPrefixes`, `XorOfHasPrefixes`, `WalkIs`),
and of prefixes there is one sequence, so what two of them compute is compared step by step.
The exclusive or is built bit after bit, of words of any width: words with the same leading
bits are equal (`SameBits`), a bit of the result is the sum of the two without carry
(`XorBits`), and with that it commutes and associates, and the cells can be reduced in
vectors of any number of lanes (`XorReduceIs`). So a kernel makes the jackpot of the
reference if it adds up the same products in every block (`JackpotOfProducts`): the sums are
what remains to show. `DotVnniIs` takes the bias of the unsigned bytes off over whole vectors
and a scalar rest; `PackedColumn` says that a lane finds, dword by dword, the bytes of its
column; `AccumulateAll` and `AccumulateSplit`, that one accumulator or two take every dword
once, an odd number of them too; `GroupOf` and `CellOf`, which rows and columns a cell of a
tile names. `KernelsAlwaysAgree` is for bytes, words, vectors, messages and rotations of any
size, any rows and columns of whole dwords whose signal and noise add up to bytes
(`KernelInput`). `NoiseAlwaysAgrees` follows a column's two indices through the bytes they
are kept in: they are below the rank (`PermutationIs`), which is twice a register when the
noise is shuffled, so the low bits select what the index meant (`Permute2Is`), and what is
subtracted has too few bits to be cut off.

*Attempts* (`AttemptProofs`). `PrologueIs`: both sides know the same key, seeds and matrices,
noised as the verifier will. A pair of tiles is good if its words, hashed, meet the bound;
`VerifiesIs` says that the proof made of it verifies exactly then: its rows are among the
leaves shown and padding comes after them (`ShownAre`), its configuration is rebuilt from the
indices (`ShownIs`), its key, seeds and noise are those of the attempt (`SeedsAre`,
`ShownAddUp`). What is left is that an attempt sweeps: every pair of tiles, each with its own
words (`AttemptSweeps`). For the fallback that is counting (`NumberIs`); for the fast path the
panels hold every tile (`PanelHolds`, `SweepIs`), the rows and columns rearranged for the
micro-kernels are those of the tiles (`TiledAre`), and the words of a visit - one of four, one
of the up to three left over - are those of its own pair (`VisitMsgIs`). Then
`AttemptAlwaysVerifies`: the proof verifies, or no pair of tiles does. On the GPU a hit comes
as lanes, which give the tile back once sorted if it ascends and has no more cells than lanes
(`LanesAre`); what is stored is a part of what meets the bound, in either order (`CallFits`). The
hits of the shape declared are then good pairs of tiles (`FirstIsChosen`,
`OfSizeAreChosen`). Each of the nine ways makes of such a hit the proof that `MakeProof`
would - the host draws from the seed the matrices of the device (`SeedsMakeIt`), and what the
device gathers is what is in the matrix, where trees have whole leaves (`DeviceProofIs`) - so
`HitsAlwaysVerify`.

*Hypotheses of the last four.* They are about one input, and say what it may be:
`KernelInput`, `NoiseInput`, `AttemptInput`, `HitInput`. `InputsAreInputs` has TLC check that
all inputs of the run are such. Three clauses are more than types. The fast path is for ranks
of whole dwords, which the code guards by k only (section 3). A kernel folds by the patterns
declared or has a tile of another size: of another pattern of the same size the host could
not tell, and `PatternAlwaysTracksKernel` is the theorem about that. And
`build_proofs_from_setup_gpu`, which asks for tiles of 2 rows and `TileWidth` columns, is not
called for other configurations unless the kernel is theirs. `DigestIsNumber`, a hypothesis
too, quantifies over every key and datum, so TLC cannot evaluate it as an assumption; no other
property of a digest is used - in particular not that it has no collisions.

*Only model-checked.* Liveness (`SilentLossIsLeft`, `RecoversAndAlternates`,
`ShutdownCompletes`, `EveryThreadSwaps`, `CallReturns`): it rests on fairness and
ENABLED, which the prover does not handle. Every other property of a passing run is stated
by a theorem.

## 5. Not modelled, and why

* CUDA kernels (tensor-core products, device trees and noise as launches): the host sees
  hits and trees, which `GpuGrind` states; `OverlapPipeline` has their order.
* The batch pipeline `ResidentCtx2`: used by benches and probes only.
* `gemm.rs`, `merkle.rs`, `proof.rs`: an earlier protocol that the miner no longer calls.
* Serialisation (`official_proof.rs`: bincode, gzip, base64): no property is about it;
  `Tworker` has which encoding is chosen.
* Duty cycle, bursts, random pauses, telemetry, process title: they delay or display.
* Probes, benches, older miners, kernel variants behind build flags, packaging.
* Sticky CUDA errors: a failed launch is a call that finds nothing; that the device then
  fails for ever is outside of the code.

## 6. Plan

Done: the session task with its abstract specification and proofs; main loop and
threads; GPU thread and proofs; overlap; the arithmetic from the commitment to the
pool's verification, on CPU and GPU; kernel selection; the CPU engine; the proofs of the
five state machines, of the bounds, of tiles and buffers, of the trees, of the jackpots and
the noise, and of the attempts.

1. Model: `BatchPipeline` (slot reuse, collection order and `max_out` of
   `ResidentCtx2`); `SearchThread`, an abstract search thread that `GpuWorker`,
   `CpuEngine` and the CPU loop all implement.
2. Prove: that each search thread implements `SearchThread`, once that is stated.
