----------------------------- MODULE Algorithms -----------------------------
(***************************************************************************)
(* The algorithms of the miner, compared with what they are for on every   *)
(* input of a bounded set, one state per input: Bounds, MerkleProof,       *)
(* Jackpot, FastNoise, OfficialGrind, GpuGrind and KernelChoice.  And,     *)
(* beside them, the behaviours of a thread of CpuEngine.                   *)
(***************************************************************************)
EXTENDS Bounds, GpuGrind, KernelChoice, CpuEngine

CONSTANTS
  MaxFactor,
  MaxDim,       \* bound: targets, periods and indices of fit_dim
  MaxLeaves

(* Jobs of the CPU engine: one that its micro-kernels are made for, one    *)
(* that they are not; grids with panels of more and fewer than 4 groups.   *)
MCJobSpecs ==
  {[job_id |-> "wide", h |-> 2, w |-> TileWidth, job_key |-> "key 1", target |-> 1, share_target |-> 2],
   [job_id |-> "narrow", h |-> 1, w |-> 12, job_key |-> "key 2", target |-> 0, share_target |-> 1]}

MCGrids ==
  {[m_batch |-> 14, n_batch |-> 32, panel_rg |-> 6, cpu |-> "avx512"],
   [m_batch |-> 14, n_batch |-> 32, panel_rg |-> 12, cpu |-> "scalar"],
   [m_batch |-> 21, n_batch |-> 20, panel_rg |-> 12, cpu |-> "avxvnni"],
   [m_batch |-> 12, n_batch |-> 18, panel_rg |-> 12, cpu |-> "avx512"]}

-----------------------------------------------------------------------------
(* Configurations: tiles that the fast path is for, and smaller ones. *)
Two   == [rows |-> << <<2, 2>> >>, cols |-> << <<1, TileWidth>> >>]
Small == [rows |-> << <<1, 2>>, <<4, 2>> >>, cols |-> << <<1, 2>>, <<4, 2>> >>]
Frag  == [rows |-> << <<1, 2>>, <<4, 2>> >>, cols |-> << <<1, 2>>, <<4, 4>> >>]

Header   == 9
Patterns == {Two.rows, Two.cols, Small.cols, Frag.cols}

(* Every byte of the data, in its place, and the key go into the digest.   *)
Prime == 65521

RECURSIVE Mix(_, _, _, _)
Mix(key, data, from, len) ==
  IF len = 0 THEN key % Prime
  ELSE IF len = 1 THEN (((key * 31 + data[from] + 2 * Half + 7) % Prime) * 1021) % Prime
  ELSE LET half == len \div 2
       IN (Mix(key, data, from, half) * 33 + Mix(key, data, from + half, len - half) * 1021 + len) % Prime

MCBlake3(key, data) ==
  Mix(key, data, IF 0 \in DOMAIN data THEN 0 ELSE 1, Cardinality(DOMAIN data))

(* The patterns that the code declares, and all of up to two dimensions    *)
(* below a bound: a dimension repeats what the ones before it span.        *)
DeclaredPatterns ==
  {<< <<8, 2>>, <<32, 4>> >>, << <<1, 2>>, <<16, 8>> >>, << <<1, 2>>, <<32, 8>> >>, << <<1, 16>> >>,
   << <<8, 2>> >>, << <<1, 2>>, <<8, 32>> >>, << <<32, 2>> >>, << <<1, 64>> >>}
SmallPatterns ==
  LET first == {<<s, l>> : s \in 1..3, l \in 1..3} IN
  {<<d>> : d \in first}
    \cup UNION {{<<d, <<d[1] * d[2] * x, l>> >> : x \in 1..2, l \in 2..3} : d \in first}

ASSUME PatternsAreNested == \A pattern \in DeclaredPatterns \cup SmallPatterns : Nested(pattern)

Sequences(S, max) == UNION {[1..len -> S] : len \in 1..max}

GpuJobs == [m : {8}, n : {16, 32}, k : {2, 4, 12}, declared : {Two, Frag}]
CpuJobs == {[m |-> 8, n |-> 16, k |-> 8, declared |-> Two], [m |-> 12, n |-> 16, k |-> 4, declared |-> Two],
            [m |-> 8, n |-> 32, k |-> 4, declared |-> Frag], [m |-> 4, n |-> 32, k |-> 8, declared |-> Two],
            [m |-> 16, n |-> 16, k |-> 4, declared |-> Frag]}

(* Rows of signal, and of noise that goes with them, of many values: their *)
(* sums are bytes up to the least and the greatest.                        *)
SignalRows(from, rows, k, salt) ==
  [u \in 0..rows - 1 |-> [l \in 0..k - 1 |-> (((from + u) * 5 + l * 3 + salt) % Half) - (Half \div 2)]]
NoiseRows(from, rows, k, salt) ==
  [u \in 0..rows - 1 |-> [l \in 0..k - 1 |-> (((from + u) * 7 + l * 2 + salt) % (Half + 1)) - (Half \div 2)]]

KernelInputs ==
  {[fn |-> "kernels", k |-> kr[1], r |-> kr[2], a0 |-> a0, ct |-> ct, m |-> 10, n |-> 2 * TileWidth,
    signal_a |-> SignalRows(0, 10, kr[1], salt), noise_a |-> NoiseRows(0, 10, kr[1], salt),
    signal_b |-> SignalRows(40, 2 * TileWidth, kr[1], salt), noise_b |-> NoiseRows(40, 2 * TileWidth, kr[1], salt)] :
   kr \in {<<6, 2>>, <<8, 4>>, <<12, 6>>}, salt \in 0..2, a0 \in {0, 2}, ct \in 0..1}

Buffer(size, salt) == [x \in 0..size - 1 |-> ((x * 5 + salt) % Half) - (Half \div 2)]

NoiseInputs ==
  {[fn |-> "noise", k |-> k, rank |-> rank, vbmi |-> vbmi, seeds |-> <<salt + 3, salt * 5 + 1>>,
    a_rows |-> <<0, 2, 3>>, b_cols |-> <<1, 4>>, a_buf |-> Buffer(3 * k, salt), b_buf |-> Buffer(2 * k, salt)] :
   k \in {4, 7}, rank \in {2, 4}, vbmi \in BOOLEAN, salt \in 0..5}

Sample(size, salt) == [x \in 0..size - 1 |-> (MCBlake3(salt, <<x>>) % Half) - (Half \div 2)]

Attempts(cpus, vbmis, shape, m, panels, salts) ==
  {[fn |-> "attempt", cpu |-> cpu, vbmi |-> vbmi, panel |-> panel, m |-> m, n |-> 2 * TileWidth, k |-> 8,
    header |-> Header, patterns |-> Patterns, config |-> Config(8, shape), bound |-> bound,
    a_sig |-> Sample(m * 8, salt), b_sig |-> Sample(2 * TileWidth * 8, salt + 7)] :
   cpu \in cpus, vbmi \in vbmis, panel \in panels, bound \in {0, Prime \div 10}, salt \in salts}

AttemptInputs ==
  Attempts({"avx512", "avxvnni", "scalar"}, {TRUE}, Two, 12, {5, 256}, 0..1)
    \cup Attempts({"avx512"}, BOOLEAN, Small, 8, {256}, 0..1)

SeedOfB(via, salt) == IF via \in FixB THEN salt + 40 ELSE salt

HitInputs(vias, declareds, kernels, runs, max, salts) ==
  {[fn |-> "hits", via |-> via, vbmi |-> TRUE, m |-> 8, n |-> 16, k |-> 8, header |-> Header,
    patterns |-> Patterns, config |-> Config(8, declared), kernel |-> kernel, run |-> run, max_hits |-> max,
    bound |-> Prime \div 2, a_seed |-> salt, b_seed |-> SeedOfB(via, salt)] :
   via \in vias, declared \in declareds, kernel \in kernels, run \in runs, salt \in salts}

AllHitInputs ==
  HitInputs(Vias \ {"host 2x64"}, {Two}, {Two, Frag}, {"up", "down"}, 2, 0..1)
    \cup HitInputs({"host 2x64"}, {Two, Frag}, {Two}, {"up", "down", "error"}, 2, {0})
    \cup HitInputs(Vias \ {"host 2x64"}, {Frag}, {Frag}, {"down", "error"}, 1, {0})

(* They are inputs that the theorems are about. *)
ASSUME InputsAreInputs ==
  /\ \A x \in KernelInputs : KernelInput(x)
  /\ \A x \in NoiseInputs : NoiseInput(x)
  /\ \A x \in AttemptInputs : AttemptInput(x)
  /\ \A x \in AllHitInputs : HitInput(x)

Inputs ==
  NbitsInputs \cup BoundInputs(0..MaxDifficulty, 0..MaxFactor) \cup DimInputs(0..MaxDim)
    \cup TreeInputs(Trees(2..MaxLeaves)) \cup LayerInputs(1..MaxLeaves \cup {129, 1023, 1024})
    \cup KernelInputs \cup NoiseInputs \cup AttemptInputs \cup AllHitInputs
    \cup TileInputs(DeclaredPatterns \cup SmallPatterns, {0, 20})
    \cup ContextInputs(Sequences(GpuJobs, 2), {Two, Frag}) \cup WorkspaceInputs(Sequences(CpuJobs, 3))
    \cup ChoiceInputs(SUBSET Settings, {0}, Majors) \cup ChoiceInputs({{}, {"TMA_MS"}}, Ranks, Majors)

EngineIdle ==
  /\ grid = NoJob /\ slot = NoJob /\ job = NoJob /\ stop = FALSE /\ pc = "idle" /\ setups = 0
  /\ panel_start = 0 /\ cg = 0 /\ rg = 0
  /\ local = 0 /\ a_seed = NoSeed /\ attempts = 0 /\ hits = {} /\ swept = <<>> /\ total = 0 /\ late = 0

Init ==
  \/ input \in Inputs /\ EngineIdle
  \/ input = [fn |-> "engine"] /\ EngineInit

Next ==
  \/ pc # "idle" /\ EngineNext /\ UNCHANGED input
  \/ pc \in {"idle", "done"} /\ UNCHANGED <<input, engineVars>>

Spec == Init /\ [][Next]_<<input, engineVars>>

=============================================================================
