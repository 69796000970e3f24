------------------------------ MODULE GpuGrind ------------------------------
(***************************************************************************)
(* The host's side of a search on the GPU: the calls of src/gpu_ffi.rs,    *)
(* the attempts of src/official_grind.rs that go through them, and the     *)
(* ways a proof is rebuilt from a hit - on the CPU from the matrices, or   *)
(* from the layers and leaves that the GPU hands back.                     *)
(*                                                                         *)
(* A kernel is the pair of patterns that its threads fold by.  Grinding is *)
(* external: the tiles that meet the bound are found, in whatever order.   *)
(***************************************************************************)
EXTENDS OfficialGrind

CONSTANT LANES                     \* 128, coordinates a hit is handed back as

ASSUME HitLanesAssumption == LANES \in Nat

-----------------------------------------------------------------------------
(* External: what a kernel leaves in the buffers for p, the prologue of an *)
(* attempt - every cell of a tile names its row and column - and returns.  *)
(* run: how its blocks are scheduled ("up", "down"), or that CUDA failed.  *)
InOrder(run, meets) == IF run = "down" THEN Reverse(meets) ELSE meets

Lanes(indices, step) == [l \in 1..LANES |-> indices[(((l - 1) \div step) % Len(indices)) + 1]]

(* The buffers hold no more than max_hits of the tiles x that are stored.  *)
HitBuffers(tiles, stored, w, max_hits) ==
  LET slots == 1..IF Len(stored) < max_hits THEN Len(stored) ELSE max_hits
  IN [found |-> Len(stored),
      rows |-> [s \in slots |-> Lanes(tiles[stored[s]].a_rows, w)],
      cols |-> [s \in slots |-> Lanes(tiles[stored[s]].b_cols, 1)]]

Meeting(tiles, a_noise_seed, bound) ==
  Sorted({x \in DOMAIN tiles : ComputeJackpotHash(tiles[x].msg, a_noise_seed) <= bound})

Stored(run, tiles, w, a_noise_seed, bound, max_hits) ==
  HitBuffers(tiles, InOrder(run, Meeting(tiles, a_noise_seed, bound)), w, max_hits)

Device(run, kernel, p, m, n, k, rank, bound, max_hits) ==
  IF run = "error" THEN [found |-> -1, rows |-> <<>>, cols |-> <<>>]
  ELSE Stored(run, FallbackTiles("scalar", p, ThreadsPartition(kernel.rows, m),
                                 ThreadsPartition(kernel.cols, n), k, rank),
              Len(ToList(kernel.cols)), p.a_noise_seed, bound, max_hits)

(* nret *)
Returned(found, max_hits) ==
  IF found < 0 THEN 0 ELSE IF found < max_hits THEN found ELSE max_hits

(* The hits of a call: the coordinates of each sorted, without repetition. *)
Hits(raw, max_hits) ==
  [found |-> raw.found,
   hits  |-> [s \in 1..Returned(raw.found, max_hits) |->
                [rows |-> Sorted(ToSet(raw.rows[s])), cols |-> Sorted(ToSet(raw.cols[s]))]]]

(* gpu_ffi::grind: the matrices come from the host. *)
Grind(run, kernel, p, m, n, k, rank, bound, max_hits) ==
  Hits(Device(run, kernel, p, m, n, k, rank, bound, max_hits), max_hits)

(* grind_2x64 has a kernel of its own; resident_grind makes the matrices   *)
(* on the device.                                                          *)
Grind2x64(run, p, m, n, k, rank, bound, max_hits) ==
  LET config == AlphapoolConfig2x64(k)
  IN Grind(run, [rows |-> config.rows_pattern, cols |-> config.cols_pattern], p, m, n, k, rank, bound, max_hits)

ResidentGrind(run, kernel, p, m, n, k, rank, bound, max_hits) ==
  Hits(Device(run, kernel, p, m, n, k, rank, bound, max_hits), max_hits)

(* ResidentCtx::new, new_2x64: the kernel is that of the create call. *)
NewResidentCtx(kernel, m, n, k, max_hits) == [kernel |-> kernel, m |-> m, n |-> n, k |-> k, max_hits |-> max_hits]

(* ResidentCtx::grind and grind2: the dimensions and the room for hits are *)
(* those the context was created with.                                     *)
CtxGrind(ctx, run, p, rank, bound) ==
  ResidentGrind(run, ctx.kernel, p, ctx.m, ctx.n, ctx.k, rank, bound, ctx.max_hits)

(* External: the signal that the device generates from a seed, row by row. *)
DeviceSignal(seed, sel, rows, k) ==
  [x \in 0..rows * k - 1 |-> (Blake3(seed, <<sel, x \div k, x % k>>) % Half) - (Half \div 2)]

(* Mutated form: A and B are told apart by the seed alone. *)
Int7At_OneMatrix(seed, sel, i, j) == (Blake3(seed, <<0, i, j>>) % Half) - (Half \div 2)

(* int7_at: the signal at (i, j) of A (sel = 0) or of B (sel = 1). *)
Int7At(seed, sel, i, j) == (Blake3(seed, <<sel, i, j>>) % Half) - (Half \div 2)

Signal(seed, sel, rows, k) == [x \in 0..rows * k - 1 |-> Int7At(seed, sel, x \div k, x % k)]

(* fast_fill_signal: words of 8 bytes, and one word for each byte left.    *)
FastFillSignal(seed, len) ==
  LET next(i) == [j \in 0..7 |-> Blake3(seed, <<i, j>>) % (2 * Half)]
      whole == (len \div 8) * 8
      byte(x) == IF x < whole THEN next(x \div 8)[x % 8]
                 ELSE next((whole \div 8) + x - whole)[(x - whole) % 8]
  IN [x \in 0..len - 1 |-> (byte(x) % Half) - (Half \div 2)]

-----------------------------------------------------------------------------
(* The first hit of the shape that the configuration declares, as a        *)
(* sequence: there may be none.                                            *)
FitsShape(hit, config) ==
  Len(hit.rows) = Len(ToList(config.rows_pattern)) /\ Len(hit.cols) = Len(ToList(config.cols_pattern))

FirstOfShape(hits, config) ==
  LET fit == {x \in DOMAIN hits : FitsShape(hits[x], config)}
  IN IF fit = {} THEN <<>> ELSE <<hits[CHOOSE x \in fit : \A y \in fit : x <= y]>>

(* try_mine_one_bounded_gpu: the matrices are still there. *)
TryMineGpu(run, kernel, p, m, n, k, config, bound, a_sig, b_sig) ==
  LET hit == FirstOfShape(Grind(run, kernel, p, m, n, k, config.rank, bound, 64).hits, config)
  IN [x \in DOMAIN hit |->
        MakeProof(a_sig, b_sig, m, n, k, config.rank, p.job_key, hit[x].rows, hit[x].cols)]

(* try_mine_one_bounded_gpu_2x64 *)
TryMineGpu2x64(run, p, m, n, k, config, bound, a_sig, b_sig) ==
  LET hit == FirstOfShape(Grind2x64(run, p, m, n, k, config.rank, bound, 64).hits, config)
  IN [x \in DOMAIN hit |->
        MakeProof(a_sig, b_sig, m, n, k, config.rank, p.job_key, hit[x].rows, hit[x].cols)]

(* build_proof_from_hit_fixb: B has a seed of its own. *)
BuildProofFromHitFixb(a_seed, b_seed, hit, job_key, m, n, k, rank) ==
  MakeProof(Signal(a_seed, 0, m, k), Signal(b_seed, 1, n, k), m, n, k, rank, job_key, hit.rows, hit.cols)

(* build_proof_from_hit *)
BuildProofFromHit(setup_seed, hit, job_key, m, n, k, rank) ==
  BuildProofFromHitFixb(setup_seed, setup_seed, hit, job_key, m, n, k, rank)

(* grind_only_ctx: the hit, for another thread to build the proof of. *)
GrindOnlyCtx(ctx, run, p, setup_seed, config, bound) ==
  LET hit == FirstOfShape(CtxGrind(ctx, run, p, config.rank, bound).hits, config)
  IN [x \in DOMAIN hit |-> [setup_seed |-> setup_seed, hit |-> hit[x], job_key |-> p.job_key]]

(* try_mine_one_bounded_gpu_resident: every buffer for one attempt.        *)
TryMineResident(run, kernel, p, setup_seed, m, n, k, config, bound) ==
  LET hit == FirstOfShape(ResidentGrind(run, kernel, p, m, n, k, config.rank, bound, 64).hits, config)
  IN [x \in DOMAIN hit |-> BuildProofFromHit(setup_seed, hit[x], p.job_key, m, n, k, config.rank)]

(* try_mine_one_bounded_gpu_resident_ctx *)
TryMineResidentCtx(ctx, run, p, setup_seed, config, bound) ==
  LET mined == GrindOnlyCtx(ctx, run, p, setup_seed, config, bound)
  IN [x \in DOMAIN mined |-> BuildProofFromHit(setup_seed, mined[x].hit, mined[x].job_key,
                                               ctx.m, ctx.n, ctx.k, config.rank)]

-----------------------------------------------------------------------------
(* ProofGpuCtx::build_tree: the signal stays in the context. *)
BuildTree(seed, sel, rows, k, job_key) ==
  LET signal == DeviceSignal(seed, sel, rows, k)
  IN [signal |-> signal, root |-> Blake3(job_key, PadToChunkBoundary(signal))]

(* ProofGpuCtx::gather: from the tree built last. *)
Gather(tree, leaf_indices) == [i \in leaf_indices |-> [e \in 0..Chunk - 1 |-> tree.signal[i * Chunk + e]]]

(* ProofGpuCtx::build: both in one call. *)
Build(seed, sel, rows, k, job_key, leaf_indices) ==
  LET tree == BuildTree(seed, sel, rows, k, job_key)
  IN [root |-> tree.root, leaf_data |-> Gather(tree, leaf_indices)]

(* What assemble_matrix_proof makes of them, the siblings aside. *)
Assembled(root, leaf_data, row_indices) == [root |-> root, row_indices |-> row_indices, leaf_data |-> leaf_data]

(* build_proofs_from_setup_gpu_fixb: both trees once, then every hit of    *)
(* the shape asked for.                                                    *)
BuildProofsFromSetupFixb(a_seed, b_seed, hits, job_key, m, n, k, rank, tile_h, tile_w) ==
  LET a  == BuildTree(a_seed, 0, m, k, job_key)
      bt == BuildTree(b_seed, 1, n, k, job_key)
      fit == Sorted({x \in DOMAIN hits : Len(hits[x].rows) = tile_h /\ Len(hits[x].cols) = tile_w})
      proof(hit) == [found |-> TRUE, m |-> m, n |-> n, k |-> k, noise_rank |-> rank,
                     a  |-> Assembled(a.root, Gather(a, LeafIndices(hit.rows, k)), hit.rows),
                     bt |-> Assembled(bt.root, Gather(bt, LeafIndices(hit.cols, k)), hit.cols)]
  IN [x \in DOMAIN fit |-> proof(hits[fit[x]])]

(* build_proofs_from_setup_gpu: tiles of 2 rows by TileWidth columns. *)
BuildProofsFromSetup(setup_seed, hits, job_key, m, n, k, rank) ==
  BuildProofsFromSetupFixb(setup_seed, setup_seed, hits, job_key, m, n, k, rank, 2, TileWidth)

(* build_proof_from_hit_gpu *)
BuildProofFromHitGpu(setup_seed, hit, job_key, m, n, k, rank) ==
  LET a_raw == Build(setup_seed, 0, m, k, job_key, LeafIndices(hit.rows, k))
      b_raw == Build(setup_seed, 1, n, k, job_key, LeafIndices(hit.cols, k))
  IN [found |-> TRUE, m |-> m, n |-> n, k |-> k, noise_rank |-> rank,
      a  |-> Assembled(a_raw.root, a_raw.leaf_data, hit.rows),
      bt |-> Assembled(b_raw.root, b_raw.leaf_data, hit.cols)]

-----------------------------------------------------------------------------
(* The proofs of what the GPU finds, by each of the ways they are made.    *)
ProofsVia(via, ctx, run, p, config, bound, a_seed, b_seed, a_sig, b_sig) ==
  LET m == ctx.m  n == ctx.n  k == ctx.k
      rank == config.rank
      found == CtxGrind(ctx, run, p, rank, bound).hits
      mined == GrindOnlyCtx(ctx, run, p, a_seed, config, bound)
      each(f(_)) == [x \in DOMAIN mined |-> f(mined[x])]
  IN CASE via = "host"     -> TryMineGpu(run, ctx.kernel, p, m, n, k, config, bound, a_sig, b_sig)
       [] via = "host 2x64" -> TryMineGpu2x64(run, p, m, n, k, config, bound, a_sig, b_sig)
       [] via = "resident" -> TryMineResident(run, ctx.kernel, p, a_seed, m, n, k, config, bound)
       [] via = "resident ctx" -> TryMineResidentCtx(ctx, run, p, a_seed, config, bound)
       [] via = "handed over" ->
            each(LAMBDA x : BuildProofFromHit(x.setup_seed, x.hit, x.job_key, m, n, k, rank))
       [] via = "handed over fixb" ->
            each(LAMBDA x : BuildProofFromHitFixb(x.setup_seed, b_seed, x.hit, x.job_key, m, n, k, rank))
       [] via = "hit" ->
            each(LAMBDA x : BuildProofFromHitGpu(x.setup_seed, x.hit, x.job_key, m, n, k, rank))
       [] via = "setup" -> BuildProofsFromSetup(a_seed, found, p.job_key, m, n, k, rank)
       [] via = "setup fixb" ->
            BuildProofsFromSetupFixb(a_seed, b_seed, found, p.job_key, m, n, k, rank,
                                     Len(ToList(config.rows_pattern)), Len(ToList(config.cols_pattern)))

(* What is searched for and how: a kernel that folds by the patterns       *)
(* declared, or by those of a tile that differs in size; trees of whole    *)
(* leaves; and a seed of its own for B where there is one.  Some calls are *)
(* made for tiles of 2 rows and TileWidth columns.                         *)
FixB == {"handed over fixb", "setup fixb"}
OnDevice == {"hit", "setup", "setup fixb"}
Vias == {"host", "host 2x64", "resident", "resident ctx", "handed over", "hit", "setup"} \cup FixB

FoldsBy(kernel, config) == kernel = [rows |-> config.rows_pattern, cols |-> config.cols_pattern]

HitInput(x) ==
  /\ x.m \in Nat /\ x.n \in Nat /\ x.k \in Nat \ {0} /\ Declares(x.config, x.patterns, x.m, x.n, x.k)
  /\ x.vbmi \in BOOLEAN /\ x.via \in Vias /\ x.run \in {"up", "down", "error"} /\ x.max_hits \in Nat \ {0}
  /\ IsPattern(x.kernel.rows) /\ IsPattern(x.kernel.cols)
  /\ Len(ToList(x.kernel.rows)) * Len(ToList(x.kernel.cols)) <= LANES
  /\ FoldsBy(x.kernel, x.config) \/ \/ Len(ToList(x.kernel.rows)) # Len(ToList(x.config.rows_pattern))
                                   \/ Len(ToList(x.kernel.cols)) # Len(ToList(x.config.cols_pattern))
  /\ x.via = "host 2x64" => FoldsBy(x.kernel, AlphapoolConfig2x64(x.k))
  /\ x.via = "setup" => \/ FoldsBy(x.kernel, x.config)
                        \/ /\ Len(ToList(x.config.rows_pattern)) = 2
                           /\ Len(ToList(x.config.cols_pattern)) = TileWidth
  /\ x.via \in OnDevice => (x.m * x.k) % Chunk = 0 /\ (x.n * x.k) % Chunk = 0
  /\ x.via \in FixB \/ x.b_seed = x.a_seed

(* Whatever the order in which the blocks of the device store their hits,  *)
(* however many there are, and whichever way the proof is rebuilt - from   *)
(* the matrices, from the seed, from the leaves the device gathers, with a *)
(* B of its own seed: what comes out verifies, nothing is made of a hit of *)
(* another shape or of a failed call, and a hit of the shape is not lost.  *)
HitsVerify ==
  input.fn = "hits" =>
    LET m == input.m
        n == input.n
        k == input.k
        config == input.config
        signal(seed, sel, rows) ==
          IF input.via \in {"host", "host 2x64"} THEN FastFillSignal(seed + 90 * sel, rows * k)
          ELSE DeviceSignal(seed, sel, rows, k)
        ctx == NewResidentCtx(input.kernel, m, n, k, input.max_hits)
        asked == \/ input.via # "setup"
                 \/ Len(ToList(config.rows_pattern)) = 2 /\ Len(ToList(config.cols_pattern)) = TileWidth
    IN \A a_sig \in {signal(input.a_seed, 0, m)}, b_sig \in {signal(input.b_seed, 1, n)} :
       \A p \in {Prologue(input.vbmi, m, n, k, input.header, config, a_sig, b_sig)} :
       \A proofs \in {ProofsVia(input.via, ctx, input.run, p, config, input.bound,
                                input.a_seed, input.b_seed, a_sig, b_sig)} :
         /\ ~FoldsBy(input.kernel, config) => proofs = <<>>
         /\ \A x \in DOMAIN proofs : Verifies(input.patterns, input.header, input.bound, proofs[x])
         /\ FoldsBy(input.kernel, config) /\ asked =>
              (proofs = <<>> <=> CtxGrind(ctx, input.run, p, config.rank, input.bound).found <= 0)

=============================================================================
