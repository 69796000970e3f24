--------------------------- MODULE OfficialGrind ---------------------------
(***************************************************************************)
(* One attempt of the CPU miner (src/official_grind.rs): draw matrices A   *)
(* (m x k) and B (k x n, kept transposed), commit to them, add the noise   *)
(* of the commitment, sweep the tiles of the patterns, and rebuild a proof *)
(* from the signal when the jackpot of a tile meets the bound.  And the    *)
(* verifier of the pool, which is not part of the repository.              *)
(*                                                                         *)
(* Matrices are functions from 0, row after row; indices and tiles are     *)
(* sequences.  A Merkle root is the digest of the whole padded matrix: the *)
(* tree below it is in MerkleProof.                                        *)
(***************************************************************************)
EXTENDS FastNoise, Buffers

SEED_SALT_A == 3
SEED_SALT_B == 5
NoProof == [found |-> FALSE]

-----------------------------------------------------------------------------
(* alphapool_config_2x64: rows {r, r + 2} (32 in the code), TileWidth columns in a row. *)
AlphapoolConfig2x64(common_dim) ==
  [common_dim |-> common_dim, rank |-> 2 * Vector,
   rows_pattern |-> << <<2, 2>> >>, cols_pattern |-> << <<1, TileWidth>> >>]

-----------------------------------------------------------------------------
(* compute_job_key: a configuration is hashed with the lists of its        *)
(* patterns, which stand for their dimensions.                             *)
ComputeJobKey(header, config) ==
  Blake3(0, <<header, config.common_dim, config.rank>> \o ToList(config.rows_pattern)
              \o <<0>> \o ToList(config.cols_pattern))

BindRoot(root, dim, salt) == Blake3(salt, <<root, dim>>)

PadToChunkBoundary(data) ==
  LET len == Cardinality(DOMAIN data) IN
  [x \in 0..((len + Chunk - 1) \div Chunk) * Chunk - 1 |-> IF x < len THEN data[x] ELSE 0]

(* The two steps from bound roots to <<b_noise_seed, a_noise_seed>>. *)
Stir(job_key, hash_a, hash_b) ==
  LET b_noise_seed == Blake3(0, <<job_key, hash_b>>)
  IN <<b_noise_seed, Blake3(0, <<b_noise_seed, hash_a>>)>>

(* Mutated form: the roots are bound to each other's dimension. *)
ComputeCommitmentHash_Crossed(job_key, root_a, root_b, m, n) ==
  Stir(job_key, BindRoot(root_a, n, SEED_SALT_A), BindRoot(root_b, m, SEED_SALT_B))

(* compute_commitment_hash, of the roots of the padded matrices. *)
ComputeCommitmentHash(job_key, root_a, root_b, m, n) ==
  Stir(job_key, BindRoot(root_a, m, SEED_SALT_A), BindRoot(root_b, n, SEED_SALT_B))

(* build_matrix_proof *)
BuildMatrixProof(matrix, job_key, row_indices, num_cols) ==
  LET padded == PadToChunkBoundary(matrix) IN
  [root        |-> Blake3(job_key, padded),
   row_indices |-> row_indices,
   leaf_data   |-> [i \in LeafIndices(row_indices, num_cols) |-> [e \in 0..Chunk - 1 |-> padded[i * Chunk + e]]]]

(* make_proof *)
MakeProof(a_sig, b_sig, m, n, k, rank, job_key, a_rows, b_cols) ==
  [found |-> TRUE, m |-> m, n |-> n, k |-> k, noise_rank |-> rank,
   a  |-> BuildMatrixProof(a_sig, job_key, a_rows, k),
   bt |-> BuildMatrixProof(b_sig, job_key, b_cols, k)]

(* External: compute_jackpot_hash of zk_pow. *)
ComputeJackpotHash(msg, a_noise_seed) == Blake3(a_noise_seed, msg)

-----------------------------------------------------------------------------
(* What both sides of an attempt know of its matrices: the key of the job, *)
(* the seed that keys the jackpots, and the matrices with the noise of     *)
(* their commitment added.                                                 *)
Prologue(vbmi, m, n, k, header, config, a_sig, b_sig) ==
  LET job_key == ComputeJobKey(header, config)
      root(matrix) == Blake3(job_key, PadToChunkBoundary(matrix))
      seeds == ComputeCommitmentHash(job_key, root(a_sig), root(b_sig), m, n)
      all(dim) == [i \in 1..dim |-> i - 1]
      noised == AddNoiseIntoFast(vbmi, k, config.rank, seeds, all(m), all(n), a_sig, b_sig)
  IN [job_key |-> job_key, a_noise_seed |-> seeds[2], a_noised |-> noised.a, b_noised_t |-> noised.b]

(* tile_jackpot_flat *)
TileJackpotFlat(cpu, a_rows, b_cols, a_noised, b_noised_t, rank, k) ==
  TileFlat(cpu, a_noised, b_noised_t, a_rows, b_cols, k, rank)

(* Its sweep: panels of row tiles, each swept by all column tiles.  Four   *)
(* tiles at a time from p0, up to three left over at the end of the panel. *)
PanelSweep(panel, row_tiles, col_tiles) ==
  LET panels == (row_tiles + panel - 1) \div panel IN
  FlattenSeq([p \in 1..panels |->
    LET p0 == (p - 1) * panel
        p1 == IF p0 + panel < row_tiles THEN p0 + panel ELSE row_tiles
    IN FlattenSeq([ci \in 1..col_tiles |->
         [x \in 1..p1 - p0 |->
            [t |-> p0 + x - 1, ci |-> ci - 1,
             first |-> p0 + ((x - 1) \div 4) * 4, quad |-> p0 + ((x - 1) \div 4) * 4 + 4 <= p1]]])])

(* Mutated form: the proof of a message is that of the first of its four.  *)
WinningTile_First(visit) == visit.first

(* row_tiles[t + tt] *)
WinningTile(visit) == visit.t

(* The tiles of an attempt, in the order of the sweep, with their messages. *)
FastTiles(cpu, panel, p, row_tiles, col_tiles, k, rank) ==
  LET a_tiled == [x \in 0..2 * Len(row_tiles) * k - 1 |->
                    p.a_noised[row_tiles[(x \div (2 * k)) + 1][((x \div k) % 2) + 1] * k + (x % k)]]
      total_cols == Len(col_tiles) * TileWidth
      b_all == [x \in 0..total_cols * k - 1 |->
                  p.b_noised_t[col_tiles[(x \div (TileWidth * k)) + 1][((x \div k) % TileWidth) + 1] * k
                               + (x % k)]]
      lanes == IF cpu = "avx512" THEN Wide ELSE Narrow
      grp_per_tile == TileWidth \div lanes
      b_packed == Pack(lanes, b_all, total_cols, k)
      visits == PanelSweep(panel, Len(row_tiles), Len(col_tiles))
      msg(v) ==
        IF v.quad
        THEN (IF cpu = "avx512"
              THEN Kernel8x64Avx512(a_tiled, b_packed, 2 * v.first, v.ci * grp_per_tile, k, rank)
              ELSE Kernel8x64AvxVnni(a_tiled, b_packed, 2 * v.first, v.ci * grp_per_tile, k, rank))[v.t - v.first]
        ELSE IF cpu = "avx512"
        THEN Kernel2x64(a_tiled, b_packed, 2 * v.t, 2 * v.t + 1, v.ci * grp_per_tile, k, rank)
        ELSE TileJackpotFlat(cpu, row_tiles[v.t + 1], col_tiles[v.ci + 1], p.a_noised, p.b_noised_t, rank, k)
  IN [x \in DOMAIN visits |->
        [a_rows |-> row_tiles[WinningTile(visits[x]) + 1], b_cols |-> col_tiles[visits[x].ci + 1],
         msg |-> msg(visits[x])]]

(* The fallback: every pair of tiles, cell by cell. *)
FallbackTiles(cpu, p, row_tiles, col_tiles, k, rank) ==
  [x \in 1..Len(row_tiles) * Len(col_tiles) |->
     LET a_rows == row_tiles[((x - 1) \div Len(col_tiles)) + 1]
         b_cols == col_tiles[((x - 1) % Len(col_tiles)) + 1]
     IN [a_rows |-> a_rows, b_cols |-> b_cols,
         msg |-> TileJackpotFlat(cpu, a_rows, b_cols, p.a_noised, p.b_noised_t, rank, k)]]

(* try_mine_one_bounded, of the matrices drawn and p, their prologue: the   *)
(* proof of the first tile that meets the bound.                           *)
TryMineOneBounded(cpu, panel, p, m, n, k, config, bound, a_sig, b_sig) ==
  LET row_tiles == ThreadsPartition(config.rows_pattern, m)
      col_tiles == ThreadsPartition(config.cols_pattern, n)
      tiles == IF FastPath(cpu, config, k)
               THEN FastTiles(cpu, panel, p, row_tiles, col_tiles, k, config.rank)
               ELSE FallbackTiles(cpu, p, row_tiles, col_tiles, k, config.rank)
      meets == {x \in DOMAIN tiles : ComputeJackpotHash(tiles[x].msg, p.a_noise_seed) <= bound}
      won == tiles[CHOOSE x \in meets : \A y \in meets : x <= y]
  IN IF meets = {} THEN NoProof
     ELSE MakeProof(a_sig, b_sig, m, n, k, config.rank, p.job_key, won.a_rows, won.b_cols)

-----------------------------------------------------------------------------
(* External: parse_proof and the checks on a share, by the pool or by the  *)
(* local verifier.  The configuration is rebuilt from the indices shown,   *)
(* whose least is the offset of the tile; the noise and the jackpot of the *)
(* tile are recomputed from the rows that the leaves hold.                 *)
Normal(indices) == [x \in DOMAIN indices |-> indices[x] - indices[1]]

ShownRows(shown, k) ==
  [u \in 0..Len(shown.row_indices) - 1 |->
     [l \in 0..k - 1 |->
        LET byte == shown.row_indices[u + 1] * k + l
        IN shown.leaf_data[byte \div Chunk][byte % Chunk]]]

Shows(shown, patterns, dim, k) ==
  /\ shown.row_indices \in UNION {ToSet(ThreadsPartition(q, dim)) :
                                   q \in {q \in patterns : ToList(q) = Normal(shown.row_indices)}}
  /\ DOMAIN shown.leaf_data = LeafIndices(shown.row_indices, k)

ShareHash(header, proof) ==
  LET job_key == Blake3(0, <<header, proof.k, proof.noise_rank>> \o Normal(proof.a.row_indices)
                             \o <<0>> \o Normal(proof.bt.row_indices))
      hash_a == Blake3(SEED_SALT_A, <<proof.a.root, proof.m>>)
      hash_b == Blake3(SEED_SALT_B, <<proof.bt.root, proof.n>>)
      b_seed == Blake3(0, <<job_key, hash_b>>)
      a_seed == Blake3(0, <<b_seed, hash_a>>)
      noise == Noise(proof.k, proof.noise_rank, a_seed, b_seed, proof.a.row_indices, proof.bt.row_indices)
  IN ComputeJackpotHash(
       Reference(Len(proof.a.row_indices), Len(proof.bt.row_indices), proof.k, proof.noise_rank,
                 ShownRows(proof.a, proof.k), ShownRows(proof.bt, proof.k), noise.a, noise.b),
       a_seed)

Verifies(patterns, header, bound, proof) ==
  /\ Shows(proof.a, patterns, proof.m, proof.k)
  /\ Shows(proof.bt, patterns, proof.n, proof.k)
  /\ ShareHash(header, proof) <= bound

-----------------------------------------------------------------------------
(* What an attempt is made of: tiles that share out the matrices, patterns *)
(* that the pool knows, and signals of 7 bits.  The fast path is for ranks *)
(* of whole dwords.                                                        *)
Signals == -(Half \div 2)..(Half \div 2) - 1

IsPattern(pattern) == pattern \in Seq(Nat \X Nat) /\ Nested(pattern)

Declares(config, patterns, m, n, k) ==
  /\ IsPattern(config.rows_pattern) /\ m % Period(config.rows_pattern) = 0 /\ config.rows_pattern \in patterns
  /\ IsPattern(config.cols_pattern) /\ n % Period(config.cols_pattern) = 0 /\ config.cols_pattern \in patterns
  /\ config.common_dim = k /\ config.rank \in Nat /\ config.rank >= 2

AttemptInput(x) ==
  /\ x.m \in Nat /\ x.n \in Nat /\ x.k \in Nat \ {0} /\ Declares(x.config, x.patterns, x.m, x.n, x.k)
  /\ x.vbmi \in BOOLEAN /\ x.cpu \in {"avx512", "avxvnni", "scalar"} /\ x.panel \in Nat \ {0}
  /\ FastPath(x.cpu, x.config, x.k) => x.config.rank % Dword = 0
  /\ x.a_sig \in [0..x.m * x.k - 1 -> Signals] /\ x.b_sig \in [0..x.n * x.k - 1 -> Signals]

(* An attempt on the CPU - whatever processor, panel and path - ends with  *)
(* a proof that the pool accepts, of a tile that meets the bound, or there *)
(* is no such tile.                                                        *)
AttemptVerifies ==
  input.fn = "attempt" =>
    LET m == input.m
        n == input.n
        k == input.k
        config == input.config
    IN \A p \in {Prologue(input.vbmi, m, n, k, input.header, config, input.a_sig, input.b_sig)} :
       \A proof \in {TryMineOneBounded(input.cpu, input.panel, p, m, n, k, config, input.bound,
                                       input.a_sig, input.b_sig)} :
         IF proof.found THEN Verifies(input.patterns, input.header, input.bound, proof)
         ELSE \A a_rows \in ToSet(ThreadsPartition(config.rows_pattern, m)),
                b_cols \in ToSet(ThreadsPartition(config.cols_pattern, n)) :
                ~Verifies(input.patterns, input.header, input.bound,
                          MakeProof(input.a_sig, input.b_sig, m, n, k, config.rank, p.job_key, a_rows, b_cols))

=============================================================================
