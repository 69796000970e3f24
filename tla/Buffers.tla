------------------------------ MODULE Buffers ------------------------------
(***************************************************************************)
(* What outlives an attempt and must hold the next one, whose dimensions   *)
(* may be others: the workspace of a CPU thread (src/official_grind.rs)    *)
(* and the proof contexts of a GPU search thread (src/bin/tworker.rs,      *)
(* src/gpu_ffi.rs).                                                        *)
(***************************************************************************)
EXTENDS Lanes, Tiles, MerkleProof

CONSTANT Chunk                     \* 1024, bytes of a leaf

ASSUME ChunkAssumption == Chunk \in Nat \ {0}

(* External: compute_leaf_indices_from_rows of pearl_blake3. *)
LeafIndices(rows, num_cols) ==
  UNION {(i * num_cols) \div Chunk..(i * num_cols + num_cols - 1) \div Chunk : i \in ToSet(rows)}

(* The configuration of a job of depth k that declares tiles of these      *)
(* patterns.                                                               *)
Config(k, declared) ==
  [common_dim |-> k, rank |-> 4, rows_pattern |-> declared.rows, cols_pattern |-> declared.cols]

-----------------------------------------------------------------------------
(* The condition of the fast path. *)
FastPath(cpu, config, k) ==
  /\ Len(ToList(config.rows_pattern)) = 2
  /\ Len(ToList(config.cols_pattern)) = TileWidth
  /\ k % Dword = 0
  /\ cpu \in {"avx512", "avxvnni"}

(* The buffers of a thread, which live on from attempt to attempt: the     *)
(* length of those for A (bytes, signal, noised, in tile order), of those  *)
(* for B, and of the lists of all indices.                                 *)
NewWorkspace == [a |-> 0, b |-> 0, a_idx |-> 0, b_idx |-> 0]

(* Mutated form: both sides grow when A does. *)
Ensure_OneGate(ws, m, n, k) ==
  [a |-> IF ws.a < m * k THEN m * k ELSE ws.a,
   b |-> IF ws.a < m * k THEN n * k ELSE ws.b, a_idx |-> m, b_idx |-> n]

(* Workspace::ensure: grow-only, the lists of indices exact. *)
Ensure(ws, m, n, k) ==
  [a |-> IF ws.a < m * k THEN m * k ELSE ws.a,
   b |-> IF ws.b < n * k THEN n * k ELSE ws.b, a_idx |-> m, b_idx |-> n]

(* What an attempt reads and writes is there: the matrices, the rows of    *)
(* its tiles, and two rows for each tile in tile order.                    *)
Holds(ws, cpu, config, m, n, k) ==
  LET row_tiles == ThreadsPartition(config.rows_pattern, m)
      col_tiles == ThreadsPartition(config.cols_pattern, n)
  IN /\ m * k <= ws.a /\ n * k <= ws.b /\ ws.a_idx = m /\ ws.b_idx = n
     /\ \A tile \in ToSet(row_tiles) : \A i \in ToSet(tile) : (i + 1) * k <= ws.a
     /\ \A tile \in ToSet(col_tiles) : \A i \in ToSet(tile) : (i + 1) * k <= ws.b
     /\ FastPath(cpu, config, k) =>
          2 * Len(row_tiles) * k <= ws.a /\ Len(col_tiles) * TileWidth * k <= ws.b

-----------------------------------------------------------------------------
(* The proof contexts of a search thread (pctx), for the matrices of m and *)
(* n rows of k bytes, with room for the leaves of a tile in each.          *)
NoContext == [m |-> 0, n |-> 0, k |-> 0, max_leaves_a |-> 0, max_leaves_b |-> 0]

(* Mutated form: whole leaves only. *)
LeavesPerRow_Whole(k) == k \div Chunk

LeavesPerRow(k) == (k + Chunk - 1) \div Chunk

(* A hit of the shape declared finds contexts of its dimensions, or makes  *)
(* them; others are not made proofs of.                                    *)
ProofContext(pctx, kernel, config, m, n) ==
  LET h == Len(ToList(config.rows_pattern))
      w == Len(ToList(config.cols_pattern))
      k == config.common_dim
  IN IF Len(ToList(kernel.rows)) # h \/ Len(ToList(kernel.cols)) # w
        \/ <<pctx.m, pctx.n, pctx.k>> = <<m, n, k>>
     THEN pctx
     ELSE [m |-> m, n |-> n, k |-> k,
           max_leaves_a |-> h * LeavesPerRow(k), max_leaves_b |-> w * LeavesPerRow(k)]

(* The assertions of ProofGpuCtx on what a tile asks for, and the leaves   *)
(* that its tree has.                                                      *)
Serves(rows, k, max_leaves, tile) ==
  LET leaves == LeafIndices(tile, k) IN
  Cardinality(leaves) \in 1..max_leaves /\ leaves \subseteq 0..((rows * k) \div Chunk) - 1

-----------------------------------------------------------------------------
(* The jobs that a dimension is made for: multiples of the period.  Those  *)
(* whose trees the device builds, moreover, have a whole number of leaves, *)
(* and leaves line up with rows.                                           *)
Fitting(m, n, declared) == m % Period(declared.rows) = 0 /\ n % Period(declared.cols) = 0

Aligned(rows, k) == (rows * k) % Chunk = 0 /\ (k % Chunk = 0 \/ Chunk % k = 0)

WorkspaceInputs(jobs) == [fn : {"workspace"}, jobs : jobs]
ContextInputs(jobs, kernels) == [fn : {"buffers"}, jobs : jobs, kernel : kernels]
LayerInputs(sizes) == [fn : {"layers"}, leaves : sizes]

(* The buffers that a thread keeps hold every attempt, whatever jobs came  *)
(* before it: of which either side may have been larger or smaller.        *)
WorkspaceFits ==
  input.fn = "workspace" =>
    LET js == input.jobs
        ws[x \in 0..Len(js)] == IF x = 0 THEN NewWorkspace ELSE Ensure(ws[x - 1], js[x].m, js[x].n, js[x].k)
    IN \A x \in DOMAIN js : \A cpu \in {"avx512", "scalar"} :
         Holds(ws[x], cpu, Config(js[x].k, js[x].declared), js[x].m, js[x].n, js[x].k)

(* There is a place for every node of every layer of a tree: what the      *)
(* device sets aside is exactly what it needs; what the host sets aside is *)
(* enough up to 1024 leaves, and as doubling the leaves doubles both, for  *)
(* those times a power of two.  (1025 leaves have one node too many.)      *)
LayersFit ==
  input.fn = "layers" =>
    LET n == input.leaves
    IN /\ Nodes(n) = LayersWords(n)
       /\ n <= 1024 => Nodes(n) <= Capacity(n)
       /\ Nodes(2 * n) - 4 * n = Nodes(n) - 2 * n

(* Whatever jobs have come before, a tile asks for leaves that its matrix  *)
(* has and that its proof context has room for, wherever the tile lies -   *)
(* of rows that leaves line up with.                                       *)
LeavesFit ==
  input.fn = "buffers" =>
    LET js == input.jobs
        config(x) == Config(js[x].k, js[x].declared)
        pctx[x \in 0..Len(js)] ==
          IF x = 0 THEN NoContext
          ELSE ProofContext(pctx[x - 1], input.kernel, config(x), js[x].m, js[x].n)
        fits(x) == /\ Len(ToList(input.kernel.rows)) = Len(ToList(js[x].declared.rows))
                   /\ Len(ToList(input.kernel.cols)) = Len(ToList(js[x].declared.cols))
    IN \A x \in DOMAIN js : fits(x) =>
         /\ \A tile \in ToSet(ThreadsPartition(input.kernel.rows, js[x].m)) :
              Serves(js[x].m, js[x].k, pctx[x].max_leaves_a, tile)
         /\ \A tile \in ToSet(ThreadsPartition(input.kernel.cols, js[x].n)) :
              Serves(js[x].n, js[x].k, pctx[x].max_leaves_b, tile)

(* The buffers a proof is built in suffice. *)
ProofBuffersFit == LayersFit /\ LeavesFit

=============================================================================
