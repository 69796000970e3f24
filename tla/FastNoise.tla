----------------------------- MODULE FastNoise -----------------------------
(***************************************************************************)
(* The noise that a commitment adds to the signal: src/fast_noise.rs, with *)
(* its byte shuffles and its fallback, and the reference of zk_pow that    *)
(* both stand for.  A row of noise is a row of a random matrix times a     *)
(* permutation matrix, whose column j takes one entry and subtracts        *)
(* another.                                                                *)
(*                                                                         *)
(* A vector register holds Vector bytes; two of them hold a row of the     *)
(* random matrix when the rank is 2 * Vector.  Buffers are functions from  *)
(* 0, indices are sequences.                                               *)
(***************************************************************************)
EXTENDS Jackpot

CONSTANTS
  Vector,                          \* 64
  Blake3(_, _)                     \* External: BLAKE3 of a key and of data, as a number

ASSUME VectorAssumption == Vector \in 1..Half /\ Half % 4 = 0

(* What the theorems suppose of BLAKE3. *)
DigestIsNumber == \A key, data : Blake3(key, data) \in Nat

SEED_LABEL_A == 1
SEED_LABEL_B == 2

(* External: the two generators of zk_pow that run on it.                  *)
(* Row `index` of a random matrix: entries of -Half/4..Half/4 - 1.         *)
UniformRow(label, seed, index, rank) ==
  [x \in 0..rank - 1 |-> (Blake3(seed, <<label, index, x>>) % (Half \div 2)) - (Half \div 4)]

(* Columns 0..k - 1 of a permutation matrix: two different rows for each.  *)
PermutationColumns(label, seed, k, rank) ==
  [j \in 0..k - 1 |->
     LET h == Blake3(seed, <<label, -1, j>>) IN
     <<h % rank, (h + 1 + ((h \div rank) % (rank - 1))) % rank>>]

-----------------------------------------------------------------------------
(* vpermi2b: the low bits of the index select a byte of the two registers. *)
(* Mutated form: the register is chosen by the parity of the index.        *)
Permute2_Parity(lo, index, hi) ==
  IF index % 2 = 0 THEN lo[index % Vector] ELSE hi[index % Vector]

Permute2(lo, index, hi) ==
  LET i == index % (2 * Vector) IN IF i < Vector THEN lo[i] ELSE hi[i - Vector]

(* matvec_perm_128: vectors while a whole one is left, then byte by byte.  *)
MatvecPerm(row, first, second, k) ==
  LET lo == [x \in 0..Vector - 1 |-> row[x]]
      hi == [x \in 0..Vector - 1 |-> row[Vector + x]]
      whole == (k \div Vector) * Vector
  IN [j \in 0..k - 1 |->
        IF j < whole
        THEN Byte(Byte(Permute2(lo, first[j], hi)) - Byte(Permute2(lo, second[j], hi)))
        ELSE Byte(row[first[j]] - row[second[j]])]

(* matvec_perm_128_addinto *)
MatvecPermAddInto(row, first, second, dst) ==
  LET noise == MatvecPerm(row, first, second, Cardinality(DOMAIN dst))
  IN [j \in DOMAIN dst |-> Byte(dst[j] + noise[j])]

(* fast_noise_applicable: vbmi is what the processor has. *)
FastNoiseApplicable(vbmi, rank) == vbmi /\ rank = 2 * Vector

(* Mutated form: the pair is taken apart in the order its name suggests.   *)
NoiseSeeds_Swapped(commitment_hash) == [a |-> commitment_hash[1], b |-> commitment_hash[2]]

(* (b_noise_seed, a_noise_seed) = commitment_hash *)
NoiseSeeds(commitment_hash) == [b |-> commitment_hash[1], a |-> commitment_hash[2]]

(* The streams of first and of second indices, as bytes. *)
Split(perm) == <<[j \in DOMAIN perm |-> perm[j][1] % (2 * Half)],
                 [j \in DOMAIN perm |-> perm[j][2] % (2 * Half)]>>

(* compute_noise_for_indices of zk_pow (external), the reference: rows of  *)
(* noise for the indices, as [a, b].                                       *)
Noise(k, rank, a_seed, b_seed, a_rows, b_cols) ==
  LET rows(label, seed, indices) ==
        LET perm == PermutationColumns(label, seed, k, rank) IN
        [u \in 0..Len(indices) - 1 |->
           LET row == UniformRow(label, seed, indices[u + 1], rank)
           IN [j \in 0..k - 1 |-> row[perm[j][1]] - row[perm[j][2]]]]
  IN [a |-> rows(SEED_LABEL_A, a_seed, a_rows), b |-> rows(SEED_LABEL_B, b_seed, b_cols)]

(* compute_noise_for_indices_fast *)
ComputeNoiseFast(vbmi, k, rank, commitment_hash, a_rows, b_cols) ==
  LET seed == NoiseSeeds(commitment_hash)
      rows(label, s, indices) ==
        LET streams == Split(PermutationColumns(label, s, k, rank)) IN
        [u \in 0..Len(indices) - 1 |->
           MatvecPerm(UniformRow(label, s, indices[u + 1], rank), streams[1], streams[2], k)]
  IN IF FastNoiseApplicable(vbmi, rank)
     THEN [a |-> rows(SEED_LABEL_A, seed.a, a_rows), b |-> rows(SEED_LABEL_B, seed.b, b_cols)]
     ELSE Noise(k, rank, commitment_hash[2], commitment_hash[1], a_rows, b_cols)

(* add_noise_into_fast: the flat buffers a_buf and b_buf after it. *)
AddNoiseIntoFast(vbmi, k, rank, commitment_hash, a_rows, b_cols, a_buf, b_buf) ==
  LET seed == NoiseSeeds(commitment_hash)
      strip(buf, u) == [l \in 0..k - 1 |-> buf[u * k + l]]
      fused(label, s, indices, buf) ==
        LET streams == Split(PermutationColumns(label, s, k, rank))
            rows == [u \in 0..Len(indices) - 1 |->
                       MatvecPermAddInto(UniformRow(label, s, indices[u + 1], rank),
                                         streams[1], streams[2], strip(buf, u))]
        IN [x \in DOMAIN buf |-> rows[x \div k][x % k]]
      added(rows, buf) == [x \in DOMAIN buf |-> Byte(buf[x] + rows[x \div k][x % k])]
      noise == ComputeNoiseFast(vbmi, k, rank, commitment_hash, a_rows, b_cols)
  IN IF FastNoiseApplicable(vbmi, rank)
     THEN [a |-> fused(SEED_LABEL_A, seed.a, a_rows, a_buf),
           b |-> fused(SEED_LABEL_B, seed.b, b_cols, b_buf)]
     ELSE [a |-> added(noise.a, a_buf), b |-> added(noise.b, b_buf)]

-----------------------------------------------------------------------------
(* Noise for some rows of A and columns of B, with buffers to add it to.   *)
NoiseInput(x) ==
  /\ x.k \in Nat \ {0} /\ x.rank \in Nat /\ x.rank >= 2 /\ x.vbmi \in BOOLEAN
  /\ x.a_rows \in Seq(Nat) /\ x.a_buf \in [0..Len(x.a_rows) * x.k - 1 -> Int]
  /\ x.b_cols \in Seq(Nat) /\ x.b_buf \in [0..Len(x.b_cols) * x.k - 1 -> Int]

(* The shuffled noise is the noise of the verifier - each seed on its own  *)
(* side - and the variant that adds it on the way adds just that.          *)
NoiseAgrees ==
  input.fn = "noise" =>
    LET k == input.k
        seeds == input.seeds
        want == Noise(k, input.rank, seeds[2], seeds[1], input.a_rows, input.b_cols)
        added == AddNoiseIntoFast(input.vbmi, k, input.rank, seeds, input.a_rows, input.b_cols,
                                  input.a_buf, input.b_buf)
    IN /\ ComputeNoiseFast(input.vbmi, k, input.rank, seeds, input.a_rows, input.b_cols) = want
       /\ \A x \in DOMAIN input.a_buf : added.a[x] = Byte(input.a_buf[x] + want.a[x \div k][x % k])
       /\ \A x \in DOMAIN input.b_buf : added.b[x] = Byte(input.b_buf[x] + want.b[x \div k][x % k])

=============================================================================
