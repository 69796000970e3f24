------------------------------ MODULE Jackpot ------------------------------
(***************************************************************************)
(* The jackpot of a tile: the product of its rows of A and columns of B,   *)
(* folded into the words that are hashed.  The reference and the flat      *)
(* variant of src/pearl_compute.rs, the dot products of src/vnni.rs, the   *)
(* per-cell loop of src/cpu_engine.rs and the register-blocked kernels of  *)
(* src/microkernel.rs.                                                     *)
(*                                                                         *)
(* Bytes and words are small: an i8 is in -Half..Half - 1, an i32 is its   *)
(* residue of 2^WordBits, a dword holds Dword bytes, and vectors have      *)
(* Lanes.  Buffers are functions from 0.                                   *)
(***************************************************************************)
EXTENDS Lanes, Sequences, FiniteSets, Input

CONSTANTS
  Half,                            \* 128
  WordBits,                        \* 32
  JACKPOT_SIZE, LROT_PER_TILE      \* 16, 13

ASSUME WordAssumption ==
  /\ Half \in Nat \ {0} /\ WordBits \in Nat /\ JACKPOT_SIZE \in Nat \ {0}
  /\ LROT_PER_TILE \in 0..WordBits

(* 2^i *)
TwoTo[i \in Nat] == IF i = 0 THEN 1 ELSE 2 * TwoTo[i - 1]

Bytes == -Half..Half - 1
Words == 0..TwoTo[WordBits] - 1

Byte(x) == ((x + Half) % (2 * Half)) - Half
Word(x) == x % TwoTo[WordBits]

RotateLeft(x) == Word(x * TwoTo[LROT_PER_TILE]) + (x \div TwoTo[WordBits - LROT_PER_TILE])

(* Bit after bit, the highest first. *)
Xor(x, y) ==
  LET high[n \in 0..WordBits] ==
        IF n = 0 THEN 0
        ELSE (((x \div TwoTo[WordBits - n]) + (y \div TwoTo[WordBits - n])) % 2) + (2 * high[n - 1])
  IN high[WordBits]

(* f[0] ^ f[1] ^ ... ^ f[n - 1], and their sum. *)
XorOf(f, n) ==
  LET xored[i \in 0..n] == IF i = 0 THEN 0 ELSE Xor(xored[i - 1], f[i - 1]) IN xored[n]

SumOf(f, n) ==
  LET sum[i \in 0..n] == IF i = 0 THEN 0 ELSE sum[i - 1] + f[i - 1] IN sum[n]

-----------------------------------------------------------------------------
(* xor_reduce_128, of n cells: vectors of so many lanes are XORed with     *)
(* each other, and then their lanes.  With one lane, the scalar loop.      *)
XorReduce(lanes, cells, n) ==
  XorOf([j \in 0..lanes - 1 |-> XorOf([i \in 0..(n \div lanes) - 1 |-> cells[i * lanes + j]], n \div lanes)],
        lanes)

(* One block of k: the sums are added to the n cells of the tile, and the  *)
(* cells, XORed together, are stirred into word b of the message.          *)
Blank(n) == [cells |-> [c \in 0..n - 1 |-> 0], msg |-> [i \in 0..JACKPOT_SIZE - 1 |-> 0]]

Fold(lanes, n, b, before, sums) ==
  LET cells == [c \in 0..n - 1 |-> Word(before.cells[c] + sums[c])]
  IN [cells |-> cells,
      msg |-> [before.msg EXCEPT ![b % JACKPOT_SIZE] = Xor(RotateLeft(@), XorReduce(lanes, cells, n))]]

(* The walk along k that every variant makes, of the sums of every block.  *)
Walk(lanes, n, blocks, products) ==
  LET after[b \in 0..blocks] ==
        IF b = 0 THEN Blank(n) ELSE Fold(lanes, n, b - 1, after[b - 1], products[b - 1])
  IN after[blocks].msg

(* compute_jackpot_pearl, of h rows and w columns of signals and noise.    *)
Reference(h, w, k, r, secret_a, secret_b, noise_a, noise_b) ==
  Walk(1, h * w, k \div r,
    [blk \in 0..(k \div r) - 1 |->
      [c \in 0..h * w - 1 |->
         LET a(l) == secret_a[c \div w][l] + noise_a[c \div w][l]
             b(l) == secret_b[c % w][l] + noise_b[c % w][l]
         IN Word(SumOf([l \in 0..r - 1 |-> a(blk * r + l) * b(blk * r + l)], r))]])

-----------------------------------------------------------------------------
(* Dot products of n bytes of a from ao and of b from bo. *)
DotScalar(a, ao, b, bo, n) == Word(SumOf([l \in 0..n - 1 |-> a[ao + l] * b[bo + l]], n))

(* dot_i8_avx512vnni, dot_i8_avxvnni: vpdpbusd takes a unsigned, so a is   *)
(* biased and Half * sum(b) taken off again; the rest byte by byte.        *)
DotVnni(lanes, a, ao, b, bo, n) ==
  LET whole == (n \div (lanes * Dword)) * lanes * Dword
      acc_ab == SumOf([l \in 0..whole - 1 |-> (a[ao + l] + Half) * b[bo + l]], whole)
      acc_b  == SumOf([l \in 0..whole - 1 |-> b[bo + l]], whole)
  IN Word(acc_ab - Half * acc_b + DotScalar(a, ao + whole, b, bo + whole, n - whole))

(* dot_i8, and the choice that jackpot_tile_flat makes once per tile: cpu  *)
(* is the best that the processor has.                                     *)
DotI8(cpu, a, ao, b, bo, n) ==
  CASE cpu = "avx512"  -> DotVnni(Wide, a, ao, b, bo, n)
    [] cpu = "avxvnni" -> DotVnni(Narrow, a, ao, b, bo, n)
    [] OTHER           -> DotScalar(a, ao, b, bo, n)

(* jackpot_tile_body: rows a_idx of a_eff by rows b_idx of b_eff.          *)
TileFlat(cpu, a_eff, b_eff, a_idx, b_idx, k, r) ==
  LET w == Len(b_idx)
      n == Len(a_idx) * w
  IN Walk(1, n, k \div r,
       [blk \in 0..(k \div r) - 1 |->
         [c \in 0..n - 1 |->
            DotI8(cpu, a_eff, a_idx[(c \div w) + 1] * k + blk * r,
                       b_eff, b_idx[(c % w) + 1] * k + blk * r, r)]])

(* compute_jackpot_flat: the strips are summed as bytes first. *)
ComputeJackpotFlat(cpu, h, w, k, r, secret_a, secret_b, noise_a, noise_b) ==
  LET flat(s, noise, rows) == [x \in 0..rows * k - 1 |-> Byte(s[x \div k][x % k] + noise[x \div k][x % k])]
      all(rows) == [i \in 1..rows |-> i - 1]
  IN TileFlat(cpu, flat(secret_a, noise_a, h), flat(secret_b, noise_b, w), all(h), all(w), k, r)

-----------------------------------------------------------------------------
(* Mutated form: a group starts where the columns before it have a dword each. *)
PackSource_Group(lanes, g, kk, j, k) == g * lanes * Dword + j * k + kk * Dword

(* Where dword kk of column j of group g comes from. *)
PackSource(lanes, g, kk, j, k) == (g * lanes + j) * k + kk * Dword

(* pack_b_16, pack_b_8: byte e of dword kk of column j of group g goes to  *)
(* ((g * k/Dword + kk) * lanes + j) * Dword + e.                           *)
Pack(lanes, b, n_cols, k) ==
  LET kk_n == k \div Dword
  IN [x \in 0..n_cols * k - 1 |->
        b[PackSource(lanes, x \div (Dword * lanes * kk_n), (x \div (Dword * lanes)) % kk_n,
                     (x \div Dword) % lanes, k) + (x % Dword)]]

(* Lane j of vpdpbusd over those of the first n dwords of packed b from    *)
(* off that are in `steps`: au has the unsigned byte that goes with byte x *)
(* of the row.                                                             *)
Accumulate(au, b_packed, off, lanes, j, n, steps) ==
  SumOf([kk \in 0..n - 1 |->
           IF kk \in steps
           THEN SumOf([e \in 0..Dword - 1 |->
                         au[kk * Dword + e] * b_packed[off + (kk * lanes + j) * Dword + e]], Dword)
           ELSE 0], n)

(* Mutated form: the bias stays in. *)
StoreGroup_NoBias(acc, accb) == Word(acc)

(* store_group, store_group_8: what goes into the cell. *)
StoreGroup(acc, accb) == Word(acc - Half * accb)

(* Mutated form: the dword that has no pair is left out. *)
LoSteps_Pairs(kk_per_r) == {kk \in 0..kk_per_r - 1 : kk % 2 = 0 /\ kk + 1 < kk_per_r}

(* The steps of the unrolled loop that go into the lo accumulators (an odd *)
(* one left over does too), and those of the hi accumulators.              *)
LoSteps(kk_per_r) == {kk \in 0..kk_per_r - 1 : kk % 2 = 0}
HiSteps(kk_per_r) == {kk \in 0..kk_per_r - 1 : kk % 2 = 1}

(* jackpot_tile_2x64_avx512: rows a0 and a1 by the 4 groups from grp_base. *)
Kernel2x64(a_eff, b_packed, a0, a1, grp_base, k, r) ==
  LET grp_stride == (k \div Dword) * Wide * Dword
      n == r \div Dword
      cell(blk, c) ==
        LET row == IF c < TileWidth THEN a0 ELSE a1
            off == (grp_base + ((c % TileWidth) \div Wide)) * grp_stride + ((blk * r) \div Dword) * Wide * Dword
            au == [x \in 0..r - 1 |-> a_eff[row * k + blk * r + x] + Half]
            p(S)  == Accumulate(au, b_packed, off, Wide, c % Wide, n, S)
        IN StoreGroup(p(LoSteps(n)) + p(HiSteps(n)),
                      Accumulate([x \in 0..r - 1 |-> 1], b_packed, off, Wide, c % Wide, n, 0..n - 1))
  IN Walk(Wide, 2 * TileWidth, k \div r,
          [blk \in 0..(k \div r) - 1 |-> [c \in 0..2 * TileWidth - 1 |-> cell(blk, c)]])

(* Mutated form: row 2 * t + 1 is stored in the tile after its own.        *)
RowOf_Late(t, c) == 2 * t + 2 * (c \div TileWidth)

(* Which of the 8 rows cell c of tile t holds. *)
RowOf(t, c) == 2 * t + (c \div TileWidth)

(* The messages of the 4 tiles that the 8 rows from a0 make. *)
Kernel8x64(lanes, a_eff, b_packed, a0, grp_base, k, r) ==
  LET grp_stride == (k \div Dword) * lanes * Dword
      n == r \div Dword
      cell(blk, t, c) ==
        LET off == (grp_base + ((c % TileWidth) \div lanes)) * grp_stride + ((blk * r) \div Dword) * lanes * Dword
            au == [x \in 0..r - 1 |-> a_eff[(a0 + RowOf(t, c)) * k + blk * r + x] + Half]
        IN StoreGroup(Accumulate(au, b_packed, off, lanes, c % lanes, n, 0..n - 1),
                      Accumulate([x \in 0..r - 1 |-> 1], b_packed, off, lanes, c % lanes, n, 0..n - 1))
  IN [t \in 0..3 |->
        Walk(lanes, 2 * TileWidth, k \div r,
             [blk \in 0..(k \div r) - 1 |-> [c \in 0..2 * TileWidth - 1 |-> cell(blk, t, c)]])]

(* jackpot_tile_8x64_avx512: 4 groups. jackpot_tile_8x64_avxvnni: 8.       *)
Kernel8x64Avx512(a_eff, b_packed, a0, grp_base, k, r)  == Kernel8x64(Wide, a_eff, b_packed, a0, grp_base, k, r)
Kernel8x64AvxVnni(a_eff, b_packed, a0, grp_base, k, r) == Kernel8x64(Narrow, a_eff, b_packed, a0, grp_base, k, r)

-----------------------------------------------------------------------------
(* What the micro-kernels are made for: rows of A and B, of whole dwords,  *)
(* whose signal and noise add up to bytes; 8 rows from a0, and tile ct of  *)
(* the columns.                                                            *)
Strips(rows, k) == [0..rows - 1 -> [0..k - 1 -> Int]]

AddUpToBytes(signal, noise, rows, k) ==
  /\ signal \in Strips(rows, k) /\ noise \in Strips(rows, k)
  /\ \A u \in 0..rows - 1, l \in 0..k - 1 : signal[u][l] + noise[u][l] \in Bytes

KernelInput(x) ==
  /\ x.k \in Nat /\ x.k % Dword = 0 /\ x.r \in Nat \ {0} /\ x.r % Dword = 0
  /\ x.m \in Nat /\ x.a0 \in Nat /\ x.a0 + 8 <= x.m /\ AddUpToBytes(x.signal_a, x.noise_a, x.m, x.k)
  /\ x.n \in Nat /\ x.ct \in Nat /\ (x.ct + 1) * TileWidth <= x.n /\ AddUpToBytes(x.signal_b, x.noise_b, x.n, x.k)

(* Every register-blocked and vectorised variant makes the jackpots of the *)
(* reference, for tiles anywhere in the packed columns: with a number of   *)
(* dwords per block that is odd as well as even, and with rows too short   *)
(* for a whole vector.                                                     *)
KernelsAgree ==
  input.fn = "kernels" =>
    LET k == input.k
        r == input.r
        flat(signal, noise, rows) == [x \in 0..rows * k - 1 |-> Byte(signal[x \div k][x % k] + noise[x \div k][x % k])]
        strip(rows, from, n) == [u \in 0..n - 1 |-> rows[from + u]]
        c0 == input.ct * TileWidth
        cols == [j \in 1..TileWidth |-> c0 + j - 1]
        group(lanes) == input.ct * (TileWidth \div lanes)
    IN \A a \in {flat(input.signal_a, input.noise_a, input.m)}, b \in {flat(input.signal_b, input.noise_b, input.n)} :
       \A wide \in {Pack(Wide, b, input.n, k)}, narrow \in {Pack(Narrow, b, input.n, k)} :
       \A four \in {<<Kernel8x64Avx512(a, wide, input.a0, group(Wide), k, r),
                      Kernel8x64AvxVnni(a, narrow, input.a0, group(Narrow), k, r)>>} :
       \A t \in 0..3 :
         LET a0 == input.a0 + 2 * t
             sa == strip(input.signal_a, a0, 2)          na == strip(input.noise_a, a0, 2)
             sb == strip(input.signal_b, c0, TileWidth)  nb == strip(input.noise_b, c0, TileWidth)
         IN \A want \in {Reference(2, TileWidth, k, r, sa, sb, na, nb)} :
              /\ four[1][t] = want /\ four[2][t] = want
              /\ Kernel2x64(a, wide, a0, a0 + 1, group(Wide), k, r) = want
              /\ \A cpu \in {"avx512", "avxvnni", "scalar"} :
                   /\ TileFlat(cpu, a, b, <<a0, a0 + 1>>, cols, k, r) = want
                   /\ t = 0 => ComputeJackpotFlat(cpu, 2, TileWidth, k, r, sa, sb, na, nb) = want

=============================================================================
