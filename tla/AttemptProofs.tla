---------------------------- MODULE AttemptProofs ---------------------------
(***************************************************************************)
(* An attempt, on the CPU or through the GPU, for every matrix, pattern    *)
(* and bound, if a digest is a number.                                     *)
(*                                                                         *)
(* Every way of searching visits the tiles of the patterns, each with the  *)
(* words that the verifier computes from the rows that the proof shows:    *)
(* what meets the bound verifies, and if nothing is found nothing would. A *)
(* hit of the GPU is one of those tiles, read back from its lanes, and     *)
(* whichever way a proof is rebuilt from it, it is the proof of that tile. *)
(***************************************************************************)
EXTENDS GpuGrind, KernelProofs

(* The list of a pattern starts at 0 and ascends.                          *)
IsList(list) ==
  /\ Len(list) \in Nat \ {0} /\ DOMAIN list = 1..Len(list) /\ list[1] = 0
  /\ \A x \in 1..Len(list) : list[x] \in Nat
  /\ \A x, y \in 1..Len(list) : x < y => list[x] < list[y]

(* A pattern is a sequence of nested dimensions. *)
LEMMA PatternIs ==
  ASSUME NEW pattern, IsPattern(pattern)
  PROVE  pattern \in Seq(Dimensions) /\ Nested(pattern)
<1>1. pattern \in Seq(Nat \X Nat) /\ Nested(pattern)
  BY DEF IsPattern
<1>2. PICK len : len = Len(pattern)
  OBVIOUS
<1>3. len \in Nat /\ DOMAIN pattern = 1..len /\ pattern = [d \in 1..len |-> pattern[d]]
  BY <1>1, <1>2
<1>4. ASSUME NEW d \in 1..len PROVE pattern[d] \in Dimensions
  <2>1. pattern[d] \in Nat \X Nat
    BY <1>1, <1>2
  <2>2. pattern[d][1] > 0 /\ pattern[d][2] > 0
    BY <1>1, <1>2 DEF Nested
  <2> QED BY <2>1, <2>2 DEF Dimensions
<1>5. pattern \in [1..len -> Dimensions]
  BY <1>3, <1>4
<1>6. pattern \in Seq(Dimensions)
  <2> HIDE <1>2
  <2> QED BY <1>3, <1>5
<1> QED BY <1>1, <1>6

(* A tile of a pattern: its indices, ascending, lie as those of the list.  *)
IsTile(tile, list, dim) ==
  /\ DOMAIN tile = 1..Len(list) /\ Len(tile) = Len(list)
  /\ \A x \in 1..Len(list) : tile[x] \in 0..dim - 1
  /\ \A x, y \in 1..Len(list) : x < y => tile[x] < tile[y]
  /\ Normal(tile) = list

Spans(pattern, dim) == dim % Period(pattern) = 0

(* Of whatever dimension, they ascend.                                     *)
IsRising(tile, list) ==
  /\ tile = [x \in 1..Len(list) |-> tile[x]] /\ DOMAIN tile = 1..Len(list) /\ Len(tile) = Len(list)
  /\ \A x \in 1..Len(list) : tile[x] \in Nat
  /\ \A x, y \in 1..Len(list) : x < y => tile[x] < tile[y]

(* The tiles of a pattern ascend, and lie within a dimension that it       *)
(* spans.                                                                  *)
LEMMA TilesRise ==
  ASSUME NEW pattern, IsPattern(pattern), NEW dim \in Nat
  PROVE  /\ IsList(ToList(pattern))
         /\ \A tile \in ToSet(ThreadsPartition(pattern, dim)) :
              IsRising(tile, ToList(pattern)) /\ (Spans(pattern, dim) => IsTile(tile, ToList(pattern), dim))
<1>1. PICK S : /\ ToList(pattern) = Sorted(S)
               /\ Shares({o \in Nat : OffsetIsValid(pattern, o)}, S, Period(pattern))
  BY PatternIs, ToListIs
<1>2. PICK O, P, list : O = {o \in Nat : OffsetIsValid(pattern, o)} /\ P = Period(pattern) /\ list = Sorted(S)
  OBVIOUS
<1>3. Shares(O, S, P)
  BY <1>1, <1>2
<1>4. O \in SUBSET Nat /\ S \in SUBSET Nat /\ IsFiniteSet(S)
  <2>1. O \in SUBSET Nat /\ P \in Nat \ {0} /\ S \in SUBSET (0..P - 1)
    BY <1>3 DEF Shares
  <2>2. IsFiniteSet(0..P - 1)
    BY <2>1, FS_Interval
  <2>3. IsFiniteSet(S)
    BY <2>1, <2>2, FS_Subset
  <2> QED BY <2>1, <2>3
<1>5. 0 \in S
  <2>1. PICK o \in O, s \in S : 0 = o + s
    BY <1>3 DEF Shares
  <2> QED BY <1>4, <2>1
<1>6. PICK h : /\ h = Cardinality(S) /\ h \in Nat /\ list \in Seq(S) /\ Len(list) = h
               /\ \A i \in S : \E x \in 1..h : list[x] = i
               /\ \A x, y \in 1..h : x < y => list[x] < list[y]
  BY <1>2, <1>4, SortedIs
<1>7. DOMAIN list = 1..h /\ \A x \in 1..h : list[x] \in S /\ list[x] \in Nat
  <2>1. DOMAIN list = 1..h
    BY <1>6
  <2>2. \A x \in 1..h : list[x] \in S
    BY <1>6
  <2> QED BY <1>4, <2>1, <2>2
<1>8. h # 0 /\ list[1] = 0
  <2>1. PICK x \in 1..h : list[x] = 0
    BY <1>5, <1>6
  <2>2. 1 \in 1..h /\ h # 0
    BY <1>6, <2>1
  <2>3. 1 < x => list[1] < list[x]
    BY <1>6, <2>2
  <2>4. list[1] \in Nat
    BY <1>7, <2>2
  <2> QED BY <2>1, <2>2, <2>3, <2>4
<1>9. IsList(list)
  BY <1>6, <1>7, <1>8 DEF IsList
<1>10. ASSUME NEW tile \in ToSet(ThreadsPartition(pattern, dim))
       PROVE  IsRising(tile, list) /\ (Spans(pattern, dim) => IsTile(tile, list, dim))
  <2>1. ToSet(ThreadsPartition(pattern, dim)) = {TileAt(S, o) : o \in TileOffsets(pattern, dim)}
    BY <1>1, TilesAre
  <2>2. PICK o : o \in TileOffsets(pattern, dim) /\ tile = TileAt(S, o)
    BY <2>1
  <2>3. o \in O /\ o \in Nat /\ o < dim
    BY <1>2, <2>2 DEF TileOffsets
  <2>4. DOMAIN tile = 1..h /\ \A x \in 1..h : tile[x] = o + list[x]
    BY <1>2, <1>7, <2>2 DEF TileAt
  <2>12. tile = [x \in 1..h |-> tile[x]]
    BY <1>2, <1>7, <2>2 DEF TileAt
  <2>5. Len(tile) = h
    <3>2. tile \in Seq({tile[x] : x \in 1..h})
      BY <1>6, <2>12
    <3> QED BY <1>6, <2>4, <3>2
  <2>6. ASSUME Spans(pattern, dim) PROVE \A x \in 1..h : tile[x] \in 0..dim - 1
    <3>1. \A s \in S : o + s \in 0..dim - 1
      <4>1. dim % P = 0
        BY <1>2, <2>6, Zenon DEF Spans
      <4> QED BY <1>3, <2>3, <4>1, TileInside, Zenon
    <3> QED BY <1>7, <2>4, <3>1
  <2>7. ASSUME NEW x \in 1..h, NEW y \in 1..h, x < y PROVE tile[x] < tile[y]
    BY <1>6, <1>7, <2>3, <2>4, <2>7
  <2>8. Normal(tile) = list
    <3>1. tile[1] = o
      BY <1>6, <1>8, <2>3, <2>4
    <3>2. \A x \in 1..h : tile[x] - tile[1] = list[x]
      BY <1>7, <2>3, <2>4, <3>1
    <3>3. Normal(tile) = [x \in 1..h |-> list[x]]
      BY <2>4, <3>2, Zenon DEF Normal
    <3>4. list = [x \in 1..h |-> list[x]]
      BY <1>6
    <3> QED BY <3>3, <3>4, Zenon
  <2>9. \A x \in 1..h : tile[x] \in Nat
    BY <1>7, <2>3, <2>4
  <2>10. IsRising(tile, list)
    BY <1>6, <2>4, <2>5, <2>7, <2>9, <2>12 DEF IsRising
  <2>11. ASSUME Spans(pattern, dim) PROVE IsTile(tile, list, dim)
    BY <1>6, <2>4, <2>5, <2>6, <2>7, <2>8, <2>11 DEF IsTile
  <2> QED BY <2>10, <2>11
<1> QED BY <1>1, <1>2, <1>9, <1>10

(* They do when the pattern spans the dimension. *)
LEMMA TilesLie ==
  ASSUME NEW pattern, IsPattern(pattern), NEW dim \in Nat, Spans(pattern, dim)
  PROVE  /\ IsList(ToList(pattern))
         /\ \A tile \in ToSet(ThreadsPartition(pattern, dim)) : IsTile(tile, ToList(pattern), dim)
BY TilesRise, Zenon

-----------------------------------------------------------------------------
(* A matrix with noise: row after row, both added, and bytes still.        *)
IsNoised(noised, sig, label, seed, dim, k, rank) ==
  \A i \in 0..dim - 1, l \in 0..k - 1 :
    noised[i * k + l] = sig[i * k + l] + Permuted(label, seed, i, k, rank, l) /\ noised[i * k + l] \in Bytes

IsSignal(sig, dim, k) == sig \in [0..dim * k - 1 -> Signals]

(* An entry of the noise is small.                                         *)
LEMMA PermutedIs ==
  ASSUME DigestIsNumber, NEW label, NEW seed, NEW i, NEW k \in Nat, NEW rank \in Nat, rank >= 2, NEW l \in 0..k - 1,
         NEW s \in Signals
  PROVE  s + Permuted(label, seed, i, k, rank, l) \in Bytes
<1>1. PICK row, perm : row = UniformRow(label, seed, i, rank) /\ perm = PermutationColumns(label, seed, k, rank)
  OBVIOUS
<1>2. PairsOf(perm, k, rank)
  BY <1>1, PermutationIs, Zenon
<1>3. PICK u, v : u = perm[l][1] /\ v = perm[l][2]
  OBVIOUS
<1>4. u \in 0..rank - 1 /\ v \in 0..rank - 1
  BY <1>2, <1>3, Zenon DEF PairsOf
<1>5. PICK x, y : x = row[u] /\ y = row[v]
  OBVIOUS
<1>6. x \in Entries /\ y \in Entries
  BY <1>1, <1>4, <1>5, UniformRowIs, Zenon
<1>7. Permuted(label, seed, i, k, rank, l) = x - y
  BY <1>1, <1>3, <1>5, Zenon DEF Permuted
<1>8. PICK q, h, half : q = Quarter /\ h = Half /\ half = Half \div 2
  OBVIOUS
<1>9. h = 4 * q /\ half = 2 * q /\ q \in Nat
  BY <1>8, QuarterIs, Zenon
<1>10. x \in -q..q - 1 /\ y \in -q..q - 1
  BY <1>6, <1>8, Zenon DEF Entries
<1>11. s \in -half..half - 1
  BY <1>8, Zenon DEF Signals
<1>12. s + (x - y) \in -h..h - 1
  <2> HIDE <1>1, <1>3, <1>5, <1>7, <1>8
  <2> QED BY <1>9, <1>10, <1>11
<1> QED BY <1>7, <1>8, <1>12, Zenon DEF Bytes

(* The indices of all the rows are numbers. *)
LEMMA AllAreNat ==
  ASSUME NEW dim \in Nat
  PROVE  All(dim) \in Seq(Nat) /\ Len(All(dim)) = dim
<1>1. \A i \in 1..dim : i - 1 \in Nat
  OBVIOUS
<1> QED BY <1>1 DEF All

(* What was added to a signal is its noise, and nothing is cut off. *)
LEMMA NoisedIs ==
  ASSUME DigestIsNumber, NEW label, NEW seed, NEW dim \in Nat, NEW k \in Nat \ {0}, NEW rank \in Nat, rank >= 2,
         NEW sig, IsSignal(sig, dim, k), NEW noised, NoiseAdded(noised, label, seed, All(dim), k, rank, sig)
  PROVE  IsNoised(noised, sig, label, seed, dim, k, rank)
<1> SUFFICES ASSUME NEW i \in 0..dim - 1, NEW l \in 0..k - 1
             PROVE  /\ noised[i * k + l] = sig[i * k + l] + Permuted(label, seed, i, k, rank, l)
                    /\ noised[i * k + l] \in Bytes
  BY Zenon DEF IsNoised
<1>1. PICK x : x = i * k + l
  OBVIOUS
<1>2. x \in 0..dim * k - 1 /\ x \div k = i /\ x % k = l
  <2>1. k \in Nat
    OBVIOUS
  <2> QED BY <1>1, <2>1, PlaceIn, Zenon
<1>3. sig[x] \in Signals /\ DOMAIN sig = 0..dim * k - 1
  BY <1>2, Zenon DEF IsSignal
<1>4. NoiseOf(label, seed, All(dim), k, rank)[i][l] = Permuted(label, seed, i, k, rank, l)
  <2>1. Len(All(dim)) = dim /\ All(dim)[i + 1] = i
    BY AllIs, Zenon
  <2> QED BY <2>1, Zenon DEF NoiseOf, Permuted
<1>5. noised[x] = Byte(sig[x] + NoiseOf(label, seed, All(dim), k, rank)[x \div k][x % k])
  BY <1>2, <1>3, Zenon DEF NoiseAdded
<1>6. noised[x] = Byte(sig[x] + Permuted(label, seed, i, k, rank, l))
  BY <1>2, <1>4, <1>5, Zenon
<1>7. k \in Nat
  OBVIOUS
<1>8. sig[x] + Permuted(label, seed, i, k, rank, l) \in Bytes
  BY <1>3, <1>7, PermutedIs, Zenon
<1>9. noised[x] = sig[x] + Permuted(label, seed, i, k, rank, l)
  BY <1>6, <1>8, ByteOfByte, Zenon
<1> QED BY <1>1, <1>8, <1>9, Zenon

-----------------------------------------------------------------------------
(* What is drawn for an attempt, and what both sides make of it.           *)
Drawn(x) ==
  /\ x.m \in Nat /\ x.n \in Nat /\ x.k \in Nat \ {0} /\ x.config.rank \in Nat /\ x.config.rank >= 2
  /\ x.config.common_dim = x.k
  /\ IsPattern(x.config.rows_pattern) /\ Spans(x.config.rows_pattern, x.m) /\ x.config.rows_pattern \in x.patterns
  /\ IsPattern(x.config.cols_pattern) /\ Spans(x.config.cols_pattern, x.n) /\ x.config.cols_pattern \in x.patterns
  /\ IsSignal(x.a_sig, x.m, x.k) /\ IsSignal(x.b_sig, x.n, x.k)

KeyOf(x) == ComputeJobKey(x.header, x.config)
RootOf(x, sig) == Blake3(KeyOf(x), PadToChunkBoundary(sig))
SeedsOf(x) == ComputeCommitmentHash(KeyOf(x), RootOf(x, x.a_sig), RootOf(x, x.b_sig), x.m, x.n)

IsPrologue(p, x) ==
  /\ p.job_key = KeyOf(x) /\ p.a_noise_seed = SeedsOf(x)[2]
  /\ IsNoised(p.a_noised, x.a_sig, SEED_LABEL_A, SeedsOf(x)[2], x.m, x.k, x.config.rank)
  /\ IsNoised(p.b_noised_t, x.b_sig, SEED_LABEL_B, SeedsOf(x)[1], x.n, x.k, x.config.rank)

(* The prologue leaves the key, the seeds and both matrices with noise,    *)
(* whichever way the noise is made.                                        *)
LEMMA PrologueIs ==
  ASSUME DigestIsNumber, NEW x, Drawn(x), NEW vbmi
  PROVE  IsPrologue(Prologue(vbmi, x.m, x.n, x.k, x.header, x.config, x.a_sig, x.b_sig), x)
<1>1. PICK m, n, k, rank, a_sig, b_sig, seeds :
        m = x.m /\ n = x.n /\ k = x.k /\ rank = x.config.rank /\ a_sig = x.a_sig /\ b_sig = x.b_sig /\ seeds = SeedsOf(x)
  OBVIOUS
<1>2. /\ m \in Nat /\ n \in Nat /\ k \in Nat \ {0} /\ rank \in Nat /\ rank >= 2
      /\ IsSignal(a_sig, m, k) /\ IsSignal(b_sig, n, k)
  BY <1>1, Zenon DEF Drawn
<1>3. PICK noised : noised = AddNoiseIntoFast(vbmi, k, rank, seeds, All(m), All(n), a_sig, b_sig)
  OBVIOUS
<1>4. /\ NoiseAdded(noised.a, SEED_LABEL_A, seeds[2], All(m), k, rank, a_sig)
      /\ NoiseAdded(noised.b, SEED_LABEL_B, seeds[1], All(n), k, rank, b_sig)
  <2>1. All(m) \in Seq(Nat) /\ All(n) \in Seq(Nat) /\ Len(All(m)) = m /\ Len(All(n)) = n
    BY <1>2, AllAreNat, Zenon
  <2>2. DOMAIN a_sig = 0..Len(All(m)) * k - 1 /\ DOMAIN b_sig = 0..Len(All(n)) * k - 1
    BY <1>2, <2>1, Zenon DEF IsSignal
  <2> QED BY <1>2, <1>3, <2>1, <2>2, AddNoiseIs, Zenon
<1>5. IsNoised(noised.a, a_sig, SEED_LABEL_A, seeds[2], m, k, rank)
  BY <1>2, <1>4, NoisedIs, Zenon
<1>6. IsNoised(noised.b, b_sig, SEED_LABEL_B, seeds[1], n, k, rank)
  BY <1>2, <1>4, NoisedIs, Zenon
<1>7. PICK p : p = Prologue(vbmi, m, n, k, x.header, x.config, a_sig, b_sig)
  OBVIOUS
<1>8. p = [job_key |-> KeyOf(x), a_noise_seed |-> seeds[2], a_noised |-> noised.a, b_noised_t |-> noised.b]
  BY <1>1, <1>3, <1>7, Zenon DEF Prologue, KeyOf, SeedsOf, RootOf, All
<1>9. p.job_key = KeyOf(x) /\ p.a_noise_seed = seeds[2] /\ p.a_noised = noised.a /\ p.b_noised_t = noised.b
  BY <1>8
<1> QED BY <1>1, <1>5, <1>6, <1>7, <1>9, Zenon DEF IsPrologue

-----------------------------------------------------------------------------
(* A larger number has no smaller quotient.                                *)
LEMMA QuotientGrows ==
  ASSUME NEW p \in Nat \ {0}, NEW a \in Nat, NEW b \in Nat, a <= b
  PROVE  a \div p <= b \div p
<1>1. PICK q, r, s, t : q = a \div p /\ r = a % p /\ s = b \div p /\ t = b % p
  OBVIOUS
<1>2. q \in Nat /\ r \in 0..p - 1 /\ a = p * q + r
  BY <1>1, QuotientIn, RemainderIn, Recombine, Zenon
<1>3. s \in Nat /\ t \in 0..p - 1 /\ b = p * s + t
  BY <1>1, QuotientIn, RemainderIn, Recombine, Zenon
<1>4. s < q => p * s + p <= p * q
  BY <1>2, <1>3, Monotone, Zenon
<1>5. p * s \in Nat /\ p * q \in Nat
  BY <1>2, <1>3
<1>6. q <= s
  <2> HIDE <1>1
  <2>1. \A x, y \in Nat : a = x + r /\ b = y + t /\ (s < q => y + p <= x) => q <= s
    BY <1>2, <1>3
  <2> QED BY <1>2, <1>3, <1>4, <1>5, <2>1, Zenon
<1> QED BY <1>1, <1>6, Zenon

PaddedAt(data, x) == PadToChunkBoundary(data)[x] = data[x]

(* The padding comes after the data.                                       *)
LEMMA PaddedIs ==
  ASSUME NEW len \in Nat, NEW data, DOMAIN data = 0..len - 1, NEW x \in 0..len - 1
  PROVE  PaddedAt(data, x)
<1>1. Cardinality(DOMAIN data) = len
  <2>1. 0 \in Int /\ len - 1 \in Int
    OBVIOUS
  <2>2. Cardinality(0..len - 1) = IF 0 > len - 1 THEN 0 ELSE (len - 1) - 0 + 1
    BY <2>1, FS_Interval, Zenon
  <2>3. Cardinality(0..len - 1) = len
    BY <2>2
  <2> QED BY <2>3, Zenon
<1>2. PICK q, s, c : q = (len + Chunk - 1) \div Chunk /\ s = (len + Chunk - 1) % Chunk /\ c = Chunk
  OBVIOUS
<1>3. c \in Nat \ {0}
  BY <1>2, ChunkAssumption
<1>4. len + c - 1 \in Nat
  BY <1>3
<1>5. q \in Nat /\ s \in 0..c - 1 /\ len + c - 1 = c * q + s
  BY <1>2, <1>3, <1>4, QuotientIn, RemainderIn, Recombine, Zenon
<1>6. x \in 0..q * c - 1
  <2> HIDE <1>2
  <2>1. q * c = c * q /\ c * q \in Nat
    BY <1>3, <1>5
  <2>2. \A y \in Nat : len + c - 1 = y + s => x \in 0..y - 1
    BY <1>3, <1>5
  <2> QED BY <1>5, <2>1, <2>2, Zenon
<1>7. x < len
  OBVIOUS
<1>8. PadToChunkBoundary(data) = [y \in 0..q * c - 1 |-> IF y < len THEN data[y] ELSE 0]
  BY <1>1, <1>2, Zenon DEF PadToChunkBoundary
<1> QED BY <1>6, <1>7, <1>8, Zenon DEF PaddedAt

(* The rows that the leaves shown hold are those of the signal.            *)
ShownAt(sig, key, rows, k, u, l) ==
  ShownRows(BuildMatrixProof(sig, key, rows, k), k)[u][l] = sig[rows[u + 1] * k + l]

(* An entry of the rows shown is the one of the matrix. *)
LEMMA ShownAre ==
  ASSUME NEW list, IsList(list), NEW dim \in Nat, NEW rows, IsTile(rows, list, dim), NEW k \in Nat \ {0},
         NEW sig, IsSignal(sig, dim, k), NEW key, NEW u \in 0..Len(rows) - 1, NEW l \in 0..k - 1
  PROVE  ShownAt(sig, key, rows, k, u, l)
<1>1. PICK i : i = rows[u + 1]
  OBVIOUS
<1>2. i \in 0..dim - 1 /\ i \in ToSet(rows)
  <2>1. Len(rows) = Len(list) /\ Len(list) \in Nat /\ DOMAIN rows = 1..Len(list)
    BY Zenon DEF IsTile, IsList
  <2>2. u + 1 \in 1..Len(list)
    BY <2>1
  <2>3. \A x \in 1..Len(list) : rows[x] \in 0..dim - 1
    BY DEF IsTile
  <2> QED BY <1>1, <2>1, <2>2, <2>3, Zenon DEF ToSet
<1>3. PICK b, first, last : b = i * k + l /\ first = i * k /\ last = i * k + k - 1
  OBVIOUS
<1>4. b \in 0..dim * k - 1
  <2>1. k \in Nat
    OBVIOUS
  <2> QED BY <1>2, <1>3, <2>1, PlaceIn, Zenon
<1>5. first \in Nat /\ last \in Nat /\ b \in Nat /\ first <= b /\ b <= last
  <2>1. i * k \in Nat
    BY <1>2
  <2> HIDE <1>4
  <2>2. \A y \in Nat : b = y + l /\ first = y /\ last = y + k - 1
                         => first \in Nat /\ last \in Nat /\ b \in Nat /\ first <= b /\ b <= last
    OBVIOUS
  <2> QED BY <1>3, <2>1, <2>2, Zenon
<1>6. PICK leaf, e, c : leaf = b \div Chunk /\ e = b % Chunk /\ c = Chunk
  OBVIOUS
<1>7. c \in Nat \ {0}
  BY <1>6, ChunkAssumption
<1>8. leaf \in Nat /\ e \in 0..c - 1 /\ b = c * leaf + e
  BY <1>5, <1>6, <1>7, QuotientIn, RemainderIn, Recombine, Zenon
<1>9. leaf \in LeafIndices(rows, k)
  <2>1. PICK f, t : f = first \div c /\ t = last \div c
    OBVIOUS
  <2>2. f \in Nat /\ t \in Nat /\ f <= leaf /\ leaf <= t
    BY <1>5, <1>6, <1>7, <2>1, QuotientIn, QuotientGrows, Zenon
  <2>3. leaf \in f..t
    BY <1>8, <2>2
  <2>4. f..t \in {(y * k) \div Chunk..(y * k + k - 1) \div Chunk : y \in ToSet(rows)}
    BY <1>2, <1>3, <1>6, <2>1, Zenon
  <2> QED BY <2>3, <2>4, Zenon DEF LeafIndices
<1>10. PICK shown : shown = BuildMatrixProof(sig, key, rows, k)
  OBVIOUS
<1>11. /\ shown.row_indices = rows
       /\ shown.leaf_data = [y \in LeafIndices(rows, k) |-> [z \in 0..Chunk - 1 |-> PadToChunkBoundary(sig)[y * Chunk + z]]]
  BY <1>10, Zenon DEF BuildMatrixProof
<1>12. shown.leaf_data[leaf][e] = PadToChunkBoundary(sig)[leaf * c + e]
  <2>1. c = Chunk
    BY <1>6
  <2>2. shown.leaf_data[leaf] = [z \in 0..c - 1 |-> PadToChunkBoundary(sig)[leaf * c + z]]
    BY <1>9, <1>11, <2>1, ZenonT(60)
  <2>3. e \in 0..c - 1
    BY <1>8
  <2> QED BY <2>2, <2>3, Zenon
<1>13. leaf * c + e = b
  <2> HIDE <1>3, <1>6
  <2>1. leaf * c = c * leaf
    BY <1>7, <1>8
  <2> QED BY <1>8, <2>1, Zenon
<1>14. PadToChunkBoundary(sig)[b] = sig[b]
  <2>1. dim * k \in Nat /\ DOMAIN sig = 0..dim * k - 1
    BY DEF IsSignal
  <2> QED BY <1>4, <2>1, PaddedIs, Zenon DEF PaddedAt
<1>15. ShownRows(shown, k)[u][l] = shown.leaf_data[leaf][e]
  <2>1. ShownRows(shown, k)[u][l] = shown.leaf_data[(rows[u + 1] * k + l) \div Chunk][(rows[u + 1] * k + l) % Chunk]
    BY <1>11, Zenon DEF ShownRows
  <2> QED BY <1>1, <1>3, <1>6, <2>1, Zenon
<1> QED BY <1>1, <1>3, <1>10, <1>12, <1>13, <1>14, <1>15, Zenon DEF ShownAt

-----------------------------------------------------------------------------
(* The tile of some rows and columns: what its cells multiply, and the     *)
(* jackpot of it.                                                          *)
NoisyA(x, i, l) == x.a_sig[i * x.k + l] + Permuted(SEED_LABEL_A, SeedsOf(x)[2], i, x.k, x.config.rank, l)
NoisyB(x, i, l) == x.b_sig[i * x.k + l] + Permuted(SEED_LABEL_B, SeedsOf(x)[1], i, x.k, x.config.rank, l)

CellsOf(a_rows, b_cols) == Len(a_rows) * Len(b_cols)
RowOfCell(a_rows, b_cols, c) == a_rows[(c \div Len(b_cols)) + 1]
ColOfCell(b_cols, c) == b_cols[(c % Len(b_cols)) + 1]

TileA(x, a_rows, b_cols) ==
  [c \in 0..CellsOf(a_rows, b_cols) - 1 |-> [l \in 0..x.k - 1 |-> NoisyA(x, RowOfCell(a_rows, b_cols, c), l)]]
TileB(x, a_rows, b_cols) ==
  [c \in 0..CellsOf(a_rows, b_cols) - 1 |-> [l \in 0..x.k - 1 |-> NoisyB(x, ColOfCell(b_cols, c), l)]]

TileJackpot(x, a_rows, b_cols) ==
  JackpotOf(CellsOf(a_rows, b_cols), x.k, x.config.rank, TileA(x, a_rows, b_cols), TileB(x, a_rows, b_cols))

IsTilePair(x, a_rows, b_cols) ==
  /\ IsTile(a_rows, ToList(x.config.rows_pattern), x.m) /\ IsTile(b_cols, ToList(x.config.cols_pattern), x.n)
  /\ IsList(ToList(x.config.rows_pattern)) /\ IsList(ToList(x.config.cols_pattern))

CellIsIn(x, a_rows, b_cols, c) ==
  /\ c \div Len(b_cols) \in 0..Len(a_rows) - 1 /\ c % Len(b_cols) \in 0..Len(b_cols) - 1
  /\ RowOfCell(a_rows, b_cols, c) \in 0..x.m - 1 /\ ColOfCell(b_cols, c) \in 0..x.n - 1

PairSizes(a_rows, b_cols) == Len(a_rows) \in Nat \ {0} /\ Len(b_cols) \in Nat \ {0} /\ CellsOf(a_rows, b_cols) \in Nat

(* The cells of a tile name rows and columns of the matrices. *)
LEMMA TilePairIs ==
  ASSUME NEW x, NEW a_rows, NEW b_cols, IsTilePair(x, a_rows, b_cols)
  PROVE  /\ PairSizes(a_rows, b_cols)
         /\ \A c \in 0..CellsOf(a_rows, b_cols) - 1 : CellIsIn(x, a_rows, b_cols, c)
<1>1. PICK h, w : h = Len(a_rows) /\ w = Len(b_cols)
  OBVIOUS
<1>2. /\ h \in Nat \ {0} /\ \A i \in 1..h : a_rows[i] \in 0..x.m - 1
      /\ w \in Nat \ {0} /\ \A i \in 1..w : b_cols[i] \in 0..x.n - 1
  BY <1>1, Zenon DEF IsTilePair, IsTile, IsList
<1>3. h * w \in Nat
  BY <1>2
<1>4. ASSUME NEW c \in 0..h * w - 1 PROVE CellIsIn(x, a_rows, b_cols, c)
  <2>1. PICK u, v : u = c \div w /\ v = c % w
    OBVIOUS
  <2>2. u \in 0..h - 1 /\ v \in 0..w - 1
    <3>1. h \in Nat
      BY <1>2
    <3> QED BY <1>2, <2>1, <3>1, CellIn, Zenon
  <2>3. u + 1 \in 1..h /\ v + 1 \in 1..w
    <3> HIDE <2>1
    <3> QED BY <1>2, <2>2
  <2> QED BY <1>1, <1>2, <2>1, <2>2, <2>3, Zenon DEF CellIsIn, RowOfCell, ColOfCell
<1> QED BY <1>1, <1>2, <1>3, <1>4, Zenon DEF PairSizes, CellsOf

(* What the cells multiply are bytes.                                      *)
LEMMA NoisyIsByte ==
  ASSUME DigestIsNumber, NEW dim \in Nat, NEW k \in Nat \ {0}, NEW rank \in Nat, rank >= 2, NEW sig,
         IsSignal(sig, dim, k),
         NEW label, NEW seed, NEW i \in 0..dim - 1, NEW l \in 0..k - 1
  PROVE  sig[i * k + l] + Permuted(label, seed, i, k, rank, l) \in Bytes
<1>1. PICK y : y = i * k + l
  OBVIOUS
<1>2. k \in Nat
  OBVIOUS
<1>3. y \in 0..dim * k - 1
  BY <1>1, <1>2, PlaceIn, Zenon
<1>4. sig[y] \in Signals
  BY <1>3, Zenon DEF IsSignal
<1> QED BY <1>1, <1>2, <1>4, PermutedIs, Zenon

(* The rows of the cells are integers. *)
LEMMA TileRowsAre ==
  ASSUME DigestIsNumber, NEW x, Drawn(x), NEW a_rows, NEW b_cols, IsTilePair(x, a_rows, b_cols)
  PROVE  /\ Rows(TileA(x, a_rows, b_cols), CellsOf(a_rows, b_cols), x.k)
         /\ Rows(TileB(x, a_rows, b_cols), CellsOf(a_rows, b_cols), x.k)
<1>1. /\ x.m \in Nat /\ x.n \in Nat /\ x.k \in Nat \ {0} /\ x.config.rank \in Nat /\ x.config.rank >= 2
      /\ IsSignal(x.a_sig, x.m, x.k) /\ IsSignal(x.b_sig, x.n, x.k)
  BY Zenon DEF Drawn
<1>2. \A c \in 0..CellsOf(a_rows, b_cols) - 1 : CellIsIn(x, a_rows, b_cols, c)
  BY TilePairIs, Zenon
<1>3. \A y \in Bytes : y \in Int
  BY WordAssumption DEF Bytes
<1>4. ASSUME NEW c \in 0..CellsOf(a_rows, b_cols) - 1, NEW l \in 0..x.k - 1
      PROVE  TileA(x, a_rows, b_cols)[c][l] \in Int /\ TileB(x, a_rows, b_cols)[c][l] \in Int
  <2>1. PICK i, j : i = RowOfCell(a_rows, b_cols, c) /\ j = ColOfCell(b_cols, c)
    OBVIOUS
  <2>2. i \in 0..x.m - 1 /\ j \in 0..x.n - 1
    BY <1>2, <2>1, Zenon DEF CellIsIn
  <2>3. NoisyA(x, i, l) \in Bytes
    BY <1>1, <2>2, NoisyIsByte, Zenon DEF NoisyA
  <2>4. NoisyB(x, j, l) \in Bytes
    BY <1>1, <2>2, NoisyIsByte, Zenon DEF NoisyB
  <2>5. TileA(x, a_rows, b_cols)[c][l] = NoisyA(x, i, l)
    BY <2>1, Zenon DEF TileA
  <2>6. TileB(x, a_rows, b_cols)[c][l] = NoisyB(x, j, l)
    BY <2>1, Zenon DEF TileB
  <2> QED BY <1>3, <2>3, <2>4, <2>5, <2>6, Zenon
<1> QED BY <1>4, Zenon DEF Rows

(* The flat matrices with noise have those rows.                           *)
RowsOfCells(a_rows, b_cols) == [c \in 0..CellsOf(a_rows, b_cols) - 1 |-> RowOfCell(a_rows, b_cols, c)]
ColsOfCells(a_rows, b_cols) == [c \in 0..CellsOf(a_rows, b_cols) - 1 |-> ColOfCell(b_cols, c)]

(* The cells find their rows in the matrices with noise. *)
LEMMA NoisedRowsAre ==
  ASSUME NEW x, Drawn(x), NEW p, IsPrologue(p, x), NEW a_rows, NEW b_cols, IsTilePair(x, a_rows, b_cols)
  PROVE  /\ RowsOf(p.a_noised, RowsOfCells(a_rows, b_cols), CellsOf(a_rows, b_cols), x.k, TileA(x, a_rows, b_cols))
         /\ RowsOf(p.b_noised_t, ColsOfCells(a_rows, b_cols), CellsOf(a_rows, b_cols), x.k, TileB(x, a_rows, b_cols))
<1>1. \A c \in 0..CellsOf(a_rows, b_cols) - 1 : CellIsIn(x, a_rows, b_cols, c)
  BY TilePairIs, Zenon
<1>2. x.m \in Nat /\ x.n \in Nat
  BY Zenon DEF Drawn
<1>3. (\A i \in 0..x.m - 1 : i \in Nat) /\ (\A i \in 0..x.n - 1 : i \in Nat)
  BY <1>2
<1>4. ASSUME NEW c \in 0..CellsOf(a_rows, b_cols) - 1
      PROVE  /\ RowsOfCells(a_rows, b_cols)[c] \in Nat
             /\ IsRow(p.a_noised, RowsOfCells(a_rows, b_cols)[c], x.k, TileA(x, a_rows, b_cols), c)
             /\ ColsOfCells(a_rows, b_cols)[c] \in Nat
             /\ IsRow(p.b_noised_t, ColsOfCells(a_rows, b_cols)[c], x.k, TileB(x, a_rows, b_cols), c)
  <2>1. PICK i, j : i = RowOfCell(a_rows, b_cols, c) /\ j = ColOfCell(b_cols, c)
    OBVIOUS
  <2>2. i \in 0..x.m - 1 /\ j \in 0..x.n - 1
    BY <1>1, <2>1, Zenon DEF CellIsIn
  <2>3. RowsOfCells(a_rows, b_cols)[c] = i /\ ColsOfCells(a_rows, b_cols)[c] = j
    BY <2>1, Zenon DEF RowsOfCells, ColsOfCells
  <2>4. ASSUME NEW l \in 0..x.k - 1
        PROVE  p.a_noised[i * x.k + l] = NoisyA(x, i, l) /\ p.b_noised_t[j * x.k + l] = NoisyB(x, j, l)
    BY <2>2, Zenon DEF IsPrologue, IsNoised, NoisyA, NoisyB
  <2>5. ASSUME NEW l \in 0..x.k - 1
        PROVE  TileA(x, a_rows, b_cols)[c][l] = NoisyA(x, i, l) /\ TileB(x, a_rows, b_cols)[c][l] = NoisyB(x, j, l)
    BY <2>1, Zenon DEF TileA, TileB
  <2>6. IsRow(p.a_noised, i, x.k, TileA(x, a_rows, b_cols), c)
    BY <2>4, <2>5, Zenon DEF IsRow
  <2>7. IsRow(p.b_noised_t, j, x.k, TileB(x, a_rows, b_cols), c)
    BY <2>4, <2>5, Zenon DEF IsRow
  <2> QED BY <1>3, <2>2, <2>3, <2>6, <2>7, Zenon
<1> QED BY <1>4, Zenon DEF RowsOf

-----------------------------------------------------------------------------
(* The proof of a tile.                                                    *)
ProofOf(x, a_rows, b_cols) ==
  MakeProof(x.a_sig, x.b_sig, x.m, x.n, x.k, x.config.rank, KeyOf(x), a_rows, b_cols)

(* The verifier adds up the same entries.                                  *)
ShownOf(sig, key, rows, k) == ShownRows(BuildMatrixProof(sig, key, rows, k), k)

(* What the proof shows and the noise that the verifier makes add up to    *)
(* what the cells take.                                                    *)
LEMMA ShownAddUp ==
  ASSUME NEW list, IsList(list), NEW dim \in Nat, NEW rows, IsTile(rows, list, dim), NEW k \in Nat \ {0},
         NEW sig, IsSignal(sig, dim, k), NEW key, NEW label, NEW seed, NEW rank,
         NEW n, NEW p, \A c \in 0..n - 1 : p[c] \in 0..Len(rows) - 1,
         NEW A, \A c \in 0..n - 1, l \in 0..k - 1 :
                  A[c][l] = sig[rows[p[c] + 1] * k + l] + Permuted(label, seed, rows[p[c] + 1], k, rank, l)
  PROVE  AddsUp(ShownOf(sig, key, rows, k), NoiseOf(label, seed, rows, k, rank), p, n, k, A)
<1> SUFFICES ASSUME NEW c \in 0..n - 1, NEW l \in 0..k - 1
             PROVE  A[c][l] = ShownOf(sig, key, rows, k)[p[c]][l] + NoiseOf(label, seed, rows, k, rank)[p[c]][l]
  BY Zenon DEF AddsUp
<1>1. PICK u : u = p[c]
  OBVIOUS
<1>2. u \in 0..Len(rows) - 1
  BY <1>1, Zenon
<1>3. ShownOf(sig, key, rows, k)[u][l] = sig[rows[u + 1] * k + l]
  <2>1. ShownAt(sig, key, rows, k, u, l)
    BY <1>2, ShownAre, Zenon
  <2> QED BY <2>1, Zenon DEF ShownAt, ShownOf
<1>4. NoiseOf(label, seed, rows, k, rank)[u][l] = Permuted(label, seed, rows[u + 1], k, rank, l)
  BY <1>2, Zenon DEF NoiseOf, Permuted
<1>5. A[c][l] = sig[rows[u + 1] * k + l] + Permuted(label, seed, rows[u + 1], k, rank, l)
  BY <1>1, Zenon
<1> QED BY <1>1, <1>3, <1>4, <1>5, Zenon

(* The seeds that the verifier derives are those of the commitment.        *)
Derived(x, proof, key, a_seed, b_seed) ==
  /\ key = Blake3(0, <<x.header, proof.k, proof.noise_rank>> \o Normal(proof.a.row_indices)
                       \o <<0>> \o Normal(proof.bt.row_indices))
  /\ b_seed = Blake3(0, <<key, Blake3(SEED_SALT_B, <<proof.bt.root, proof.n>>)>>)
  /\ a_seed = Blake3(0, <<b_seed, Blake3(SEED_SALT_A, <<proof.a.root, proof.m>>)>>)

Committed(x, key, a_seed, b_seed) == key = KeyOf(x) /\ a_seed = SeedsOf(x)[2] /\ b_seed = SeedsOf(x)[1]

(* The key and the seeds that a verifier derives from the proof are those  *)
(* committed to.                                                           *)
LEMMA SeedsAre ==
  ASSUME NEW x, Drawn(x), NEW a_rows, NEW b_cols, IsTilePair(x, a_rows, b_cols),
         NEW key, NEW b_seed, NEW a_seed, Derived(x, ProofOf(x, a_rows, b_cols), key, a_seed, b_seed)
  PROVE  Committed(x, key, a_seed, b_seed)
<1>0. PICK proof : proof = ProofOf(x, a_rows, b_cols)
  OBVIOUS
<1>00. /\ key = Blake3(0, <<x.header, proof.k, proof.noise_rank>> \o Normal(proof.a.row_indices)
                           \o <<0>> \o Normal(proof.bt.row_indices))
       /\ b_seed = Blake3(0, <<key, Blake3(SEED_SALT_B, <<proof.bt.root, proof.n>>)>>)
       /\ a_seed = Blake3(0, <<b_seed, Blake3(SEED_SALT_A, <<proof.a.root, proof.m>>)>>)
  BY <1>0, Zenon DEF Derived
<1>1. PICK root_a, root_b : root_a = RootOf(x, x.a_sig) /\ root_b = RootOf(x, x.b_sig)
  OBVIOUS
<1>2. /\ proof.k = x.k /\ proof.m = x.m /\ proof.n = x.n /\ proof.noise_rank = x.config.rank
      /\ proof.a.row_indices = a_rows /\ proof.bt.row_indices = b_cols
      /\ proof.a.root = root_a /\ proof.bt.root = root_b
  BY <1>0, <1>1, Zenon DEF ProofOf, MakeProof, BuildMatrixProof, RootOf
<1>3. Normal(a_rows) = ToList(x.config.rows_pattern) /\ Normal(b_cols) = ToList(x.config.cols_pattern)
  BY Zenon DEF IsTilePair, IsTile
<1>4. x.config.common_dim = x.k
  BY Zenon DEF Drawn
<1>5. key = KeyOf(x)
  BY <1>00, <1>2, <1>3, <1>4, Zenon DEF KeyOf, ComputeJobKey
<1>6. PICK hash_a, hash_b : hash_a = Blake3(SEED_SALT_A, <<root_a, x.m>>) /\ hash_b = Blake3(SEED_SALT_B, <<root_b, x.n>>)
  OBVIOUS
<1>7. b_seed = Blake3(0, <<KeyOf(x), hash_b>>) /\ a_seed = Blake3(0, <<b_seed, hash_a>>)
  BY <1>00, <1>2, <1>5, <1>6, Zenon
<1>8. SeedsOf(x) = <<b_seed, a_seed>>
  <2>1. SeedsOf(x) = Stir(KeyOf(x), hash_a, hash_b)
    BY <1>1, <1>6, Zenon DEF SeedsOf, ComputeCommitmentHash, BindRoot
  <2> QED BY <1>7, <2>1, Zenon DEF Stir
<1>9. PICK pair : pair = SeedsOf(x)
  OBVIOUS
<1>10. pair[1] = b_seed /\ pair[2] = a_seed
  <2>1. pair = <<b_seed, a_seed>>
    BY <1>8, <1>9, Zenon
  <2> QED BY <2>1
<1> QED BY <1>5, <1>9, <1>10, Zenon DEF Committed

(* The jackpot that the verifier recomputes is the one of the tile.        *)
HashIsOfTile(x, a_rows, b_cols) ==
  ShareHash(x.header, ProofOf(x, a_rows, b_cols)) = ComputeJackpotHash(TileJackpot(x, a_rows, b_cols), SeedsOf(x)[2])

(* The hash of the share is the one of the tile. *)
LEMMA ShareHashIs ==
  ASSUME DigestIsNumber, NEW x, Drawn(x), NEW a_rows, NEW b_cols, IsTilePair(x, a_rows, b_cols)
  PROVE  HashIsOfTile(x, a_rows, b_cols)
<1>1. PICK proof, m, n, k, rank, cells, A, B :
        /\ proof = ProofOf(x, a_rows, b_cols) /\ m = x.m /\ n = x.n /\ k = x.k /\ rank = x.config.rank
        /\ cells = CellsOf(a_rows, b_cols) /\ A = TileA(x, a_rows, b_cols) /\ B = TileB(x, a_rows, b_cols)
  OBVIOUS
<1>2. /\ m \in Nat /\ n \in Nat /\ k \in Nat \ {0} /\ rank \in Nat /\ rank >= 2
      /\ IsSignal(x.a_sig, m, k) /\ IsSignal(x.b_sig, n, k)
  BY <1>1, Zenon DEF Drawn
<1>3. PICK key, b_seed, a_seed :
        /\ key = Blake3(0, <<x.header, proof.k, proof.noise_rank>> \o Normal(proof.a.row_indices)
                             \o <<0>> \o Normal(proof.bt.row_indices))
        /\ b_seed = Blake3(0, <<key, Blake3(SEED_SALT_B, <<proof.bt.root, proof.n>>)>>)
        /\ a_seed = Blake3(0, <<b_seed, Blake3(SEED_SALT_A, <<proof.a.root, proof.m>>)>>)
  OBVIOUS
<1>4. key = KeyOf(x) /\ a_seed = SeedsOf(x)[2] /\ b_seed = SeedsOf(x)[1]
  <2>1. Derived(x, ProofOf(x, a_rows, b_cols), key, a_seed, b_seed)
    BY <1>1, <1>3, Zenon DEF Derived
  <2>2. Committed(x, key, a_seed, b_seed)
    BY <2>1, SeedsAre, Zenon
  <2> QED BY <2>2, Zenon DEF Committed
<1>5. /\ proof.k = k /\ proof.noise_rank = rank /\ proof.a.row_indices = a_rows /\ proof.bt.row_indices = b_cols
      /\ proof.a = BuildMatrixProof(x.a_sig, KeyOf(x), a_rows, k) /\ proof.bt = BuildMatrixProof(x.b_sig, KeyOf(x), b_cols, k)
  <2>1. /\ proof.k = k /\ proof.noise_rank = rank
        /\ proof.a = BuildMatrixProof(x.a_sig, KeyOf(x), a_rows, k) /\ proof.bt = BuildMatrixProof(x.b_sig, KeyOf(x), b_cols, k)
    BY <1>1, Zenon DEF ProofOf, MakeProof
  <2>2. PICK a, b : a = BuildMatrixProof(x.a_sig, KeyOf(x), a_rows, k) /\ b = BuildMatrixProof(x.b_sig, KeyOf(x), b_cols, k)
    OBVIOUS
  <2>3. a.row_indices = a_rows /\ b.row_indices = b_cols
    BY <2>2, Zenon DEF BuildMatrixProof
  <2>4. proof.a = a /\ proof.bt = b
    BY <2>1, <2>2, Zenon
  <2> QED BY <2>1, <2>3, <2>4, Zenon
<1>6. PICK h, w, p, q : /\ h = Len(a_rows) /\ w = Len(b_cols)
                        /\ p = [c \in 0..cells - 1 |-> c \div w] /\ q = [c \in 0..cells - 1 |-> c % w]
  OBVIOUS
<1>7. h \in Nat /\ w \in Nat \ {0} /\ cells \in Nat /\ cells = h * w
  <2>1. PairSizes(a_rows, b_cols)
    BY TilePairIs, Zenon
  <2> QED BY <1>1, <1>6, <2>1 DEF PairSizes, CellsOf
<1>8. \A c \in 0..cells - 1 : CellIsIn(x, a_rows, b_cols, c)
  BY <1>1, TilePairIs, Zenon
<1>9. PICK sa, sb, na, nb : /\ sa = ShownOf(x.a_sig, KeyOf(x), a_rows, k) /\ sb = ShownOf(x.b_sig, KeyOf(x), b_cols, k)
                            /\ na = NoiseOf(SEED_LABEL_A, a_seed, a_rows, k, rank)
                            /\ nb = NoiseOf(SEED_LABEL_B, b_seed, b_cols, k, rank)
  OBVIOUS
<1>10. AddsUp(sa, na, p, cells, k, A)
  <2>1. \A c \in 0..cells - 1 : p[c] \in 0..Len(a_rows) - 1
    BY <1>6, <1>8, Zenon DEF CellIsIn
  <2>2. ASSUME NEW c \in 0..cells - 1, NEW l \in 0..k - 1
        PROVE  A[c][l] = x.a_sig[a_rows[p[c] + 1] * k + l] + Permuted(SEED_LABEL_A, a_seed, a_rows[p[c] + 1], k, rank, l)
    <3>1. A[c][l] = NoisyA(x, RowOfCell(a_rows, b_cols, c), l)
      BY <1>1, Zenon DEF TileA
    <3>2. RowOfCell(a_rows, b_cols, c) = a_rows[p[c] + 1]
      BY <1>6, Zenon DEF RowOfCell
    <3> QED BY <1>1, <1>4, <3>1, <3>2, Zenon DEF NoisyA
  <2>3. IsList(ToList(x.config.rows_pattern)) /\ IsTile(a_rows, ToList(x.config.rows_pattern), m)
    BY <1>1, Zenon DEF IsTilePair
  <2> QED BY <1>2, <1>9, <2>1, <2>2, <2>3, ShownAddUp, Zenon
<1>11. AddsUp(sb, nb, q, cells, k, B)
  <2>1. \A c \in 0..cells - 1 : q[c] \in 0..Len(b_cols) - 1
    BY <1>6, <1>8, Zenon DEF CellIsIn
  <2>2. ASSUME NEW c \in 0..cells - 1, NEW l \in 0..k - 1
        PROVE  B[c][l] = x.b_sig[b_cols[q[c] + 1] * k + l] + Permuted(SEED_LABEL_B, b_seed, b_cols[q[c] + 1], k, rank, l)
    <3>1. B[c][l] = NoisyB(x, ColOfCell(b_cols, c), l)
      BY <1>1, Zenon DEF TileB
    <3>2. ColOfCell(b_cols, c) = b_cols[q[c] + 1]
      BY <1>6, Zenon DEF ColOfCell
    <3> QED BY <1>1, <1>4, <3>1, <3>2, Zenon DEF NoisyB
  <2>3. IsList(ToList(x.config.cols_pattern)) /\ IsTile(b_cols, ToList(x.config.cols_pattern), n)
    BY <1>1, Zenon DEF IsTilePair
  <2> QED BY <1>2, <1>9, <2>1, <2>2, <2>3, ShownAddUp, Zenon
<1>12. Rows(A, cells, k) /\ Rows(B, cells, k)
  BY <1>1, TileRowsAre, Zenon
<1>13. Reference(h, w, k, rank, sa, sb, na, nb) = JackpotOf(cells, k, rank, A, B)
  <2>1. k \in Nat /\ rank \in Nat \ {0}
    BY <1>2
  <2>2. CellPlaces(p, q, cells, w)
    BY <1>6, Zenon DEF CellPlaces
  <2>3. IsReference(h, w, k, rank, sa, sb, na, nb, cells, A, B)
    BY <1>7, <1>10, <1>11, <1>12, <2>1, <2>2, ReferenceIs, Zenon
  <2> QED BY <2>3, Zenon DEF IsReference
<1>14. PICK noise : noise = Noise(k, rank, a_seed, b_seed, a_rows, b_cols)
  OBVIOUS
<1>15. noise.a = na /\ noise.b = nb
  BY <1>9, <1>14, NoiseIs, Zenon
<1>16. ShareHash(x.header, proof) = ComputeJackpotHash(Reference(h, w, k, rank, sa, sb, na, nb), a_seed)
  <2>1. ShareHash(x.header, proof)
          = ComputeJackpotHash(
              Reference(Len(proof.a.row_indices), Len(proof.bt.row_indices), proof.k, proof.noise_rank,
                        ShownRows(proof.a, proof.k), ShownRows(proof.bt, proof.k),
                        Noise(proof.k, proof.noise_rank, a_seed, b_seed, proof.a.row_indices, proof.bt.row_indices).a,
                        Noise(proof.k, proof.noise_rank, a_seed, b_seed, proof.a.row_indices, proof.bt.row_indices).b),
              a_seed)
    BY <1>3, Zenon DEF ShareHash
  <2>2. ShownRows(proof.a, k) = sa /\ ShownRows(proof.bt, k) = sb
    BY <1>5, <1>9, Zenon DEF ShownOf
  <2> QED BY <1>5, <1>6, <1>14, <1>15, <2>1, <2>2, Zenon
<1> QED BY <1>1, <1>4, <1>13, <1>16, Zenon DEF HashIsOfTile, TileJackpot

-----------------------------------------------------------------------------
(* The tiles of the rows and of the columns.                               *)
RowTiles(x) == ThreadsPartition(x.config.rows_pattern, x.m)
ColTiles(x) == ThreadsPartition(x.config.cols_pattern, x.n)

Meets(x, a_rows, b_cols, bound) == ComputeJackpotHash(TileJackpot(x, a_rows, b_cols), SeedsOf(x)[2]) <= bound

(* Tiles of the two patterns are a pair of tiles. *)
LEMMA PairsAre ==
  ASSUME NEW x, Drawn(x), NEW a_rows \in ToSet(RowTiles(x)), NEW b_cols \in ToSet(ColTiles(x))
  PROVE  IsTilePair(x, a_rows, b_cols)
<1>1. /\ x.m \in Nat /\ IsPattern(x.config.rows_pattern) /\ Spans(x.config.rows_pattern, x.m)
      /\ x.n \in Nat /\ IsPattern(x.config.cols_pattern) /\ Spans(x.config.cols_pattern, x.n)
  BY Zenon DEF Drawn
<1>2. /\ IsList(ToList(x.config.rows_pattern)) /\ IsTile(a_rows, ToList(x.config.rows_pattern), x.m)
      /\ IsList(ToList(x.config.cols_pattern)) /\ IsTile(b_cols, ToList(x.config.cols_pattern), x.n)
  BY <1>1, TilesLie, Zenon DEF RowTiles, ColTiles
<1> QED BY <1>2, Zenon DEF IsTilePair

(* A proof of a tile verifies when its jackpot meets the bound.            *)
Decided(x, a_rows, b_cols, bound) ==
  Verifies(x.patterns, x.header, bound, ProofOf(x, a_rows, b_cols)) <=> Meets(x, a_rows, b_cols, bound)

(* The proof shows a tile of a pattern that the pool knows. *)
LEMMA ShownIs ==
  ASSUME NEW pattern, NEW patterns, pattern \in patterns, NEW dim, NEW tile \in ToSet(ThreadsPartition(pattern, dim)),
         IsTile(tile, ToList(pattern), dim), NEW sig, NEW key, NEW k
  PROVE  Shows(BuildMatrixProof(sig, key, tile, k), patterns, dim, k)
<1>1. PICK shown : shown = BuildMatrixProof(sig, key, tile, k)
  OBVIOUS
<1>2. shown.row_indices = tile /\ DOMAIN shown.leaf_data = LeafIndices(tile, k)
  BY <1>1, Zenon DEF BuildMatrixProof
<1>3. ToList(pattern) = Normal(tile)
  BY Zenon DEF IsTile
<1>4. tile \in UNION {ToSet(ThreadsPartition(q, dim)) : q \in {q \in patterns : ToList(q) = Normal(tile)}}
  BY <1>3, Zenon
<1> QED BY <1>1, <1>2, <1>4, Zenon DEF Shows

(* The proof of a tile verifies if and only if its jackpot meets the       *)
(* bound.                                                                  *)
LEMMA VerifiesIs ==
  ASSUME DigestIsNumber, NEW x, Drawn(x), NEW a_rows \in ToSet(RowTiles(x)), NEW b_cols \in ToSet(ColTiles(x)),
         NEW bound
  PROVE  Decided(x, a_rows, b_cols, bound)
<1>1. IsTilePair(x, a_rows, b_cols)
  BY PairsAre, Zenon
<1>2. PICK proof : proof = ProofOf(x, a_rows, b_cols)
  OBVIOUS
<1>3. /\ proof.m = x.m /\ proof.n = x.n /\ proof.k = x.k
      /\ proof.a = BuildMatrixProof(x.a_sig, KeyOf(x), a_rows, x.k)
      /\ proof.bt = BuildMatrixProof(x.b_sig, KeyOf(x), b_cols, x.k)
  BY <1>2, Zenon DEF ProofOf, MakeProof
<1>4. /\ IsTile(a_rows, ToList(x.config.rows_pattern), x.m) /\ x.config.rows_pattern \in x.patterns
      /\ IsTile(b_cols, ToList(x.config.cols_pattern), x.n) /\ x.config.cols_pattern \in x.patterns
  BY <1>1, Zenon DEF IsTilePair, Drawn
<1>5. Shows(proof.a, x.patterns, proof.m, proof.k)
  <2>1. Shows(BuildMatrixProof(x.a_sig, KeyOf(x), a_rows, x.k), x.patterns, x.m, x.k)
    BY <1>4, ShownIs, Zenon DEF RowTiles
  <2> QED BY <1>3, <2>1, Zenon
<1>6. Shows(proof.bt, x.patterns, proof.n, proof.k)
  <2>1. Shows(BuildMatrixProof(x.b_sig, KeyOf(x), b_cols, x.k), x.patterns, x.n, x.k)
    BY <1>4, ShownIs, Zenon DEF ColTiles
  <2> QED BY <1>3, <2>1, Zenon
<1>7. ShareHash(x.header, proof) = ComputeJackpotHash(TileJackpot(x, a_rows, b_cols), SeedsOf(x)[2])
  BY <1>1, <1>2, ShareHashIs, Zenon DEF HashIsOfTile
<1> QED BY <1>2, <1>5, <1>6, <1>7, Zenon DEF Decided, Verifies, Meets

-----------------------------------------------------------------------------
(* A sweep of the tiles: every pair of them, each with its jackpot.        *)
IsSweep(tiles, x) ==
  /\ \A i \in DOMAIN tiles : /\ i \in Nat /\ tiles[i].a_rows \in ToSet(RowTiles(x)) /\ tiles[i].b_cols \in ToSet(ColTiles(x))
                             /\ tiles[i].msg = TileJackpot(x, tiles[i].a_rows, tiles[i].b_cols)
  /\ \A a_rows \in ToSet(RowTiles(x)), b_cols \in ToSet(ColTiles(x)) :
       \E i \in DOMAIN tiles : tiles[i].a_rows = a_rows /\ tiles[i].b_cols = b_cols

(* Cell by cell.                                                           *)
IsFlatMsg(cpu, p, x, a_rows, b_cols) ==
  TileJackpotFlat(cpu, a_rows, b_cols, p.a_noised, p.b_noised_t, x.config.rank, x.k) = TileJackpot(x, a_rows, b_cols)

(* Dot product by dot product, the words of a tile are its jackpot. *)
LEMMA FlatMsgIs ==
  ASSUME DigestIsNumber, NEW x, Drawn(x), NEW p, IsPrologue(p, x), NEW cpu, NEW a_rows, NEW b_cols,
         IsTilePair(x, a_rows, b_cols)
  PROVE  IsFlatMsg(cpu, p, x, a_rows, b_cols)
<1>1. PICK k, rank, cells, A, B, f, g :
        /\ k = x.k /\ rank = x.config.rank /\ cells = CellsOf(a_rows, b_cols)
        /\ A = TileA(x, a_rows, b_cols) /\ B = TileB(x, a_rows, b_cols)
        /\ f = RowsOfCells(a_rows, b_cols) /\ g = ColsOfCells(a_rows, b_cols)
  OBVIOUS
<1>2. k \in Nat \ {0} /\ rank \in Nat /\ rank >= 2
  BY <1>1, Zenon DEF Drawn
<1>3. k \in Nat /\ rank \in Nat \ {0}
  BY <1>2
<1>4. cells \in Nat
  BY <1>1, TilePairIs, Zenon DEF PairSizes
<1>5. Rows(A, cells, k) /\ Rows(B, cells, k)
  BY <1>1, TileRowsAre, Zenon
<1>6. RowsOf(p.a_noised, f, cells, k, A) /\ RowsOf(p.b_noised_t, g, cells, k, B)
  BY <1>1, NoisedRowsAre, Zenon
<1>7. Names(a_rows, b_cols, cells, f, g)
  BY <1>1, Zenon DEF Names, CellsOf, RowsOfCells, ColsOfCells, RowOfCell, ColOfCell
<1>8. IsTileFlat(cpu, p.a_noised, p.b_noised_t, a_rows, b_cols, cells, k, rank, A, B)
  BY <1>3, <1>4, <1>5, <1>6, <1>7, TileFlatIs, Zenon
<1> QED BY <1>1, <1>8, Zenon DEF IsTileFlat, IsFlatMsg, TileJackpotFlat, TileJackpot

(* The tiles of a pattern are numbered from 1.                             *)
LEMMA PartitionIsNumbered ==
  ASSUME NEW pattern, NEW dim \in Nat
  PROVE  /\ Len(ThreadsPartition(pattern, dim)) \in Nat
         /\ DOMAIN ThreadsPartition(pattern, dim) = 1..Len(ThreadsPartition(pattern, dim))
<1>1. PICK O, base, offsets : O = TileOffsets(pattern, dim) /\ base = ToList(pattern) /\ offsets = Sorted(O)
  OBVIOUS
<1>2. O \in SUBSET Nat /\ IsFiniteSet(O)
  BY <1>1, OffsetsAreFinite
<1>3. offsets \in Seq(O)
  BY <1>1, <1>2, SortedIs
<1>4. PICK tiles, c : tiles = ThreadsPartition(pattern, dim) /\ c = Len(offsets)
  OBVIOUS
<1>5. c \in Nat /\ DOMAIN offsets = 1..c
  BY <1>3, <1>4
<1>6. tiles = [t \in 1..c |-> [x \in DOMAIN base |-> offsets[t] + base[x]]]
  BY <1>1, <1>4, <1>5, Zenon DEF ThreadsPartition
<1>7. DOMAIN tiles = 1..c /\ Len(tiles) = c
  <2> DEFINE f(t) == [x \in DOMAIN base |-> offsets[t] + base[x]]
  <2>1. tiles = [t \in 1..c |-> f(t)]
    BY <1>6
  <2> HIDE DEF f
  <2>2. Len(tiles) = c
    BY <1>5, <2>1
  <2> QED BY <2>1, <2>2, Zenon
<1> QED BY <1>4, <1>5, <1>7, Zenon

(* So are those of the rows and of the columns. *)
LEMMA TilesNumbered ==
  ASSUME NEW x, Drawn(x)
  PROVE  /\ Len(RowTiles(x)) \in Nat /\ DOMAIN RowTiles(x) = 1..Len(RowTiles(x))
         /\ Len(ColTiles(x)) \in Nat /\ DOMAIN ColTiles(x) = 1..Len(ColTiles(x))
<1>1. x.m \in Nat /\ x.n \in Nat
  BY Zenon DEF Drawn
<1> QED BY <1>1, PartitionIsNumbered, Zenon DEF RowTiles, ColTiles

-----------------------------------------------------------------------------
(* Number i of rows by columns, in the order of a nested loop.             *)
IsNumbered(rows, cols, i) == (i - 1) \div cols \in 0..rows - 1 /\ (i - 1) % cols \in 0..cols - 1

(* Each number is a row and a column. *)
LEMMA NumberedIn ==
  ASSUME NEW rows \in Nat, NEW cols \in Nat, NEW i \in 1..rows * cols
  PROVE  IsNumbered(rows, cols, i)
<1>1. cols # 0
  <2>1. cols = 0 => rows * cols = 0
    OBVIOUS
  <2> QED BY <2>1
<1>2. i - 1 \in 0..rows * cols - 1
  <2>1. PICK n : n = rows * cols
    OBVIOUS
  <2>2. n \in Nat
    BY <2>1
  <2>3. i \in 1..n => i - 1 \in 0..n - 1
    <3> HIDE <2>1
    <3> QED BY <2>2
  <2> QED BY <2>1, <2>3, Zenon
<1>3. cols \in Nat \ {0}
  BY <1>1
<1> QED BY <1>2, <1>3, CellIn, Zenon DEF IsNumbered

NumberOf(rows, cols, t, c, i) == i \in 1..rows * cols /\ (i - 1) \div cols = t /\ (i - 1) % cols = c

(* Each row and column has a number. *)
LEMMA NumberIs ==
  ASSUME NEW rows \in Nat, NEW cols \in Nat, NEW t \in 0..rows - 1, NEW c \in 0..cols - 1
  PROVE  \E i : NumberOf(rows, cols, t, c, i)
<1>1. PICK y, n : y = t * cols + c /\ n = rows * cols
  OBVIOUS
<1>2. y \in 0..n - 1 /\ y \div cols = t /\ y % cols = c
  BY <1>1, PlaceIn, Zenon
<1>3. n \in Nat
  BY <1>1
<1>4. y + 1 \in 1..n /\ (y + 1) - 1 = y
  <2> HIDE <1>1
  <2>1. y \in 0..n - 1
    BY <1>2
  <2> HIDE <1>2
  <2> QED BY <1>3, <2>1
<1>5. NumberOf(rows, cols, t, c, y + 1)
  BY <1>1, <1>2, <1>4, Zenon DEF NumberOf
<1> QED BY <1>5, Zenon

(* Tile t of the list, counted from 0, is one of it, and each is one such. *)
LEMMA TileNumbered ==
  ASSUME NEW tiles, Len(tiles) \in Nat, DOMAIN tiles = 1..Len(tiles)
  PROVE  /\ \A t \in 0..Len(tiles) - 1 : tiles[t + 1] \in ToSet(tiles)
         /\ \A tile \in ToSet(tiles) : \E t \in 0..Len(tiles) - 1 : tile = tiles[t + 1]
<1>1. ASSUME NEW t \in 0..Len(tiles) - 1 PROVE tiles[t + 1] \in ToSet(tiles)
  <2>1. t + 1 \in DOMAIN tiles
    OBVIOUS
  <2> QED BY <2>1, Zenon DEF ToSet
<1>2. ASSUME NEW tile \in ToSet(tiles) PROVE \E t \in 0..Len(tiles) - 1 : tile = tiles[t + 1]
  <2>1. PICK i \in DOMAIN tiles : tile = tiles[i]
    BY Zenon DEF ToSet
  <2>2. i - 1 \in 0..Len(tiles) - 1 /\ (i - 1) + 1 = i
    BY <2>1
  <2> QED BY <2>1, <2>2, Zenon
<1> QED BY <1>1, <1>2, Zenon

(* The fallback sweeps the tiles.                                          *)
Fallback(cpu, p, x) == FallbackTiles(cpu, p, RowTiles(x), ColTiles(x), x.k, x.config.rank)

(* Its tiles are all the pairs, with their jackpots. *)
LEMMA FallbackIsSweep ==
  ASSUME DigestIsNumber, NEW x, Drawn(x), NEW p, IsPrologue(p, x), NEW cpu
  PROVE  IsSweep(Fallback(cpu, p, x), x)
<1>1. PICK row_tiles, col_tiles, rows, cols, tiles :
        /\ row_tiles = RowTiles(x) /\ col_tiles = ColTiles(x) /\ rows = Len(row_tiles) /\ cols = Len(col_tiles)
        /\ tiles = Fallback(cpu, p, x)
  OBVIOUS
<1>2. rows \in Nat /\ cols \in Nat /\ DOMAIN row_tiles = 1..rows /\ DOMAIN col_tiles = 1..cols
  BY <1>1, TilesNumbered, Zenon
<1>3. /\ \A t \in 0..rows - 1 : row_tiles[t + 1] \in ToSet(row_tiles)
      /\ \A tile \in ToSet(row_tiles) : \E t \in 0..rows - 1 : tile = row_tiles[t + 1]
      /\ \A t \in 0..cols - 1 : col_tiles[t + 1] \in ToSet(col_tiles)
      /\ \A tile \in ToSet(col_tiles) : \E t \in 0..cols - 1 : tile = col_tiles[t + 1]
  BY <1>1, <1>2, TileNumbered, Zenon
<1>4. DOMAIN tiles = 1..rows * cols
  BY <1>1, Zenon DEF Fallback, FallbackTiles
<1>5. ASSUME NEW i \in 1..rows * cols
      PROVE  /\ tiles[i].a_rows = row_tiles[((i - 1) \div cols) + 1] /\ tiles[i].b_cols = col_tiles[((i - 1) % cols) + 1]
             /\ tiles[i].msg = TileJackpotFlat(cpu, tiles[i].a_rows, tiles[i].b_cols, p.a_noised, p.b_noised_t, x.config.rank, x.k)
  <2>1. PICK a_rows, b_cols : a_rows = row_tiles[((i - 1) \div cols) + 1] /\ b_cols = col_tiles[((i - 1) % cols) + 1]
    OBVIOUS
  <2>2. tiles = FallbackTiles(cpu, p, row_tiles, col_tiles, x.k, x.config.rank)
    BY <1>1, Zenon DEF Fallback
  <2>3. tiles[i] = [a_rows |-> row_tiles[((i - 1) \div Len(col_tiles)) + 1], b_cols |-> col_tiles[((i - 1) % Len(col_tiles)) + 1],
                    msg |-> TileJackpotFlat(cpu, row_tiles[((i - 1) \div Len(col_tiles)) + 1], col_tiles[((i - 1) % Len(col_tiles)) + 1],
                                            p.a_noised, p.b_noised_t, x.config.rank, x.k)]
    <3>1. i \in 1..Len(row_tiles) * Len(col_tiles)
      BY <1>1, Zenon
    <3> QED BY <2>2, <3>1, Zenon DEF FallbackTiles
  <2>4. Len(col_tiles) = cols
    BY <1>1, Zenon
  <2>5. tiles[i] = [a_rows |-> a_rows, b_cols |-> b_cols,
                    msg |-> TileJackpotFlat(cpu, a_rows, b_cols, p.a_noised, p.b_noised_t, x.config.rank, x.k)]
    BY <2>1, <2>3, <2>4, Zenon
  <2>6. /\ tiles[i].a_rows = a_rows /\ tiles[i].b_cols = b_cols
        /\ tiles[i].msg = TileJackpotFlat(cpu, a_rows, b_cols, p.a_noised, p.b_noised_t, x.config.rank, x.k)
    <3>1. PICK tile, msg : tile = tiles[i] /\ msg = TileJackpotFlat(cpu, a_rows, b_cols, p.a_noised, p.b_noised_t, x.config.rank, x.k)
      OBVIOUS
    <3>2. tile = [a_rows |-> a_rows, b_cols |-> b_cols, msg |-> msg]
      BY <2>5, <3>1, Zenon
    <3>3. tile.a_rows = a_rows /\ tile.b_cols = b_cols /\ tile.msg = msg
      BY <3>2, Zenon
    <3> QED BY <3>1, <3>3, Zenon
  <2> QED BY <2>1, <2>6, Zenon
<1>6. ASSUME NEW i \in 1..rows * cols
      PROVE  /\ tiles[i].a_rows \in ToSet(row_tiles) /\ tiles[i].b_cols \in ToSet(col_tiles)
             /\ tiles[i].msg = TileJackpot(x, tiles[i].a_rows, tiles[i].b_cols)
  <2>1. IsNumbered(rows, cols, i)
    BY <1>2, NumberedIn, Zenon
  <2>2. tiles[i].a_rows \in ToSet(row_tiles) /\ tiles[i].b_cols \in ToSet(col_tiles)
    <3>1. PICK t, c : t = (i - 1) \div cols /\ c = (i - 1) % cols
      OBVIOUS
    <3>2. t \in 0..rows - 1 /\ c \in 0..cols - 1
      BY <2>1, <3>1, Zenon DEF IsNumbered
    <3>3. tiles[i].a_rows = row_tiles[t + 1] /\ tiles[i].b_cols = col_tiles[c + 1]
      BY <1>5, <3>1, Zenon
    <3>4. row_tiles[t + 1] \in ToSet(row_tiles) /\ col_tiles[c + 1] \in ToSet(col_tiles)
      BY <1>3, <3>2, Zenon
    <3> QED BY <3>3, <3>4, Zenon
  <2>3. IsTilePair(x, tiles[i].a_rows, tiles[i].b_cols)
    BY <1>1, <2>2, PairsAre, Zenon
  <2>4. IsFlatMsg(cpu, p, x, tiles[i].a_rows, tiles[i].b_cols)
    BY <2>3, FlatMsgIs, Zenon
  <2> QED BY <1>5, <2>2, <2>4, Zenon DEF IsFlatMsg
<1>7. ASSUME NEW a_rows \in ToSet(row_tiles), NEW b_cols \in ToSet(col_tiles)
      PROVE  \E i \in 1..rows * cols : tiles[i].a_rows = a_rows /\ tiles[i].b_cols = b_cols
  <2>1. PICK t \in 0..rows - 1, c \in 0..cols - 1 : a_rows = row_tiles[t + 1] /\ b_cols = col_tiles[c + 1]
    BY <1>3, Zenon
  <2>2. PICK i : NumberOf(rows, cols, t, c, i)
    BY <1>2, NumberIs, Zenon
  <2>3. i \in 1..rows * cols /\ (i - 1) \div cols = t /\ (i - 1) % cols = c
    BY <2>2, Zenon DEF NumberOf
  <2> QED BY <1>5, <2>1, <2>3, Zenon
<1>8. \A i \in 1..rows * cols : i \in Nat
  OBVIOUS
<1>9. ToSet(row_tiles) = ToSet(RowTiles(x)) /\ ToSet(col_tiles) = ToSet(ColTiles(x))
  BY <1>1, Zenon
<1>10. IsSweep(tiles, x)
  <2>1. ASSUME NEW i \in DOMAIN tiles
        PROVE  /\ i \in Nat /\ tiles[i].a_rows \in ToSet(RowTiles(x)) /\ tiles[i].b_cols \in ToSet(ColTiles(x))
               /\ tiles[i].msg = TileJackpot(x, tiles[i].a_rows, tiles[i].b_cols)
    BY <1>4, <1>6, <1>8, <1>9, Zenon
  <2>2. ASSUME NEW a_rows \in ToSet(RowTiles(x)), NEW b_cols \in ToSet(ColTiles(x))
        PROVE  \E i \in DOMAIN tiles : tiles[i].a_rows = a_rows /\ tiles[i].b_cols = b_cols
    <3>1. a_rows \in ToSet(row_tiles) /\ b_cols \in ToSet(col_tiles)
      BY <1>9, Zenon
    <3>2. PICK i \in 1..rows * cols : tiles[i].a_rows = a_rows /\ tiles[i].b_cols = b_cols
      BY <1>7, <3>1, Zenon
    <3>3. i \in DOMAIN tiles
      BY <1>4, <3>2, Zenon
    <3> QED BY <3>2, <3>3, Zenon
  <2> QED BY <2>1, <2>2, Zenon DEF IsSweep
<1> QED BY <1>1, <1>10, Zenon

-----------------------------------------------------------------------------
(* The sweep by panels visits every pair of tiles, and those of a quad lie *)
(* in it.                                                                  *)

(* A sequence is a function from 1 to its length.                          *)
LEMMA ListedIsSeq ==
  ASSUME NEW n \in Nat, NEW S, NEW f, f = [i \in 1..n |-> f[i]], \A i \in 1..n : f[i] \in S
  PROVE  f \in Seq(S) /\ Len(f) = n /\ DOMAIN f = 1..n
<1>1. f \in [1..n -> S]
  BY Zenon
<1> QED BY <1>1

IsIn(v, flat) == \E y \in DOMAIN flat : flat[y] = v

(* Whatever is in a part is in the whole.                                  *)
LEMMA FlattenHas ==
  ASSUME NEW S, NEW seqs \in Seq(Seq(S))
  PROVE  /\ FlattenSeq(seqs) \in Seq(S)
         /\ \A i \in 1..Len(seqs) : \A v : IsIn(v, seqs[i]) => IsIn(v, FlattenSeq(seqs))
<1>1. PICK flat : flat = FlattenSeq(seqs)
  OBVIOUS
<1>2. flat \in Seq(S)
  BY <1>1, FlattenIs
<1>3. PICK used : Places(used, seqs, flat)
  BY <1>1, FlattenIs
<1>4. ASSUME NEW i \in 1..Len(seqs), NEW v, IsIn(v, seqs[i]) PROVE IsIn(v, flat)
  <2>1. seqs[i] \in Seq(S) /\ i \in 0..Len(seqs) /\ i - 1 \in 0..Len(seqs)
    OBVIOUS
  <2>2. PICK x \in 1..Len(seqs[i]) : seqs[i][x] = v
    BY <1>4, <2>1 DEF IsIn
  <2>3. /\ used[i - 1] \in Nat /\ used[i] = used[i - 1] + Len(seqs[i]) /\ used[i] <= Len(flat)
        /\ flat[used[i - 1] + x] = v
    BY <1>3, <2>1, <2>2, Zenon DEF Places
  <2>4. Len(seqs[i]) \in Nat /\ Len(flat) \in Nat /\ DOMAIN flat = 1..Len(flat)
    BY <1>2, <2>1
  <2>5. used[i - 1] + x \in 1..Len(flat)
    BY <2>2, <2>3, <2>4
  <2> QED BY <2>3, <2>4, <2>5, Zenon DEF IsIn
<1> QED BY <1>1, <1>2, <1>4, Zenon

Visits(rows, cols) ==
  {v \in [t : 0..rows - 1, ci : 0..cols - 1, first : Nat, quad : BOOLEAN] : v.t - v.first \in 0..3}

PanelFrom(panel, p) == (p - 1) * panel
PanelTo(panel, rows, p) == IF PanelFrom(panel, p) + panel < rows THEN PanelFrom(panel, p) + panel ELSE rows
QuadFrom(from, x) == from + ((x - 1) \div 4) * 4
VisitOf(from, to, ci, x) ==
  [t |-> from + x - 1, ci |-> ci - 1, first |-> QuadFrom(from, x), quad |-> QuadFrom(from, x) + 4 <= to]
PartOf(from, to, ci) == [x \in 1..to - from |-> VisitOf(from, to, ci, x)]
PanelOf(from, to, cols) == FlattenSeq([ci \in 1..cols |-> PartOf(from, to, ci)])
PanelCount(panel, rows) == (rows + panel - 1) \div panel

(* The sweep, in the parts it is made of. *)
LEMMA PanelSweepIs ==
  ASSUME NEW panel, NEW rows, NEW cols
  PROVE  PanelSweep(panel, rows, cols)
           = FlattenSeq([p \in 1..PanelCount(panel, rows) |-> PanelOf(PanelFrom(panel, p), PanelTo(panel, rows, p), cols)])
BY Zenon DEF PanelSweep, PanelOf, PartOf, VisitOf, QuadFrom, PanelFrom, PanelTo, PanelCount

(* A visit is of a tile of the panel, at most three after the first of its *)
(* quad.                                                                   *)
LEMMA VisitIs ==
  ASSUME NEW rows \in Nat, NEW cols \in Nat, NEW from \in Nat, NEW to \in Nat, to <= rows, NEW ci \in 1..cols,
         NEW x \in 1..to - from
  PROVE  VisitOf(from, to, ci, x) \in Visits(rows, cols)
<1>1. PICK q, r, y, f : q = (x - 1) \div 4 /\ r = (x - 1) % 4 /\ y = x - 1 /\ f = QuadFrom(from, x)
  OBVIOUS
<1>2. y \in Nat /\ 4 \in Nat \ {0}
  BY <1>1
<1>3. q \in Nat /\ r \in 0..3 /\ y = 4 * q + r
  <2>1. q \in Nat /\ r \in 0..4 - 1 /\ y = 4 * q + r
    BY <1>1, <1>2, QuotientIn, RemainderIn, Recombine, Zenon
  <2> QED BY <2>1
<1>4. f = from + q * 4
  BY <1>1, Zenon DEF QuadFrom
<1>5. f \in Nat /\ (from + x - 1) - f \in 0..3 /\ from + x - 1 \in 0..rows - 1 /\ ci - 1 \in 0..cols - 1
  <2> DEFINE t == from + x - 1
  <2>1. y = x - 1
    BY <1>1
  <2> HIDE <1>1
  <2> QED BY <1>2, <1>3, <1>4, <2>1
<1>6. PICK v, t, c, b : /\ v = VisitOf(from, to, ci, x) /\ t = from + x - 1 /\ c = ci - 1
                        /\ b = (QuadFrom(from, x) + 4 <= to)
  OBVIOUS
<1>7. v = [t |-> t, ci |-> c, first |-> f, quad |-> b]
  BY <1>1, <1>6, Zenon DEF VisitOf
<1>8. b \in BOOLEAN
  BY <1>6
<1>9. v \in Visits(rows, cols)
  <2> HIDE <1>1, <1>4
  <2>1. t \in 0..rows - 1 /\ c \in 0..cols - 1 /\ f \in Nat /\ t - f \in 0..3
    BY <1>5, <1>6
  <2> HIDE <1>6, <1>5, <1>3
  <2> QED BY <1>7, <1>8, <2>1 DEF Visits
<1> QED BY <1>6, <1>9, Zenon

(* The visits of one column of a panel. *)
LEMMA PartIs ==
  ASSUME NEW rows \in Nat, NEW cols \in Nat, NEW from \in Nat, NEW to \in Nat, to <= rows, NEW ci \in 1..cols
  PROVE  /\ PartOf(from, to, ci) \in Seq(Visits(rows, cols))
         /\ \A x \in 1..to - from : IsIn(VisitOf(from, to, ci, x), PartOf(from, to, ci))
<1>1. PICK part, len : part = PartOf(from, to, ci) /\ len = IF from <= to THEN to - from ELSE 0
  OBVIOUS
<1>2. len \in Nat /\ 1..to - from = 1..len
  BY <1>1
<1>3. part = [x \in 1..len |-> VisitOf(from, to, ci, x)]
  BY <1>1, <1>2, Zenon DEF PartOf
<1>4. ASSUME NEW x \in 1..len PROVE part[x] = VisitOf(from, to, ci, x) /\ part[x] \in Visits(rows, cols)
  BY <1>2, <1>3, VisitIs, Zenon
<1>5. part = [x \in 1..len |-> part[x]]
  BY <1>3, Zenon
<1>6. part \in Seq(Visits(rows, cols)) /\ DOMAIN part = 1..len
  BY <1>2, <1>4, <1>5, ListedIsSeq, Zenon
<1> QED BY <1>1, <1>2, <1>4, <1>6, Zenon DEF IsIn

(* The visits of a panel. *)
LEMMA PanelIs ==
  ASSUME NEW rows \in Nat, NEW cols \in Nat, NEW from \in Nat, NEW to \in Nat, to <= rows
  PROVE  /\ PanelOf(from, to, cols) \in Seq(Visits(rows, cols))
         /\ \A ci \in 1..cols, x \in 1..to - from : IsIn(VisitOf(from, to, ci, x), PanelOf(from, to, cols))
<1>1. PICK parts : parts = [ci \in 1..cols |-> PartOf(from, to, ci)]
  OBVIOUS
<1>2. ASSUME NEW ci \in 1..cols PROVE parts[ci] = PartOf(from, to, ci) /\ parts[ci] \in Seq(Visits(rows, cols))
  BY <1>1, PartIs, Zenon
<1>3. parts = [ci \in 1..cols |-> parts[ci]]
  BY <1>1, Zenon
<1>4. parts \in Seq(Seq(Visits(rows, cols))) /\ Len(parts) = cols
  BY <1>2, <1>3, ListedIsSeq, Zenon
<1>5. /\ FlattenSeq(parts) \in Seq(Visits(rows, cols))
      /\ \A ci \in 1..cols : \A v : IsIn(v, parts[ci]) => IsIn(v, FlattenSeq(parts))
  BY <1>4, FlattenHas, Zenon
<1>6. FlattenSeq(parts) = PanelOf(from, to, cols)
  BY <1>1, Zenon DEF PanelOf
<1>7. ASSUME NEW ci \in 1..cols, NEW x \in 1..to - from PROVE IsIn(VisitOf(from, to, ci, x), PanelOf(from, to, cols))
  <2>1. IsIn(VisitOf(from, to, ci, x), parts[ci])
    BY <1>2, PartIs, ZenonT(60)
  <2> QED BY <1>5, <1>6, <2>1, Zenon
<1> QED BY <1>5, <1>6, <1>7, Zenon

-----------------------------------------------------------------------------
(* Where a tile lies in the panels.                                        *)
InPanel(panel, rows, t, p, x) ==
  /\ p \in 1..PanelCount(panel, rows) /\ x \in 1..PanelTo(panel, rows, p) - PanelFrom(panel, p)
  /\ PanelFrom(panel, p) + x - 1 = t

(* Every tile lies in some panel. *)
LEMMA PanelHolds ==
  ASSUME NEW panel \in Nat \ {0}, NEW rows \in Nat, NEW t \in 0..rows - 1
  PROVE  \E p, x : InPanel(panel, rows, t, p, x)
<1>1. PICK q, r, s, all : q = t \div panel /\ r = t % panel /\ s = panel * (q + 1) /\ all = rows + panel - 1
  OBVIOUS
<1>2. t \in Nat
  OBVIOUS
<1>3. q \in Nat /\ r \in 0..panel - 1 /\ t = panel * q + r
  BY <1>1, <1>2, QuotientIn, RemainderIn, Recombine, Zenon
<1>4. panel * q \in Nat /\ panel * (q + 1) = panel * q + panel
  BY <1>3
<1>5. all \in Nat /\ s \in Nat /\ s <= all /\ s + 0 = s /\ 0 \in 0..panel - 1 /\ q + 1 \in Nat
  <2>1. all = rows + panel - 1 /\ s = panel * q + panel
    BY <1>1, <1>4
  <2>2. \A y \in Nat : t = y + r => y + panel <= rows + panel - 1 /\ y + panel \in Nat
    BY <1>3
  <2>3. s <= all /\ s \in Nat
    <3> HIDE <1>1
    <3>1. panel * q + panel <= rows + panel - 1 /\ panel * q + panel \in Nat
      BY <1>3, <1>4, <2>2, Zenon
    <3> QED BY <2>1, <3>1, Zenon
  <2>4. all \in Nat
    BY <2>1
  <2>5. s + 0 = s /\ 0 \in 0..panel - 1 /\ q + 1 \in Nat
    <3> HIDE <1>1
    <3> QED BY <1>3, <2>3
  <2> QED BY <2>3, <2>4, <2>5, Zenon
<1>6. s \div panel = q + 1
  <2>1. (panel * (q + 1) + 0) \div panel = q + 1
    BY <1>5, QuotientOf, Zenon
  <2> QED BY <1>1, <1>5, <2>1, Zenon
<1>7. PICK c : c = PanelCount(panel, rows)
  OBVIOUS
<1>8. q + 1 <= c /\ c \in Nat
  <2>1. s \div panel <= all \div panel
    BY <1>5, QuotientGrows, Zenon
  <2>2. c = all \div panel
    BY <1>1, <1>7, Zenon DEF PanelCount
  <2>3. c \in Nat
    BY <1>5, <2>2, QuotientIn, Zenon
  <2> QED BY <1>6, <2>1, <2>2, <2>3, Zenon
<1>9. q + 1 \in 1..c
  <2> HIDE <1>1, <1>7
  <2> QED BY <1>3, <1>8
<1>10. PanelFrom(panel, q + 1) = panel * q
  <2>1. (q + 1) - 1 = q /\ q * panel = panel * q
    BY <1>3
  <2> QED BY <2>1, Zenon DEF PanelFrom
<1>11. PICK from, to : from = PanelFrom(panel, q + 1) /\ to = PanelTo(panel, rows, q + 1)
  OBVIOUS
<1>12. from \in Nat /\ t = from + r
  BY <1>3, <1>4, <1>10, <1>11, Zenon
<1>13. to = IF from + panel < rows THEN from + panel ELSE rows
  BY <1>11, Zenon DEF PanelTo
<1>14. r + 1 \in 1..to - from /\ from + (r + 1) - 1 = t
  <2> HIDE <1>1, <1>11
  <2> QED BY <1>3, <1>12, <1>13
<1>15. InPanel(panel, rows, t, q + 1, r + 1)
  BY <1>7, <1>9, <1>11, <1>14, Zenon DEF InPanel
<1> QED BY <1>15, Zenon

(* A panel ends at its last row, or at the last of all. *)
LEMMA PanelBounds ==
  ASSUME NEW panel \in Nat \ {0}, NEW rows \in Nat, NEW p \in Nat \ {0}
  PROVE  PanelFrom(panel, p) \in Nat /\ (PanelFrom(panel, p) < rows => PanelTo(panel, rows, p) \in Nat)
         /\ PanelTo(panel, rows, p) <= rows /\ PanelTo(panel, rows, p) \in Nat
<1>1. PICK from, to : from = PanelFrom(panel, p) /\ to = PanelTo(panel, rows, p)
  OBVIOUS
<1>2. from \in Nat
  <2>1. p - 1 \in Nat
    OBVIOUS
  <2>2. (p - 1) * panel \in Nat
    BY <2>1
  <2> QED BY <1>1, <2>2, Zenon DEF PanelFrom
<1>3. to = IF from + panel < rows THEN from + panel ELSE rows
  BY <1>1, Zenon DEF PanelTo
<1>4. to \in Nat /\ to <= rows
  <2> HIDE <1>1
  <2> QED BY <1>2, <1>3
<1> QED BY <1>1, <1>2, <1>4, Zenon

Visited(flat, t, c) == \E y \in DOMAIN flat : flat[y].t = t /\ flat[y].ci = c

(* Every pair of tiles is visited. *)
LEMMA SweepIs ==
  ASSUME NEW panel \in Nat \ {0}, NEW rows \in Nat, NEW cols \in Nat
  PROVE  /\ PanelSweep(panel, rows, cols) \in Seq(Visits(rows, cols))
         /\ \A t \in 0..rows - 1, c \in 0..cols - 1 : Visited(PanelSweep(panel, rows, cols), t, c)
<1>1. PICK n, panels, flat :
        /\ n = PanelCount(panel, rows) /\ flat = PanelSweep(panel, rows, cols)
        /\ panels = [p \in 1..n |-> PanelOf(PanelFrom(panel, p), PanelTo(panel, rows, p), cols)]
  OBVIOUS
<1>2. n \in Nat
  <2>1. PICK all : all = rows + panel - 1
    OBVIOUS
  <2>2. all \in Nat
    BY <2>1
  <2>3. n = all \div panel
    BY <1>1, <2>1, Zenon DEF PanelCount
  <2> QED BY <2>2, <2>3, QuotientIn, Zenon
<1>3. ASSUME NEW p \in 1..n PROVE p \in Nat \ {0}
  <2> HIDE <1>1
  <2> QED BY <1>2
<1>4. ASSUME NEW p \in 1..n
      PROVE  /\ panels[p] \in Seq(Visits(rows, cols))
             /\ \A ci \in 1..cols, x \in 1..PanelTo(panel, rows, p) - PanelFrom(panel, p) :
                  IsIn(VisitOf(PanelFrom(panel, p), PanelTo(panel, rows, p), ci, x), panels[p])
  <2>1. PICK from, to : from = PanelFrom(panel, p) /\ to = PanelTo(panel, rows, p)
    OBVIOUS
  <2>2. from \in Nat /\ to \in Nat /\ to <= rows
    BY <1>3, <2>1, PanelBounds, Zenon
  <2>3. panels[p] = PanelOf(from, to, cols)
    BY <1>1, <2>1, Zenon
  <2>4. /\ PanelOf(from, to, cols) \in Seq(Visits(rows, cols))
        /\ \A ci \in 1..cols, x \in 1..to - from : IsIn(VisitOf(from, to, ci, x), PanelOf(from, to, cols))
    BY <2>2, PanelIs, Zenon
  <2> QED BY <2>1, <2>3, <2>4, Zenon
<1>5. panels = [p \in 1..n |-> panels[p]]
  BY <1>1, Zenon
<1>6. panels \in Seq(Seq(Visits(rows, cols))) /\ Len(panels) = n
  BY <1>2, <1>4, <1>5, ListedIsSeq, Zenon
<1>7. FlattenSeq(panels) = flat
  BY <1>1, PanelSweepIs, Zenon
<1>8. /\ flat \in Seq(Visits(rows, cols))
      /\ \A p \in 1..n : \A v : IsIn(v, panels[p]) => IsIn(v, flat)
  BY <1>6, <1>7, FlattenHas, Zenon
<1>9. ASSUME NEW t \in 0..rows - 1, NEW c \in 0..cols - 1 PROVE Visited(flat, t, c)
  <2>1. PICK p, x : InPanel(panel, rows, t, p, x)
    BY PanelHolds, Zenon
  <2>2. PICK from, to : from = PanelFrom(panel, p) /\ to = PanelTo(panel, rows, p)
    OBVIOUS
  <2>3. p \in 1..n /\ x \in 1..to - from /\ from + x - 1 = t
    BY <1>1, <2>1, <2>2, Zenon DEF InPanel
  <2>4. c + 1 \in 1..cols /\ (c + 1) - 1 = c
    OBVIOUS
  <2>5. PICK v : v = VisitOf(from, to, c + 1, x)
    OBVIOUS
  <2>6. IsIn(v, flat)
    <3>1. IsIn(v, panels[p])
      BY <1>4, <2>2, <2>3, <2>4, <2>5, Zenon
    <3> QED BY <1>8, <2>3, <3>1, Zenon
  <2>7. v.t = t /\ v.ci = c
    <3>1. PICK f, b : f = QuadFrom(from, x) /\ b = (QuadFrom(from, x) + 4 <= to)
      OBVIOUS
    <3>2. v = [t |-> t, ci |-> c, first |-> f, quad |-> b]
      BY <2>3, <2>4, <2>5, <3>1, Zenon DEF VisitOf
    <3> QED BY <3>2, Zenon
  <2> QED BY <2>6, <2>7, Zenon DEF IsIn, Visited
<1> QED BY <1>1, <1>8, <1>9, Zenon

-----------------------------------------------------------------------------
(* The matrices in the order of the tiles: row u of tile t is row t * h + u *)
(* of them.                                                                 *)
IsTiled(tiled, h, n, noised, tiles, k) ==
  \A y \in 0..n * h * k - 1 : tiled[y] = noised[tiles[(y \div (h * k)) + 1][((y \div k) % h) + 1] * k + (y % k)]

IsPlace(h, n, k, t, u, l, y) ==
  y \in 0..n * h * k - 1 /\ y \div (h * k) = t /\ (y \div k) % h = u /\ y % k = l

(* Where row u of tile t has its column l. *)
LEMMA PlaceInTiles ==
  ASSUME NEW h \in Nat \ {0}, NEW k \in Nat \ {0}, NEW n \in Nat, NEW t \in 0..n - 1, NEW u \in 0..h - 1,
         NEW l \in 0..k - 1
  PROVE  IsPlace(h, n, k, t, u, l, (t * h + u) * k + l)
<1>1. PICK z, all, y : z = t * h + u /\ all = n * h /\ y = z * k + l
  OBVIOUS
<1>2. h \in Nat /\ k \in Nat
  OBVIOUS
<1>3. z \in 0..all - 1 /\ z \div h = t /\ z % h = u
  BY <1>1, <1>2, PlaceIn, ZenonT(60)
<1>4. all \in Nat
  <2>1. n * h \in Nat
    OBVIOUS
  <2> QED BY <1>1, <2>1
<1>5. y \in 0..all * k - 1 /\ y \div k = z /\ y % k = l
  <2>1. z * k + l \in 0..all * k - 1 /\ (z * k + l) \div k = z /\ (z * k + l) % k = l
    BY <1>2, <1>3, <1>4, PlaceIn, ZenonT(60)
  <2> QED BY <1>1, <2>1, Zenon
<1>6. y \in Nat
  <2>1. all * k \in Nat
    BY <1>4
  <2>2. y \in 0..all * k - 1
    BY <1>5
  <2> HIDE <1>1, <1>5, <1>3
  <2> QED BY <2>1, <2>2
<1>7. y \div (k * h) = (y \div k) \div h
  BY <1>6, DivideByProduct, Zenon
<1>8. k * h = h * k
  OBVIOUS
<1>9. y \div (h * k) = t
  BY <1>3, <1>5, <1>7, <1>8, Zenon
<1> QED BY <1>1, <1>3, <1>5, <1>9, Zenon DEF IsPlace

(* Row t * h + u.                                                          *)
IsTiledRow(tiled, h, noised, tiles, k, t, u) ==
  \A l \in 0..k - 1 : tiled[(t * h + u) * k + l] = noised[tiles[t + 1][u + 1] * k + l]

(* It is row u of tile t. *)
LEMMA TiledRowIs ==
  ASSUME NEW h \in Nat \ {0}, NEW k \in Nat \ {0}, NEW n \in Nat, NEW t \in 0..n - 1, NEW u \in 0..h - 1,
         NEW tiled, NEW noised, NEW tiles, IsTiled(tiled, h, n, noised, tiles, k)
  PROVE  IsTiledRow(tiled, h, noised, tiles, k, t, u)
<1>1. ASSUME NEW l \in 0..k - 1 PROVE tiled[(t * h + u) * k + l] = noised[tiles[t + 1][u + 1] * k + l]
  <2>1. PICK y : y = (t * h + u) * k + l
    OBVIOUS
  <2>2. IsPlace(h, n, k, t, u, l, y)
    BY <2>1, PlaceInTiles, Zenon
  <2>3. y \in 0..n * h * k - 1 /\ y \div (h * k) = t /\ (y \div k) % h = u /\ y % k = l
    BY <2>2, Zenon DEF IsPlace
  <2>4. tiled[y] = noised[tiles[(y \div (h * k)) + 1][((y \div k) % h) + 1] * k + (y % k)]
    BY <2>3, Zenon DEF IsTiled
  <2>5. tiled[y] = noised[tiles[t + 1][u + 1] * k + l]
    <3>1. PICK a, b, c : a = y \div (h * k) /\ b = (y \div k) % h /\ c = y % k
      OBVIOUS
    <3>2. tiled[y] = noised[tiles[a + 1][b + 1] * k + c]
      BY <2>4, <3>1, Zenon
    <3>3. a = t /\ b = u /\ c = l
      BY <2>3, <3>1, Zenon
    <3> QED BY <3>2, <3>3, Zenon
  <2> QED BY <2>1, <2>5, Zenon
<1> QED BY <1>1, Zenon DEF IsTiledRow

(* The buffers of the fast path.                                           *)
ATiled(p, x) ==
  [y \in 0..2 * Len(RowTiles(x)) * x.k - 1 |->
     p.a_noised[RowTiles(x)[(y \div (2 * x.k)) + 1][((y \div x.k) % 2) + 1] * x.k + (y % x.k)]]
BAll(p, x) ==
  [y \in 0..Len(ColTiles(x)) * TileWidth * x.k - 1 |->
     p.b_noised_t[ColTiles(x)[(y \div (TileWidth * x.k)) + 1][((y \div x.k) % TileWidth) + 1] * x.k + (y % x.k)]]

(* They are in the order of the tiles. *)
LEMMA TiledAre ==
  ASSUME NEW x, Drawn(x), NEW p
  PROVE  /\ IsTiled(ATiled(p, x), 2, Len(RowTiles(x)), p.a_noised, RowTiles(x), x.k)
         /\ IsTiled(BAll(p, x), TileWidth, Len(ColTiles(x)), p.b_noised_t, ColTiles(x), x.k)
<1>1. PICK rows : rows = Len(RowTiles(x))
  OBVIOUS
<1>2. rows \in Nat
  BY <1>1, TilesNumbered, Zenon
<1>3. rows * 2 = 2 * rows
  BY <1>2
<1>4. 0..Len(RowTiles(x)) * 2 * x.k - 1 = 0..2 * Len(RowTiles(x)) * x.k - 1
  BY <1>1, <1>3, Zenon
<1> QED BY <1>4, Zenon DEF IsTiled, ATiled, BAll

-----------------------------------------------------------------------------
(* Tiles of the shape of the fast path: 2 rows and TileWidth columns.      *)
IsFast(x, a_rows, b_cols) ==
  IsTilePair(x, a_rows, b_cols) /\ Len(a_rows) = 2 /\ Len(b_cols) = TileWidth /\ CellsOf(a_rows, b_cols) = Cells

FastSizes(x) == Len(ToList(x.config.rows_pattern)) = 2 /\ Len(ToList(x.config.cols_pattern)) = TileWidth

(* When the patterns have those sizes, all the tiles are of that shape. *)
LEMMA FastIs ==
  ASSUME NEW x, Drawn(x), FastSizes(x), NEW a_rows \in ToSet(RowTiles(x)), NEW b_cols \in ToSet(ColTiles(x))
  PROVE  IsFast(x, a_rows, b_cols)
<1>1. IsTilePair(x, a_rows, b_cols)
  BY PairsAre, Zenon
<1>2. Len(a_rows) = 2 /\ Len(b_cols) = TileWidth
  BY <1>1, Zenon DEF IsTilePair, IsTile, FastSizes
<1>3. CellsOf(a_rows, b_cols) = Cells
  BY <1>2, Zenon DEF CellsOf, Cells
<1> QED BY <1>1, <1>2, <1>3, Zenon DEF IsFast

(* Where the cells of tile t, and of tile ci of the columns, have their row *)
(* and column.                                                              *)
RowPlaces(t) == [c \in 0..Cells - 1 |-> t * 2 + (c \div TileWidth)]
ColPlaces(ci) == [c \in 0..Cells - 1 |-> ci * TileWidth + (c % TileWidth)]

(* The cells find their rows in the buffers of the fast path. *)
LEMMA TiledRowsAre ==
  ASSUME NEW x, Drawn(x), NEW p, IsPrologue(p, x), NEW t \in 0..Len(RowTiles(x)) - 1,
         NEW ci \in 0..Len(ColTiles(x)) - 1,
         NEW a_rows, NEW b_cols, IsFast(x, a_rows, b_cols), a_rows = RowTiles(x)[t + 1], b_cols = ColTiles(x)[ci + 1]
  PROVE  /\ RowsOf(ATiled(p, x), RowPlaces(t), Cells, x.k, TileA(x, a_rows, b_cols))
         /\ RowsOf(BAll(p, x), ColPlaces(ci), Cells, x.k, TileB(x, a_rows, b_cols))
<1>1. PICK k, rows, cols, w, A, B :
        /\ k = x.k /\ rows = Len(RowTiles(x)) /\ cols = Len(ColTiles(x)) /\ w = TileWidth
        /\ A = TileA(x, a_rows, b_cols) /\ B = TileB(x, a_rows, b_cols)
  OBVIOUS
<1>2. k \in Nat \ {0} /\ rows \in Nat /\ cols \in Nat /\ w \in Nat \ {0} /\ 2 \in Nat \ {0}
  <2>1. k \in Nat \ {0}
    BY <1>1, Zenon DEF Drawn
  <2>2. rows \in Nat /\ cols \in Nat
    BY <1>1, TilesNumbered, Zenon
  <2>3. w \in Nat \ {0}
    BY <1>1, TileOfLanes, Zenon
  <2> QED BY <2>1, <2>2, <2>3
<1>3. /\ RowsOf(p.a_noised, RowsOfCells(a_rows, b_cols), Cells, k, A)
      /\ RowsOf(p.b_noised_t, ColsOfCells(a_rows, b_cols), Cells, k, B)
  <2>1. IsTilePair(x, a_rows, b_cols) /\ CellsOf(a_rows, b_cols) = Cells
    BY Zenon DEF IsFast
  <2>2. /\ RowsOf(p.a_noised, RowsOfCells(a_rows, b_cols), CellsOf(a_rows, b_cols), x.k, TileA(x, a_rows, b_cols))
        /\ RowsOf(p.b_noised_t, ColsOfCells(a_rows, b_cols), CellsOf(a_rows, b_cols), x.k, TileB(x, a_rows, b_cols))
    BY <2>1, NoisedRowsAre, Zenon
  <2> QED BY <1>1, <2>1, <2>2, Zenon
<1>4. /\ IsTiled(ATiled(p, x), 2, rows, p.a_noised, RowTiles(x), k)
      /\ IsTiled(BAll(p, x), w, cols, p.b_noised_t, ColTiles(x), k)
  BY <1>1, TiledAre, Zenon
<1>5. ASSUME NEW c \in 0..Cells - 1
      PROVE  /\ RowPlaces(t)[c] \in Nat /\ IsRow(ATiled(p, x), RowPlaces(t)[c], k, A, c)
             /\ ColPlaces(ci)[c] \in Nat /\ IsRow(BAll(p, x), ColPlaces(ci)[c], k, B, c)
  <2>1. PICK u, j : u = c \div w /\ j = c % w
    OBVIOUS
  <2>2. u \in 0..2 - 1 /\ j \in 0..w - 1
    <3>1. u \in 0..1 /\ j \in 0..w - 1
      BY <1>1, <2>1, CellOf, Zenon
    <3> QED BY <3>1
  <2>3. RowPlaces(t)[c] = t * 2 + u /\ ColPlaces(ci)[c] = ci * w + j
    BY <1>1, <2>1, Zenon DEF RowPlaces, ColPlaces
  <2>4. t * 2 + u \in Nat /\ ci * w + j \in Nat
    <3>1. t \in Nat /\ ci \in Nat
      OBVIOUS
    <3>2. t * 2 \in Nat /\ ci * w \in Nat
      BY <1>2, <3>1
    <3> HIDE <1>1, <2>1
    <3> QED BY <2>2, <3>2
  <2>5. IsTiledRow(ATiled(p, x), 2, p.a_noised, RowTiles(x), k, t, u)
    BY <1>1, <1>2, <1>4, <2>2, TiledRowIs, Zenon
  <2>6. IsTiledRow(BAll(p, x), w, p.b_noised_t, ColTiles(x), k, ci, j)
    BY <1>1, <1>2, <1>4, <2>2, TiledRowIs, Zenon
  <2>7. RowsOfCells(a_rows, b_cols)[c] = a_rows[u + 1] /\ ColsOfCells(a_rows, b_cols)[c] = b_cols[j + 1]
    <3>1. CellsOf(a_rows, b_cols) = Cells /\ Len(b_cols) = w
      BY <1>1, Zenon DEF IsFast
    <3> QED BY <2>1, <3>1, Zenon DEF RowsOfCells, ColsOfCells, RowOfCell, ColOfCell
  <2>8. IsRow(p.a_noised, a_rows[u + 1], k, A, c) /\ IsRow(p.b_noised_t, b_cols[j + 1], k, B, c)
    BY <1>3, <2>7, Zenon DEF RowsOf
  <2>9. IsRow(ATiled(p, x), t * 2 + u, k, A, c)
    BY <2>5, <2>8, Zenon DEF IsTiledRow, IsRow
  <2>10. IsRow(BAll(p, x), ci * w + j, k, B, c)
    BY <2>6, <2>8, Zenon DEF IsTiledRow, IsRow
  <2> QED BY <2>3, <2>4, <2>9, <2>10, Zenon
<1> QED BY <1>1, <1>5, Zenon DEF RowsOf

-----------------------------------------------------------------------------
(* Where the kernels find the columns of tile ci.                          *)
GroupHolds(p, x, lanes, ci, B) ==
  LET base == ci * (TileWidth \div lanes)
  IN base \in Nat /\ Below(base, lanes, Len(ColTiles(x)) * TileWidth) /\ ColumnsOf(BAll(p, x), base, lanes, x.k, B)

(* They are the consecutive groups of the packed matrix. *)
LEMMA GroupIs ==
  ASSUME NEW x, Drawn(x), NEW p, NEW ci \in 0..Len(ColTiles(x)) - 1, NEW lanes \in Nat \ {0}, NEW g \in Nat \ {0},
         TileOf(lanes, g),
         NEW B, RowsOf(BAll(p, x), ColPlaces(ci), Cells, x.k, B)
  PROVE  GroupHolds(p, x, lanes, ci, B)
<1>1. PICK base, c0, w, cols : base = ci * (TileWidth \div lanes) /\ c0 = ci * TileWidth /\ w = TileWidth /\ cols = Len(ColTiles(x))
  OBVIOUS
<1>2. cols \in Nat /\ w \in Nat /\ ci \in Nat
  <2>1. cols \in Nat
    BY <1>1, TilesNumbered, Zenon
  <2>2. w \in Nat
    BY <1>1, TileOfLanes
  <2> QED BY <2>1, <2>2
<1>3. base \in Nat /\ base * lanes = c0
  BY <1>1, <1>2, GroupOf, Zenon
<1>4. Below(base, lanes, cols * w)
  <2>1. ci * w + w <= cols * w
    <3>1. ci \in 0..cols - 1
      BY <1>1
    <3> HIDE <1>1, <1>3
    <3> QED BY <1>2, <3>1, GroupWithin
  <2> QED BY <1>1, <1>3, <2>1, Zenon DEF Below
<1>5. \A c \in 0..Cells - 1 : ColPlaces(ci)[c] = c0 + (c % TileWidth)
  BY <1>1, Zenon DEF ColPlaces
<1>6. ColumnsOf(BAll(p, x), base, lanes, x.k, B)
  BY <1>3, <1>5, ColumnsOfRows, Zenon
<1> QED BY <1>1, <1>3, <1>4, <1>6, Zenon DEF GroupHolds

LanesOf(cpu) == IF cpu = "avx512" THEN Wide ELSE Narrow
BPacked(cpu, p, x) == Pack(LanesOf(cpu), BAll(p, x), Len(ColTiles(x)) * TileWidth, x.k)

(* The message of a visit.                                                 *)
VisitMsg(cpu, p, x, v) ==
  IF v.quad
  THEN (IF cpu = "avx512"
        THEN Kernel8x64Avx512(ATiled(p, x), BPacked(cpu, p, x), 2 * v.first, v.ci * (TileWidth \div LanesOf(cpu)), x.k, x.config.rank)
        ELSE Kernel8x64AvxVnni(ATiled(p, x), BPacked(cpu, p, x), 2 * v.first, v.ci * (TileWidth \div LanesOf(cpu)), x.k, x.config.rank))
       [v.t - v.first]
  ELSE IF cpu = "avx512"
  THEN Kernel2x64(ATiled(p, x), BPacked(cpu, p, x), 2 * v.t, 2 * v.t + 1, v.ci * (TileWidth \div LanesOf(cpu)), x.k, x.config.rank)
  ELSE TileJackpotFlat(cpu, RowTiles(x)[v.t + 1], ColTiles(x)[v.ci + 1], p.a_noised, p.b_noised_t, x.config.rank, x.k)

FastInput(x) == Drawn(x) /\ FastSizes(x) /\ Whole(x.k, Dword) /\ Whole(x.config.rank, Dword)

IsMsgOf(x, t, ci, msg) == msg = TileJackpot(x, RowTiles(x)[t + 1], ColTiles(x)[ci + 1])

(* Four tiles at a time.                                                   *)
LEMMA QuadMsgIs ==
  ASSUME DigestIsNumber, NEW x, FastInput(x), NEW p, IsPrologue(p, x), NEW t \in 0..Len(RowTiles(x)) - 1,
         NEW ci \in 0..Len(ColTiles(x)) - 1,
         IsFast(x, RowTiles(x)[t + 1], ColTiles(x)[ci + 1]),
         NEW first \in Nat, t - first \in 0..3, NEW lanes \in Nat \ {0}, NEW d \in Nat \ {0}, TileOf(lanes, d),
         Whole(Cells, lanes)
  PROVE  IsMsgOf(x, t, ci, Kernel8x64(lanes, ATiled(p, x), Pack(lanes, BAll(p, x), Len(ColTiles(x)) * TileWidth, x.k),
                                      2 * first, ci * (TileWidth \div lanes), x.k, x.config.rank)[t - first])
<1>1. PICK a_rows, b_cols, k, r, A, B, a, b, n, a0, s, base :
        /\ a_rows = RowTiles(x)[t + 1] /\ b_cols = ColTiles(x)[ci + 1] /\ k = x.k /\ r = x.config.rank
        /\ A = TileA(x, a_rows, b_cols) /\ B = TileB(x, a_rows, b_cols) /\ a = ATiled(p, x) /\ b = BAll(p, x)
        /\ n = Len(ColTiles(x)) * TileWidth /\ a0 = 2 * first /\ s = t - first /\ base = ci * (TileWidth \div lanes)
  OBVIOUS
<1>2. Drawn(x) /\ k \in Nat /\ r \in Nat \ {0} /\ Whole(k, Dword) /\ Whole(r, Dword)
  <2>1. Drawn(x) /\ Whole(k, Dword) /\ Whole(r, Dword)
    BY <1>1, Zenon DEF FastInput
  <2>2. k \in Nat \ {0} /\ r \in Nat /\ r >= 2
    BY <1>1, <2>1, Zenon DEF Drawn
  <2> QED BY <2>1, <2>2
<1>3. IsTilePair(x, a_rows, b_cols) /\ CellsOf(a_rows, b_cols) = Cells
  BY <1>1, Zenon DEF IsFast
<1>4. Rows(A, Cells, k) /\ Rows(B, Cells, k)
  <2>1. Rows(TileA(x, a_rows, b_cols), CellsOf(a_rows, b_cols), x.k) /\ Rows(TileB(x, a_rows, b_cols), CellsOf(a_rows, b_cols), x.k)
    BY <1>2, <1>3, TileRowsAre, Zenon
  <2> QED BY <1>1, <1>3, <2>1, Zenon
<1>5. RowsOf(a, RowPlaces(t), Cells, k, A) /\ RowsOf(b, ColPlaces(ci), Cells, k, B)
  <2>1. IsFast(x, a_rows, b_cols)
    BY <1>1, Zenon
  <2>2. /\ RowsOf(ATiled(p, x), RowPlaces(t), Cells, x.k, TileA(x, a_rows, b_cols))
        /\ RowsOf(BAll(p, x), ColPlaces(ci), Cells, x.k, TileB(x, a_rows, b_cols))
    BY <1>1, <1>2, <2>1, TiledRowsAre, Zenon
  <2> QED BY <1>1, <2>2, Zenon
<1>6. base \in Nat /\ Below(base, lanes, n) /\ ColumnsOf(b, base, lanes, k, B) /\ n \in Nat
  <2>1. GroupHolds(p, x, lanes, ci, B)
    BY <1>1, <1>2, <1>5, GroupIs, Zenon
  <2>2. n \in Nat
    <3>1. PICK c, w : c = Len(ColTiles(x)) /\ w = TileWidth
      OBVIOUS
    <3>2. c \in Nat /\ w \in Nat
      BY <1>2, <3>1, TilesNumbered, TileOfLanes
    <3>3. c * w \in Nat
      BY <3>2
    <3> QED BY <1>1, <3>1, <3>3, Zenon
  <2> QED BY <1>1, <2>1, <2>2, Zenon DEF GroupHolds
<1>7. [c \in 0..Cells - 1 |-> a0 + RowOf(s, c)] = RowPlaces(t)
  <2>1. ASSUME NEW c \in 0..Cells - 1 PROVE a0 + RowOf(s, c) = t * 2 + (c \div TileWidth)
    <3>1. PICK u, z : u = c \div TileWidth /\ z = RowOf(s, c)
      OBVIOUS
    <3>2. u \in 0..1
      BY <3>1, CellOf, Zenon
    <3>3. z = 2 * s + u
      BY <3>1, Zenon DEF RowOf
    <3>4. a0 + z = t * 2 + u
      <4>1. a0 = 2 * first /\ s = t - first /\ t \in Nat
        BY <1>1
      <4> HIDE <1>1, <3>1
      <4> QED BY <3>2, <3>3, <4>1
    <3> QED BY <3>1, <3>4, Zenon
  <2> QED BY <2>1, Zenon DEF RowPlaces
<1>8. RowsOf(a, [c \in 0..Cells - 1 |-> a0 + RowOf(s, c)], Cells, k, A)
  BY <1>5, <1>7, Zenon
<1>9. s \in 0..3 /\ Cells \in Nat
  BY <1>1, TileOfLanes, Zenon
<1>10. IsKernel8x64(lanes, a, b, n, a0, base, k, r, s, A, B)
  BY <1>2, <1>4, <1>6, <1>8, <1>9, Kernel8x64Is, Zenon
<1>11. TileJackpot(x, a_rows, b_cols) = JackpotOf(Cells, k, r, A, B)
  BY <1>1, <1>3, Zenon DEF TileJackpot
<1> QED BY <1>1, <1>10, <1>11, Zenon DEF IsKernel8x64, IsMsgOf

(* The two rows of a tile left over.                                       *)
LEMMA PairMsgIs ==
  ASSUME DigestIsNumber, NEW x, FastInput(x), NEW p, IsPrologue(p, x), NEW t \in 0..Len(RowTiles(x)) - 1,
         NEW ci \in 0..Len(ColTiles(x)) - 1,
         IsFast(x, RowTiles(x)[t + 1], ColTiles(x)[ci + 1])
  PROVE  IsMsgOf(x, t, ci, Kernel2x64(ATiled(p, x), Pack(Wide, BAll(p, x), Len(ColTiles(x)) * TileWidth, x.k),
                                      2 * t, 2 * t + 1, ci * (TileWidth \div Wide), x.k, x.config.rank))
<1>1. PICK a_rows, b_cols, k, r, A, B, a, b, n, a0, base :
        /\ a_rows = RowTiles(x)[t + 1] /\ b_cols = ColTiles(x)[ci + 1] /\ k = x.k /\ r = x.config.rank
        /\ A = TileA(x, a_rows, b_cols) /\ B = TileB(x, a_rows, b_cols) /\ a = ATiled(p, x) /\ b = BAll(p, x)
        /\ n = Len(ColTiles(x)) * TileWidth /\ a0 = 2 * t /\ base = ci * (TileWidth \div Wide)
  OBVIOUS
<1>2. Drawn(x) /\ k \in Nat /\ r \in Nat \ {0} /\ Whole(k, Dword) /\ Whole(r, Dword)
  <2>1. Drawn(x) /\ Whole(k, Dword) /\ Whole(r, Dword)
    BY <1>1, Zenon DEF FastInput
  <2>2. k \in Nat \ {0} /\ r \in Nat /\ r >= 2
    BY <1>1, <2>1, Zenon DEF Drawn
  <2> QED BY <2>1, <2>2
<1>3. IsTilePair(x, a_rows, b_cols) /\ CellsOf(a_rows, b_cols) = Cells
  BY <1>1, Zenon DEF IsFast
<1>4. Rows(A, Cells, k) /\ Rows(B, Cells, k)
  <2>1. Rows(TileA(x, a_rows, b_cols), CellsOf(a_rows, b_cols), x.k) /\ Rows(TileB(x, a_rows, b_cols), CellsOf(a_rows, b_cols), x.k)
    BY <1>2, <1>3, TileRowsAre, Zenon
  <2> QED BY <1>1, <1>3, <2>1, Zenon
<1>5. RowsOf(a, RowPlaces(t), Cells, k, A) /\ RowsOf(b, ColPlaces(ci), Cells, k, B)
  <2>1. IsFast(x, a_rows, b_cols)
    BY <1>1, Zenon
  <2>2. /\ RowsOf(ATiled(p, x), RowPlaces(t), Cells, x.k, TileA(x, a_rows, b_cols))
        /\ RowsOf(BAll(p, x), ColPlaces(ci), Cells, x.k, TileB(x, a_rows, b_cols))
    BY <1>1, <1>2, <2>1, TiledRowsAre, Zenon
  <2> QED BY <1>1, <2>2, Zenon
<1>6. base \in Nat /\ Below(base, Wide, n) /\ ColumnsOf(b, base, Wide, k, B) /\ n \in Nat
  <2>1. GroupHolds(p, x, Wide, ci, B)
    <3>1. 4 \in Nat \ {0} /\ TileOf(Wide, 4) /\ Wide \in Nat \ {0}
      BY TileOfLanes
    <3> QED BY <1>1, <1>2, <1>5, <3>1, GroupIs, Zenon
  <2>2. n \in Nat
    <3>1. PICK c, w : c = Len(ColTiles(x)) /\ w = TileWidth
      OBVIOUS
    <3>2. c \in Nat /\ w \in Nat
      BY <1>2, <3>1, TilesNumbered, TileOfLanes
    <3>3. c * w \in Nat
      BY <3>2
    <3> QED BY <1>1, <3>1, <3>3, Zenon
  <2> QED BY <1>1, <2>1, <2>2, Zenon DEF GroupHolds
<1>7. [c \in 0..Cells - 1 |-> IF c < TileWidth THEN a0 ELSE a0 + 1] = RowPlaces(t)
  <2>1. ASSUME NEW c \in 0..Cells - 1 PROVE (IF c < TileWidth THEN a0 ELSE a0 + 1) = t * 2 + (c \div TileWidth)
    <3>1. PICK u : u = c \div TileWidth
      OBVIOUS
    <3>2. u = IF c < TileWidth THEN 0 ELSE 1
      BY <3>1, CellOf, Zenon
    <3>3. a0 = t * 2 + 0 /\ a0 + 1 = t * 2 + 1
      <4>1. a0 = 2 * t /\ t \in Nat
        BY <1>1
      <4> HIDE <1>1, <3>1
      <4> QED BY <4>1
    <3> QED BY <3>1, <3>2, <3>3, Zenon
  <2> QED BY <2>1, Zenon DEF RowPlaces
<1>8. RowsOf(a, [c \in 0..Cells - 1 |-> IF c < TileWidth THEN a0 ELSE a0 + 1], Cells, k, A)
  BY <1>5, <1>7, Zenon
<1>9. a0 \in Nat /\ a0 + 1 \in Nat
  <2>1. a0 = 2 * t /\ t \in Nat
    BY <1>1
  <2> QED BY <2>1
<1>10. IsKernel2x64(a, b, n, a0, a0 + 1, base, k, r, A, B)
  BY <1>2, <1>4, <1>6, <1>8, <1>9, Kernel2x64Is, Zenon
<1>11. TileJackpot(x, a_rows, b_cols) = JackpotOf(Cells, k, r, A, B)
  BY <1>1, <1>3, Zenon DEF TileJackpot
<1> QED BY <1>1, <1>10, <1>11, Zenon DEF IsKernel2x64, IsMsgOf

IsVisit(v, x) == v \in Visits(Len(RowTiles(x)), Len(ColTiles(x)))

(* A visit is of a tile of the rows and one of the columns. *)
LEMMA VisitIn ==
  ASSUME NEW x, NEW v, IsVisit(v, x)
  PROVE  /\ v.t \in 0..Len(RowTiles(x)) - 1 /\ v.ci \in 0..Len(ColTiles(x)) - 1 /\ v.first \in Nat /\ v.quad \in BOOLEAN
         /\ v.t - v.first \in 0..3
<1>1. PICK rows, cols : rows = Len(RowTiles(x)) /\ cols = Len(ColTiles(x))
  OBVIOUS
<1>2. v \in Visits(rows, cols)
  BY <1>1, Zenon DEF IsVisit
<1>3. v.t \in 0..rows - 1 /\ v.ci \in 0..cols - 1 /\ v.first \in Nat /\ v.quad \in BOOLEAN /\ v.t - v.first \in 0..3
  <2> HIDE <1>1
  <2> QED BY <1>2 DEF Visits
<1> QED BY <1>1, <1>3, Zenon

(* The pair of tiles of a visit.                                           *)
LEMMA PairOfVisit ==
  ASSUME NEW x, Drawn(x), NEW t \in 0..Len(RowTiles(x)) - 1, NEW ci \in 0..Len(ColTiles(x)) - 1
  PROVE  RowTiles(x)[t + 1] \in ToSet(RowTiles(x)) /\ ColTiles(x)[ci + 1] \in ToSet(ColTiles(x))
<1>1. /\ Len(RowTiles(x)) \in Nat /\ DOMAIN RowTiles(x) = 1..Len(RowTiles(x))
      /\ Len(ColTiles(x)) \in Nat /\ DOMAIN ColTiles(x) = 1..Len(ColTiles(x))
  BY TilesNumbered, Zenon
<1>2. RowTiles(x)[t + 1] \in ToSet(RowTiles(x))
  BY <1>1, TileNumbered, Zenon
<1>3. ColTiles(x)[ci + 1] \in ToSet(ColTiles(x))
  BY <1>1, TileNumbered, Zenon
<1> QED BY <1>2, <1>3, Zenon

(* The words of a visit are the jackpot of its pair of tiles. *)
LEMMA VisitMsgIs ==
  ASSUME DigestIsNumber, NEW x, FastInput(x), NEW p, IsPrologue(p, x), NEW cpu \in {"avx512", "avxvnni"}, NEW v,
         IsVisit(v, x)
  PROVE  IsMsgOf(x, v.t, v.ci, VisitMsg(cpu, p, x, v))
<1>1. PICK t, ci, first, n : t = v.t /\ ci = v.ci /\ first = v.first /\ n = Len(ColTiles(x)) * TileWidth
  OBVIOUS
<1>2. /\ t \in 0..Len(RowTiles(x)) - 1 /\ ci \in 0..Len(ColTiles(x)) - 1 /\ first \in Nat /\ v.quad \in BOOLEAN
      /\ t - first \in 0..3
  BY <1>1, VisitIn, Zenon
<1>3. Drawn(x) /\ FastSizes(x)
  BY Zenon DEF FastInput
<1>4. RowTiles(x)[t + 1] \in ToSet(RowTiles(x)) /\ ColTiles(x)[ci + 1] \in ToSet(ColTiles(x))
  BY <1>2, <1>3, PairOfVisit, Zenon
<1>5. IsFast(x, RowTiles(x)[t + 1], ColTiles(x)[ci + 1])
  BY <1>3, <1>4, FastIs, Zenon
<1>6. 4 \in Nat \ {0} /\ 8 \in Nat \ {0}
  OBVIOUS
<1>7. CASE v.quad /\ cpu = "avx512"
  <2>1. IsMsgOf(x, t, ci, Kernel8x64(Wide, ATiled(p, x), Pack(Wide, BAll(p, x), Len(ColTiles(x)) * TileWidth, x.k),
                                     2 * first, ci * (TileWidth \div Wide), x.k, x.config.rank)[t - first])
    BY <1>2, <1>5, <1>6, TileOfLanes, QuadMsgIs, Zenon
  <2>2. LanesOf(cpu) = Wide
    BY <1>7, Zenon DEF LanesOf
  <2>3. VisitMsg(cpu, p, x, v)
          = Kernel8x64(LanesOf(cpu), ATiled(p, x), BPacked(cpu, p, x), 2 * first, ci * (TileWidth \div LanesOf(cpu)),
                       x.k, x.config.rank)[t - first]
    BY <1>1, <1>7, <2>2, Zenon DEF VisitMsg, Kernel8x64Avx512
  <2> QED BY <1>1, <2>1, <2>2, <2>3, Zenon DEF BPacked
<1>8. CASE v.quad /\ cpu = "avxvnni"
  <2>1. IsMsgOf(x, t, ci, Kernel8x64(Narrow, ATiled(p, x), Pack(Narrow, BAll(p, x), Len(ColTiles(x)) * TileWidth, x.k),
                                     2 * first, ci * (TileWidth \div Narrow), x.k, x.config.rank)[t - first])
    BY <1>2, <1>5, <1>6, TileOfLanes, QuadMsgIs, Zenon
  <2>2. cpu # "avx512"
    BY <1>8
  <2>3. LanesOf(cpu) = Narrow
    BY <2>2, Zenon DEF LanesOf
  <2>4. VisitMsg(cpu, p, x, v)
          = Kernel8x64(LanesOf(cpu), ATiled(p, x), BPacked(cpu, p, x), 2 * first, ci * (TileWidth \div LanesOf(cpu)),
                       x.k, x.config.rank)[t - first]
    BY <1>1, <1>8, <2>2, <2>3, Zenon DEF VisitMsg, Kernel8x64AvxVnni
  <2> QED BY <1>1, <2>1, <2>3, <2>4, Zenon DEF BPacked
<1>9. CASE ~v.quad /\ cpu = "avx512"
  <2>1. IsMsgOf(x, t, ci, Kernel2x64(ATiled(p, x), Pack(Wide, BAll(p, x), Len(ColTiles(x)) * TileWidth, x.k),
                                     2 * t, 2 * t + 1, ci * (TileWidth \div Wide), x.k, x.config.rank))
    BY <1>2, <1>5, PairMsgIs, Zenon
  <2>2. LanesOf(cpu) = Wide
    BY <1>9, Zenon DEF LanesOf
  <2>3. VisitMsg(cpu, p, x, v)
          = Kernel2x64(ATiled(p, x), BPacked(cpu, p, x), 2 * t, 2 * t + 1, ci * (TileWidth \div LanesOf(cpu)), x.k, x.config.rank)
    BY <1>1, <1>9, Zenon DEF VisitMsg
  <2> QED BY <1>1, <2>1, <2>2, <2>3, Zenon DEF BPacked
<1>10. CASE ~v.quad /\ cpu = "avxvnni"
  <2>1. cpu # "avx512"
    BY <1>10
  <2>2. VisitMsg(cpu, p, x, v)
          = TileJackpotFlat(cpu, RowTiles(x)[t + 1], ColTiles(x)[ci + 1], p.a_noised, p.b_noised_t, x.config.rank, x.k)
    BY <1>1, <1>10, <2>1, Zenon DEF VisitMsg
  <2>3. IsTilePair(x, RowTiles(x)[t + 1], ColTiles(x)[ci + 1])
    BY <1>5, Zenon DEF IsFast
  <2>4. IsFlatMsg(cpu, p, x, RowTiles(x)[t + 1], ColTiles(x)[ci + 1])
    BY <1>3, <2>3, FlatMsgIs, Zenon
  <2> QED BY <1>1, <2>2, <2>4, Zenon DEF IsFlatMsg, IsMsgOf
<1> QED BY <1>2, <1>7, <1>8, <1>9, <1>10, Zenon

-----------------------------------------------------------------------------
(* The fast path sweeps the tiles.                                         *)
Fast(cpu, panel, p, x) == FastTiles(cpu, panel, p, RowTiles(x), ColTiles(x), x.k, x.config.rank)

FastTile(cpu, p, x, v) ==
  [a_rows |-> RowTiles(x)[v.t + 1], b_cols |-> ColTiles(x)[v.ci + 1], msg |-> VisitMsg(cpu, p, x, v)]

(* The tiles of the fast path are those of its visits. *)
LEMMA FastTilesAre ==
  ASSUME NEW cpu, NEW panel, NEW p, NEW x
  PROVE  Fast(cpu, panel, p, x)
           = [y \in DOMAIN PanelSweep(panel, Len(RowTiles(x)), Len(ColTiles(x))) |->
                FastTile(cpu, p, x, PanelSweep(panel, Len(RowTiles(x)), Len(ColTiles(x)))[y])]
BY Zenon DEF Fast, FastTiles, FastTile, VisitMsg, WinningTile, ATiled, BAll, BPacked, LanesOf

(* Its tiles are all the pairs, with their jackpots, in panels of any      *)
(* size.                                                                   *)
LEMMA FastIsSweep ==
  ASSUME DigestIsNumber, NEW x, FastInput(x), NEW p, IsPrologue(p, x), NEW cpu \in {"avx512", "avxvnni"},
         NEW panel \in Nat \ {0}
  PROVE  IsSweep(Fast(cpu, panel, p, x), x)
<1>1. PICK row_tiles, col_tiles, rows, cols, tiles, visits :
        /\ row_tiles = RowTiles(x) /\ col_tiles = ColTiles(x) /\ rows = Len(RowTiles(x)) /\ cols = Len(ColTiles(x))
        /\ tiles = Fast(cpu, panel, p, x) /\ visits = PanelSweep(panel, rows, cols)
  OBVIOUS
<1>2. Drawn(x)
  BY Zenon DEF FastInput
<1>3. rows \in Nat /\ cols \in Nat /\ DOMAIN row_tiles = 1..rows /\ DOMAIN col_tiles = 1..cols
  BY <1>1, <1>2, TilesNumbered, Zenon
<1>4. /\ visits \in Seq(Visits(rows, cols))
      /\ \A t \in 0..rows - 1, c \in 0..cols - 1 : Visited(visits, t, c)
  BY <1>1, <1>3, SweepIs, Zenon
<1>5. \A y \in DOMAIN visits : y \in Nat /\ visits[y] \in Visits(rows, cols)
  <2>1. DOMAIN visits = 1..Len(visits) /\ Len(visits) \in Nat
    BY <1>4
  <2>2. \A y \in 1..Len(visits) : visits[y] \in Visits(rows, cols)
    BY <1>4
  <2>3. \A y \in 1..Len(visits) : y \in Nat
    BY <2>1
  <2> QED BY <2>1, <2>2, <2>3, Zenon
<1>6. tiles = [y \in DOMAIN visits |-> FastTile(cpu, p, x, visits[y])]
  BY <1>1, FastTilesAre, Zenon
<1>7. ASSUME NEW y \in DOMAIN visits
      PROVE  /\ tiles[y].a_rows = row_tiles[visits[y].t + 1] /\ tiles[y].b_cols = col_tiles[visits[y].ci + 1]
             /\ tiles[y].msg = VisitMsg(cpu, p, x, visits[y])
  <2>1. PICK tile, v, a_rows, b_cols, msg :
          /\ tile = tiles[y] /\ v = visits[y] /\ a_rows = RowTiles(x)[v.t + 1] /\ b_cols = ColTiles(x)[v.ci + 1]
          /\ msg = VisitMsg(cpu, p, x, v)
    OBVIOUS
  <2>2. tile = FastTile(cpu, p, x, v)
    BY <1>6, <2>1, Zenon
  <2>3. tile = [a_rows |-> a_rows, b_cols |-> b_cols, msg |-> msg]
    BY <2>1, <2>2, Zenon DEF FastTile
  <2>4. tile.a_rows = a_rows /\ tile.b_cols = b_cols /\ tile.msg = msg
    BY <2>3, Zenon
  <2> QED BY <1>1, <2>1, <2>4, Zenon
<1>8. ASSUME NEW y \in DOMAIN visits
      PROVE  /\ tiles[y].a_rows \in ToSet(RowTiles(x)) /\ tiles[y].b_cols \in ToSet(ColTiles(x))
             /\ tiles[y].msg = TileJackpot(x, tiles[y].a_rows, tiles[y].b_cols)
  <2>1. PICK v, t, ci : v = visits[y] /\ t = v.t /\ ci = v.ci
    OBVIOUS
  <2>2. IsVisit(v, x)
    BY <1>1, <1>5, <2>1, Zenon DEF IsVisit
  <2>3. t \in 0..rows - 1 /\ ci \in 0..cols - 1
    BY <1>1, <2>1, <2>2, VisitIn, Zenon
  <2>4. IsMsgOf(x, t, ci, VisitMsg(cpu, p, x, v))
    BY <2>1, <2>2, VisitMsgIs, Zenon
  <2>5. tiles[y].a_rows = RowTiles(x)[t + 1] /\ tiles[y].b_cols = ColTiles(x)[ci + 1] /\ tiles[y].msg = VisitMsg(cpu, p, x, v)
    <3>1. /\ tiles[y].a_rows = row_tiles[visits[y].t + 1] /\ tiles[y].b_cols = col_tiles[visits[y].ci + 1]
          /\ tiles[y].msg = VisitMsg(cpu, p, x, visits[y])
      BY <1>7, Zenon
    <3>2. visits[y].t = t /\ visits[y].ci = ci /\ visits[y] = v
      BY <2>1, Zenon
    <3>3. row_tiles = RowTiles(x) /\ col_tiles = ColTiles(x)
      BY <1>1, Zenon
    <3> QED BY <3>1, <3>2, <3>3, Zenon
  <2>6. RowTiles(x)[t + 1] \in ToSet(RowTiles(x)) /\ ColTiles(x)[ci + 1] \in ToSet(ColTiles(x))
    BY <1>1, <1>2, <2>3, PairOfVisit, Zenon
  <2> QED BY <2>4, <2>5, <2>6, Zenon DEF IsMsgOf
<1>9. ASSUME NEW a_rows \in ToSet(RowTiles(x)), NEW b_cols \in ToSet(ColTiles(x))
      PROVE  \E y \in DOMAIN visits : tiles[y].a_rows = a_rows /\ tiles[y].b_cols = b_cols
  <2>1. PICK t \in 0..rows - 1 : a_rows = row_tiles[t + 1]
    BY <1>1, <1>3, TileNumbered, Zenon
  <2>2. PICK c \in 0..cols - 1 : b_cols = col_tiles[c + 1]
    BY <1>1, <1>3, TileNumbered, Zenon
  <2>3. Visited(visits, t, c)
    BY <1>4, Zenon
  <2>4. PICK y \in DOMAIN visits : visits[y].t = t /\ visits[y].ci = c
    BY <2>3, Zenon DEF Visited
  <2> QED BY <1>7, <2>1, <2>2, <2>4, Zenon
<1>10. DOMAIN tiles = DOMAIN visits
  BY <1>6, Zenon
<1>11. IsSweep(tiles, x)
  <2>1. ASSUME NEW y \in DOMAIN tiles
        PROVE  /\ y \in Nat /\ tiles[y].a_rows \in ToSet(RowTiles(x)) /\ tiles[y].b_cols \in ToSet(ColTiles(x))
               /\ tiles[y].msg = TileJackpot(x, tiles[y].a_rows, tiles[y].b_cols)
    BY <1>5, <1>8, <1>10, Zenon
  <2>2. ASSUME NEW a_rows \in ToSet(RowTiles(x)), NEW b_cols \in ToSet(ColTiles(x))
        PROVE  \E y \in DOMAIN tiles : tiles[y].a_rows = a_rows /\ tiles[y].b_cols = b_cols
    <3>1. PICK y \in DOMAIN visits : tiles[y].a_rows = a_rows /\ tiles[y].b_cols = b_cols
      BY <1>9, Zenon
    <3>2. y \in DOMAIN tiles
      BY <1>10, <3>1, Zenon
    <3> QED BY <3>1, <3>2, Zenon
  <2> QED BY <2>1, <2>2, Zenon DEF IsSweep
<1> QED BY <1>1, <1>11, Zenon

-----------------------------------------------------------------------------
(* What comes of a sweep: a tile that meets the bound is one whose proof    *)
(* verifies, and if none does there is no such tile.                        *)
MeetingIn(tiles, x, bound) == {y \in DOMAIN tiles : ComputeJackpotHash(tiles[y].msg, SeedsOf(x)[2]) <= bound}

ProofVerifies(x, bound, a_rows, b_cols) == Verifies(x.patterns, x.header, bound, ProofOf(x, a_rows, b_cols))

(* Meeting the bound and verifying are the same for what a sweep finds,    *)
(* and a sweep misses nothing.                                             *)
LEMMA SweepDecides ==
  ASSUME DigestIsNumber, NEW x, Drawn(x), NEW tiles, IsSweep(tiles, x), NEW bound
  PROVE  /\ \A y \in MeetingIn(tiles, x, bound) : ProofVerifies(x, bound, tiles[y].a_rows, tiles[y].b_cols)
         /\ MeetingIn(tiles, x, bound) = {} =>
              \A a_rows \in ToSet(RowTiles(x)), b_cols \in ToSet(ColTiles(x)) : ~ProofVerifies(x, bound, a_rows, b_cols)
<1>1. ASSUME NEW y \in DOMAIN tiles
      PROVE  y \in MeetingIn(tiles, x, bound) <=> ProofVerifies(x, bound, tiles[y].a_rows, tiles[y].b_cols)
  <2>1. PICK a_rows, b_cols : a_rows = tiles[y].a_rows /\ b_cols = tiles[y].b_cols
    OBVIOUS
  <2>2. a_rows \in ToSet(RowTiles(x)) /\ b_cols \in ToSet(ColTiles(x)) /\ tiles[y].msg = TileJackpot(x, a_rows, b_cols)
    BY <2>1, Zenon DEF IsSweep
  <2>3. Decided(x, a_rows, b_cols, bound)
    BY <2>2, VerifiesIs, Zenon
  <2>4. y \in MeetingIn(tiles, x, bound) <=> Meets(x, a_rows, b_cols, bound)
    BY <2>2, Zenon DEF MeetingIn, Meets
  <2> QED BY <2>1, <2>3, <2>4, Zenon DEF Decided, ProofVerifies
<1>2. ASSUME NEW y \in MeetingIn(tiles, x, bound) PROVE ProofVerifies(x, bound, tiles[y].a_rows, tiles[y].b_cols)
  <2>1. y \in DOMAIN tiles
    BY Zenon DEF MeetingIn
  <2> QED BY <1>1, <2>1, Zenon
<1>3. ASSUME MeetingIn(tiles, x, bound) = {}, NEW a_rows \in ToSet(RowTiles(x)), NEW b_cols \in ToSet(ColTiles(x))
      PROVE  ~ProofVerifies(x, bound, a_rows, b_cols)
  <2>1. PICK y \in DOMAIN tiles : tiles[y].a_rows = a_rows /\ tiles[y].b_cols = b_cols
    BY Zenon DEF IsSweep
  <2>2. y \notin MeetingIn(tiles, x, bound)
    BY <1>3, Zenon
  <2> QED BY <1>1, <2>1, <2>2, Zenon
<1> QED BY <1>2, <1>3, Zenon

(* The tiles of an attempt.                                                *)
TilesOfAttempt(x, p) ==
  IF FastPath(x.cpu, x.config, x.k) THEN Fast(x.cpu, x.panel, p, x) ELSE Fallback(x.cpu, p, x)

(* The fast path is taken for what it is made for. *)
LEMMA AttemptIs ==
  ASSUME NEW x, AttemptInput(x)
  PROVE  /\ Drawn(x) /\ x.panel \in Nat \ {0}
         /\ FastPath(x.cpu, x.config, x.k) => FastInput(x) /\ x.cpu \in {"avx512", "avxvnni"}
<1>1. Drawn(x)
  BY Zenon DEF AttemptInput, Declares, Drawn, Spans, IsSignal
<1>2. FastPath(x.cpu, x.config, x.k) => FastSizes(x) /\ Whole(x.k, Dword) /\ x.cpu \in {"avx512", "avxvnni"}
  BY Zenon DEF FastPath, FastSizes, Whole
<1>3. FastPath(x.cpu, x.config, x.k) => Whole(x.config.rank, Dword)
  BY Zenon DEF AttemptInput, Whole
<1>4. x.panel \in Nat \ {0}
  BY Zenon DEF AttemptInput
<1> QED BY <1>1, <1>2, <1>3, <1>4, Zenon DEF FastInput

(* On either path, an attempt sweeps the tiles. *)
LEMMA AttemptSweeps ==
  ASSUME DigestIsNumber, NEW x, AttemptInput(x), NEW p, IsPrologue(p, x)
  PROVE  IsSweep(TilesOfAttempt(x, p), x)
<1>1. Drawn(x) /\ x.panel \in Nat \ {0}
  BY AttemptIs, Zenon
<1>2. CASE FastPath(x.cpu, x.config, x.k)
  <2>1. FastInput(x) /\ x.cpu \in {"avx512", "avxvnni"}
    BY <1>2, AttemptIs, Zenon
  <2>2. IsSweep(Fast(x.cpu, x.panel, p, x), x)
    BY <1>1, <2>1, FastIsSweep, Zenon
  <2> QED BY <1>2, <2>2, Zenon DEF TilesOfAttempt
<1>3. CASE ~FastPath(x.cpu, x.config, x.k)
  <2>1. IsSweep(Fallback(x.cpu, p, x), x)
    BY <1>1, FallbackIsSweep, Zenon
  <2> QED BY <1>3, <2>1, Zenon DEF TilesOfAttempt
<1> QED BY <1>2, <1>3, Zenon

Least(S) == CHOOSE y \in S : \A z \in S : y <= z

(* Numbers have a least one. *)
LEMMA LeastIs ==
  ASSUME NEW S \in SUBSET Nat, S # {}
  PROVE  Least(S) \in S
<1>1. \E y \in S : \A z \in S : y <= z
  BY LeastNatural
<1> QED BY <1>1, Zenon DEF Least

MinedFrom(x, p) ==
  TryMineOneBounded(x.cpu, x.panel, p, x.m, x.n, x.k, x.config, x.bound, x.a_sig, x.b_sig)

(* An attempt makes the proof of the first tile that meets the bound. *)
LEMMA MinedIs ==
  ASSUME NEW x, NEW p, IsPrologue(p, x),
         NEW meets, meets = MeetingIn(TilesOfAttempt(x, p), x, x.bound)
  PROVE  MinedFrom(x, p) = IF meets = {} THEN NoProof
                           ELSE ProofOf(x, TilesOfAttempt(x, p)[Least(meets)].a_rows, TilesOfAttempt(x, p)[Least(meets)].b_cols)
<1>1. PICK tiles, seed, key : tiles = TilesOfAttempt(x, p) /\ seed = p.a_noise_seed /\ key = p.job_key
  OBVIOUS
<1>2. seed = SeedsOf(x)[2] /\ key = KeyOf(x)
  BY <1>1, Zenon DEF IsPrologue
<1>3. meets = {y \in DOMAIN tiles : ComputeJackpotHash(tiles[y].msg, seed) <= x.bound}
  BY <1>1, <1>2, Zenon DEF MeetingIn
<1>4. MinedFrom(x, p)
        = LET found == {y \in DOMAIN TilesOfAttempt(x, p) :
                          ComputeJackpotHash(TilesOfAttempt(x, p)[y].msg, p.a_noise_seed) <= x.bound}
              won == TilesOfAttempt(x, p)[CHOOSE y \in found : \A z \in found : y <= z]
          IN IF found = {} THEN NoProof
             ELSE MakeProof(x.a_sig, x.b_sig, x.m, x.n, x.k, x.config.rank, p.job_key, won.a_rows, won.b_cols)
  BY Zenon DEF MinedFrom, TryMineOneBounded, TilesOfAttempt, Fast, Fallback, RowTiles, ColTiles
<1>5. MinedFrom(x, p)
        = IF meets = {} THEN NoProof
          ELSE MakeProof(x.a_sig, x.b_sig, x.m, x.n, x.k, x.config.rank, key, tiles[Least(meets)].a_rows, tiles[Least(meets)].b_cols)
  BY <1>1, <1>3, <1>4, Zenon DEF Least
<1> QED BY <1>1, <1>2, <1>5, Zenon DEF ProofOf

-----------------------------------------------------------------------------
(* What an attempt comes to.                                               *)
Settled(x, proof) ==
  IF proof.found THEN Verifies(x.patterns, x.header, x.bound, proof)
  ELSE \A a_rows \in ToSet(RowTiles(x)), b_cols \in ToSet(ColTiles(x)) : ~ProofVerifies(x, x.bound, a_rows, b_cols)

(* The proof verifies, or no tile does. *)
LEMMA AttemptSettles ==
  ASSUME DigestIsNumber, NEW x, AttemptInput(x), NEW p, IsPrologue(p, x)
  PROVE  Settled(x, MinedFrom(x, p))
<1>1. PICK tiles, meets, proof :
        tiles = TilesOfAttempt(x, p) /\ meets = MeetingIn(tiles, x, x.bound) /\ proof = MinedFrom(x, p)
  OBVIOUS
<1>2. Drawn(x)
  BY AttemptIs, Zenon
<1>3. IsSweep(tiles, x)
  BY <1>1, AttemptSweeps, Zenon
<1>4. /\ \A y \in meets : ProofVerifies(x, x.bound, tiles[y].a_rows, tiles[y].b_cols)
      /\ meets = {} => \A a_rows \in ToSet(RowTiles(x)), b_cols \in ToSet(ColTiles(x)) : ~ProofVerifies(x, x.bound, a_rows, b_cols)
  BY <1>1, <1>2, <1>3, SweepDecides, Zenon
<1>5. proof = IF meets = {} THEN NoProof ELSE ProofOf(x, tiles[Least(meets)].a_rows, tiles[Least(meets)].b_cols)
  BY <1>1, MinedIs, Zenon
<1>6. CASE meets = {}
  <2>1. proof = [found |-> FALSE]
    BY <1>5, <1>6, Zenon DEF NoProof
  <2>2. ~proof.found
    BY <2>1
  <2> QED BY <1>1, <1>4, <1>6, <2>2, Zenon DEF Settled
<1>7. CASE meets # {}
  <2>1. meets \in SUBSET Nat
    BY <1>1, <1>3, Zenon DEF MeetingIn, IsSweep
  <2>2. Least(meets) \in meets
    BY <1>7, <2>1, LeastIs, Zenon
  <2>3. PICK a_rows, b_cols : a_rows = tiles[Least(meets)].a_rows /\ b_cols = tiles[Least(meets)].b_cols
    OBVIOUS
  <2>4. proof = ProofOf(x, a_rows, b_cols)
    BY <1>5, <1>7, <2>3, Zenon
  <2>5. ProofVerifies(x, x.bound, a_rows, b_cols)
    BY <1>4, <2>2, <2>3, Zenon
  <2>6. proof.found
    BY <2>4, Zenon DEF ProofOf, MakeProof
  <2> QED BY <1>1, <2>4, <2>5, <2>6, Zenon DEF Settled, ProofVerifies
<1> QED BY <1>6, <1>7, Zenon

(* AttemptVerifies for every attempt, if a digest is a number: on whatever *)
(* processor and path, with panels of whatever size, the proof that comes  *)
(* of it is one that the pool accepts, and there is one if any tile meets  *)
(* the bound.                                                              *)
THEOREM AttemptAlwaysVerifies ==
  ASSUME DigestIsNumber, AttemptInput(input)
  PROVE  AttemptVerifies
<1>1. PICK p : p = Prologue(input.vbmi, input.m, input.n, input.k, input.header, input.config, input.a_sig, input.b_sig)
  OBVIOUS
<1>2. Drawn(input)
  BY AttemptIs, Zenon
<1>3. IsPrologue(p, input)
  BY <1>1, <1>2, PrologueIs, Zenon
<1>4. PICK proof : proof = MinedFrom(input, p)
  OBVIOUS
<1>5. Settled(input, proof)
  BY <1>3, <1>4, AttemptSettles, Zenon
<1>6. p.job_key = KeyOf(input)
  BY <1>3, Zenon DEF IsPrologue
<1>7. IF proof.found THEN Verifies(input.patterns, input.header, input.bound, proof)
      ELSE \A a_rows \in ToSet(ThreadsPartition(input.config.rows_pattern, input.m)),
              b_cols \in ToSet(ThreadsPartition(input.config.cols_pattern, input.n)) :
              ~Verifies(input.patterns, input.header, input.bound,
                        MakeProof(input.a_sig, input.b_sig, input.m, input.n, input.k, input.config.rank, p.job_key, a_rows, b_cols))
  BY <1>5, <1>6, Zenon DEF Settled, ProofVerifies, ProofOf, RowTiles, ColTiles
<1> QED BY <1>1, <1>4, <1>7, Zenon DEF AttemptVerifies, MinedFrom

-----------------------------------------------------------------------------
(* The coordinates of a hit: handed back over all lanes, they are again    *)
(* the rows and the columns of its tile when sorted without repetition.    *)

(* Of what ascends, a number has as many before it as there are.           *)
FirstOf(tile, x) == {tile[y] : y \in 1..x}

(* So many of what ascends are different. *)
LEMMA FirstAre ==
  ASSUME NEW h \in Nat, NEW tile, \A x, y \in 1..h : x < y => tile[x] < tile[y], \A x \in 1..h : tile[x] \in Nat,
         NEW x \in 0..h
  PROVE  IsFiniteSet(FirstOf(tile, x)) /\ Cardinality(FirstOf(tile, x)) = x
<1>1. PICK g : g = [y \in 1..x |-> tile[y]]
  OBVIOUS
<1>2. g \in [1..x -> FirstOf(tile, x)]
  BY <1>1, Zenon DEF FirstOf
<1>3. ASSUME NEW y \in 1..x, NEW z \in 1..x, g[y] = g[z] PROVE y = z
  <2>1. y \in 1..h /\ z \in 1..h /\ y \in Int /\ z \in Int
    OBVIOUS
  <2>2. tile[y] = tile[z] /\ tile[y] \in Nat
    BY <1>1, <1>3, <2>1, Zenon
  <2>3. ~(y < z) /\ ~(z < y)
    BY <2>1, <2>2
  <2> QED BY <2>1, <2>3
<1>4. g \in Injection(1..x, FirstOf(tile, x))
  BY <1>2, <1>3, Zenon DEF Injection, IsInjective
<1>5. g \in Surjection(1..x, FirstOf(tile, x))
  <2>1. ASSUME NEW v \in FirstOf(tile, x) PROVE \E y \in 1..x : g[y] = v
    BY <1>1, Zenon DEF FirstOf
  <2> QED BY <1>2, <2>1, Zenon DEF Surjection
<1>6. ExistsBijection(1..x, FirstOf(tile, x))
  BY <1>4, <1>5, Zenon DEF Bijection, ExistsBijection
<1>7. IsFiniteSet(1..x) /\ Cardinality(1..x) = x
  BY FS_Interval
<1> QED BY <1>6, <1>7, FS_Bijection, Zenon

(* A list that ascends is the sorted list of what is in it.                *)
LEMMA SortedOfAscending ==
  ASSUME NEW h \in Nat, NEW tile, tile = [x \in 1..h |-> tile[x]],
         \A x, y \in 1..h : x < y => tile[x] < tile[y], \A x \in 1..h : tile[x] \in Nat,
         NEW S, S = FirstOf(tile, h)
  PROVE  Sorted(S) = tile
<1>1. Cardinality(S) = h
  <2>1. h \in 0..h
    OBVIOUS
  <2> QED BY <2>1, FirstAre, Zenon
<1>2. ASSUME NEW x \in 1..h PROVE Cardinality({j \in S : j < tile[x]}) = x - 1
  <2>1. x - 1 \in 0..h
    OBVIOUS
  <2>2. Cardinality(FirstOf(tile, x - 1)) = x - 1
    BY <2>1, FirstAre, Zenon
  <2>3. ASSUME NEW y \in 1..h PROVE tile[y] < tile[x] <=> y \in 1..x - 1
    <3>1. tile[x] \in Nat /\ tile[y] \in Nat /\ (x < y => tile[x] < tile[y]) /\ (y < x => tile[y] < tile[x])
      OBVIOUS
    <3>2. x = y => tile[x] = tile[y]
      OBVIOUS
    <3> QED BY <3>1, <3>2
  <2>4. ASSUME NEW j PROVE (j \in S /\ j < tile[x]) <=> j \in FirstOf(tile, x - 1)
    <3>1. ASSUME j \in S, j < tile[x] PROVE j \in FirstOf(tile, x - 1)
      <4>1. PICK y \in 1..h : j = tile[y]
        BY <3>1, Zenon DEF FirstOf
      <4>2. y \in 1..x - 1
        BY <2>3, <3>1, <4>1, Zenon
      <4> QED BY <4>1, <4>2, Zenon DEF FirstOf
    <3>2. ASSUME j \in FirstOf(tile, x - 1) PROVE j \in S /\ j < tile[x]
      <4>1. PICK y \in 1..x - 1 : j = tile[y]
        BY <3>2, Zenon DEF FirstOf
      <4>2. y \in 1..h
        OBVIOUS
      <4> QED BY <2>3, <4>1, <4>2, Zenon DEF FirstOf
    <3> QED BY <3>1, <3>2, Zenon
  <2>5. {j \in S : j < tile[x]} = FirstOf(tile, x - 1)
    BY <2>4
  <2> QED BY <2>2, <2>5, Zenon
<1>3. ASSUME NEW x \in 1..h PROVE (CHOOSE i \in S : Cardinality({j \in S : j < i}) = x - 1) = tile[x]
  <2>1. tile[x] \in S
    BY Zenon DEF FirstOf
  <2>2. PICK i : i = CHOOSE v \in S : Cardinality({j \in S : j < v}) = x - 1
    OBVIOUS
  <2>3. i \in S /\ Cardinality({j \in S : j < i}) = x - 1
    BY <1>2, <2>1, <2>2, Zenon
  <2>4. PICK y \in 1..h : i = tile[y]
    BY <2>3, Zenon DEF FirstOf
  <2>5. y - 1 = x - 1
    BY <1>2, <2>3, <2>4, Zenon
  <2>6. y = x
    BY <2>5
  <2> QED BY <2>2, <2>4, <2>6, Zenon
<1>4. Sorted(S) = [x \in 1..h |-> CHOOSE i \in S : Cardinality({j \in S : j < i}) = x - 1]
  BY <1>1, Zenon DEF Sorted
<1>5. Sorted(S) = [x \in 1..h |-> tile[x]]
  BY <1>3, <1>4, Zenon
<1> QED BY <1>5, Zenon

(* Every index is in some lane, when there is one for each.                *)
LanesHold(indices, step) == Sorted(ToSet(Lanes(indices, step))) = indices

(* The lanes of a tile that ascends give it back. *)
LEMMA LanesAre ==
  ASSUME NEW list, IsList(list), NEW tile, IsRising(tile, list),
         NEW step \in Nat \ {0}, Len(list) * step <= LANES
  PROVE  LanesHold(tile, step)
<1>1. PICK h : h = Len(list)
  OBVIOUS
<1>2. h \in Nat \ {0} /\ Len(tile) = h
  BY <1>1, Zenon DEF IsList, IsRising
<1>3. \A x, y \in 1..h : x < y => tile[x] < tile[y]
  BY <1>1, Zenon DEF IsRising
<1>4. \A x \in 1..h : tile[x] \in Nat
  BY <1>1, Zenon DEF IsRising
<1>5. LANES \in Nat
  BY HitLanesAssumption
<1>6. PICK laned : laned = Lanes(tile, step)
  OBVIOUS
<1>7. DOMAIN laned = 1..LANES /\ \A l \in 1..LANES : laned[l] = tile[(((l - 1) \div step) % h) + 1]
  BY <1>2, <1>6, Zenon DEF Lanes
<1>8. ASSUME NEW l \in 1..LANES PROVE (((l - 1) \div step) % h) + 1 \in 1..h
  <2>1. l - 1 \in Nat
    OBVIOUS
  <2>2. PICK q, s : q = (l - 1) \div step /\ s = q % h
    OBVIOUS
  <2>3. q \in Nat
    BY <2>1, <2>2, QuotientIn, Zenon
  <2>4. s \in 0..h - 1
    BY <1>2, <2>2, <2>3, RemainderIn, Zenon
  <2>5. s + 1 \in 1..h
    <3> HIDE <2>2
    <3> QED BY <1>2, <2>4
  <2> QED BY <2>2, <2>5, Zenon
<1>9. ASSUME NEW y \in 1..h PROVE \E l \in 1..LANES : laned[l] = tile[y]
  <2>1. h \in Nat /\ step \in Nat /\ y - 1 \in 0..h - 1 /\ 0 \in 0..step - 1
    BY <1>2
  <2>2. PICK l : NumberOf(h, step, y - 1, 0, l)
    BY <2>1, NumberIs, Zenon
  <2>3. l \in 1..h * step /\ (l - 1) \div step = y - 1
    BY <2>2, Zenon DEF NumberOf
  <2>4. l \in 1..LANES
    <3>1. PICK n : n = h * step
      OBVIOUS
    <3>2. n \in Nat /\ n <= LANES /\ l \in 1..n
      BY <1>1, <1>2, <2>3, <3>1
    <3> HIDE <2>2, <2>3, <3>1
    <3> QED BY <1>5, <3>2
  <2>5. (y - 1) % h = y - 1
    <3>1. y - 1 \in 0..h - 1
      BY <1>2
    <3> QED BY <1>2, <3>1, BelowDivisor, Zenon
  <2>6. laned[l] = tile[((y - 1) % h) + 1]
    BY <1>7, <2>3, <2>4, Zenon
  <2>7. (y - 1) + 1 = y
    OBVIOUS
  <2> QED BY <2>4, <2>5, <2>6, <2>7, Zenon
<1>10. ToSet(laned) = FirstOf(tile, h)
  <2>1. ASSUME NEW v \in ToSet(laned) PROVE v \in FirstOf(tile, h)
    <3>1. PICK l \in 1..LANES : v = laned[l]
      BY <1>7, Zenon DEF ToSet
    <3> QED BY <1>7, <1>8, <3>1, Zenon DEF FirstOf
  <2>2. ASSUME NEW v \in FirstOf(tile, h) PROVE v \in ToSet(laned)
    <3>1. PICK y \in 1..h : v = tile[y]
      BY Zenon DEF FirstOf
    <3>2. PICK l \in 1..LANES : laned[l] = tile[y]
      BY <1>9, Zenon
    <3> QED BY <1>7, <3>1, <3>2, Zenon DEF ToSet
  <2> QED BY <2>1, <2>2
<1>11. Sorted(ToSet(laned)) = tile
  <2>1. h \in Nat /\ tile = [x \in 1..h |-> tile[x]]
    BY <1>1, <1>2, Zenon DEF IsRising
  <2> QED BY <1>3, <1>4, <1>10, <2>1, SortedOfAscending, Zenon
<1> QED BY <1>6, <1>11, Zenon DEF LanesHold

-----------------------------------------------------------------------------
(* The tiles of a kernel, which ascend whatever its patterns.              *)
FromKernel(tiles, kernel) ==
  /\ \E count \in Nat : DOMAIN tiles = 1..count
  /\ IsList(ToList(kernel.rows)) /\ IsList(ToList(kernel.cols))
  /\ \A y \in DOMAIN tiles : /\ IsRising(tiles[y].a_rows, ToList(kernel.rows))
                             /\ IsRising(tiles[y].b_cols, ToList(kernel.cols))

KernelTiles(x, p) ==
  FallbackTiles("scalar", p, ThreadsPartition(x.kernel.rows, x.m), ThreadsPartition(x.kernel.cols, x.n), x.k, x.config.rank)

(* The tiles of a kernel are such. *)
LEMMA KernelTilesRise ==
  ASSUME NEW x, x.m \in Nat, x.n \in Nat, IsPattern(x.kernel.rows), IsPattern(x.kernel.cols), NEW p
  PROVE  FromKernel(KernelTiles(x, p), x.kernel)
<1>1. PICK row_tiles, col_tiles, rows, cols, tiles :
        /\ row_tiles = ThreadsPartition(x.kernel.rows, x.m) /\ col_tiles = ThreadsPartition(x.kernel.cols, x.n)
        /\ rows = Len(row_tiles) /\ cols = Len(col_tiles) /\ tiles = KernelTiles(x, p)
  OBVIOUS
<1>2. rows \in Nat /\ cols \in Nat /\ DOMAIN row_tiles = 1..rows /\ DOMAIN col_tiles = 1..cols
  BY <1>1, PartitionIsNumbered, Zenon
<1>3. /\ IsList(ToList(x.kernel.rows)) /\ \A tile \in ToSet(row_tiles) : IsRising(tile, ToList(x.kernel.rows))
      /\ IsList(ToList(x.kernel.cols)) /\ \A tile \in ToSet(col_tiles) : IsRising(tile, ToList(x.kernel.cols))
  BY <1>1, TilesRise, Zenon
<1>4. rows * cols \in Nat /\ DOMAIN tiles = 1..rows * cols
  <2>1. rows * cols \in Nat
    BY <1>2
  <2> QED BY <1>1, <2>1, Zenon DEF KernelTiles, FallbackTiles
<1>5. ASSUME NEW y \in DOMAIN tiles
      PROVE  IsRising(tiles[y].a_rows, ToList(x.kernel.rows)) /\ IsRising(tiles[y].b_cols, ToList(x.kernel.cols))
  <2>1. y \in 1..rows * cols
    BY <1>4, Zenon
  <2>2. PICK t, c : t = (y - 1) \div cols /\ c = (y - 1) % cols
    OBVIOUS
  <2>3. t \in 0..rows - 1 /\ c \in 0..cols - 1
    <3>1. IsNumbered(rows, cols, y)
      BY <1>2, <2>1, NumberedIn, Zenon
    <3> QED BY <2>2, <3>1, Zenon DEF IsNumbered
  <2>4. PICK a_rows, b_cols : a_rows = row_tiles[t + 1] /\ b_cols = col_tiles[c + 1]
    OBVIOUS
  <2>5. a_rows \in ToSet(row_tiles) /\ b_cols \in ToSet(col_tiles)
    BY <1>1, <1>2, <2>3, <2>4, TileNumbered, Zenon
  <2>6. PICK msg : msg = TileJackpotFlat("scalar", a_rows, b_cols, p.a_noised, p.b_noised_t, x.config.rank, x.k)
    OBVIOUS
  <2>7. tiles[y] = [a_rows |-> a_rows, b_cols |-> b_cols, msg |-> msg]
    <3>1. tiles[y] = [a_rows |-> row_tiles[((y - 1) \div cols) + 1], b_cols |-> col_tiles[((y - 1) % cols) + 1],
                      msg |-> TileJackpotFlat("scalar", row_tiles[((y - 1) \div cols) + 1], col_tiles[((y - 1) % cols) + 1],
                                              p.a_noised, p.b_noised_t, x.config.rank, x.k)]
      BY <1>1, <2>1, Zenon DEF KernelTiles, FallbackTiles
    <3> QED BY <2>2, <2>4, <2>6, <3>1, Zenon
  <2>8. tiles[y].a_rows = a_rows /\ tiles[y].b_cols = b_cols
    BY <2>7
  <2> QED BY <1>3, <2>5, <2>8, Zenon
<1> QED BY <1>1, <1>3, <1>4, <1>5, Zenon DEF FromKernel

-----------------------------------------------------------------------------
(* What is stored of the tiles that meet the bound, in either order.       *)
IsListing(stored, meets) ==
  /\ Len(stored) \in Nat /\ \A s \in 1..Len(stored) : stored[s] \in meets
  /\ Len(stored) = 0 <=> meets = {}

(* Sorted or reversed, all that meets the bound is listed. *)
LEMMA ListingIs ==
  ASSUME NEW count \in Nat, NEW meets \in SUBSET (1..count), NEW run
  PROVE  IsListing(InOrder(run, Sorted(meets)), meets)
<1>1. meets \in SUBSET Nat /\ IsFiniteSet(meets)
  <2>1. IsFiniteSet(1..count)
    BY FS_Interval
  <2>2. IsFiniteSet(meets)
    BY <2>1, FS_Subset, Zenon
  <2> QED BY <2>2
<1>2. PICK list, c : list = Sorted(meets) /\ c = Cardinality(meets)
  OBVIOUS
<1>3. c \in Nat /\ list \in Seq(meets) /\ Len(list) = c /\ \A i \in meets : \E x \in 1..c : list[x] = i
  BY <1>1, <1>2, SortedIs, Zenon
<1>4. \A s \in 1..c : list[s] \in meets
  BY <1>3
<1>5. c = 0 <=> meets = {}
  <2>1. c # 0 => list[1] \in meets
    <3>1. c # 0 => 1 \in 1..c
      BY <1>3
    <3> QED BY <1>4, <3>1, Zenon
  <2>2. c = 0 => 1..c = {}
    BY <1>3
  <2> QED BY <1>3, <2>1, <2>2, Zenon
<1>6. IsListing(list, meets)
  BY <1>3, <1>4, <1>5, Zenon DEF IsListing
<1>7. IsListing(Reverse(list), meets)
  <2>1. PICK back : back = Reverse(list)
    OBVIOUS
  <2>2. back = [i \in 1..c |-> list[(c - i) + 1]]
    BY <1>3, <2>1, Zenon DEF Reverse
  <2>3. ASSUME NEW i \in 1..c PROVE back[i] \in meets
    <3>1. (c - i) + 1 \in 1..c
      BY <1>3
    <3>2. back[i] = list[(c - i) + 1]
      BY <2>2, Zenon
    <3> QED BY <1>4, <3>1, <3>2, Zenon
  <2>4. back = [i \in 1..c |-> back[i]]
    BY <2>2, Zenon
  <2>5. Len(back) = c
    BY <1>3, <2>3, <2>4, ListedIsSeq, Zenon
  <2> QED BY <1>3, <1>5, <2>1, <2>3, <2>5, Zenon DEF IsListing
<1> QED BY <1>2, <1>6, <1>7, Zenon DEF InOrder

-----------------------------------------------------------------------------
(* The hits of a call: tiles of those that meet the bound, and none only   *)
(* if there are none or the call failed.                                   *)
HitsAre(result, tiles, meets, none) ==
  /\ \E r \in Nat : DOMAIN result.hits = 1..r
  /\ \A s \in DOMAIN result.hits :
       \E y \in meets : result.hits[s].rows = tiles[y].a_rows /\ result.hits[s].cols = tiles[y].b_cols
  /\ result.found <= 0 <=> none
  /\ DOMAIN result.hits = {} <=> none

IsReturned(r, c, max_hits) == r \in Nat /\ r <= c /\ (r = 0 <=> c = 0) /\ r = IF c < max_hits THEN c ELSE max_hits

(* A call hands back all, or as many as there is room for. *)
LEMMA ReturnedIs ==
  ASSUME NEW c \in Nat, NEW max_hits \in Nat \ {0}, NEW r, r = Returned(c, max_hits)
  PROVE  IsReturned(r, c, max_hits)
<1>1. ~(c < 0)
  OBVIOUS
<1>2. r = IF c < max_hits THEN c ELSE max_hits
  BY <1>1, Zenon DEF Returned
<1> QED BY <1>2 DEF IsReturned

StoredHits(tiles, stored, w, max_hits) == Hits(HitBuffers(tiles, stored, w, max_hits), max_hits)

(* The hits of what is stored are tiles that meet the bound. *)
LEMMA StoredHitsAre ==
  ASSUME NEW tiles, NEW kernel, FromKernel(tiles, kernel), NEW meets \in SUBSET DOMAIN tiles,
         NEW stored, IsListing(stored, meets), NEW w, w = Len(ToList(kernel.cols)),
         Len(ToList(kernel.rows)) * w <= LANES, NEW max_hits \in Nat \ {0}
  PROVE  HitsAre(StoredHits(tiles, stored, w, max_hits), tiles, meets, meets = {})
<1>1. PICK c, r : c = Len(stored) /\ r = Returned(c, max_hits)
  OBVIOUS
<1>2. c \in Nat /\ (\A s \in 1..c : stored[s] \in meets) /\ (c = 0 <=> meets = {})
  BY <1>1, Zenon DEF IsListing
<1>3. r \in Nat /\ r <= c /\ (r = 0 <=> c = 0) /\ r = IF c < max_hits THEN c ELSE max_hits
  <2>1. IsReturned(r, c, max_hits)
    BY <1>1, <1>2, ReturnedIs, Zenon
  <2> QED BY <2>1, Zenon DEF IsReturned
<1>4. PICK raw : raw = HitBuffers(tiles, stored, w, max_hits)
  OBVIOUS
<1>5. raw = [found |-> c, rows |-> [s \in 1..r |-> Lanes(tiles[stored[s]].a_rows, w)],
             cols |-> [s \in 1..r |-> Lanes(tiles[stored[s]].b_cols, 1)]]
  BY <1>1, <1>3, <1>4, Zenon DEF HitBuffers
<1>6. PICK rows, cols : /\ rows = [s \in 1..r |-> Lanes(tiles[stored[s]].a_rows, w)]
                        /\ cols = [s \in 1..r |-> Lanes(tiles[stored[s]].b_cols, 1)]
  OBVIOUS
<1>7. raw.found = c /\ raw.rows = rows /\ raw.cols = cols
  <2>1. raw = [found |-> c, rows |-> rows, cols |-> cols]
    BY <1>5, <1>6, Zenon
  <2> QED BY <2>1
<1>8. PICK result, hits : /\ result = Hits(raw, max_hits)
                          /\ hits = [s \in 1..r |-> [rows |-> Sorted(ToSet(rows[s])), cols |-> Sorted(ToSet(cols[s]))]]
  OBVIOUS
<1>9. result = [found |-> c, hits |-> hits]
  BY <1>1, <1>7, <1>8, Zenon DEF Hits
<1>10. result.found = c /\ result.hits = hits
  BY <1>9
<1>11. IsList(ToList(kernel.rows)) /\ IsList(ToList(kernel.cols))
  BY Zenon DEF FromKernel
<1>12. w \in Nat \ {0} /\ 1 \in Nat \ {0} /\ Len(ToList(kernel.cols)) * 1 <= LANES
  <2>1. w \in Nat \ {0} /\ Len(ToList(kernel.rows)) \in Nat \ {0}
    BY <1>11, Zenon DEF IsList
  <2>2. PICK h, n : h = Len(ToList(kernel.rows)) /\ n = h * w
    OBVIOUS
  <2>3. h \in Nat \ {0} /\ n <= LANES
    BY <2>1, <2>2, Zenon
  <2>4. w <= n /\ n \in Nat
    <3>1. 1 \in Nat /\ h \in Nat /\ w \in Nat /\ 1 <= h
      BY <2>1, <2>3
    <3>2. 1 * w <= h * w
      <4>1. 1 <= h
        BY <3>1
      <4>2. \A a, b, k \in Nat : a <= b => a * k <= b * k
        BY Times, Zenon
      <4> QED BY <3>1, <4>1, <4>2, Zenon
    <3>3. 1 * w = w /\ h * w \in Nat
      BY <3>1
    <3> QED BY <2>2, <3>2, <3>3, Zenon
  <2>5. w * 1 <= LANES
    <3> HIDE <2>2
    <3> QED BY <2>1, <2>3, <2>4, HitLanesAssumption
  <2>6. 1 \in Nat \ {0}
    OBVIOUS
  <2> QED BY <2>1, <2>5, <2>6, Zenon
<1>13. ASSUME NEW s \in 1..r
       PROVE  \E y \in meets : hits[s].rows = tiles[y].a_rows /\ hits[s].cols = tiles[y].b_cols
  <2>1. s \in 1..c
    BY <1>2, <1>3
  <2>2. PICK y : y = stored[s]
    OBVIOUS
  <2>3. y \in meets /\ y \in DOMAIN tiles
    BY <1>2, <2>1, <2>2, Zenon
  <2>4. PICK a_rows, b_cols : a_rows = tiles[y].a_rows /\ b_cols = tiles[y].b_cols
    OBVIOUS
  <2>5. IsRising(a_rows, ToList(kernel.rows)) /\ IsRising(b_cols, ToList(kernel.cols))
    BY <2>3, <2>4, Zenon DEF FromKernel
  <2>6. LanesHold(a_rows, w)
    BY <1>11, <1>12, <2>5, LanesAre, Zenon
  <2>7. LanesHold(b_cols, 1)
    BY <1>11, <1>12, <2>5, LanesAre, Zenon
  <2>8. rows[s] = Lanes(a_rows, w) /\ cols[s] = Lanes(b_cols, 1)
    BY <1>6, <2>2, <2>4, Zenon
  <2>9. hits[s] = [rows |-> a_rows, cols |-> b_cols]
    <3>1. hits[s] = [rows |-> Sorted(ToSet(rows[s])), cols |-> Sorted(ToSet(cols[s]))]
      BY <1>8, Zenon
    <3> QED BY <2>6, <2>7, <2>8, <3>1, Zenon DEF LanesHold
  <2>10. hits[s].rows = a_rows /\ hits[s].cols = b_cols
    BY <2>9
  <2> QED BY <2>3, <2>4, <2>10, Zenon
<1>14. DOMAIN hits = 1..r
  BY <1>8, Zenon
<1>15. c <= 0 <=> meets = {}
  <2>1. c <= 0 <=> c = 0
    BY <1>2
  <2> QED BY <1>2, <2>1, Zenon
<1>16. 1..r = {} <=> meets = {}
  <2>1. 1..r = {} <=> r = 0
    <3>1. r \in Nat
      BY <1>3
    <3>2. r # 0 => 1 \in 1..r
      BY <3>1
    <3>3. r = 0 => 1..r = {}
      OBVIOUS
    <3> QED BY <3>2, <3>3, Zenon
  <2> QED BY <1>2, <1>3, <2>1, Zenon
<1>17. HitsAre(result, tiles, meets, meets = {})
  <2>1. \E y \in Nat : DOMAIN result.hits = 1..y
    BY <1>3, <1>10, <1>14, Zenon
  <2>2. ASSUME NEW s \in DOMAIN result.hits
        PROVE  \E y \in meets : result.hits[s].rows = tiles[y].a_rows /\ result.hits[s].cols = tiles[y].b_cols
    <3>1. s \in 1..r
      BY <1>10, <1>14, Zenon
    <3> QED BY <1>10, <1>13, <3>1, Zenon
  <2>3. (result.found <= 0 <=> meets = {}) /\ (DOMAIN result.hits = {} <=> meets = {})
    BY <1>10, <1>14, <1>15, <1>16, Zenon
  <2> QED BY <2>1, <2>2, <2>3, Zenon DEF HitsAre
<1> QED BY <1>4, <1>8, <1>17, Zenon DEF StoredHits

-----------------------------------------------------------------------------
(* A call for what is searched for, with room for so many hits.            *)
Called(x, p, max_hits) ==
  Hits(Device(x.run, x.kernel, p, x.m, x.n, x.k, x.config.rank, x.bound, max_hits), max_hits)

MeetingOf(x, p) ==
  {y \in DOMAIN KernelTiles(x, p) : ComputeJackpotHash(KernelTiles(x, p)[y].msg, p.a_noise_seed) <= x.bound}

Nothing(x, p) == x.run = "error" \/ MeetingOf(x, p) = {}

(* A call that failed has none. *)
LEMMA FailedCallIs ==
  ASSUME NEW raw, raw = [found |-> -1, rows |-> <<>>, cols |-> <<>>], NEW max_hits, NEW tiles, NEW meets
  PROVE  HitsAre(Hits(raw, max_hits), tiles, meets, TRUE)
<1>1. raw.found = -1
  OBVIOUS
<1>2. Returned(-1, max_hits) = 0
  <2>1. -1 < 0
    OBVIOUS
  <2> QED BY <2>1, Zenon DEF Returned
<1>3. PICK result, hits : /\ result = Hits(raw, max_hits)
                          /\ hits = [s \in 1..0 |-> [rows |-> Sorted(ToSet(raw.rows[s])), cols |-> Sorted(ToSet(raw.cols[s]))]]
  OBVIOUS
<1>4. result = [found |-> -1, hits |-> hits]
  BY <1>1, <1>2, <1>3, Zenon DEF Hits
<1>5. result.found = -1 /\ result.hits = hits
  BY <1>4
<1>6. DOMAIN hits = 1..0
  BY <1>3, Zenon
<1>7. 1..0 = {} /\ 0 \in Nat /\ -1 <= 0
  OBVIOUS
<1>8. /\ \E r \in Nat : DOMAIN result.hits = 1..r
      /\ DOMAIN result.hits = {} /\ result.found <= 0
  BY <1>5, <1>6, <1>7, Zenon
<1> QED BY <1>3, <1>8, Zenon DEF HitsAre

(* A call has none only if it failed or no tile meets the bound. *)
LEMMA CallIs ==
  ASSUME NEW x, HitInput(x), NEW p, NEW max_hits \in Nat \ {0}
  PROVE  HitsAre(Called(x, p, max_hits), KernelTiles(x, p), MeetingOf(x, p), Nothing(x, p))
<1>1. PICK tiles, meets, w, raw :
        /\ tiles = KernelTiles(x, p) /\ meets = MeetingOf(x, p) /\ w = Len(ToList(x.kernel.cols))
        /\ raw = Device(x.run, x.kernel, p, x.m, x.n, x.k, x.config.rank, x.bound, max_hits)
  OBVIOUS
<1>2. CASE x.run = "error"
  <2>1. raw = [found |-> -1, rows |-> <<>>, cols |-> <<>>]
    BY <1>1, <1>2, Zenon DEF Device
  <2>2. HitsAre(Hits(raw, max_hits), tiles, meets, TRUE)
    BY <2>1, FailedCallIs, Zenon
  <2>3. Nothing(x, p)
    BY <1>2, Zenon DEF Nothing
  <2>4. PICK result : result = Hits(raw, max_hits)
    OBVIOUS
  <2>5. HitsAre(result, tiles, meets, Nothing(x, p))
    BY <2>2, <2>3, <2>4, Zenon DEF HitsAre
  <2> QED BY <1>1, <2>4, <2>5, Zenon DEF Called
<1>3. CASE x.run # "error"
  <2>1. FromKernel(tiles, x.kernel)
    <3>1. x.m \in Nat /\ x.n \in Nat /\ IsPattern(x.kernel.rows) /\ IsPattern(x.kernel.cols)
      BY Zenon DEF HitInput
    <3> QED BY <1>1, <3>1, KernelTilesRise, Zenon
  <2>2. meets \in SUBSET DOMAIN tiles
    BY <1>1, Zenon DEF MeetingOf
  <2>3. PICK stored : stored = InOrder(x.run, Sorted(meets))
    OBVIOUS
  <2>4. IsListing(stored, meets)
    <3>1. PICK count \in Nat : DOMAIN tiles = 1..count
      BY <2>1, Zenon DEF FromKernel
    <3>2. meets \in SUBSET (1..count)
      BY <2>2, <3>1, Zenon
    <3> QED BY <2>3, <3>2, ListingIs, Zenon
  <2>5. Len(ToList(x.kernel.rows)) * w <= LANES
    BY <1>1, Zenon DEF HitInput
  <2>6. raw = HitBuffers(tiles, stored, w, max_hits)
    <3>1. meets = {y \in DOMAIN tiles : ComputeJackpotHash(tiles[y].msg, p.a_noise_seed) <= x.bound}
      BY <1>1, Zenon DEF MeetingOf
    <3>2. stored = InOrder(x.run, Meeting(tiles, p.a_noise_seed, x.bound))
      BY <2>3, <3>1, Zenon DEF Meeting
    <3>3. raw = Stored(x.run, tiles, w, p.a_noise_seed, x.bound, max_hits)
      BY <1>1, <1>3, Zenon DEF Device, KernelTiles
    <3> QED BY <3>2, <3>3, Zenon DEF Stored
  <2>7. HitsAre(StoredHits(tiles, stored, w, max_hits), tiles, meets, meets = {})
    BY <1>1, <2>1, <2>2, <2>4, <2>5, StoredHitsAre, Zenon
  <2>8. StoredHits(tiles, stored, w, max_hits) = Called(x, p, max_hits)
    BY <1>1, <2>6, Zenon DEF StoredHits, Called
  <2>9. meets = {} <=> Nothing(x, p)
    BY <1>1, <1>3, Zenon DEF Nothing
  <2>10. PICK result : result = Called(x, p, max_hits)
    OBVIOUS
  <2>11. HitsAre(result, tiles, meets, meets = {})
    BY <2>7, <2>8, <2>10, Zenon
  <2>12. HitsAre(result, tiles, meets, Nothing(x, p))
    BY <2>9, <2>11, Zenon DEF HitsAre
  <2> QED BY <1>1, <2>10, <2>12, Zenon
<1> QED BY <1>2, <1>3, Zenon

-----------------------------------------------------------------------------
(* The signals that are searched: of 7 bits, wherever they are made.       *)
Centred(d) == (d % Half) - (Half \div 2)

(* A centred digest is a signal. *)
LEMMA CentredIs ==
  ASSUME NEW d \in Nat
  PROVE  Centred(d) \in Signals
<1>1. PICK h, half, s : h = Half /\ half = Half \div 2 /\ s = d % Half
  OBVIOUS
<1>2. h \in Nat \ {0} /\ half \in Nat /\ h = half + half
  <2>1. PICK q : q = Quarter
    OBVIOUS
  <2>2. h = 4 * q /\ half = 2 * q /\ q \in Nat \ {0} /\ h \in Nat \ {0}
    BY <1>1, <2>1, QuarterIs, Zenon
  <2> HIDE <1>1, <2>1
  <2> QED BY <2>2
<1>3. s \in 0..h - 1
  BY <1>1, <1>2, RemainderIn, Zenon
<1>4. s - half \in -half..half - 1
  <2> HIDE <1>1
  <2> QED BY <1>2, <1>3
<1> QED BY <1>1, <1>4, Zenon DEF Centred, Signals

(* So is a matrix of them. *)
LEMMA CentredAreSignal ==
  ASSUME NEW dim \in Nat, NEW k \in Nat, NEW f, NEW sig, \A y \in 0..dim * k - 1 : f[y] \in Nat,
         sig = [y \in 0..dim * k - 1 |-> Centred(f[y])]
  PROVE  IsSignal(sig, dim, k)
<1>1. \A y \in 0..dim * k - 1 : Centred(f[y]) \in Signals
  BY CentredIs, Zenon
<1> QED BY <1>1, Zenon DEF IsSignal

(* What the device makes of a seed is a signal. *)
LEMMA DeviceSignalIs ==
  ASSUME DigestIsNumber, NEW seed, NEW sel, NEW dim \in Nat, NEW k \in Nat
  PROVE  IsSignal(DeviceSignal(seed, sel, dim, k), dim, k)
<1>1. PICK f : f = [y \in 0..dim * k - 1 |-> Blake3(seed, <<sel, y \div k, y % k>>)]
  OBVIOUS
<1>2. \A y \in 0..dim * k - 1 : f[y] \in Nat
  BY <1>1, Zenon DEF DigestIsNumber
<1>3. PICK sig : sig = DeviceSignal(seed, sel, dim, k)
  OBVIOUS
<1>4. sig = [y \in 0..dim * k - 1 |-> Centred(f[y])]
  BY <1>1, <1>3, Zenon DEF DeviceSignal, Centred
<1> QED BY <1>2, <1>3, <1>4, CentredAreSignal, Zenon

FillWord(seed, i, j) == Blake3(seed, <<i, j>>) % (2 * Half)

(* A word of the generator is a number. *)
LEMMA FillWordIs ==
  ASSUME DigestIsNumber, NEW seed, NEW i, NEW j
  PROVE  FillWord(seed, i, j) \in Nat
<1>1. PICK d, p : d = Blake3(seed, <<i, j>>) /\ p = 2 * Half
  OBVIOUS
<1>2. d \in Nat
  BY <1>1, Zenon DEF DigestIsNumber
<1>3. p \in Nat \ {0}
  BY <1>1, WordAssumption
<1>4. PICK s : s = d % p
  OBVIOUS
<1>5. s \in 0..p - 1
  BY <1>2, <1>3, <1>4, RemainderIn, Zenon
<1>6. s \in Nat
  <2> HIDE <1>1, <1>4
  <2> QED BY <1>3, <1>5
<1> QED BY <1>1, <1>4, <1>6, Zenon DEF FillWord

FillByte(seed, len, y) ==
  LET next(i) == [j \in 0..7 |-> Blake3(seed, <<i, j>>) % (2 * Half)]
      whole == (len \div 8) * 8
  IN IF y < whole THEN next(y \div 8)[y % 8] ELSE next((whole \div 8) + y - whole)[(y - whole) % 8]

(* So is the byte at any place, of a whole word or of the rest. *)
LEMMA FillByteIs ==
  ASSUME DigestIsNumber, NEW seed, NEW len \in Nat, NEW y \in Nat
  PROVE  FillByte(seed, len, y) \in Nat
<1>1. PICK q, whole : q = len \div 8 /\ whole = q * 8
  OBVIOUS
<1>2. q \in Nat /\ whole \in Nat
  <2>1. 8 \in Nat \ {0}
    OBVIOUS
  <2>2. q \in Nat
    BY <1>1, <2>1, QuotientIn, Zenon
  <2>3. q * 8 \in Nat
    BY <2>2
  <2> QED BY <1>1, <2>2, <2>3, Zenon
<1>3. ASSUME NEW z \in Nat PROVE z % 8 \in 0..7
  BY RemainderIn
<1>4. /\ y < whole => FillByte(seed, len, y) = [j \in 0..7 |-> Blake3(seed, <<y \div 8, j>>) % (2 * Half)][y % 8]
      /\ ~(y < whole) =>
           FillByte(seed, len, y)
             = [j \in 0..7 |-> Blake3(seed, <<(whole \div 8) + y - whole, j>>) % (2 * Half)][(y - whole) % 8]
  <2>1. FillByte(seed, len, y)
          = IF y < (len \div 8) * 8 THEN [j \in 0..7 |-> Blake3(seed, <<y \div 8, j>>) % (2 * Half)][y % 8]
            ELSE [j \in 0..7 |-> Blake3(seed, <<(((len \div 8) * 8) \div 8) + y - ((len \div 8) * 8), j>>) % (2 * Half)]
                   [(y - ((len \div 8) * 8)) % 8]
    BY Zenon DEF FillByte
  <2>2. whole = (len \div 8) * 8
    BY <1>1, Zenon
  <2>3. FillByte(seed, len, y)
          = IF y < whole THEN [j \in 0..7 |-> Blake3(seed, <<y \div 8, j>>) % (2 * Half)][y % 8]
            ELSE [j \in 0..7 |-> Blake3(seed, <<(whole \div 8) + y - whole, j>>) % (2 * Half)][(y - whole) % 8]
    BY <2>1, <2>2, Zenon
  <2> QED BY <2>3, Zenon
<1>5. CASE y < whole
  <2>1. y % 8 \in 0..7
    BY <1>3, Zenon
  <2>2. FillByte(seed, len, y) = [j \in 0..7 |-> Blake3(seed, <<y \div 8, j>>) % (2 * Half)][y % 8]
    BY <1>4, <1>5, Zenon
  <2>3. FillByte(seed, len, y) = FillWord(seed, y \div 8, y % 8)
    BY <2>1, <2>2, Zenon DEF FillWord
  <2> QED BY <2>3, FillWordIs, Zenon
<1>6. CASE ~(y < whole)
  <2>1. PICK i, z : i = (whole \div 8) + y - whole /\ z = y - whole
    OBVIOUS
  <2>2. z \in Nat
    <3>1. z = y - whole
      BY <2>1, Zenon
    <3> HIDE <1>1, <2>1
    <3> QED BY <1>2, <1>6, <3>1
  <2>3. z % 8 \in 0..7
    BY <1>3, <2>2, Zenon
  <2>4. FillByte(seed, len, y) = [j \in 0..7 |-> Blake3(seed, <<i, j>>) % (2 * Half)][z % 8]
    BY <1>4, <1>6, <2>1, Zenon
  <2>5. FillByte(seed, len, y) = FillWord(seed, i, z % 8)
    BY <2>3, <2>4, Zenon DEF FillWord
  <2> QED BY <2>5, FillWordIs, Zenon
<1> QED BY <1>5, <1>6, Zenon

(* What fast_fill_signal makes is a signal. *)
LEMMA FillSignalIs ==
  ASSUME DigestIsNumber, NEW seed, NEW dim \in Nat, NEW k \in Nat
  PROVE  IsSignal(FastFillSignal(seed, dim * k), dim, k)
<1>1. PICK len : len = dim * k
  OBVIOUS
<1>2. len \in Nat
  BY <1>1
<1>3. PICK f : f = [y \in 0..len - 1 |-> FillByte(seed, len, y)]
  OBVIOUS
<1>4. ASSUME NEW y \in 0..len - 1 PROVE f[y] \in Nat
  <2>1. y \in Nat
    OBVIOUS
  <2>2. FillByte(seed, len, y) \in Nat
    BY <1>2, <2>1, FillByteIs, Zenon
  <2> QED BY <1>3, <2>2, Zenon
<1>5. PICK sig : sig = FastFillSignal(seed, len)
  OBVIOUS
<1>6. sig = [y \in 0..len - 1 |-> Centred(FillByte(seed, len, y))]
  BY <1>5, Zenon DEF FastFillSignal, FillByte, Centred
<1>7. sig = [y \in 0..len - 1 |-> Centred(f[y])]
  BY <1>3, <1>6, Zenon
<1> QED BY <1>1, <1>4, <1>5, <1>7, CentredAreSignal, Zenon

-----------------------------------------------------------------------------
(* What is searched for, as it is drawn.                                   *)
SignalFor(x, seed, sel, dim) ==
  IF x.via \in {"host", "host 2x64"} THEN FastFillSignal(seed + 90 * sel, dim * x.k)
  ELSE DeviceSignal(seed, sel, dim, x.k)

IsDrawnFor(d, x) ==
  /\ d.m = x.m /\ d.n = x.n /\ d.k = x.k /\ d.config = x.config /\ d.patterns = x.patterns /\ d.header = x.header
  /\ d.a_sig = SignalFor(x, x.a_seed, 0, x.m) /\ d.b_sig = SignalFor(x, x.b_seed, 1, x.n)

(* Wherever it is drawn, it is a signal. *)
LEMMA SignalForIs ==
  ASSUME DigestIsNumber, NEW x, HitInput(x), NEW seed, NEW sel, NEW dim \in Nat
  PROVE  IsSignal(SignalFor(x, seed, sel, dim), dim, x.k)
<1>1. PICK k : k = x.k
  OBVIOUS
<1>2. k \in Nat
  <2>1. k \in Nat \ {0}
    BY <1>1, Zenon DEF HitInput
  <2> QED BY <2>1
<1>3. CASE x.via \in {"host", "host 2x64"}
  <2>1. IsSignal(FastFillSignal(seed + 90 * sel, dim * k), dim, k)
    BY <1>2, FillSignalIs, Zenon
  <2> QED BY <1>1, <1>3, <2>1, Zenon DEF SignalFor
<1>4. CASE ~(x.via \in {"host", "host 2x64"})
  <2>1. IsSignal(DeviceSignal(seed, sel, dim, k), dim, k)
    BY <1>2, DeviceSignalIs, Zenon
  <2> QED BY <1>1, <1>4, <2>1, Zenon DEF SignalFor
<1> QED BY <1>3, <1>4, Zenon

(* What is searched for is drawn as an attempt is. *)
LEMMA DrawnForIs ==
  ASSUME DigestIsNumber, NEW x, HitInput(x)
  PROVE  \E d : IsDrawnFor(d, x) /\ Drawn(d)
<1>1. PICK d : d = [m |-> x.m, n |-> x.n, k |-> x.k, config |-> x.config, patterns |-> x.patterns, header |-> x.header,
                    a_sig |-> SignalFor(x, x.a_seed, 0, x.m), b_sig |-> SignalFor(x, x.b_seed, 1, x.n)]
  OBVIOUS
<1>2. /\ d.m = x.m /\ d.n = x.n /\ d.k = x.k /\ d.config = x.config /\ d.patterns = x.patterns /\ d.header = x.header
      /\ d.a_sig = SignalFor(x, x.a_seed, 0, x.m) /\ d.b_sig = SignalFor(x, x.b_seed, 1, x.n)
  BY <1>1
<1>3. x.m \in Nat /\ x.n \in Nat /\ x.k \in Nat \ {0} /\ Declares(x.config, x.patterns, x.m, x.n, x.k)
  BY Zenon DEF HitInput
<1>4. IsSignal(SignalFor(x, x.a_seed, 0, x.m), x.m, x.k)
  BY <1>3, SignalForIs, Zenon
<1>5. IsSignal(SignalFor(x, x.b_seed, 1, x.n), x.n, x.k)
  BY <1>3, SignalForIs, Zenon
<1>6. Drawn(d)
  BY <1>2, <1>3, <1>4, <1>5, Zenon DEF Drawn, Declares, Spans
<1>7. IsDrawnFor(d, x)
  BY <1>2, Zenon DEF IsDrawnFor
<1> QED BY <1>6, <1>7, Zenon

-----------------------------------------------------------------------------
(* A hit that is worth a proof: of a tile of the patterns, and it verifies. *)
GoodHit(d, bound, a_rows, b_cols) ==
  a_rows \in ToSet(RowTiles(d)) /\ b_cols \in ToSet(ColTiles(d)) /\ ProofVerifies(d, bound, a_rows, b_cols)

(* If the kernel folds by the patterns declared, what meets the bound is   *)
(* worth a proof.                                                          *)
LEMMA MeetingAreGood ==
  ASSUME DigestIsNumber, NEW x, HitInput(x), FoldsBy(x.kernel, x.config), NEW d, IsDrawnFor(d, x), Drawn(d),
         NEW p, IsPrologue(p, d)
  PROVE  \A y \in MeetingOf(x, p) :
           GoodHit(d, x.bound, KernelTiles(x, p)[y].a_rows, KernelTiles(x, p)[y].b_cols)
<1>1. PICK tiles, kernel : tiles = KernelTiles(x, p) /\ kernel = x.kernel
  OBVIOUS
<1>2. kernel.rows = x.config.rows_pattern /\ kernel.cols = x.config.cols_pattern
  <2>1. PICK r, c : r = x.config.rows_pattern /\ c = x.config.cols_pattern
    OBVIOUS
  <2>2. kernel = [rows |-> r, cols |-> c]
    BY <1>1, <2>1, Zenon DEF FoldsBy
  <2>3. kernel.rows = r /\ kernel.cols = c
    BY <2>2
  <2> QED BY <2>1, <2>3, Zenon
<1>3. /\ d.m = x.m /\ d.n = x.n /\ d.k = x.k /\ d.config = x.config
  BY Zenon DEF IsDrawnFor
<1>4. tiles = Fallback("scalar", p, d)
  BY <1>1, <1>2, <1>3, Zenon DEF KernelTiles, Fallback, RowTiles, ColTiles
<1>5. IsSweep(tiles, d)
  BY <1>4, FallbackIsSweep, Zenon
<1>6. MeetingOf(x, p) = MeetingIn(tiles, d, x.bound)
  <2>1. p.a_noise_seed = SeedsOf(d)[2]
    BY Zenon DEF IsPrologue
  <2> QED BY <1>1, <2>1, Zenon DEF MeetingOf, MeetingIn
<1>7. ASSUME NEW y \in MeetingOf(x, p) PROVE GoodHit(d, x.bound, tiles[y].a_rows, tiles[y].b_cols)
  <2>1. y \in MeetingIn(tiles, d, x.bound)
    BY <1>6, Zenon
  <2>2. ProofVerifies(d, x.bound, tiles[y].a_rows, tiles[y].b_cols)
    BY <1>5, <2>1, SweepDecides, Zenon
  <2>3. y \in DOMAIN tiles
    BY <2>1, Zenon DEF MeetingIn
  <2>4. tiles[y].a_rows \in ToSet(RowTiles(d)) /\ tiles[y].b_cols \in ToSet(ColTiles(d))
    BY <1>5, <2>3, Zenon DEF IsSweep
  <2> QED BY <2>2, <2>4, Zenon DEF GoodHit
<1> QED BY <1>1, <1>7, Zenon

(* The hits of a call: of the shape of the kernel, good ones if that is    *)
(* the shape declared, and none only if there is nothing.                  *)
HitsFit(hits, x, d, none) ==
  /\ \E r \in Nat : DOMAIN hits = 1..r
  /\ \A s \in DOMAIN hits : /\ Len(hits[s].rows) = Len(ToList(x.kernel.rows))
                            /\ Len(hits[s].cols) = Len(ToList(x.kernel.cols))
                            /\ FoldsBy(x.kernel, x.config) => GoodHit(d, x.bound, hits[s].rows, hits[s].cols)
  /\ DOMAIN hits = {} <=> none

(* The hits of a call are such, with room for any number. *)
LEMMA CallFits ==
  ASSUME DigestIsNumber, NEW x, HitInput(x), NEW d, IsDrawnFor(d, x), Drawn(d), NEW p, IsPrologue(p, d),
         NEW max_hits \in Nat \ {0}
  PROVE  HitsFit(Called(x, p, max_hits).hits, x, d, Nothing(x, p))
<1>1. PICK tiles, meets, result, hits :
        /\ tiles = KernelTiles(x, p) /\ meets = MeetingOf(x, p) /\ result = Called(x, p, max_hits) /\ hits = result.hits
  OBVIOUS
<1>2. HitsAre(result, tiles, meets, Nothing(x, p))
  BY <1>1, CallIs, Zenon
<1>3. FromKernel(tiles, x.kernel)
  <2>1. x.m \in Nat /\ x.n \in Nat /\ IsPattern(x.kernel.rows) /\ IsPattern(x.kernel.cols)
    BY Zenon DEF HitInput
  <2> QED BY <1>1, <2>1, KernelTilesRise, Zenon
<1>4. ASSUME NEW s \in DOMAIN hits
      PROVE  /\ Len(hits[s].rows) = Len(ToList(x.kernel.rows)) /\ Len(hits[s].cols) = Len(ToList(x.kernel.cols))
             /\ FoldsBy(x.kernel, x.config) => GoodHit(d, x.bound, hits[s].rows, hits[s].cols)
  <2>1. PICK y \in meets : hits[s].rows = tiles[y].a_rows /\ hits[s].cols = tiles[y].b_cols
    BY <1>1, <1>2, Zenon DEF HitsAre
  <2>2. y \in DOMAIN tiles
    BY <1>1, Zenon DEF MeetingOf
  <2>3. IsRising(tiles[y].a_rows, ToList(x.kernel.rows)) /\ IsRising(tiles[y].b_cols, ToList(x.kernel.cols))
    BY <1>3, <2>2, Zenon DEF FromKernel
  <2>4. Len(tiles[y].a_rows) = Len(ToList(x.kernel.rows)) /\ Len(tiles[y].b_cols) = Len(ToList(x.kernel.cols))
    BY <2>3, Zenon DEF IsRising
  <2>5. ASSUME FoldsBy(x.kernel, x.config) PROVE GoodHit(d, x.bound, tiles[y].a_rows, tiles[y].b_cols)
    BY <1>1, <2>5, MeetingAreGood, Zenon
  <2> QED BY <2>1, <2>4, <2>5, Zenon
<1>5. (\E r \in Nat : DOMAIN hits = 1..r) /\ (DOMAIN hits = {} <=> Nothing(x, p))
  BY <1>1, <1>2, Zenon DEF HitsAre
<1> QED BY <1>1, <1>4, <1>5, Zenon DEF HitsFit

-----------------------------------------------------------------------------
(* The hits that proofs are made of.                                       *)
IsChosen(chosen, x, d, none, asked) ==
  /\ ~FoldsBy(x.kernel, x.config) => DOMAIN chosen = {}
  /\ FoldsBy(x.kernel, x.config) => \A y \in DOMAIN chosen : GoodHit(d, x.bound, chosen[y].rows, chosen[y].cols)
  /\ FoldsBy(x.kernel, x.config) /\ asked => (DOMAIN chosen = {} <=> none)

SameSize(kernel, config) ==
  /\ Len(ToList(kernel.rows)) = Len(ToList(config.rows_pattern))
  /\ Len(ToList(kernel.cols)) = Len(ToList(config.cols_pattern))

(* Of the size declared, a kernel folds by the patterns declared. *)
LEMMA SameSizeIs ==
  ASSUME NEW x, HitInput(x)
  PROVE  SameSize(x.kernel, x.config) <=> FoldsBy(x.kernel, x.config)
<1>1. ASSUME FoldsBy(x.kernel, x.config) PROVE SameSize(x.kernel, x.config)
  <2>1. PICK kernel, r, c : kernel = x.kernel /\ r = x.config.rows_pattern /\ c = x.config.cols_pattern
    OBVIOUS
  <2>2. kernel = [rows |-> r, cols |-> c]
    BY <1>1, <2>1, Zenon DEF FoldsBy
  <2>3. kernel.rows = r /\ kernel.cols = c
    BY <2>2
  <2> QED BY <2>1, <2>3, Zenon DEF SameSize
<1>2. ASSUME ~FoldsBy(x.kernel, x.config) PROVE ~SameSize(x.kernel, x.config)
  <2>1. FoldsBy(x.kernel, x.config) \/ \/ Len(ToList(x.kernel.rows)) # Len(ToList(x.config.rows_pattern))
                                       \/ Len(ToList(x.kernel.cols)) # Len(ToList(x.config.cols_pattern))
    BY Zenon DEF HitInput
  <2>2. \/ Len(ToList(x.kernel.rows)) # Len(ToList(x.config.rows_pattern))
        \/ Len(ToList(x.kernel.cols)) # Len(ToList(x.config.cols_pattern))
    BY <1>2, <2>1, Zenon
  <2> QED BY <2>2, Zenon DEF SameSize
<1> QED BY <1>1, <1>2, Zenon

(* The first hit of the shape declared is such a choice. *)
LEMMA FirstIsChosen ==
  ASSUME NEW x, HitInput(x), NEW d, NEW none, NEW hits, HitsFit(hits, x, d, none)
  PROVE  IsChosen(FirstOfShape(hits, x.config), x, d, none, TRUE)
<1>1. PICK fit, chosen : fit = {s \in DOMAIN hits : FitsShape(hits[s], x.config)} /\ chosen = FirstOfShape(hits, x.config)
  OBVIOUS
<1>2. chosen = IF fit = {} THEN <<>> ELSE <<hits[CHOOSE s \in fit : \A y \in fit : s <= y]>>
  <2>1. FirstOfShape(hits, x.config)
          = LET found == {s \in DOMAIN hits : FitsShape(hits[s], x.config)}
            IN IF found = {} THEN <<>> ELSE <<hits[CHOOSE s \in found : \A y \in found : s <= y]>>
    BY Zenon DEF FirstOfShape
  <2> QED BY <1>1, <2>1, Zenon
<1>3. ASSUME NEW s \in DOMAIN hits PROVE s \in fit <=> FoldsBy(x.kernel, x.config)
  <2>1. Len(hits[s].rows) = Len(ToList(x.kernel.rows)) /\ Len(hits[s].cols) = Len(ToList(x.kernel.cols))
    BY Zenon DEF HitsFit
  <2>2. FitsShape(hits[s], x.config) <=> SameSize(x.kernel, x.config)
    BY <2>1, Zenon DEF FitsShape, SameSize
  <2>3. SameSize(x.kernel, x.config) <=> FoldsBy(x.kernel, x.config)
    BY SameSizeIs, Zenon
  <2> QED BY <1>1, <2>2, <2>3, Zenon
<1>4. fit \in SUBSET DOMAIN hits
  BY <1>1, Zenon
<1>5. CASE fit = {}
  <2>1. chosen = <<>>
    BY <1>2, <1>5, Zenon
  <2>2. DOMAIN chosen = {}
    BY <2>1
  <2>3. FoldsBy(x.kernel, x.config) => DOMAIN hits = {}
    BY <1>3, <1>5, Zenon
  <2>4. DOMAIN hits = {} <=> none
    BY Zenon DEF HitsFit
  <2>5. FoldsBy(x.kernel, x.config) => none
    BY <2>3, <2>4, Zenon
  <2> QED BY <1>1, <2>2, <2>5, Zenon DEF IsChosen
<1>6. CASE fit # {}
  <2>1. FoldsBy(x.kernel, x.config)
    BY <1>3, <1>4, <1>6, Zenon
  <2>2. fit \in SUBSET Nat
    <3>1. PICK r \in Nat : DOMAIN hits = 1..r
      BY Zenon DEF HitsFit
    <3>2. 1..r \in SUBSET Nat
      OBVIOUS
    <3> QED BY <1>4, <3>1, <3>2, Zenon
  <2>3. Least(fit) \in fit
    BY <1>6, <2>2, LeastIs, Zenon
  <2>4. PICK hit : hit = hits[Least(fit)]
    OBVIOUS
  <2>5. chosen = <<hit>>
    BY <1>2, <1>6, <2>4, Zenon DEF Least
  <2>6. DOMAIN chosen = {1} /\ chosen[1] = hit
    BY <2>5
  <2>7. GoodHit(d, x.bound, hit.rows, hit.cols)
    BY <1>4, <2>1, <2>3, <2>4, Zenon DEF HitsFit
  <2>8. \A y \in DOMAIN chosen : GoodHit(d, x.bound, chosen[y].rows, chosen[y].cols)
    BY <2>6, <2>7, Zenon
  <2>9. DOMAIN chosen # {} /\ DOMAIN hits # {}
    BY <1>4, <1>6, <2>6, Zenon
  <2>10. ~none
    BY <2>9, Zenon DEF HitsFit
  <2> QED BY <1>1, <2>1, <2>8, <2>9, <2>10, Zenon DEF IsChosen
<1> QED BY <1>5, <1>6, Zenon

(* Those of a size, in the order they came in.                             *)
OfSize(hits, tile_h, tile_w) ==
  LET fit == Sorted({s \in DOMAIN hits : Len(hits[s].rows) = tile_h /\ Len(hits[s].cols) = tile_w})
  IN [s \in DOMAIN fit |-> hits[fit[s]]]

OfTile(config, tile_h, tile_w) ==
  tile_h = Len(ToList(config.rows_pattern)) /\ tile_w = Len(ToList(config.cols_pattern))

(* So are all those of the size asked for. *)
LEMMA OfSizeAreChosen ==
  ASSUME NEW x, HitInput(x), NEW d, NEW none, NEW hits, HitsFit(hits, x, d, none), NEW tile_h, NEW tile_w,
         FoldsBy(x.kernel, x.config) \/ OfTile(x.config, tile_h, tile_w)
  PROVE  IsChosen(OfSize(hits, tile_h, tile_w), x, d, none, OfTile(x.config, tile_h, tile_w))
<1>1. PICK of, fit, c, chosen :
        /\ of = {s \in DOMAIN hits : Len(hits[s].rows) = tile_h /\ Len(hits[s].cols) = tile_w}
        /\ fit = Sorted(of) /\ c = Cardinality(of) /\ chosen = OfSize(hits, tile_h, tile_w)
  OBVIOUS
<1>2. of \in SUBSET DOMAIN hits
  BY <1>1, Zenon
<1>3. of \in SUBSET Nat /\ IsFiniteSet(of)
  <2>1. PICK r \in Nat : DOMAIN hits = 1..r
    BY Zenon DEF HitsFit
  <2>2. 1..r \in SUBSET Nat /\ IsFiniteSet(1..r)
    BY FS_Interval
  <2>3. of \in SUBSET (1..r)
    BY <1>2, <2>1, Zenon
  <2>4. IsFiniteSet(of)
    BY <2>2, <2>3, FS_Subset, Zenon
  <2> QED BY <2>2, <2>3, <2>4, Zenon
<1>4. c \in Nat /\ fit \in Seq(of) /\ Len(fit) = c /\ \A s \in of : \E y \in 1..c : fit[y] = s
  BY <1>1, <1>3, SortedIs, Zenon
<1>5. DOMAIN fit = 1..c /\ \A y \in 1..c : fit[y] \in of
  BY <1>4
<1>6. DOMAIN chosen = 1..c /\ \A y \in 1..c : chosen[y] = hits[fit[y]]
  <2>1. chosen = [s \in DOMAIN fit |-> hits[fit[s]]]
    BY <1>1, Zenon DEF OfSize
  <2> QED BY <1>5, <2>1, Zenon
<1>7. ASSUME NEW s \in DOMAIN hits, OfTile(x.config, tile_h, tile_w) PROVE s \in of <=> FoldsBy(x.kernel, x.config)
  <2>1. Len(hits[s].rows) = Len(ToList(x.kernel.rows)) /\ Len(hits[s].cols) = Len(ToList(x.kernel.cols))
    BY Zenon DEF HitsFit
  <2>2. s \in of <=> SameSize(x.kernel, x.config)
    BY <1>1, <1>7, <2>1, Zenon DEF OfTile, SameSize
  <2>3. SameSize(x.kernel, x.config) <=> FoldsBy(x.kernel, x.config)
    BY SameSizeIs, Zenon
  <2> QED BY <2>2, <2>3, Zenon
<1>8. 1..c = {} <=> of = {}
  <2>1. 1..c = {} => of = {}
    BY <1>4, Zenon
  <2>2. of = {} => 1..c = {}
    BY <1>5, Zenon
  <2> QED BY <2>1, <2>2, Zenon
<1>9. ASSUME ~FoldsBy(x.kernel, x.config) PROVE DOMAIN chosen = {}
  <2>1. OfTile(x.config, tile_h, tile_w)
    BY <1>9, Zenon
  <2>2. of = {}
    BY <1>2, <1>7, <1>9, <2>1, Zenon
  <2> QED BY <1>6, <1>8, <2>2, Zenon
<1>10. ASSUME FoldsBy(x.kernel, x.config), NEW y \in DOMAIN chosen
       PROVE  GoodHit(d, x.bound, chosen[y].rows, chosen[y].cols)
  <2>1. fit[y] \in DOMAIN hits /\ chosen[y] = hits[fit[y]]
    BY <1>2, <1>5, <1>6, Zenon
  <2> QED BY <1>10, <2>1, Zenon DEF HitsFit
<1>11. ASSUME FoldsBy(x.kernel, x.config), OfTile(x.config, tile_h, tile_w) PROVE DOMAIN chosen = {} <=> none
  <2>1. of = {} <=> DOMAIN hits = {}
    BY <1>2, <1>7, <1>11, Zenon
  <2>2. DOMAIN hits = {} <=> none
    BY Zenon DEF HitsFit
  <2> QED BY <1>6, <1>8, <2>1, <2>2, Zenon
<1> QED BY <1>1, <1>9, <1>10, <1>11, Zenon DEF IsChosen

-----------------------------------------------------------------------------
(* The leaves that the device gathers are those of the matrix: a tree of   *)
(* whole leaves has no padding.                                            *)
LEMMA LeafInside ==
  ASSUME NEW list, IsList(list), NEW dim \in Nat, NEW rows, IsTile(rows, list, dim), NEW k \in Nat \ {0},
         Whole(dim * k, Chunk), NEW i \in LeafIndices(rows, k), NEW e \in 0..Chunk - 1
  PROVE  i * Chunk + e \in 0..dim * k - 1
<1>1. PICK c, size : c = Chunk /\ size = dim * k
  OBVIOUS
<1>2. c \in Nat \ {0} /\ size \in Nat /\ k \in Nat
  BY <1>1, ChunkAssumption
<1>3. PICK q \in Nat : size = c * q
  <2>1. size % c = 0
    BY <1>1, Zenon DEF Whole
  <2> QED BY <1>2, <2>1, MultipleIs, Zenon
<1>4. PICK j \in ToSet(rows) : i \in (j * k) \div c..(j * k + k - 1) \div c
  BY <1>1, Zenon DEF LeafIndices
<1>5. j \in 0..dim - 1
  <2>1. PICK y \in DOMAIN rows : j = rows[y]
    BY <1>4, Zenon DEF ToSet
  <2> QED BY <2>1, Zenon DEF IsTile
<1>6. PICK first, last : first = j * k /\ last = first + (k - 1)
  OBVIOUS
<1>7. first \in Nat /\ last \in Nat /\ last < size
  <2>1. first \in Nat
    BY <1>5, <1>6
  <2>2. k - 1 \in 0..k - 1
    OBVIOUS
  <2>3. last \in 0..size - 1
    BY <1>1, <1>2, <1>5, <1>6, <2>2, PlaceIn, Zenon
  <2> HIDE <1>1, <1>6
  <2> QED BY <1>2, <2>1, <2>3
<1>8. j * k + k - 1 = last
  <2>1. \A y \in Nat : y + k - 1 = y + (k - 1)
    OBVIOUS
  <2> QED BY <1>6, <1>7, <2>1, Zenon
<1>9. PICK f, t : f = first \div c /\ t = last \div c
  OBVIOUS
<1>10. f \in Nat /\ t \in Nat /\ t < q
  <2>1. f \in Nat /\ t \in Nat
    BY <1>2, <1>7, <1>9, QuotientIn, Zenon
  <2>2. last < c * q
    BY <1>3, <1>7, Zenon
  <2>3. t < q
    BY <1>2, <1>7, <1>9, <2>2, QuotientBelow, Zenon
  <2> QED BY <2>1, <2>3, Zenon
<1>11. i \in f..t
  BY <1>4, <1>6, <1>8, <1>9, Zenon
<1>12. i \in 0..q - 1
  <2> HIDE <1>3, <1>9
  <2> QED BY <1>10, <1>11
<1>13. i * c + e \in 0..q * c - 1
  <2>1. c \in Nat /\ e \in 0..c - 1
    BY <1>1, <1>2
  <2> QED BY <1>12, <2>1, PlaceIn, Zenon
<1>14. q * c = size
  BY <1>2, <1>3
<1> QED BY <1>1, <1>13, <1>14, Zenon

DeviceProof(sig, key, rows, k) ==
  Assembled(Blake3(key, PadToChunkBoundary(sig)),
            [i \in LeafIndices(rows, k) |-> [e \in 0..Chunk - 1 |-> sig[i * Chunk + e]]], rows)

IsDeviceProof(sig, key, rows, k) == DeviceProof(sig, key, rows, k) = BuildMatrixProof(sig, key, rows, k)

(* A proof of what the device gathers is the one made from the matrix. *)
LEMMA DeviceProofIs ==
  ASSUME NEW list, IsList(list), NEW dim \in Nat, NEW rows, IsTile(rows, list, dim), NEW k \in Nat \ {0},
         Whole(dim * k, Chunk), NEW sig, IsSignal(sig, dim, k), NEW key
  PROVE  IsDeviceProof(sig, key, rows, k)
<1>1. ASSUME NEW i \in LeafIndices(rows, k), NEW e \in 0..Chunk - 1
      PROVE  sig[i * Chunk + e] = PadToChunkBoundary(sig)[i * Chunk + e]
  <2>1. PICK x : x = i * Chunk + e
    OBVIOUS
  <2>2. x \in 0..dim * k - 1
    BY <2>1, LeafInside, Zenon
  <2>3. dim * k \in Nat /\ DOMAIN sig = 0..dim * k - 1
    BY DEF IsSignal
  <2>4. PaddedAt(sig, x)
    BY <2>2, <2>3, PaddedIs, Zenon
  <2> QED BY <2>1, <2>4, Zenon DEF PaddedAt
<1>2. PICK gathered, padded :
        /\ gathered = [i \in LeafIndices(rows, k) |-> [e \in 0..Chunk - 1 |-> sig[i * Chunk + e]]]
        /\ padded = [i \in LeafIndices(rows, k) |-> [e \in 0..Chunk - 1 |-> PadToChunkBoundary(sig)[i * Chunk + e]]]
  OBVIOUS
<1>3. gathered = padded
  BY <1>1, <1>2, Zenon
<1>4. PICK root : root = Blake3(key, PadToChunkBoundary(sig))
  OBVIOUS
<1>5. DeviceProof(sig, key, rows, k) = [root |-> root, row_indices |-> rows, leaf_data |-> gathered]
  BY <1>2, <1>4, Zenon DEF DeviceProof, Assembled
<1>6. BuildMatrixProof(sig, key, rows, k) = [root |-> root, row_indices |-> rows, leaf_data |-> padded]
  BY <1>2, <1>4, Zenon DEF BuildMatrixProof
<1> QED BY <1>3, <1>5, <1>6, Zenon DEF IsDeviceProof

-----------------------------------------------------------------------------
(* However a proof is rebuilt, it is the proof of its tile.                *)
FromSeed(x) == x.via \notin {"host", "host 2x64"}

SeedsMake(d, x) ==
  /\ d.a_sig = DeviceSignal(x.a_seed, 0, x.m, x.k) /\ d.b_sig = DeviceSignal(x.b_seed, 1, x.n, x.k)
  /\ d.a_sig = Signal(x.a_seed, 0, x.m, x.k) /\ d.b_sig = Signal(x.b_seed, 1, x.n, x.k)

(* The device and the host make the matrices of the search again. *)
LEMMA SeedsMakeIt ==
  ASSUME NEW x, FromSeed(x), NEW d, IsDrawnFor(d, x)
  PROVE  SeedsMake(d, x)
<1>1. d.a_sig = DeviceSignal(x.a_seed, 0, x.m, x.k) /\ d.b_sig = DeviceSignal(x.b_seed, 1, x.n, x.k)
  <2>1. \A seed, sel, dim : SignalFor(x, seed, sel, dim) = DeviceSignal(seed, sel, dim, x.k)
    BY Zenon DEF FromSeed, SignalFor
  <2> QED BY <2>1, Zenon DEF IsDrawnFor
<1>2. \A seed, sel, dim, k : Signal(seed, sel, dim, k) = DeviceSignal(seed, sel, dim, k)
  BY Zenon DEF Signal, DeviceSignal, Int7At
<1> QED BY <1>1, <1>2, Zenon DEF SeedsMake

IsRebuilt(proof, d, hit) == proof = ProofOf(d, hit.rows, hit.cols)

(* From matrices made again, build_proof_from_hit_fixb makes the proof of  *)
(* the tile of the hit.                                                    *)
LEMMA RebuiltIs ==
  ASSUME NEW x, FromSeed(x), NEW d, IsDrawnFor(d, x), NEW key, key = KeyOf(d), NEW hit
  PROVE  IsRebuilt(BuildProofFromHitFixb(x.a_seed, x.b_seed, hit, key, x.m, x.n, x.k, x.config.rank), d, hit)
<1>1. SeedsMake(d, x)
  BY SeedsMakeIt, Zenon
<1>2. d.m = x.m /\ d.n = x.n /\ d.k = x.k /\ d.config = x.config
  BY Zenon DEF IsDrawnFor
<1> QED BY <1>1, <1>2, Zenon DEF SeedsMake, BuildProofFromHitFixb, ProofOf, IsRebuilt

(* The proof that is assembled of what the device gathers.                 *)
AssembledOf(x, key, hit) ==
  [found |-> TRUE, m |-> x.m, n |-> x.n, k |-> x.k, noise_rank |-> x.config.rank,
   a  |-> DeviceProof(DeviceSignal(x.a_seed, 0, x.m, x.k), key, hit.rows, x.k),
   bt |-> DeviceProof(DeviceSignal(x.b_seed, 1, x.n, x.k), key, hit.cols, x.k)]

(* What is assembled of a good hit, with trees of whole leaves, is the     *)
(* proof of its tile.                                                      *)
LEMMA AssembledIs ==
  ASSUME NEW x, HitInput(x), x.via \in OnDevice, FromSeed(x), NEW d, IsDrawnFor(d, x), Drawn(d), NEW key,
         key = KeyOf(d),
         NEW hit, NEW bound, GoodHit(d, bound, hit.rows, hit.cols)
  PROVE  IsRebuilt(AssembledOf(x, key, hit), d, hit)
<1>1. SeedsMake(d, x)
  BY SeedsMakeIt, Zenon
<1>2. d.m = x.m /\ d.n = x.n /\ d.k = x.k /\ d.config = x.config
  BY Zenon DEF IsDrawnFor
<1>3. Whole(x.m * x.k, Chunk) /\ Whole(x.n * x.k, Chunk)
  BY Zenon DEF HitInput, Whole
<1>4. IsTilePair(d, hit.rows, hit.cols)
  BY PairsAre, Zenon DEF GoodHit
<1>5. PICK m, n, k, a_sig, b_sig : m = x.m /\ n = x.n /\ k = x.k /\ a_sig = d.a_sig /\ b_sig = d.b_sig
  OBVIOUS
<1>6. m \in Nat /\ n \in Nat /\ k \in Nat \ {0} /\ IsSignal(a_sig, m, k) /\ IsSignal(b_sig, n, k)
  BY <1>2, <1>5, Zenon DEF Drawn
<1>7. IsDeviceProof(a_sig, key, hit.rows, k)
  <2>1. IsList(ToList(d.config.rows_pattern)) /\ IsTile(hit.rows, ToList(d.config.rows_pattern), m)
    BY <1>2, <1>4, <1>5, Zenon DEF IsTilePair
  <2>2. Whole(m * k, Chunk)
    BY <1>3, <1>5, Zenon
  <2> QED BY <1>6, <2>1, <2>2, DeviceProofIs, Zenon
<1>8. IsDeviceProof(b_sig, key, hit.cols, k)
  <2>1. IsList(ToList(d.config.cols_pattern)) /\ IsTile(hit.cols, ToList(d.config.cols_pattern), n)
    BY <1>2, <1>4, <1>5, Zenon DEF IsTilePair
  <2>2. Whole(n * k, Chunk)
    BY <1>3, <1>5, Zenon
  <2> QED BY <1>6, <2>1, <2>2, DeviceProofIs, Zenon
<1>9. AssembledOf(x, key, hit)
        = [found |-> TRUE, m |-> m, n |-> n, k |-> k, noise_rank |-> x.config.rank,
           a |-> DeviceProof(a_sig, key, hit.rows, k), bt |-> DeviceProof(b_sig, key, hit.cols, k)]
  BY <1>1, <1>5, Zenon DEF SeedsMake, AssembledOf
<1>10. ProofOf(d, hit.rows, hit.cols)
         = [found |-> TRUE, m |-> m, n |-> n, k |-> k, noise_rank |-> x.config.rank,
            a |-> BuildMatrixProof(a_sig, key, hit.rows, k), bt |-> BuildMatrixProof(b_sig, key, hit.cols, k)]
  BY <1>2, <1>5, Zenon DEF ProofOf, MakeProof
<1> QED BY <1>7, <1>8, <1>9, <1>10, Zenon DEF IsDeviceProof, IsRebuilt

-----------------------------------------------------------------------------
(* What a search comes to: the proofs of hits that were chosen.            *)
ProofsFrom(d, chosen) == [y \in DOMAIN chosen |-> ProofOf(d, chosen[y].rows, chosen[y].cols)]

AsksFor(x) ==
  x.via # "setup" \/ (Len(ToList(x.config.rows_pattern)) = 2 /\ Len(ToList(x.config.cols_pattern)) = TileWidth)

ComesTo(proofs, x, d, none) == \E chosen : proofs = ProofsFrom(d, chosen) /\ IsChosen(chosen, x, d, none, AsksFor(x))

ContextOf(x) == NewResidentCtx(x.kernel, x.m, x.n, x.k, x.max_hits)

Via(x, p, d) ==
  ProofsVia(x.via, ContextOf(x), x.run, p, x.config, x.bound, x.a_seed, x.b_seed, d.a_sig, d.b_sig)

IsContext(ctx, x) ==
  ctx.kernel = x.kernel /\ ctx.m = x.m /\ ctx.n = x.n /\ ctx.k = x.k /\ ctx.max_hits = x.max_hits

(* A context has what it was created with. *)
LEMMA ContextIs ==
  ASSUME NEW x
  PROVE  IsContext(ContextOf(x), x)
<1>1. PICK ctx : ctx = ContextOf(x)
  OBVIOUS
<1>2. ctx = [kernel |-> x.kernel, m |-> x.m, n |-> x.n, k |-> x.k, max_hits |-> x.max_hits]
  BY <1>1, Zenon DEF ContextOf, NewResidentCtx
<1>3. ctx.kernel = x.kernel /\ ctx.m = x.m /\ ctx.n = x.n /\ ctx.k = x.k /\ ctx.max_hits = x.max_hits
  BY <1>2
<1> QED BY <1>1, <1>3, Zenon DEF IsContext

(* A call of the context is one with the room that the context has. *)
LEMMA CtxGrindIs ==
  ASSUME NEW x, NEW p
  PROVE  CtxGrind(ContextOf(x), x.run, p, x.config.rank, x.bound) = Called(x, p, x.max_hits)
<1>1. PICK ctx : ctx = ContextOf(x)
  OBVIOUS
<1>2. ctx.kernel = x.kernel /\ ctx.m = x.m /\ ctx.n = x.n /\ ctx.k = x.k /\ ctx.max_hits = x.max_hits
  BY <1>1, ContextIs, Zenon DEF IsContext
<1> QED BY <1>1, <1>2, Zenon DEF CtxGrind, ResidentGrind, Called

(* The first hit of the shape, of a call with room for so many.            *)
First(x, p, max_hits) == FirstOfShape(Called(x, p, max_hits).hits, x.config)

(* The proofs of the first hit are those of a choice. *)
LEMMA FirstComes ==
  ASSUME DigestIsNumber, NEW x, HitInput(x), x.via # "setup", NEW d, IsDrawnFor(d, x), Drawn(d), NEW p,
         IsPrologue(p, d),
         NEW max_hits \in Nat \ {0}
  PROVE  ComesTo(ProofsFrom(d, First(x, p, max_hits)), x, d, Nothing(x, p))
<1>1. PICK hits, none : hits = Called(x, p, max_hits).hits /\ none = Nothing(x, p)
  OBVIOUS
<1>2. HitsFit(hits, x, d, none)
  BY <1>1, CallFits, Zenon
<1>3. IsChosen(First(x, p, max_hits), x, d, none, TRUE)
  BY <1>1, <1>2, FirstIsChosen, Zenon DEF First
<1>4. IsChosen(First(x, p, max_hits), x, d, none, AsksFor(x))
  BY <1>3, Zenon DEF IsChosen
<1> QED BY <1>1, <1>4, Zenon DEF ComesTo

(* Everything that stands for the search is what is drawn for it.          *)
Same(d, x, p) == d.m = x.m /\ d.n = x.n /\ d.k = x.k /\ d.config = x.config /\ p.job_key = KeyOf(d)

(* They are the same. *)
LEMMA SameIs ==
  ASSUME NEW x, NEW d, IsDrawnFor(d, x), NEW p, IsPrologue(p, d)
  PROVE  Same(d, x, p)
BY Zenon DEF IsDrawnFor, IsPrologue, Same

(* try_mine_one_bounded_gpu, and its variant for tiles of 2 rows. *)
LEMMA HostVia ==
  ASSUME NEW x, x.via = "host", NEW d, IsDrawnFor(d, x), NEW p, IsPrologue(p, d)
  PROVE  Via(x, p, d) = ProofsFrom(d, First(x, p, 64))
<1>1. PICK hit : hit = First(x, p, 64)
  OBVIOUS
<1>2. Same(d, x, p)
  BY SameIs, Zenon
<1>3. PICK ctx : ctx = ContextOf(x)
  OBVIOUS
<1>4. IsContext(ctx, x)
  BY <1>3, ContextIs, Zenon
<1>5. Via(x, p, d) = TryMineGpu(x.run, ctx.kernel, p, ctx.m, ctx.n, ctx.k, x.config, x.bound, d.a_sig, d.b_sig)
  BY <1>3, Zenon DEF Via, ProofsVia
<1>6. Via(x, p, d) = TryMineGpu(x.run, x.kernel, p, x.m, x.n, x.k, x.config, x.bound, d.a_sig, d.b_sig)
  BY <1>4, <1>5, Zenon DEF IsContext
<1>7. hit = FirstOfShape(Grind(x.run, x.kernel, p, x.m, x.n, x.k, x.config.rank, x.bound, 64).hits, x.config)
  BY <1>1, Zenon DEF First, Called, Grind
<1>8. Via(x, p, d)
        = [y \in DOMAIN hit |-> MakeProof(d.a_sig, d.b_sig, x.m, x.n, x.k, x.config.rank, p.job_key, hit[y].rows, hit[y].cols)]
  BY <1>6, <1>7, Zenon DEF TryMineGpu
<1>9. \A y \in DOMAIN hit :
        MakeProof(d.a_sig, d.b_sig, x.m, x.n, x.k, x.config.rank, p.job_key, hit[y].rows, hit[y].cols)
          = ProofOf(d, hit[y].rows, hit[y].cols)
  BY <1>2, Zenon DEF Same, ProofOf
<1>10. Via(x, p, d) = [y \in DOMAIN hit |-> ProofOf(d, hit[y].rows, hit[y].cols)]
  BY <1>8, <1>9, Zenon
<1> QED BY <1>1, <1>10, Zenon DEF ProofsFrom

(* try_mine_one_bounded_gpu_2x64: the kernel is the one of its             *)
(* configuration.                                                          *)
LEMMA HostVia2x64 ==
  ASSUME NEW x, HitInput(x), x.via = "host 2x64", NEW d, IsDrawnFor(d, x), NEW p, IsPrologue(p, d)
  PROVE  Via(x, p, d) = ProofsFrom(d, First(x, p, 64))
<1>1. PICK hit : hit = First(x, p, 64)
  OBVIOUS
<1>2. Same(d, x, p)
  BY SameIs, Zenon
<1>3. PICK ctx : ctx = ContextOf(x)
  OBVIOUS
<1>4. IsContext(ctx, x)
  BY <1>3, ContextIs, Zenon
<1>5. Via(x, p, d) = TryMineGpu2x64(x.run, p, ctx.m, ctx.n, ctx.k, x.config, x.bound, d.a_sig, d.b_sig)
  BY <1>3, Zenon DEF Via, ProofsVia
<1>6. Via(x, p, d) = TryMineGpu2x64(x.run, p, x.m, x.n, x.k, x.config, x.bound, d.a_sig, d.b_sig)
  BY <1>4, <1>5, Zenon DEF IsContext
<1>7. hit = FirstOfShape(Grind2x64(x.run, p, x.m, x.n, x.k, x.config.rank, x.bound, 64).hits, x.config)
  <2>1. x.kernel = [rows |-> AlphapoolConfig2x64(x.k).rows_pattern, cols |-> AlphapoolConfig2x64(x.k).cols_pattern]
    BY Zenon DEF HitInput, FoldsBy
  <2>2. Grind2x64(x.run, p, x.m, x.n, x.k, x.config.rank, x.bound, 64)
          = Grind(x.run, x.kernel, p, x.m, x.n, x.k, x.config.rank, x.bound, 64)
    BY <2>1, Zenon DEF Grind2x64
  <2> QED BY <1>1, <2>2, Zenon DEF First, Called, Grind
<1>8. Via(x, p, d)
        = [y \in DOMAIN hit |-> MakeProof(d.a_sig, d.b_sig, x.m, x.n, x.k, x.config.rank, p.job_key, hit[y].rows, hit[y].cols)]
  BY <1>6, <1>7, Zenon DEF TryMineGpu2x64
<1>9. \A y \in DOMAIN hit :
        MakeProof(d.a_sig, d.b_sig, x.m, x.n, x.k, x.config.rank, p.job_key, hit[y].rows, hit[y].cols)
          = ProofOf(d, hit[y].rows, hit[y].cols)
  BY <1>2, Zenon DEF Same, ProofOf
<1>10. Via(x, p, d) = [y \in DOMAIN hit |-> ProofOf(d, hit[y].rows, hit[y].cols)]
  BY <1>8, <1>9, Zenon
<1> QED BY <1>1, <1>10, Zenon DEF ProofsFrom

(* try_mine_one_bounded_gpu_resident *)
LEMMA ResidentVia ==
  ASSUME NEW x, HitInput(x), x.via = "resident", NEW d, IsDrawnFor(d, x), NEW p, IsPrologue(p, d)
  PROVE  Via(x, p, d) = ProofsFrom(d, First(x, p, 64))
<1>1. PICK hit : hit = First(x, p, 64)
  OBVIOUS
<1>2. Same(d, x, p)
  BY SameIs, Zenon
<1>3. PICK ctx : ctx = ContextOf(x)
  OBVIOUS
<1>4. IsContext(ctx, x)
  BY <1>3, ContextIs, Zenon
<1>5. Via(x, p, d) = TryMineResident(x.run, ctx.kernel, p, x.a_seed, ctx.m, ctx.n, ctx.k, x.config, x.bound)
  BY <1>3, Zenon DEF Via, ProofsVia
<1>6. Via(x, p, d) = TryMineResident(x.run, x.kernel, p, x.a_seed, x.m, x.n, x.k, x.config, x.bound)
  BY <1>4, <1>5, Zenon DEF IsContext
<1>7. hit = FirstOfShape(ResidentGrind(x.run, x.kernel, p, x.m, x.n, x.k, x.config.rank, x.bound, 64).hits, x.config)
  BY <1>1, Zenon DEF First, Called, ResidentGrind
<1>8. Via(x, p, d)
        = [y \in DOMAIN hit |-> BuildProofFromHit(x.a_seed, hit[y], p.job_key, x.m, x.n, x.k, x.config.rank)]
  BY <1>6, <1>7, Zenon DEF TryMineResident
<1>9. ASSUME NEW y \in DOMAIN hit
      PROVE  BuildProofFromHit(x.a_seed, hit[y], p.job_key, x.m, x.n, x.k, x.config.rank) = ProofOf(d, hit[y].rows, hit[y].cols)
  <2>1. x.b_seed = x.a_seed /\ FromSeed(x)
    BY Zenon DEF HitInput, FixB, FromSeed
  <2>2. p.job_key = KeyOf(d)
    BY <1>2, Zenon DEF Same
  <2>3. IsRebuilt(BuildProofFromHitFixb(x.a_seed, x.b_seed, hit[y], p.job_key, x.m, x.n, x.k, x.config.rank), d, hit[y])
    BY <2>1, <2>2, RebuiltIs, Zenon
  <2> QED BY <2>1, <2>3, Zenon DEF BuildProofFromHit, IsRebuilt
<1>10. Via(x, p, d) = [y \in DOMAIN hit |-> ProofOf(d, hit[y].rows, hit[y].cols)]
  BY <1>8, <1>9, Zenon
<1> QED BY <1>1, <1>10, Zenon DEF ProofsFrom

-----------------------------------------------------------------------------
(* What one thread hands over to another is the first hit of the shape,    *)
(* with the seed and the key that it was found with.                       *)
HandedOver(mined, hit, x, key) ==
  /\ DOMAIN mined = DOMAIN hit
  /\ \A y \in DOMAIN hit : mined[y].hit = hit[y] /\ mined[y].setup_seed = x.a_seed /\ mined[y].job_key = key

MinedOf(x, p) == GrindOnlyCtx(ContextOf(x), x.run, p, x.a_seed, x.config, x.bound)

(* grind_only_ctx hands over the first hit of the shape. *)
LEMMA HandedOverIs ==
  ASSUME NEW x, NEW p
  PROVE  HandedOver(MinedOf(x, p), First(x, p, x.max_hits), x, p.job_key)
<1>1. PICK ctx, hit, mined, seed, key :
        /\ ctx = ContextOf(x) /\ hit = First(x, p, x.max_hits) /\ mined = MinedOf(x, p)
        /\ seed = x.a_seed /\ key = p.job_key
  OBVIOUS
<1>2. hit = FirstOfShape(CtxGrind(ctx, x.run, p, x.config.rank, x.bound).hits, x.config)
  BY <1>1, CtxGrindIs, Zenon DEF First
<1>3. mined = [y \in DOMAIN hit |-> [setup_seed |-> seed, hit |-> hit[y], job_key |-> key]]
  BY <1>1, <1>2, Zenon DEF MinedOf, GrindOnlyCtx
<1>4. DOMAIN mined = DOMAIN hit
  BY <1>3
<1>5. ASSUME NEW y \in DOMAIN hit
      PROVE  mined[y].hit = hit[y] /\ mined[y].setup_seed = seed /\ mined[y].job_key = key
  <2>1. mined[y] = [setup_seed |-> seed, hit |-> hit[y], job_key |-> key]
    BY <1>3
  <2> QED BY <2>1
<1> QED BY <1>1, <1>4, <1>5, Zenon DEF HandedOver

(* try_mine_one_bounded_gpu_resident_ctx *)
LEMMA ResidentCtxVia ==
  ASSUME NEW x, HitInput(x), x.via = "resident ctx", NEW d, IsDrawnFor(d, x), NEW p, IsPrologue(p, d)
  PROVE  Via(x, p, d) = ProofsFrom(d, First(x, p, x.max_hits))
<1>1. PICK hit, ctx, mined, key :
        hit = First(x, p, x.max_hits) /\ ctx = ContextOf(x) /\ mined = MinedOf(x, p) /\ key = p.job_key
  OBVIOUS
<1>2. Same(d, x, p)
  BY SameIs, Zenon
<1>3. IsContext(ctx, x) /\ HandedOver(mined, hit, x, key)
  BY <1>1, ContextIs, HandedOverIs, Zenon
<1>4. Via(x, p, d) = TryMineResidentCtx(ctx, x.run, p, x.a_seed, x.config, x.bound)
  BY <1>1, Zenon DEF Via, ProofsVia
<1>5. Via(x, p, d)
        = [y \in DOMAIN mined |-> BuildProofFromHit(x.a_seed, mined[y].hit, mined[y].job_key, ctx.m, ctx.n, ctx.k, x.config.rank)]
  BY <1>1, <1>4, Zenon DEF TryMineResidentCtx, MinedOf
<1>6. x.b_seed = x.a_seed /\ FromSeed(x) /\ key = KeyOf(d)
  BY <1>1, <1>2, Zenon DEF HitInput, FixB, FromSeed, Same
<1>7. ASSUME NEW y \in DOMAIN hit
      PROVE  BuildProofFromHit(x.a_seed, mined[y].hit, mined[y].job_key, ctx.m, ctx.n, ctx.k, x.config.rank)
               = ProofOf(d, hit[y].rows, hit[y].cols)
  <2>1. IsRebuilt(BuildProofFromHitFixb(x.a_seed, x.b_seed, hit[y], key, x.m, x.n, x.k, x.config.rank), d, hit[y])
    BY <1>6, RebuiltIs, Zenon
  <2>2. mined[y].hit = hit[y] /\ mined[y].job_key = key
    BY <1>3, <1>7, Zenon DEF HandedOver
  <2> QED BY <1>3, <1>6, <2>1, <2>2, Zenon DEF BuildProofFromHit, IsRebuilt, IsContext
<1>8. Via(x, p, d) = [y \in DOMAIN hit |-> ProofOf(d, hit[y].rows, hit[y].cols)]
  BY <1>3, <1>5, <1>7, Zenon DEF HandedOver
<1> QED BY <1>1, <1>8, Zenon DEF ProofsFrom

(* build_proof_from_hit, of a hit handed over by the thread that searches. *)
LEMMA HandedOverVia ==
  ASSUME NEW x, HitInput(x), x.via = "handed over", NEW d, IsDrawnFor(d, x), NEW p, IsPrologue(p, d)
  PROVE  Via(x, p, d) = ProofsFrom(d, First(x, p, x.max_hits))
<1>1. PICK hit, ctx, mined, key :
        hit = First(x, p, x.max_hits) /\ ctx = ContextOf(x) /\ mined = MinedOf(x, p) /\ key = p.job_key
  OBVIOUS
<1>2. Same(d, x, p)
  BY SameIs, Zenon
<1>3. IsContext(ctx, x) /\ HandedOver(mined, hit, x, key)
  BY <1>1, ContextIs, HandedOverIs, Zenon
<1>5. Via(x, p, d)
        = [y \in DOMAIN mined |-> BuildProofFromHit(mined[y].setup_seed, mined[y].hit, mined[y].job_key,
                                                    ctx.m, ctx.n, ctx.k, x.config.rank)]
  BY <1>1, Zenon DEF Via, ProofsVia, MinedOf
<1>6. x.b_seed = x.a_seed /\ FromSeed(x) /\ key = KeyOf(d)
  BY <1>1, <1>2, Zenon DEF HitInput, FixB, FromSeed, Same
<1>7. ASSUME NEW y \in DOMAIN hit
      PROVE  BuildProofFromHit(mined[y].setup_seed, mined[y].hit, mined[y].job_key, ctx.m, ctx.n, ctx.k, x.config.rank)
               = ProofOf(d, hit[y].rows, hit[y].cols)
  <2>1. IsRebuilt(BuildProofFromHitFixb(x.a_seed, x.b_seed, hit[y], key, x.m, x.n, x.k, x.config.rank), d, hit[y])
    BY <1>6, RebuiltIs, Zenon
  <2>2. mined[y].hit = hit[y] /\ mined[y].setup_seed = x.a_seed /\ mined[y].job_key = key
    BY <1>3, <1>7, Zenon DEF HandedOver
  <2> QED BY <1>3, <1>6, <2>1, <2>2, Zenon DEF BuildProofFromHit, IsRebuilt, IsContext
<1>8. Via(x, p, d) = [y \in DOMAIN hit |-> ProofOf(d, hit[y].rows, hit[y].cols)]
  BY <1>3, <1>5, <1>7, Zenon DEF HandedOver
<1> QED BY <1>1, <1>8, Zenon DEF ProofsFrom

(* build_proof_from_hit_fixb, of a hit handed over. *)
LEMMA HandedOverFixbVia ==
  ASSUME NEW x, HitInput(x), x.via = "handed over fixb", NEW d, IsDrawnFor(d, x), NEW p, IsPrologue(p, d)
  PROVE  Via(x, p, d) = ProofsFrom(d, First(x, p, x.max_hits))
<1>1. PICK hit, ctx, mined, key :
        hit = First(x, p, x.max_hits) /\ ctx = ContextOf(x) /\ mined = MinedOf(x, p) /\ key = p.job_key
  OBVIOUS
<1>2. Same(d, x, p)
  BY SameIs, Zenon
<1>3. IsContext(ctx, x) /\ HandedOver(mined, hit, x, key)
  BY <1>1, ContextIs, HandedOverIs, Zenon
<1>5. Via(x, p, d)
        = [y \in DOMAIN mined |-> BuildProofFromHitFixb(mined[y].setup_seed, x.b_seed, mined[y].hit, mined[y].job_key,
                                                        ctx.m, ctx.n, ctx.k, x.config.rank)]
  BY <1>1, Zenon DEF Via, ProofsVia, MinedOf
<1>6. FromSeed(x) /\ key = KeyOf(d)
  BY <1>1, <1>2, Zenon DEF FromSeed, Same
<1>7. ASSUME NEW y \in DOMAIN hit
      PROVE  BuildProofFromHitFixb(mined[y].setup_seed, x.b_seed, mined[y].hit, mined[y].job_key,
                                   ctx.m, ctx.n, ctx.k, x.config.rank)
               = ProofOf(d, hit[y].rows, hit[y].cols)
  <2>1. IsRebuilt(BuildProofFromHitFixb(x.a_seed, x.b_seed, hit[y], key, x.m, x.n, x.k, x.config.rank), d, hit[y])
    BY <1>6, RebuiltIs, Zenon
  <2>2. mined[y].hit = hit[y] /\ mined[y].setup_seed = x.a_seed /\ mined[y].job_key = key
    BY <1>3, <1>7, Zenon DEF HandedOver
  <2> QED BY <1>3, <2>1, <2>2, Zenon DEF IsRebuilt, IsContext
<1>8. Via(x, p, d) = [y \in DOMAIN hit |-> ProofOf(d, hit[y].rows, hit[y].cols)]
  BY <1>3, <1>5, <1>7, Zenon DEF HandedOver
<1> QED BY <1>1, <1>8, Zenon DEF ProofsFrom

(* ProofGpuCtx::build_tree and gather, of a seed and of the leaves of a    *)
(* hit, make what DeviceProof says; so does build, in one call.            *)
IsGathered(seed, sel, dim, k, key, rows) ==
  LET tree == BuildTree(seed, sel, dim, k, key)
  IN Assembled(tree.root, Gather(tree, LeafIndices(rows, k)), rows) = DeviceProof(DeviceSignal(seed, sel, dim, k), key, rows, k)

(* They do, for any leaves. *)
LEMMA GatheredIs ==
  ASSUME NEW seed, NEW sel, NEW dim, NEW k, NEW key, NEW rows
  PROVE  IsGathered(seed, sel, dim, k, key, rows)
<1>1. PICK tree, sig, root :
        /\ tree = BuildTree(seed, sel, dim, k, key) /\ sig = DeviceSignal(seed, sel, dim, k)
        /\ root = Blake3(key, PadToChunkBoundary(sig))
  OBVIOUS
<1>2. tree = [signal |-> sig, root |-> root]
  BY <1>1, Zenon DEF BuildTree
<1>3. tree.signal = sig /\ tree.root = root
  BY <1>2
<1> QED BY <1>1, <1>3, Zenon DEF IsGathered, Gather, DeviceProof

IsBuilt(proof, x, key, hit) == proof = AssembledOf(x, key, hit)

(* build_proof_from_hit_gpu assembles a proof from two calls. *)
LEMMA BuiltIs ==
  ASSUME NEW x, x.b_seed = x.a_seed, NEW key, NEW hit
  PROVE  IsBuilt(BuildProofFromHitGpu(x.a_seed, hit, key, x.m, x.n, x.k, x.config.rank), x, key, hit)
<1>1. PICK seed, m, n, k, rows, cols :
        seed = x.a_seed /\ m = x.m /\ n = x.n /\ k = x.k /\ rows = hit.rows /\ cols = hit.cols
  OBVIOUS
<1>2. PICK a_raw, b_raw, a_tree, b_tree :
        /\ a_raw = Build(seed, 0, m, k, key, LeafIndices(rows, k)) /\ b_raw = Build(seed, 1, n, k, key, LeafIndices(cols, k))
        /\ a_tree = BuildTree(seed, 0, m, k, key) /\ b_tree = BuildTree(seed, 1, n, k, key)
  OBVIOUS
<1>3. a_raw.root = a_tree.root /\ a_raw.leaf_data = Gather(a_tree, LeafIndices(rows, k))
  <2>1. a_raw = [root |-> a_tree.root, leaf_data |-> Gather(a_tree, LeafIndices(rows, k))]
    BY <1>2, Zenon DEF Build
  <2> QED BY <2>1
<1>4. b_raw.root = b_tree.root /\ b_raw.leaf_data = Gather(b_tree, LeafIndices(cols, k))
  <2>1. b_raw = [root |-> b_tree.root, leaf_data |-> Gather(b_tree, LeafIndices(cols, k))]
    BY <1>2, Zenon DEF Build
  <2> QED BY <2>1
<1>5. BuildProofFromHitGpu(seed, hit, key, m, n, k, x.config.rank)
        = [found |-> TRUE, m |-> m, n |-> n, k |-> k, noise_rank |-> x.config.rank,
           a |-> Assembled(a_raw.root, a_raw.leaf_data, rows), bt |-> Assembled(b_raw.root, b_raw.leaf_data, cols)]
  BY <1>1, <1>2, Zenon DEF BuildProofFromHitGpu
<1>6. /\ Assembled(a_raw.root, a_raw.leaf_data, rows) = DeviceProof(DeviceSignal(seed, 0, m, k), key, rows, k)
      /\ Assembled(b_raw.root, b_raw.leaf_data, cols) = DeviceProof(DeviceSignal(seed, 1, n, k), key, cols, k)
  <2>1. IsGathered(seed, 0, m, k, key, rows) /\ IsGathered(seed, 1, n, k, key, cols)
    BY GatheredIs, Zenon
  <2> QED BY <1>2, <1>3, <1>4, <2>1, Zenon DEF IsGathered
<1> QED BY <1>1, <1>5, <1>6, Zenon DEF AssembledOf, IsBuilt

(* build_proof_from_hit_gpu, of a hit handed over: a good one, or there is *)
(* none.                                                                   *)
LEMMA HitVia ==
  ASSUME DigestIsNumber, NEW x, HitInput(x), x.via = "hit", NEW d, IsDrawnFor(d, x), Drawn(d), NEW p, IsPrologue(p, d)
  PROVE  Via(x, p, d) = ProofsFrom(d, First(x, p, x.max_hits))
<1>1. PICK hit, ctx, mined, key :
        hit = First(x, p, x.max_hits) /\ ctx = ContextOf(x) /\ mined = MinedOf(x, p) /\ key = p.job_key
  OBVIOUS
<1>2. Same(d, x, p)
  BY SameIs, Zenon
<1>3. IsContext(ctx, x) /\ HandedOver(mined, hit, x, key)
  BY <1>1, ContextIs, HandedOverIs, Zenon
<1>4. ASSUME NEW y \in DOMAIN hit PROVE GoodHit(d, x.bound, hit[y].rows, hit[y].cols)
  <2>1. PICK hits, none : hits = Called(x, p, x.max_hits).hits /\ none = Nothing(x, p)
    OBVIOUS
  <2>2. x.max_hits \in Nat \ {0}
    BY Zenon DEF HitInput
  <2>3. HitsFit(hits, x, d, none)
    BY <2>1, <2>2, CallFits, Zenon
  <2>4. IsChosen(hit, x, d, none, TRUE)
    BY <1>1, <2>1, <2>3, FirstIsChosen, Zenon DEF First
  <2> QED BY <1>4, <2>4, Zenon DEF IsChosen
<1>5. Via(x, p, d)
        = [y \in DOMAIN mined |-> BuildProofFromHitGpu(mined[y].setup_seed, mined[y].hit, mined[y].job_key,
                                                       ctx.m, ctx.n, ctx.k, x.config.rank)]
  BY <1>1, Zenon DEF Via, ProofsVia, MinedOf
<1>6. x.b_seed = x.a_seed /\ FromSeed(x) /\ key = KeyOf(d) /\ x.via \in OnDevice
  BY <1>1, <1>2, Zenon DEF HitInput, FixB, OnDevice, FromSeed, Same
<1>7. ASSUME NEW y \in DOMAIN hit
      PROVE  BuildProofFromHitGpu(mined[y].setup_seed, mined[y].hit, mined[y].job_key, ctx.m, ctx.n, ctx.k, x.config.rank)
               = ProofOf(d, hit[y].rows, hit[y].cols)
  <2>1. IsRebuilt(AssembledOf(x, key, hit[y]), d, hit[y])
    BY <1>4, <1>6, <1>7, AssembledIs, Zenon
  <2>2. BuildProofFromHitGpu(x.a_seed, hit[y], key, x.m, x.n, x.k, x.config.rank) = AssembledOf(x, key, hit[y])
    BY <1>6, BuiltIs, Zenon DEF IsBuilt
  <2>3. mined[y].hit = hit[y] /\ mined[y].setup_seed = x.a_seed /\ mined[y].job_key = key
    BY <1>3, <1>7, Zenon DEF HandedOver
  <2> QED BY <1>3, <2>1, <2>2, <2>3, Zenon DEF IsRebuilt, IsContext
<1>8. Via(x, p, d) = [y \in DOMAIN hit |-> ProofOf(d, hit[y].rows, hit[y].cols)]
  BY <1>3, <1>5, <1>7, Zenon DEF HandedOver
<1> QED BY <1>1, <1>8, Zenon DEF ProofsFrom

-----------------------------------------------------------------------------
(* The proofs made of one tree of each matrix: those assembled of what the *)
(* device gathers for the hits of the size asked for.                      *)
AreAssembled(proofs, x, key, chosen) == proofs = [y \in DOMAIN chosen |-> AssembledOf(x, key, chosen[y])]

(* build_proofs_from_setup_gpu_fixb assembles one for each hit of the      *)
(* size.                                                                   *)
LEMMA AssembledAre ==
  ASSUME NEW x, NEW key, NEW hits, NEW tile_h, NEW tile_w
  PROVE  AreAssembled(BuildProofsFromSetupFixb(x.a_seed, x.b_seed, hits, key, x.m, x.n, x.k, x.config.rank, tile_h, tile_w),
                      x, key, OfSize(hits, tile_h, tile_w))
<1>1. PICK m, n, k, a, bt, fit, chosen :
        /\ m = x.m /\ n = x.n /\ k = x.k
        /\ a = BuildTree(x.a_seed, 0, m, k, key) /\ bt = BuildTree(x.b_seed, 1, n, k, key)
        /\ fit = Sorted({s \in DOMAIN hits : Len(hits[s].rows) = tile_h /\ Len(hits[s].cols) = tile_w})
        /\ chosen = OfSize(hits, tile_h, tile_w)
  OBVIOUS
<1>2. chosen = [s \in DOMAIN fit |-> hits[fit[s]]]
  BY <1>1, Zenon DEF OfSize
<1>3. DOMAIN chosen = DOMAIN fit /\ \A s \in DOMAIN fit : chosen[s] = hits[fit[s]]
  BY <1>2
<1>4. PICK made : made = [s \in DOMAIN fit |->
        [found |-> TRUE, m |-> m, n |-> n, k |-> k, noise_rank |-> x.config.rank,
         a  |-> Assembled(a.root, Gather(a, LeafIndices(hits[fit[s]].rows, k)), hits[fit[s]].rows),
         bt |-> Assembled(bt.root, Gather(bt, LeafIndices(hits[fit[s]].cols, k)), hits[fit[s]].cols)]]
  OBVIOUS
<1>5. BuildProofsFromSetupFixb(x.a_seed, x.b_seed, hits, key, x.m, x.n, x.k, x.config.rank, tile_h, tile_w) = made
  BY <1>1, <1>4, Zenon DEF BuildProofsFromSetupFixb
<1>6. ASSUME NEW s \in DOMAIN fit
      PROVE  [found |-> TRUE, m |-> m, n |-> n, k |-> k, noise_rank |-> x.config.rank,
              a  |-> Assembled(a.root, Gather(a, LeafIndices(hits[fit[s]].rows, k)), hits[fit[s]].rows),
              bt |-> Assembled(bt.root, Gather(bt, LeafIndices(hits[fit[s]].cols, k)), hits[fit[s]].cols)]
               = AssembledOf(x, key, chosen[s])
  <2>1. PICK hit : hit = hits[fit[s]]
    OBVIOUS
  <2>2. IsGathered(x.a_seed, 0, m, k, key, hit.rows) /\ IsGathered(x.b_seed, 1, n, k, key, hit.cols)
    BY GatheredIs, Zenon
  <2>3. /\ Assembled(a.root, Gather(a, LeafIndices(hit.rows, k)), hit.rows)
             = DeviceProof(DeviceSignal(x.a_seed, 0, m, k), key, hit.rows, k)
        /\ Assembled(bt.root, Gather(bt, LeafIndices(hit.cols, k)), hit.cols)
             = DeviceProof(DeviceSignal(x.b_seed, 1, n, k), key, hit.cols, k)
    BY <1>1, <2>2, Zenon DEF IsGathered
  <2>4. chosen[s] = hit
    BY <1>3, <2>1, Zenon
  <2> QED BY <1>1, <2>1, <2>3, <2>4, Zenon DEF AssembledOf
<1>7. made = [y \in DOMAIN chosen |-> AssembledOf(x, key, chosen[y])]
  BY <1>3, <1>4, <1>6, Zenon
<1> QED BY <1>1, <1>5, <1>7, Zenon DEF AreAssembled

(* Trees of whole leaves, and every hit chosen is a good one: the proofs   *)
(* assembled are those of the tiles.                                       *)
LEMMA AssembledComes ==
  ASSUME DigestIsNumber, NEW x, HitInput(x), x.via \in OnDevice, FromSeed(x), NEW d, IsDrawnFor(d, x), Drawn(d),
         NEW none, NEW chosen, NEW asked, IsChosen(chosen, x, d, none, asked), AsksFor(x) => asked,
         NEW proofs, AreAssembled(proofs, x, KeyOf(d), chosen)
  PROVE  ComesTo(proofs, x, d, none)
<1>1. PICK key : key = KeyOf(d)
  OBVIOUS
<1>2. ASSUME NEW y \in DOMAIN chosen PROVE AssembledOf(x, key, chosen[y]) = ProofOf(d, chosen[y].rows, chosen[y].cols)
  <2>1. GoodHit(d, x.bound, chosen[y].rows, chosen[y].cols)
    BY <1>2, Zenon DEF IsChosen
  <2>2. IsRebuilt(AssembledOf(x, key, chosen[y]), d, chosen[y])
    BY <1>1, <2>1, AssembledIs, Zenon
  <2> QED BY <2>2, Zenon DEF IsRebuilt
<1>3. proofs = [y \in DOMAIN chosen |-> ProofOf(d, chosen[y].rows, chosen[y].cols)]
  BY <1>1, <1>2, Zenon DEF AreAssembled
<1>4. IsChosen(chosen, x, d, none, AsksFor(x))
  BY Zenon DEF IsChosen
<1> QED BY <1>3, <1>4, Zenon DEF ComesTo, ProofsFrom

(* build_proofs_from_setup_gpu and its variant with a seed for B. *)
LEMMA SetupComes ==
  ASSUME DigestIsNumber, NEW x, HitInput(x), x.via \in {"setup", "setup fixb"}, NEW d, IsDrawnFor(d, x), Drawn(d),
         NEW p, IsPrologue(p, d), NEW tile_h, NEW tile_w,
         FoldsBy(x.kernel, x.config) \/ OfTile(x.config, tile_h, tile_w), AsksFor(x) => OfTile(x.config, tile_h, tile_w)
  PROVE  ComesTo(BuildProofsFromSetupFixb(x.a_seed, x.b_seed, Called(x, p, x.max_hits).hits, p.job_key,
                                          x.m, x.n, x.k, x.config.rank, tile_h, tile_w), x, d, Nothing(x, p))
<1>1. PICK hits, none, key, asked :
        hits = Called(x, p, x.max_hits).hits /\ none = Nothing(x, p) /\ key = p.job_key /\ asked = OfTile(x.config, tile_h, tile_w)
  OBVIOUS
<1>2. PICK chosen, proofs :
        /\ chosen = OfSize(hits, tile_h, tile_w)
        /\ proofs = BuildProofsFromSetupFixb(x.a_seed, x.b_seed, hits, key, x.m, x.n, x.k, x.config.rank, tile_h, tile_w)
  OBVIOUS
<1>3. x.max_hits \in Nat \ {0}
  BY Zenon DEF HitInput
<1>4. HitsFit(hits, x, d, none)
  BY <1>1, <1>3, CallFits, Zenon
<1>5. IsChosen(chosen, x, d, none, asked)
  <2>1. IsChosen(OfSize(hits, tile_h, tile_w), x, d, none, OfTile(x.config, tile_h, tile_w))
    BY <1>4, OfSizeAreChosen, Zenon
  <2> QED BY <1>1, <1>2, <2>1, Zenon
<1>6. AsksFor(x) => asked
  BY <1>1, Zenon
<1>7. key = KeyOf(d)
  BY <1>1, Zenon DEF IsPrologue
<1>8. AreAssembled(proofs, x, KeyOf(d), chosen)
  <2>1. AreAssembled(proofs, x, key, chosen)
    BY <1>2, AssembledAre, Zenon
  <2> QED BY <1>7, <2>1, Zenon
<1>9. x.via \in OnDevice
  BY Zenon DEF OnDevice
<1>10. FromSeed(x)
  BY Zenon DEF FromSeed
<1>11. ComesTo(proofs, x, d, none)
  BY <1>5, <1>6, <1>8, <1>9, <1>10, AssembledComes, Zenon
<1> QED BY <1>1, <1>2, <1>11, Zenon

(* build_proofs_from_setup_gpu: tiles of 2 rows by TileWidth columns. *)
LEMMA SetupVia ==
  ASSUME DigestIsNumber, NEW x, HitInput(x), x.via = "setup", NEW d, IsDrawnFor(d, x), Drawn(d), NEW p,
         IsPrologue(p, d)
  PROVE  ComesTo(Via(x, p, d), x, d, Nothing(x, p))
<1>1. PICK ctx, hits : ctx = ContextOf(x) /\ hits = CtxGrind(ctx, x.run, p, x.config.rank, x.bound).hits
  OBVIOUS
<1>2. IsContext(ctx, x) /\ hits = Called(x, p, x.max_hits).hits
  BY <1>1, ContextIs, CtxGrindIs, Zenon
<1>3. Via(x, p, d) = BuildProofsFromSetup(x.a_seed, hits, p.job_key, ctx.m, ctx.n, ctx.k, x.config.rank)
  BY <1>1, Zenon DEF Via, ProofsVia
<1>4. x.b_seed = x.a_seed
  BY Zenon DEF HitInput, FixB
<1>5. Via(x, p, d)
        = BuildProofsFromSetupFixb(x.a_seed, x.b_seed, hits, p.job_key, x.m, x.n, x.k, x.config.rank, 2, TileWidth)
  BY <1>2, <1>3, <1>4, Zenon DEF IsContext, BuildProofsFromSetup
<1>6. AsksFor(x) => OfTile(x.config, 2, TileWidth)
  BY Zenon DEF AsksFor, OfTile
<1>7. FoldsBy(x.kernel, x.config) \/ OfTile(x.config, 2, TileWidth)
  BY Zenon DEF HitInput, OfTile
<1>8. x.via \in {"setup", "setup fixb"}
  BY Zenon
<1> QED BY <1>2, <1>5, <1>6, <1>7, <1>8, SetupComes, Zenon

(* build_proofs_from_setup_gpu_fixb: tiles of the size declared. *)
LEMMA SetupFixbVia ==
  ASSUME DigestIsNumber, NEW x, HitInput(x), x.via = "setup fixb", NEW d, IsDrawnFor(d, x), Drawn(d), NEW p,
         IsPrologue(p, d)
  PROVE  ComesTo(Via(x, p, d), x, d, Nothing(x, p))
<1>1. PICK ctx, hits, tile_h, tile_w :
        /\ ctx = ContextOf(x) /\ hits = CtxGrind(ctx, x.run, p, x.config.rank, x.bound).hits
        /\ tile_h = Len(ToList(x.config.rows_pattern)) /\ tile_w = Len(ToList(x.config.cols_pattern))
  OBVIOUS
<1>2. IsContext(ctx, x) /\ hits = Called(x, p, x.max_hits).hits
  BY <1>1, ContextIs, CtxGrindIs, Zenon
<1>3. Via(x, p, d)
        = BuildProofsFromSetupFixb(x.a_seed, x.b_seed, hits, p.job_key, ctx.m, ctx.n, ctx.k, x.config.rank, tile_h, tile_w)
  BY <1>1, Zenon DEF Via, ProofsVia
<1>4. Via(x, p, d)
        = BuildProofsFromSetupFixb(x.a_seed, x.b_seed, hits, p.job_key, x.m, x.n, x.k, x.config.rank, tile_h, tile_w)
  BY <1>2, <1>3, Zenon DEF IsContext
<1>5. OfTile(x.config, tile_h, tile_w)
  BY <1>1, Zenon DEF OfTile
<1>6. x.via \in {"setup", "setup fixb"}
  BY Zenon
<1> QED BY <1>2, <1>4, <1>5, <1>6, SetupComes, Zenon

(* Whichever way they are made, the proofs are those of hits chosen. *)
LEMMA ViaComes ==
  ASSUME DigestIsNumber, NEW x, HitInput(x), NEW d, IsDrawnFor(d, x), Drawn(d), NEW p, IsPrologue(p, d)
  PROVE  ComesTo(Via(x, p, d), x, d, Nothing(x, p))
<1>1. x.max_hits \in Nat \ {0}
  BY Zenon DEF HitInput
<1>2. 64 \in Nat \ {0}
  OBVIOUS
<1>3. CASE x.via = "host"
  <2>1. Via(x, p, d) = ProofsFrom(d, First(x, p, 64))
    BY <1>3, HostVia, Zenon
  <2> QED BY <1>2, <1>3, <2>1, FirstComes, Zenon
<1>4. CASE x.via = "host 2x64"
  <2>1. Via(x, p, d) = ProofsFrom(d, First(x, p, 64))
    BY <1>4, HostVia2x64, Zenon
  <2> QED BY <1>2, <1>4, <2>1, FirstComes, Zenon
<1>5. CASE x.via = "resident"
  <2>1. Via(x, p, d) = ProofsFrom(d, First(x, p, 64))
    BY <1>5, ResidentVia, Zenon
  <2> QED BY <1>2, <1>5, <2>1, FirstComes, Zenon
<1>6. CASE x.via \in {"resident ctx", "handed over", "handed over fixb", "hit"}
  <2>1. Via(x, p, d) = ProofsFrom(d, First(x, p, x.max_hits))
    BY <1>6, ResidentCtxVia, HandedOverVia, HandedOverFixbVia, HitVia, Zenon
  <2>2. x.via # "setup"
    BY <1>6, Zenon
  <2> QED BY <1>1, <2>1, <2>2, FirstComes, Zenon
<1>7. CASE x.via \in {"setup", "setup fixb"}
  BY <1>7, SetupVia, SetupFixbVia, Zenon
<1>8. \/ x.via \in {"host", "host 2x64", "resident"} \/ x.via \in {"resident ctx", "handed over", "handed over fixb", "hit"}
      \/ x.via \in {"setup", "setup fixb"}
  <2>1. x.via \in Vias
    BY Zenon DEF HitInput
  <2> QED BY <2>1, Zenon DEF Vias, FixB
<1> QED BY <1>3, <1>4, <1>5, <1>6, <1>7, <1>8, Zenon

-----------------------------------------------------------------------------
(* A sequence of nothing is the empty one. *)
LEMMA NoneIs ==
  ASSUME NEW f, f = [y \in DOMAIN f |-> f[y]], DOMAIN f = {}
  PROVE  f = <<>>
<1>1. 1..0 = {} /\ 0 \in Nat
  OBVIOUS
<1>2. f = [y \in 1..0 |-> f[y]] /\ \A y \in 1..0 : f[y] \in {}
  BY <1>1, Zenon
<1>3. f \in Seq({}) /\ Len(f) = 0
  BY <1>1, <1>2, ListedIsSeq, Zenon
<1> QED BY <1>3, EmptySeq

(* What a search may come to: proofs that verify, none of a hit of another *)
(* shape, and none only if there was nothing to find.                      *)
Delivers(proofs, x, none) ==
  /\ ~FoldsBy(x.kernel, x.config) => proofs = <<>>
  /\ \A y \in DOMAIN proofs : Verifies(x.patterns, x.header, x.bound, proofs[y])
  /\ FoldsBy(x.kernel, x.config) /\ AsksFor(x) => (proofs = <<>> <=> none)

(* Proofs of what was chosen are such. *)
LEMMA WhatComesDelivers ==
  ASSUME NEW x, NEW d, IsDrawnFor(d, x), NEW none, NEW proofs, ComesTo(proofs, x, d, none)
  PROVE  Delivers(proofs, x, none)
<1>1. PICK chosen : proofs = ProofsFrom(d, chosen) /\ IsChosen(chosen, x, d, none, AsksFor(x))
  BY Zenon DEF ComesTo
<1>2. proofs = [y \in DOMAIN chosen |-> ProofOf(d, chosen[y].rows, chosen[y].cols)]
  BY <1>1, Zenon DEF ProofsFrom
<1>3. DOMAIN proofs = DOMAIN chosen
  BY <1>2, Zenon
<1>4. proofs = <<>> <=> DOMAIN chosen = {}
  <2>1. ASSUME DOMAIN chosen = {} PROVE proofs = <<>>
    <3>1. proofs = [y \in DOMAIN proofs |-> proofs[y]]
      BY <1>2, Zenon
    <3> QED BY <1>3, <2>1, <3>1, NoneIs, Zenon
  <2>2. ASSUME proofs = <<>> PROVE DOMAIN chosen = {}
    <3>1. DOMAIN proofs = {}
      BY <2>2
    <3> QED BY <1>3, <3>1, Zenon
  <2> QED BY <2>1, <2>2, Zenon
<1>5. ASSUME NEW y \in DOMAIN proofs PROVE Verifies(x.patterns, x.header, x.bound, proofs[y])
  <2>1. y \in DOMAIN chosen /\ proofs[y] = ProofOf(d, chosen[y].rows, chosen[y].cols)
    BY <1>2, <1>3, Zenon
  <2>2. GoodHit(d, x.bound, chosen[y].rows, chosen[y].cols)
    BY <1>1, <2>1, Zenon DEF IsChosen
  <2>3. d.patterns = x.patterns /\ d.header = x.header
    BY Zenon DEF IsDrawnFor
  <2> QED BY <2>1, <2>2, <2>3, Zenon DEF GoodHit, ProofVerifies
<1>6. ~FoldsBy(x.kernel, x.config) => DOMAIN chosen = {}
  BY <1>1, Zenon DEF IsChosen
<1>7. FoldsBy(x.kernel, x.config) /\ AsksFor(x) => (DOMAIN chosen = {} <=> none)
  BY <1>1, Zenon DEF IsChosen
<1> QED BY <1>4, <1>5, <1>6, <1>7, Zenon DEF Delivers

(* The same, of the count that the search returns, as HitsVerify says it.  *)
Yields(x, p, proofs) ==
  /\ ~FoldsBy(x.kernel, x.config) => proofs = <<>>
  /\ \A y \in DOMAIN proofs : Verifies(x.patterns, x.header, x.bound, proofs[y])
  /\ FoldsBy(x.kernel, x.config)
       /\ (\/ x.via # "setup"
           \/ Len(ToList(x.config.rows_pattern)) = 2 /\ Len(ToList(x.config.cols_pattern)) = TileWidth) =>
     (proofs = <<>> <=>
        CtxGrind(NewResidentCtx(x.kernel, x.m, x.n, x.k, x.max_hits), x.run, p, x.config.rank, x.bound).found <= 0)

(* HitsVerify for every search, if a digest is a number: in whatever order *)
(* the device stores its hits, however many there are and whichever way    *)
(* the proof is rebuilt, what comes out verifies, nothing is made of a hit *)
(* of another shape or of a failed call, and a hit of the shape is not     *)
(* lost.                                                                   *)
THEOREM HitsAlwaysVerify ==
  ASSUME DigestIsNumber, HitInput(input)
  PROVE  HitsVerify
<1>1. PICK d : IsDrawnFor(d, input) /\ Drawn(d)
  BY DrawnForIs, Zenon
<1>2. PICK a_sig, b_sig : a_sig = d.a_sig /\ b_sig = d.b_sig
  OBVIOUS
<1>3. a_sig = SignalFor(input, input.a_seed, 0, input.m) /\ b_sig = SignalFor(input, input.b_seed, 1, input.n)
  BY <1>1, <1>2, Zenon DEF IsDrawnFor
<1>4. PICK p : p = Prologue(input.vbmi, input.m, input.n, input.k, input.header, input.config, a_sig, b_sig)
  OBVIOUS
<1>5. IsPrologue(p, d)
  <2>1. IsPrologue(Prologue(input.vbmi, d.m, d.n, d.k, d.header, d.config, d.a_sig, d.b_sig), d)
    BY <1>1, PrologueIs, Zenon
  <2> QED BY <1>1, <1>2, <1>4, <2>1, Zenon DEF IsDrawnFor
<1>6. PICK ctx, proofs, none, found :
        /\ ctx = ContextOf(input) /\ proofs = Via(input, p, d) /\ none = Nothing(input, p)
        /\ found = CtxGrind(ctx, input.run, p, input.config.rank, input.bound).found
  OBVIOUS
<1>7. Delivers(proofs, input, none)
  <2>1. ComesTo(proofs, input, d, none)
    BY <1>1, <1>5, <1>6, ViaComes, Zenon
  <2> QED BY <1>1, <2>1, WhatComesDelivers, Zenon
<1>8. found <= 0 <=> none
  <2>1. input.max_hits \in Nat \ {0}
    BY Zenon DEF HitInput
  <2>2. HitsAre(Called(input, p, input.max_hits), KernelTiles(input, p), MeetingOf(input, p), Nothing(input, p))
    BY <2>1, CallIs, Zenon
  <2>3. found = Called(input, p, input.max_hits).found
    BY <1>6, CtxGrindIs, Zenon
  <2> QED BY <1>6, <2>2, <2>3, Zenon DEF HitsAre
<1>9. proofs = ProofsVia(input.via, ctx, input.run, p, input.config, input.bound, input.a_seed, input.b_seed, a_sig, b_sig)
  BY <1>2, <1>6, Zenon DEF Via
<1>10. Yields(input, p, proofs)
  BY <1>6, <1>7, <1>8, Zenon DEF ContextOf, Delivers, AsksFor, Yields
<1>11. \A a \in {SignalFor(input, input.a_seed, 0, input.m)}, b \in {SignalFor(input, input.b_seed, 1, input.n)} :
       \A q \in {Prologue(input.vbmi, input.m, input.n, input.k, input.header, input.config, a, b)} :
       \A r \in {ProofsVia(input.via, ContextOf(input), input.run, q, input.config, input.bound,
                          input.a_seed, input.b_seed, a, b)} :
         Yields(input, q, r)
  BY <1>3, <1>4, <1>6, <1>9, <1>10, Zenon
<1> QED BY <1>11, Zenon DEF HitsVerify, Yields, SignalFor, ContextOf

=============================================================================
