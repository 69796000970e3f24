------------------------------- MODULE Tiles -------------------------------
(***************************************************************************)
(* How the tiles of a pattern share out the rows, or the columns, of a     *)
(* matrix: the PeriodicPattern that src/official_grind.rs and the tools    *)
(* declare tiles with, and threads_partition.                              *)
(***************************************************************************)
EXTENDS Bounds, Ascending, SequencesExt

(* External: PeriodicPattern, a sequence of dimensions <<stride, length>>. *)
Repeat(sums, stride, length) == {s + stride * x : s \in sums, x \in 0..length - 1}

ToList(pattern) ==
  LET sums[d \in 0..Len(pattern)] ==
        IF d = 0 THEN {0} ELSE Repeat(sums[d - 1], pattern[d][1], pattern[d][2])
  IN Sorted(sums[Len(pattern)])

Period(pattern) == pattern[Len(pattern)][1] * pattern[Len(pattern)][2]

OffsetIsValid(pattern, i) == \A d \in 1..Len(pattern) : (i \div pattern[d][1]) % pattern[d][2] = 0

(* Mutated form: a tile starts where the one before it would end. *)
TileOffsets_Contiguous(pattern, total_dimension) ==
  {i \in 0..total_dimension - 1 : i % Len(ToList(pattern)) = 0}

TileOffsets(pattern, total_dimension) ==
  {i \in 0..total_dimension - 1 : OffsetIsValid(pattern, i)}

(* threads_partition, of a dimension that is a multiple of the period. *)
ThreadsPartition(pattern, total_dimension) ==
  LET base_indices == ToList(pattern)
      offsets == Sorted(TileOffsets(pattern, total_dimension))
  IN [t \in DOMAIN offsets |-> [x \in DOMAIN base_indices |-> offsets[t] + base_indices[x]]]

-----------------------------------------------------------------------------
(* Patterns whose dimensions repeat what the ones before them span.        *)
Nested(pattern) ==
  /\ Len(pattern) > 0
  /\ \A d \in 1..Len(pattern) : pattern[d][1] > 0 /\ pattern[d][2] > 0
  /\ \A d \in 1..Len(pattern) - 1 : pattern[d + 1][1] % (pattern[d][1] * pattern[d][2]) = 0

TileInputs(patterns, targets) == [fn : {"tiles"}, pattern : patterns, target : targets]

(* The tiles of a pattern share out a dimension that fit_dim chose for it: *)
(* every index is in one tile, and in one only, and no tile goes beyond.   *)
TilesPartition ==
  input.fn = "tiles" =>
    LET list == ToList(input.pattern)
        dim == FitDim(input.target, Period(input.pattern), list[Len(list)])
        tiles == ToSet(ThreadsPartition(input.pattern, dim))
    IN /\ \A i \in 0..dim - 1 : \E tile \in tiles :
            i \in ToSet(tile) /\ \A other \in tiles \ {tile} : i \notin ToSet(other)
       /\ \A tile \in tiles : ToSet(tile) \subseteq 0..dim - 1

=============================================================================
