------------------------------- MODULE Bounds -------------------------------
(***************************************************************************)
(* The arithmetic that decides which tiles are shares: the network target  *)
(* of a job (src/protocol.rs), the share target of a difficulty            *)
(* (src/cpu_engine.rs), the bound a jackpot is compared with and the grid  *)
(* (src/stratum_to_official.rs).                                           *)
(*                                                                         *)
(* A 256-bit number is an array of 32 bytes in the code, worked on byte by *)
(* byte; here an array of Width digits to the base Base, with a compact    *)
(* form that has a mantissa of 3 digits and an exponent of one.  Index 0   *)
(* is the first byte.                                                      *)
(***************************************************************************)
EXTENDS Naturals, Input

CONSTANTS
  Base, Width,
  MaxDifficulty                     \* bound: the difficulties compared with each other

ASSUME WidthAssumption == Base \in Nat \ {0, 1} /\ Width \in Nat /\ Width >= 3
ASSUME DifficultyAssumption == MaxDifficulty \in Nat

Digits == 0..Base - 1
Arrays == [0..Width - 1 -> Digits]

(* Base^i: what a digit is worth that has i others after it.               *)
Weight[i \in Nat] == IF i = 0 THEN 1 ELSE Base * Weight[i - 1]

Top == Weight[Width] - 1            \* U256::MAX

Reversed(a) == [i \in 0..Width - 1 |-> a[Width - 1 - i]]

BigEndian(a) ==
  LET value[len \in 0..Width] == IF len = 0 THEN 0 ELSE value[len - 1] * Base + a[len - 1]
  IN value[Width]
LittleEndian(a) == BigEndian(Reversed(a))

ToLittleEndian(x) == [i \in 0..Width - 1 |-> (x \div Weight[i]) % Base]

-----------------------------------------------------------------------------
Zeros == [i \in 0..Width - 1 |-> 0]

(* The value of the third (i = 2), second and first digit of a mantissa.   *)
Digit(m, i) == (m \div Weight[i]) % Base

(* Mutated form: the mantissa ends one digit too early. *)
Place_Short(exponent) == Width - exponent - 1

(* offset *)
Place(exponent) == Width - exponent

(* decode_nbits, of the code `exponent`, `mantissa`.  Beyond the width the *)
(* subtraction wraps around: up to 3 digits too far it indexes out of      *)
(* bounds, farther the comparison leaves the target at zero.               *)
DecodeNbits(exponent, mantissa) ==
  LET write(m, offset) == [i \in 0..Width - 1 |->
                             IF i \in offset..offset + 2 THEN Digit(m, offset + 2 - i) ELSE 0]
  IN IF exponent <= 3
     THEN write(mantissa \div Weight[3 - exponent], Width - 3)
     ELSE write(mantissa, Place(exponent))

-----------------------------------------------------------------------------
(* share_target_from_difficulty: long division of 0xFF..FF, from the most  *)
(* significant byte; `rem` before byte i is rest[i].                       *)
Divisor(difficulty) == IF difficulty = 0 THEN 1 ELSE difficulty

ShareTarget(difficulty) ==
  LET d == Divisor(difficulty)
      rest[i \in 0..Width] == IF i = 0 THEN 0 ELSE (rest[i - 1] * Base + Base - 1) % d
  IN [i \in 0..Width - 1 |-> (rest[i] * Base + Base - 1) \div d]

(* Mutated form: what is too large wraps around. *)
DifficultyBound_Wraps(target_be, factor) ==
  ToLittleEndian((BigEndian(target_be) * factor) % Weight[Width])

(* difficulty_bound_from_target_be: saturates, guarded by a division; zero *)
(* for a degenerate factor.                                                *)
DifficultyBound(target_be, factor) ==
  LET target == BigEndian(target_be) IN
  ToLittleEndian(IF factor = 0 THEN 0
                 ELSE IF target > Top \div factor THEN Top
                 ELSE target * factor)

(* scaled_bound_le_from_target_be: byte by byte, with a carry.             *)
ScaledBound(target_be, factor) ==
  LET le == Reversed(target_be)
      carry[i \in 0..Width] == IF i = 0 THEN 0
                               ELSE (le[i - 1] * factor + carry[i - 1]) \div Base
  IN IF carry[Width] > 0 THEN [i \in 0..Width - 1 |-> Base - 1]
     ELSE [i \in 0..Width - 1 |-> (le[i] * factor + carry[i]) % Base]

(* share_bound_le: what the search compares a jackpot with. *)
ShareBound(difficulty, factor) == DifficultyBound(ShareTarget(difficulty), factor)

(* le_leq: the most significant byte that differs decides. *)
LeLeq(a, b) ==
  LET differ == {i \in 0..Width - 1 : a[i] # b[i]}
  IN differ = {} \/ \E i \in differ : a[i] < b[i] /\ \A j \in differ : j <= i

-----------------------------------------------------------------------------
CeilDiv(a, b) == (a + b - 1) \div b

(* Mutated form: the largest index is taken for a count. *)
SmallestValid_Count(period, max_idx) == CeilDiv(max_idx, period) * period

SmallestValid(period, max_idx) == (max_idx \div period + 1) * period

(* fit_dim: rows or columns of the grid. *)
FitDim(target, period, max_idx) ==
  LET p == IF period = 0 THEN 1 ELSE period
      rounded == CeilDiv(target, p) * p
  IN IF SmallestValid(p, max_idx) >= rounded THEN SmallestValid(p, max_idx) ELSE rounded

-----------------------------------------------------------------------------
(* What is asked of these functions: every target of a compact form within *)
(* the width, every difficulty and work of a tile, every grid.             *)
NbitsInputs == [fn : {"nbits"}, exponent : 0..Width, mantissa : 0..Weight[3] - 1]
BoundInputs(difficulties, factors) == [fn : {"bound"}, difficulty : difficulties, factor : factors]
DimInputs(dims) == [fn : {"dim"}, target : dims, period : dims, max_idx : dims]

(* decode_nbits is mantissa * 256^(exponent - 3), rounded down, as long as *)
(* the exponent is within the width of the target.                         *)
NbitsDecoded ==
  input.fn = "nbits" =>
    LET v == BigEndian(DecodeNbits(input.exponent, input.mantissa))
    IN IF input.exponent >= 3
       THEN v = (input.mantissa * Weight[input.exponent - 3]) % Weight[Width]
       ELSE v = input.mantissa \div Weight[3 - input.exponent]

(* The bound of a share is floor(MAX / difficulty) times the work of a     *)
(* tile, saturated - by either of the two ways the code computes it - and  *)
(* comparing bytes with it is comparing numbers: a jackpot that meets it   *)
(* meets the bound of every lower difficulty.                              *)
BoundIsExact ==
  input.fn = "bound" =>
    LET b    == ShareBound(input.difficulty, input.factor)
        want == (Top \div Divisor(input.difficulty)) * input.factor
    IN /\ LittleEndian(b) = IF want > Top THEN Top ELSE want
       /\ b = ScaledBound(ShareTarget(input.difficulty), input.factor)
       /\ \A d \in 0..MaxDifficulty :
            LET easier == ShareBound(d, input.factor)
            IN /\ LeLeq(b, easier) <=> LittleEndian(b) <= LittleEndian(easier)
               /\ d <= input.difficulty => LeLeq(b, easier)

(* The dimension is the least that the consensus rule admits - a multiple  *)
(* of the period beyond the largest index of the pattern - and the         *)
(* operator's batch fits in.                                               *)
FitDimIsLeast ==
  input.fn = "dim" =>
    LET p     == IF input.period = 0 THEN 1 ELSE input.period
        ok(x) == x % p = 0 /\ x > input.max_idx /\ x >= input.target
        dim   == FitDim(input.target, input.period, input.max_idx)
    IN ok(dim) /\ \A x \in 0..dim - 1 : ~ok(x)

=============================================================================
