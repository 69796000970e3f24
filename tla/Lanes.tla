------------------------------- MODULE Lanes -------------------------------
(***************************************************************************)
(* The vectors of src/microkernel.rs have Wide (AVX-512) or Narrow         *)
(* (AVX-VNNI) lanes of a word, and a tile of a micro-kernel has 2 rows and *)
(* 4 * Wide = 8 * Narrow columns.                                          *)
(***************************************************************************)
EXTENDS Integers

CONSTANTS
  Wide, Narrow,   \* 16, 8
  Dword           \* 4, bytes of a dword

ASSUME LanesAssumption == Narrow \in Nat \ {0} /\ Wide = 2 * Narrow /\ Dword \in Nat \ {0}

TileWidth == 4 * Wide

=============================================================================
