--------------------------- MODULE KernelChoice ---------------------------
(***************************************************************************)
(* What the environment of the process decides twice, independently: the   *)
(* tile pattern and rank that the miner declares (src/bin/tworker.rs,      *)
(* src/official_grind.rs), which the key of a job commits to, and the      *)
(* kernel that the CUDA library launches and the rank it folds by          *)
(* (cuda/pearl_resident_lib.cu).                                           *)
(*                                                                         *)
(* vars is the set of the ARIA_* variables that are set, without their     *)
(* prefix; rank is the value of ARIA_RANK, 0 for unset; major is the       *)
(* compute capability of the device.                                       *)
(***************************************************************************)
EXTENDS Naturals, FiniteSets, Input

T4Wide   == {"T4_DUAL", "T4_WIDE", "T4_WIDE3", "T4_WIDEK"}
Forced   == {"FORCE_SM75", "FORCE_CPASYNC"}
Settings == T4Wide \cup Forced \cup {"SM75", "TMA_MS", "WGMMA", "NO_WGMMA"}
Majors   == 7..10
Ranks    == {0, 64, 128, 256}

(* A tile stands for its patterns: "16x16" and "8x16" are contiguous, a    *)
(* "period" is that of the 16 columns that go with rows 0, 8, 32, 40, ...  *)

-----------------------------------------------------------------------------
(* The defaults that main sets for HeroMiners before anything reads them.  *)
HeroMinersRank(rank) == IF rank = 0 THEN 128 ELSE rank

(* Mutated form: a Turing card keeps what the operator set for others. *)
HeroMinersEnv_KeepsTma(vars, major) ==
  (IF major = 7 THEN (IF vars \cap (T4Wide \cup {"SM75"}) = {} THEN {"T4_DUAL"} ELSE {})
   ELSE {"TMA_MS"})
  \cup (IF major = 9 /\ "NO_WGMMA" \notin vars THEN {"WGMMA"} ELSE {}) \cup vars

HeroMinersEnv(vars, major) ==
  LET tiles == IF major # 7 THEN vars \cup {"TMA_MS"}
               ELSE (IF vars \cap (T4Wide \cup {"SM75"}) = {} THEN vars \cup {"T4_DUAL"} ELSE vars)
                    \ {"TMA_MS"}
  IN IF major = 9 /\ "NO_WGMMA" \notin vars THEN tiles \cup {"WGMMA"} ELSE tiles

WgmmaAsked(vars) == "WGMMA" \in vars /\ "NO_WGMMA" \notin vars

(* The patterns of herominers_default_params. *)
HeroMinersTile(vars) ==
  IF vars \cap T4Wide # {} THEN "16x16"
  ELSE IF WgmmaAsked(vars) THEN "2x64"
  ELSE IF "TMA_MS" \in vars THEN "period 256"
  ELSE "8x16"

(* rank_from_env *)
RankFromEnv(rank) == IF rank \in {128, 256} THEN rank ELSE 128

(* luckypool_default_params; the rank it declares is always 256. *)
LuckyPoolTile(vars) == IF WgmmaAsked(vars) THEN "2x64" ELSE "period 128"

(* canonical_gpu_config, which the tools declare. *)
CanonicalTile(vars) ==
  IF "TMA_MS" \in vars /\ WgmmaAsked(vars) THEN "2x64"
  ELSE IF "SM75" \in vars THEN "8x16"
  ELSE IF "TMA_MS" \in vars THEN "period 256"
  ELSE "period 128"

-----------------------------------------------------------------------------
(* aria_use_wgmma *)
UseWgmma(vars, major) == "NO_WGMMA" \notin vars /\ ("WGMMA" \in vars \/ major = 9)

(* Mutated form: the wide kernels are looked for on every device. *)
KernelTile_AnyWide(vars, major) ==
  IF vars \cap T4Wide # {} THEN "16x16"
  ELSE IF major = 7 \/ "FORCE_SM75" \in vars THEN "8x16"
  ELSE IF "TMA_MS" \notin vars THEN "period 128"
  ELSE IF UseWgmma(vars, major) THEN "2x64" ELSE "period 256"

(* The dispatch of resident_run; that of resident_run2 leads to the same   *)
(* kernels, and cp.async or TMA to the same fragment.                      *)
KernelTile(vars, major) ==
  LET turing == major = 7 \/ "FORCE_SM75" \in vars IN
  IF turing /\ vars \cap T4Wide # {} THEN "16x16"
  ELSE IF turing THEN "8x16"
  ELSE IF "TMA_MS" \notin vars THEN "period 128"
  ELSE IF UseWgmma(vars, major) THEN "2x64" ELSE "period 256"

(* pearl_resident_create: there is no context for a rank out of range. *)
Creates(rank)    == rank \in {0, 128, 256}
KernelRank(rank) == IF rank = 0 THEN 128 ELSE rank

-----------------------------------------------------------------------------
(* Settings that pull the two apart: on other devices, a wide kernel of    *)
(* Turing asked for without forcing Turing, or the reverse; on Turing,     *)
(* WGMMA asked for where SM75 takes its place.                             *)
Contradictory(vars, major) ==
  \/ major # 7 /\ ((vars \cap T4Wide = {}) <=> ("FORCE_SM75" \in vars))
  \/ major = 7 /\ vars \cap T4Wide = {} /\ "SM75" \in vars /\ WgmmaAsked(vars)

(* For the others, of devices other than Turing. *)
LuckyPoolMayDiffer(vars) == ("TMA_MS" \in vars) # WgmmaAsked(vars)
CanonicalMayDiffer(vars, major) ==
  \/ "SM75" \in vars
  \/ major = 9 /\ "TMA_MS" \in vars /\ vars \cap {"WGMMA", "NO_WGMMA"} = {}

TracksKernel(vars, rank, major) ==
  LET set == HeroMinersEnv(vars, major)
      r   == HeroMinersRank(rank)
  IN /\ Creates(r) => RankFromEnv(r) = KernelRank(r)
     /\ HeroMinersTile(set) = KernelTile(set, major) <=> ~Contradictory(vars, major)
     /\ major # 7 /\ vars \cap (T4Wide \cup Forced) = {} =>
          /\ LuckyPoolTile(vars) = KernelTile(vars, major) \/ LuckyPoolMayDiffer(vars)
          /\ CanonicalTile(vars) = KernelTile(vars, major) \/ CanonicalMayDiffer(vars, major)

ChoiceInputs(vars, ranks, majors) == [fn : {"choice"}, vars : vars, rank : ranks, major : majors]

(* For HeroMiners, whatever the operator has set that does not contradict  *)
(* the device, the tile and rank declared - and committed to by the key of *)
(* every job - are those of the kernel that searches: else every hit fails *)
(* its verification.  Contradictory leaves out no more than it must.  The  *)
(* tiles that LuckyPool and the tools declare are the kernel's too, but    *)
(* for fewer settings.                                                     *)
PatternTracksKernel ==
  input.fn = "choice" => TracksKernel(input.vars, input.rank, input.major)

=============================================================================
