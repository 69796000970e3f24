----------------------------- MODULE CpuEngine -----------------------------
(***************************************************************************)
(* One thread of the amortised CPU grinder (grind_thread, src/cpu_engine   *)
(* .rs): it adopts the job of the slot, draws and noises matrices once,    *)
(* sweeps all pairs of a row group and a column group - panels of row      *)
(* groups outermost, then column groups, then the row groups of the panel  *)
(* four at a time and the rest one by one - and reads the stop flag here   *)
(* and there on the way.                                                   *)
(*                                                                         *)
(* What a hash is worth is a number of Hashes, compared with the two       *)
(* targets of a job.  m_batch and n_batch hold at least one group each.    *)
(***************************************************************************)
EXTENDS Lanes, Sequences, Functions

CONSTANTS
  JobSpecs,       \* [job_id, h, w, job_key, target, share_target]
  Grids,          \* [m_batch, n_batch, panel_rg, cpu]
  Hashes,
  CheckEvery,     \* 128, tiles between two looks at stop in the last loop
  MaxSetups       \* bound: setups of a behaviour

NoJob  == [job_id |-> "none"]
NoSeed == "none"

ASSUME EngineAssumption ==
  /\ CheckEvery \in Nat \ {0}
  /\ \A g \in Grids :
       g.m_batch \in Nat \ {0} /\ g.n_batch \in Nat \ {0} /\ g.panel_rg \in Nat \ {0}
  /\ \A j \in JobSpecs : \A g \in Grids :
       j.h \in 1..g.m_batch /\ j.w \in 1..g.n_batch

VARIABLES
  grid,           \* the arguments of the thread, and its processor
  slot, stop,     \* shared: the job to work on, the flag
  pc, job, setups, panel_start, cg, rg, local,
  a_seed,         \* the key that the seeds of the matrices were derived with
  attempts,       \* shared: attempts_ctr
  hits,           \* what on_hit was called with, in the step just made
  swept,          \* history: the pairs hashed in this setup, in order
  total, late     \* history: tiles hashed in all, and since stop was set

position  == <<panel_start, cg, rg>>
engineVars == <<grid, slot, stop, pc, job, setups, position, local, a_seed, attempts,
                hits, swept, total, late>>

EngineInit ==
  /\ grid \in Grids
  /\ slot \in JobSpecs
  /\ stop = FALSE
  /\ pc = "top" /\ job = NoJob /\ setups = 0
  /\ panel_start = 0 /\ cg = 0 /\ rg = 0
  /\ local = 0 /\ a_seed = NoSeed
  /\ attempts = 0 /\ hits = {} /\ swept = <<>> /\ total = 0 /\ late = 0

-----------------------------------------------------------------------------
RowGroups == grid.m_batch \div job.h
ColGroups == grid.n_batch \div job.w

(* Mutated form: the last panel is as long as the others. *)
PanelEnd_Full(start, row_groups) == start + grid.panel_rg

PanelEnd(start, row_groups) ==
  IF start + grid.panel_rg < row_groups THEN start + grid.panel_rg ELSE row_groups

(* micro_kernel_applicable, micro_kernel_avxvnni_applicable: both ask for  *)
(* whole groups of the wide kind.                                          *)
MicroFits      == job.h = 2 /\ job.w = TileWidth /\ grid.n_batch % Wide = 0
UseMicro512    == grid.cpu = "avx512" /\ MicroFits
UseMicroVnni   == grid.cpu = "avxvnni" /\ MicroFits

QuadFits == (UseMicro512 \/ UseMicroVnni) /\ rg + 4 <= PanelEnd(panel_start, RowGroups)

(* What on_hit is told of hashes: the id and the targets are those of the  *)
(* job held, the hash was keyed by the seed that the matrices gave.        *)
HitsOf(hashes) ==
  {[job_id |-> job.job_id, is_block |-> x < job.target, hash |-> x, seed |-> a_seed] :
     x \in {x \in hashes : x < job.share_target}}

(* n tiles from rg on, with these hashes. *)
Hashed(n, hashes) ==
  /\ local' = local + n
  /\ hits' = HitsOf(hashes)
  /\ swept' = swept \o [x \in 1..n |-> <<rg + x - 1, cg>>]
  /\ total' = total + n
  /\ late' = IF stop THEN late + n ELSE late
  /\ rg' = rg + n

Silent == hits' = {} /\ UNCHANGED <<grid, slot, stop, total, late>>

-----------------------------------------------------------------------------
(* The pool's side: another job is put in the slot, the flag is set. *)
Publish(j) ==
  /\ slot' = j /\ j # slot
  /\ UNCHANGED <<grid, stop, pc, job, setups, position, local, a_seed, attempts, hits, swept, total, late>>

Halt ==
  /\ ~stop /\ stop' = TRUE
  /\ UNCHANGED <<grid, slot, pc, job, setups, position, local, a_seed, attempts, hits, swept, total, late>>

(* The latest job is cloned out of the slot; the lock is not held after.   *)
Adopt ==
  /\ pc = "top" /\ ~stop /\ setups < MaxSetups
  /\ job' = slot /\ setups' = setups + 1
  /\ pc' = "setup"
  /\ Silent /\ UNCHANGED <<position, local, a_seed, attempts, swept>>

(* The matrices are drawn, committed to and noised, and the sweep begins.  *)
Prepare ==
  /\ pc = "setup"
  /\ a_seed' = job.job_key
  /\ panel_start' = 0 /\ cg' = 0 /\ rg' = 0 /\ swept' = <<>>
  /\ pc' = "quads"
  /\ Silent /\ UNCHANGED <<job, setups, local, attempts>>

Quit ==
  /\ pc = "top" /\ stop
  /\ pc' = "done"
  /\ Silent /\ UNCHANGED <<job, setups, position, local, a_seed, attempts, swept>>

(* Four tiles in one call of the micro-kernel, then a look at stop. *)
Quads(hashes) ==
  /\ pc = "quads" /\ QuadFits
  /\ Hashed(4, hashes)
  /\ pc' = IF stop THEN "rest" ELSE "quads"
  /\ UNCHANGED <<grid, slot, stop, job, setups, panel_start, cg, a_seed, attempts>>

QuadsDone ==
  /\ pc = "quads" /\ ~QuadFits
  /\ pc' = "rest"
  /\ Silent /\ UNCHANGED <<job, setups, position, local, a_seed, attempts, swept>>

(* Mutated form: only the micro-kernel loops look. *)
LooksAfter_Never(next_rg) == FALSE

LooksAfter(next_rg) == next_rg % CheckEvery = 0

(* One tile; a break leaves what is left of the panel in this column.      *)
Rest(hashes) ==
  /\ pc = "rest" /\ rg < PanelEnd(panel_start, RowGroups)
  /\ Hashed(1, hashes)
  /\ pc' = IF LooksAfter(rg + 1) /\ stop THEN "column" ELSE "rest"
  /\ UNCHANGED <<grid, slot, stop, job, setups, panel_start, cg, a_seed, attempts>>

RestDone ==
  /\ pc = "rest" /\ rg >= PanelEnd(panel_start, RowGroups)
  /\ pc' = "column"
  /\ Silent /\ UNCHANGED <<job, setups, position, local, a_seed, attempts, swept>>

(* Mutated form: the latest job is adopted with every column group.        *)
Column_Readopts ==
  /\ pc = "column"
  /\ attempts' = attempts + local /\ local' = 0 /\ job' = slot
  /\ IF ~stop /\ cg + 1 < ColGroups
     THEN pc' = "quads" /\ cg' = cg + 1 /\ rg' = panel_start
     ELSE pc' = "panel" /\ UNCHANGED <<cg, rg>>
  /\ Silent /\ UNCHANGED <<setups, panel_start, a_seed, swept>>

(* The end of a column group: attempts are published, stop is looked at.   *)
Column ==
  /\ pc = "column"
  /\ attempts' = attempts + local /\ local' = 0
  /\ IF ~stop /\ cg + 1 < ColGroups
     THEN pc' = "quads" /\ cg' = cg + 1 /\ rg' = panel_start
     ELSE pc' = "panel" /\ UNCHANGED <<cg, rg>>
  /\ Silent /\ UNCHANGED <<job, setups, panel_start, a_seed, swept>>

(* The end of a panel, and of the sweep after the last one. *)
Panel ==
  /\ pc = "panel"
  /\ attempts' = attempts + local /\ local' = 0
  /\ IF ~stop /\ panel_start + grid.panel_rg < RowGroups
     THEN pc' = "quads" /\ panel_start' = panel_start + grid.panel_rg /\ cg' = 0 /\ rg' = panel_start'
     ELSE pc' = "top" /\ UNCHANGED position
  /\ Silent /\ UNCHANGED <<job, setups, a_seed, swept>>

EngineNext ==
  \/ \E j \in JobSpecs : Publish(j)
  \/ Halt \/ Adopt \/ Prepare \/ Quit \/ QuadsDone \/ RestDone \/ Column \/ Panel
  \/ \E hashes \in SUBSET Hashes \ {{}} : Quads(hashes)
  \/ \E hash \in Hashes : Rest({hash})

EngineSpec == EngineInit /\ [][EngineNext]_engineVars

-----------------------------------------------------------------------------
(* Panels, quads and what is left over of them are only an order: no pair  *)
(* of groups is hashed twice in a setup, a sweep that was not stopped has  *)
(* hashed every pair, and what is published as attempts is what was hashed.*)
SweepOnce ==
  /\ IsInjective(swept)
  /\ pc = "top" => attempts = total
  /\ pc = "top" /\ setups > 0 /\ ~stop =>
       Range(swept) = (0..RowGroups - 1) \X (0..ColGroups - 1)

(* However the flag is set, the thread hashes no more than one quad and    *)
(* one round of the last loop after it.                                    *)
StopIsHonoured == late <= 4 + CheckEvery

(* A hit names one job in all it says, however often the slot moves on     *)
(* while the matrices are made and swept: the job whose key is in the      *)
(* seeds is the one it is named after and whose targets it is compared     *)
(* with.  (The comment at cpu_engine.rs:147 has the job live at the moment *)
(* of the hit, whose key need not be that of the matrices.)                *)
HitIsOfItsJob ==
  \A hit \in hits : \E j \in JobSpecs :
    /\ hit.job_id = j.job_id /\ hit.seed = j.job_key
    /\ hit.hash < j.share_target /\ (hit.is_block <=> hit.hash < j.target)

=============================================================================
