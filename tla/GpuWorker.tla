------------------------------ MODULE GpuWorker ------------------------------
(***************************************************************************)
(* The search thread of the gpu build: spawn_grind in src/bin/tworker.rs   *)
(* with the resident context of cuda/pearl_resident_lib.cu behind it.      *)
(*                                                                         *)
(* Host and device each remember, independently, what belongs to the job:  *)
(* the thread caches job key and bound by job id and the seed B was made   *)
(* from; the context keeps the key of the last call, the resident matrix B *)
(* (ARIA_FIXB) and a prologue prefetched for the next attempt.  A hit can  *)
(* be packaged only if both remember the same.                             *)
(*                                                                         *)
(* A grind2 call is one step here: OverlapPipeline looks inside.  Sleeps   *)
(* (duty cycle, bursts, pauses) only delay the thread.                     *)
(***************************************************************************)
EXTENDS Naturals, FiniteSets

CONSTANTS
  JobIds, Keys, NoKey,
  Jobs,      \* what build_official_job makes: records of job_id, key and bound
  Dims,      \* job key -> m, n and k, which follow from the config in the key
             \* (ARIA_BATCH_* do not change while a generation runs)
  NoDims,
  Seeds, NoSeed,
  MaxBound,  \* bounds are 1..MaxBound, the greater the easier
  Fixb,      \* ARIA_FIXB
  Overlap    \* ARIA_TMA_MS, a card with TMA and no ARIA_OVERLAP=0; not the wgmma
             \* kernel, whose branch returns before anything is prefetched

Bounds == 1..MaxBound

ASSUME ConstantsAssumption ==
  /\ NoKey \notin Keys /\ NoSeed \notin Seeds /\ Seeds # {}
  /\ MaxBound \in Nat \ {0}
  /\ Jobs # {} /\ Jobs \subseteq [job_id : JobIds, key : Keys, bound : Bounds]
  /\ Fixb \in BOOLEAN /\ Overlap \in BOOLEAN

ASSUME DimsAssumption == \A k \in Keys : Dims[k] # NoDims

VARIABLES
  job_slot,    \* what the main loop wants searched
  stop,
  pc,          \* "top", "ready" (to grind), "mined" (an attempt is over) or "gone"
  job,         \* the clone of job_slot this attempt works on
  cached,      \* cache is Some
  cache,       \* job_id, key and bound it was filled with
  b_seed_job,  \* the seed the thread believes B was made from
  next_seed,
  setup,       \* setup_seed and b_seed of this attempt
  hit          \* what the device found: the matrices it multiplied, the level
               \* it reached; or none

VARIABLES
  dims,        \* of gpu_ctx, or NoDims
  last_jk,     \* key of the last call, or NoKey (jk_set = false)
  bfilled,     \* B is resident
  b_mat,       \* the seed B was made from and the key it was committed under
  pend         \* the prologue prefetched: seed and key, or NoPend

hostVars == <<job, cached, cache, b_seed_job, next_seed, setup>>
devVars  == <<dims, last_jk, bfilled, b_mat, pend>>
vars     == <<job_slot, stop, pc, hostVars, hit, devVars>>

Matrices == [seed : Seeds, key : Keys]
NoMatrix == [seed |-> NoSeed, key |-> NoKey]
NoPend   == NoMatrix
Hits     == [a : Matrices, b : Matrices, level : Bounds]
NoHit    == [a |-> NoMatrix, b |-> NoMatrix, level |-> MaxBound]

Init ==
  /\ job_slot \in Jobs /\ job = job_slot
  /\ stop = FALSE /\ pc = "top"
  /\ cached = FALSE /\ cache = job_slot
  /\ b_seed_job = NoSeed /\ next_seed \in Seeds
  /\ setup = [a |-> next_seed, b |-> next_seed] /\ hit = NoHit
  /\ dims = NoDims /\ last_jk = NoKey /\ bfilled = FALSE /\ b_mat = NoMatrix /\ pend = NoPend

-----------------------------------------------------------------------------
(* The main loop, as this thread sees it. *)
Publish ==
  /\ job_slot' \in Jobs
  /\ UNCHANGED <<stop, pc, hostVars, hit, devVars>>

Retire ==
  /\ ~stop /\ stop' = TRUE
  /\ UNCHANGED <<job_slot, pc, hostVars, hit, devVars>>

-----------------------------------------------------------------------------
(* The top of the loop: take the job, and refresh the cache if its id is   *)
(* not the one cached.  A context of other dimensions is a new context.    *)

KeyChanged == ~cached \/ cache.key # job_slot.key

(* Mutated form: B's seed is forgotten with every new job id. *)
SeedOfB_PerJobId == NoSeed

(* B's seed is forgotten only if the job key changes. *)
SeedOfB == IF KeyChanged THEN NoSeed ELSE b_seed_job

NeedsRefresh == ~cached \/ cache.job_id # job_slot.job_id

(* Mutated form: the context is made once. *)
OtherGrid_Once == dims = NoDims

OtherGrid == dims # Dims[job_slot.key]

NewContext ==
  /\ dims' = Dims[job_slot.key]
  /\ last_jk' = NoKey /\ bfilled' = FALSE /\ b_mat' = NoMatrix /\ pend' = NoPend

TakeJob ==
  /\ pc = "top" /\ ~stop
  /\ job' = job_slot /\ cached' = TRUE
  /\ IF NeedsRefresh
     THEN /\ cache' = job_slot
          /\ b_seed_job' = SeedOfB
          /\ IF OtherGrid THEN NewContext ELSE UNCHANGED devVars
     ELSE UNCHANGED <<cache, b_seed_job, devVars>>
  /\ pc' = "ready"
  /\ UNCHANGED <<job_slot, stop, next_seed, setup, hit>>

-----------------------------------------------------------------------------
(* grind2: resident_run2, or resident_run without the overlap.             *)

Rekey(key) == last_jk # key

(* Mutated form: a new key leaves the prefetched prologue valid. *)
Hot_AnyKey(seed, key) == Overlap /\ Fixb /\ pend.seed = seed

(* The prologue of this very setup has been prefetched. *)
Hot(seed, key) == Overlap /\ Fixb /\ ~Rekey(key) /\ bfilled /\ pend.seed = seed

MatrixA(seed, key) == IF Hot(seed, key) THEN pend ELSE [seed |-> seed, key |-> key]

(* fix-B: B stays as long as the key does. *)
KeepsB(key) == Fixb /\ bfilled /\ ~Rekey(key)

MatrixB(seed, key) == IF KeepsB(key) THEN b_mat ELSE [seed |-> seed, key |-> key]

(* The context after a call, whether or not a tile beat the bound, and     *)
(* also if the launch failed (-1).                                         *)
Grind2(seed, next, key) ==
  /\ last_jk' = key
  /\ bfilled' = Fixb
  /\ b_mat' = MatrixB(seed, key)
  /\ pend' = IF Overlap /\ Fixb THEN [seed |-> next, key |-> key] ELSE NoPend
  /\ UNCHANGED dims

(* Mutated form: the first seed of the job is not inserted. *)
BSeed_NotInserted == IF Fixb THEN b_seed_job ELSE next_seed

(* b_seed: fixed at the first attempt of the job. *)
BSeed == IF ~Fixb THEN next_seed ELSE IF b_seed_job = NoSeed THEN next_seed ELSE b_seed_job

(* One attempt: the hits are those of the pair of matrices multiplied,     *)
(* against the cached bound.                                               *)
Grind ==
  /\ pc = "ready"
  /\ setup' = [a |-> next_seed, b |-> BSeed]
  /\ b_seed_job' = IF Fixb THEN BSeed ELSE b_seed_job
  /\ \E next \in Seeds : next_seed' = next /\ Grind2(setup'.a, next, cache.key)
  /\ \/ hit' = NoHit
     \/ \E level \in 1..cache.bound :
          hit' = [a |-> MatrixA(setup'.a, cache.key),
                  b |-> MatrixB(setup'.a, cache.key), level |-> level]
  /\ pc' = "mined"
  /\ UNCHANGED <<job_slot, stop, job, cached, cache>>

(* The proof is rebuilt from the seeds and the cached key; the local       *)
(* verifier recomputes the jackpot from the proof and the job's header.    *)
(* With other matrices or another header it is a random number.            *)
Reproduces == /\ hit.a = [seed |-> setup.a, key |-> cache.key]
              /\ hit.b = [seed |-> setup.b, key |-> cache.key]

Verifies == Reproduces /\ cache.key = job.key /\ hit.level <= job.bound

Miss ==
  /\ pc = "mined" /\ hit = NoHit /\ pc' = "top"
  /\ UNCHANGED <<job_slot, stop, hostVars, hit, devVars>>

Submit ==
  /\ pc = "mined" /\ hit # NoHit /\ Verifies
  /\ pc' = "top" /\ hit' = NoHit
  /\ UNCHANGED <<job_slot, stop, hostVars, devVars>>

(* "invalid checkpoint filtered by local verifier" *)
Filter ==
  /\ pc = "mined" /\ hit # NoHit /\ ~Verifies
  /\ pc' = "top" /\ hit' = NoHit
  /\ UNCHANGED <<job_slot, stop, hostVars, devVars>>

Leave ==
  /\ pc = "top" /\ stop /\ pc' = "gone"
  /\ UNCHANGED <<job_slot, stop, hostVars, hit, devVars>>

Worker == TakeJob \/ Grind \/ Miss \/ Submit \/ Filter \/ Leave

Next == Publish \/ Retire \/ Worker

Spec == Init /\ [][Next]_vars

-----------------------------------------------------------------------------
TypeOK ==
  /\ job_slot \in Jobs /\ job \in Jobs /\ cache \in Jobs
  /\ stop \in BOOLEAN /\ cached \in BOOLEAN
  /\ pc \in {"top", "ready", "mined", "gone"}
  /\ b_seed_job \in Seeds \cup {NoSeed} /\ next_seed \in Seeds
  /\ setup \in [a : Seeds, b : Seeds]
  /\ hit \in Hits \cup {NoHit}
  /\ dims \in {Dims[k] : k \in Keys} \cup {NoDims}
  /\ last_jk \in Keys \cup {NoKey} /\ bfilled \in BOOLEAN
  /\ b_mat \in Matrices \cup {NoMatrix} /\ pend \in Matrices \cup {NoPend}

(* tworker.rs and pearl_resident_lib.cu forget B at the same moments: as   *)
(* long as the context would keep its B for the cached key, the thread's   *)
(* seed is the one B was made from; otherwise the thread has none and      *)
(* takes the seed B will be made from.                                     *)
BInSync ==
  (Fixb /\ pc = "ready") =>
    IF KeepsB(cache.key) THEN b_mat = [seed |-> b_seed_job, key |-> cache.key]
                         ELSE b_seed_job = NoSeed

(* A prefetched prologue is one for the key of the context, whose B it     *)
(* was stirred with.                                                       *)
PrefetchIsCurrent == pend # NoPend => bfilled /\ pend.key = last_jk /\ b_mat.key = last_jk

(* The context fits the job that is cached. *)
ContextFits == cached => dims = Dims[cache.key]

(* No hit is lost to a disagreement between thread and device: what the    *)
(* verifier filters out was found for a job id announced again with other  *)
(* contents.                                                               *)
Filtered == pc = "mined" /\ hit # NoHit /\ ~Verifies

NoHitWasted == Filtered => cache.key # job.key \/ cache.bound # job.bound

(* tworker.rs on the bound of the live job: "so vardiff applies            *)
(* immediately": whatever is searched, it is searched for the bound of the *)
(* job that was taken, if that is the same job with another bound.         *)
VardiffApplies ==
  (pc \in {"ready", "mined"} /\ cache.key = job.key) => cache.bound = job.bound

=============================================================================
