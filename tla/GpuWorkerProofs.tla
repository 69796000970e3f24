-------------------------- MODULE GpuWorkerProofs --------------------------
(***************************************************************************)
(* Host and device of GpuWorker agree, for every set of jobs, keys, seeds  *)
(* and grids, with or without fix-B and overlap.                           *)
(*                                                                         *)
(* BInSync speaks of the moment before a call only.  What carries over     *)
(* from call to call is SyncInv: a call leaves the context on the cached   *)
(* key (so a key that changes afterwards is one the context has not seen), *)
(* B and its seed agree at any time, and a prefetched prologue is for the  *)
(* key of the context.  HitInv is what follows for the attempt just made.  *)
(***************************************************************************)
EXTENDS GpuWorker, TLAPS

(* Before the first job the context is empty.                              *)
FreshInv ==
  /\ ~cached => last_jk = NoKey /\ ~bfilled /\ b_seed_job = NoSeed /\ pc \in {"top", "gone"}
  /\ last_jk = NoKey => ~bfilled
  /\ bfilled => Fixb /\ b_mat \in Matrices

(* Between two calls the context is on the cached key.                     *)
KeyInv == (cached /\ pc # "ready") => last_jk = cache.key

(* B and the seed the thread has for it.                                   *)
SeedInv ==
  Fixb => IF bfilled /\ last_jk = cache.key
          THEN b_mat = [seed |-> b_seed_job, key |-> cache.key]
          ELSE b_seed_job = NoSeed

SyncInv == FreshInv /\ KeyInv /\ SeedInv /\ ContextFits /\ PrefetchIsCurrent

(* A hit is one of the matrices the proof will be built from.              *)
HitInv == (pc = "mined" /\ hit # NoHit) => Reproduces /\ hit.level <= cache.bound

IndInv == TypeOK /\ SyncInv /\ HitInv

-----------------------------------------------------------------------------
(* What build_official_job makes has an id, a key and a bound.             *)
LEMMA JobFields ==
  ASSUME NEW j \in Jobs
  PROVE  j.job_id \in JobIds /\ j.key \in Keys /\ j.bound \in 1..MaxBound
BY ConstantsAssumption DEF Bounds

LEMMA InitInv == Init => IndInv
<1> SUFFICES ASSUME Init PROVE IndInv
  OBVIOUS
<1> USE DEF Init
<1>1. TypeOK
  BY ConstantsAssumption DEF TypeOK
<1>2. SyncInv
  <2>1. FreshInv /\ KeyInv /\ ContextFits
    BY DEF FreshInv, KeyInv, ContextFits
  <2>2. SeedInv
    BY DEF SeedInv
  <2>3. PrefetchIsCurrent
    BY DEF PrefetchIsCurrent
  <2> QED BY <2>1, <2>2, <2>3 DEF SyncInv
<1>3. HitInv
  BY DEF HitInv
<1> QED BY <1>1, <1>2, <1>3 DEF IndInv

-----------------------------------------------------------------------------
(* One lemma per action that touches what the invariant speaks of.         *)

(* The refresh forgets B exactly if the context will.                      *)
LEMMA TakeJobInv == ASSUME IndInv, TakeJob PROVE IndInv'
<1> USE DEF IndInv
<1> DEFINE key == job_slot.key
<1>0. /\ pc = "top" /\ pc' = "ready" /\ cached' = TRUE /\ job' = job_slot
      /\ UNCHANGED <<job_slot, stop, next_seed, setup, hit>>
  BY DEF TakeJob
<1>1. job_slot \in Jobs /\ key \in Keys
  BY JobFields DEF TypeOK
<1>2. CASE ~NeedsRefresh
  <2>1. UNCHANGED <<cache, b_seed_job, devVars>> /\ cached
    BY <1>2 DEF TakeJob, NeedsRefresh
  <2>2. TypeOK'
    BY <1>0, <1>1, <2>1 DEF TypeOK, devVars
  <2>3. SyncInv'
    BY <1>0, <2>1 DEF SyncInv, FreshInv, KeyInv, SeedInv, ContextFits, PrefetchIsCurrent, devVars
  <2> QED BY <2>2, <2>3, <1>0 DEF HitInv
<1>3. CASE NeedsRefresh /\ OtherGrid
  <2>1. cache' = job_slot /\ b_seed_job' = SeedOfB /\ NewContext
    BY <1>3 DEF TakeJob
  <2>2. KeyChanged
    BY <1>3 DEF OtherGrid, KeyChanged, SyncInv, ContextFits
  <2>3. b_seed_job' = NoSeed
    BY <2>1, <2>2 DEF SeedOfB
  <2>4. TypeOK'
    BY <1>0, <1>1, <2>1, <2>3 DEF TypeOK, NewContext
  <2>5. SyncInv'
    BY <1>0, <1>1, <2>1, <2>3, ConstantsAssumption
       DEF SyncInv, FreshInv, KeyInv, SeedInv, ContextFits, PrefetchIsCurrent, NewContext
  <2> QED BY <2>4, <2>5, <1>0 DEF HitInv
<1>4. CASE NeedsRefresh /\ ~OtherGrid
  <2>1. cache' = job_slot /\ b_seed_job' = SeedOfB /\ UNCHANGED devVars
    BY <1>4 DEF TakeJob
  <2>2. TypeOK'
    BY <1>0, <1>1, <2>1 DEF TypeOK, devVars, SeedOfB
  <2>3. ContextFits' /\ FreshInv' /\ KeyInv' /\ PrefetchIsCurrent'
    BY <1>0, <1>4, <2>1
       DEF SyncInv, FreshInv, KeyInv, ContextFits, PrefetchIsCurrent, OtherGrid, devVars
  <2>4. SeedInv'
    <3>1. CASE KeyChanged
      <4>1. b_seed_job' = NoSeed
        BY <2>1, <3>1 DEF SeedOfB
      <4>2. ~(bfilled /\ last_jk = key)
        BY <1>0, <3>1 DEF KeyChanged, SyncInv, FreshInv, KeyInv
      <4> QED BY <2>1, <4>1, <4>2 DEF SeedInv, devVars
    <3>2. CASE ~KeyChanged
      <4>1. b_seed_job' = b_seed_job /\ cache'.key = cache.key
        BY <2>1, <3>2 DEF SeedOfB, KeyChanged
      <4> QED BY <2>1, <4>1 DEF SyncInv, SeedInv, devVars
    <3> QED BY <3>1, <3>2
  <2> QED BY <2>2, <2>3, <2>4, <1>0 DEF HitInv, SyncInv
<1> QED BY <1>2, <1>3, <1>4

(* A prologue that is used is the one of this setup.                       *)
LEMMA HotIsCurrent ==
  ASSUME IndInv, NEW seed \in Seeds, NEW key \in Keys
  PROVE  MatrixA(seed, key) = [seed |-> seed, key |-> key]
<1>1. CASE Hot(seed, key)
  <2>1. pend.seed = seed /\ last_jk = key
    BY <1>1 DEF Hot, Rekey
  <2>2. pend # NoPend
    BY <2>1, ConstantsAssumption DEF NoPend, NoMatrix
  <2>3. pend.key = key
    BY <2>1, <2>2 DEF IndInv, SyncInv, PrefetchIsCurrent
  <2>4. pend \in Matrices
    BY <2>2 DEF IndInv, TypeOK
  <2> QED BY <1>1, <2>1, <2>3, <2>4 DEF MatrixA, Matrices
<1>2. CASE ~Hot(seed, key)
  BY <1>2 DEF MatrixA
<1> QED BY <1>1, <1>2

(* The seed the thread submits as B's is the one of the matrix multiplied. *)
LEMMA SeedIsOfB ==
  ASSUME IndInv, pc = "ready"
  PROVE  /\ BSeed \in Seeds
         /\ MatrixB(next_seed, cache.key) = [seed |-> BSeed, key |-> cache.key]
<1>0. next_seed \in Seeds /\ b_seed_job \in Seeds \cup {NoSeed}
  BY DEF IndInv, TypeOK
<1>1. CASE KeepsB(cache.key)
  <2>1. Fixb /\ b_mat = [seed |-> b_seed_job, key |-> cache.key] /\ b_mat \in Matrices
    BY <1>1 DEF KeepsB, Rekey, IndInv, SyncInv, SeedInv, FreshInv
  <2>2. b_seed_job \in Seeds
    BY <2>1 DEF Matrices
  <2>3. BSeed = b_seed_job
    BY <2>1, <2>2, ConstantsAssumption DEF BSeed
  <2> QED BY <1>1, <2>1, <2>2, <2>3 DEF MatrixB
<1>2. CASE ~KeepsB(cache.key)
  <2>1. BSeed = next_seed
    BY <1>2 DEF BSeed, KeepsB, Rekey, IndInv, SyncInv, SeedInv
  <2> QED BY <1>0, <1>2, <2>1 DEF MatrixB
<1> QED BY <1>1, <1>2

LEMMA GrindInv == ASSUME IndInv, Grind PROVE IndInv'
<1> DEFINE key == cache.key
<1>0. /\ pc = "ready" /\ pc' = "mined"
      /\ setup' = [a |-> next_seed, b |-> BSeed]
      /\ b_seed_job' = IF Fixb THEN BSeed ELSE b_seed_job
      /\ UNCHANGED <<job_slot, stop, job, cached, cache>>
  BY DEF Grind
<1>1. PICK next \in Seeds : next_seed' = next /\ Grind2(setup'.a, next, key)
  BY DEF Grind
<1>2. \/ hit' = NoHit
      \/ \E level \in 1..cache.bound :
           hit' = [a |-> MatrixA(setup'.a, key), b |-> MatrixB(setup'.a, key), level |-> level]
  BY DEF Grind
<1>3. cache \in Jobs /\ key \in Keys /\ cache.bound \in 1..MaxBound /\ next_seed \in Seeds
  BY JobFields DEF IndInv, TypeOK
<1>4. setup'.a = next_seed /\ setup'.b = BSeed
  BY <1>0
<1>5. BSeed \in Seeds /\ MatrixB(next_seed, key) = [seed |-> BSeed, key |-> key]
  BY <1>0, SeedIsOfB
<1>6. MatrixA(next_seed, key) = [seed |-> next_seed, key |-> key]
  BY <1>3, HotIsCurrent
<1>7. cached
  BY <1>0 DEF IndInv, SyncInv, FreshInv
<1>8. /\ last_jk' = key /\ bfilled' = Fixb
      /\ b_mat' = [seed |-> BSeed, key |-> key]
      /\ pend' = IF Overlap /\ Fixb THEN [seed |-> next, key |-> key] ELSE NoPend
      /\ dims' = dims
  BY <1>1, <1>4, <1>5 DEF Grind2
<1>9. /\ b_mat' \in Matrices
      /\ [seed |-> next_seed, key |-> key] \in Matrices
      /\ [seed |-> next, key |-> key] \in Matrices
  BY <1>1, <1>3, <1>5, <1>8 DEF Matrices
<1>10. \/ hit' = NoHit
       \/ \E level \in 1..cache.bound :
            hit' = [a |-> [seed |-> next_seed, key |-> key],
                    b |-> [seed |-> BSeed, key |-> key], level |-> level]
  BY <1>2, <1>4, <1>5, <1>6
<1>11. TypeOK'
  <2>1. hit' \in Hits \cup {NoHit}
    <3>1. ASSUME NEW level \in 1..cache.bound
          PROVE  level \in 1..MaxBound
      BY <1>3, ConstantsAssumption
    <3> QED BY <1>8, <1>9, <1>10, <3>1 DEF Hits, Bounds
  <2>2. /\ last_jk' \in Keys \cup {NoKey} /\ bfilled' \in BOOLEAN
        /\ b_mat' \in Matrices \cup {NoMatrix} /\ pend' \in Matrices \cup {NoPend}
    BY <1>3, <1>8, <1>9, ConstantsAssumption
  <2>3. /\ setup' \in [a : Seeds, b : Seeds] /\ next_seed' \in Seeds
        /\ b_seed_job' \in Seeds \cup {NoSeed}
    BY <1>0, <1>1, <1>3, <1>5 DEF IndInv, TypeOK
  <2> QED BY <1>0, <1>8, <2>1, <2>2, <2>3 DEF IndInv, TypeOK
<1>12. SyncInv'
  <2>1. FreshInv'
    BY <1>0, <1>3, <1>7, <1>8, <1>9, ConstantsAssumption DEF FreshInv
  <2>2. KeyInv' /\ ContextFits'
    BY <1>0, <1>8 DEF KeyInv, ContextFits, IndInv, SyncInv
  <2>3. SeedInv'
    BY <1>0, <1>8 DEF SeedInv
  <2>4. PrefetchIsCurrent'
    BY <1>8 DEF PrefetchIsCurrent
  <2> QED BY <2>1, <2>2, <2>3, <2>4 DEF SyncInv
<1>13. HitInv'
  <2> SUFFICES ASSUME hit' # NoHit PROVE Reproduces' /\ hit'.level <= cache'.bound
    BY DEF HitInv
  <2>1. PICK level \in 1..cache.bound :
          hit' = [a |-> [seed |-> next_seed, key |-> key],
                  b |-> [seed |-> BSeed, key |-> key], level |-> level]
    BY <1>10
  <2>2. Reproduces'
    BY <1>0, <1>4, <2>1 DEF Reproduces
  <2>3. hit'.level <= cache'.bound
    BY <1>0, <1>3, <2>1, ConstantsAssumption
  <2> QED BY <2>2, <2>3
<1> QED BY <1>11, <1>12, <1>13 DEF IndInv

(* The other actions leave host and device alone.                          *)
LEMMA RestInv ==
  ASSUME IndInv, Publish \/ Retire \/ Miss \/ Submit \/ Filter \/ Leave \/ UNCHANGED vars
  PROVE  IndInv'
<1>1. UNCHANGED <<hostVars, devVars>>
  BY DEF Publish, Retire, Miss, Submit, Filter, Leave, vars
<1>0. (hit' = hit /\ pc' = pc) \/ (pc' \in {"top", "gone"} /\ pc # "ready")
  <2>1. CASE Publish \/ Retire \/ UNCHANGED vars
    BY <2>1 DEF Publish, Retire, vars
  <2>2. CASE Miss \/ Submit \/ Filter \/ Leave
    BY <2>2 DEF Miss, Submit, Filter, Leave
  <2> QED BY <2>1, <2>2
<1>2. TypeOK'
  <2>1. /\ job_slot' \in Jobs /\ stop' \in BOOLEAN
        /\ pc' \in {"top", "ready", "mined", "gone"} /\ hit' \in Hits \cup {NoHit}
    BY DEF IndInv, TypeOK, Publish, Retire, Miss, Submit, Filter, Leave, vars
  <2> QED BY <1>1, <2>1 DEF IndInv, TypeOK, hostVars, devVars
<1>3. SyncInv'
  <2>1. FreshInv' /\ KeyInv'
    BY <1>0, <1>1 DEF IndInv, SyncInv, FreshInv, KeyInv, hostVars, devVars
  <2>2. SeedInv' /\ ContextFits' /\ PrefetchIsCurrent'
    BY <1>1 DEF IndInv, SyncInv, SeedInv, ContextFits, PrefetchIsCurrent, hostVars, devVars
  <2> QED BY <2>1, <2>2 DEF SyncInv
<1>4. HitInv'
  BY <1>0, <1>1 DEF IndInv, HitInv, Reproduces, hostVars
<1> QED BY <1>2, <1>3, <1>4 DEF IndInv

LEMMA NextInv == IndInv /\ [Next]_vars => IndInv'
<1> SUFFICES ASSUME IndInv, [Next]_vars PROVE IndInv'
  OBVIOUS
<1>1. CASE TakeJob
  BY <1>1, TakeJobInv
<1>2. CASE Grind
  BY <1>2, GrindInv
<1>3. CASE Publish \/ Retire \/ Miss \/ Submit \/ Filter \/ Leave \/ UNCHANGED vars
  BY <1>3, RestInv
<1> QED BY <1>1, <1>2, <1>3 DEF Next, Worker

THEOREM GpuInductive == Spec => []IndInv
BY InitInv, NextInv, PTL DEF Spec

-----------------------------------------------------------------------------
(* Thread and context keep their types whatever jobs the pool sends.       *)
THEOREM GpuTypeCorrect == Spec => []TypeOK
<1>1. IndInv => TypeOK
  BY DEF IndInv
<1> QED BY <1>1, GpuInductive, PTL

(* tworker.rs and pearl_resident_lib.cu forget the resident B at the same  *)
(* moments.                                                                *)
THEOREM GpuBInSync == Spec => []BInSync
<1>1. IndInv => BInSync
  BY DEF IndInv, SyncInv, SeedInv, BInSync, KeepsB, Rekey
<1> QED BY <1>1, GpuInductive, PTL

(* The context's buffers have the dimensions of the cached job.            *)
THEOREM GpuContextFits == Spec => []ContextFits
<1>1. IndInv => ContextFits
  BY DEF IndInv, SyncInv
<1> QED BY <1>1, GpuInductive, PTL

(* A prologue prefetched under an old key, or with another B, is gone.     *)
THEOREM GpuPrefetchIsCurrent == Spec => []PrefetchIsCurrent
<1>1. IndInv => PrefetchIsCurrent
  BY DEF IndInv, SyncInv
<1> QED BY <1>1, GpuInductive, PTL

(* The local verifier filters out a hit of the device only if the job      *)
(* taken is not the one that was cached under its id.                      *)
THEOREM GpuNoHitWasted == Spec => []NoHitWasted
<1>1. ASSUME IndInv PROVE NoHitWasted
  <2> SUFFICES ASSUME Filtered, cache.key = job.key, cache.bound = job.bound PROVE FALSE
    BY DEF NoHitWasted
  <2>1. Reproduces /\ hit.level <= job.bound
    BY <1>1 DEF IndInv, HitInv, Filtered
  <2> QED BY <2>1 DEF Filtered, Verifies
<1> QED BY <1>1, GpuInductive, PTL

=============================================================================
