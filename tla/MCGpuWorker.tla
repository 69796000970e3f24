----------------------------- MODULE MCGpuWorker -----------------------------
EXTENDS GpuWorker, TLC

CONSTANTS j1, j2, k1, k2, k3, d1, d2, s1, s2, s3

(* j2 announces j1's header again (LuckyPool's suffix); j1 also gets a new *)
(* bound, and once another header.  Two of the keys ask for the same grid. *)
MCJobs ==
  {[job_id |-> j1, key |-> k1, bound |-> 2], [job_id |-> j1, key |-> k1, bound |-> 1],
   [job_id |-> j2, key |-> k1, bound |-> 1], [job_id |-> j2, key |-> k2, bound |-> 2],
   [job_id |-> j1, key |-> k3, bound |-> 2]}

MCDims == [k \in Keys |-> IF k = k3 THEN d2 ELSE d1]

MCSymmetry == Permutations(Seeds)
=============================================================================
