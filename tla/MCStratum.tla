----------------------------- MODULE MCStratum -----------------------------
EXTENDS Stratum, TLC

CONSTANTS j1, j2

MCEvents == {[kind |-> "NewJob", job_id |-> j1], [kind |-> "NewJob", job_id |-> j2]}
MCShares == {[job_id |-> j1], [job_id |-> j2]}
MCOneShare == {[job_id |-> j1]}
MCOneEvent == {[kind |-> "NewJob", job_id |-> j1]}
Symmetry == Permutations({j1, j2})
=============================================================================
