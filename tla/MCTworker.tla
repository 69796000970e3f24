----------------------------- MODULE MCTworker -----------------------------
EXTENDS Tworker, TLC

CONSTANTS j1, j2, p1, p2, t1, t2

MCSuffix   == [j \in JobIds |-> IF j = j1 THEN 2 ELSE NoSuffix]
MCNoSuffix == [j \in JobIds |-> NoSuffix]
=============================================================================
