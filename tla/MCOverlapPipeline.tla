-------------------------- MODULE MCOverlapPipeline --------------------------
EXTENDS OverlapPipeline, TLC

CONSTANTS k1, k2
=============================================================================
