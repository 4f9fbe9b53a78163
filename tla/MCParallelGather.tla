--------------------------- MODULE MCParallelGather ---------------------------
(* Instances of the gather workers for TLC. *)
EXTENDS ParallelGather, TLC

CONSTANTS poller, direct

MCThreads  == {poller, direct}
MCOneThread == {poller}
MCSymmetry == Permutations(MCThreads)

MCCounts == {1, 2, 5}
MCTwo    == {2}
=============================================================================
