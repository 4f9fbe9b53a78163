----------------------------- MODULE MCSGPipeline -----------------------------
(* Instances of the scatter-gather pipeline for TLC. *)
EXTENDS SGPipeline, TLC

CONSTANTS b1, b2

MCBlocks   == {b1, b2}
MCOneBlock == {b1}
MCCounts   == {1, 3}

Shape(p, n, l) == [path |-> p, blocks |-> n, launches |-> l]

\* Every way of completion, two launches on the usual one and with one block.
MCSessions   == {Shape("fine", 2, 2), Shape("no_stream", 2, 1),
                 Shape("coarse", 2, 1), Shape("coarse", 1, 2),
                 Shape("no_ce", 2, 1)}
MCOneSession == {Shape("fine", 1, 1)}

\* The lists of an instance fit the pool.
ASSUME MCListsFit == ListsFitPool

MCSymmetry == Permutations(MCBlocks)
=============================================================================
