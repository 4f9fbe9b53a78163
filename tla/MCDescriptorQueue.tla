-------------------------- MODULE MCDescriptorQueue --------------------------
(* Instances of the descriptor ring for TLC. *)
EXTENDS DescriptorQueue

CONSTANTS b1, b2

MCBlocks   == {b1, b2}
=============================================================================
