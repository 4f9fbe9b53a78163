--------------------------- MODULE MCTiledTransfer ---------------------------
(* Instances of the tiled transfer pipeline for TLC. *)
EXTENDS TiledTransfer

CONSTANTS b1, b2

MCBlocks == {b1, b2}

Session(p, t, k, c, n) == [path |-> p, tiles |-> t, chunks |-> k, tokens |-> c,
                           launches |-> n]

\* Every path with chunks of one and of two tokens; two launches, and two
\* chunks of a tile, on the paths a session normally has; chunks of three
\* tokens, which a full batch cuts in two.
MCSessions == {Session("device", 2, 2, 1, 1), Session("device", 2, 1, 2, 1),
               Session("device", 1, 2, 1, 2), Session("host", 2, 1, 2, 1),
               Session("deferred", 2, 2, 1, 1), Session("deferred", 2, 1, 2, 1),
               Session("no_ce", 2, 1, 2, 1), Session("no_ce", 1, 2, 1, 2),
               Session("device", 2, 1, 1, 2), Session("deferred", 2, 1, 1, 2),
               Session("device", 1, 1, 3, 1), Session("no_ce", 1, 1, 3, 1),
               Session("device", 1, 1, 2, 2)}

MCSplitSession == {Session("device", 1, 1, 2, 1)}
=============================================================================
