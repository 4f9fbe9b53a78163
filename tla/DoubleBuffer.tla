----------------------------- MODULE DoubleBuffer -----------------------------
(***************************************************************************)
(* The double-buffered tile loop of one thread block (warp_spec.cuh,       *)
(* _warp_spec_tile_loop_double_buffer).  The transfer warp alternates      *)
(* between two slots of shared memory; 2 * K compute warps, one per slot   *)
(* and chunk, run beside it without any barrier.  Every read or write of   *)
(* the shared state that another warp can observe is a step.               *)
(*                                                                         *)
(* Other blocks take tiles from the same scheduler (OtherBlock); the       *)
(* descriptor ring and the DMA of a chunk are the wait_chunk_done step.    *)
(***************************************************************************)
EXTENDS Integers

CONSTANTS Tiles,   \* total_tiles
          K        \* chunks_per_tile

ASSUME DoubleBufferAssumption == Tiles \in Nat /\ K \in Nat \ {0}

Slots  == {0, 1}
Chunks == 0..(K - 1)
NoTile == -1                  \* 0xFFFFFFFF
Exit   == K + 1               \* the sentinel in chunks_ready
TileIds == 0..(Tiles - 1)

VARIABLES
  next_tile,                             \* scheduler.next_tile
  tile_id, chunks_ready, compute_done,   \* _WarpSpecStateDB, per slot
  tiles_dispatched,
  pc, cur_tile, chunk,                   \* transfer warp: position, loop state
  warp, seen, local_tile_count,          \* compute warp [slot][chunk]: position,
                                         \* the tile it read, tiles it has done
  dispatched,                            \* history: tiles this block took
  landed, computed                       \* history: chunks copied / computed

transferVars == <<next_tile, tile_id, tiles_dispatched, pc, cur_tile, chunk,
                  dispatched, landed>>
warpVars     == <<warp, seen, local_tile_count, computed>>
vars == <<transferVars, warpVars, chunks_ready, compute_done>>

Init == /\ next_tile = 0
        /\ tile_id = [s \in Slots |-> NoTile]
        /\ chunks_ready = [s \in Slots |-> 0]
        /\ compute_done = [s \in Slots |-> 0]
        /\ tiles_dispatched = 0
        /\ pc = "acquire" /\ cur_tile = 0 /\ chunk = 0
        /\ warp = [s \in Slots |-> [k \in Chunks |-> "dispatch"]]
        /\ seen = [s \in Slots |-> [k \in Chunks |-> NoTile]]
        /\ local_tile_count = [s \in Slots |-> [k \in Chunks |-> 0]]
        /\ dispatched = {} /\ landed = {}
        /\ computed = [t \in TileIds |-> [k \in Chunks |-> 0]]

-----------------------------------------------------------------------------
(* The transfer warp *)

\* Another block takes a tile.
OtherBlock == /\ next_tile < Tiles
              /\ next_tile' = next_tile + 1
              /\ UNCHANGED <<tile_id, tiles_dispatched, pc, cur_tile, chunk,
                             dispatched, landed, warpVars, chunks_ready,
                             compute_done>>

\* Mutant: one tile id too many is accepted.
HasTileOneMore == next_tile <= Tiles

\* The tile id taken is below total_tiles.
HasTile == next_tile < Tiles

\* acquire_tile, by lane 0.
AcquireTile ==
  /\ pc = "acquire"
  /\ cur_tile' = next_tile
  /\ next_tile' = next_tile + 1
  /\ pc' = IF HasTile THEN "slot" ELSE "finish"
  /\ UNCHANGED <<tile_id, tiles_dispatched, chunk, dispatched, landed,
                 warpVars, chunks_ready, compute_done>>

\* Mutant: the slot is taken without waiting for its compute warps.
SlotAlwaysFree == TRUE

\* From the third tile on, the slot's compute warps must have finished.
SlotFree == tiles_dispatched >= 2 => compute_done[tiles_dispatched % 2] >= K

\* The tile goes into the slot: tile_id, chunks_ready = 0, compute_done = 0
\* (one step: no warp looks at them before tiles_dispatched moves) ...
FillSlot ==
  LET slot == tiles_dispatched % 2 IN
  /\ pc = "slot"
  /\ SlotFree
  /\ tile_id' = [tile_id EXCEPT ![slot] = cur_tile]
  /\ chunks_ready' = [chunks_ready EXCEPT ![slot] = 0]
  /\ compute_done' = [compute_done EXCEPT ![slot] = 0]
  /\ pc' = "dispatch"
  /\ UNCHANGED <<next_tile, tiles_dispatched, cur_tile, chunk, dispatched,
                 landed, warpVars>>

\* ... a fence, and tiles_dispatched++.
Dispatch ==
  /\ pc = "dispatch"
  /\ tiles_dispatched' = tiles_dispatched + 1
  /\ dispatched' = dispatched \cup {cur_tile}
  /\ chunk' = 0
  /\ pc' = "transfer"
  /\ UNCHANGED <<next_tile, tile_id, cur_tile, landed, warpVars, chunks_ready,
                 compute_done>>

\* Mutant: chunks_ready counts one chunk too many.
ReadyChunksOneAhead == chunk + 2

\* The value stored to chunks_ready when a chunk has arrived.
ReadyChunks == chunk + 1

\* submit_chunk, wait_chunk_done and chunks_ready = chunk + 1.
TransferChunk ==
  /\ pc = "transfer"
  /\ landed' = landed \cup {<<cur_tile, chunk>>}
  /\ chunks_ready' = [chunks_ready EXCEPT ![(tiles_dispatched - 1) % 2] =
                                            ReadyChunks]
  /\ chunk' = chunk + 1
  /\ pc' = IF chunk + 1 < K THEN "transfer" ELSE "acquire"
  /\ UNCHANGED <<next_tile, tile_id, tiles_dispatched, cur_tile, dispatched,
                 warpVars, compute_done>>

\* No tile is left: wait for the slot dispatched last, invalidate both slots ...
FinishTiles ==
  /\ pc = "finish"
  /\ tiles_dispatched > 0 => compute_done[(tiles_dispatched - 1) % 2] >= K
  /\ tile_id' = [s \in Slots |-> NoTile]
  /\ pc' = "sentinel"
  /\ UNCHANGED <<next_tile, tiles_dispatched, cur_tile, chunk, dispatched,
                 landed, warpVars, chunks_ready, compute_done>>

\* ... a fence, and the sentinel in both.
Terminate ==
  /\ pc = "sentinel"
  /\ chunks_ready' = [s \in Slots |-> Exit]
  /\ pc' = "exit"
  /\ UNCHANGED <<next_tile, tile_id, tiles_dispatched, cur_tile, chunk,
                 dispatched, landed, warpVars, compute_done>>

TransferWarp == \/ AcquireTile \/ FillSlot \/ Dispatch \/ TransferChunk
                \/ FinishTiles \/ Terminate

-----------------------------------------------------------------------------
(* The compute warp of slot s and chunk k *)

Target(s, k) == local_tile_count[s][k] * 2 + s

\* Mutants: the spin does not look for the sentinel; any dispatch wakes it.
AwakeOnlyByTile(s, k) == tiles_dispatched > Target(s, k)
AwakeByAnyTile(s, k)  == tiles_dispatched > s \/ chunks_ready[s] = Exit

\* What ends the spin: this slot's next tile, or termination.
Awake(s, k) == tiles_dispatched > Target(s, k) \/ chunks_ready[s] = Exit

WaitDispatch(s, k) ==
  /\ warp[s][k] = "dispatch"
  /\ Awake(s, k)
  /\ warp' = [warp EXCEPT ![s][k] = "check"]
  /\ UNCHANGED <<transferVars, seen, local_tile_count, computed, chunks_ready,
                 compute_done>>

\* if (chunks_ready[my_slot] == K + 1) break;
CheckSentinel(s, k) ==
  /\ warp[s][k] = "check"
  /\ warp' = [warp EXCEPT ![s][k] =
                IF chunks_ready[s] = Exit THEN "exit" ELSE "read"]
  /\ UNCHANGED <<transferVars, seen, local_tile_count, computed, chunks_ready,
                 compute_done>>

\* tile_id = tile_id[my_slot]; if (tile_id == 0xFFFFFFFF) break;
ReadTile(s, k) ==
  /\ warp[s][k] = "read"
  /\ seen' = [seen EXCEPT ![s][k] = tile_id[s]]
  /\ warp' = [warp EXCEPT ![s][k] =
                IF tile_id[s] = NoTile THEN "exit" ELSE "ready"]
  /\ UNCHANGED <<transferVars, local_tile_count, computed, chunks_ready,
                 compute_done>>

\* The chunk has arrived: compute_fn runs on it.
StartCompute(s, k) ==
  /\ warp[s][k] = "ready"
  /\ chunks_ready[s] > k
  /\ warp' = [warp EXCEPT ![s][k] = "compute"]
  /\ computed' = [computed EXCEPT ![seen[s][k]][k] = @ + 1]
  /\ UNCHANGED <<transferVars, seen, local_tile_count, chunks_ready,
                 compute_done>>

FinishCompute(s, k) ==
  /\ warp[s][k] = "compute"
  /\ compute_done' = [compute_done EXCEPT ![s] = @ + 1]
  /\ local_tile_count' = [local_tile_count EXCEPT ![s][k] = @ + 1]
  /\ warp' = [warp EXCEPT ![s][k] = "dispatch"]
  /\ UNCHANGED <<transferVars, seen, computed, chunks_ready>>

ComputeWarp(s, k) == \/ WaitDispatch(s, k) \/ CheckSentinel(s, k)
                     \/ ReadTile(s, k) \/ StartCompute(s, k)
                     \/ FinishCompute(s, k)

BlockDone == /\ pc = "exit"
             /\ \A s \in Slots, k \in Chunks : warp[s][k] = "exit"

Exited == BlockDone /\ UNCHANGED vars

Next == \/ OtherBlock \/ TransferWarp
        \/ \E s \in Slots, k \in Chunks : ComputeWarp(s, k)
        \/ Exited

\* The warps of a resident block keep running; other blocks owe it nothing.
Fairness == /\ WF_vars(TransferWarp)
            /\ \A s \in Slots, k \in Chunks : WF_vars(ComputeWarp(s, k))

Spec == Init /\ [][Next]_vars /\ Fairness

-----------------------------------------------------------------------------
(* Properties *)

TypeOK ==
  /\ next_tile \in Nat /\ tiles_dispatched \in 0..Tiles
  /\ tile_id \in [Slots -> TileIds \cup {NoTile}]
  /\ chunks_ready \in [Slots -> 0..(K + 1)]
  /\ compute_done \in [Slots -> 0..K]
  /\ pc \in {"acquire", "slot", "dispatch", "transfer", "finish", "sentinel",
             "exit"}
  /\ cur_tile \in Nat /\ chunk \in 0..K
  /\ warp \in [Slots -> [Chunks -> {"dispatch", "check", "read", "ready",
                                    "compute", "exit"}]]
  /\ seen \in [Slots -> [Chunks -> TileIds \cup {NoTile}]]
  /\ local_tile_count \in [Slots -> [Chunks -> Nat]]
  /\ dispatched \subseteq TileIds /\ landed \subseteq TileIds \X Chunks
  /\ computed \in [TileIds -> [Chunks -> Nat]]

\* "Data is guaranteed to be available" (warp_spec.cuh): a compute warp runs
\* only on a chunk that has arrived, although chunks_ready of its slot is
\* rewritten for other tiles and by the sentinel.
ChunkArrived ==
  \A s \in Slots, k \in Chunks :
    warp[s][k] = "compute" => <<seen[s][k], k>> \in landed

\* No chunk is computed twice, and none of a tile another block took: the
\* compute warps stay in step with the slot they belong to.
ComputedOnce ==
  \A t \in TileIds, k \in Chunks :
    /\ computed[t][k] <= 1
    /\ computed[t][k] = 1 => t \in dispatched

\* A tile's buffer slot is not given to another tile under a compute warp.
SlotStable ==
  \A s \in Slots, k \in Chunks :
    warp[s][k] \in {"ready", "compute"} => tile_id[s] \in {seen[s][k], NoTile}

\* "so no tiles are skipped" (warp_spec.cuh): when the block is done, every
\* chunk of every tile it took was computed.
NoTileSkipped ==
  BlockDone => \A t \in dispatched, k \in Chunks : computed[t][k] = 1

\* The block ends: neither the transfer warp nor a compute warp spins forever.
BlockEnds == <>BlockDone
=============================================================================
