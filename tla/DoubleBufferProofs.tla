-------------------------- MODULE DoubleBufferProofs --------------------------
(* Machine-checked proofs about the double-buffered tile loop, for every     *)
(* number of tiles and of chunks per tile.                                   *)
EXTENDS DoubleBuffer, FiniteSets, FiniteSetTheorems, TLAPS

-----------------------------------------------------------------------------
(* The inductive invariant *)

\* Tiles put into a slot so far, the one about to be dispatched included.
Filled == IF pc = "dispatch" THEN tiles_dispatched + 1 ELSE tiles_dispatched

\* The compute warp has done all tiles its slot was given.
CaughtUp(s, k) == Target(s, k) >= Filled

\* The warp works on a tile it has read.
Holding(s, k) == warp[s][k] \in {"ready", "compute"}

Ending == pc \in {"sentinel", "exit"}

\* The transfer warp: the tile it holds is newer than all dispatched ones.
TransferInv ==
  /\ tiles_dispatched <= next_tile
  /\ \A t \in dispatched : t < next_tile
  /\ pc \in {"slot", "dispatch"} =>
       /\ cur_tile \in TileIds \ dispatched
       /\ cur_tile < next_tile /\ tiles_dispatched <= cur_tile
  /\ pc = "transfer" => cur_tile \in dispatched /\ chunk < K /\ tiles_dispatched > 0

\* Each slot: its tile, and how many chunks of it have arrived.
SlotOK(s) ==
  /\ (Ending \/ Filled <= s) <=> tile_id[s] = NoTile
  /\ tile_id[s] # NoTile =>
       \/ tile_id[s] \in dispatched
       \/ pc = "dispatch" /\ s = tiles_dispatched % 2 /\ tile_id[s] = cur_tile
  /\ pc = "dispatch" /\ s = tiles_dispatched % 2 =>
       tile_id[s] = cur_tile /\ chunks_ready[s] = 0
  /\ pc = "transfer" /\ s = (tiles_dispatched - 1) % 2 =>
       tile_id[s] = cur_tile /\ chunks_ready[s] = chunk
  /\ pc = "exit" <=> chunks_ready[s] = Exit
  /\ tile_id[s] # NoTile =>
       \A j \in Chunks : j < chunks_ready[s] => <<tile_id[s], j>> \in landed
  /\ \/ pc = "exit" \/ Filled <= s
     \/ pc = "dispatch" /\ s = tiles_dispatched % 2
     \/ pc = "transfer" /\ s = (tiles_dispatched - 1) % 2
     \/ chunks_ready[s] = K

SlotInv == \A s \in Slots : SlotOK(s)

\* The two slots hold different tiles.
SlotsDiffer == tile_id[0] # NoTile => tile_id[0] # tile_id[1]

\* compute_done counts the slot's warps that are through with its tile.
CountInv ==
  \A s \in Slots :
    compute_done[s] = IF Filled <= s THEN 0
                      ELSE Cardinality({k \in Chunks : CaughtUp(s, k)})

\* The compute warps: in step with their slot, awake only for a dispatched
\* tile or the sentinel; the tile read is still the slot's, and nobody has
\* computed this chunk of it.
WarpOK(s, k) ==
  /\ Target(s, k) \in (Filled - 2)..(Filled + 1)
  /\ warp[s][k] = "check" => Target(s, k) < tiles_dispatched \/ pc = "exit"
  /\ warp[s][k] = "read" => Target(s, k) < tiles_dispatched
  /\ Holding(s, k) => /\ Target(s, k) < tiles_dispatched
                      /\ seen[s][k] \in dispatched
                      /\ ~Ending => seen[s][k] = tile_id[s]
                      /\ \A j \in Chunks : j < chunks_ready[s] =>
                           <<seen[s][k], j>> \in landed
  /\ warp[s][k] = "ready" => computed[seen[s][k]][k] = 0
  /\ tile_id[s] # NoTile /\ ~CaughtUp(s, k) /\ warp[s][k] # "compute" =>
       computed[tile_id[s]][k] = 0

WarpInv == \A s \in Slots, k \in Chunks : WarpOK(s, k)

\* The warps of the two slots for one chunk work on different tiles.
SeenDiffer == \A k \in Chunks : Holding(0, k) /\ Holding(1, k) => seen[0][k] # seen[1][k]

BufferInv == /\ TypeOK /\ TransferInv /\ SlotInv /\ SlotsDiffer /\ CountInv
             /\ WarpInv /\ SeenDiffer /\ ChunkArrived /\ ComputedOnce


-----------------------------------------------------------------------------
(* Slots and counts *)

\* The slot of a tile number and those of its neighbours.
LEMMA SlotParity ==
  ASSUME NEW n \in Nat
  PROVE  /\ n % 2 \in Slots /\ n % 2 <= n /\ (n + 1 - 1) % 2 = n % 2
         /\ n > 0 => (n - 1) % 2 \in Slots /\ (n - 1) % 2 # n % 2
         /\ n < 2 => n % 2 = n
         /\ \A c \in Nat, s \in Slots :
              IF s = n % 2 THEN c * 2 + s \notin {n - 1, n + 1}
                           ELSE c * 2 + s \notin {n - 2, n, n + 2}
  BY DEF Slots

\* The chunks of a tile are K many.
LEMMA ChunksFinite == IsFiniteSet(Chunks) /\ Cardinality(Chunks) = K
<1>1. 0 \in Int /\ K - 1 \in Int /\ 0 <= K - 1
  BY DoubleBufferAssumption
<1>2. IsFiniteSet(0..(K - 1)) /\ Cardinality(0..(K - 1)) = (K - 1) - 0 + 1
  BY <1>1, FS_Interval
<1> QED BY <1>2, DoubleBufferAssumption DEF Chunks

\* A set of compute warps of one slot: as many as there are chunks at most,
\* and then all of them; one more than before when a warp is added.
LEMMA WarpCount ==
  ASSUME NEW S \in SUBSET Chunks
  PROVE  /\ IsFiniteSet(S) /\ Cardinality(S) \in 0..K
         /\ Cardinality(S) >= K => S = Chunks
         /\ \A k \in Chunks \ S : Cardinality(S \cup {k}) = Cardinality(S) + 1
<1>1. IsFiniteSet(S) /\ Cardinality(S) <= K /\ (Cardinality(S) = K => S = Chunks)
  BY ChunksFinite, FS_Subset
<1>2. Cardinality(S) \in Nat
  BY <1>1, FS_CardinalityType
<1>3. \A k \in Chunks \ S : Cardinality(S \cup {k}) = Cardinality(S) + 1
  BY <1>1, FS_AddElement
<1> QED BY <1>1, <1>2, <1>3, DoubleBufferAssumption

\* Where a slot's warps are, given that the slot has been filled.
LEMMA TargetNat ==
  ASSUME TypeOK, NEW s \in Slots, NEW k \in Chunks
  PROVE  /\ Target(s, k) \in Nat /\ Target(s, k) >= s
         /\ Filled \in Nat /\ local_tile_count[s][k] \in Nat
         /\ Filled = tiles_dispatched \/ Filled = tiles_dispatched + 1
  BY DEF TypeOK, Target, Filled, Slots

-----------------------------------------------------------------------------
(* Every step preserves the invariant *)

\* At the start both slots are empty and every warp waits for its first tile.
LEMMA InitInv == Init => BufferInv
<1> SUFFICES ASSUME Init PROVE BufferInv
  OBVIOUS
<1>1. TypeOK
  BY DoubleBufferAssumption DEF Init, TypeOK, NoTile, TileIds
<1>0. Filled = 0 /\ ~Ending
  BY DEF Init, Filled, Ending
<1>2. TransferInv
  BY DEF Init, TransferInv
<1>3. SlotInv
  BY <1>0, DoubleBufferAssumption DEF Init, SlotInv, SlotOK, NoTile, Exit, Slots
<1>4. SlotsDiffer
  BY DEF Init, SlotsDiffer, Slots
<1>5. CountInv
  BY <1>0 DEF Init, CountInv, Slots
<1>6. WarpInv
  BY <1>0 DEF Init, WarpInv, WarpOK, Target, Holding, Slots
<1>7. SeenDiffer
  BY DEF Init, SeenDiffer, Holding, Slots
<1>8. ChunkArrived
  BY DEF Init, ChunkArrived
<1>9. ComputedOnce
  BY DEF Init, ComputedOnce
<1> QED BY <1>1, <1>2, <1>3, <1>4, <1>5, <1>6, <1>7, <1>8, <1>9 DEF BufferInv

\* What only the compute warps' variables decide.
LEMMA WarpsUnchanged ==
  ASSUME UNCHANGED warpVars, Filled' = Filled
  PROVE  \A s, k : /\ Target(s, k)' = Target(s, k) /\ Holding(s, k)' = Holding(s, k)
                   /\ CaughtUp(s, k)' = CaughtUp(s, k)
  BY DEF warpVars, Target, Holding, CaughtUp

\* Other blocks take tiles this block has not.
LEMMA OtherBlockInv == BufferInv /\ OtherBlock => BufferInv'
<1> SUFFICES ASSUME BufferInv, OtherBlock PROVE BufferInv'
  OBVIOUS
<1> USE DEF BufferInv
<1>0. Filled' = Filled /\ Ending' = Ending /\ UNCHANGED warpVars
  BY DEF OtherBlock, Filled, Ending
<1> USE <1>0, WarpsUnchanged
<1>1. TypeOK'
  BY DEF OtherBlock, TypeOK, warpVars
<1>2. TransferInv'
  BY DEF OtherBlock, TransferInv, TypeOK, TileIds
<1>3. SlotInv'
  BY DEF OtherBlock, SlotInv, SlotOK
<1>4. SlotsDiffer'
  BY DEF OtherBlock, SlotsDiffer
<1>5. CountInv'
  BY DEF OtherBlock, CountInv
<1>6. WarpInv'
  BY DEF OtherBlock, WarpInv, WarpOK, warpVars
<1>7. SeenDiffer'
  BY DEF SeenDiffer, warpVars
<1>8. ChunkArrived'
  BY DEF OtherBlock, ChunkArrived, warpVars
<1>9. ComputedOnce'
  BY DEF OtherBlock, ComputedOnce, warpVars
<1> QED BY <1>1, <1>2, <1>3, <1>4, <1>5, <1>6, <1>7, <1>8, <1>9

\* The tile taken from the scheduler is newer than every dispatched one.
LEMMA AcquireTileInv == BufferInv /\ AcquireTile => BufferInv'
<1> SUFFICES ASSUME BufferInv, AcquireTile PROVE BufferInv'
  OBVIOUS
<1> USE DEF BufferInv
<1>0. Filled' = Filled /\ Ending' = Ending /\ UNCHANGED warpVars
  BY DEF AcquireTile, Filled, Ending
<1> USE <1>0, WarpsUnchanged
<1>1. TypeOK'
  BY DEF AcquireTile, TypeOK, warpVars
<1>2. TransferInv'
  BY DoubleBufferAssumption DEF AcquireTile, TransferInv, TypeOK, TileIds, HasTile
<1>3. SlotInv'
  BY DEF AcquireTile, SlotInv, SlotOK
<1>4. SlotsDiffer'
  BY DEF AcquireTile, SlotsDiffer
<1>5. CountInv'
  BY DEF AcquireTile, CountInv
<1>6. WarpInv'
  BY DEF AcquireTile, WarpInv, WarpOK, warpVars
<1>7. SeenDiffer'
  BY DEF SeenDiffer, warpVars
<1>8. ChunkArrived'
  BY DEF AcquireTile, ChunkArrived, warpVars
<1>9. ComputedOnce'
  BY DEF AcquireTile, ComputedOnce, warpVars
<1> QED BY <1>1, <1>2, <1>3, <1>4, <1>5, <1>6, <1>7, <1>8, <1>9

\* A slot is refilled only when all its warps are through with its last tile:
\* compute_done counts every one of them.
LEMMA SlotIdle ==
  ASSUME BufferInv, pc = "slot", SlotFree, NEW k \in Chunks
  PROVE  LET s == tiles_dispatched % 2
         IN Target(s, k) = tiles_dispatched /\ warp[s][k] \notin {"read", "ready", "compute"}
<1> DEFINE n == tiles_dispatched
           s == n % 2
<1>1. n \in Nat /\ s \in Slots /\ Filled = n
  BY SlotParity DEF BufferInv, TypeOK, Filled
<1>2. Target(s, k) \in (n - 2)..(n + 1) /\ Target(s, k) \in Nat /\ Target(s, k) >= s
  BY <1>1, TargetNat DEF BufferInv, WarpInv, WarpOK
<1>3. Target(s, k) # n - 1 /\ Target(s, k) # n + 1
  BY <1>1, SlotParity, TargetNat DEF Target, BufferInv
<1>4. Target(s, k) >= n
  <2>1. CASE n < 2
    BY <2>1, <1>1, <1>2, SlotParity
  <2>2. CASE n >= 2
    <3>1. compute_done[s] >= K
      BY <2>2 DEF SlotFree
    <3>2. compute_done[s] = Cardinality({j \in Chunks : CaughtUp(s, j)})
      <4>1. ~(n <= s)
        BY <1>1, <2>2 DEF Slots
      <4> QED BY <1>1, <4>1 DEF BufferInv, CountInv
    <3>3. {j \in Chunks : CaughtUp(s, j)} = Chunks
      BY <3>1, <3>2, WarpCount
    <3> QED BY <1>1, <3>3 DEF CaughtUp
  <2> QED BY <1>1, <2>1, <2>2
<1>5. Target(s, k) = n
  BY <1>1, <1>2, <1>3, <1>4
<1>6. warp[s][k] \notin {"read", "ready", "compute"}
  BY <1>1, <1>5 DEF BufferInv, WarpInv, WarpOK, Holding
<1> QED BY <1>5, <1>6

\* The tile goes into a slot nobody is working on.
LEMMA FillSlotInv == BufferInv /\ FillSlot => BufferInv'
<1> SUFFICES ASSUME BufferInv, FillSlot PROVE BufferInv'
  OBVIOUS
<1> USE DEF BufferInv
<1> DEFINE n == tiles_dispatched
           m == n % 2
<1>a. n \in Nat /\ m \in Slots /\ Filled = n /\ Filled' = n + 1 /\ ~Ending /\ ~Ending'
  BY SlotParity DEF FillSlot, TypeOK, Filled, Ending
<1>b. \A k \in Chunks : Target(m, k) = n /\ warp[m][k] \notin {"read", "ready", "compute"}
  BY SlotIdle DEF FillSlot
<1>c. /\ pc = "slot" /\ pc' = "dispatch"
      /\ tile_id' = [tile_id EXCEPT ![m] = cur_tile]
      /\ chunks_ready' = [chunks_ready EXCEPT ![m] = 0]
      /\ compute_done' = [compute_done EXCEPT ![m] = 0]
      /\ UNCHANGED <<next_tile, tiles_dispatched, cur_tile, chunk, dispatched, landed,
                     warpVars>>
  BY DEF FillSlot
<1>d. \A s, k : Target(s, k)' = Target(s, k) /\ Holding(s, k)' = Holding(s, k)
  BY <1>c DEF Target, Holding, warpVars
<1>e. \A s \in Slots, k \in Chunks : s # m =>
        /\ Target(s, k) # n /\ CaughtUp(s, k)' = CaughtUp(s, k)
        /\ Target(s, k) \in (n - 1)..(n + 1) /\ Target(s, k) \in Nat
  <2> SUFFICES ASSUME NEW s \in Slots, NEW k \in Chunks, s # m
               PROVE  /\ Target(s, k) # n /\ CaughtUp(s, k)' = CaughtUp(s, k)
                      /\ Target(s, k) \in (n - 1)..(n + 1) /\ Target(s, k) \in Nat
    OBVIOUS
  <2>1. Target(s, k) \notin {n - 2, n} /\ Target(s, k) \in Nat
    <3> DEFINE c == local_tile_count[s][k]
    <3>1. c \in Nat /\ Target(s, k) = c * 2 + s
      BY TargetNat DEF Target
    <3> HIDE DEF c
    <3> QED BY <3>1, <1>a, SlotParity, TargetNat
  <2>2. Target(s, k) \in (n - 2)..(n + 1)
    BY <1>a DEF WarpInv, WarpOK
  <2> QED BY <1>a, <1>d, <2>1, <2>2 DEF CaughtUp
<1>f. cur_tile \in TileIds \ dispatched /\ cur_tile # NoTile
  BY <1>c, DoubleBufferAssumption DEF TransferInv, NoTile, TileIds
<1>1. TypeOK'
  BY <1>a, <1>c, <1>f, DoubleBufferAssumption DEF TypeOK, warpVars
<1>2. TransferInv'
  BY <1>c DEF TransferInv
<1>3. SlotInv'
  <2> SUFFICES ASSUME NEW s \in Slots PROVE SlotOK(s)'
    BY DEF SlotInv
  <2>0. SlotOK(s)
    BY DEF SlotInv
  <2>1. CASE s = m
    <3>1. tile_id'[s] = cur_tile /\ chunks_ready'[s] = 0 /\ ~(Filled' <= s)
      <4>1. tile_id'[s] = cur_tile /\ chunks_ready'[s] = 0
        BY <1>c, <2>1 DEF TypeOK
      <4> QED BY <1>a, <2>1, <4>1, SlotParity
    <3> QED BY <1>a, <1>c, <1>f, <2>1, <3>1, DoubleBufferAssumption DEF SlotOK, Exit, Chunks
  <2>2. CASE s # m
    <3>1. tile_id'[s] = tile_id[s] /\ chunks_ready'[s] = chunks_ready[s]
      BY <1>c, <2>2 DEF TypeOK
    <3>2. (Filled' <= s) = (Filled <= s)
      BY <2>2, <1>a, SlotParity DEF Slots
    <3> QED BY <1>a, <1>c, <2>0, <2>2, <3>1, <3>2 DEF SlotOK
  <2> QED BY <2>1, <2>2
<1>4. SlotsDiffer'
  <2>1. \A s \in Slots : tile_id[s] \in dispatched \/ tile_id[s] = NoTile
    BY <1>c DEF SlotInv, SlotOK
  <2> QED BY <1>a, <1>c, <1>f, <2>1 DEF SlotsDiffer, Slots, TypeOK
<1>5. CountInv'
  <2> SUFFICES ASSUME NEW s \in Slots
               PROVE  compute_done'[s] = IF Filled' <= s THEN 0 ELSE
                                         Cardinality({k \in Chunks : CaughtUp(s, k)'})
    BY DEF CountInv
  <2>1. CASE s = m
    <3>1. {k \in Chunks : CaughtUp(s, k)'} = {}
      BY <2>1, <1>a, <1>b, <1>d DEF CaughtUp
    <3>2. compute_done'[s] = 0
      BY <2>1, <1>c DEF TypeOK
    <3> QED BY <3>1, <3>2, FS_EmptySet
  <2>2. CASE s # m
    <3>1. {k \in Chunks : CaughtUp(s, k)'} = {k \in Chunks : CaughtUp(s, k)}
      BY <2>2, <1>e
    <3>2. compute_done'[s] = compute_done[s]
      BY <2>2, <1>c DEF TypeOK
    <3>3. (Filled' <= s) = (Filled <= s)
      BY <2>2, <1>a, SlotParity DEF Slots
    <3> QED BY <3>1, <3>2, <3>3 DEF CountInv
  <2> QED BY <2>1, <2>2
<1>6. WarpInv'
  <2> SUFFICES ASSUME NEW s \in Slots, NEW k \in Chunks PROVE WarpOK(s, k)'
    BY DEF WarpInv
  <2>0. WarpOK(s, k)
    BY DEF WarpInv
  <2>1. CASE s = m
    <3>1. tile_id'[s] = cur_tile /\ computed[cur_tile][k] = 0
      <4>1. computed[cur_tile][k] \in Nat /\ computed[cur_tile][k] <= 1
        BY <1>f DEF TypeOK, ComputedOnce
      <4>2. computed[cur_tile][k] # 1
        BY <1>f DEF ComputedOnce
      <4>3. tile_id'[s] = cur_tile
        BY <1>c, <2>1 DEF TypeOK
      <4> QED BY <4>1, <4>2, <4>3
    <3>2. Target(s, k) = n /\ warp[s][k] \notin {"check", "read", "ready", "compute"}
      BY <1>a, <1>b, <1>c, <2>0, <2>1 DEF WarpOK
    <3> QED BY <1>a, <1>c, <1>d, <3>1, <3>2 DEF WarpOK, Holding, warpVars
  <2>2. CASE s # m
    <3>1. tile_id'[s] = tile_id[s] /\ chunks_ready'[s] = chunks_ready[s]
      BY <1>c, <2>2 DEF TypeOK
    <3>2. Target(s, k) \in (n - 1)..(n + 1) /\ CaughtUp(s, k)' = CaughtUp(s, k)
      BY <1>e, <2>2
    <3> QED BY <1>a, <1>c, <1>d, <2>0, <3>1, <3>2 DEF WarpOK, warpVars
  <2> QED BY <2>1, <2>2
<1>7. SeenDiffer'
  BY <1>c, <1>d DEF SeenDiffer, warpVars
<1>8. ChunkArrived'
  BY <1>c DEF ChunkArrived, warpVars
<1>9. ComputedOnce'
  BY <1>c DEF ComputedOnce, warpVars
<1> QED BY <1>1, <1>2, <1>3, <1>4, <1>5, <1>6, <1>7, <1>8, <1>9

\* The tile is dispatched: the warps of its slot may see it.
LEMMA DispatchInv == BufferInv /\ Dispatch => BufferInv'
<1> SUFFICES ASSUME BufferInv, Dispatch PROVE BufferInv'
  OBVIOUS
<1> USE DEF BufferInv
<1> DEFINE n == tiles_dispatched
<1>a. n \in Nat /\ tiles_dispatched' = n + 1 /\ n % 2 \in Slots
  BY SlotParity DEF Dispatch, TypeOK
<1>0. Filled' = Filled /\ Ending' = Ending /\ UNCHANGED warpVars /\ ~Ending /\ Filled = n + 1
  BY <1>a DEF Dispatch, Filled, Ending
<1> USE <1>0, WarpsUnchanged
<1>1. TypeOK'
  BY <1>a, DoubleBufferAssumption DEF Dispatch, TypeOK, warpVars, TransferInv, TileIds
<1>2. TransferInv'
  BY <1>a, DoubleBufferAssumption DEF Dispatch, TransferInv, TypeOK, TileIds
<1>3. SlotInv'
  <2> SUFFICES ASSUME NEW s \in Slots PROVE SlotOK(s)'
    BY DEF SlotInv
  <2>1. SlotOK(s)
    BY DEF SlotInv
  <2>2. ((tiles_dispatched - 1) % 2)' = tiles_dispatched % 2
    BY <1>a, SlotParity
  <2> QED BY <2>1, <2>2 DEF Dispatch, SlotOK
<1>4. SlotsDiffer'
  BY DEF Dispatch, SlotsDiffer
<1>5. CountInv'
  BY DEF Dispatch, CountInv
<1>6. WarpInv'
  <2> SUFFICES ASSUME NEW s \in Slots, NEW k \in Chunks PROVE WarpOK(s, k)'
    BY DEF WarpInv
  <2>1. WarpOK(s, k) /\ Target(s, k) \in Nat
    BY TargetNat DEF WarpInv
  <2> QED BY <1>a, <2>1 DEF Dispatch, WarpOK, warpVars
<1>7. SeenDiffer'
  BY DEF SeenDiffer, warpVars
<1>8. ChunkArrived'
  BY DEF Dispatch, ChunkArrived, warpVars
<1>9. ComputedOnce'
  BY DEF Dispatch, ComputedOnce, warpVars
<1> QED BY <1>1, <1>2, <1>3, <1>4, <1>5, <1>6, <1>7, <1>8, <1>9

\* A chunk of the tile dispatched last arrives, and then is announced.
LEMMA TransferChunkInv == BufferInv /\ TransferChunk => BufferInv'
<1> SUFFICES ASSUME BufferInv, TransferChunk PROVE BufferInv'
  OBVIOUS
<1> USE DEF BufferInv
<1> DEFINE m == (tiles_dispatched - 1) % 2
<1>a. /\ tiles_dispatched \in Nat /\ tiles_dispatched > 0 /\ m \in Slots
      /\ chunk \in Chunks /\ chunk + 1 \in 0..K /\ cur_tile \in dispatched
      /\ cur_tile \in TileIds /\ tile_id[m] = cur_tile /\ chunks_ready[m] = chunk
  <2>1. tiles_dispatched \in Nat /\ tiles_dispatched > 0 /\ m \in Slots
    BY SlotParity DEF TransferChunk, TransferInv, TypeOK
  <2>2. chunk \in Chunks /\ chunk + 1 \in 0..K /\ cur_tile \in dispatched
    BY DoubleBufferAssumption DEF TransferChunk, TransferInv, TypeOK, Chunks
  <2>3. tile_id[m] = cur_tile /\ chunks_ready[m] = chunk
    BY <2>1 DEF TransferChunk, SlotInv, SlotOK
  <2> QED BY <2>1, <2>2, <2>3 DEF TypeOK
<1>0. Filled' = Filled /\ Ending' = Ending /\ UNCHANGED warpVars /\ ~Ending
  BY DEF TransferChunk, Filled, Ending
<1> USE <1>0, WarpsUnchanged
<1>b. /\ landed' = landed \cup {<<cur_tile, chunk>>}
      /\ chunks_ready' = [chunks_ready EXCEPT ![m] = chunk + 1]
      /\ chunk' = chunk + 1
      /\ pc = "transfer" /\ pc' = IF chunk + 1 < K THEN "transfer" ELSE "acquire"
      /\ UNCHANGED <<next_tile, tile_id, tiles_dispatched, cur_tile, dispatched,
                     compute_done>>
  BY DEF TransferChunk, ReadyChunks
<1>c. chunks_ready'[m] = chunk + 1
  BY <1>a, <1>b DEF TypeOK
<1>d. \A s \in Slots : s # m => chunks_ready'[s] = chunks_ready[s]
  BY <1>b DEF TypeOK
<1>1. TypeOK'
  BY <1>a, <1>b, DoubleBufferAssumption DEF TypeOK, warpVars
<1>2. TransferInv'
  BY <1>a, <1>b DEF TransferInv
<1>3. SlotInv'
  <2> SUFFICES ASSUME NEW s \in Slots PROVE SlotOK(s)'
    BY DEF SlotInv
  <2>0. SlotOK(s)
    BY DEF SlotInv
  <2>1. CASE s = m
    <3>1. \A j \in Chunks : j < chunk + 1 => <<cur_tile, j>> \in landed'
      <4>1. \A j \in Chunks : j < chunk => <<cur_tile, j>> \in landed
        BY <1>a, <2>0, <2>1, DoubleBufferAssumption DEF SlotOK, NoTile, TileIds
      <4> QED BY <4>1, <1>a, <1>b, DoubleBufferAssumption DEF Chunks
    <3>2. /\ tile_id'[s] = cur_tile /\ chunks_ready'[s] = chunk + 1 /\ chunk + 1 # Exit
          /\ pc' # "exit" /\ pc' # "dispatch"
          /\ pc' # "transfer" => chunk + 1 = K
      BY <1>a, <1>b, <1>c, <2>1, DoubleBufferAssumption DEF Exit
    <3> QED BY <1>a, <1>b, <2>0, <3>1, <3>2 DEF SlotOK
  <2>2. CASE s # m
    BY <1>b, <1>d, <2>0, <2>2 DEF SlotOK
  <2> QED BY <2>1, <2>2
<1>4. SlotsDiffer'
  BY <1>b DEF SlotsDiffer
<1>5. CountInv'
  BY <1>b DEF CountInv
<1>6. WarpInv'
  <2> SUFFICES ASSUME NEW s \in Slots, NEW k \in Chunks PROVE WarpOK(s, k)'
    BY DEF WarpInv
  <2>0. WarpOK(s, k)
    BY DEF WarpInv
  <2>1. CASE s = m
    <3>1. Holding(s, k) => \A j \in Chunks : j < chunk + 1 => <<seen[s][k], j>> \in landed'
      <4>1. Holding(s, k) => /\ seen[s][k] = cur_tile
                             /\ \A j \in Chunks : j < chunk => <<cur_tile, j>> \in landed
        BY <1>a, <2>0, <2>1 DEF WarpOK
      <4> QED BY <4>1, <1>a, <1>b, DoubleBufferAssumption DEF Chunks
    <3> QED BY <1>b, <1>c, <2>0, <2>1, <3>1 DEF WarpOK, warpVars
  <2>2. CASE s # m
    BY <1>b, <1>d, <2>0, <2>2 DEF WarpOK, warpVars
  <2> QED BY <2>1, <2>2
<1>7. SeenDiffer'
  BY DEF SeenDiffer, warpVars
<1>8. ChunkArrived'
  BY <1>b DEF ChunkArrived, warpVars
<1>9. ComputedOnce'
  BY <1>b DEF ComputedOnce, warpVars
<1> QED BY <1>1, <1>2, <1>3, <1>4, <1>5, <1>6, <1>7, <1>8, <1>9

\* Both slots are invalidated; a warp keeps the tile it has read.
LEMMA FinishTilesInv == BufferInv /\ FinishTiles => BufferInv'
<1> SUFFICES ASSUME BufferInv, FinishTiles PROVE BufferInv'
  OBVIOUS
<1> USE DEF BufferInv
<1>0. Filled' = Filled /\ Ending' /\ UNCHANGED warpVars
  BY DEF FinishTiles, Filled, Ending
<1> USE <1>0, WarpsUnchanged
<1>1. TypeOK'
  BY DEF FinishTiles, TypeOK, warpVars
<1>2. TransferInv'
  BY DEF FinishTiles, TransferInv
<1>3. SlotInv'
  BY DEF FinishTiles, SlotInv, SlotOK
<1>4. SlotsDiffer'
  BY DEF FinishTiles, SlotsDiffer, Slots
<1>5. CountInv'
  BY DEF FinishTiles, CountInv
<1>6. WarpInv'
  BY DEF FinishTiles, WarpInv, WarpOK, warpVars
<1>7. SeenDiffer'
  BY DEF SeenDiffer, warpVars
<1>8. ChunkArrived'
  BY DEF FinishTiles, ChunkArrived, warpVars
<1>9. ComputedOnce'
  BY DEF FinishTiles, ComputedOnce, warpVars
<1> QED BY <1>1, <1>2, <1>3, <1>4, <1>5, <1>6, <1>7, <1>8, <1>9

\* The sentinel exceeds every chunk number: by then all chunks have arrived.
LEMMA TerminateInv == BufferInv /\ Terminate => BufferInv'
<1> SUFFICES ASSUME BufferInv, Terminate PROVE BufferInv'
  OBVIOUS
<1> USE DEF BufferInv
<1>0. Filled' = Filled /\ Ending' /\ Ending /\ UNCHANGED warpVars /\ Filled = tiles_dispatched
  BY DEF Terminate, Filled, Ending
<1> USE <1>0, WarpsUnchanged
<1>1. TypeOK'
  BY DoubleBufferAssumption DEF Terminate, TypeOK, warpVars, Exit
<1>2. TransferInv'
  BY DEF Terminate, TransferInv
<1>3. SlotInv'
  BY DEF Terminate, SlotInv, SlotOK
<1>4. SlotsDiffer'
  BY DEF Terminate, SlotsDiffer
<1>5. CountInv'
  BY DEF Terminate, CountInv
<1>6. WarpInv'
  <2> SUFFICES ASSUME NEW s \in Slots, NEW k \in Chunks PROVE WarpOK(s, k)'
    BY DEF WarpInv
  <2>1. WarpOK(s, k) /\ Target(s, k) \in Nat /\ Target(s, k) >= s
    BY TargetNat DEF WarpInv
  <2>2. Holding(s, k) => \A j \in Chunks : <<seen[s][k], j>> \in landed
    <3>1. Holding(s, k) => chunks_ready[s] = K
      BY <2>1 DEF Terminate, WarpOK, SlotInv, SlotOK, TypeOK, Slots
    <3> QED BY <2>1, <3>1, DoubleBufferAssumption DEF WarpOK, Chunks
  <2> QED BY <2>1, <2>2 DEF Terminate, WarpOK, warpVars
<1>7. SeenDiffer'
  BY DEF SeenDiffer, warpVars
<1>8. ChunkArrived'
  BY DEF Terminate, ChunkArrived, warpVars
<1>9. ComputedOnce'
  BY DEF Terminate, ComputedOnce, warpVars
<1> QED BY <1>1, <1>2, <1>3, <1>4, <1>5, <1>6, <1>7, <1>8, <1>9

\* A compute warp sees a tile dispatched to its slot, or the sentinel.
LEMMA WaitDispatchInv ==
  ASSUME BufferInv, NEW s \in Slots, NEW k \in Chunks, WaitDispatch(s, k)
  PROVE  BufferInv'
<1> USE DEF BufferInv
<1>0. /\ Filled' = Filled /\ Ending' = Ending /\ UNCHANGED transferVars
      /\ UNCHANGED <<local_tile_count, computed, chunks_ready, compute_done>>
      /\ \A r, j : Target(r, j)' = Target(r, j) /\ CaughtUp(r, j)' = CaughtUp(r, j)
  BY DEF WaitDispatch, transferVars, Filled, Ending, Target, CaughtUp
<1> USE <1>0 DEF transferVars
<1>1. TypeOK'
  BY DEF WaitDispatch, TypeOK
<1>2. TransferInv'
  BY DEF TransferInv
<1>3. SlotInv'
  BY DEF SlotInv, SlotOK
<1>4. SlotsDiffer'
  BY DEF SlotsDiffer
<1>5. CountInv'
  BY DEF CountInv
<1>6. WarpInv'
  <2>1. chunks_ready[s] = Exit => pc = "exit"
    BY DEF SlotInv, SlotOK
  <2> QED BY <2>1, DoubleBufferAssumption DEF WaitDispatch, Awake, WarpInv, WarpOK, Holding, TypeOK
<1>7. SeenDiffer'
  BY DEF WaitDispatch, SeenDiffer, Holding, TypeOK, Slots
<1>8. ChunkArrived'
  BY DEF WaitDispatch, ChunkArrived, TypeOK
<1>9. ComputedOnce'
  BY DEF ComputedOnce
<1> QED BY <1>1, <1>2, <1>3, <1>4, <1>5, <1>6, <1>7, <1>8, <1>9

\* A compute warp that does not see the sentinel has a tile to do.
LEMMA CheckSentinelInv ==
  ASSUME BufferInv, NEW s \in Slots, NEW k \in Chunks, CheckSentinel(s, k)
  PROVE  BufferInv'
<1> USE DEF BufferInv
<1>0. /\ Filled' = Filled /\ Ending' = Ending /\ UNCHANGED transferVars
      /\ UNCHANGED <<local_tile_count, computed, chunks_ready, compute_done>>
      /\ \A r, j : Target(r, j)' = Target(r, j) /\ CaughtUp(r, j)' = CaughtUp(r, j)
  BY DEF CheckSentinel, transferVars, Filled, Ending, Target, CaughtUp
<1> USE <1>0 DEF transferVars
<1>1. TypeOK'
  BY DEF CheckSentinel, TypeOK
<1>2. TransferInv'
  BY DEF TransferInv
<1>3. SlotInv'
  BY DEF SlotInv, SlotOK
<1>4. SlotsDiffer'
  BY DEF SlotsDiffer
<1>5. CountInv'
  BY DEF CountInv
<1>6. WarpInv'
  <2>1. pc = "exit" => chunks_ready[s] = Exit
    BY DEF SlotInv, SlotOK
  <2> QED BY <2>1 DEF CheckSentinel, WarpInv, WarpOK, Holding, TypeOK
<1>7. SeenDiffer'
  BY DEF CheckSentinel, SeenDiffer, Holding, TypeOK, Slots
<1>8. ChunkArrived'
  BY DEF CheckSentinel, ChunkArrived, TypeOK
<1>9. ComputedOnce'
  BY DEF ComputedOnce
<1> QED BY <1>1, <1>2, <1>3, <1>4, <1>5, <1>6, <1>7, <1>8, <1>9

\* A compute warp reads the tile of its slot: dispatched, and not computed yet.
LEMMA ReadTileInv ==
  ASSUME BufferInv, NEW s \in Slots, NEW k \in Chunks, ReadTile(s, k)
  PROVE  BufferInv'
<1> USE DEF BufferInv
<1>0. /\ Filled' = Filled /\ Ending' = Ending /\ UNCHANGED transferVars
      /\ UNCHANGED <<local_tile_count, computed, chunks_ready, compute_done>>
      /\ \A r, j : Target(r, j)' = Target(r, j) /\ CaughtUp(r, j)' = CaughtUp(r, j)
  BY DEF ReadTile, transferVars, Filled, Ending, Target, CaughtUp
<1> USE <1>0 DEF transferVars
<1>a. tile_id[s] # NoTile =>
        /\ tile_id[s] \in dispatched /\ ~Ending /\ ~CaughtUp(s, k)
        /\ Target(s, k) < tiles_dispatched
        /\ computed[tile_id[s]][k] = 0
        /\ \A j \in Chunks : j < chunks_ready[s] => <<tile_id[s], j>> \in landed
  <2> SUFFICES ASSUME tile_id[s] # NoTile
               PROVE  /\ tile_id[s] \in dispatched /\ ~Ending /\ ~CaughtUp(s, k)
                      /\ Target(s, k) < tiles_dispatched
                      /\ computed[tile_id[s]][k] = 0
                      /\ \A j \in Chunks : j < chunks_ready[s] => <<tile_id[s], j>> \in landed
    OBVIOUS
  <2>0. SlotOK(s) /\ WarpOK(s, k) /\ warp[s][k] = "read"
    BY DEF ReadTile, SlotInv, WarpInv
  <2>1. /\ Target(s, k) \in Nat /\ Filled \in Nat /\ tiles_dispatched \in Nat
        /\ Target(s, k) < tiles_dispatched /\ tiles_dispatched <= Filled
        /\ Target(s, k) >= Filled - 2
    BY <2>0, TargetNat DEF WarpOK, TypeOK
  <2>2. ~CaughtUp(s, k)
    BY <2>1 DEF CaughtUp
  <2>3. ~(pc = "dispatch" /\ s = tiles_dispatched % 2)
    <3> SUFFICES ASSUME pc = "dispatch", s = tiles_dispatched % 2 PROVE FALSE
      OBVIOUS
    <3>1. Target(s, k) = tiles_dispatched - 1
      BY <2>1 DEF Filled
    <3>2. local_tile_count[s][k] \in Nat /\ Target(s, k) = local_tile_count[s][k] * 2 + s
      BY DEF Target, TypeOK
    <3> QED BY <2>1, <3>1, <3>2, SlotParity
  <2> QED BY <2>0, <2>1, <2>2, <2>3 DEF SlotOK, WarpOK
<1>1. TypeOK'
  BY DEF ReadTile, TypeOK
<1>2. TransferInv'
  BY DEF TransferInv
<1>3. SlotInv'
  BY DEF SlotInv, SlotOK
<1>4. SlotsDiffer'
  BY DEF SlotsDiffer
<1>5. CountInv'
  BY DEF CountInv
<1>6. WarpInv'
  <2> SUFFICES ASSUME NEW r \in Slots, NEW j \in Chunks PROVE WarpOK(r, j)'
    BY DEF WarpInv
  <2>0. WarpOK(r, j)
    BY DEF WarpInv
  <2>1. CASE r = s /\ j = k
    <3>1. /\ seen'[r][j] = tile_id[s]
          /\ warp'[r][j] = IF tile_id[s] = NoTile THEN "exit" ELSE "ready"
      BY <2>1 DEF ReadTile, TypeOK
    <3> QED BY <1>a, <2>0, <2>1, <3>1 DEF WarpOK, Holding
  <2>2. CASE ~(r = s /\ j = k)
    <3>1. seen'[r][j] = seen[r][j] /\ warp'[r][j] = warp[r][j]
      BY <2>2 DEF ReadTile, TypeOK
    <3> QED BY <2>0, <3>1 DEF WarpOK, Holding
  <2> QED BY <2>1, <2>2
<1>7. SeenDiffer'
  <2> SUFFICES ASSUME NEW j \in Chunks, Holding(0, j)', Holding(1, j)'
               PROVE  seen'[0][j] # seen'[1][j]
    BY DEF SeenDiffer
  <2>1. \A r \in Slots : ~(r = s /\ j = k) =>
          seen'[r][j] = seen[r][j] /\ warp'[r][j] = warp[r][j] /\ Holding(r, j)' = Holding(r, j)
    BY DEF ReadTile, TypeOK, Holding
  <2>2. CASE j # k
    BY <2>1, <2>2 DEF SeenDiffer, Slots
  <2>3. CASE j = k
    <3>1. seen'[s][k] = tile_id[s] /\ tile_id[s] # NoTile
      BY <2>3 DEF ReadTile, TypeOK, Holding, Slots
    <3>2. \A r \in Slots : r # s => Holding(r, k) /\ seen'[r][k] = seen[r][k]
      BY <2>1, <2>3 DEF Slots
    <3>3. \A r \in Slots : r # s => seen'[r][k] = tile_id[r]
      BY <1>a, <3>1, <3>2 DEF WarpInv, WarpOK
    <3> QED BY <2>3, <3>1, <3>3 DEF SlotsDiffer, Slots
  <2> QED BY <2>2, <2>3
<1>8. ChunkArrived'
  BY DEF ReadTile, ChunkArrived, TypeOK
<1>9. ComputedOnce'
  BY DEF ComputedOnce
<1> QED BY <1>1, <1>2, <1>3, <1>4, <1>5, <1>6, <1>7, <1>8, <1>9

\* A compute warp starts on a chunk that has arrived and nobody computed.
LEMMA StartComputeInv ==
  ASSUME BufferInv, NEW s \in Slots, NEW k \in Chunks, StartCompute(s, k)
  PROVE  BufferInv'
<1> USE DEF BufferInv
<1>0. /\ Filled' = Filled /\ Ending' = Ending /\ UNCHANGED transferVars
      /\ UNCHANGED <<local_tile_count, seen, chunks_ready, compute_done>>
      /\ \A r, j : Target(r, j)' = Target(r, j) /\ CaughtUp(r, j)' = CaughtUp(r, j)
  BY DEF StartCompute, transferVars, Filled, Ending, Target, CaughtUp
<1> USE <1>0 DEF transferVars
<1> DEFINE t == seen[s][k]
<1>a. WarpOK(s, k) /\ warp[s][k] = "ready" /\ Holding(s, k) /\ chunks_ready[s] > k
  BY DEF WarpInv, StartCompute, Holding
<1>b. t \in dispatched /\ t \in TileIds /\ computed[t][k] = 0 /\ <<t, k>> \in landed
  BY <1>a DEF WarpOK, TypeOK, Chunks
<1>c. /\ \A r \in Slots, j \in Chunks : ~(r = s /\ j = k) => warp'[r][j] = warp[r][j]
      /\ warp'[s][k] = "compute"
  BY DEF StartCompute, TypeOK
<1>d. \A u \in TileIds, j \in Chunks :
        computed'[u][j] = IF u = t /\ j = k THEN 1 ELSE computed[u][j]
  BY <1>b DEF StartCompute, TypeOK
<1>e. \A r \in Slots, j \in Chunks : Holding(r, j)' = Holding(r, j)
  BY <1>a, <1>c DEF Holding
<1>1. TypeOK'
  BY <1>b DEF StartCompute, TypeOK
<1>2. TransferInv'
  BY DEF TransferInv
<1>3. SlotInv'
  BY DEF SlotInv, SlotOK
<1>4. SlotsDiffer'
  BY DEF SlotsDiffer
<1>5. CountInv'
  BY DEF CountInv
<1>6. WarpInv'
  <2> SUFFICES ASSUME NEW r \in Slots, NEW j \in Chunks PROVE WarpOK(r, j)'
    BY DEF WarpInv
  <2>0. WarpOK(r, j)
    BY DEF WarpInv
  <2>1. CASE r = s /\ j = k
    BY <1>a, <1>c, <1>e, <2>0, <2>1 DEF WarpOK
  <2>2. CASE ~(r = s /\ j = k)
    <3>1. warp'[r][j] = warp[r][j] /\ Holding(r, j)' = Holding(r, j)
      BY <1>c, <1>e, <2>2
    <3>2. warp[r][j] = "ready" => computed'[seen[r][j]][j] = 0
      <4> SUFFICES ASSUME warp[r][j] = "ready" PROVE computed'[seen[r][j]][j] = 0
        OBVIOUS
      <4>1. Holding(r, j) /\ seen[r][j] \in TileIds /\ computed[seen[r][j]][j] = 0
        BY <2>0 DEF WarpOK, Holding, TypeOK
      <4>2. ~(seen[r][j] = t /\ j = k)
        BY <1>a, <2>2, <4>1 DEF SeenDiffer, Slots
      <4> QED BY <1>d, <4>1, <4>2
    <3>3. tile_id[r] # NoTile /\ ~CaughtUp(r, j) /\ warp[r][j] # "compute" =>
            computed'[tile_id[r]][j] = 0
      <4> SUFFICES ASSUME tile_id[r] # NoTile, ~CaughtUp(r, j), warp[r][j] # "compute"
                   PROVE  computed'[tile_id[r]][j] = 0
        OBVIOUS
      <4>1. tile_id[r] \in TileIds /\ computed[tile_id[r]][j] = 0
        BY <2>0 DEF WarpOK, TypeOK
      <4>2. ~(tile_id[r] = t /\ j = k)
        <5>1. ~Ending
          BY DEF SlotInv, SlotOK
        <5>2. t = tile_id[s]
          BY <1>a, <5>1 DEF WarpOK
        <5> QED BY <2>2, <5>2 DEF SlotsDiffer, Slots
      <4> QED BY <1>d, <4>1, <4>2
    <3> QED BY <2>0, <3>1, <3>2, <3>3 DEF WarpOK
  <2> QED BY <2>1, <2>2
<1>7. SeenDiffer'
  BY <1>e DEF SeenDiffer, Slots
<1>8. ChunkArrived'
  BY <1>b, <1>c DEF ChunkArrived
<1>9. ComputedOnce'
  BY <1>b, <1>d DEF ComputedOnce
<1> QED BY <1>1, <1>2, <1>3, <1>4, <1>5, <1>6, <1>7, <1>8, <1>9

\* A compute warp counts itself done: it was not counted before.
LEMMA FinishComputeInv ==
  ASSUME BufferInv, NEW s \in Slots, NEW k \in Chunks, FinishCompute(s, k)
  PROVE  BufferInv'
<1> USE DEF BufferInv
<1>0. /\ Filled' = Filled /\ Ending' = Ending /\ UNCHANGED transferVars
      /\ UNCHANGED <<seen, chunks_ready, computed>>
  BY DEF FinishCompute, transferVars, Filled, Ending
<1> USE <1>0 DEF transferVars
<1>a. /\ WarpOK(s, k) /\ warp[s][k] = "compute" /\ Holding(s, k)
      /\ Target(s, k) \in Nat /\ Target(s, k) >= s /\ Filled \in Nat
      /\ tiles_dispatched \in Nat /\ tiles_dispatched <= Filled
  <2>1. WarpOK(s, k) /\ warp[s][k] = "compute" /\ Holding(s, k)
    BY DEF WarpInv, FinishCompute, Holding
  <2>2. tiles_dispatched \in Nat
    BY DEF TypeOK
  <2> QED BY <2>1, <2>2, TargetNat
<1>b. /\ Target(s, k) < Filled /\ Target(s, k) >= Filled - 2 /\ ~(Filled <= s)
  BY <1>a DEF WarpOK, Slots
<1>c. /\ \A r \in Slots, j \in Chunks : ~(r = s /\ j = k) =>
           /\ warp'[r][j] = warp[r][j] /\ Target(r, j)' = Target(r, j)
           /\ Holding(r, j)' = Holding(r, j) /\ CaughtUp(r, j)' = CaughtUp(r, j)
      /\ warp'[s][k] = "dispatch" /\ ~Holding(s, k)' /\ Target(s, k)' = Target(s, k) + 2
  BY DEF FinishCompute, TypeOK, Target, Holding, CaughtUp, Slots
<1>d. ~CaughtUp(s, k) /\ CaughtUp(s, k)'
  BY <1>a, <1>b, <1>c DEF CaughtUp
<1>2. TransferInv'
  BY DEF TransferInv
<1>3. SlotInv'
  BY DEF SlotInv, SlotOK
<1>4. SlotsDiffer'
  BY DEF SlotsDiffer
<1>5. CountInv' /\ compute_done'[s] \in 0..K
  <2> DEFINE Through(r) == {j \in Chunks : CaughtUp(r, j)}
  <2>1. {j \in Chunks : CaughtUp(s, j)'} = Through(s) \cup {k} /\ k \in Chunks \ Through(s)
    BY <1>c, <1>d
  <2>2. Cardinality(Through(s) \cup {k}) = Cardinality(Through(s)) + 1
    BY <2>1, WarpCount
  <2>3. compute_done[s] = Cardinality(Through(s))
    BY <1>b DEF CountInv
  <2>4. /\ compute_done'[s] = compute_done[s] + 1
        /\ \A r \in Slots : r # s => compute_done'[r] = compute_done[r]
    BY DEF FinishCompute, TypeOK
  <2>5. \A r \in Slots : r # s => {j \in Chunks : CaughtUp(r, j)'} = Through(r)
    BY <1>c
  <2>6. Cardinality(Through(s) \cup {k}) \in 0..K
    <3>1. Through(s) \cup {k} \in SUBSET Chunks
      OBVIOUS
    <3> HIDE DEF Through
    <3> QED BY <3>1, WarpCount
  <2>7. ASSUME NEW r \in Slots
        PROVE  compute_done'[r] = IF Filled' <= r THEN 0 ELSE
                                  Cardinality({j \in Chunks : CaughtUp(r, j)'})
    <3>1. CASE r = s
      BY <3>1, <1>b, <2>1, <2>2, <2>3, <2>4
    <3>2. CASE r # s
      BY <3>2, <2>4, <2>5 DEF CountInv
    <3> QED BY <3>1, <3>2
  <2> QED BY <2>2, <2>3, <2>4, <2>6, <2>7 DEF CountInv
<1>1. TypeOK'
  <2>1. compute_done' \in [Slots -> 0..K]
    BY <1>5 DEF FinishCompute, TypeOK
  <2> QED BY <2>1 DEF FinishCompute, TypeOK
<1>6. WarpInv'
  <2> SUFFICES ASSUME NEW r \in Slots, NEW j \in Chunks PROVE WarpOK(r, j)'
    BY DEF WarpInv
  <2>1. CASE r = s /\ j = k
    BY <2>1, <1>a, <1>b, <1>c, <1>d DEF WarpOK
  <2>2. CASE ~(r = s /\ j = k)
    BY <2>2, <1>c DEF WarpOK, WarpInv
  <2> QED BY <2>1, <2>2
<1>7. SeenDiffer'
  BY <1>c DEF SeenDiffer, Slots
<1>8. ChunkArrived'
  BY <1>c DEF ChunkArrived
<1>9. ComputedOnce'
  BY DEF ComputedOnce
<1> QED BY <1>1, <1>2, <1>3, <1>4, <1>5, <1>6, <1>7, <1>8, <1>9

\* At the end of the block nothing changes any more.
LEMMA StutterInv == BufferInv /\ UNCHANGED vars => BufferInv'
<1> SUFFICES ASSUME BufferInv, UNCHANGED vars PROVE BufferInv'
  OBVIOUS
<1> USE DEF BufferInv, vars, transferVars
<1>0. Filled' = Filled /\ Ending' = Ending
  BY DEF Filled, Ending
<1> USE <1>0, WarpsUnchanged
<1>1. TypeOK' /\ TransferInv' /\ SlotsDiffer'
  BY DEF TypeOK, TransferInv, SlotsDiffer, warpVars
<1>2. SlotInv' /\ CountInv'
  BY DEF SlotInv, SlotOK, CountInv
<1>3. WarpInv' /\ SeenDiffer'
  BY DEF WarpInv, WarpOK, SeenDiffer, warpVars
<1>4. ChunkArrived' /\ ComputedOnce'
  BY DEF ChunkArrived, ComputedOnce, warpVars
<1> QED BY <1>1, <1>2, <1>3, <1>4

\* Every step of the block's warps preserves the invariant.
LEMMA NextInv == BufferInv /\ [Next]_vars => BufferInv'
<1> SUFFICES ASSUME BufferInv, [Next]_vars PROVE BufferInv'
  OBVIOUS
<1>1. CASE OtherBlock
  BY <1>1, OtherBlockInv
<1>2. CASE TransferWarp
  BY <1>2, AcquireTileInv, FillSlotInv, DispatchInv, TransferChunkInv,
     FinishTilesInv, TerminateInv DEF TransferWarp
<1>3. ASSUME NEW s \in Slots, NEW k \in Chunks, ComputeWarp(s, k) PROVE BufferInv'
  BY <1>3, WaitDispatchInv, CheckSentinelInv, ReadTileInv, StartComputeInv,
     FinishComputeInv DEF ComputeWarp
<1>4. CASE Exited
  BY <1>4, StutterInv DEF Exited
<1>5. CASE UNCHANGED vars
  BY <1>5, StutterInv
<1> QED BY <1>1, <1>2, <1>3, <1>4, <1>5 DEF Next

-----------------------------------------------------------------------------
(* The theorems *)

\* The inductive invariant holds in every reachable state, for every number of
\* tiles and of chunks per tile.
THEOREM BufferInvariant == Spec => []BufferInv
  BY InitInv, NextInv, PTL DEF Spec

\* Every variable keeps its type; in particular compute_done never exceeds the
\* number of compute warps of a slot.
THEOREM BufferTypes == Spec => []TypeOK
<1>1. BufferInv => TypeOK
  BY DEF BufferInv
<1> QED BY <1>1, BufferInvariant, PTL

\* "Data is guaranteed to be available": a compute warp of the double-buffered
\* loop runs only on a chunk that has arrived.
THEOREM ComputesArrivedChunks == Spec => []ChunkArrived
<1>1. BufferInv => ChunkArrived
  BY DEF BufferInv
<1> QED BY <1>1, BufferInvariant, PTL

\* No chunk is computed twice, and only chunks of tiles this block took.
THEOREM ComputesChunksOnce == Spec => []ComputedOnce
<1>1. BufferInv => ComputedOnce
  BY DEF BufferInv
<1> QED BY <1>1, BufferInvariant, PTL

\* A slot is not given to another tile while a compute warp works on its tile.
THEOREM SlotsAreStable == Spec => []SlotStable
<1>1. BufferInv => SlotStable
  <2> SUFFICES ASSUME BufferInv, NEW s \in Slots, NEW k \in Chunks,
                      warp[s][k] \in {"ready", "compute"}
               PROVE  tile_id[s] \in {seen[s][k], NoTile}
    BY DEF SlotStable
  <2>1. ~Ending => seen[s][k] = tile_id[s]
    BY DEF BufferInv, WarpInv, WarpOK, Holding
  <2>2. Ending => tile_id[s] = NoTile
    BY DEF BufferInv, SlotInv, SlotOK
  <2> QED BY <2>1, <2>2
<1> QED BY <1>1, BufferInvariant, PTL
=============================================================================
