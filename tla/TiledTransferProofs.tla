-------------------------- MODULE TiledTransferProofs --------------------------
(* Machine-checked proofs about warp-specialised tile processing, for every   *)
(* set of blocks, session, number of channels, batch size and event slots.    *)
EXTENDS TiledTransfer, FiniteSetTheorems, SequenceTheorems, TLAPS

-----------------------------------------------------------------------------
(* Scheduling: the inductive invariant *)

PlaceSet == {"acquire_tile", "acquire_slots", "commit", "wait", "wait_compute", "exit"}
WarpSet  == {"wait", "compute", "sync"}

GpuTypes ==
  /\ config \in Sessions /\ next_tile \in Nat
  /\ pc \in [Blocks -> PlaceSet]
  /\ tile \in [Blocks -> Nat] /\ chunk \in [Blocks -> Nat]
  /\ chunks_ready \in [Blocks -> Nat] /\ compute_done \in [Blocks -> Nat]
  /\ warp \in [Blocks -> [Chunks -> WarpSet]]
  /\ computed \in [TileIds -> [Chunks -> Nat]]

\* The block works on a tile.
Active(b) == pc[b] \in {"acquire_slots", "commit", "wait", "wait_compute"}

\* The compute warps that are through with the block's tile.
Through(b) == {k \in Chunks : warp[b][k] = "sync"}

\* A block with a tile has computed the chunks whose warps have started; a
\* block without one has all its warps at the barrier.
BlockOK(b) ==
  /\ Active(b) =>
       /\ tile[b] \in TileIds /\ tile[b] < next_tile
       /\ chunks_ready[b] = chunk[b] /\ chunk[b] <= K
       /\ pc[b] # "wait_compute" => chunk[b] < K
       /\ compute_done[b] = Cardinality(Through(b))
       /\ \A k \in Chunks :
            /\ computed[tile[b]][k] = IF warp[b][k] = "wait" THEN 0 ELSE 1
            /\ warp[b][k] # "wait" => k < chunk[b]
  /\ ~Active(b) => Through(b) = Chunks
  /\ pc[b] = "exit" => next_tile >= Tiles

\* No two blocks have the same tile.
TilesApart == \A a, b \in Blocks : Active(a) /\ Active(b) /\ a # b => tile[a] # tile[b]

\* A tile nobody has is either still to be dealt or wholly computed.
TileOK(t) ==
  /\ t >= next_tile => \A k \in Chunks : computed[t][k] = 0
  /\ t < next_tile /\ (\A b \in Blocks : Active(b) => tile[b] # t) =>
       \A k \in Chunks : computed[t][k] = 1

\* The session goes on only when the kernel has ended.
HostInv == /\ host \in {"running", "stopping"} /\ launches \in Nat /\ launches >= 1
           /\ host = "stopping" => \A b \in Blocks : pc[b] = "exit"

SchedInv == /\ GpuTypes /\ HostInv /\ TilesApart
            /\ \A b \in Blocks : BlockOK(b)
            /\ \A t \in TileIds : TileOK(t)

-----------------------------------------------------------------------------
(* The ring and the poller's batch *)

Entry == [tile : Nat, last : BOOLEAN]
BatchEntry == [tile : Nat, last : BOOLEAN, slot : Nat]
PollSet == {"poll", "flush", "data", "signal", "event", "events", "publish", "idle"}

\* The block has a chunk in the ring that it waits for.
Holds(b) == pc[b] \in {"commit", "wait"}
Base(b)  == chunk_base[b][chunk[b]]

RingTypes ==
  /\ entries \in Seq(Entry) /\ committed \subseteq 0..(write_idx - 1)
  /\ chunk_base \in [Blocks -> [Chunks -> Int]] /\ pending \in [Blocks -> SUBSET Nat]
  /\ read_idx \in 0..write_idx /\ batch \in Seq(BatchEntry) /\ Len(batch) <= read_idx
  /\ poll_pc \in PollSet /\ split \in BOOLEAN

\* A descriptor that is not the last of its chunk is followed by another one of
\* the same tile.
EntryRuns == \A n \in 1..write_idx :
               ~entries[n].last => /\ n < write_idx
                                   /\ entries[n + 1].tile = entries[n].tile

\* The chunk a block waits for, in the ring.
ChunkInv == \A b \in Blocks : Holds(b) =>
              /\ Base(b) \in Nat /\ Base(b) + C <= write_idx
              /\ pending[b] \subseteq 0..(C - 1)
              /\ \A i \in 0..(C - 1) :
                   /\ entries[Base(b) + i + 1].tile = tile[b]
                   /\ entries[Base(b) + i + 1].last <=> (i = C - 1)

\* The first slot that has not been flushed.
First == read_idx - Len(batch)

\* The batch is the run of descriptors before read_idx; the loop goes on only
\* without a chunk's end in it, and what is flushed ends a chunk unless a chunk
\* was cut.
BatchInv ==
  /\ \A n \in 1..Len(batch) :
       /\ batch[n].slot = First + n - 1
       /\ batch[n].tile = entries[First + n].tile
       /\ batch[n].last = entries[First + n].last
       /\ n < Len(batch) \/ poll_pc = "poll" => ~batch[n].last
  /\ poll_pc \in {"events", "idle"} => batch = <<>>
  /\ poll_pc \in {"flush", "data", "signal", "event", "publish"} => batch # <<>>
  /\ poll_pc \notin {"poll", "events", "idle"} /\ ~split => batch[Len(batch)].last
  /\ poll_pc = "event" => batch[Len(batch)].last

RingInv == RingTypes /\ EntryRuns /\ ChunkInv /\ BatchInv /\ OneChunkPerBatch

-----------------------------------------------------------------------------
(* Copies in flight *)

Op == [data : SUBSET Nat, tiles : SUBSET Nat]

\* The poller has handed the batch over.
Handed == poll_pc \in {"signal", "event", "publish"}

\* Slots below this one have been handed to the copy engines, or copied.
Submitted == IF Handed THEN read_idx ELSE First

\* Slot s is among the first n copies of the queue q, or in any queue.
InCopies(q, s, n) == \E p \in 1..n : s \in q[p].data
Queued(s) == \E c \in ChanIds : InCopies(chan[c], s, Len(chan[c]))

FlightTypes ==
  /\ chan \in [ChanIds -> Seq(Op)] /\ next_channel \in ChanIds /\ dirty \subseteq ChanIds
  /\ latest_async_read \in Nat /\ done_idx \in Nat /\ has_async_dma \in BOOLEAN
  /\ landed \subseteq 0..(write_idx - 1)
  /\ \A c \in ChanIds : \A p \in 1..Len(chan[c]) : chan[c][p].data \subseteq 0..(write_idx - 1)
  /\ latest_async_read <= First /\ done_idx <= First

\* Which steps of the poller a path has.
PathInv ==
  /\ poll_pc \in {"data", "signal"} => config.path \in {"device", "host"}
  /\ poll_pc \in {"event", "events"} => config.path = "deferred"
  /\ poll_pc = "publish" => config.path = "no_ce"
  /\ tile_events_inflight > 0 => config.path = "deferred"
  /\ signals # <<>> => config.path = "device"
  /\ config.path = "no_ce" => \A c \in ChanIds : chan[c] = <<>>
  /\ config.path # "host" => \A c \in ChanIds : \A p \in 1..Len(chan[c]) : chan[c][p].tiles = {}
  /\ config.path # "deferred" /\ ~has_async_dma /\ poll_pc # "signal" =>
       \A c \in ChanIds : chan[c] = <<>>

DirtyInv == \A c \in ChanIds : c \notin dirty => chan[c] = <<>>

\* What has been handed over is there or on its way.
HandedInv == \A s \in 0..(Submitted - 1) : s \in landed \/ Queued(s)

\* The copy that a deferred event is about to be recorded behind.
LastInv == poll_pc = "event" =>
             \A s \in First..(read_idx - 1) :
               s \in landed \/ InCopies(chan[LastStream], s, Len(chan[LastStream]))

FlightInv == FlightTypes /\ PathInv /\ DirtyInv /\ HandedInv /\ LastInv

-----------------------------------------------------------------------------
(* Counts: what the poller has counted and what the GPU sees *)

\* The paths and histories for which the data is there when the count is.
Strict == Fallback \/ (config.path = "device" /\ ~split)

\* Slots below this one have been counted.
Counted == IF poll_pc \in {"data", "signal"} THEN read_idx ELSE First
Low     == IF Strict THEN First ELSE Counted

\* How much of the chunk block b waits for may have been counted.
Part(b) == IF Counted >= Base(b) + C THEN C
           ELSE IF Fallback \/ Counted <= Base(b) THEN 0 ELSE Counted - Base(b)

CountTypes == /\ tile_progress \in [TileIds -> Nat]
              /\ tile_signal_buf \in [TileIds -> Nat]
              /\ chunk_done \in [TileIds -> Nat]

\* A slot that has not been counted belongs to a block that waits for it.
HeldInv == \A s \in Low..(write_idx - 1) :
             \E b \in Blocks : Holds(b) /\ s \in Base(b)..(Base(b) + C - 1)

ProgressInv ==
  /\ \A t \in TileIds : /\ t >= next_tile => tile_progress[t] = 0
                        /\ tile_progress[t] <= K * C
  /\ \A b \in Blocks : Active(b) =>
       /\ tile_progress[tile[b]] >= chunk[b] * C
       /\ tile_progress[tile[b]] <= chunk[b] * C + (IF Holds(b) THEN Part(b) ELSE 0)

\* A signal is on its way for tile t.
Signalled(t) == \/ \E n \in 1..Len(signals) : t \in signals[n].tiles
                \/ \E c \in ChanIds : \E p \in 1..Len(chan[c]) : t \in chan[c][p].tiles
                \/ poll_pc \in {"data", "signal"} /\ t \in BatchTiles

\* The value a signal will publish, and what is published.
ValueInv == \A t \in TileIds : /\ Signalled(t) => tile_signal_buf[t] = tile_progress[t]
                               /\ chunk_done[t] <= tile_progress[t]

\* The count block b waits for has arrived.
Arrived(b) == chunk_done[tile[b]] >= (chunk[b] + 1) * C

\* Then the chunk has been flushed and all of it is there.
ArrivedInv == \A b \in Blocks : Holds(b) /\ Arrived(b) =>
                /\ Base(b) + C <= Low
                /\ Strict => Base(b)..(Base(b) + C - 1) \subseteq landed

\* So are the chunks before it, which the compute warps work on.
ReadyInv == Strict => \A b \in Blocks : Active(b) => \A k \in Chunks :
              k < chunk[b] => chunk_base[b][k]..(chunk_base[b][k] + C - 1) \subseteq landed

-----------------------------------------------------------------------------
(* Signals and events: each speaks for the chunk of a waiting block *)

Sig == [tiles : SUBSET Nat, after : [ChanIds -> Nat]]

SignalTypes ==
  /\ signals \in Seq(Sig)
  /\ \A n \in 1..Len(signals), c \in ChanIds : signals[n].after[c] <= Len(chan[c])

\* Block b waits for a chunk of tile t that has been flushed.
Awaits(b, t) == Holds(b) /\ tile[b] = t /\ Base(b) + C <= First /\ ~Arrived(b)

SignalInv ==
  config.path = "device" /\ ~split =>
    /\ \A n \in 1..Len(signals) : \A t \in signals[n].tiles :
         \E b \in Blocks : /\ Awaits(b, t)
                           /\ \A s \in Base(b)..(Base(b) + C - 1) :
                                \/ s \in landed
                                \/ \E c \in ChanIds : InCopies(chan[c], s, signals[n].after[c])
    /\ \A n, m \in 1..Len(signals) : n # m => signals[n].tiles \cap signals[m].tiles = {}
    /\ \A n \in 1..Len(signals) : signals[n].tiles # {}

EventSlot(j) == (tile_event_tail + j) % MAX_PENDING_TILE_EVENTS
Event(j) == tile_events[EventSlot(j)]
Waiting  == 0..(tile_events_inflight - 1)

EventRec == [ch : ChanIds, before : Nat, tiles : SUBSET Nat, done_value : Nat]

EventTypes ==
  /\ tile_events \in [EventSlots -> EventRec]
  /\ tile_event_head \in EventSlots /\ tile_event_tail \in EventSlots
  /\ tile_events_inflight \in Nat /\ tile_event_head = EventSlot(tile_events_inflight)
  /\ \A s \in EventSlots : /\ tile_events[s].before <= Len(chan[tile_events[s].ch])
                            /\ tile_events[s].done_value <= First
  /\ poll_pc = "events" => tile_events_inflight > 0

\* The deferred events: one block each, and the copy of its chunk if the chunk
\* was not cut.
EventInv ==
  /\ \A j \in Waiting : \E b \in Blocks :
       /\ Event(j).tiles = {tile[b]} /\ Awaits(b, tile[b])
       /\ tile_progress[tile[b]] >= (chunk[b] + 1) * C =>
            \A s \in Base(b)..(Base(b) + C - 1) :
              s \in landed \/ InCopies(chan[Event(j).ch], s, Event(j).before)
  /\ \A i, j \in Waiting : i # j => Event(i).tiles # Event(j).tiles

\* A copy that is not done yet is behind no event later than its own.
CoveredBy(s, n) == s \in landed \/ \E i \in 0..(n - 1) :
                     InCopies(chan[Event(i).ch], s, Event(i).before)
CoverInv ==
  config.path = "deferred" /\ ~split =>
    /\ \A s \in 0..(First - 1) : CoveredBy(s, tile_events_inflight)
    /\ \A j \in Waiting : \A s \in 0..(Event(j).done_value - 1) : CoveredBy(s, j + 1)

\* Together; a launch that may get a signal of the one before is left out.
PipeBody == /\ HeldInv /\ ProgressInv /\ ValueInv
            /\ ArrivedInv /\ ReadyInv /\ SignalInv /\ EventInv
PipeInv == NoLateSignal => PipeBody

-----------------------------------------------------------------------------
(* Facts used throughout *)

\* The numbers of a session.
LEMMA Shape ==
  ASSUME config \in Sessions
  PROVE  /\ K \in Nat /\ K > 0 /\ C \in Nat /\ C > 0 /\ Tiles \in Nat
         /\ config.path \in Paths
         /\ IsFiniteSet(Chunks) /\ Cardinality(Chunks) = K
<1>1. config \in SessionShape
  BY TiledAssumption
<1>2. K \in Nat /\ K > 0 /\ C \in Nat /\ C > 0 /\ Tiles \in Nat /\ config.path \in Paths
  BY <1>1 DEF SessionShape, K, C, Tiles
<1>3. 0 \in Int /\ K - 1 \in Int
  BY <1>2
<1>4. /\ IsFiniteSet(0..(K - 1))
      /\ Cardinality(0..(K - 1)) = IF 0 > K - 1 THEN 0 ELSE (K - 1) - 0 + 1
  BY <1>3, FS_Interval, Zenon
<1>5. QED
  BY <1>2, <1>4 DEF Chunks

\* The same numbers hold in the next state.
LEMMA SameShape ==
  ASSUME config' = config
  PROVE  /\ K' = K /\ C' = C /\ Tiles' = Tiles /\ Chunks' = Chunks /\ TileIds' = TileIds
         /\ Fallback' = Fallback
BY DEF K, C, Tiles, Chunks, TileIds, Fallback

\* The session's configuration never changes, and only the kernel's warps and
\* the session's thread change the state of the blocks.
LEMMA ConfigFixed ==
  ASSUME [Next]_vars
  PROVE  config' = config
<1>1. CASE \E b \in Blocks : TransferWarp(b)
  BY <1>1 DEF TransferWarp, AcquireTile, AcquireSlots, CommitSlot, WaitChunkDone,
       WaitCompute, hostVars
<1>2. CASE \E b \in Blocks, k \in Chunks : ComputeWarp(b, k)
  BY <1>2 DEF ComputeWarp, StartCompute, FinishCompute, hostVars
<1>3. CASE Poller
  BY <1>3 DEF Poller, PollEntry, GapTimeout, UpdateProgress, SubmitData, SubmitSignal,
       ProcessBatch, DeferTileEvent, StartEventPoll, PollTileEvent, LeaveEventPoll,
       CopyNoCe, PublishNoCe, StartIdleWait, FinishIdleWait, hostVars
<1>4. CASE \/ \E c \in ChanIds : CopyCompletes(c)
           \/ SignalCompletes \/ DeviceSynchronize \/ Relaunch
  BY <1>4 DEF CopyCompletes, SignalCompletes, DeviceSynchronize, Relaunch, hostVars
<1>5. CASE UNCHANGED vars
  BY <1>5 DEF vars, hostVars
<1>6. QED
  BY <1>1, <1>2, <1>3, <1>4, <1>5 DEF Next, Finished, Hangs

\* The steps of the CPU and of the copy engines.
HostStep == Poller \/ (\E c \in ChanIds : CopyCompletes(c)) \/ SignalCompletes

\* They leave the blocks and the session alone.
LEMMA HostFrame ==
  ASSUME HostStep
  PROVE  UNCHANGED <<gpuVars, hostVars>>
<1>1. CASE Poller
  BY <1>1 DEF Poller, PollEntry, GapTimeout, UpdateProgress, SubmitData, SubmitSignal,
       ProcessBatch, DeferTileEvent, StartEventPoll, PollTileEvent, LeaveEventPoll,
       CopyNoCe, PublishNoCe, StartIdleWait, FinishIdleWait
<1>2. CASE (\E c \in ChanIds : CopyCompletes(c)) \/ SignalCompletes
  BY <1>2 DEF CopyCompletes, SignalCompletes
<1>3. QED
  BY <1>1, <1>2 DEF HostStep

-----------------------------------------------------------------------------
(* Scheduling: every step preserves the invariant *)

\* The block takes a tile nobody had, or finds that there is none left.
LEMMA AcquireTileSched ==
  ASSUME SchedInv, NEW b \in Blocks, AcquireTile(b), config' = config
  PROVE  SchedInv'
<1> USE DEF SchedInv
<1>1. /\ K \in Nat /\ K > 0 /\ Tiles \in Nat /\ Chunks' = Chunks /\ TileIds' = TileIds
      /\ K' = K /\ Tiles' = Tiles
  BY Shape, SameShape DEF GpuTypes
<1>2. /\ pc[b] = "acquire_tile" /\ next_tile' = next_tile + 1
      /\ tile' = [tile EXCEPT ![b] = next_tile]
      /\ chunks_ready' = [chunks_ready EXCEPT ![b] = 0]
      /\ compute_done' = [compute_done EXCEPT ![b] = 0]
      /\ chunk' = [chunk EXCEPT ![b] = 0]
      /\ UNCHANGED <<computed, host, launches>>
      /\ IF next_tile < Tiles
           THEN /\ pc' = [pc EXCEPT ![b] = "acquire_slots"]
                /\ warp' = [warp EXCEPT ![b] = [k \in Chunks |-> "wait"]]
           ELSE pc' = [pc EXCEPT ![b] = "exit"] /\ UNCHANGED warp
  BY DEF AcquireTile, Dispatch, hostVars
<1>3. /\ tile'[b] = next_tile /\ chunks_ready'[b] = 0 /\ compute_done'[b] = 0
      /\ chunk'[b] = 0 /\ next_tile \in Nat
      /\ pc'[b] = IF next_tile < Tiles THEN "acquire_slots" ELSE "exit"
      /\ warp'[b] = IF next_tile < Tiles THEN [k \in Chunks |-> "wait"] ELSE warp[b]
      /\ \A a \in Blocks : a # b =>
           /\ tile'[a] = tile[a] /\ chunks_ready'[a] = chunks_ready[a] /\ pc'[a] = pc[a]
           /\ compute_done'[a] = compute_done[a] /\ chunk'[a] = chunk[a] /\ warp'[a] = warp[a]
  BY <1>2 DEF GpuTypes
<1>4. GpuTypes'
  BY <1>1, <1>2 DEF GpuTypes, PlaceSet, WarpSet
<1>5. HostInv'
  BY <1>2, <1>3 DEF HostInv
<1>6. ASSUME NEW a \in Blocks, a # b
      PROVE  (Active(a)' <=> Active(a)) /\ BlockOK(a)'
  <2>1. Through(a)' = Through(a)
    BY <1>1, <1>3, <1>6 DEF Through
  <2>2. Active(a)' <=> Active(a)
    BY <1>3, <1>6 DEF Active
  <2>3. BlockOK(a)
    OBVIOUS
  <2>4. tile[a] \in Nat
    BY DEF GpuTypes
  <2>5. QED
    BY <1>1, <1>2, <1>3, <1>6, <2>1, <2>2, <2>3, <2>4 DEF BlockOK
<1>7. ~Active(b) /\ BlockOK(b)
  BY <1>2 DEF Active
<1>8. BlockOK(b)'
  <2>1. CASE next_tile < Tiles
    <3>1. /\ pc'[b] = "acquire_slots" /\ warp'[b] = [k \in Chunks |-> "wait"]
          /\ next_tile \in TileIds
      BY <1>1, <1>3, <2>1 DEF TileIds
    <3>2. Through(b)' = {}
      BY <1>1, <3>1 DEF Through
    <3>3. \A k \in Chunks : computed[next_tile][k] = 0
      BY <1>3, <3>1 DEF TileOK
    <3>4. Cardinality(Through(b)') = 0
      BY <3>2, FS_EmptySet
    <3>5. QED
      BY <1>1, <1>2, <1>3, <3>1, <3>3, <3>4 DEF BlockOK, Active
  <2>2. CASE ~(next_tile < Tiles)
    <3>1. pc'[b] = "exit" /\ warp'[b] = warp[b]
      BY <1>3, <2>2
    <3>2. Through(b)' = Through(b)
      BY <1>1, <3>1 DEF Through
    <3>3. QED
      BY <1>1, <1>2, <1>3, <1>7, <2>2, <3>1, <3>2 DEF BlockOK, Active
  <2>3. QED
    BY <2>1, <2>2
<1>9. TilesApart'
  <2>1. \A a \in Blocks : a # b /\ Active(a) => tile[a] < next_tile /\ tile[a] \in Nat
    BY DEF BlockOK, GpuTypes
  <2>2. QED
    BY <1>3, <1>6, <2>1 DEF TilesApart
<1>10. ASSUME NEW t \in TileIds
       PROVE  TileOK(t)'
  <2>1. TileOK(t) /\ t \in Nat
    BY DEF TileIds
  <2>2. CASE t = next_tile
    <3>1. Active(b)' /\ tile'[b] = t
      BY <1>1, <1>3, <2>2 DEF Active, TileIds
    <3>2. QED
      BY <1>1, <1>2, <1>3, <2>2, <3>1 DEF TileOK
  <2>3. CASE t # next_tile
    <3>1. (\A a \in Blocks : Active(a)' => tile'[a] # t)
            => (\A a \in Blocks : Active(a) => tile[a] # t)
      BY <1>3, <1>6, <1>7
    <3>2. QED
      BY <1>1, <1>2, <1>3, <2>1, <2>3, <3>1 DEF TileOK
  <2>4. QED
    BY <2>2, <2>3
<1>11. QED
  BY <1>1, <1>4, <1>5, <1>6, <1>8, <1>9, <1>10

\* A block goes on with its tile, with the chunk it has or the next one.
LEMMA PlaceSched ==
  ASSUME SchedInv, NEW b \in Blocks, Active(b), NEW c \in Nat,
         NEW p \in {"acquire_slots", "commit", "wait", "wait_compute"},
         chunk[b] <= c, c <= K, p # "wait_compute" => c < K,
         pc' = [pc EXCEPT ![b] = p], chunk' = [chunk EXCEPT ![b] = c],
         chunks_ready' = [chunks_ready EXCEPT ![b] = c],
         UNCHANGED <<config, next_tile, tile, compute_done, warp, computed, host, launches>>
  PROVE  SchedInv'
<1> USE DEF SchedInv
<1>1. /\ K \in Nat /\ K > 0 /\ Tiles \in Nat /\ Chunks' = Chunks /\ TileIds' = TileIds
      /\ K' = K /\ Tiles' = Tiles
  BY Shape, SameShape DEF GpuTypes
<1>2. GpuTypes'
  BY <1>1 DEF GpuTypes, PlaceSet, WarpSet
<1>3. /\ pc'[b] = p /\ chunk'[b] = c /\ chunks_ready'[b] = c
      /\ \A a \in Blocks : a # b =>
           pc'[a] = pc[a] /\ chunk'[a] = chunk[a] /\ chunks_ready'[a] = chunks_ready[a]
  BY DEF GpuTypes
<1>4. HostInv'
  BY <1>3 DEF HostInv, Active
<1>5. \A a \in Blocks : Active(a)' <=> Active(a)
  BY <1>3 DEF Active
<1>6. \A a \in Blocks : Through(a)' = Through(a)
  BY <1>1 DEF Through
<1>7. ASSUME NEW a \in Blocks
      PROVE  BlockOK(a)'
  <2>1. BlockOK(a) /\ chunk[b] \in Nat
    BY DEF GpuTypes
  <2>2. \A k \in Chunks : k \in Nat
    BY <1>1 DEF Chunks
  <2>3. CASE a = b
    BY <1>1, <1>3, <1>5, <1>6, <2>1, <2>2, <2>3 DEF BlockOK, Active
  <2>4. CASE a # b
    BY <1>1, <1>3, <1>5, <1>6, <2>1, <2>4 DEF BlockOK
  <2>5. QED
    BY <2>3, <2>4
<1>8. TilesApart'
  BY <1>5 DEF TilesApart
<1>9. \A t \in TileIds : TileOK(t)'
  BY <1>1, <1>5 DEF TileOK
<1>10. QED
  BY <1>1, <1>2, <1>4, <1>7, <1>8, <1>9

\* All warps of the block have counted themselves: the tile is computed.
LEMMA WaitComputeSched ==
  ASSUME SchedInv, NEW b \in Blocks, WaitCompute(b), config' = config
  PROVE  SchedInv'
<1> USE DEF SchedInv
<1>1. /\ K \in Nat /\ K > 0 /\ Tiles \in Nat /\ Chunks' = Chunks /\ TileIds' = TileIds
      /\ K' = K /\ Tiles' = Tiles /\ IsFiniteSet(Chunks) /\ Cardinality(Chunks) = K
  BY Shape, SameShape DEF GpuTypes
<1>2. /\ pc[b] = "wait_compute" /\ compute_done[b] >= K
      /\ pc' = [pc EXCEPT ![b] = "acquire_tile"]
      /\ UNCHANGED <<next_tile, tile, chunk, chunks_ready, compute_done, warp, computed,
                     host, launches>>
  BY DEF WaitCompute, hostVars
<1>3. GpuTypes'
  BY <1>1, <1>2 DEF GpuTypes, PlaceSet, WarpSet
<1>4. pc'[b] = "acquire_tile" /\ \A a \in Blocks : a # b => pc'[a] = pc[a]
  BY <1>2 DEF GpuTypes
<1>5. HostInv'
  BY <1>2, <1>4 DEF HostInv
<1>6. /\ Active(b) /\ ~Active(b)' /\ \A a \in Blocks : a # b => (Active(a)' <=> Active(a))
      /\ \A a \in Blocks : Through(a)' = Through(a)
  BY <1>1, <1>2, <1>4 DEF Active, Through
<1>7. Through(b) = Chunks
  <2>1. BlockOK(b) /\ compute_done[b] = Cardinality(Through(b))
    BY <1>6 DEF BlockOK
  <2>2. Through(b) \subseteq Chunks
    BY DEF Through
  <2>3. /\ Cardinality(Through(b)) <= Cardinality(Chunks)
        /\ Cardinality(Chunks) = Cardinality(Through(b)) => Chunks = Through(b)
    BY <1>1, <2>2, FS_Subset, Zenon
  <2>4. Cardinality(Through(b)) \in Nat
    BY <1>1, <2>2, FS_Subset, FS_CardinalityType, Zenon
  <2>5. QED
    BY <1>1, <1>2, <2>1, <2>3, <2>4
<1>8. \A k \in Chunks : computed[tile[b]][k] = 1
  <2>1. BlockOK(b)
    OBVIOUS
  <2>2. \A k \in Chunks : warp[b][k] = "sync"
    BY <1>7 DEF Through
  <2>3. QED
    BY <1>6, <2>1, <2>2 DEF BlockOK
<1>9. ASSUME NEW a \in Blocks
      PROVE  BlockOK(a)'
  <2>1. BlockOK(a)
    OBVIOUS
  <2>2. CASE a = b
    BY <1>1, <1>4, <1>6, <1>7, <2>2 DEF BlockOK
  <2>3. CASE a # b
    BY <1>1, <1>2, <1>4, <1>6, <2>1, <2>3 DEF BlockOK
  <2>4. QED
    BY <2>2, <2>3
<1>10. TilesApart'
  BY <1>2, <1>6 DEF TilesApart
<1>11. ASSUME NEW t \in TileIds
       PROVE  TileOK(t)'
  <2>1. TileOK(t)
    OBVIOUS
  <2>2. CASE t = tile[b]
    <3>1. next_tile > t /\ t \in Nat /\ next_tile \in Nat
      BY <1>6, <2>2 DEF BlockOK, TileIds, GpuTypes
    <3>2. QED
      BY <1>1, <1>2, <1>8, <2>2, <3>1 DEF TileOK
  <2>3. CASE t # tile[b]
    <3>1. (\A a \in Blocks : Active(a)' => tile'[a] # t)
            => (\A a \in Blocks : Active(a) => tile[a] # t)
      BY <1>2, <1>6, <2>3
    <3>2. QED
      BY <1>1, <1>2, <2>1, <3>1 DEF TileOK
  <2>4. QED
    BY <2>2, <2>3
<1>12. QED
  BY <1>1, <1>3, <1>5, <1>9, <1>10, <1>11

\* A compute warp starts on its chunk, which nobody has computed.
LEMMA StartComputeSched ==
  ASSUME SchedInv, NEW b \in Blocks, NEW k \in Chunks, StartCompute(b, k), config' = config
  PROVE  SchedInv'
<1> USE DEF SchedInv
<1>1. /\ K \in Nat /\ K > 0 /\ Tiles \in Nat /\ Chunks' = Chunks /\ TileIds' = TileIds
      /\ K' = K /\ Tiles' = Tiles
  BY Shape, SameShape DEF GpuTypes
<1>2. /\ warp[b][k] = "wait" /\ chunks_ready[b] > k
      /\ warp' = [warp EXCEPT ![b][k] = "compute"]
      /\ computed' = [computed EXCEPT ![tile[b]][k] = @ + 1]
      /\ UNCHANGED <<next_tile, pc, tile, chunk, chunks_ready, compute_done, host, launches>>
  BY DEF StartCompute, hostVars
<1>3. Active(b)
  BY <1>2 DEF BlockOK, Through
<1>4. /\ tile[b] \in TileIds /\ tile[b] < next_tile /\ chunks_ready[b] = chunk[b]
      /\ computed[tile[b]][k] = 0
  BY <1>2, <1>3 DEF BlockOK
<1>5. /\ warp'[b][k] = "compute" /\ \A j \in Chunks : j # k => warp'[b][j] = warp[b][j]
      /\ \A a \in Blocks : a # b => warp'[a] = warp[a]
  BY <1>2 DEF GpuTypes
<1>6. /\ computed'[tile[b]][k] = 1
      /\ \A j \in Chunks : j # k => computed'[tile[b]][j] = computed[tile[b]][j]
      /\ \A t \in TileIds : t # tile[b] => computed'[t] = computed[t]
  BY <1>2, <1>4 DEF GpuTypes
<1>7. GpuTypes'
  BY <1>1, <1>2, <1>4 DEF GpuTypes, WarpSet
<1>8. HostInv' /\ TilesApart' /\ \A a \in Blocks : Active(a)' <=> Active(a)
  BY <1>2 DEF HostInv, TilesApart, Active
<1>9. \A a \in Blocks : Through(a)' = Through(a)
  BY <1>1, <1>2, <1>5 DEF Through
<1>10. ASSUME NEW a \in Blocks
       PROVE  BlockOK(a)'
  <2>1. BlockOK(a) /\ k \in Nat
    BY <1>1 DEF Chunks
  <2>2. CASE a = b
    BY <1>1, <1>2, <1>3, <1>4, <1>5, <1>6, <1>8, <1>9, <2>1, <2>2 DEF BlockOK
  <2>3. CASE a # b
    <3>1. Active(a) => tile[a] # tile[b] /\ tile[a] \in TileIds
      BY <1>3, <2>1, <2>3 DEF TilesApart, BlockOK
    <3>2. Active(a) => computed'[tile[a]] = computed[tile[a]]
      BY <1>6, <3>1
    <3>3. QED
      BY <1>1, <1>2, <1>5, <1>8, <1>9, <2>1, <2>3, <3>2 DEF BlockOK
  <2>4. QED
    BY <2>2, <2>3
<1>11. ASSUME NEW t \in TileIds
       PROVE  TileOK(t)'
  <2>1. TileOK(t) /\ t \in Nat /\ next_tile \in Nat
    BY <1>1 DEF TileIds, GpuTypes
  <2>2. CASE t = tile[b]
    BY <1>1, <1>2, <1>3, <1>4, <1>8, <2>1, <2>2 DEF TileOK
  <2>3. CASE t # tile[b]
    BY <1>1, <1>2, <1>6, <1>8, <2>1, <2>3 DEF TileOK
  <2>4. QED
    BY <2>2, <2>3
<1>12. QED
  BY <1>1, <1>7, <1>8, <1>10, <1>11

\* A compute warp counts itself done.
LEMMA FinishComputeSched ==
  ASSUME SchedInv, NEW b \in Blocks, NEW k \in Chunks, FinishCompute(b, k), config' = config
  PROVE  SchedInv'
<1> USE DEF SchedInv
<1>1. /\ K \in Nat /\ K > 0 /\ Tiles \in Nat /\ Chunks' = Chunks /\ TileIds' = TileIds
      /\ K' = K /\ Tiles' = Tiles /\ IsFiniteSet(Chunks)
  BY Shape, SameShape DEF GpuTypes
<1>2. /\ warp[b][k] = "compute"
      /\ warp' = [warp EXCEPT ![b][k] = "sync"]
      /\ compute_done' = [compute_done EXCEPT ![b] = @ + 1]
      /\ UNCHANGED <<next_tile, pc, tile, chunk, chunks_ready, computed, host, launches>>
  BY DEF FinishCompute, hostVars
<1>3. Active(b)
  BY <1>2 DEF BlockOK, Through
<1>4. /\ warp'[b][k] = "sync" /\ \A j \in Chunks : j # k => warp'[b][j] = warp[b][j]
      /\ \A a \in Blocks : a # b => warp'[a] = warp[a] /\ compute_done'[a] = compute_done[a]
      /\ compute_done'[b] = compute_done[b] + 1
  BY <1>2 DEF GpuTypes
<1>5. GpuTypes'
  BY <1>1, <1>2 DEF GpuTypes, WarpSet
<1>6. HostInv' /\ TilesApart' /\ \A a \in Blocks : Active(a)' <=> Active(a)
  BY <1>2 DEF HostInv, TilesApart, Active
<1>7. \A a \in Blocks : a # b => Through(a)' = Through(a)
  BY <1>1, <1>4 DEF Through
<1>8. Cardinality(Through(b)') = Cardinality(Through(b)) + 1
  <2>1. Through(b)' = Through(b) \cup {k} /\ k \notin Through(b)
    BY <1>1, <1>2, <1>4 DEF Through
  <2>2. IsFiniteSet(Through(b))
    <3>1. Through(b) \subseteq Chunks
      BY DEF Through
    <3>2. QED
      BY <1>1, <3>1, FS_Subset
  <2>3. QED
    BY <2>1, <2>2, FS_AddElement
<1>9. ASSUME NEW a \in Blocks
      PROVE  BlockOK(a)'
  <2>1. BlockOK(a)
    OBVIOUS
  <2>2. CASE a = b
    BY <1>1, <1>2, <1>3, <1>4, <1>6, <1>8, <2>1, <2>2 DEF BlockOK
  <2>3. CASE a # b
    BY <1>1, <1>2, <1>4, <1>6, <1>7, <2>1, <2>3 DEF BlockOK
  <2>4. QED
    BY <2>2, <2>3
<1>10. \A t \in TileIds : TileOK(t)'
  BY <1>1, <1>2, <1>6 DEF TileOK
<1>11. QED
  BY <1>1, <1>5, <1>6, <1>9, <1>10

\* A new launch starts with every tile still to be dealt.
LEMMA RelaunchSched ==
  ASSUME SchedInv, Relaunch
  PROVE  SchedInv'
<1> USE DEF SchedInv
<1>1. config' = config
  BY DEF Relaunch
<1>2. /\ K \in Nat /\ K > 0 /\ Tiles \in Nat /\ Chunks' = Chunks /\ TileIds' = TileIds
      /\ K' = K /\ Tiles' = Tiles
  BY <1>1, Shape, SameShape DEF GpuTypes
<1>3. /\ next_tile' = 0 /\ pc' = [b \in Blocks |-> "acquire_tile"]
      /\ computed' = [t \in TileIds |-> [k \in Chunks |-> 0]]
      /\ host' = "running" /\ launches' = launches + 1 /\ host = "stopping"
      /\ UNCHANGED <<tile, chunk, chunks_ready, compute_done, warp>>
  BY DEF Relaunch
<1>4. GpuTypes' /\ HostInv'
  BY <1>1, <1>2, <1>3 DEF GpuTypes, HostInv, PlaceSet, WarpSet
<1>5. \A b \in Blocks : ~Active(b) /\ ~Active(b)' /\ Through(b)' = Through(b)
  BY <1>2, <1>3 DEF HostInv, Active, Through
<1>6. \A b \in Blocks : BlockOK(b)'
  BY <1>2, <1>3, <1>5 DEF BlockOK
<1>7. TilesApart'
  BY <1>5 DEF TilesApart
<1>8. \A t \in TileIds : TileOK(t)'
  <2>1. \A t \in TileIds : t \in Nat
    BY <1>2 DEF TileIds
  <2>2. QED
    BY <1>2, <1>3, <2>1 DEF TileOK
<1>9. QED
  BY <1>2, <1>4, <1>6, <1>7, <1>8

\* The other steps change nothing that the invariant mentions but the host.
LEMMA FrameSched ==
  ASSUME SchedInv, HostInv',
         UNCHANGED <<config, next_tile, pc, tile, chunk, chunks_ready, compute_done, warp,
                     computed>>
  PROVE  SchedInv'
<1>1. Chunks' = Chunks /\ TileIds' = TileIds /\ K' = K /\ Tiles' = Tiles
  BY SameShape
<1>2. GpuTypes' /\ TilesApart' /\ \A b \in Blocks : Active(b)' = Active(b)
  BY <1>1 DEF SchedInv, GpuTypes, TilesApart, Active
<1>3. \A b \in Blocks : Through(b)' = Through(b)
  BY <1>1 DEF Through
<1>4. \A b \in Blocks : BlockOK(b)'
  BY <1>1, <1>2, <1>3 DEF SchedInv, BlockOK
<1>5. \A t \in TileIds : TileOK(t)'
  BY <1>1, <1>2 DEF SchedInv, TileOK
<1>6. QED
  BY <1>1, <1>2, <1>4, <1>5 DEF SchedInv

\* The first launch starts with every tile still to be dealt.
LEMMA InitSched ==
  ASSUME Init
  PROVE  SchedInv
<1>1. config \in Sessions
  BY DEF Init
<1>2. /\ K \in Nat /\ K > 0 /\ Tiles \in Nat
  BY <1>1, Shape
<1>3. \A t \in TileIds : t \in Nat
  BY <1>2 DEF TileIds
<1>4. GpuTypes /\ HostInv
  BY <1>1, <1>2 DEF Init, GpuTypes, HostInv, PlaceSet, WarpSet, IdleWarps
<1>5. \A b \in Blocks : ~Active(b) /\ Through(b) = Chunks /\ pc[b] # "exit"
  BY DEF Init, Active, Through, IdleWarps
<1>6. QED
  BY <1>2, <1>3, <1>4, <1>5 DEF Init, SchedInv, TilesApart, BlockOK, TileOK

\* Every step preserves the scheduling invariant.
LEMMA StepSched ==
  ASSUME SchedInv, [Next]_vars
  PROVE  SchedInv'
<1>1. config' = config
  BY ConfigFixed
<1>2. CASE \E b \in Blocks : TransferWarp(b)
  <2>1. PICK b \in Blocks : TransferWarp(b)
    BY <1>2
  <2>2. /\ K \in Nat /\ chunk[b] \in Nat /\ chunks_ready \in [Blocks -> Nat]
        /\ chunk \in [Blocks -> Nat] /\ BlockOK(b)
    BY Shape DEF SchedInv, GpuTypes
  <2>3. CASE AcquireTile(b)
    BY <1>1, <2>3, AcquireTileSched
  <2>4. CASE AcquireSlots(b)
    <3>1. /\ pc[b] = "acquire_slots" /\ pc' = [pc EXCEPT ![b] = "commit"]
          /\ UNCHANGED <<config, next_tile, tile, chunk, chunks_ready, compute_done, warp,
                         computed, host, launches>>
      BY <2>4 DEF AcquireSlots, hostVars
    <3>2. Active(b) /\ chunks_ready[b] = chunk[b] /\ chunk[b] < K
      BY <2>2, <3>1 DEF Active, BlockOK
    <3>3. /\ chunk' = [chunk EXCEPT ![b] = chunk[b]]
          /\ chunks_ready' = [chunks_ready EXCEPT ![b] = chunk[b]]
      BY <2>2, <3>1, <3>2
    <3>4. chunk[b] <= chunk[b] /\ chunk[b] <= K
      BY <2>2, <3>2
    <3>5. "commit" \in {"acquire_slots", "commit", "wait", "wait_compute"}
      OBVIOUS
    <3>6. QED
      BY <2>2, <3>1, <3>2, <3>3, <3>4, <3>5, PlaceSched, Zenon
  <2>5. CASE CommitSlot(b)
    <3>1. PICK i \in pending[b] :
            pc' = [pc EXCEPT ![b] = IF pending[b] = {i} THEN "wait" ELSE "commit"]
      BY <2>5 DEF CommitSlot
    <3>2. /\ pc[b] = "commit"
          /\ UNCHANGED <<config, next_tile, tile, chunk, chunks_ready, compute_done, warp,
                         computed, host, launches>>
      BY <2>5 DEF CommitSlot, hostVars
    <3>3. Active(b) /\ chunks_ready[b] = chunk[b] /\ chunk[b] < K
      BY <2>2, <3>2 DEF Active, BlockOK
    <3>4. /\ chunk' = [chunk EXCEPT ![b] = chunk[b]]
          /\ chunks_ready' = [chunks_ready EXCEPT ![b] = chunk[b]]
      BY <2>2, <3>2, <3>3
    <3>5. PICK p \in {"acquire_slots", "commit", "wait", "wait_compute"} :
            pc' = [pc EXCEPT ![b] = p]
      BY <3>1
    <3>6. chunk[b] <= chunk[b] /\ chunk[b] <= K
      BY <2>2, <3>3
    <3>7. QED
      BY <2>2, <3>2, <3>3, <3>4, <3>5, <3>6, PlaceSched, Zenon
  <2>6. CASE WaitChunkDone(b)
    <3>1. /\ pc[b] = "wait"
          /\ chunks_ready' = [chunks_ready EXCEPT ![b] = chunk[b] + 1]
          /\ chunk' = [chunk EXCEPT ![b] = chunk[b] + 1]
          /\ pc' = [pc EXCEPT ![b] = IF chunk[b] + 1 < K THEN "acquire_slots"
                                                         ELSE "wait_compute"]
          /\ UNCHANGED <<config, next_tile, tile, compute_done, warp, computed, host,
                         launches>>
      BY <2>6 DEF WaitChunkDone, hostVars
    <3>2. Active(b) /\ chunk[b] < K
      BY <2>2, <3>1 DEF Active, BlockOK
    <3>3. PICK p \in {"acquire_slots", "commit", "wait", "wait_compute"} :
            pc' = [pc EXCEPT ![b] = p] /\ (p # "wait_compute" => chunk[b] + 1 < K)
      BY <3>1
    <3>4. chunk[b] <= chunk[b] + 1 /\ chunk[b] + 1 <= K /\ chunk[b] + 1 \in Nat
      BY <2>2, <3>2
    <3>5. QED
      BY <2>2, <3>1, <3>2, <3>3, <3>4, PlaceSched, Zenon
  <2>7. CASE WaitCompute(b)
    BY <1>1, <2>7, WaitComputeSched
  <2>8. QED
    BY <2>1, <2>3, <2>4, <2>5, <2>6, <2>7 DEF TransferWarp
<1>3. CASE \E b \in Blocks, k \in Chunks : ComputeWarp(b, k)
  BY <1>1, <1>3, StartComputeSched, FinishComputeSched DEF ComputeWarp
<1>4. CASE HostStep
  <2>1. UNCHANGED <<gpuVars, hostVars>>
    BY <1>4, HostFrame
  <2>2. HostInv'
    BY <2>1 DEF SchedInv, HostInv, gpuVars, hostVars
  <2>3. QED
    BY <2>1, <2>2, FrameSched DEF gpuVars, hostVars
<1>5. CASE DeviceSynchronize
  <2>1. HostInv'
    BY <1>5 DEF SchedInv, HostInv, DeviceSynchronize, gpuVars
  <2>2. QED
    BY <1>5, <2>1, FrameSched DEF DeviceSynchronize, gpuVars
<1>6. CASE Relaunch
  BY <1>6, RelaunchSched
<1>7. CASE UNCHANGED vars
  <2>1. HostInv'
    BY <1>7 DEF SchedInv, HostInv, vars, gpuVars, hostVars
  <2>2. QED
    BY <1>7, <2>1, FrameSched DEF vars, gpuVars, hostVars
<1>8. QED
  BY <1>2, <1>3, <1>4, <1>5, <1>6, <1>7 DEF Next, HostStep, Finished, Hangs

\* Every reachable state satisfies the scheduling invariant.
LEMMA SchedInvariant == Spec => []SchedInv
<1>1. Init => SchedInv
  BY InitSched
<1>2. SchedInv /\ [Next]_vars => SchedInv'
  BY StepSched
<1>3. QED
  BY <1>1, <1>2, PTL DEF Spec

\* The kernel's dynamic scheduler hands every chunk of every tile to exactly one
\* compute warp, for any number of blocks, tiles and chunks, whatever order the
\* blocks take their tiles in and however often the session is launched.
THEOREM ChunksComputedOnce == Spec => []EachChunkOnce
<1>1. SchedInv => EachChunkOnce
  <2>1. SUFFICES ASSUME SchedInv
                 PROVE  EachChunkOnce
    OBVIOUS
  <2>2. /\ computed \in [TileIds -> [Chunks -> Nat]] /\ next_tile \in Nat /\ Tiles \in Nat
    BY <2>1, Shape DEF SchedInv, GpuTypes
  <2>3. ASSUME NEW t \in TileIds, NEW k \in Chunks
        PROVE  computed[t][k] <= 1
    <3>1. TileOK(t) /\ t \in Nat
      BY <2>1, <2>2 DEF SchedInv, TileIds
    <3>2. CASE \E b \in Blocks : Active(b) /\ tile[b] = t
      BY <2>1, <3>2 DEF SchedInv, BlockOK
    <3>3. CASE ~ \E b \in Blocks : Active(b) /\ tile[b] = t
      BY <2>2, <3>1, <3>3 DEF TileOK
    <3>4. QED
      BY <3>2, <3>3
  <2>4. ASSUME \A b \in Blocks : pc[b] = "exit", NEW t \in TileIds, NEW k \in Chunks
        PROVE  computed[t][k] = 1
    <3>1. PICK b \in Blocks : pc[b] = "exit"
      BY <2>4, TiledAssumption
    <3>2. next_tile >= Tiles
      BY <2>1, <3>1 DEF SchedInv, BlockOK
    <3>3. t < next_tile /\ TileOK(t)
      BY <2>1, <2>2, <3>2 DEF SchedInv, TileIds
    <3>4. \A a \in Blocks : ~Active(a)
      BY <2>4 DEF Active
    <3>5. QED
      BY <3>3, <3>4 DEF TileOK
  <2>5. QED
    BY <2>3, <2>4 DEF EachChunkOnce
<1>2. QED
  BY <1>1, SchedInvariant, PTL

-----------------------------------------------------------------------------
(* The ring: every step preserves the invariant *)

\* The slot sequence, spelled out: an entry of the ring is an Entry.
LEMMA EntryTypes ==
  ASSUME RingTypes
  PROVE  /\ write_idx \in Nat /\ Len(batch) \in Nat /\ read_idx \in Nat /\ First \in Nat
         /\ \A n \in 1..write_idx : entries[n] \in Entry
         /\ \A n \in 1..Len(batch) : batch[n] \in BatchEntry
<1>1. entries \in Seq(Entry) /\ batch \in Seq(BatchEntry)
  BY DEF RingTypes
<1>2. /\ Len(entries) \in Nat /\ Len(batch) \in Nat
      /\ \A n \in 1..Len(entries) : entries[n] \in Entry
      /\ \A n \in 1..Len(batch) : batch[n] \in BatchEntry
  BY <1>1, LenProperties, ElementOfSeq
<1>3. QED
  BY <1>2 DEF RingTypes, First, write_idx

\* Chunks in the ring stay as they are when no descriptor is added.
LEMMA ChunksKept ==
  ASSUME ChunkInv, config' = config, entries' = entries,
         \A b \in Blocks : Holds(b)' => /\ Holds(b) /\ Base(b)' = Base(b) /\ tile'[b] = tile[b]
                                        /\ pending'[b] \subseteq pending[b]
  PROVE  ChunkInv'
<1>1. C' = C /\ write_idx' = write_idx
  BY SameShape DEF write_idx
<1>2. QED
  BY <1>1 DEF ChunkInv

\* Steps that leave the ring and the poller's batch alone.
LEMMA RingKept ==
  ASSUME RingInv, config' = config,
         UNCHANGED <<entries, committed, read_idx, batch, poll_pc, split>>,
         chunk_base' \in [Blocks -> [Chunks -> Int]], pending' \in [Blocks -> SUBSET Nat],
         \A b \in Blocks : Holds(b)' => /\ Holds(b) /\ Base(b)' = Base(b) /\ tile'[b] = tile[b]
                                        /\ pending'[b] \subseteq pending[b]
  PROVE  RingInv'
<1>1. write_idx' = write_idx /\ Chunks' = Chunks /\ First' = First
  BY SameShape DEF write_idx, First
<1>2. RingTypes'
  BY <1>1 DEF RingInv, RingTypes
<1>3. ChunkInv'
  BY ChunksKept DEF RingInv
<1>4. EntryRuns' /\ BatchInv' /\ OneChunkPerBatch'
  BY <1>1 DEF RingInv, EntryRuns, BatchInv, OneChunkPerBatch
<1>5. QED
  BY <1>2, <1>3, <1>4 DEF RingInv

\* The descriptors AcquireSlots appends: the ring grows by one chunk.
LEMMA RingGrows ==
  ASSUME RingTypes, GpuTypes, NEW b \in Blocks, AcquireSlots(b)
  PROVE  /\ entries' \in Seq(Entry) /\ write_idx' = write_idx + C
         /\ \A n \in 1..write_idx : entries'[n] = entries[n]
         /\ \A i \in 1..C : /\ entries'[write_idx + i].tile = tile[b]
                            /\ entries'[write_idx + i].last <=> (i = C)
<1> DEFINE new == [i \in 1..C |-> [tile |-> tile[b], last |-> i = C]]
<1>1. C \in Nat /\ C > 0 /\ tile[b] \in Nat
  BY Shape DEF GpuTypes
<1>2. \A i \in 1..C : /\ [tile |-> tile[b], last |-> i = C] \in Entry
  BY <1>1 DEF Entry
<1>3. /\ new \in Seq(Entry) /\ Len(new) = C
      /\ \A i \in 1..C : new[i].tile = tile[b] /\ (new[i].last <=> (i = C))
  <2>1. new \in [1..C -> Entry] /\ DOMAIN new = 1..C
    BY <1>2, Zenon
  <2>2. \A i \in 1..C : new[i] = [tile |-> tile[b], last |-> i = C]
    BY Zenon
  <2>3. \A i \in 1..C : new[i].tile = tile[b] /\ (new[i].last <=> (i = C))
    BY <2>2
  <2> HIDE DEF new
  <2>4. new \in Seq(Entry) /\ Len(new) = C
    BY <1>1, <2>1
  <2>5. QED
    BY <2>3, <2>4
<1>4. entries' = entries \o new /\ entries \in Seq(Entry)
  BY DEF AcquireSlots, RingTypes
<1> HIDE DEF new
<1>5. /\ entries' \in Seq(Entry) /\ Len(entries') = Len(entries) + Len(new)
      /\ \A n \in 1..Len(entries) + Len(new) :
           entries'[n] = IF n <= Len(entries) THEN entries[n] ELSE new[n - Len(entries)]
  BY <1>3, <1>4, ConcatProperties
<1>6. Len(entries) \in Nat
  BY <1>4, LenProperties
<1>7. \A n \in 1..Len(entries) : entries'[n] = entries[n]
  BY <1>1, <1>3, <1>5, <1>6
<1>8. \A i \in 1..C : entries'[Len(entries) + i] = new[i]
  BY <1>1, <1>3, <1>5, <1>6
<1>9. QED
  BY <1>3, <1>5, <1>7, <1>8 DEF write_idx

\* A block gets its slots and writes its chunk.
LEMMA AcquireSlotsRing ==
  ASSUME SchedInv, RingInv, NEW b \in Blocks, AcquireSlots(b), config' = config
  PROVE  RingInv'
<1>1. /\ C \in Nat /\ C > 0 /\ K \in Nat /\ C' = C /\ K' = K /\ Chunks' = Chunks
      /\ GpuTypes /\ RingTypes /\ EntryRuns /\ ChunkInv /\ BatchInv /\ OneChunkPerBatch
  BY Shape, SameShape DEF SchedInv, GpuTypes, RingInv
<1>2. /\ pc[b] = "acquire_slots" /\ pc' = [pc EXCEPT ![b] = "commit"]
      /\ chunk_base' = [chunk_base EXCEPT ![b][chunk[b]] = write_idx]
      /\ pending' = [pending EXCEPT ![b] = 0..(C - 1)]
      /\ UNCHANGED <<committed, tile, chunk, read_idx, batch, poll_pc, split>>
  BY DEF AcquireSlots, pollerVars
<1>3. /\ entries' \in Seq(Entry) /\ write_idx' = write_idx + C
      /\ \A n \in 1..write_idx : entries'[n] = entries[n]
      /\ \A i \in 1..C : /\ entries'[write_idx + i].tile = tile[b]
                         /\ entries'[write_idx + i].last <=> (i = C)
  BY <1>1, RingGrows
<1>4. /\ write_idx \in Nat /\ Len(batch) \in Nat /\ read_idx \in Nat /\ First \in Nat
      /\ read_idx <= write_idx
  BY <1>1, EntryTypes DEF RingTypes
<1>5. chunk[b] \in Chunks
  <2>1. BlockOK(b) /\ chunk[b] \in Nat
    BY <1>1 DEF SchedInv, GpuTypes
  <2>2. chunk[b] < K
    BY <1>2, <2>1 DEF BlockOK, Active
  <2>3. QED
    BY <1>1, <2>1, <2>2 DEF Chunks
<1>6. /\ pc'[b] = "commit" /\ \A a \in Blocks : a # b => pc'[a] = pc[a]
  BY <1>1, <1>2 DEF GpuTypes
<1>7. /\ chunk_base'[b][chunk[b]] = write_idx /\ pending'[b] = 0..(C - 1)
      /\ \A a \in Blocks : a # b => chunk_base'[a] = chunk_base[a] /\ pending'[a] = pending[a]
  BY <1>1, <1>2, <1>5 DEF RingTypes
<1>8. RingTypes'
  <2>1. committed' \subseteq 0..(write_idx' - 1) /\ read_idx' \in 0..write_idx'
    BY <1>1, <1>2, <1>3, <1>4 DEF RingTypes
  <2>2. chunk_base' \in [Blocks -> [Chunks -> Int]]
    <3>1. chunk_base[b] \in [Chunks -> Int] /\ write_idx \in Int
      BY <1>1, <1>4 DEF RingTypes
    <3>2. [chunk_base[b] EXCEPT ![chunk[b]] = write_idx] \in [Chunks -> Int]
      BY <3>1
    <3>3. chunk_base' = [chunk_base EXCEPT ![b] = [chunk_base[b] EXCEPT ![chunk[b]] = write_idx]]
      BY <1>2
    <3>4. chunk_base \in [Blocks -> [Chunks -> Int]]
      BY <1>1 DEF RingTypes
    <3>5. QED
      BY <3>2, <3>3, <3>4
  <2>3. pending' \in [Blocks -> SUBSET Nat]
    <3>1. 0..(C - 1) \in SUBSET Nat /\ pending \in [Blocks -> SUBSET Nat]
      BY <1>1 DEF RingTypes
    <3>2. QED
      BY <1>2, <3>1
  <2>4. QED
    BY <1>1, <1>2, <1>3, <2>1, <2>2, <2>3 DEF RingTypes
<1>9. EntryRuns'
  <2>1. ASSUME NEW n \in 1..write_idx', ~entries'[n].last
        PROVE  n < write_idx' /\ entries'[n + 1].tile = entries'[n].tile
    <3>1. CASE n \in 1..write_idx
      <4>1. n < write_idx /\ entries[n + 1].tile = entries[n].tile
        BY <1>1, <1>3, <2>1, <3>1 DEF EntryRuns
      <4>2. n + 1 \in 1..write_idx
        BY <1>4, <3>1, <4>1
      <4>3. QED
        BY <1>1, <1>3, <1>4, <3>1, <4>1, <4>2
    <3>2. CASE n \notin 1..write_idx
      <4>1. PICK i \in 1..C : n = write_idx + i
        <5>1. n - write_idx \in 1..C /\ n = write_idx + (n - write_idx)
          BY <1>1, <1>3, <1>4, <2>1, <3>2
        <5>2. QED
          BY <5>1
      <4>2. i # C
        BY <1>3, <2>1, <4>1
      <4>3. i + 1 \in 1..C /\ n + 1 = write_idx + (i + 1)
        BY <1>1, <1>4, <4>1, <4>2
      <4>4. entries'[n + 1].tile = tile[b] /\ entries'[n].tile = tile[b]
        BY <1>3, <4>1, <4>3
      <4>5. QED
        BY <1>1, <1>3, <1>4, <4>1, <4>2, <4>4
    <3>3. QED
      BY <3>1, <3>2
  <2>2. QED
    BY <2>1 DEF EntryRuns
<1>10. ASSUME NEW a \in Blocks, Holds(a)'
       PROVE  /\ Base(a)' \in Nat /\ Base(a)' + C <= write_idx'
              /\ pending'[a] \subseteq 0..(C - 1)
              /\ \A i \in 0..(C - 1) :
                   /\ entries'[Base(a)' + i + 1].tile = tile'[a]
                   /\ entries'[Base(a)' + i + 1].last <=> (i = C - 1)
  <2>1. CASE a = b
    <3>1. Base(a)' = write_idx
      BY <1>2, <1>7, <2>1 DEF Base
    <3>2. \A i \in 0..(C - 1) : i + 1 \in 1..C /\ write_idx + i + 1 = write_idx + (i + 1)
                                 /\ (i + 1 = C <=> i = C - 1)
      BY <1>1, <1>4
    <3>3. \A i \in 0..(C - 1) : /\ entries'[write_idx + i + 1].tile = tile[b]
                                /\ entries'[write_idx + i + 1].last <=> (i = C - 1)
      BY <1>3, <3>2
    <3>4. pending'[a] \subseteq 0..(C - 1) /\ tile'[a] = tile[b]
      BY <1>2, <1>7, <2>1
    <3>5. write_idx + C <= write_idx'
      BY <1>1, <1>3, <1>4
    <3>6. Base(a)' \in Nat /\ Base(a)' + C <= write_idx'
      BY <1>4, <3>1, <3>5
    <3>7. QED
      BY <3>1, <3>3, <3>4, <3>6
  <2>2. CASE a # b
    <3>1. Holds(a) /\ Base(a)' = Base(a) /\ pending'[a] = pending[a]
      BY <1>2, <1>6, <1>7, <1>10, <2>2 DEF Holds, Base
    <3>2. /\ Base(a) \in Nat /\ Base(a) + C <= write_idx /\ pending[a] \subseteq 0..(C - 1)
          /\ \A i \in 0..(C - 1) :
                   /\ entries[Base(a) + i + 1].tile = tile[a]
                   /\ entries[Base(a) + i + 1].last <=> (i = C - 1)
      BY <1>1, <3>1 DEF ChunkInv
    <3>3. \A i \in 0..(C - 1) : Base(a) + i + 1 \in 1..write_idx
      BY <1>1, <1>4, <3>2
    <3>4. \A i \in 0..(C - 1) : entries'[Base(a) + i + 1] = entries[Base(a) + i + 1]
      BY <1>3, <3>3
    <3>5. Base(a) + C <= write_idx' /\ tile'[a] = tile[a]
      BY <1>1, <1>2, <1>3, <1>4, <3>2
    <3>6. QED
      BY <3>1, <3>2, <3>4, <3>5
  <2>3. QED
    BY <2>1, <2>2
<1>11. ChunkInv'
  BY <1>1, <1>10 DEF ChunkInv
<1>12. OneChunkPerBatch'
  BY <1>1, <1>2 DEF OneChunkPerBatch
<1>13. BatchInv'
  <2>1. First' = First
    BY <1>2 DEF First
  <2>2. \A n \in 1..Len(batch) : First + n \in 1..write_idx
    BY <1>4 DEF First
  <2>3. \A n \in 1..Len(batch) : entries'[First + n] = entries[First + n]
    BY <1>3, <2>2
  <2>4. QED
    BY <1>1, <1>2, <2>1, <2>3 DEF BatchInv
<1>14. QED
  BY <1>8, <1>9, <1>11, <1>12, <1>13 DEF RingInv

\* The polling loop takes the next descriptor into its batch.
LEMMA PollEntryRing ==
  ASSUME RingInv, PollEntry, config' = config
  PROVE  RingInv'
<1> DEFINE e == entries[read_idx + 1]
           x == [tile |-> e.tile, last |-> e.last, slot |-> read_idx]
<1>1. RingTypes /\ EntryRuns /\ ChunkInv /\ BatchInv /\ OneChunkPerBatch
  BY DEF RingInv
<1>2. /\ poll_pc = "poll" /\ read_idx \in committed /\ batch' = Append(batch, x)
      /\ poll_pc' = (IF EndsBatch(e) THEN "flush" ELSE "poll")
      /\ split' = (split \/ (EndsBatch(e) /\ ~e.last))
      /\ read_idx' = read_idx + 1
      /\ UNCHANGED <<entries, committed, chunk_base, pending, pc, chunk, tile>>
  BY DEF PollEntry, gpuVars
<1>3. /\ write_idx \in Nat /\ Len(batch) \in Nat /\ read_idx \in Nat /\ First \in Nat
      /\ \A n \in 1..write_idx : entries[n] \in Entry
      /\ \A n \in 1..Len(batch) : batch[n] \in BatchEntry
  BY <1>1, EntryTypes
<1>4. read_idx < write_idx /\ read_idx + 1 \in 1..write_idx /\ write_idx' = write_idx
  BY <1>1, <1>2, <1>3 DEF RingTypes, write_idx
<1>5. e \in Entry /\ x \in BatchEntry
  BY <1>3, <1>4 DEF Entry, BatchEntry
<1>6. x.tile = e.tile /\ x.last = e.last /\ x.slot = read_idx
  OBVIOUS
<1>7. batch \in Seq(BatchEntry)
  BY <1>1 DEF RingTypes
<1> HIDE DEF x
<1>8. /\ batch' \in Seq(BatchEntry) /\ batch' # <<>> /\ Len(batch') = Len(batch) + 1
      /\ \A n \in 1..Len(batch) : batch'[n] = batch[n]
      /\ batch'[Len(batch) + 1] = x
  BY <1>2, <1>5, <1>7, AppendProperties
<1>9. First' = First /\ First + Len(batch) = read_idx
  BY <1>2, <1>3, <1>8 DEF First
<1>10. e.last => EndsBatch(e)
  BY DEF EndsBatch
<1>11. e.last \in BOOLEAN /\ EndsBatch(e) \in BOOLEAN
  BY <1>5 DEF Entry, EndsBatch
<1>12. split' \in BOOLEAN /\ poll_pc' \in {"poll", "flush"}
       /\ (poll_pc' = "poll" => ~e.last) /\ (poll_pc' = "flush" /\ ~split' => e.last)
  <2>1. CASE EndsBatch(e)
    <3>1. poll_pc' = "flush" /\ split' = (split \/ ~e.last)
      BY <1>2, <2>1, Zenon
    <3>2. split' \in BOOLEAN /\ (~split' => e.last)
      BY <1>11, <3>1, Zenon
    <3>3. QED
      BY <3>1, <3>2
  <2>2. CASE ~EndsBatch(e)
    <3>1. poll_pc' = "poll" /\ split' = split /\ ~e.last
      <4>1. poll_pc' = "poll" /\ split' = (split \/ FALSE) /\ ~e.last
        BY <1>2, <1>10, <2>2, Zenon
      <4>2. split \in BOOLEAN
        BY <1>1 DEF RingTypes
      <4>3. QED
        BY <4>1, <4>2, Zenon
    <3>2. split' \in BOOLEAN
      BY <1>1, <3>1 DEF RingTypes
    <3>3. QED
      BY <3>1, <3>2
  <2>3. QED
    BY <2>1, <2>2
<1> HIDE DEF e
<1>13. Chunks' = Chunks
  BY SameShape
<1>14. RingTypes'
  BY <1>1, <1>2, <1>3, <1>4, <1>8, <1>12, <1>13 DEF RingTypes, PollSet
<1>15. EntryRuns'
  BY <1>1, <1>2, <1>4 DEF EntryRuns
<1>16. ChunkInv'
  <2>1. \A b \in Blocks : /\ Holds(b)' <=> Holds(b) /\ Base(b)' = Base(b)
                          /\ tile'[b] = tile[b] /\ pending'[b] = pending[b]
    BY <1>2 DEF Holds, Base
  <2>2. QED
    BY <1>1, <1>2, <2>1, ChunksKept
<1>17. ASSUME NEW n \in 1..Len(batch')
       PROVE  /\ batch'[n].slot = First + n - 1
              /\ batch'[n].tile = entries[First + n].tile
              /\ batch'[n].last = entries[First + n].last
              /\ n < Len(batch') \/ poll_pc' = "poll" => ~batch'[n].last
  <2>1. CASE n \in 1..Len(batch)
    BY <1>1, <1>2, <1>8, <2>1 DEF BatchInv
  <2>2. CASE n = Len(batch) + 1
    <3>1. batch'[n] = x /\ First + n = read_idx + 1 /\ ~(n < Len(batch'))
          /\ First + n - 1 = read_idx
      BY <1>3, <1>8, <1>9, <2>2
    <3>2. x.tile = entries[First + n].tile /\ x.last = entries[First + n].last
      BY <1>6, <3>1 DEF e
    <3>3. QED
      BY <1>6, <1>12, <3>1, <3>2
  <2>3. QED
    BY <1>3, <1>8, <1>17, <2>1, <2>2
<1>18. BatchInv'
  <2>1. poll_pc' \notin {"events", "idle", "data", "signal", "event", "publish"}
    BY <1>12
  <2>2. poll_pc' \notin {"poll", "events", "idle"} /\ ~split' => batch'[Len(batch')].last
    BY <1>6, <1>8, <1>12
  <2>3. QED
    BY <1>2, <1>8, <1>9, <1>17, <2>1, <2>2 DEF BatchInv
<1>19. OneChunkPerBatch'
  <2>1. SUFFICES ASSUME NEW m \in 1..Len(batch'), NEW n \in 1..Len(batch'), m < n
                 PROVE  /\ batch'[n].slot = batch'[m].slot + (n - m)
                        /\ batch'[m].tile = batch'[n].tile
                        /\ ~batch'[m].last
    BY DEF OneChunkPerBatch
  <2>2. m \in 1..Len(batch) /\ batch'[m] = batch[m] /\ ~batch'[m].last
    BY <1>1, <1>2, <1>3, <1>8, <2>1 DEF BatchInv
  <2>3. CASE n \in 1..Len(batch)
    BY <1>1, <1>8, <2>1, <2>2, <2>3 DEF OneChunkPerBatch
  <2>4. CASE n = Len(batch) + 1
    <3> DEFINE l == Len(batch)
    <3>1. l \in 1..Len(batch) /\ First + l = read_idx /\ read_idx \in 1..write_idx
      BY <1>3, <1>4, <1>9, <2>2
    <3>2. /\ batch[l].tile = entries[read_idx].tile /\ batch[l].last = entries[read_idx].last
          /\ ~batch[l].last
      BY <1>1, <1>2, <3>1 DEF BatchInv
    <3>3. entries[read_idx + 1].tile = entries[read_idx].tile
      BY <1>1, <3>1, <3>2 DEF EntryRuns
    <3>4. batch[m].tile = batch[l].tile
      BY <1>1, <1>3, <2>2, <3>1 DEF OneChunkPerBatch
    <3>5. batch'[n].tile = e.tile
      BY <1>6, <1>8, <2>4
    <3>6. batch'[m].tile = batch'[n].tile
      BY <2>2, <3>2, <3>3, <3>4, <3>5 DEF e
    <3>7. batch'[n].slot = First + n - 1 /\ batch'[m].slot = First + m - 1
      BY <1>17, <2>1
    <3>8. QED
      BY <1>3, <2>1, <2>2, <3>6, <3>7
  <2>5. QED
    BY <1>3, <1>8, <2>1, <2>3, <2>4
<1>20. QED
  BY <1>14, <1>15, <1>16, <1>18, <1>19 DEF RingInv

\* Where the poller is between two flushes, and while it flushes.
Resting  == {"poll", "events", "idle"}
Flushing == {"flush", "data", "signal", "event", "publish"}

\* The poller keeps its batch while it flushes, drops it when it is through, or
\* begins to flush after a gap timeout.
LEMMA BatchMoves ==
  ASSUME RingInv, config' = config, gpuVars' = gpuVars, read_idx' = read_idx,
         \/ /\ batch' = batch /\ split' = split
            /\ poll_pc \in Flushing /\ poll_pc' \in Flushing
         \/ /\ batch' = batch /\ split' = split
            /\ poll_pc \in Resting /\ poll_pc' \in Resting /\ batch = <<>>
         \/ /\ batch' = batch /\ split' = TRUE /\ batch # <<>>
            /\ poll_pc' = "flush"
         \/ /\ batch' = <<>> /\ split' = split
            /\ poll_pc' = "poll",
         batch # <<>> \/ poll_pc \notin Flushing,
         poll_pc = "poll" \/ poll_pc' # "flush",
         poll_pc' = "event" => batch[Len(batch)].last
  PROVE  RingInv'
<1>1. RingTypes /\ EntryRuns /\ ChunkInv /\ BatchInv /\ OneChunkPerBatch
  BY DEF RingInv
<1>2. UNCHANGED <<entries, committed, chunk_base, pending, pc, chunk, tile>>
  BY DEF gpuVars
<1>3. /\ write_idx' = write_idx /\ Chunks' = Chunks
  BY <1>2, SameShape DEF write_idx
<1>4. /\ write_idx \in Nat /\ Len(batch) \in Nat /\ read_idx \in Nat /\ First \in Nat
  BY <1>1, EntryTypes
<1>5. <<>> \in Seq(BatchEntry) /\ Len(<<>>) = 0
  BY EmptySeq
<1>6. RingTypes'
  <2>1. batch' \in Seq(BatchEntry) /\ Len(batch') <= read_idx
    <3>1. CASE batch' = batch
      BY <1>1, <3>1 DEF RingTypes
    <3>2. CASE batch' = <<>>
      BY <1>4, <1>5, <3>2
    <3>3. QED
      BY <3>1, <3>2
  <2>2. poll_pc' \in PollSet /\ split' \in BOOLEAN
    BY <1>1 DEF RingTypes, PollSet, Flushing, Resting
  <2>3. QED
    BY <1>1, <1>2, <1>3, <2>1, <2>2 DEF RingTypes
<1>7. EntryRuns'
  BY <1>1, <1>2, <1>3 DEF EntryRuns
<1>8. ChunkInv'
  <2>1. \A b \in Blocks : /\ Holds(b)' <=> Holds(b) /\ Base(b)' = Base(b)
                          /\ tile'[b] = tile[b] /\ pending'[b] = pending[b]
    BY <1>2 DEF Holds, Base
  <2>2. QED
    BY <1>1, <1>2, <2>1, ChunksKept
<1>9. OneChunkPerBatch' /\ BatchInv'
  <2>1. CASE batch' = <<>> /\ poll_pc' = "poll"
    <3>1. Len(batch') = 0
      BY <1>5, <2>1
    <3>2. \A n \in 1..Len(batch') : FALSE
      BY <3>1
    <3>3. OneChunkPerBatch'
      BY <3>2 DEF OneChunkPerBatch
    <3>4. QED
      BY <2>1, <3>2, <3>3 DEF BatchInv
  <2>2. CASE batch' = batch /\ ~(batch' = <<>> /\ poll_pc' = "poll")
    <3>1. First' = First
      BY <2>2 DEF First
    <3>2. OneChunkPerBatch'
      BY <1>1, <2>2 DEF OneChunkPerBatch
    <3>3. CASE /\ split' = split /\ poll_pc \in Flushing /\ poll_pc' \in Flushing
               /\ batch # <<>>
      BY <1>1, <1>2, <2>2, <3>1, <3>2, <3>3 DEF BatchInv, Flushing
    <3>4. CASE batch = <<>> /\ poll_pc \in Resting /\ poll_pc' \in Resting
      <4>1. \A n \in 1..Len(batch') : FALSE
        BY <1>5, <2>2, <3>4
      <4>2. QED
        BY <2>2, <3>2, <3>4, <4>1 DEF BatchInv, Resting
    <3>5. CASE batch # <<>> /\ poll_pc = "poll" /\ poll_pc' = "flush" /\ split' = TRUE
      BY <1>1, <1>2, <2>2, <3>1, <3>2, <3>5 DEF BatchInv
    <3>6. QED
      <4>1. CASE batch = <<>> /\ poll_pc \in Resting /\ poll_pc' \in Resting
        BY <3>4, <4>1
      <4>2. CASE /\ split' = split /\ poll_pc \in Flushing /\ poll_pc' \in Flushing
        BY <3>3, <4>2
      <4>3. CASE split' = TRUE /\ batch # <<>> /\ poll_pc' = "flush"
        BY <3>5, <4>3
      <4>4. QED
        BY <2>2, <4>1, <4>2, <4>3
  <2>3. QED
    BY <2>1, <2>2
<1>10. QED
  BY <1>6, <1>7, <1>8, <1>9 DEF RingInv

\* No poller step mixes chunks in the batch.
LEMMA PollerRing ==
  ASSUME RingInv, Poller, config' = config
  PROVE  RingInv'
<1>1. gpuVars' = gpuVars
  BY HostFrame DEF HostStep
<1>2. /\ poll_pc \in Flushing => batch # <<>>
      /\ poll_pc \in {"events", "idle"} => batch = <<>>
  BY DEF RingInv, BatchInv, Flushing
<1>3. CASE PollEntry
  BY <1>3, PollEntryRing
<1>4. CASE GapTimeout
  <2>1. /\ poll_pc = "poll" /\ batch # <<>> /\ poll_pc' = "flush" /\ split' = TRUE
        /\ batch' = batch /\ read_idx' = read_idx
    BY <1>4 DEF GapTimeout
  <2>2. QED
    BY <1>1, <2>1, BatchMoves DEF Flushing
<1>5. CASE UpdateProgress \/ SubmitData \/ CopyNoCe
  <2>1. /\ poll_pc \in Flushing /\ poll_pc' \in Flushing /\ poll_pc' \notin {"flush", "event"}
        /\ batch' = batch /\ split' = split /\ read_idx' = read_idx
    BY <1>5 DEF UpdateProgress, SubmitData, CopyNoCe, Flushing
  <2>2. QED
    BY <1>1, <1>2, <2>1, BatchMoves
<1>6. CASE ProcessBatch
  <2>1. /\ poll_pc = "flush" /\ split' = split /\ read_idx' = read_idx
        /\ \/ poll_pc' = "event" /\ batch' = batch
           \/ poll_pc' = "poll" /\ batch' = <<>>
    BY <1>6 DEF ProcessBatch, Flushed
  <2>2. poll_pc' = "event" => batch[Len(batch)].last
    <3>1. poll_pc' = "event" => HasTileMarkers
      BY <1>6 DEF ProcessBatch, Flushed
    <3>2. Len(batch) \in Nat /\ \A n \in 1..Len(batch) : n < Len(batch) => ~batch[n].last
      BY EntryTypes DEF RingInv, BatchInv
    <3>3. HasTileMarkers => batch[Len(batch)].last
      BY <3>2 DEF HasTileMarkers
    <3>4. QED
      BY <3>1, <3>3
  <2>3. QED
    BY <1>1, <1>2, <2>1, <2>2, BatchMoves DEF Flushing
<1>7. CASE SubmitSignal \/ DeferTileEvent \/ PublishNoCe
  <2>1. /\ poll_pc \in Flushing /\ poll_pc' = "poll" /\ batch' = <<>>
        /\ split' = split /\ read_idx' = read_idx
    BY <1>7 DEF SubmitSignal, DeferTileEvent, PublishNoCe, Flushed, Flushing
  <2>2. QED
    BY <1>1, <1>2, <2>1, BatchMoves
<1>8. CASE StartEventPoll \/ PollTileEvent \/ LeaveEventPoll \/ StartIdleWait \/ FinishIdleWait
  <2>1. /\ poll_pc \in Resting /\ poll_pc' \in Resting /\ batch = <<>>
        /\ batch' = batch /\ split' = split /\ read_idx' = read_idx
    BY <1>2, <1>8 DEF StartEventPoll, PollTileEvent, LeaveEventPoll, StartIdleWait,
         FinishIdleWait, Resting
  <2>2. QED
    BY <1>1, <2>1, BatchMoves DEF Resting, Flushing
<1>9. QED
  BY <1>3, <1>4, <1>5, <1>6, <1>7, <1>8 DEF Poller

\* A block that takes a tile, goes on or is launched again waits for no chunk.
LEMMA LetGoRing ==
  ASSUME RingInv, config' = config, GpuTypes,
         UNCHANGED <<entries, committed, pending, read_idx, batch, poll_pc, split>>,
         chunk_base' \in [Blocks -> [Chunks -> Int]],
         \A b \in Blocks : Holds(b)' => /\ pc[b] \in {"commit", "wait"}
                                        /\ chunk'[b] = chunk[b] /\ tile'[b] = tile[b]
                                        /\ chunk_base'[b] = chunk_base[b]
  PROVE  RingInv'
<1>1. \A b \in Blocks : Holds(b)' => /\ Holds(b) /\ Base(b)' = Base(b) /\ tile'[b] = tile[b]
                                     /\ pending'[b] \subseteq pending[b]
  BY DEF Holds, Base
<1>2. pending' \in [Blocks -> SUBSET Nat]
  BY DEF RingInv, RingTypes
<1>3. QED
  BY <1>1, <1>2, RingKept

\* Every step of the blocks keeps the ring in order.
LEMMA BlockRing ==
  ASSUME SchedInv, RingInv, NEW b \in Blocks, TransferWarp(b), config' = config
  PROVE  RingInv'
<1>1. GpuTypes /\ RingTypes /\ ChunkInv /\ Chunks' = Chunks
  BY SameShape DEF SchedInv, RingInv
<1>2. CASE AcquireTile(b)
  <2>1. /\ tile' = [tile EXCEPT ![b] = next_tile] /\ chunk' = [chunk EXCEPT ![b] = 0]
        /\ chunk_base' = [chunk_base EXCEPT ![b] = [k \in Chunks |-> NoSlot]]
        /\ UNCHANGED <<entries, committed, pending, read_idx, batch, poll_pc, split>>
        /\ \/ pc' = [pc EXCEPT ![b] = "acquire_slots"]
           \/ pc' = [pc EXCEPT ![b] = "exit"]
    BY <1>2 DEF AcquireTile, Dispatch, pollerVars
  <2>2. chunk_base' \in [Blocks -> [Chunks -> Int]]
    BY <1>1, <2>1 DEF RingTypes, NoSlot
  <2>3. \A a \in Blocks : Holds(a)' => /\ pc[a] \in {"commit", "wait"}
                                       /\ chunk'[a] = chunk[a] /\ tile'[a] = tile[a]
                                       /\ chunk_base'[a] = chunk_base[a]
    BY <1>1, <2>1 DEF GpuTypes, RingTypes, Holds
  <2>4. QED
    BY <1>1, <2>1, <2>2, <2>3, LetGoRing
<1>3. CASE AcquireSlots(b)
  BY <1>3, AcquireSlotsRing
<1>4. CASE CommitSlot(b)
  <2>1. PICK i \in pending[b] :
          /\ committed' = committed \cup {chunk_base[b][chunk[b]] + i}
          /\ pending' = [pending EXCEPT ![b] = pending[b] \ {i}]
          /\ pc' = [pc EXCEPT ![b] = IF pending[b] = {i} THEN "wait" ELSE "commit"]
    BY <1>4 DEF CommitSlot
  <2>2. /\ pc[b] = "commit"
        /\ UNCHANGED <<entries, chunk_base, chunk, tile, read_idx, batch, poll_pc, split>>
    BY <1>4 DEF CommitSlot, pollerVars
  <2>3. /\ Base(b) \in Nat /\ Base(b) + C <= write_idx /\ i \in 0..(C - 1)
        /\ C \in Nat /\ write_idx \in Nat
    <3>1. Holds(b)
      BY <2>2 DEF Holds
    <3>2. QED
      BY <1>1, <2>1, <3>1, Shape, EntryTypes DEF ChunkInv, GpuTypes
  <2>4. committed' \subseteq 0..(write_idx - 1)
    <3>1. Base(b) + i \in 0..(write_idx - 1)
      BY <2>3
    <3>2. QED
      BY <1>1, <2>1, <3>1 DEF RingTypes, Base
  <2>5. pending' \in [Blocks -> SUBSET Nat]
    <3>1. pending[b] \ {i} \in SUBSET Nat /\ pending \in [Blocks -> SUBSET Nat]
      BY <1>1 DEF RingTypes
    <3>2. QED
      BY <2>1, <3>1
  <2>6. \A a \in Blocks : /\ Holds(a)' => Holds(a)
                          /\ Base(a)' = Base(a) /\ tile'[a] = tile[a]
                          /\ pending'[a] \subseteq pending[a]
    <3>1. \A a \in Blocks : pending'[a] \subseteq pending[a]
      BY <1>1, <2>1 DEF RingTypes
    <3>2. \A a \in Blocks : Holds(a)' => Holds(a)
      BY <1>1, <2>1, <2>2 DEF GpuTypes, Holds
    <3>3. QED
      BY <2>2, <3>1, <3>2 DEF Base
  <2>7. ChunkInv'
    BY <1>1, <2>2, <2>6, ChunksKept
  <2>8. write_idx' = write_idx /\ First' = First
    BY <2>2 DEF write_idx, First
  <2>9. RingTypes'
    BY <1>1, <2>2, <2>4, <2>5, <2>8 DEF RingTypes
  <2>10. EntryRuns' /\ BatchInv' /\ OneChunkPerBatch'
    BY <2>2, <2>8 DEF RingInv, EntryRuns, BatchInv, OneChunkPerBatch
  <2>11. QED
    BY <2>7, <2>9, <2>10 DEF RingInv
<1>5. CASE WaitChunkDone(b) \/ WaitCompute(b)
  <2>1. UNCHANGED <<entries, committed, pending, read_idx, batch, poll_pc, split, chunk_base,
                    tile>>
    BY <1>5 DEF WaitChunkDone, WaitCompute, pollerVars
  <2>2. \A a \in Blocks : Holds(a)' => /\ pc[a] \in {"commit", "wait"}
                                       /\ chunk'[a] = chunk[a]
    BY <1>1, <1>5 DEF WaitChunkDone, WaitCompute, GpuTypes, Holds
  <2>3. chunk_base' \in [Blocks -> [Chunks -> Int]]
    BY <1>1, <2>1 DEF RingTypes
  <2>4. QED
    BY <1>1, <2>1, <2>2, <2>3, LetGoRing
<1>6. QED
  BY <1>2, <1>3, <1>4, <1>5 DEF TransferWarp

\* Every step of the system keeps the ring in order.
LEMMA StepRing ==
  ASSUME SchedInv, RingInv, [Next]_vars
  PROVE  RingInv'
<1>1. config' = config /\ GpuTypes /\ RingTypes
  BY ConfigFixed DEF SchedInv, RingInv
<1>2. CASE \E b \in Blocks : TransferWarp(b)
  BY <1>1, <1>2, BlockRing
<1>3. CASE Poller
  BY <1>1, <1>3, PollerRing
<1>4. CASE \/ \E b \in Blocks, k \in Chunks : ComputeWarp(b, k)
           \/ \E c \in ChanIds : CopyCompletes(c)
           \/ SignalCompletes \/ DeviceSynchronize \/ UNCHANGED vars
  <2>1. UNCHANGED <<entries, committed, pending, read_idx, batch, poll_pc, split, chunk_base,
                    tile, pc, chunk>>
    BY <1>4 DEF ComputeWarp, StartCompute, FinishCompute, CopyCompletes, SignalCompletes,
         DeviceSynchronize, vars, gpuVars, pollerVars
  <2>2. \A a \in Blocks : Holds(a)' => pc[a] \in {"commit", "wait"}
    BY <2>1 DEF Holds
  <2>3. chunk_base' \in [Blocks -> [Chunks -> Int]]
    BY <1>1, <2>1 DEF RingTypes
  <2>4. QED
    BY <1>1, <2>1, <2>2, <2>3, LetGoRing
<1>5. CASE Relaunch
  <2>1. /\ UNCHANGED <<entries, committed, pending, read_idx, batch, poll_pc, split,
                       chunk_base, tile, chunk>>
        /\ pc' = [b \in Blocks |-> "acquire_tile"]
    BY <1>5 DEF Relaunch
  <2>2. \A a \in Blocks : ~Holds(a)'
    BY <2>1 DEF Holds
  <2>3. chunk_base' \in [Blocks -> [Chunks -> Int]]
    BY <1>1, <2>1 DEF RingTypes
  <2>4. QED
    BY <1>1, <2>1, <2>2, <2>3, LetGoRing
<1>6. QED
  BY <1>2, <1>3, <1>4, <1>5 DEF Next, Finished, Hangs

\* Every reachable state satisfies the ring's invariant.
LEMMA RingInvariant == Spec => []RingInv
<1>1. Init => RingInv
  <2>1. SUFFICES ASSUME Init
                 PROVE  RingInv
    OBVIOUS
  <2>2. /\ entries = <<>> /\ committed = {} /\ read_idx = 0 /\ batch = <<>>
        /\ chunk_base = [b \in Blocks |-> [k \in Chunks |-> NoSlot]]
        /\ pending = [b \in Blocks |-> {}] /\ poll_pc = "poll" /\ split = FALSE
        /\ pc = [b \in Blocks |-> "acquire_tile"]
    BY <2>1 DEF Init
  <2>3. <<>> \in Seq(Entry) /\ <<>> \in Seq(BatchEntry) /\ Len(<<>>) = 0
    BY EmptySeq
  <2>4. write_idx = 0 /\ Len(batch) = 0
    BY <2>2, <2>3 DEF write_idx
  <2>5. RingTypes
    <3>1. chunk_base \in [Blocks -> [Chunks -> Int]]
      BY <2>2 DEF NoSlot
    <3>2. pending \in [Blocks -> SUBSET Nat]
      BY <2>2
    <3>3. poll_pc \in PollSet /\ split \in BOOLEAN
      BY <2>2 DEF PollSet
    <3>4. QED
      BY <2>2, <2>3, <2>4, <3>1, <3>2, <3>3 DEF RingTypes
  <2>6. \A b \in Blocks : ~Holds(b)
    BY <2>2 DEF Holds
  <2>7. QED
    BY <2>2, <2>4, <2>5, <2>6 DEF RingInv, EntryRuns, ChunkInv, BatchInv, OneChunkPerBatch
<1>2. SchedInv /\ RingInv /\ [Next]_vars => RingInv'
  BY StepRing
<1>3. QED
  BY <1>1, <1>2, SchedInvariant, PTL DEF Spec

\* A batch the poller flushes is a run of one chunk's tokens, for any number of
\* blocks whose chunks interleave in the ring and any batch size: process_batch
\* may coalesce it into one copy, and its count belongs to one tile.
THEOREM BatchesHoldOneChunk == Spec => []OneChunkPerBatch
<1>1. RingInv => OneChunkPerBatch
  BY DEF RingInv
<1>2. QED
  BY <1>1, RingInvariant, PTL

-----------------------------------------------------------------------------
(* Copies in flight: queues *)

\* A copy queued at the end of a stream leaves the ones before it in place.
LEMMA InAppend ==
  ASSUME NEW q \in Seq(Op), NEW op \in Op
  PROVE  /\ Append(q, op) \in Seq(Op) /\ Len(q) \in Nat /\ Len(Append(q, op)) = Len(q) + 1
         /\ Append(q, op)[Len(q) + 1] = op
         /\ \A p \in 1..Len(q) : Append(q, op)[p] = q[p]
         /\ \A s, n : n \in 0..Len(q) /\ InCopies(q, s, n) => InCopies(Append(q, op), s, n)
         /\ \A s : s \in op.data => InCopies(Append(q, op), s, Len(q) + 1)
<1>1. /\ Append(q, op) \in Seq(Op) /\ Len(q) \in Nat /\ Len(Append(q, op)) = Len(q) + 1
      /\ Append(q, op)[Len(q) + 1] = op
      /\ \A p \in 1..Len(q) : Append(q, op)[p] = q[p]
  BY AppendProperties, LenProperties
<1>2. ASSUME NEW s, NEW n, n \in 0..Len(q), InCopies(q, s, n)
      PROVE  InCopies(Append(q, op), s, n)
  <2>1. PICK p \in 1..n : s \in q[p].data
    BY <1>2 DEF InCopies
  <2>2. p \in 1..Len(q)
    BY <1>1, <1>2
  <2>3. s \in Append(q, op)[p].data
    BY <1>1, <2>1, <2>2
  <2>4. QED
    BY <2>3 DEF InCopies
<1>3. ASSUME NEW s, s \in op.data
      PROVE  InCopies(Append(q, op), s, Len(q) + 1)
  <2>1. Len(q) + 1 \in 1..(Len(q) + 1)
    BY <1>1
  <2>2. s \in Append(q, op)[Len(q) + 1].data
    BY <1>1, <1>3
  <2>3. QED
    BY <2>1, <2>2 DEF InCopies
<1>4. QED
  BY <1>1, <1>2, <1>3

\* When the head of a stream completes, a slot among the first n copies has
\* been copied or is among one copy less.
LEMMA InTail ==
  ASSUME NEW q \in Seq(Op), q # <<>>
  PROVE  /\ Head(q) \in Op /\ Head(q) = q[1] /\ 1 \in 1..Len(q)
         /\ Tail(q) \in Seq(Op) /\ Len(q) \in Nat /\ Len(Tail(q)) = Len(q) - 1
         /\ \A p \in 1..Len(Tail(q)) : Tail(q)[p] = q[p + 1]
         /\ \A s, n : n \in 0..Len(q) /\ InCopies(q, s, n) =>
                        s \in Head(q).data \/ InCopies(Tail(q), s, Nearer(n))
<1>1. /\ Tail(q) \in Seq(Op) /\ Len(q) \in Nat /\ Len(Tail(q)) = Len(q) - 1
      /\ \A p \in 1..Len(Tail(q)) : Tail(q)[p] = q[p + 1]
      /\ Head(q) \in Op /\ Head(q) = q[1]
  BY HeadTailProperties, LenProperties
<1>2. Len(q) > 0 /\ 1 \in 1..Len(q)
  BY <1>1, EmptySeq
<1>3. ASSUME NEW s, NEW n, n \in 0..Len(q), InCopies(q, s, n), s \notin Head(q).data
      PROVE  InCopies(Tail(q), s, Nearer(n))
  <2>1. PICK p \in 1..n : s \in q[p].data
    BY <1>3 DEF InCopies
  <2>2. p # 1 /\ p \in Nat /\ n \in Nat
    BY <1>1, <1>3, <2>1
  <2>3. Nearer(n) = n - 1 /\ p - 1 \in 1..(n - 1) /\ p - 1 \in 1..Len(Tail(q)) /\ (p - 1) + 1 = p
    BY <1>1, <1>3, <2>1, <2>2 DEF Nearer
  <2>4. Tail(q)[p - 1] = q[p]
    BY <1>1, <2>3
  <2>5. s \in Tail(q)[p - 1].data
    BY <2>1, <2>4
  <2>6. QED
    BY <2>3, <2>5 DEF InCopies
<1>4. QED
  BY <1>1, <1>2, <1>3

\* The channels, and the round-robin: the stream an event is recorded on is the
\* one used last.
LEMMA RoundRobin ==
  ASSUME NEW n \in ChanIds
  PROVE  /\ (n + 1) % Channels \in ChanIds
         /\ (((n + 1) % Channels) + Channels - 1) % Channels = n
         /\ (n + Channels - 1) % Channels \in ChanIds
<1>1. Channels \in Nat /\ Channels > 0 /\ n \in Nat /\ n < Channels
  BY TiledAssumption DEF ChanIds
<1>2. \A x \in Nat : x % Channels \in 0..(Channels - 1) /\ (x < Channels => x % Channels = x)
  BY <1>1
<1>3. \A x \in Nat : x < Channels => (x + Channels) % Channels = x
  BY <1>1
<1>4. Channels % Channels = 0
  BY <1>1
<1>5. (n + Channels - 1) % Channels \in ChanIds /\ (n + 1) % Channels \in ChanIds
  BY <1>1, <1>2 DEF ChanIds
<1>6. CASE n + 1 < Channels
  <2>1. (n + 1) % Channels = n + 1
    BY <1>1, <1>2, <1>6
  <2>2. (n + 1) + Channels - 1 = n + Channels
    BY <1>1
  <2>3. QED
    BY <1>1, <1>3, <1>5, <2>1, <2>2
<1>7. CASE n + 1 = Channels
  <2>1. (n + 1) % Channels = 0
    BY <1>4, <1>7
  <2>2. 0 + Channels - 1 = n /\ n % Channels = n
    BY <1>1, <1>2, <1>7
  <2>3. QED
    BY <1>5, <2>1, <2>2
<1>8. QED
  BY <1>1, <1>6, <1>7

\* What submitting one copy does to the channels.
LEMMA SubmitFacts ==
  ASSUME chan \in [ChanIds -> Seq(Op)], next_channel \in ChanIds, dirty \subseteq ChanIds,
         NEW op \in Op, Submit(op)
  PROVE  /\ chan' \in [ChanIds -> Seq(Op)] /\ next_channel' \in ChanIds /\ dirty' \subseteq ChanIds
         /\ dirty' = dirty \cup {next_channel} /\ LastStream' = next_channel
         /\ \A c \in ChanIds : c # next_channel => chan'[c] = chan[c]
         /\ \A c \in ChanIds : /\ Len(chan[c]) \in Nat /\ Len(chan'[c]) \in Nat
                               /\ Len(chan[c]) <= Len(chan'[c])
         /\ \A c \in ChanIds : \A p \in 1..Len(chan'[c]) :
              chan'[c][p] = op \/ (p \in 1..Len(chan[c]) /\ chan'[c][p] = chan[c][p])
         /\ \A c \in ChanIds : \A s, n : n \in 0..Len(chan[c]) /\ InCopies(chan[c], s, n) =>
                                           InCopies(chan'[c], s, n)
         /\ \A s : s \in op.data => InCopies(chan'[next_channel], s, Len(chan'[next_channel]))
<1> DEFINE q == chan[next_channel]
<1>1. /\ chan' = [chan EXCEPT ![next_channel] = Append(q, op)]
      /\ next_channel' = (next_channel + 1) % Channels
      /\ dirty' = dirty \cup {next_channel}
  BY DEF Submit
<1>2. /\ chan'[next_channel] = Append(q, op)
      /\ \A c \in ChanIds : c # next_channel => chan'[c] = chan[c]
  BY <1>1
<1>3. q \in Seq(Op)
  OBVIOUS
<1>4. /\ Append(q, op) \in Seq(Op) /\ Len(q) \in Nat /\ Len(Append(q, op)) = Len(q) + 1
      /\ Append(q, op)[Len(q) + 1] = op
      /\ \A p \in 1..Len(q) : Append(q, op)[p] = q[p]
      /\ \A s, n : n \in 0..Len(q) /\ InCopies(q, s, n) => InCopies(Append(q, op), s, n)
      /\ \A s : s \in op.data => InCopies(Append(q, op), s, Len(q) + 1)
  BY <1>3, InAppend
<1>5. chan' \in [ChanIds -> Seq(Op)]
  BY <1>1, <1>4
<1>6. LastStream' = next_channel /\ next_channel' \in ChanIds
  BY <1>1, RoundRobin DEF LastStream
<1>7. \A c \in ChanIds : /\ Len(chan[c]) \in Nat /\ Len(chan'[c]) \in Nat
                         /\ Len(chan[c]) <= Len(chan'[c])
  <2>1. \A c \in ChanIds : Len(chan[c]) \in Nat
    BY LenProperties
  <2>2. QED
    BY <1>2, <1>4, <2>1
<1>8. ASSUME NEW c \in ChanIds, NEW p \in 1..Len(chan'[c])
      PROVE  chan'[c][p] = op \/ (p \in 1..Len(chan[c]) /\ chan'[c][p] = chan[c][p])
  <2>1. CASE c # next_channel
    BY <1>2, <1>8, <2>1
  <2>2. CASE c = next_channel
    <3>1. p \in 1..(Len(q) + 1) /\ chan'[c] = Append(q, op) /\ chan[c] = q
      BY <1>2, <1>4, <1>8, <2>2
    <3>2. p = Len(q) + 1 \/ p \in 1..Len(q)
      BY <1>4, <3>1
    <3>3. QED
      BY <1>4, <3>1, <3>2
  <2>3. QED
    BY <2>1, <2>2
<1>9. \A c \in ChanIds : \A s, n : n \in 0..Len(chan[c]) /\ InCopies(chan[c], s, n) =>
                                     InCopies(chan'[c], s, n)
  BY <1>2, <1>4
<1>10. \A s : s \in op.data => InCopies(chan'[next_channel], s, Len(chan'[next_channel]))
  BY <1>2, <1>4
<1> HIDE DEF q
<1>11. QED
  BY <1>1, <1>2, <1>5, <1>6, <1>7, <1>8, <1>9, <1>10

\* What the completion of a copy does to the channels.
LEMMA CopyFacts ==
  ASSUME chan \in [ChanIds -> Seq(Op)], NEW c \in ChanIds, CopyCompletes(c)
  PROVE  /\ chan' \in [ChanIds -> Seq(Op)] /\ Head(chan[c]) \in Op
         /\ Head(chan[c]) = chan[c][1] /\ 1 \in 1..Len(chan[c])
         /\ landed' = landed \cup Head(chan[c]).data
         /\ \A d \in ChanIds : Len(chan[d]) \in Nat /\ Len(chan'[d]) \in Nat
         /\ Len(chan'[c]) = Len(chan[c]) - 1 /\ \A d \in ChanIds : d # c => chan'[d] = chan[d]
         /\ \A d \in ChanIds : \A p \in 1..Len(chan'[d]) :
              \E r \in 1..Len(chan[d]) : chan'[d][p] = chan[d][r]
         /\ \A s, n : n \in 0..Len(chan[c]) /\ InCopies(chan[c], s, n) =>
                        s \in landed' \/ InCopies(chan'[c], s, Nearer(n))
<1> DEFINE q == chan[c]
<1>1. /\ q # <<>> /\ chan' = [chan EXCEPT ![c] = Tail(q)]
      /\ landed' = landed \cup Head(q).data
  BY DEF CopyCompletes
<1>2. q \in Seq(Op)
  OBVIOUS
<1>3. chan'[c] = Tail(q) /\ \A d \in ChanIds : d # c => chan'[d] = chan[d]
  BY <1>1
<1>4. /\ Head(q) \in Op /\ Head(q) = q[1] /\ 1 \in 1..Len(q)
      /\ Tail(q) \in Seq(Op) /\ Len(q) \in Nat /\ Len(Tail(q)) = Len(q) - 1
      /\ \A p \in 1..Len(Tail(q)) : Tail(q)[p] = q[p + 1]
      /\ \A s, n : n \in 0..Len(q) /\ InCopies(q, s, n) =>
                     s \in Head(q).data \/ InCopies(Tail(q), s, Nearer(n))
  BY <1>1, <1>2, InTail
<1>5. chan' \in [ChanIds -> Seq(Op)]
  BY <1>1, <1>4
<1>6. \A d \in ChanIds : Len(chan[d]) \in Nat /\ Len(chan'[d]) \in Nat
  BY <1>5, LenProperties
<1>7. ASSUME NEW d \in ChanIds, NEW p \in 1..Len(chan'[d])
      PROVE  \E r \in 1..Len(chan[d]) : chan'[d][p] = chan[d][r]
  <2>1. CASE d # c
    BY <1>3, <1>7, <2>1
  <2>2. CASE d = c
    <3>1. p \in 1..Len(Tail(q)) /\ p + 1 \in 1..Len(q) /\ chan[d] = q /\ chan'[d] = Tail(q)
      BY <1>3, <1>4, <1>7, <2>2
    <3>2. QED
      BY <1>4, <3>1
  <2>3. QED
    BY <2>1, <2>2
<1>8. \A s, n : n \in 0..Len(chan[c]) /\ InCopies(chan[c], s, n) =>
                  s \in landed' \/ InCopies(chan'[c], s, Nearer(n))
  BY <1>1, <1>3, <1>4
<1> HIDE DEF q
<1>9. QED
  BY <1>1, <1>3, <1>4, <1>5, <1>6, <1>7, <1>8 DEF q

-----------------------------------------------------------------------------
(* Copies in flight: every step preserves the invariant *)

\* The batch in terms of slots.
LEMMA BatchRun ==
  ASSUME RingInv
  PROVE  /\ BatchSlots = First..(read_idx - 1) /\ BatchSlots \subseteq 0..(write_idx - 1)
         /\ First \in Nat /\ read_idx \in Nat /\ write_idx \in Nat /\ Len(batch) \in Nat
         /\ First <= read_idx /\ read_idx <= write_idx /\ read_idx = First + Len(batch)
         /\ Submitted \in Nat /\ First <= Submitted /\ Submitted <= read_idx
<1>1. /\ First \in Nat /\ read_idx \in Nat /\ write_idx \in Nat /\ Len(batch) \in Nat
      /\ read_idx <= write_idx /\ Len(batch) <= read_idx
  BY EntryTypes DEF RingInv, RingTypes
<1>2. First <= read_idx /\ read_idx = First + Len(batch)
  BY <1>1 DEF First
<1>3. \A n \in 1..Len(batch) : batch[n].slot = First + n - 1
  BY DEF RingInv, BatchInv
<1>4. \A n \in 1..Len(batch) : First + n - 1 \in First..(read_idx - 1)
  BY <1>1, <1>2
<1>5. \A s \in First..(read_idx - 1) : s - First + 1 \in 1..Len(batch)
                                       /\ First + (s - First + 1) - 1 = s
  BY <1>1, <1>2
<1>6. BatchSlots = First..(read_idx - 1)
  BY <1>3, <1>4, <1>5 DEF BatchSlots
<1>7. First..(read_idx - 1) \subseteq 0..(write_idx - 1)
  BY <1>1, <1>2
<1>8. QED
  BY <1>1, <1>2, <1>6, <1>7 DEF Submitted

\* Steps that neither copy nor publish anything.
LEMMA FlightQuiet ==
  ASSUME FlightInv, RingInv, config' = config,
         UNCHANGED <<chan, next_channel, dirty, latest_async_read, done_idx, has_async_dma,
                     landed, signals, tile_events_inflight>>,
         write_idx' \in Nat, write_idx <= write_idx', First' = First, Submitted' = Submitted,
         poll_pc' = "event" => poll_pc = "event" /\ read_idx' = read_idx,
         poll_pc' \in {"data", "signal"} => config.path \in {"device", "host"},
         poll_pc' \in {"event", "events"} => config.path = "deferred",
         poll_pc' = "publish" => config.path = "no_ce",
         poll_pc = "signal" => poll_pc' = "signal"
  PROVE  FlightInv'
<1>1. FlightTypes /\ PathInv /\ DirtyInv /\ HandedInv /\ LastInv
  BY DEF FlightInv
<1>2. write_idx \in Nat /\ First \in Nat
  BY BatchRun
<1>3. 0..(write_idx - 1) \subseteq 0..(write_idx' - 1)
  <2>1. \A m, n \in Nat : m <= n => 0..(m - 1) \subseteq 0..(n - 1)
    OBVIOUS
  <2>2. QED
    BY <1>2, <2>1, Zenon
<1>4. FlightTypes'
  <2>1. landed' \subseteq 0..(write_idx' - 1)
    BY <1>1, <1>3 DEF FlightTypes
  <2>2. \A c \in ChanIds : \A p \in 1..Len(chan'[c]) :
          chan'[c][p].data \subseteq 0..(write_idx' - 1)
    BY <1>1, <1>3 DEF FlightTypes
  <2>3. QED
    BY <1>1, <2>1, <2>2 DEF FlightTypes
<1>5. PathInv'
  BY <1>1 DEF PathInv
<1>6. DirtyInv'
  BY <1>1 DEF DirtyInv
<1>7. HandedInv'
  BY <1>1 DEF HandedInv, Queued
<1>8. LastStream' = LastStream
  BY DEF LastStream
<1>9. LastInv'
  BY <1>1, <1>8 DEF LastInv
<1>10. QED
  BY <1>4, <1>5, <1>6, <1>7, <1>9 DEF FlightInv

\* A copy is submitted: nothing that was on its way is lost.
LEMMA FlightSubmit ==
  ASSUME FlightInv, NEW op \in Op, Submit(op), config' = config, landed' = landed,
         entries' = entries, op.data \subseteq 0..(write_idx - 1),
         config.path # "host" => op.tiles = {}
  PROVE  /\ chan' \in [ChanIds -> Seq(Op)] /\ next_channel' \in ChanIds /\ dirty' \subseteq ChanIds
         /\ \A c \in ChanIds : \A p \in 1..Len(chan'[c]) :
              chan'[c][p].data \subseteq 0..(write_idx' - 1)
         /\ config.path # "host" => \A c \in ChanIds : \A p \in 1..Len(chan'[c]) :
                                      chan'[c][p].tiles = {}
         /\ DirtyInv' /\ landed' \subseteq 0..(write_idx' - 1)
         /\ \A s : s \in landed \/ Queued(s) => s \in landed' \/ Queued(s)'
         /\ \A s : s \in op.data => Queued(s)'
<1>1. FlightTypes /\ PathInv /\ DirtyInv
  BY DEF FlightInv
<1>2. chan \in [ChanIds -> Seq(Op)] /\ next_channel \in ChanIds /\ dirty \subseteq ChanIds
  BY <1>1 DEF FlightTypes
<1>3. /\ chan' \in [ChanIds -> Seq(Op)] /\ next_channel' \in ChanIds /\ dirty' \subseteq ChanIds
      /\ dirty' = dirty \cup {next_channel}
      /\ \A c \in ChanIds : c # next_channel => chan'[c] = chan[c]
      /\ \A c \in ChanIds : Len(chan[c]) \in Nat /\ Len(chan'[c]) \in Nat
                            /\ Len(chan[c]) <= Len(chan'[c])
      /\ \A c \in ChanIds : \A p \in 1..Len(chan'[c]) :
           chan'[c][p] = op \/ (p \in 1..Len(chan[c]) /\ chan'[c][p] = chan[c][p])
      /\ \A c \in ChanIds : \A s, n : n \in 0..Len(chan[c]) /\ InCopies(chan[c], s, n) =>
                                        InCopies(chan'[c], s, n)
      /\ \A s : s \in op.data => InCopies(chan'[next_channel], s, Len(chan'[next_channel]))
  BY <1>2, SubmitFacts
<1>4. write_idx' = write_idx
  BY DEF write_idx
<1>5. \A c \in ChanIds : \A p \in 1..Len(chan'[c]) :
        chan'[c][p].data \subseteq 0..(write_idx' - 1)
  BY <1>1, <1>3, <1>4 DEF FlightTypes
<1>6. config.path # "host" => \A c \in ChanIds : \A p \in 1..Len(chan'[c]) :
                                chan'[c][p].tiles = {}
  BY <1>1, <1>3 DEF PathInv
<1>7. DirtyInv'
  BY <1>1, <1>3 DEF DirtyInv
<1>8. ASSUME NEW s, Queued(s)
      PROVE  Queued(s)'
  <2>1. PICK c \in ChanIds : InCopies(chan[c], s, Len(chan[c]))
    BY <1>8 DEF Queued
  <2>2. InCopies(chan'[c], s, Len(chan[c]))
    BY <1>3, <2>1
  <2>3. PICK p \in 1..Len(chan[c]) : s \in chan'[c][p].data
    BY <2>2 DEF InCopies
  <2>4. p \in 1..Len(chan'[c])
    BY <1>3
  <2>5. InCopies(chan'[c], s, Len(chan'[c]))
    BY <2>3, <2>4 DEF InCopies
  <2>6. QED
    BY <2>5 DEF Queued
<1>9. \A s : s \in op.data => Queued(s)'
  BY <1>2, <1>3 DEF Queued
<1>10. landed' \subseteq 0..(write_idx' - 1)
  BY <1>1, <1>4 DEF FlightTypes
<1>11. QED
  BY <1>3, <1>5, <1>6, <1>7, <1>8, <1>9, <1>10

\* The copies the poller submits.
LEMMA BatchOps ==
  ASSUME RingInv
  PROVE  /\ [data |-> BatchSlots, tiles |-> {}] \in Op
         /\ [data |-> {}, tiles |-> BatchTiles] \in Op
         /\ BatchTiles \subseteq Nat
<1>1. BatchSlots \subseteq Nat
  BY BatchRun
<1>2. BatchTiles \subseteq Nat
  BY EntryTypes DEF RingInv, BatchTiles, BatchEntry
<1>3. QED
  BY <1>1, <1>2 DEF Op

\* Submitting the data of a batch.
LEMMA SubmitDataFlight ==
  ASSUME FlightInv, RingInv, SubmitData, config' = config
  PROVE  FlightInv'
<1> DEFINE op == [data |-> BatchSlots, tiles |-> {}]
<1>1. FlightTypes /\ PathInv /\ DirtyInv /\ HandedInv /\ LastInv
  BY DEF FlightInv
<1>2. /\ poll_pc = "data" /\ Submit(op) /\ poll_pc' = "signal"
      /\ UNCHANGED <<read_idx, done_idx, batch, latest_async_read, has_async_dma, entries,
                     tile_events_inflight, signals, landed>>
  BY DEF SubmitData, asyncVars, gpuVars, eventVars
<1>3. /\ BatchSlots = First..(read_idx - 1) /\ BatchSlots \subseteq 0..(write_idx - 1)
      /\ First \in Nat /\ read_idx \in Nat /\ First <= read_idx
  BY BatchRun
<1>4. op \in Op /\ op.data = BatchSlots /\ op.tiles = {}
  BY BatchOps
<1> HIDE DEF op
<1>5. /\ chan' \in [ChanIds -> Seq(Op)] /\ next_channel' \in ChanIds /\ dirty' \subseteq ChanIds
      /\ \A c \in ChanIds : \A p \in 1..Len(chan'[c]) :
           chan'[c][p].data \subseteq 0..(write_idx' - 1)
      /\ config.path # "host" => \A c \in ChanIds : \A p \in 1..Len(chan'[c]) :
                                   chan'[c][p].tiles = {}
      /\ DirtyInv' /\ landed' \subseteq 0..(write_idx' - 1)
      /\ \A s : s \in landed \/ Queued(s) => s \in landed' \/ Queued(s)'
      /\ \A s : s \in op.data => Queued(s)'
  BY <1>2, <1>3, <1>4, FlightSubmit
<1>6. First' = First
  BY <1>2 DEF First
<1>7. FlightTypes'
  BY <1>1, <1>2, <1>5, <1>6 DEF FlightTypes
<1>8. PathInv'
  <2>1. config.path \in {"device", "host"}
    BY <1>1, <1>2 DEF PathInv
  <2>2. QED
    BY <1>1, <1>2, <1>5, <2>1 DEF PathInv
<1>9. HandedInv'
  <2>1. Submitted = First /\ Submitted' = read_idx
    BY <1>2 DEF Submitted, Handed
  <2>2. ASSUME NEW s \in 0..(read_idx - 1)
        PROVE  s \in landed' \/ Queued(s)'
    <3>1. s \in 0..(First - 1) \/ s \in First..(read_idx - 1)
      BY <1>3
    <3>2. QED
      BY <1>1, <1>3, <1>4, <1>5, <2>1, <3>1 DEF HandedInv
  <2>3. QED
    BY <2>1, <2>2 DEF HandedInv
<1>10. LastInv'
  BY <1>2 DEF LastInv
<1>11. QED
  BY <1>5, <1>7, <1>8, <1>9, <1>10 DEF FlightInv

\* What a finished flush leaves behind.
LEMMA FlushedFacts ==
  ASSUME RingInv, batch' = <<>>, poll_pc' = "poll", read_idx' = read_idx
  PROVE  First' = read_idx /\ Submitted' = read_idx /\ LastInv'
<1>1. Len(<<>>) = 0 /\ read_idx \in Nat
  BY EmptySeq, BatchRun
<1>2. First' = read_idx
  BY <1>1 DEF First
<1>3. QED
  BY <1>2 DEF Submitted, Handed, LastInv

\* Submitting the completion signal of a batch.
LEMMA SubmitSignalFlight ==
  ASSUME FlightInv, RingInv, SubmitSignal, config' = config
  PROVE  FlightInv'
<1> DEFINE op == [data |-> {}, tiles |-> BatchTiles]
<1>1. FlightTypes /\ PathInv /\ DirtyInv /\ HandedInv /\ LastInv
  BY DEF FlightInv
<1>2. /\ poll_pc = "signal" /\ poll_pc' = "poll" /\ batch' = <<>>
      /\ has_async_dma' = TRUE /\ latest_async_read' = read_idx
      /\ UNCHANGED <<read_idx, done_idx, entries, tile_events_inflight, landed>>
      /\ \/ /\ config.path = "device" /\ UNCHANGED <<chan, next_channel, dirty>>
         \/ /\ config.path # "device" /\ Submit(op) /\ signals' = signals
  BY DEF SubmitSignal, Flushed, gpuVars, eventVars, channelVars
<1>3. /\ First \in Nat /\ read_idx \in Nat /\ First <= read_idx
  BY BatchRun
<1>4. First' = read_idx /\ Submitted' = read_idx /\ LastInv'
  BY <1>2, FlushedFacts
<1>5. op \in Op /\ op.data = {} /\ op.tiles = BatchTiles
  BY BatchOps
<1> HIDE DEF op
<1>6. config.path \in {"device", "host"} /\ Submitted = read_idx
  BY <1>1, <1>2 DEF PathInv, Submitted, Handed
<1>7. /\ chan' \in [ChanIds -> Seq(Op)] /\ next_channel' \in ChanIds /\ dirty' \subseteq ChanIds
      /\ \A c \in ChanIds : \A p \in 1..Len(chan'[c]) :
           chan'[c][p].data \subseteq 0..(write_idx' - 1)
      /\ config.path # "host" => \A c \in ChanIds : \A p \in 1..Len(chan'[c]) :
                                   chan'[c][p].tiles = {}
      /\ DirtyInv' /\ landed' \subseteq 0..(write_idx' - 1)
      /\ \A s : s \in landed \/ Queued(s) => s \in landed' \/ Queued(s)'
  <2>1. CASE config.path = "device"
    <3>1. UNCHANGED <<chan, next_channel, dirty>> /\ write_idx' = write_idx
      BY <1>2, <2>1 DEF write_idx
    <3>2. DirtyInv' /\ \A s : Queued(s) => Queued(s)'
      BY <1>1, <3>1 DEF DirtyInv, Queued
    <3>3. QED
      BY <1>1, <1>2, <3>1, <3>2 DEF FlightTypes, PathInv
  <2>2. CASE config.path # "device"
    <3>1. Submit(op) /\ config.path = "host"
      BY <1>2, <1>6, <2>2
    <3>2. op.data \subseteq 0..(write_idx - 1)
      BY <1>5
    <3>3. QED
      BY <1>2, <1>5, <3>1, <3>2, FlightSubmit
  <2>3. QED
    BY <2>1, <2>2
<1>8. FlightTypes'
  BY <1>1, <1>2, <1>3, <1>4, <1>7 DEF FlightTypes
<1>9. PathInv'
  BY <1>1, <1>2, <1>6, <1>7 DEF PathInv
<1>10. HandedInv'
  BY <1>1, <1>4, <1>6, <1>7 DEF HandedInv
<1>11. QED
  BY <1>4, <1>7, <1>8, <1>9, <1>10 DEF FlightInv

\* Submitting a batch on the deferred path.
LEMMA ProcessBatchFlight ==
  ASSUME FlightInv, RingInv, ProcessBatch, config' = config
  PROVE  FlightInv'
<1> DEFINE op == [data |-> BatchSlots, tiles |-> {}]
<1>1. FlightTypes /\ PathInv /\ DirtyInv /\ HandedInv
  BY DEF FlightInv
<1>2. /\ poll_pc = "flush" /\ config.path = "deferred" /\ Submit(op)
      /\ UNCHANGED <<read_idx, done_idx, entries, tile_events_inflight, signals, landed>>
      /\ \/ /\ poll_pc' = "event" /\ UNCHANGED <<batch, has_async_dma, latest_async_read>>
         \/ /\ poll_pc' = "poll" /\ batch' = <<>> /\ has_async_dma' = TRUE
            /\ latest_async_read' = read_idx
  BY DEF ProcessBatch, Flushed, asyncVars, gpuVars, eventVars
<1>3. /\ BatchSlots = First..(read_idx - 1) /\ BatchSlots \subseteq 0..(write_idx - 1)
      /\ First \in Nat /\ read_idx \in Nat /\ First <= read_idx
  BY BatchRun
<1>4. op \in Op /\ op.data = BatchSlots /\ op.tiles = {}
  BY BatchOps
<1> HIDE DEF op
<1>5. /\ chan' \in [ChanIds -> Seq(Op)] /\ next_channel' \in ChanIds /\ dirty' \subseteq ChanIds
      /\ \A c \in ChanIds : \A p \in 1..Len(chan'[c]) :
           chan'[c][p].data \subseteq 0..(write_idx' - 1)
      /\ config.path # "host" => \A c \in ChanIds : \A p \in 1..Len(chan'[c]) :
                                   chan'[c][p].tiles = {}
      /\ DirtyInv' /\ landed' \subseteq 0..(write_idx' - 1)
      /\ \A s : s \in landed \/ Queued(s) => s \in landed' \/ Queued(s)'
      /\ \A s : s \in op.data => Queued(s)'
  BY <1>2, <1>3, <1>4, FlightSubmit
<1>6. LastStream' = next_channel
      /\ \A s : s \in op.data => InCopies(chan'[next_channel], s, Len(chan'[next_channel]))
  BY <1>1, <1>2, <1>4, SubmitFacts DEF FlightTypes
<1>7. /\ First' \in {First, read_idx} /\ First <= First' /\ Submitted = First
      /\ Submitted' = read_idx
      /\ LastInv'
  <2>1. CASE poll_pc' = "event" /\ batch' = batch
    <3>1. First' = First /\ Submitted = First /\ Submitted' = read_idx
      BY <1>2, <2>1 DEF First, Submitted, Handed
    <3>2. LastInv'
      BY <1>2, <1>3, <1>4, <1>6, <3>1 DEF LastInv
    <3>3. QED
      BY <1>3, <3>1, <3>2
  <2>2. CASE poll_pc' = "poll" /\ batch' = <<>>
    <3>1. First' = read_idx /\ Submitted' = read_idx /\ LastInv'
      BY <1>2, <2>2, FlushedFacts
    <3>2. Submitted = First
      BY <1>2 DEF Submitted, Handed
    <3>3. QED
      BY <1>3, <3>1, <3>2
  <2>3. QED
    BY <1>2, <2>1, <2>2
<1>8. has_async_dma' \in BOOLEAN /\ latest_async_read' \in Nat /\ latest_async_read' <= First'
  <2>1. CASE UNCHANGED <<has_async_dma, latest_async_read>>
    BY <1>1, <1>3, <1>7, <2>1 DEF FlightTypes
  <2>2. CASE batch' = <<>> /\ poll_pc' = "poll" /\ has_async_dma' = TRUE /\ latest_async_read' = read_idx
    BY <1>2, <1>3, <2>2, FlushedFacts
  <2>3. QED
    BY <1>2, <2>1, <2>2
<1>9. FlightTypes'
  BY <1>1, <1>2, <1>3, <1>5, <1>7, <1>8 DEF FlightTypes
<1>10. PathInv'
  BY <1>1, <1>2, <1>5 DEF PathInv
<1>11. HandedInv'
  <2>1. ASSUME NEW s \in 0..(read_idx - 1)
        PROVE  s \in landed' \/ Queued(s)'
    <3>1. s \in 0..(First - 1) \/ s \in First..(read_idx - 1)
      BY <1>3
    <3>2. QED
      BY <1>1, <1>3, <1>4, <1>5, <1>7, <3>1 DEF HandedInv
  <2>2. QED
    BY <1>7, <2>1 DEF HandedInv
<1>12. QED
  BY <1>5, <1>7, <1>9, <1>10, <1>11 DEF FlightInv

\* Recording a deferred event, or publishing without a copy engine: the batch is
\* over and the channels are as they were.
LEMMA BatchOverFlight ==
  ASSUME FlightInv, RingInv, config' = config, DeferTileEvent \/ PublishNoCe
  PROVE  FlightInv'
<1>1. FlightTypes /\ PathInv /\ DirtyInv /\ HandedInv
  BY DEF FlightInv
<1>2. /\ poll_pc \in {"event", "publish"} /\ poll_pc' = "poll" /\ batch' = <<>>
      /\ UNCHANGED <<read_idx, entries, chan, next_channel, dirty, signals, landed>>
      /\ done_idx' = done_idx \/ done_idx' = read_idx
      /\ \/ UNCHANGED <<latest_async_read, has_async_dma>>
         \/ latest_async_read' = read_idx /\ has_async_dma' = TRUE
      /\ poll_pc = "event" \/ tile_events_inflight' = tile_events_inflight
  <2>1. CASE DeferTileEvent
    BY <2>1 DEF DeferTileEvent, Flushed, gpuVars, channelVars
  <2>2. CASE PublishNoCe
    BY <2>2 DEF PublishNoCe, gpuVars, channelVars, eventVars, asyncVars
  <2>3. QED
    BY <2>1, <2>2
<1>3. /\ First \in Nat /\ read_idx \in Nat /\ First <= read_idx
  BY BatchRun
<1>4. First' = read_idx /\ Submitted' = read_idx /\ LastInv' /\ write_idx' = write_idx
  BY <1>2, FlushedFacts DEF write_idx
<1>5. FlightTypes'
  <2>1. done_idx' \in Nat /\ done_idx' <= read_idx /\ latest_async_read' \in Nat
        /\ latest_async_read' <= read_idx /\ has_async_dma' \in BOOLEAN
    <3>1. /\ done_idx \in Nat /\ done_idx <= First /\ latest_async_read \in Nat
          /\ latest_async_read <= First /\ has_async_dma \in BOOLEAN
      BY <1>1 DEF FlightTypes
    <3>2. done_idx' \in Nat /\ done_idx' <= read_idx
      BY <1>2, <1>3, <3>1
    <3>3. latest_async_read' \in Nat /\ latest_async_read' <= read_idx
      BY <1>2, <1>3, <3>1
    <3>4. has_async_dma' \in BOOLEAN
      BY <1>2, <3>1
    <3>5. QED
      BY <3>2, <3>3, <3>4
  <2>2. QED
    BY <1>1, <1>2, <1>4, <2>1 DEF FlightTypes
<1>6. PathInv'
  BY <1>1, <1>2 DEF PathInv
<1>7. DirtyInv'
  BY <1>1, <1>2 DEF DirtyInv
<1>8. HandedInv'
  <2>1. Submitted = read_idx
    BY <1>2 DEF Submitted, Handed
  <2>2. QED
    BY <1>1, <1>2, <1>4, <2>1 DEF HandedInv, Queued
<1>9. QED
  BY <1>4, <1>5, <1>6, <1>7, <1>8 DEF FlightInv

\* The oldest event is published.
LEMMA PollTileEventFlight ==
  ASSUME FlightInv, RingInv, EventTypes, PollTileEvent, config' = config
  PROVE  FlightInv'
<1>1. FlightTypes /\ PathInv /\ DirtyInv /\ HandedInv
  BY DEF FlightInv
<1>2. /\ poll_pc = "events" /\ poll_pc' \in {"poll", "events"}
      /\ UNCHANGED <<read_idx, batch, entries, chan, next_channel, dirty, signals, landed,
                     latest_async_read>>
      /\ done_idx' \in {done_idx, tile_events[tile_event_tail].done_value}
      /\ has_async_dma' = (tile_events_inflight' > 0)
  BY DEF PollTileEvent, gpuVars, channelVars
<1>3. First' = First /\ Submitted' = First /\ Submitted = First /\ write_idx' = write_idx
  BY <1>2 DEF First, Submitted, Handed, write_idx
<1>4. FlightTypes'
  <2>1. done_idx' \in Nat /\ done_idx' <= First
    BY <1>1, <1>2 DEF FlightTypes, EventTypes, EventRec
  <2>2. has_async_dma' \in BOOLEAN
    BY <1>2
  <2>3. QED
    BY <1>1, <1>2, <1>3, <2>1, <2>2 DEF FlightTypes
<1>5. PathInv'
  BY <1>1, <1>2 DEF PathInv
<1>6. DirtyInv' /\ LastInv'
  BY <1>1, <1>2 DEF DirtyInv, LastInv
<1>7. HandedInv'
  BY <1>1, <1>2, <1>3 DEF HandedInv, Queued
<1>8. QED
  BY <1>4, <1>5, <1>6, <1>7 DEF FlightInv

\* The poller copies a batch by itself.
LEMMA CopyNoCeFlight ==
  ASSUME FlightInv, RingInv, CopyNoCe, config' = config
  PROVE  FlightInv'
<1>1. FlightTypes /\ PathInv /\ DirtyInv /\ HandedInv
  BY DEF FlightInv
<1>2. /\ poll_pc = "flush" /\ config.path = "no_ce" /\ landed' = landed \cup BatchSlots
      /\ poll_pc' = "publish"
      /\ UNCHANGED <<read_idx, batch, entries, chan, next_channel, dirty, signals, done_idx,
                     latest_async_read, has_async_dma, tile_events_inflight>>
  BY DEF CopyNoCe, gpuVars, channelVars, asyncVars, eventVars
<1>3. /\ BatchSlots = First..(read_idx - 1) /\ BatchSlots \subseteq 0..(write_idx - 1)
      /\ First \in Nat /\ read_idx \in Nat /\ First <= read_idx
  BY BatchRun
<1>4. First' = First /\ Submitted' = read_idx /\ Submitted = First /\ write_idx' = write_idx
  BY <1>2 DEF First, Submitted, Handed, write_idx
<1>5. FlightTypes'
  BY <1>1, <1>2, <1>3, <1>4 DEF FlightTypes
<1>6. PathInv'
  BY <1>1, <1>2 DEF PathInv
<1>7. DirtyInv' /\ LastInv'
  BY <1>1, <1>2 DEF DirtyInv, LastInv
<1>8. HandedInv'
  <2>1. ASSUME NEW s \in 0..(read_idx - 1)
        PROVE  s \in landed' \/ Queued(s)'
    <3>1. s \in 0..(First - 1) \/ s \in First..(read_idx - 1)
      BY <1>3
    <3>2. QED
      BY <1>1, <1>2, <1>3, <1>4, <3>1 DEF HandedInv, Queued
  <2>2. QED
    BY <1>4, <2>1 DEF HandedInv
<1>9. QED
  BY <1>5, <1>6, <1>7, <1>8 DEF FlightInv

\* When the dirty channels are empty all channels are, and all that was handed
\* over is there.
LEMMA AllCopied ==
  ASSUME FlightInv, WaitCompletion
  PROVE  /\ \A c \in ChanIds : chan[c] = <<>>
         /\ \A s \in 0..(Submitted - 1) : s \in landed
<1>1. \A c \in ChanIds : chan[c] = <<>>
  BY DEF FlightInv, DirtyInv, WaitCompletion
<1>2. \A s : ~Queued(s)
  <2>1. Len(<<>>) = 0
    BY EmptySeq
  <2>2. QED
    BY <1>1, <2>1 DEF Queued, InCopies
<1>3. QED
  BY <1>1, <1>2 DEF FlightInv, HandedInv

\* Waiting for the copies, when idle or when the session stops the poller.
LEMMA WaitedFlight ==
  ASSUME FlightInv, RingInv, config' = config, FinishIdleWait \/ Relaunch
  PROVE  FlightInv'
<1>1. FlightTypes /\ PathInv /\ DirtyInv /\ HandedInv
  BY DEF FlightInv
<1>2. /\ poll_pc \in {"idle", "poll"} /\ poll_pc' = "poll"
      /\ UNCHANGED <<read_idx, batch, entries, chan, next_channel, signals, landed,
                     latest_async_read, tile_events_inflight>>
      /\ has_async_dma' = FALSE
      /\ \/ WaitCompletion /\ done_idx' = latest_async_read /\ dirty' = {}
         \/ ~has_async_dma /\ poll_pc = "poll" /\ UNCHANGED <<done_idx, dirty>>
  BY DEF FinishIdleWait, Relaunch, gpuVars, eventVars
<1>3. First' = First /\ Submitted' = First /\ Submitted = First /\ write_idx' = write_idx
  BY <1>2 DEF First, Submitted, Handed, write_idx
<1>4. FlightTypes'
  <2>1. dirty' \subseteq ChanIds /\ done_idx' \in Nat /\ done_idx' <= First
    BY <1>1, <1>2 DEF FlightTypes
  <2>2. QED
    BY <1>1, <1>2, <1>3, <2>1 DEF FlightTypes
<1>5. WaitCompletion => \A c \in ChanIds : chan[c] = <<>>
  BY AllCopied
<1>6. PathInv'
  BY <1>1, <1>2, <1>5 DEF PathInv
<1>7. DirtyInv' /\ LastInv'
  BY <1>1, <1>2, <1>5 DEF DirtyInv, LastInv
<1>8. HandedInv'
  BY <1>1, <1>2, <1>3 DEF HandedInv, Queued
<1>9. QED
  BY <1>4, <1>6, <1>7, <1>8 DEF FlightInv

\* What the completion of a copy does to the signal stream.
LEMMA SignalsNearer ==
  ASSUME SignalTypes, NEW c \in ChanIds, CopyCompletes(c)
  PROVE  /\ signals' \in Seq(Sig) /\ Len(signals') = Len(signals) /\ Len(signals) \in Nat
         /\ \A n \in 1..Len(signals) :
              /\ signals'[n].tiles = signals[n].tiles
              /\ signals'[n].after[c] = Nearer(signals[n].after[c])
              /\ \A d \in ChanIds : d # c => signals'[n].after[d] = signals[n].after[d]
<1> DEFINE new(n) == [signals[n] EXCEPT !.after[c] = Nearer(@)]
<1>1. signals' = [n \in 1..Len(signals) |-> new(n)]
  BY DEF CopyCompletes
<1>2. signals \in Seq(Sig) /\ Len(signals) \in Nat
      /\ \A n \in 1..Len(signals) : signals[n] \in Sig
  BY LenProperties, ElementOfSeq DEF SignalTypes
<1>3. ASSUME NEW n \in 1..Len(signals)
      PROVE  /\ new(n) \in Sig /\ new(n).tiles = signals[n].tiles
             /\ new(n).after[c] = Nearer(signals[n].after[c])
             /\ \A d \in ChanIds : d # c => new(n).after[d] = signals[n].after[d]
  <2>1. signals[n] \in Sig /\ Nearer(signals[n].after[c]) \in Nat
    BY <1>2, <1>3 DEF Nearer, Sig
  <2>2. QED
    BY <2>1 DEF Sig
<1> HIDE DEF new
<1>4. signals' \in [1..Len(signals) -> Sig] /\ \A n \in 1..Len(signals) : signals'[n] = new(n)
  BY <1>1, <1>3
<1>5. signals' \in Seq(Sig) /\ Len(signals') = Len(signals)
  BY <1>2, <1>4
<1>6. QED
  BY <1>2, <1>3, <1>4, <1>5

\* A copy completes: its slots are there.
LEMMA CopyFlight ==
  ASSUME FlightInv, RingInv, SignalTypes, NEW c \in ChanIds, CopyCompletes(c), config' = config
  PROVE  FlightInv'
<1>1. FlightTypes /\ PathInv /\ DirtyInv /\ HandedInv /\ LastInv
  BY DEF FlightInv
<1>2. /\ chan' \in [ChanIds -> Seq(Op)] /\ Head(chan[c]) \in Op
      /\ Head(chan[c]) = chan[c][1] /\ 1 \in 1..Len(chan[c])
      /\ landed' = landed \cup Head(chan[c]).data
      /\ \A d \in ChanIds : Len(chan[d]) \in Nat /\ Len(chan'[d]) \in Nat
      /\ Len(chan'[c]) = Len(chan[c]) - 1 /\ \A d \in ChanIds : d # c => chan'[d] = chan[d]
      /\ \A d \in ChanIds : \A p \in 1..Len(chan'[d]) :
           \E r \in 1..Len(chan[d]) : chan'[d][p] = chan[d][r]
      /\ \A s, n : n \in 0..Len(chan[c]) /\ InCopies(chan[c], s, n) =>
                     s \in landed' \/ InCopies(chan'[c], s, Nearer(n))
  BY <1>1, CopyFacts DEF FlightTypes
<1>3. /\ chan[c] # <<>>
      /\ UNCHANGED <<pollerVars, entries, tile_events_inflight>>
      /\ UNCHANGED <<poll_pc, read_idx, batch, done_idx, next_channel, dirty,
                     latest_async_read, has_async_dma>>
  <2>1. chan[c] # <<>> /\ UNCHANGED <<pollerVars, entries, tile_events_inflight>>
    BY DEF CopyCompletes, gpuVars
  <2>2. UNCHANGED <<poll_pc, read_idx, batch, done_idx, next_channel, dirty,
                     latest_async_read, has_async_dma>>
    BY <2>1 DEF pollerVars, channelVars, asyncVars
  <2>3. QED
    BY <2>1, <2>2
<1>4. /\ First' = First /\ Submitted' = Submitted /\ write_idx' = write_idx
      /\ LastStream' = LastStream
  BY <1>3 DEF First, Submitted, Handed, write_idx, LastStream
<1>5. ASSUME NEW s, NEW d \in ChanIds, InCopies(chan[d], s, Len(chan[d]))
      PROVE  s \in landed' \/ InCopies(chan'[d], s, Len(chan'[d]))
  <2>1. CASE d = c
    <3>1. Len(chan[c]) \in 0..Len(chan[c]) /\ Nearer(Len(chan[c])) = Len(chan'[c])
      BY <1>2 DEF Nearer
    <3>2. InCopies(chan[c], s, Len(chan[c]))
      BY <1>5, <2>1
    <3>3. s \in landed' \/ InCopies(chan'[c], s, Nearer(Len(chan[c])))
      BY <1>2, <3>1, <3>2, Zenon
    <3>4. QED
      BY <2>1, <3>1, <3>3
  <2>2. CASE d # c
    BY <1>2, <1>5, <2>2
  <2>3. QED
    BY <2>1, <2>2
<1>6. FlightTypes'
  <2>1. Head(chan[c]).data \subseteq 0..(write_idx - 1)
    BY <1>1, <1>2 DEF FlightTypes
  <2>2. landed' \subseteq 0..(write_idx' - 1)
    BY <1>1, <1>2, <1>4, <2>1 DEF FlightTypes
  <2>3. ASSUME NEW d \in ChanIds, NEW p \in 1..Len(chan'[d])
        PROVE  chan'[d][p].data \subseteq 0..(write_idx' - 1)
    <3>1. PICK r \in 1..Len(chan[d]) : chan'[d][p] = chan[d][r]
      BY <1>2, <2>3, Zenon
    <3>2. chan[d][r].data \subseteq 0..(write_idx - 1)
      BY <1>1 DEF FlightTypes
    <3>3. QED
      BY <1>4, <3>1, <3>2
  <2>4. QED
    BY <1>1, <1>2, <1>3, <1>4, <2>2, <2>3 DEF FlightTypes
<1>7. PathInv'
  <2>1. signals' # <<>> => signals # <<>>
    <3>1. Len(signals') = Len(signals) /\ signals' \in Seq(Sig) /\ signals \in Seq(Sig)
      BY SignalsNearer DEF SignalTypes
    <3>2. Len(<<>>) = 0 /\ (signals' # <<>> => Len(signals') # 0)
      BY <3>1, EmptySeq
    <3>3. QED
      BY <3>1, <3>2
  <2>2. config.path # "no_ce" /\ ~(config.path # "deferred" /\ ~has_async_dma /\ poll_pc # "signal")
    BY <1>1, <1>3 DEF PathInv
  <2>3. config.path # "host" => \A d \in ChanIds : \A p \in 1..Len(chan'[d]) : chan'[d][p].tiles = {}
    BY <1>1, <1>2 DEF PathInv
  <2>4. QED
    BY <1>1, <1>3, <2>1, <2>2, <2>3 DEF PathInv
<1>8. DirtyInv'
  BY <1>1, <1>2, <1>3 DEF DirtyInv
<1>9. HandedInv'
  <2>1. \A s : Queued(s) => s \in landed' \/ Queued(s)'
    BY <1>5 DEF Queued
  <2>2. QED
    BY <1>1, <1>2, <1>4, <2>1 DEF HandedInv
<1>10. LastInv'
  <2>1. LastStream \in ChanIds
    BY <1>1, RoundRobin DEF FlightTypes, LastStream
  <2>2. QED
    BY <1>1, <1>2, <1>3, <1>4, <1>5, <2>1 DEF LastInv
<1>11. QED
  BY <1>6, <1>7, <1>8, <1>9, <1>10 DEF FlightInv

-----------------------------------------------------------------------------
(* Counts, signals and events: types *)

\* The remainder of a division is unique.
LEMMA ModUnique ==
  ASSUME NEW M \in Nat, M > 0, NEW a \in Nat, NEW q \in Nat, NEW r \in 0..(M - 1),
         a = M * q + r
  PROVE  a % M = r
<1> DEFINE p == a \div M
           s == a % M
<1>1. p \in Int /\ s \in 0..(M - 1) /\ a = M * p + s
  OBVIOUS
<1> HIDE DEF p, s
<1>2. M * p + s = M * q + r /\ r \in Int /\ s \in Int
  BY <1>1
<1>3. ~(p < q)
  <2>1. SUFFICES ASSUME p + 1 <= q PROVE FALSE
    BY <1>1
  <2>2. M * (p + 1) <= M * q
    BY <1>1, <2>1
  <2>3. M * (p + 1) = M * p + M
    BY <1>1
  <2>4. QED
    BY <1>1, <1>2, <2>2, <2>3
<1>4. ~(q < p)
  <2>1. SUFFICES ASSUME q + 1 <= p PROVE FALSE
    BY <1>1
  <2>2. M * (q + 1) <= M * p
    BY <1>1, <2>1
  <2>3. M * (q + 1) = M * q + M
    BY <1>1
  <2>4. QED
    BY <1>1, <1>2, <2>2, <2>3
<1>5. p = q
  BY <1>1, <1>3, <1>4
<1>6. QED
  BY <1>1, <1>2, <1>5 DEF s

\* Adding to a remainder.
LEMMA ModAdd ==
  ASSUME NEW M \in Nat, M > 0, NEW a \in Nat, NEW b \in Nat
  PROVE  a % M \in 0..(M - 1) /\ ((a % M) + b) % M = (a + b) % M
<1> DEFINE p == a \div M
           s == a % M
           q == (s + b) \div M
           r == (s + b) % M
<1>1. p \in Nat /\ s \in 0..(M - 1) /\ a = M * p + s
  OBVIOUS
<1> HIDE DEF p, s
<1>2. q \in Nat /\ r \in 0..(M - 1) /\ s + b = M * q + r
  BY <1>1
<1> HIDE DEF q, r
<1>3. M * (p + q) = M * p + M * q /\ p + q \in Nat
  BY <1>1, <1>2
<1>4. a + b = M * (p + q) + r /\ a + b \in Nat
  BY <1>1, <1>2, <1>3
<1>5. (a + b) % M = r
  BY <1>2, <1>3, <1>4, ModUnique
<1>6. QED
  BY <1>1, <1>5 DEF s, r

\* The places of the waiting events in the ring of events.
LEMMA EventPlaces ==
  ASSUME NEW t \in EventSlots
  PROVE  /\ \A j \in Nat : (t + j) % MAX_PENDING_TILE_EVENTS \in EventSlots
         /\ (t + 0) % MAX_PENDING_TILE_EVENTS = t
         /\ (t + 1) % MAX_PENDING_TILE_EVENTS \in EventSlots
         /\ \A j \in Nat : (((t + 1) % MAX_PENDING_TILE_EVENTS) + j) % MAX_PENDING_TILE_EVENTS
                             = (t + (j + 1)) % MAX_PENDING_TILE_EVENTS
         /\ \A j \in Nat : (((t + j) % MAX_PENDING_TILE_EVENTS) + 1) % MAX_PENDING_TILE_EVENTS
                             = (t + (j + 1)) % MAX_PENDING_TILE_EVENTS
         /\ \A i, j \in 0..(MAX_PENDING_TILE_EVENTS - 1) :
              i # j => (t + i) % MAX_PENDING_TILE_EVENTS # (t + j) % MAX_PENDING_TILE_EVENTS
<1> DEFINE M == MAX_PENDING_TILE_EVENTS
<1>1. M \in Nat /\ M > 0 /\ t \in Nat /\ t < M
  BY TiledAssumption DEF EventSlots
<1>2. \A a, b \in Nat : a % M \in 0..(M - 1) /\ ((a % M) + b) % M = (a + b) % M
  BY <1>1, ModAdd
<1>3. \A x \in Nat : x < M => x % M = x /\ (x + M) % M = x
  BY <1>1
<1> HIDE DEF M
<1>4. \A j \in Nat : (t + j) % M \in 0..(M - 1) /\ t + j \in Nat
  BY <1>1, <1>2
<1>5. (t + 0) % M = t /\ t + 0 = t
  BY <1>1, <1>3
<1>6. \A j \in Nat : (((t + 1) % M) + j) % M = (t + (j + 1)) % M
  <2>1. ASSUME NEW j \in Nat
        PROVE  (((t + 1) % M) + j) % M = (t + (j + 1)) % M
    <3>1. t + 1 \in Nat /\ (t + 1) + j = t + (j + 1)
      BY <1>1
    <3>2. QED
      BY <1>2, <3>1
  <2>2. QED
    BY <2>1
<1>7. \A j \in Nat : (((t + j) % M) + 1) % M = (t + (j + 1)) % M
  <2>1. ASSUME NEW j \in Nat
        PROVE  (((t + j) % M) + 1) % M = (t + (j + 1)) % M
    <3>1. t + j \in Nat /\ (t + j) + 1 = t + (j + 1) /\ 1 \in Nat
      BY <1>1
    <3>2. QED
      BY <1>2, <3>1
  <2>2. QED
    BY <2>1
<1>8. \A j \in 0..(M - 1) : (t + j) % M = IF t + j < M THEN t + j ELSE t + j - M
  <2>1. ASSUME NEW j \in 0..(M - 1)
        PROVE  (t + j) % M = IF t + j < M THEN t + j ELSE t + j - M
    <3>1. CASE t + j < M
      BY <1>1, <1>3, <3>1
    <3>2. CASE ~(t + j < M)
      <4>1. t + j - M \in Nat /\ t + j - M < M /\ (t + j - M) + M = t + j
        BY <1>1, <3>2
      <4>2. ((t + j - M) + M) % M = t + j - M
        BY <1>3, <4>1
      <4>3. QED
        BY <3>2, <4>1, <4>2
    <3>3. QED
      BY <3>1, <3>2
  <2>2. QED
    BY <2>1
<1>9. \A i, j \in 0..(M - 1) : i # j => (t + i) % M # (t + j) % M
  <2>1. ASSUME NEW i \in 0..(M - 1), NEW j \in 0..(M - 1), i # j
        PROVE  (IF t + i < M THEN t + i ELSE t + i - M) # (IF t + j < M THEN t + j ELSE t + j - M)
    BY <1>1, <2>1
  <2>2. QED
    BY <1>8, <2>1
<1>10. QED
  BY <1>1, <1>4, <1>5, <1>6, <1>7, <1>9 DEF M, EventSlots

\* How many entries of a tile a batch has is a number.
LEMMA InBatchNat ==
  ASSUME RingInv, NEW t
  PROVE  InBatch(t) \in Nat
<1> DEFINE S == {n \in 1..Len(batch) : batch[n].tile = t}
<1>1. Len(batch) \in Nat
  BY BatchRun
<1>2. 1 \in Int /\ Len(batch) \in Int
  BY <1>1
<1>3. IsFiniteSet(1..Len(batch))
  BY <1>2, FS_Interval, Zenon
<1>4. S \in SUBSET (1..Len(batch))
  OBVIOUS
<1> HIDE DEF S
<1>5. IsFiniteSet(S)
  BY <1>3, <1>4, FS_Subset, Zenon
<1>6. Cardinality(S) \in Nat
  BY <1>5, FS_CardinalityType, Zenon
<1>7. QED
  BY <1>6 DEF S, InBatch

\* The steps that leave a group of variables alone.
LEMMA GpuStepFrame ==
  ASSUME (\E b \in Blocks : TransferWarp(b)) \/ (\E b \in Blocks, k \in Chunks : ComputeWarp(b, k))
  PROVE  UNCHANGED <<pollerVars, hostVars, eventVars, chunk_done, chan, signals, landed>>
<1>1. CASE \E b \in Blocks : TransferWarp(b)
  BY <1>1 DEF TransferWarp, AcquireTile, AcquireSlots, CommitSlot, WaitChunkDone, WaitCompute
<1>2. CASE \E b \in Blocks, k \in Chunks : ComputeWarp(b, k)
  BY <1>2 DEF ComputeWarp, StartCompute, FinishCompute
<1>3. QED
  BY <1>1, <1>2

\* What is flushed stays flushed.
LEMMA FirstGrows ==
  ASSUME RingInv, [Next]_vars
  PROVE  First' \in Nat /\ First <= First'
<1>1. First \in Nat /\ read_idx \in Nat /\ Len(batch) \in Nat /\ First <= read_idx
  BY BatchRun
<1>2. CASE UNCHANGED <<read_idx, batch>>
  BY <1>1, <1>2 DEF First
<1>3. CASE read_idx' = read_idx /\ batch' = <<>>
  <2>1. Len(<<>>) = 0
    BY EmptySeq
  <2>2. First' = read_idx
    BY <1>1, <1>3, <2>1 DEF First
  <2>3. QED
    BY <1>1, <2>2
<1>4. CASE PollEntry
  <2> DEFINE x == [tile |-> entries[read_idx + 1].tile, last |-> entries[read_idx + 1].last,
                   slot |-> read_idx]
  <2>1. batch' = Append(batch, x) /\ read_idx' = read_idx + 1
    BY <1>4 DEF PollEntry
  <2>2. Len(batch') = Len(batch) + 1
    <3>1. batch \in Seq(BatchEntry \cup {x}) /\ x \in BatchEntry \cup {x}
      BY DEF RingInv, RingTypes
    <3> HIDE DEF x
    <3>2. QED
      BY <2>1, <3>1, AppendProperties
  <2>3. First' = First
    BY <1>1, <2>1, <2>2 DEF First
  <2>4. QED
    BY <1>1, <2>3
<1>5. CASE Poller
  <2>1. CASE ~PollEntry
    <3>1. read_idx' = read_idx /\ (batch' = batch \/ batch' = <<>>)
      BY <1>5, <2>1 DEF Poller, GapTimeout, UpdateProgress, SubmitData, SubmitSignal,
       ProcessBatch, DeferTileEvent, StartEventPoll, PollTileEvent, LeaveEventPoll,
       CopyNoCe, PublishNoCe, StartIdleWait, FinishIdleWait, Flushed
    <3>2. QED
      BY <1>2, <1>3, <3>1
  <2>2. QED
    BY <1>4, <2>1
<1>6. CASE (\E b \in Blocks : TransferWarp(b)) \/ (\E b \in Blocks, k \in Chunks : ComputeWarp(b, k))
  BY <1>2, <1>6, GpuStepFrame DEF pollerVars
<1>7. CASE \/ \E c \in ChanIds : CopyCompletes(c)
           \/ SignalCompletes \/ DeviceSynchronize \/ Relaunch \/ UNCHANGED vars
  BY <1>2, <1>7 DEF CopyCompletes, SignalCompletes, DeviceSynchronize, Relaunch, vars, pollerVars
<1>8. QED
  BY <1>5, <1>6, <1>7 DEF Next, Finished, Hangs

\* The counters stay numbers.
LEMMA StepCounts ==
  ASSUME GpuTypes, RingInv, CountTypes, [Next]_vars
  PROVE  CountTypes'
<1>1. config' = config /\ TileIds' = TileIds
  BY ConfigFixed, SameShape
<1>2. \A t : InBatch(t) \in Nat
  BY InBatchNat
<1>3. CASE UNCHANGED <<tile_progress, tile_signal_buf, chunk_done>>
  BY <1>1, <1>3 DEF CountTypes
<1>4. CASE UpdateProgress
  <2>1. /\ tile_progress' = [t \in TileIds |-> tile_progress[t] + InBatch(t)]
        /\ tile_signal_buf' = [t \in TileIds |->
             IF t \in BatchTiles THEN tile_progress'[t] ELSE tile_signal_buf[t]]
        /\ chunk_done' = chunk_done
    BY <1>4 DEF UpdateProgress
  <2>2. tile_progress' \in [TileIds -> Nat]
    BY <1>2, <2>1 DEF CountTypes
  <2>3. tile_signal_buf' \in [TileIds -> Nat]
    BY <2>1, <2>2 DEF CountTypes
  <2>4. QED
    BY <1>1, <2>1, <2>2, <2>3 DEF CountTypes
<1>5. CASE DeferTileEvent
  <2>1. /\ tile_progress' = [t \in TileIds |-> tile_progress[t] +
                               (IF t \in MarkedTiles THEN InBatch(t) ELSE 0)]
        /\ UNCHANGED <<tile_signal_buf, chunk_done>>
    BY <1>5 DEF DeferTileEvent
  <2>2. tile_progress' \in [TileIds -> Nat]
    BY <1>2, <2>1 DEF CountTypes
  <2>3. QED
    BY <1>1, <2>1, <2>2 DEF CountTypes
<1>6. CASE PublishNoCe
  <2>1. /\ tile_progress' = [t \in TileIds |-> tile_progress[t] +
                               (IF HasTileMarkers THEN InBatch(t) ELSE 0)]
        /\ chunk_done' = [t \in TileIds |-> IF t \in MarkedTiles THEN tile_progress'[t]
                                                                ELSE chunk_done[t]]
        /\ tile_signal_buf' = tile_signal_buf
    BY <1>6 DEF PublishNoCe
  <2>2. tile_progress' \in [TileIds -> Nat]
    BY <1>2, <2>1 DEF CountTypes
  <2>3. chunk_done' \in [TileIds -> Nat]
    BY <2>1, <2>2 DEF CountTypes
  <2>4. QED
    BY <1>1, <2>1, <2>2, <2>3 DEF CountTypes
<1>7. CASE PollTileEvent
  <2>1. PICK S : chunk_done' = [t \in TileIds |-> IF t \in S THEN tile_progress[t]
                                                            ELSE chunk_done[t]]
    BY <1>7 DEF PollTileEvent
  <2>2. UNCHANGED <<tile_progress, tile_signal_buf>>
    BY <1>7 DEF PollTileEvent, progressVars
  <2>3. QED
    BY <1>1, <2>1, <2>2 DEF CountTypes
<1>8. CASE (\E c \in ChanIds : CopyCompletes(c)) \/ SignalCompletes
  <2>1. PICK S : chunk_done' = [t \in TileIds |-> IF t \in S THEN tile_signal_buf[t]
                                                            ELSE chunk_done[t]]
    BY <1>8 DEF CopyCompletes, SignalCompletes, Published
  <2>2. UNCHANGED <<tile_progress, tile_signal_buf>>
    BY <1>8 DEF CopyCompletes, SignalCompletes, pollerVars, progressVars
  <2>3. QED
    BY <1>1, <2>1, <2>2 DEF CountTypes
<1>9. CASE Relaunch
  <2>1. /\ tile_progress' = [t \in TileIds |-> 0] /\ chunk_done' = [t \in TileIds |-> 0]
        /\ tile_signal_buf' = tile_signal_buf
    BY <1>9 DEF Relaunch, ClearedCounts
  <2>2. QED
    BY <1>1, <2>1 DEF CountTypes
<1>10. CASE (\E b \in Blocks : TransferWarp(b)) \/ (\E b \in Blocks, k \in Chunks : ComputeWarp(b, k))
  <2>1. UNCHANGED <<tile_progress, tile_signal_buf, chunk_done>>
    BY <1>10, GpuStepFrame DEF pollerVars, progressVars
  <2>2. QED
    BY <1>3, <2>1
<1>11. CASE Poller \/ DeviceSynchronize \/ UNCHANGED vars
  <2>1. \/ UNCHANGED <<tile_progress, tile_signal_buf, chunk_done>>
        \/ UpdateProgress \/ DeferTileEvent \/ PublishNoCe \/ PollTileEvent
    BY <1>11 DEF Poller, PollEntry, GapTimeout, SubmitData, SubmitSignal, ProcessBatch,
       StartEventPoll, LeaveEventPoll, CopyNoCe, StartIdleWait, FinishIdleWait,
       DeviceSynchronize, vars, pollerVars, progressVars
  <2>2. QED
    BY <1>3, <1>4, <1>5, <1>6, <1>7, <2>1
<1>12. QED
  BY <1>8, <1>9, <1>10, <1>11 DEF Next, Finished, Hangs

\* A step of the poller leaves the channels alone or submits a copy to them.
LEMMA PollerChannels ==
  ASSUME RingInv, FlightTypes, Poller
  PROVE  /\ \A c \in ChanIds : Len(chan[c]) \in Nat /\ Len(chan'[c]) \in Nat
                               /\ Len(chan[c]) <= Len(chan'[c])
         /\ \A c \in ChanIds : \A s, n : n \in 0..Len(chan[c]) /\ InCopies(chan[c], s, n) =>
                                           InCopies(chan'[c], s, n)
<1>1. chan \in [ChanIds -> Seq(Op)] /\ next_channel \in ChanIds /\ dirty \subseteq ChanIds
  BY DEF FlightTypes
<1>2. \/ chan' = chan
      \/ Submit([data |-> BatchSlots, tiles |-> {}]) \/ Submit([data |-> {}, tiles |-> BatchTiles])
  BY DEF Poller, PollEntry, GapTimeout, UpdateProgress, SubmitData, SubmitSignal,
       ProcessBatch, DeferTileEvent, StartEventPoll, PollTileEvent, LeaveEventPoll,
       CopyNoCe, PublishNoCe, StartIdleWait, FinishIdleWait
<1>3. CASE chan' = chan
  <2>1. \A c \in ChanIds : Len(chan[c]) \in Nat
    BY <1>1, LenProperties
  <2>2. QED
    BY <1>3, <2>1
<1>4. ASSUME NEW op \in Op, Submit(op)
      PROVE  /\ \A c \in ChanIds : Len(chan[c]) \in Nat /\ Len(chan'[c]) \in Nat
                                   /\ Len(chan[c]) <= Len(chan'[c])
             /\ \A c \in ChanIds : \A s, n : n \in 0..Len(chan[c]) /\ InCopies(chan[c], s, n) =>
                                               InCopies(chan'[c], s, n)
  BY <1>1, <1>4, SubmitFacts
<1>5. [data |-> BatchSlots, tiles |-> {}] \in Op /\ [data |-> {}, tiles |-> BatchTiles] \in Op
  BY BatchOps
<1>6. QED
  BY <1>2, <1>3, <1>4, <1>5, Zenon

\* The signal stream: a signal never waits for more than is queued.
LEMMA StepSignals ==
  ASSUME RingInv, FlightTypes, SignalTypes, [Next]_vars
  PROVE  SignalTypes'
<1>1. /\ chan \in [ChanIds -> Seq(Op)] /\ signals \in Seq(Sig) /\ Len(signals) \in Nat
      /\ \A n \in 1..Len(signals) : signals[n] \in Sig
      /\ \A n \in 1..Len(signals) : signals[n].after \in [ChanIds -> Nat]
      /\ \A n \in 1..Len(signals), c \in ChanIds : signals[n].after[c] <= Len(chan[c])
      /\ \A c \in ChanIds : Len(chan[c]) \in Nat
  <2>1. chan \in [ChanIds -> Seq(Op)] /\ signals \in Seq(Sig)
    BY DEF FlightTypes, SignalTypes
  <2>2. Len(signals) \in Nat /\ \A n \in 1..Len(signals) : signals[n] \in Sig
    BY <2>1, LenProperties, ElementOfSeq
  <2>3. \A c \in ChanIds : Len(chan[c]) \in Nat
    BY <2>1, LenProperties
  <2>4. \A n \in 1..Len(signals) : signals[n].after \in [ChanIds -> Nat]
    BY <2>2 DEF Sig
  <2>5. QED
    BY <2>1, <2>2, <2>3, <2>4 DEF SignalTypes
<1>2. CASE UNCHANGED <<chan, signals>>
  BY <1>2 DEF SignalTypes
<1>3. CASE Poller
  <2>1. \A c \in ChanIds : Len(chan'[c]) \in Nat /\ Len(chan[c]) <= Len(chan'[c])
    BY <1>3, PollerChannels
  <2>2. CASE signals' = signals
    <3>1. \A n \in 1..Len(signals), c \in ChanIds : signals[n].after[c] <= Len(chan'[c])
      <4>1. ASSUME NEW n \in 1..Len(signals), NEW c \in ChanIds
            PROVE  signals[n].after[c] <= Len(chan'[c])
        <5>1. signals[n].after[c] \in Nat /\ signals[n].after[c] <= Len(chan[c])
          BY <1>1
        <5>2. Len(chan[c]) \in Nat /\ Len(chan'[c]) \in Nat /\ Len(chan[c]) <= Len(chan'[c])
          BY <1>1, <2>1
        <5>3. QED
          BY <5>1, <5>2
      <4>2. QED
        BY <4>1
    <3>2. QED
      BY <1>1, <2>2, <3>1 DEF SignalTypes
  <2>3. CASE SubmitSignal /\ config.path = "device"
    <3> DEFINE g == [tiles |-> BatchTiles, after |-> QueuedOnDirty]
    <3>1. signals' = Append(signals, g) /\ chan' = chan
      BY <2>3 DEF SubmitSignal
    <3>2. QueuedOnDirty \in [ChanIds -> Nat]
          /\ \A c \in ChanIds : QueuedOnDirty[c] <= Len(chan[c])
      BY <1>1 DEF QueuedOnDirty
    <3>3. g \in Sig /\ g.after = QueuedOnDirty
      BY <3>2, BatchOps DEF Sig
    <3> HIDE DEF g
    <3>4. /\ signals' \in Seq(Sig) /\ Len(signals') = Len(signals) + 1
          /\ \A n \in 1..Len(signals) : signals'[n] = signals[n]
          /\ signals'[Len(signals) + 1] = g
      BY <1>1, <3>1, <3>3, AppendProperties
    <3>5. ASSUME NEW n \in 1..Len(signals'), NEW c \in ChanIds
          PROVE  signals'[n].after[c] <= Len(chan'[c])
      <4>1. n \in 1..Len(signals) \/ n = Len(signals) + 1
        BY <1>1, <3>4, <3>5
      <4>2. QED
        BY <1>1, <3>1, <3>2, <3>3, <3>4, <4>1
    <3>6. QED
      BY <3>4, <3>5 DEF SignalTypes
  <2>4. signals' = signals \/ (SubmitSignal /\ config.path = "device")
    BY <1>3 DEF Poller, PollEntry, GapTimeout, UpdateProgress, SubmitData, SubmitSignal,
       ProcessBatch, DeferTileEvent, StartEventPoll, PollTileEvent, LeaveEventPoll,
       CopyNoCe, PublishNoCe, StartIdleWait, FinishIdleWait
  <2>5. QED
    BY <2>2, <2>3, <2>4
<1>4. CASE \E c \in ChanIds : CopyCompletes(c)
  <2>1. PICK c \in ChanIds : CopyCompletes(c)
    BY <1>4
  <2>2. /\ signals' \in Seq(Sig) /\ Len(signals') = Len(signals)
        /\ \A n \in 1..Len(signals) :
             /\ signals'[n].after[c] = Nearer(signals[n].after[c])
             /\ \A d \in ChanIds : d # c => signals'[n].after[d] = signals[n].after[d]
    BY <2>1, SignalsNearer
  <2>3. /\ Len(chan'[c]) = Len(chan[c]) - 1 /\ 1 \in 1..Len(chan[c])
        /\ \A d \in ChanIds : d # c => chan'[d] = chan[d]
    BY <1>1, <2>1, CopyFacts
  <2>4. ASSUME NEW n \in 1..Len(signals), NEW d \in ChanIds
        PROVE  signals'[n].after[d] <= Len(chan'[d])
    <3>1. CASE d = c
      <4>1. signals[n].after[c] \in Nat /\ signals[n].after[c] <= Len(chan[c]) /\ Len(chan[c]) \in Nat
        BY <1>1
      <4>2. Nearer(signals[n].after[c]) <= Len(chan[c]) - 1
        BY <2>3, <4>1 DEF Nearer
      <4>3. QED
        BY <2>2, <2>3, <3>1, <4>2
    <3>2. CASE d # c
      BY <1>1, <2>2, <2>3, <3>2
    <3>3. QED
      BY <3>1, <3>2
  <2>5. QED
    BY <2>2, <2>4 DEF SignalTypes
<1>5. CASE SignalCompletes
  <2>1. signals # <<>> /\ signals' = Tail(signals) /\ chan' = chan
    BY <1>5 DEF SignalCompletes
  <2>2. /\ signals' \in Seq(Sig) /\ Len(signals') = Len(signals) - 1
        /\ \A n \in 1..Len(signals') : signals'[n] = signals[n + 1]
    BY <1>1, <2>1, HeadTailProperties
  <2>3. \A n \in 1..Len(signals') : n + 1 \in 1..Len(signals)
    BY <1>1, <2>2
  <2>4. QED
    BY <1>1, <2>1, <2>2, <2>3 DEF SignalTypes
<1>6. CASE (\E b \in Blocks : TransferWarp(b)) \/ (\E b \in Blocks, k \in Chunks : ComputeWarp(b, k))
  BY <1>2, <1>6, GpuStepFrame
<1>7. CASE DeviceSynchronize \/ Relaunch \/ UNCHANGED vars
  BY <1>2, <1>7 DEF DeviceSynchronize, Relaunch, vars
<1>8. QED
  BY <1>3, <1>4, <1>5, <1>6, <1>7 DEF Next, Finished, Hangs

\* What the completion of a copy does to the deferred events.
LEMMA EventsNearer ==
  ASSUME EventTypes, NEW c \in ChanIds, CopyCompletes(c)
  PROVE  \A s \in EventSlots :
           /\ tile_events[s].before \in Nat
           /\ tile_events'[s].ch = tile_events[s].ch /\ tile_events'[s].tiles = tile_events[s].tiles
           /\ tile_events'[s].done_value = tile_events[s].done_value
           /\ tile_events'[s].before = IF tile_events[s].ch = c THEN Nearer(tile_events[s].before)
                                                               ELSE tile_events[s].before
           /\ tile_events'[s] \in EventRec
<1>1. tile_events \in [EventSlots -> EventRec]
  BY DEF EventTypes
<1>2. ASSUME NEW s \in EventSlots
      PROVE  /\ tile_events[s].before \in Nat
             /\ tile_events'[s].ch = tile_events[s].ch /\ tile_events'[s].tiles = tile_events[s].tiles
             /\ tile_events'[s].done_value = tile_events[s].done_value
             /\ tile_events'[s].before = IF tile_events[s].ch = c THEN Nearer(tile_events[s].before)
                                                                 ELSE tile_events[s].before
             /\ tile_events'[s] \in EventRec
  <2>1. tile_events[s] \in EventRec
    BY <1>1
  <2>2. tile_events'[s] = IF tile_events[s].ch = c
                            THEN [tile_events[s] EXCEPT !.before = Nearer(@)] ELSE tile_events[s]
    BY DEF CopyCompletes
  <2>3. Nearer(tile_events[s].before) \in Nat
    BY <2>1 DEF EventRec, Nearer
  <2>4. QED
    BY <2>1, <2>2, <2>3 DEF EventRec
<1>3. QED
  BY <1>2

\* The deferred events: a ring of MAX_PENDING_TILE_EVENTS, each behind no more
\* copies than are queued.
LEMMA StepEvents ==
  ASSUME RingInv, FlightTypes, EventTypes, [Next]_vars
  PROVE  EventTypes'
<1>1. /\ tile_events \in [EventSlots -> EventRec]
      /\ tile_event_head \in EventSlots /\ tile_event_tail \in EventSlots
      /\ tile_events_inflight \in Nat /\ tile_event_head = EventSlot(tile_events_inflight)
      /\ poll_pc = "events" => tile_events_inflight > 0
  BY DEF EventTypes
<1>2. First \in Nat /\ First' \in Nat /\ First <= First'
  BY BatchRun, FirstGrows
<1>3. \A s \in EventSlots : /\ tile_events[s].ch \in ChanIds /\ tile_events[s].before \in Nat
                            /\ tile_events[s].done_value \in Nat
                            /\ tile_events[s].done_value <= First'
                            /\ tile_events[s].before <= Len(chan[tile_events[s].ch])
  <2>1. ASSUME NEW s \in EventSlots
        PROVE  /\ tile_events[s].ch \in ChanIds /\ tile_events[s].before \in Nat
               /\ tile_events[s].done_value \in Nat /\ tile_events[s].done_value <= First
    BY <1>1 DEF EventRec, EventTypes
  <2>2. \A s \in EventSlots : tile_events[s].before <= Len(chan[tile_events[s].ch])
    BY DEF EventTypes
  <2>3. ASSUME NEW s \in EventSlots
        PROVE  tile_events[s].done_value <= First'
    BY <1>2, <2>1
  <2>4. QED
    BY <2>1, <2>2, <2>3
<1>4. \A c \in ChanIds : Len(chan[c]) \in Nat
  BY LenProperties DEF FlightTypes
<1>5. CASE /\ UNCHANGED eventVars /\ (poll_pc' = "events" => tile_events_inflight > 0)
           /\ \A c \in ChanIds : Len(chan'[c]) \in Nat /\ Len(chan[c]) <= Len(chan'[c])
  <2>1. UNCHANGED <<tile_events, tile_event_head, tile_event_tail, tile_events_inflight>>
    BY <1>5 DEF eventVars
  <2>2. ASSUME NEW s \in EventSlots
        PROVE  tile_events[s].before <= Len(chan'[tile_events[s].ch])
    BY <1>3, <1>4, <1>5
  <2>3. QED
    BY <1>1, <1>3, <1>5, <2>1, <2>2 DEF EventTypes, EventSlot
<1>6. CASE DeferTileEvent
  <2> DEFINE e == [ch |-> LastStream, before |-> Len(chan[LastStream]),
                   tiles |-> MarkedTiles, done_value |-> read_idx]
  <2>1. /\ tile_events' = [tile_events EXCEPT ![tile_event_head] = e]
        /\ tile_event_head' = (tile_event_head + 1) % MAX_PENDING_TILE_EVENTS
        /\ tile_events_inflight' = tile_events_inflight + 1
        /\ UNCHANGED <<tile_event_tail, chan, read_idx>> /\ poll_pc' = "poll" /\ batch' = <<>>
    BY <1>6 DEF DeferTileEvent, Flushed
  <2>2. LastStream \in ChanIds
    BY RoundRobin DEF FlightTypes, LastStream
  <2>3. MarkedTiles \subseteq Nat /\ read_idx \in Nat
    <3>1. MarkedTiles \subseteq BatchTiles
      BY DEF MarkedTiles, BatchTiles
    <3>2. QED
      BY <3>1, BatchOps, BatchRun
  <2>4. e \in EventRec /\ e.before <= Len(chan[e.ch]) /\ e.done_value = read_idx
    BY <1>4, <2>2, <2>3 DEF EventRec
  <2>5. First' = read_idx
    BY <2>1, FlushedFacts
  <2> HIDE DEF e
  <2>6. /\ tile_events' \in [EventSlots -> EventRec] /\ tile_events'[tile_event_head] = e
        /\ \A s \in EventSlots : s # tile_event_head => tile_events'[s] = tile_events[s]
    BY <1>1, <2>1, <2>4
  <2>7. tile_event_head' = (tile_event_tail + (tile_events_inflight + 1)) % MAX_PENDING_TILE_EVENTS
        /\ tile_event_head' \in EventSlots
    BY <1>1, <2>1, EventPlaces DEF EventSlot
  <2>8. tile_event_head' = EventSlot(tile_events_inflight)'
    BY <2>1, <2>7 DEF EventSlot
  <2>9. ASSUME NEW s \in EventSlots
        PROVE  /\ tile_events'[s].before <= Len(chan'[tile_events'[s].ch])
               /\ tile_events'[s].done_value <= First'
    BY <1>2, <1>3, <2>1, <2>4, <2>5, <2>6
  <2>10. QED
    BY <1>1, <2>1, <2>6, <2>7, <2>8, <2>9 DEF EventTypes
<1>7. CASE PollTileEvent
  <2>1. /\ poll_pc = "events"
        /\ tile_event_tail' = (tile_event_tail + 1) % MAX_PENDING_TILE_EVENTS
        /\ tile_events_inflight' = tile_events_inflight - 1
        /\ poll_pc' = (IF tile_events_inflight' = 0 THEN "poll" ELSE "events")
        /\ UNCHANGED <<tile_events, tile_event_head, chan>>
    BY <1>7 DEF PollTileEvent
  <2>2. tile_events_inflight - 1 \in Nat /\ (tile_events_inflight - 1) + 1 = tile_events_inflight
    BY <1>1, <2>1
  <2>3. /\ (((tile_event_tail + 1) % MAX_PENDING_TILE_EVENTS) + (tile_events_inflight - 1))
             % MAX_PENDING_TILE_EVENTS
             = (tile_event_tail + ((tile_events_inflight - 1) + 1)) % MAX_PENDING_TILE_EVENTS
        /\ (tile_event_tail + 1) % MAX_PENDING_TILE_EVENTS \in EventSlots
    BY <1>1, <2>2, EventPlaces
  <2>4. tile_event_head' = EventSlot(tile_events_inflight)'
    BY <1>1, <2>1, <2>2, <2>3 DEF EventSlot
  <2>5. tile_event_tail' \in EventSlots /\ tile_events_inflight' \in Nat
        /\ (poll_pc' = "events" => tile_events_inflight' > 0)
    BY <2>1, <2>2, <2>3
  <2>6. QED
    BY <1>1, <1>3, <2>1, <2>4, <2>5 DEF EventTypes
<1>8. CASE \E c \in ChanIds : CopyCompletes(c)
  <2>1. PICK c \in ChanIds : CopyCompletes(c)
    BY <1>8
  <2>2. /\ Len(chan'[c]) = Len(chan[c]) - 1 /\ 1 \in 1..Len(chan[c])
        /\ \A d \in ChanIds : d # c => chan'[d] = chan[d]
    BY <2>1, CopyFacts DEF FlightTypes
  <2>3. UNCHANGED <<poll_pc, tile_event_head, tile_event_tail, tile_events_inflight>>
    BY <2>1 DEF CopyCompletes, pollerVars
  <2>4. \A s \in EventSlots :
           /\ tile_events'[s].ch = tile_events[s].ch
           /\ tile_events'[s].done_value = tile_events[s].done_value
           /\ tile_events'[s].before = IF tile_events[s].ch = c THEN Nearer(tile_events[s].before)
                                                               ELSE tile_events[s].before
           /\ tile_events'[s] \in EventRec
    BY <2>1, EventsNearer
  <2>5. tile_events' \in [EventSlots -> EventRec]
    <3>1. DOMAIN tile_events' = EventSlots
          /\ tile_events' = [s \in EventSlots |-> tile_events'[s]]
      BY <2>1 DEF CopyCompletes
    <3>2. QED
      BY <2>4, <3>1
  <2>6. ASSUME NEW s \in EventSlots
        PROVE  /\ tile_events'[s].before <= Len(chan'[tile_events'[s].ch])
               /\ tile_events'[s].done_value <= First'
    <3>1. /\ tile_events[s].ch \in ChanIds /\ tile_events[s].before \in Nat
          /\ tile_events[s].before <= Len(chan[tile_events[s].ch])
          /\ tile_events[s].done_value <= First'
      BY <1>3
    <3>2. CASE tile_events[s].ch = c
      <4>1. Nearer(tile_events[s].before) <= Len(chan[c]) - 1
        BY <1>4, <2>2, <3>1, <3>2 DEF Nearer
      <4>2. QED
        BY <2>2, <2>4, <3>1, <3>2, <4>1
    <3>3. CASE tile_events[s].ch # c
      BY <2>2, <2>4, <3>1, <3>3
    <3>4. QED
      BY <3>2, <3>3
  <2>7. tile_event_head' = EventSlot(tile_events_inflight)'
    BY <1>1, <2>3 DEF EventSlot
  <2>8. QED
    BY <1>1, <2>3, <2>5, <2>6, <2>7 DEF EventTypes
<1>9. CASE Poller /\ ~DeferTileEvent /\ ~PollTileEvent
  <2>1. UNCHANGED eventVars /\ (poll_pc' = "events" => tile_events_inflight > 0)
    BY <1>1, <1>9 DEF Poller, PollEntry, GapTimeout, UpdateProgress, SubmitData, SubmitSignal,
       ProcessBatch, StartEventPoll, LeaveEventPoll, CopyNoCe, PublishNoCe, StartIdleWait,
       FinishIdleWait, Flushed
  <2>2. QED
    BY <1>5, <1>9, <2>1, PollerChannels
<1>10. CASE (\E b \in Blocks : TransferWarp(b)) \/ (\E b \in Blocks, k \in Chunks : ComputeWarp(b, k))
  <2>1. UNCHANGED <<eventVars, chan, poll_pc>>
    BY <1>10, GpuStepFrame DEF pollerVars
  <2>2. QED
    BY <1>1, <1>4, <1>5, <2>1
<1>11. CASE SignalCompletes \/ DeviceSynchronize \/ Relaunch \/ UNCHANGED vars
  <2>1. UNCHANGED <<eventVars, chan, poll_pc>>
    BY <1>11 DEF SignalCompletes, DeviceSynchronize, Relaunch, vars, pollerVars
  <2>2. QED
    BY <1>1, <1>4, <1>5, <2>1
<1>12. QED
  BY <1>6, <1>7, <1>8, <1>9, <1>10, <1>11 DEF Next, Finished, Hangs

\* Every step preserves the invariant of the copies in flight.
LEMMA StepFlight ==
  ASSUME SchedInv, RingInv, FlightInv, SignalTypes, EventTypes, [Next]_vars
  PROVE  FlightInv'
<1>1. /\ config' = config /\ GpuTypes /\ FlightTypes /\ PathInv
      /\ config.path \in Paths /\ C \in Nat
  BY ConfigFixed, Shape DEF SchedInv, GpuTypes, FlightInv
<1>2. write_idx \in Nat /\ First \in Nat
  BY BatchRun
<1>3. CASE (\E b \in Blocks : TransferWarp(b)) \/ (\E b \in Blocks, k \in Chunks : ComputeWarp(b, k))
  <2>1. UNCHANGED <<pollerVars, eventVars, chan, signals, landed>>
    BY <1>3, GpuStepFrame
  <2>2. UNCHANGED <<chan, next_channel, dirty, latest_async_read, done_idx, has_async_dma,
                    landed, signals, tile_events_inflight, poll_pc, read_idx, batch>>
    BY <2>1 DEF pollerVars, eventVars, channelVars, asyncVars
  <2>3. First' = First /\ Submitted' = Submitted
    BY <2>2 DEF First, Submitted, Handed
  <2>4. write_idx' \in Nat /\ write_idx <= write_idx'
    <3>1. CASE \E b \in Blocks : AcquireSlots(b)
      <4>1. write_idx' = write_idx + C
        BY <1>1, <3>1, RingGrows DEF RingInv
      <4>2. QED
        BY <1>1, <1>2, <4>1
    <3>2. CASE ~ \E b \in Blocks : AcquireSlots(b)
      <4>1. entries' = entries
        BY <1>3, <3>2 DEF TransferWarp, AcquireTile, CommitSlot, WaitChunkDone, WaitCompute,
             ComputeWarp, StartCompute, FinishCompute
      <4>2. QED
        BY <1>2, <4>1 DEF write_idx
    <3>3. QED
      BY <3>1, <3>2
  <2>5. QED
    BY <1>1, <2>2, <2>3, <2>4, FlightQuiet DEF PathInv
<1>4. ASSUME UNCHANGED <<chan, next_channel, dirty, latest_async_read, done_idx, has_async_dma,
                         landed, signals, tile_events_inflight, entries, read_idx, batch>>,
             poll_pc \in {"poll", "flush", "events", "idle"},
             poll_pc' \in {"poll", "flush", "events", "idle", "data"},
             poll_pc' = "data" => config.path \in {"device", "host"},
             poll_pc' = "events" => config.path = "deferred"
      PROVE  FlightInv'
  <2>1. First' = First /\ Submitted' = Submitted /\ write_idx' = write_idx
    BY <1>4 DEF First, Submitted, Handed, write_idx
  <2>2. write_idx' \in Nat /\ write_idx <= write_idx'
    BY <1>2, <2>1
  <2>3. QED
    BY <1>1, <1>4, <2>1, <2>2, FlightQuiet
<1>5. CASE PollEntry
  <2>1. /\ poll_pc = "poll" /\ poll_pc' \in {"poll", "flush"}
        /\ UNCHANGED <<chan, next_channel, dirty, latest_async_read, done_idx, has_async_dma,
                         landed, signals, tile_events_inflight, entries>>
    BY <1>5 DEF PollEntry, channelVars, asyncVars, eventVars, gpuVars
  <2>2. Submitted = First /\ Submitted' = First' /\ write_idx' = write_idx
    BY <2>1 DEF Submitted, Handed, write_idx
  <2>3. First' = First
    <3> DEFINE x == [tile |-> entries[read_idx + 1].tile, last |-> entries[read_idx + 1].last,
                     slot |-> read_idx]
    <3>1. batch' = Append(batch, x) /\ read_idx' = read_idx + 1
      BY <1>5 DEF PollEntry
    <3>2. batch \in Seq(BatchEntry \cup {x}) /\ x \in BatchEntry \cup {x}
      BY DEF RingInv, RingTypes
    <3> HIDE DEF x
    <3>3. Len(batch') = Len(batch) + 1
      BY <3>1, <3>2, AppendProperties
    <3>4. Len(batch) \in Nat /\ read_idx \in Nat
      BY BatchRun
    <3>5. QED
      BY <3>1, <3>3, <3>4 DEF First
  <2>4. write_idx' \in Nat /\ write_idx <= write_idx'
    BY <1>2, <2>2
  <2>5. QED
    BY <1>1, <2>1, <2>2, <2>3, <2>4, FlightQuiet
<1>6. CASE GapTimeout \/ UpdateProgress \/ StartEventPoll \/ LeaveEventPoll \/ StartIdleWait
  <2>1. /\ poll_pc \in {"poll", "flush", "events", "idle"}
        /\ poll_pc' \in {"poll", "flush", "events", "idle", "data"}
        /\ poll_pc' = "data" => config.path \in {"device", "host"}
        /\ poll_pc' = "events" => tile_events_inflight > 0
        /\ UNCHANGED <<chan, next_channel, dirty, latest_async_read, done_idx, has_async_dma,
                         landed, signals, tile_events_inflight, entries, read_idx, batch>>
    BY <1>6 DEF GapTimeout, UpdateProgress, StartEventPoll, LeaveEventPoll, StartIdleWait,
         channelVars, asyncVars, eventVars, gpuVars
  <2>2. poll_pc' = "events" => config.path = "deferred"
    BY <1>1, <2>1 DEF PathInv
  <2>3. QED
    BY <1>4, <2>1, <2>2
<1>7. CASE SubmitData
  BY <1>1, <1>7, SubmitDataFlight
<1>8. CASE SubmitSignal
  BY <1>1, <1>8, SubmitSignalFlight
<1>9. CASE ProcessBatch
  BY <1>1, <1>9, ProcessBatchFlight
<1>10. CASE DeferTileEvent \/ PublishNoCe
  BY <1>1, <1>10, BatchOverFlight
<1>11. CASE PollTileEvent
  BY <1>1, <1>11, PollTileEventFlight
<1>12. CASE CopyNoCe
  BY <1>1, <1>12, CopyNoCeFlight
<1>13. CASE FinishIdleWait \/ Relaunch
  BY <1>1, <1>13, WaitedFlight
<1>14. CASE \E c \in ChanIds : CopyCompletes(c)
  BY <1>1, <1>14, CopyFlight
<1>15. CASE SignalCompletes
  <2>1. /\ signals # <<>> /\ signals' = Tail(signals)
        /\ UNCHANGED <<chan, next_channel, dirty, latest_async_read, done_idx, has_async_dma,
                       landed, tile_events_inflight, entries, read_idx, batch, poll_pc>>
    BY <1>15 DEF SignalCompletes, pollerVars, channelVars, asyncVars, eventVars, gpuVars
  <2>2. First' = First /\ Submitted' = Submitted /\ write_idx' = write_idx
        /\ LastStream' = LastStream
    BY <2>1 DEF First, Submitted, Handed, write_idx, LastStream
  <2>3. FlightTypes'
    BY <1>1, <2>1, <2>2 DEF FlightTypes
  <2>4. PathInv'
    BY <1>1, <2>1 DEF PathInv
  <2>5. DirtyInv' /\ HandedInv' /\ LastInv'
    BY <2>1, <2>2 DEF FlightInv, DirtyInv, HandedInv, LastInv, Queued
  <2>6. QED
    BY <2>3, <2>4, <2>5 DEF FlightInv
<1>16. CASE DeviceSynchronize \/ UNCHANGED vars
  <2>1. UNCHANGED <<chan, next_channel, dirty, latest_async_read, done_idx, has_async_dma,
                    landed, signals, tile_events_inflight, poll_pc, read_idx, batch, entries>>
    BY <1>16 DEF DeviceSynchronize, vars, pollerVars, eventVars, channelVars, asyncVars, gpuVars
  <2>2. First' = First /\ Submitted' = Submitted /\ write_idx' = write_idx
    BY <2>1 DEF First, Submitted, Handed, write_idx
  <2>3. write_idx' \in Nat /\ write_idx <= write_idx'
    BY <1>2, <2>2
  <2>4. QED
    BY <1>1, <2>1, <2>2, <2>3, FlightQuiet DEF PathInv
<1>17. QED
  BY <1>3, <1>5, <1>6, <1>7, <1>8, <1>9, <1>10, <1>11, <1>12, <1>13, <1>14, <1>15, <1>16
     DEF Next, Poller, Finished, Hangs

\* The state of the streams.
StreamInv == FlightInv /\ CountTypes /\ SignalTypes /\ EventTypes

\* No stream has work at the start.
LEMMA InitStream ==
  ASSUME Init
  PROVE  StreamInv
<1>1. /\ config \in Sessions /\ chan = [c \in ChanIds |-> <<>>] /\ next_channel = 0 /\ dirty = {}
      /\ signals = <<>> /\ landed = {} /\ entries = <<>> /\ batch = <<>> /\ read_idx = 0
      /\ done_idx = 0 /\ latest_async_read = 0 /\ has_async_dma = FALSE /\ poll_pc = "poll"
      /\ tile_events_inflight = 0 /\ tile_event_head = 0 /\ tile_event_tail = 0
      /\ tile_events = [s \in EventSlots |-> NoEvent]
      /\ tile_progress = [t \in TileIds |-> 0] /\ tile_signal_buf = [t \in TileIds |-> 0]
      /\ chunk_done = [t \in TileIds |-> 0]
  BY DEF Init
<1>2. Len(<<>>) = 0 /\ <<>> \in Seq(Op) /\ <<>> \in Seq(Sig)
  BY EmptySeq
<1>3. First = 0 /\ write_idx = 0 /\ Submitted = 0
  <2>1. Len(batch) = 0 /\ Len(entries) = 0 /\ ~Handed /\ read_idx = 0
    BY <1>1, <1>2 DEF Handed
  <2>2. First = 0 /\ write_idx = 0
    BY <2>1 DEF First, write_idx
  <2>3. QED
    BY <2>1, <2>2 DEF Submitted
<1>4. 0 \in ChanIds /\ 0 \in EventSlots
  BY TiledAssumption DEF ChanIds, EventSlots
<1>5. FlightTypes
  <2>1. chan \in [ChanIds -> Seq(Op)] /\ \A c \in ChanIds : Len(chan[c]) = 0
    BY <1>1, <1>2
  <2>2. QED
    BY <1>1, <1>3, <1>4, <2>1 DEF FlightTypes
<1>6. \A c \in ChanIds : chan[c] = <<>>
  BY <1>1
<1>7. PathInv
  BY <1>1, <1>2, <1>6 DEF PathInv
<1>8. DirtyInv /\ HandedInv /\ LastInv
  BY <1>1, <1>3, <1>6 DEF DirtyInv, HandedInv, LastInv
<1>9. CountTypes
  BY <1>1 DEF CountTypes
<1>10. SignalTypes
  BY <1>1, <1>2 DEF SignalTypes
<1>11. EventTypes
  <2>1. NoEvent \in EventRec /\ NoEvent.before = 0 /\ NoEvent.done_value = 0 /\ NoEvent.ch = 0
    BY <1>4 DEF NoEvent, EventRec
  <2>2. EventSlot(0) = 0
    BY <1>1, <1>4, EventPlaces DEF EventSlot
  <2>3. \A s \in EventSlots : /\ tile_events[s].before <= Len(chan[tile_events[s].ch])
                              /\ tile_events[s].done_value <= First
    BY <1>1, <1>2, <1>3, <1>4, <1>6, <2>1
  <2>4. tile_events \in [EventSlots -> EventRec]
    BY <1>1, <2>1
  <2>5. QED
    BY <1>1, <1>4, <2>2, <2>3, <2>4 DEF EventTypes
<1>12. QED
  BY <1>5, <1>7, <1>8, <1>9, <1>10, <1>11 DEF StreamInv, FlightInv

\* Every reachable state satisfies the invariant of the streams.
LEMMA StreamInvariant == Spec => []StreamInv
<1>1. Init => StreamInv
  BY InitStream
<1>2. SchedInv /\ RingInv /\ StreamInv /\ [Next]_vars => StreamInv'
  BY StepFlight, StepCounts, StepSignals, StepEvents DEF StreamInv, FlightInv, SchedInv
<1>3. QED
  BY <1>1, <1>2, SchedInvariant, RingInvariant, PTL DEF Spec

-----------------------------------------------------------------------------
(* The pipeline: facts about the blocks that wait *)

\* A block that waits for a chunk.
LEMMA HolderFacts ==
  ASSUME SchedInv, RingInv, NEW b \in Blocks, Holds(b)
  PROVE  /\ Active(b) /\ tile[b] \in TileIds /\ tile[b] < next_tile /\ tile[b] \in Nat
         /\ chunk[b] \in Nat /\ chunk[b] < K /\ chunk[b] \in Chunks
         /\ Base(b) \in Nat /\ Base(b) + C <= write_idx
         /\ K \in Nat /\ C \in Nat /\ C > 0
<1>1. K \in Nat /\ C \in Nat /\ C > 0 /\ Tiles \in Nat
  BY Shape DEF SchedInv, GpuTypes
<1>2. Active(b) /\ pc[b] # "wait_compute"
  BY DEF Holds, Active
<1>3. BlockOK(b) /\ chunk[b] \in Nat /\ tile[b] \in Nat
  BY DEF SchedInv, GpuTypes
<1>4. tile[b] \in TileIds /\ tile[b] < next_tile /\ chunk[b] < K
  BY <1>2, <1>3 DEF BlockOK
<1>5. chunk[b] \in Chunks
  BY <1>1, <1>3, <1>4 DEF Chunks
<1>6. Base(b) \in Nat /\ Base(b) + C <= write_idx
  BY DEF RingInv, ChunkInv
<1>7. QED
  BY <1>1, <1>2, <1>3, <1>4, <1>5, <1>6

\* Two blocks that wait have different tiles.
LEMMA HoldersApart ==
  ASSUME SchedInv, NEW a \in Blocks, NEW b \in Blocks, Active(a), Active(b), tile[a] = tile[b]
  PROVE  a = b
BY DEF SchedInv, TilesApart

\* Whose chunk a batch is of: the block holds the batch's slots, and the batch
\* ends where the chunk does exactly if it carries the marker.
HoldsBatch(b) ==
  /\ Holds(b) /\ Base(b) <= First /\ First < read_idx /\ read_idx <= Base(b) + C
  /\ BatchTiles = {tile[b]}
  /\ batch[Len(batch)].last <=> read_idx = Base(b) + C
  /\ HasTileMarkers <=> read_idx = Base(b) + C
  /\ HasTileMarkers => MarkedTiles = {tile[b]}
  /\ ~HasTileMarkers => MarkedTiles = {}
  /\ InBatch(tile[b]) = Len(batch)
  /\ \A t \in TileIds : t # tile[b] => InBatch(t) = 0

\* A batch that has not been counted belongs to one waiting block.
LEMMA BatchHolder ==
  ASSUME SchedInv, RingInv, HeldInv, batch # <<>>, Low = First
  PROVE  \E b \in Blocks : HoldsBatch(b)
<1>1. /\ First \in Nat /\ read_idx \in Nat /\ write_idx \in Nat /\ Len(batch) \in Nat
      /\ read_idx <= write_idx /\ read_idx = First + Len(batch)
  BY BatchRun
<1>2. Len(batch) > 0
  BY EmptySeq DEF RingInv, RingTypes
<1>3. First \in Low..(write_idx - 1) /\ First < read_idx
  BY <1>1, <1>2
<1>4. PICK b \in Blocks : Holds(b) /\ First \in Base(b)..(Base(b) + C - 1)
  BY <1>3 DEF HeldInv
<1>5. /\ Base(b) \in Nat /\ C \in Nat /\ C > 0 /\ tile[b] \in TileIds
      /\ Base(b) + C <= write_idx
  BY <1>4, HolderFacts
<1>6. /\ \A i \in 0..(C - 1) : /\ entries[Base(b) + i + 1].tile = tile[b]
                               /\ entries[Base(b) + i + 1].last <=> (i = C - 1)
      /\ \A n \in 1..Len(batch) :
           /\ batch[n].tile = entries[First + n].tile
           /\ batch[n].last = entries[First + n].last
           /\ n < Len(batch) => ~batch[n].last
  BY <1>4 DEF RingInv, ChunkInv, BatchInv
<1>7. read_idx <= Base(b) + C
  <2>1. SUFFICES ASSUME read_idx > Base(b) + C PROVE FALSE
    BY <1>1, <1>5
  <2> DEFINE n == Base(b) + C - First
  <2>2. n \in 1..Len(batch) /\ n < Len(batch) /\ First + n = Base(b) + (C - 1) + 1
    BY <1>1, <1>4, <1>5, <2>1
  <2>3. C - 1 \in 0..(C - 1)
    BY <1>5
  <2> HIDE DEF n
  <2>4. batch[n].last
    BY <1>6, <2>2, <2>3
  <2>5. QED
    BY <1>6, <2>2, <2>4
<1>8. ASSUME NEW n \in 1..Len(batch)
      PROVE  batch[n].tile = tile[b] /\ (batch[n].last <=> First + n = Base(b) + C)
  <2> DEFINE i == First + n - 1 - Base(b)
  <2>0. n \in Nat /\ n >= 1 /\ n <= Len(batch) /\ Base(b) <= First
    BY <1>1, <1>4, <1>5
  <2>1. i \in Int /\ 0 <= i /\ i <= C - 1 /\ First + n = Base(b) + i + 1
    BY <1>1, <1>5, <1>7, <2>0
  <2> HIDE DEF i
  <2>2. i \in 0..(C - 1) /\ (i = C - 1 <=> First + n = Base(b) + C)
    BY <1>1, <1>5, <2>0, <2>1
  <2>3. QED
    BY <1>6, <2>1, <2>2
<1>9. Len(batch) \in 1..Len(batch)
  BY <1>1, <1>2
<1>10. batch[Len(batch)].last <=> read_idx = Base(b) + C
  BY <1>1, <1>8, <1>9
<1>11. BatchTiles = {tile[b]}
  BY <1>8, <1>9 DEF BatchTiles
<1>12. HasTileMarkers <=> read_idx = Base(b) + C
  <2>1. \A n \in 1..Len(batch) : batch[n].last => n = Len(batch)
    BY <1>1, <1>6
  <2>2. QED
    BY <1>9, <1>10, <2>1 DEF HasTileMarkers
<1>13. /\ HasTileMarkers => MarkedTiles = {tile[b]}
       /\ ~HasTileMarkers => MarkedTiles = {}
  BY <1>8 DEF HasTileMarkers, MarkedTiles
<1>14. InBatch(tile[b]) = Len(batch)
  <2>1. {n \in 1..Len(batch) : batch[n].tile = tile[b]} = 1..Len(batch)
    BY <1>8
  <2>2. 1 \in Int /\ Len(batch) \in Int
    BY <1>1
  <2>3. Cardinality(1..Len(batch)) = IF 1 > Len(batch) THEN 0 ELSE Len(batch) - 1 + 1
    BY <2>2, FS_Interval, Zenon
  <2>4. Cardinality(1..Len(batch)) = Len(batch)
    BY <1>1, <1>2, <2>3
  <2>5. QED
    BY <2>1, <2>4 DEF InBatch
<1>15. ASSUME NEW t \in TileIds, t # tile[b]
       PROVE  InBatch(t) = 0
  <2>1. {n \in 1..Len(batch) : batch[n].tile = t} = {}
    BY <1>8, <1>15
  <2>2. QED
    BY <2>1, FS_EmptySet DEF InBatch
<1>16. Base(b) <= First
  BY <1>1, <1>4, <1>5
<1>17. HoldsBatch(b)
  BY <1>3, <1>4, <1>7, <1>10, <1>11, <1>12, <1>13, <1>14, <1>15, <1>16 DEF HoldsBatch
<1>18. QED
  BY <1>17

\* The steps of the CPU and of the copy engines do not move the blocks.
LEMMA BlocksKept ==
  ASSUME UNCHANGED <<gpuVars, config>>
  PROVE  /\ write_idx' = write_idx /\ next_tile' = next_tile /\ tile' = tile /\ chunk' = chunk
         /\ chunk_base' = chunk_base
         /\ \A b \in Blocks : /\ Holds(b)' <=> Holds(b)
                              /\ Active(b)' <=> Active(b)
                              /\ Base(b)' = Base(b)
         /\ K' = K /\ C' = C /\ Chunks' = Chunks /\ TileIds' = TileIds /\ Fallback' = Fallback
<1>1. UNCHANGED <<next_tile, entries, pc, tile, chunk, chunk_base>>
  BY DEF gpuVars
<1>2. K' = K /\ C' = C /\ Chunks' = Chunks /\ TileIds' = TileIds /\ Fallback' = Fallback
  BY SameShape
<1>3. QED
  BY <1>1, <1>2 DEF write_idx, Holds, Active, Base

\* A chunk once cut stays cut, and launches only grow: what the invariant is
\* conditional on was so before.
LEMMA HistoryKept ==
  ASSUME SchedInv, RingInv, [Next]_vars
  PROVE  /\ split => split'
         /\ Strict' => Strict
         /\ NoLateSignal' => NoLateSignal
<1>1. config' = config /\ launches \in Nat /\ split \in BOOLEAN /\ Fallback' = Fallback
  BY ConfigFixed, SameShape DEF SchedInv, HostInv, RingInv, RingTypes
<1>2. split => split'
  <2>1. CASE Poller
    <3>1. split' = split \/ split' = TRUE \/ PollEntry
      BY <2>1 DEF Poller, GapTimeout, UpdateProgress, SubmitData, SubmitSignal,
       ProcessBatch, DeferTileEvent, StartEventPoll, PollTileEvent, LeaveEventPoll,
       CopyNoCe, PublishNoCe, StartIdleWait, FinishIdleWait
    <3>2. PollEntry => (split => split')
      <4>1. ASSUME PollEntry, split
            PROVE  split'
        <5>1. \E x : split' = (split \/ x)
          BY <4>1, Zenon DEF PollEntry
        <5>2. QED
          BY <4>1, <5>1, Zenon
      <4>2. QED
        BY <4>1
    <3>3. QED
      BY <3>1, <3>2
  <2>2. CASE ~Poller
    <3>1. CASE (\E b \in Blocks : TransferWarp(b)) \/ (\E b \in Blocks, k \in Chunks : ComputeWarp(b, k))
      BY <3>1, GpuStepFrame DEF pollerVars
    <3>2. CASE ~((\E b \in Blocks : TransferWarp(b)) \/ (\E b \in Blocks, k \in Chunks : ComputeWarp(b, k)))
      BY <2>2, <3>2 DEF Next, Finished, Hangs, CopyCompletes, SignalCompletes,
           DeviceSynchronize, Relaunch, vars, pollerVars
    <3>3. QED
      BY <3>1, <3>2
  <2>3. QED
    BY <2>1, <2>2
<1>3. launches' = launches \/ launches' = launches + 1
  <2>1. CASE (\E b \in Blocks : TransferWarp(b)) \/ (\E b \in Blocks, k \in Chunks : ComputeWarp(b, k))
    BY <2>1, GpuStepFrame DEF hostVars
  <2>2. CASE HostStep
    BY <2>2, HostFrame DEF hostVars
  <2>3. CASE DeviceSynchronize \/ Relaunch \/ UNCHANGED vars
    BY <2>3 DEF DeviceSynchronize, Relaunch, vars, hostVars
  <2>4. QED
    BY <2>1, <2>2, <2>3 DEF Next, HostStep, Finished, Hangs
<1>4. Strict' => Strict
  BY <1>1, <1>2 DEF Strict
<1>5. NoLateSignal' => NoLateSignal
  BY <1>1, <1>2, <1>3 DEF NoLateSignal
<1>6. QED
  BY <1>2, <1>4, <1>5

\* The places where the counts stand are slots.
PlacesOK ==
  /\ Counted \in Nat /\ Low \in Nat /\ First \in Nat /\ First <= Low /\ Low <= Counted
  /\ Counted <= read_idx /\ read_idx <= write_idx /\ write_idx \in Nat /\ read_idx \in Nat
  /\ Strict => Low = First
  /\ poll_pc \notin {"data", "signal"} => Low = First /\ Counted = First

\* They are in order.
LEMMA CountPlaces == RingInv => PlacesOK
<1>1. SUFFICES ASSUME RingInv PROVE PlacesOK
  OBVIOUS
<1>2. /\ First \in Nat /\ read_idx \in Nat /\ write_idx \in Nat /\ First <= read_idx
      /\ read_idx <= write_idx
  BY <1>1, BatchRun
<1>3. QED
  BY <1>2 DEF PlacesOK, Low, Counted

\* Everything but the blocks: with them the places that count stand still.
LEMMA PlacesKept ==
  ASSUME config' = config, UNCHANGED pollerVars
  PROVE  /\ First' = First /\ Counted' = Counted /\ Low' = Low /\ (Strict' <=> Strict)
         /\ UNCHANGED <<read_idx, batch, poll_pc, split, tile_progress, tile_signal_buf>>
         /\ BatchTiles' = BatchTiles
<1>1. UNCHANGED <<read_idx, batch, poll_pc, split, tile_progress, tile_signal_buf>>
  BY DEF pollerVars, progressVars
<1>2. Strict' <=> Strict
  BY <1>1 DEF Strict, Fallback
<1>3. First' = First /\ Counted' = Counted
  BY <1>1 DEF First, Counted
<1>4. QED
  BY <1>1, <1>2, <1>3 DEF Low, BatchTiles

\* A step of the CPU or of the copy engines only moves them forward.
LEMMA PlacesGrow ==
  ASSUME SchedInv, RingInv, RingInv', HostStep, [Next]_vars
  PROVE  /\ First <= First' /\ Counted <= Counted' /\ Low <= Low'
         /\ First' \in Nat /\ Counted' \in Nat /\ Low' \in Nat
<1>1. config' = config /\ (Strict' => Strict)
  BY ConfigFixed, HistoryKept
<1>2. /\ Counted \in Nat /\ Low \in Nat /\ First \in Nat /\ First <= Low /\ Low <= Counted
      /\ Counted <= read_idx /\ read_idx \in Nat
      /\ poll_pc \notin {"data", "signal"} => Low = First /\ Counted = First
  BY CountPlaces DEF PlacesOK
<1>3. /\ Counted' \in Nat /\ Low' \in Nat /\ First' \in Nat /\ First' <= Low' /\ Low' <= Counted'
      /\ Counted' <= read_idx'
  <2>1. PlacesOK'
    BY CountPlaces, PTL
  <2>2. QED
    BY <2>1 DEF PlacesOK
<1>4. First <= First'
  BY FirstGrows
<1>5. CASE SignalCompletes \/ \E c \in ChanIds : CopyCompletes(c)
  <2>1. UNCHANGED pollerVars
    BY <1>5 DEF SignalCompletes, CopyCompletes
  <2>2. QED
    BY <1>1, <1>2, <1>3, <2>1, PlacesKept
<1>6. CASE Poller
  <2>1. Counted <= Counted'
    <3>1. CASE UpdateProgress
      BY <1>2, <1>3, <1>4, <3>1 DEF UpdateProgress
    <3>2. CASE SubmitData
      BY <1>2, <1>3, <1>4, <3>2 DEF SubmitData, Counted
    <3>3. CASE SubmitSignal
      <4>1. batch' = <<>> /\ poll_pc' = "poll" /\ read_idx' = read_idx
        BY <3>3 DEF SubmitSignal, Flushed
      <4>2. First' = read_idx
        BY <4>1, FlushedFacts
      <4>3. QED
        BY <1>2, <1>3, <4>2
    <3>4. CASE ~UpdateProgress /\ ~SubmitData /\ ~SubmitSignal
      <4>1. poll_pc \notin {"data", "signal"}
        BY <1>6, <3>4 DEF Poller, PollEntry, GapTimeout, ProcessBatch, DeferTileEvent,
          StartEventPoll, PollTileEvent, LeaveEventPoll, CopyNoCe, PublishNoCe, StartIdleWait,
          FinishIdleWait
      <4>2. QED
        BY <1>2, <1>3, <1>4, <4>1
    <3>5. QED
      BY <3>1, <3>2, <3>3, <3>4
  <2>2. Low <= Low'
    BY <1>1, <1>2, <1>3, <1>4, <2>1 DEF Low
  <2>3. QED
    BY <1>3, <1>4, <2>1, <2>2
<1>7. QED
  BY <1>5, <1>6 DEF HostStep

-----------------------------------------------------------------------------
(* The pipeline: what a step of the CPU or of the copy engines keeps *)

CoreInv == SchedInv /\ RingInv /\ StreamInv

\* What is queued stays queued at its place, or has been copied.
CopiesKept ==
  /\ landed \subseteq landed'
  /\ \A c \in ChanIds : \A s, n : n \in 0..Len(chan[c]) /\ InCopies(chan[c], s, n) =>
                                    InCopies(chan'[c], s, n)

\* Slots not counted after a step were not counted before.
LEMMA HeldKept ==
  ASSUME UNCHANGED <<gpuVars, config>>, PlacesOK, PlacesOK', Low <= Low', HeldInv
  PROVE  HeldInv'
<1>1. /\ Low \in Nat /\ Low' \in Nat /\ write_idx \in Nat /\ write_idx' = write_idx
      /\ \A b \in Blocks : (Holds(b)' <=> Holds(b)) /\ Base(b)' = Base(b)
      /\ C' = C
  BY BlocksKept DEF PlacesOK
<1>2. \A s \in Low'..(write_idx' - 1) : s \in Low..(write_idx - 1)
  BY <1>1
<1>3. QED
  BY <1>1, <1>2 DEF HeldInv

\* The data of the chunks before stays.
LEMMA ReadyKept ==
  ASSUME UNCHANGED <<gpuVars, config>>, Strict' => Strict, landed \subseteq landed', ReadyInv
  PROVE  ReadyInv'
<1>1. /\ chunk' = chunk /\ chunk_base' = chunk_base /\ C' = C /\ Chunks' = Chunks
      /\ \A b \in Blocks : Active(b)' <=> Active(b)
  BY BlocksKept
<1>2. QED
  BY <1>1 DEF ReadyInv

\* Counts that arrive need their reason; those that are there keep it.
LEMMA ArrivedKept ==
  ASSUME UNCHANGED <<gpuVars, config>>, PlacesOK, PlacesOK', Strict' => Strict, Low <= Low',
         SchedInv, RingInv, landed \subseteq landed', ArrivedInv,
         \A b \in Blocks : Holds(b) /\ ~Arrived(b) /\ chunk_done'[tile[b]] >= (chunk[b] + 1) * C =>
           /\ Base(b) + C <= Low'
           /\ Strict' => Base(b)..(Base(b) + C - 1) \subseteq landed'
  PROVE  ArrivedInv'
<1>1. /\ C' = C /\ tile' = tile /\ chunk' = chunk
      /\ \A b \in Blocks : (Holds(b)' <=> Holds(b)) /\ Base(b)' = Base(b)
  BY BlocksKept
<1>2. SUFFICES ASSUME NEW b \in Blocks, Holds(b), chunk_done'[tile[b]] >= (chunk[b] + 1) * C
               PROVE  /\ Base(b) + C <= Low'
                      /\ Strict' => Base(b)..(Base(b) + C - 1) \subseteq landed'
  BY <1>1 DEF ArrivedInv, Arrived
<1>3. Base(b) \in Nat /\ C \in Nat /\ Low \in Nat /\ Low' \in Nat
  BY <1>2, HolderFacts DEF PlacesOK
<1>4. CASE Arrived(b)
  BY <1>2, <1>3, <1>4 DEF ArrivedInv
<1>5. CASE ~Arrived(b)
  BY <1>2, <1>5
<1>6. QED
  BY <1>4, <1>5

\* The part of a chunk that may have been counted only grows.
LEMMA PartGrows ==
  ASSUME UNCHANGED <<gpuVars, config>>, PlacesOK, PlacesOK', Counted <= Counted',
         SchedInv, RingInv, NEW b \in Blocks, Holds(b)
  PROVE  Part(b) \in Nat /\ Part(b)' \in Nat /\ Part(b) <= Part(b)' /\ Part(b)' <= C
<1>1. /\ C' = C /\ Base(b)' = Base(b) /\ (Fallback' <=> Fallback)
  BY BlocksKept
<1>2. Base(b) \in Nat /\ C \in Nat /\ Counted \in Nat /\ Counted' \in Nat
  BY HolderFacts DEF PlacesOK
<1>3. QED
  BY <1>1, <1>2 DEF Part

\* The counters keep to what may have been counted.
LEMMA ProgressKept ==
  ASSUME UNCHANGED <<gpuVars, config, tile_progress>>, PlacesOK, PlacesOK', Counted <= Counted',
         SchedInv, RingInv, CountTypes, ProgressInv
  PROVE  ProgressInv'
<1>1. /\ C' = C /\ K' = K /\ TileIds' = TileIds /\ tile' = tile /\ chunk' = chunk
      /\ next_tile' = next_tile
      /\ \A b \in Blocks : (Holds(b)' <=> Holds(b)) /\ (Active(b)' <=> Active(b))
  BY BlocksKept
<1>2. /\ K \in Nat /\ C \in Nat /\ \A b \in Blocks : chunk[b] \in Nat
  BY Shape DEF SchedInv, GpuTypes
<1>3. \A t \in TileIds : tile_progress[t] \in Nat
  BY DEF CountTypes
<1>4. \A t \in TileIds : /\ t >= next_tile => tile_progress[t] = 0
                         /\ tile_progress[t] <= K * C
  BY DEF ProgressInv
<1>5. ASSUME NEW b \in Blocks, Active(b)
      PROVE  /\ tile_progress[tile[b]] >= chunk[b] * C
             /\ tile_progress[tile[b]] <= chunk[b] * C + (IF Holds(b) THEN Part(b)' ELSE 0)
  <2>1. /\ tile_progress[tile[b]] >= chunk[b] * C
        /\ tile_progress[tile[b]] <= chunk[b] * C + (IF Holds(b) THEN Part(b) ELSE 0)
    BY <1>5 DEF ProgressInv
  <2>2. tile[b] \in TileIds
    BY <1>5 DEF SchedInv, BlockOK
  <2> DEFINE x == tile_progress[tile[b]]
             y == chunk[b] * C
  <2>3. x \in Nat /\ y \in Int
    BY <1>2, <1>3, <2>2
  <2> HIDE DEF x, y
  <2>4. CASE Holds(b)
    <3>1. Part(b) \in Nat /\ Part(b)' \in Nat /\ Part(b) <= Part(b)'
      BY <2>4, PartGrows
    <3>2. x >= y /\ x <= y + Part(b)
      BY <2>1, <2>4 DEF x, y
    <3>3. x >= y /\ x <= y + Part(b)'
      BY <2>3, <3>1, <3>2
    <3>4. QED
      BY <2>4, <3>3 DEF x, y
  <2>5. CASE ~Holds(b)
    BY <2>1, <2>5
  <2>6. QED
    BY <2>4, <2>5
<1>6. QED
  BY <1>1, <1>4, <1>5 DEF ProgressInv

\* The values on their way and those that have arrived.
LEMMA ValueKept ==
  ASSUME UNCHANGED <<config, tile_progress, tile_signal_buf, chunk_done>>, ValueInv,
         \A t \in TileIds : Signalled(t)' => Signalled(t)
  PROVE  ValueInv'
BY SameShape DEF ValueInv

\* A block goes on waiting until its count arrives.
LEMMA AwaitsKept ==
  ASSUME UNCHANGED <<gpuVars, config>>, PlacesOK, PlacesOK', First <= First', SchedInv, RingInv,
         NEW b \in Blocks, NEW t, Awaits(b, t), chunk_done'[t] = chunk_done[t]
  PROVE  Awaits(b, t)'
<1>1. /\ C' = C /\ tile' = tile /\ chunk' = chunk /\ (Holds(b)' <=> Holds(b)) /\ Base(b)' = Base(b)
  BY BlocksKept
<1>2. Holds(b) /\ tile[b] = t /\ Base(b) + C <= First /\ ~Arrived(b)
  BY DEF Awaits
<1>3. Base(b) \in Nat /\ C \in Nat /\ First \in Nat /\ First' \in Nat
  BY <1>2, HolderFacts DEF PlacesOK
<1>4. ~Arrived(b)'
  BY <1>1, <1>2 DEF Arrived
<1>5. Base(b) + C <= First'
  BY <1>2, <1>3
<1>6. QED
  BY <1>1, <1>2, <1>4, <1>5 DEF Awaits

\* A signal's record, and how far it waits.
LEMMA SignalFacts ==
  ASSUME SignalTypes, FlightTypes, NEW n \in 1..Len(signals)
  PROVE  /\ signals[n] \in Sig /\ signals[n].tiles \in SUBSET Nat
         /\ \A c \in ChanIds : signals[n].after[c] \in 0..Len(chan[c])
<1>1. signals[n] \in Sig
  BY ElementOfSeq DEF SignalTypes
<1>2. \A c \in ChanIds : signals[n].after[c] \in Nat /\ signals[n].after[c] <= Len(chan[c])
  BY <1>1 DEF Sig, SignalTypes
<1>3. \A c \in ChanIds : Len(chan[c]) \in Nat
  BY LenProperties DEF FlightTypes
<1>4. QED
  BY <1>1, <1>2, <1>3 DEF Sig

\* Where a signal's data is.
OnItsWay(n, s) == s \in landed \/ \E c \in ChanIds : InCopies(chan[c], s, signals[n].after[c])

\* A signal that stays keeps its block and its data.
LEMMA SignalKept ==
  ASSUME UNCHANGED <<gpuVars, config, signals, chunk_done>>, split => split',
         PlacesOK, PlacesOK', First <= First', SchedInv, RingInv, SignalTypes, FlightTypes,
         CopiesKept, SignalInv
  PROVE  SignalInv'
<1>1. SUFFICES ASSUME config.path = "device", ~split
               PROVE  \A n \in 1..Len(signals) : \A t \in signals[n].tiles :
                        \E b \in Blocks : /\ Awaits(b, t)'
                                          /\ \A s \in Base(b)'..(Base(b)' + C' - 1) : OnItsWay(n, s)'
  BY DEF SignalInv, OnItsWay
<1>2. SUFFICES ASSUME NEW n \in 1..Len(signals), NEW t \in signals[n].tiles
               PROVE  \E b \in Blocks : /\ Awaits(b, t)'
                                        /\ \A s \in Base(b)'..(Base(b)' + C' - 1) : OnItsWay(n, s)'
  OBVIOUS
<1>3. PICK b \in Blocks : Awaits(b, t) /\ \A s \in Base(b)..(Base(b) + C - 1) : OnItsWay(n, s)
  BY <1>1 DEF SignalInv, OnItsWay
<1>4. Awaits(b, t)'
  BY <1>3, AwaitsKept
<1>5. Base(b)' = Base(b) /\ C' = C
  BY BlocksKept
<1>6. ASSUME NEW s, OnItsWay(n, s)
      PROVE  OnItsWay(n, s)'
  BY <1>6, SignalFacts DEF OnItsWay, CopiesKept
<1>7. QED
  BY <1>3, <1>4, <1>5, <1>6

\* The place of a deferred event.
LEMMA EventFacts ==
  ASSUME EventTypes, FlightTypes, NEW j \in Nat
  PROVE  /\ EventSlot(j) \in EventSlots /\ Event(j) \in EventRec /\ Event(j).ch \in ChanIds
         /\ Event(j).before \in 0..Len(chan[Event(j).ch])
         /\ Event(j).done_value \in Nat /\ Event(j).done_value <= First
         /\ tile_events_inflight \in Nat /\ Event(j).tiles \in SUBSET Nat
<1>1. EventSlot(j) \in EventSlots
  BY EventPlaces DEF EventTypes, EventSlot
<1>2. Event(j) \in EventRec /\ tile_events_inflight \in Nat
  BY <1>1 DEF EventTypes, Event
<1>3. /\ Event(j).ch \in ChanIds /\ Event(j).before \in Nat /\ Event(j).done_value \in Nat
      /\ Event(j).tiles \in SUBSET Nat
  BY <1>2 DEF EventRec
<1>4. Len(chan[Event(j).ch]) \in Nat
  BY <1>3, LenProperties DEF FlightTypes
<1>5. Event(j).before <= Len(chan[Event(j).ch]) /\ Event(j).done_value <= First
  BY <1>1 DEF EventTypes, Event
<1>6. QED
  BY <1>1, <1>2, <1>3, <1>4, <1>5

\* Event j speaks for block b; its data is there or before it.
Behind(j, s) == s \in landed \/ InCopies(chan[Event(j).ch], s, Event(j).before)
SpeaksFor(j, b) ==
  /\ Event(j).tiles = {tile[b]} /\ Awaits(b, tile[b])
  /\ tile_progress[tile[b]] >= (chunk[b] + 1) * C =>
       \A s \in Base(b)..(Base(b) + C - 1) : Behind(j, s)

\* An event that stays keeps its block and its data.
LEMMA EventKept ==
  ASSUME UNCHANGED <<gpuVars, config, tile_progress, chunk_done>>,
         UNCHANGED <<tile_events, tile_event_tail, tile_events_inflight>>,
         PlacesOK, PlacesOK', First <= First', SchedInv, RingInv, EventTypes, FlightTypes,
         CopiesKept, EventInv
  PROVE  EventInv'
<1>1. /\ Waiting' = Waiting /\ Waiting \subseteq Nat
      /\ \A j \in Nat : Event(j)' = Event(j)
  BY DEF Waiting, Event, EventSlot, EventTypes
<1>2. SUFFICES ASSUME NEW j \in Waiting
               PROVE  \E b \in Blocks : SpeaksFor(j, b)'
  BY <1>1 DEF EventInv, SpeaksFor, Behind
<1>3. PICK b \in Blocks : SpeaksFor(j, b)
  BY DEF EventInv, SpeaksFor, Behind
<1>4. Awaits(b, tile[b]) /\ Event(j).tiles = {tile[b]}
  BY <1>3 DEF SpeaksFor
<1>5. /\ Base(b)' = Base(b) /\ C' = C /\ tile' = tile /\ chunk' = chunk
  BY BlocksKept
<1>6. Awaits(b, tile[b])'
  <2>1. PICK t \in Nat : t = tile[b]
    BY DEF SchedInv, GpuTypes
  <2>2. Awaits(b, t)'
    BY <1>4, <2>1, AwaitsKept, Zenon
  <2>3. QED
    BY <1>5, <2>1, <2>2 DEF Awaits
<1>7. ASSUME NEW s, Behind(j, s)
      PROVE  Behind(j, s)'
  <2>1. Event(j)' = Event(j) /\ Event(j).ch \in ChanIds
        /\ Event(j).before \in 0..Len(chan[Event(j).ch])
    BY <1>1, EventFacts
  <2>2. QED
    BY <1>7, <2>1 DEF Behind, CopiesKept
<1>8. Event(j)' = Event(j)
  BY <1>1
<1>9. SpeaksFor(j, b)'
  BY <1>3, <1>4, <1>5, <1>6, <1>7, <1>8 DEF SpeaksFor
<1>10. QED
  BY <1>9

\* A step that moves no count and no signal.
LEMMA QuietPipe ==
  ASSUME CoreInv, CoreInv', HostStep, [Next]_vars, PipeBody, CopiesKept,
         UNCHANGED <<tile_progress, tile_signal_buf, chunk_done, signals>>,
         UNCHANGED <<tile_events, tile_event_tail, tile_events_inflight>>,
         \A t \in TileIds : Signalled(t)' => Signalled(t)
  PROVE  PipeBody'
<1>1. UNCHANGED <<gpuVars, config>>
  BY HostFrame DEF hostVars
<1>2. SchedInv /\ RingInv /\ RingInv' /\ FlightTypes /\ CountTypes /\ SignalTypes /\ EventTypes
  BY DEF CoreInv, StreamInv, FlightInv
<1>3. PlacesOK
  BY <1>2, CountPlaces
<1>4. PlacesOK'
  BY <1>2, CountPlaces, PTL
<1>5. First <= First' /\ Counted <= Counted' /\ Low <= Low'
  BY <1>2, PlacesGrow
<1>6. (split => split') /\ (Strict' => Strict)
  BY <1>2, HistoryKept
<1>7. landed \subseteq landed'
  BY DEF CopiesKept
<1>8. HeldInv'
  BY <1>1, <1>3, <1>4, <1>5, HeldKept DEF PipeBody
<1>9. ProgressInv'
  BY <1>1, <1>2, <1>3, <1>4, <1>5, ProgressKept DEF PipeBody
<1>10. ValueInv'
  BY <1>1, ValueKept DEF PipeBody
<1>11. ArrivedInv'
  <2>1. ~\E b \in Blocks : ~Arrived(b) /\ chunk_done'[tile[b]] >= (chunk[b] + 1) * C
    BY DEF Arrived
  <2>2. QED
    BY <1>1, <1>2, <1>3, <1>4, <1>5, <1>6, <1>7, <2>1, ArrivedKept DEF PipeBody
<1>12. ReadyInv'
  BY <1>1, <1>6, <1>7, ReadyKept DEF PipeBody
<1>13. SignalInv'
  BY <1>1, <1>2, <1>3, <1>4, <1>5, <1>6, SignalKept DEF PipeBody
<1>14. EventInv'
  BY <1>1, <1>2, <1>3, <1>4, <1>5, EventKept DEF PipeBody
<1>15. QED
  BY <1>8, <1>9, <1>10, <1>11, <1>12, <1>13, <1>14 DEF PipeBody

\* Handing a copy over adds no signal but that of the copy.
LEMMA SubmitSignalled ==
  ASSUME FlightTypes, NEW op \in Op, Submit(op), signals' = signals, NEW t,
         t \in op.tiles => poll_pc = "signal" /\ t \in BatchTiles,
         poll_pc' \in {"data", "signal"} => poll_pc \in {"data", "signal"} /\ batch' = batch,
         Signalled(t)'
  PROVE  Signalled(t)
<1>1. \A c \in ChanIds : \A p \in 1..Len(chan'[c]) :
        chan'[c][p] = op \/ (p \in 1..Len(chan[c]) /\ chan'[c][p] = chan[c][p])
  BY SubmitFacts DEF FlightTypes
<1>2. CASE \E n \in 1..Len(signals) : t \in signals[n].tiles
  BY <1>2 DEF Signalled
<1>3. CASE \E c \in ChanIds : \E p \in 1..Len(chan'[c]) : t \in chan'[c][p].tiles
  <2>1. PICK c \in ChanIds : \E p \in 1..Len(chan'[c]) : t \in chan'[c][p].tiles
    BY <1>3
  <2>2. PICK p \in 1..Len(chan'[c]) : t \in chan'[c][p].tiles
    BY <2>1
  <2>3. CASE chan'[c][p] = op
    BY <2>2, <2>3 DEF Signalled
  <2>4. CASE p \in 1..Len(chan[c]) /\ chan'[c][p] = chan[c][p]
    BY <2>2, <2>4 DEF Signalled
  <2>5. QED
    BY <1>1, <2>2, <2>3, <2>4
<1>4. CASE poll_pc' \in {"data", "signal"} /\ t \in BatchTiles'
  BY <1>4 DEF Signalled, BatchTiles
<1>5. QED
  BY <1>2, <1>3, <1>4 DEF Signalled

\* The poller's steps that move no count and no signal.
LEMMA QuietSteps ==
  ASSUME CoreInv, CoreInv', [Next]_vars, PipeBody,
         \/ PollEntry \/ GapTimeout \/ SubmitData \/ ProcessBatch \/ StartEventPoll
         \/ LeaveEventPoll \/ CopyNoCe \/ StartIdleWait \/ FinishIdleWait
         \/ (SubmitSignal /\ config.path # "device")
  PROVE  PipeBody'
<1>1. Poller /\ HostStep
  BY DEF Poller, HostStep
<1>2. RingInv /\ FlightTypes
  BY DEF CoreInv, StreamInv, FlightInv
<1>3. landed \subseteq landed'
  BY DEF PollEntry, GapTimeout, SubmitData, ProcessBatch, StartEventPoll, LeaveEventPoll,
       CopyNoCe, StartIdleWait, FinishIdleWait, SubmitSignal
<1>4. CopiesKept
  BY <1>1, <1>2, <1>3, PollerChannels DEF CopiesKept
<1>5. /\ UNCHANGED <<tile_progress, tile_signal_buf, chunk_done, signals>>
      /\ UNCHANGED <<tile_events, tile_event_tail, tile_events_inflight>>
  BY DEF PollEntry, GapTimeout, SubmitData, ProcessBatch, StartEventPoll, LeaveEventPoll,
       CopyNoCe, StartIdleWait, FinishIdleWait, SubmitSignal, progressVars, eventVars
<1>6. ASSUME NEW t \in TileIds, Signalled(t)'
      PROVE  Signalled(t)
  <2>1. CASE SubmitData
    <3>1. [data |-> BatchSlots, tiles |-> {}] \in Op
      BY <1>2, BatchOps
    <3>2. PICK op \in Op : op = [data |-> BatchSlots, tiles |-> {}]
      BY <3>1
    <3>3. /\ Submit(op) /\ poll_pc' = "signal" /\ poll_pc = "data" /\ batch' = batch /\ op.tiles = {}
      BY <2>1, <3>2 DEF SubmitData
    <3>4. QED
      BY <1>2, <1>5, <1>6, <3>3, SubmitSignalled
  <2>2. CASE ProcessBatch
    <3>1. [data |-> BatchSlots, tiles |-> {}] \in Op
      BY <1>2, BatchOps
    <3>2. PICK op \in Op : op = [data |-> BatchSlots, tiles |-> {}]
      BY <3>1
    <3>3. Submit(op) /\ poll_pc' \notin {"data", "signal"} /\ op.tiles = {}
      BY <2>2, <3>2 DEF ProcessBatch, Flushed
    <3>4. QED
      BY <1>2, <1>5, <1>6, <3>3, SubmitSignalled
  <2>3. CASE SubmitSignal /\ config.path # "device"
    <3>1. [data |-> {}, tiles |-> BatchTiles] \in Op
      BY <1>2, BatchOps
    <3>2. PICK op \in Op : op = [data |-> {}, tiles |-> BatchTiles]
      BY <3>1
    <3>3. /\ Submit(op) /\ poll_pc' \notin {"data", "signal"} /\ poll_pc = "signal"
          /\ op.tiles = BatchTiles
      BY <2>3, <3>2 DEF SubmitSignal, Flushed
    <3>4. QED
      BY <1>2, <1>5, <1>6, <3>3, SubmitSignalled
  <2>4. CASE \/ PollEntry \/ GapTimeout \/ StartEventPoll \/ LeaveEventPoll \/ CopyNoCe
             \/ StartIdleWait \/ FinishIdleWait
    <3>1. chan' = chan /\ signals' = signals /\ poll_pc' \notin {"data", "signal"}
      BY <2>4 DEF PollEntry, GapTimeout, StartEventPoll, LeaveEventPoll,
           CopyNoCe, StartIdleWait, FinishIdleWait
    <3>2. QED
      BY <1>6, <3>1 DEF Signalled
  <2>5. QED
    BY <2>1, <2>2, <2>3, <2>4
<1>7. QED
  BY <1>1, <1>4, <1>5, <1>6, QuietPipe

-----------------------------------------------------------------------------
(* The pipeline: the steps that count *)

\* The counter of one waiting block's tile grows within its chunk.
LEMMA ProgressAdds ==
  ASSUME UNCHANGED <<gpuVars, config>>, PlacesOK, PlacesOK', Counted <= Counted',
         SchedInv, RingInv, CountTypes, tile_progress' \in [TileIds -> Nat], ProgressInv,
         NEW h \in Blocks, Holds(h),
         \A t \in TileIds : t # tile[h] => tile_progress'[t] = tile_progress[t],
         tile_progress[tile[h]] <= tile_progress'[tile[h]],
         tile_progress'[tile[h]] <= chunk[h] * C + Part(h)'
  PROVE  ProgressInv'
<1>1. /\ C' = C /\ K' = K /\ TileIds' = TileIds /\ tile' = tile /\ chunk' = chunk
      /\ next_tile' = next_tile
      /\ \A b \in Blocks : (Holds(b)' <=> Holds(b)) /\ (Active(b)' <=> Active(b))
  BY BlocksKept
<1>2. /\ K \in Nat /\ C \in Nat /\ chunk[h] \in Nat /\ chunk[h] < K /\ tile[h] \in TileIds
      /\ tile[h] < next_tile /\ Active(h) /\ tile[h] \in Nat /\ next_tile \in Nat
  BY HolderFacts DEF SchedInv, GpuTypes
<1>3. \A t \in TileIds : tile_progress[t] \in Nat /\ tile_progress'[t] \in Nat
  BY DEF CountTypes
<1>4. Part(h)' \in Nat /\ Part(h)' <= C
  BY PartGrows
<1>5. tile_progress'[tile[h]] <= K * C
  <2>1. PICK k \in Nat : k = chunk[h]
    BY <1>2
  <2>2. k * C + C <= K * C
    <3>1. PICK d \in Nat : K = k + 1 + d
      <4>1. K - k - 1 \in Nat /\ K = k + 1 + (K - k - 1)
        BY <1>2, <2>1
      <4>2. QED
        BY <4>1
    <3>2. K * C = k * C + C + d * C /\ d * C \in Nat /\ k * C \in Nat
      BY <1>2, <3>1
    <3>3. QED
      BY <1>2, <3>2
  <2>3. k * C \in Nat /\ K * C \in Nat
    BY <1>2
  <2>4. QED
    BY <1>2, <1>3, <1>4, <2>1, <2>2, <2>3
<1>6. \A t \in TileIds : /\ t >= next_tile => tile_progress'[t] = 0
                         /\ tile_progress'[t] <= K * C
  BY <1>2, <1>5 DEF ProgressInv
<1>7. ASSUME NEW b \in Blocks, Active(b)
      PROVE  /\ tile_progress'[tile[b]] >= chunk[b] * C
             /\ tile_progress'[tile[b]] <= chunk[b] * C + (IF Holds(b) THEN Part(b)' ELSE 0)
  <2>1. /\ tile_progress[tile[b]] >= chunk[b] * C
        /\ tile_progress[tile[b]] <= chunk[b] * C + (IF Holds(b) THEN Part(b) ELSE 0)
    BY <1>7 DEF ProgressInv
  <2>2. tile[b] \in TileIds /\ chunk[b] \in Nat
    BY <1>7 DEF SchedInv, BlockOK, GpuTypes
  <2>3. chunk[b] * C \in Int
    BY <1>2, <2>2
  <2>4. CASE b = h
    <3>1. PICK y \in Int : y = chunk[b] * C
      BY <2>3
    <3>2. tile_progress[tile[b]] >= y
      BY <2>1, <3>1
    <3>3. tile_progress'[tile[b]] >= y
      BY <1>3, <2>2, <2>4, <3>2
    <3>4. QED
      BY <2>4, <3>1, <3>3
  <2>5. CASE b # h
    <3>1. tile[b] # tile[h]
      BY <1>2, <1>7, <2>5, HoldersApart
    <3>2. tile_progress'[tile[b]] = tile_progress[tile[b]]
      BY <2>2, <3>1
    <3>3. PICK y \in Int : y = chunk[b] * C
      BY <2>3
    <3>4. CASE Holds(b)
      <4>1. Part(b) \in Nat /\ Part(b)' \in Nat /\ Part(b) <= Part(b)'
        BY <3>4, PartGrows
      <4>2. tile_progress[tile[b]] >= y /\ tile_progress[tile[b]] <= y + Part(b)
        BY <2>1, <3>3, <3>4
      <4>3. tile_progress'[tile[b]] >= y /\ tile_progress'[tile[b]] <= y + Part(b)'
        BY <1>3, <2>2, <3>2, <4>1, <4>2
      <4>4. QED
        BY <3>3, <3>4, <4>3
    <3>5. CASE ~Holds(b)
      BY <2>1, <3>2, <3>5
    <3>6. QED
      BY <3>4, <3>5
  <2>6. QED
    BY <2>4, <2>5
<1>8. QED
  BY <1>1, <1>6, <1>7 DEF ProgressInv

\* What the counter of a batch's block has reached before the batch is counted.
LEMMA BeforeBatch ==
  ASSUME SchedInv, RingInv, CountTypes, ProgressInv, NEW h \in Blocks, HoldsBatch(h),
         poll_pc \notin {"data", "signal"}
  PROVE  /\ tile_progress[tile[h]] \in Nat
         /\ tile_progress[tile[h]] >= chunk[h] * C
         /\ tile_progress[tile[h]] <= chunk[h] * C + (IF Fallback THEN 0 ELSE First - Base(h))
<1>1. /\ Holds(h) /\ Base(h) <= First /\ First < read_idx /\ read_idx <= Base(h) + C
  BY DEF HoldsBatch
<1>2. /\ Base(h) \in Nat /\ C \in Nat /\ First \in Nat /\ read_idx \in Nat /\ Counted = First
      /\ Active(h) /\ tile[h] \in TileIds
  BY <1>1, HolderFacts, CountPlaces DEF PlacesOK
<1>3. Part(h) = IF Fallback THEN 0 ELSE First - Base(h)
  BY <1>1, <1>2 DEF Part
<1>4. /\ tile_progress[tile[h]] >= chunk[h] * C
      /\ tile_progress[tile[h]] <= chunk[h] * C + Part(h)
  BY <1>1, <1>2 DEF ProgressInv
<1>5. QED
  BY <1>2, <1>3, <1>4 DEF CountTypes

\* process_batch_tiled counts a batch.
LEMMA UpdateProgressPipe ==
  ASSUME CoreInv, CoreInv', [Next]_vars, PipeBody, UpdateProgress
  PROVE  PipeBody'
<1>1. HostStep /\ UNCHANGED <<gpuVars, config>>
  BY HostFrame DEF HostStep, Poller, hostVars
<1>2. SchedInv /\ RingInv /\ RingInv' /\ FlightInv /\ FlightTypes /\ CountTypes /\ SignalTypes /\ EventTypes
  BY DEF CoreInv, StreamInv, FlightInv
<1>3. PlacesOK
  BY <1>2, CountPlaces
<1>4. PlacesOK'
  BY <1>2, CountPlaces, PTL
<1>5. First <= First' /\ Counted <= Counted' /\ Low <= Low'
  BY <1>1, <1>2, PlacesGrow
<1>6. (split => split') /\ (Strict' => Strict)
  BY <1>2, HistoryKept
<1>7. /\ poll_pc = "flush" /\ poll_pc' = "data" /\ config.path \in {"device", "host"}
      /\ UNCHANGED <<read_idx, batch, signals, chan, chunk_done, landed>>
      /\ UNCHANGED <<tile_events, tile_event_tail, tile_events_inflight>>
      /\ tile_progress' = [t \in TileIds |-> tile_progress[t] + InBatch(t)]
      /\ tile_signal_buf' = [t \in TileIds |->
           IF t \in BatchTiles THEN tile_progress'[t] ELSE tile_signal_buf[t]]
  BY DEF UpdateProgress, eventVars
<1>8. batch # <<>> /\ Low = First /\ ~Fallback
  BY <1>2, <1>3, <1>7 DEF RingInv, BatchInv, PlacesOK, Fallback
<1>9. PICK h \in Blocks : HoldsBatch(h)
  BY <1>2, <1>8, BatchHolder DEF PipeBody
<1>10. /\ Holds(h) /\ Base(h) <= First /\ First < read_idx /\ read_idx <= Base(h) + C
       /\ BatchTiles = {tile[h]} /\ InBatch(tile[h]) = Len(batch)
       /\ \A t \in TileIds : t # tile[h] => InBatch(t) = 0
  BY <1>9 DEF HoldsBatch
<1>11. /\ tile[h] \in TileIds /\ Base(h) \in Nat /\ C \in Nat /\ chunk[h] \in Nat
       /\ Len(batch) \in Nat /\ read_idx = First + Len(batch) /\ First \in Nat /\ read_idx \in Nat
  BY <1>2, <1>10, HolderFacts, BatchRun
<1>12. \A t \in TileIds : tile_progress[t] \in Nat /\ chunk_done[t] \in Nat
  BY <1>2 DEF CountTypes
<1>13. /\ tile_progress'[tile[h]] = tile_progress[tile[h]] + Len(batch)
       /\ \A t \in TileIds : t # tile[h] => tile_progress'[t] = tile_progress[t]
  BY <1>7, <1>10, <1>11, <1>12
<1>14. Part(h)' = read_idx - Base(h)
  <2>1. Counted' = read_idx /\ C' = C /\ Base(h)' = Base(h) /\ ~Fallback'
    BY <1>1, <1>7, <1>8, BlocksKept DEF Counted
  <2>2. QED
    BY <1>10, <1>11, <2>1 DEF Part
<1>15. tile_progress'[tile[h]] <= chunk[h] * C + Part(h)'
  <2>1. tile_progress[tile[h]] <= chunk[h] * C + (First - Base(h))
    BY <1>2, <1>7, <1>8, <1>9, BeforeBatch DEF PipeBody
  <2>2. PICK y \in Int : y = chunk[h] * C
    BY <1>11
  <2>3. PICK x \in Nat : x = tile_progress[tile[h]]
    BY <1>11, <1>12
  <2>4. x <= y + (First - Base(h)) /\ tile_progress'[tile[h]] = x + Len(batch)
    BY <1>13, <2>1, <2>2, <2>3
  <2>5. tile_progress'[tile[h]] <= y + (read_idx - Base(h))
    <3>1. \A f, l, r, a \in Nat : r = f + l /\ x <= y + (f - a) => x + l <= y + (r - a)
      OBVIOUS
    <3>2. QED
      BY <1>11, <2>4, <3>1
  <2>6. QED
    BY <1>14, <2>2, <2>5
<1>16. tile_progress' \in [TileIds -> Nat]
  <2>1. \A t \in TileIds : tile_progress[t] + InBatch(t) \in Nat
    BY <1>2, <1>12, InBatchNat
  <2>2. QED
    BY <1>7, <2>1
<1>17. ProgressInv'
  <2>1. tile_progress[tile[h]] <= tile_progress'[tile[h]]
    BY <1>11, <1>12, <1>13
  <2>2. QED
    BY <1>1, <1>2, <1>3, <1>4, <1>5, <1>10, <1>13, <1>15, <1>16, <2>1, ProgressAdds DEF PipeBody
<1>18. HeldInv'
  BY <1>1, <1>3, <1>4, <1>5, HeldKept DEF PipeBody
<1>19. ValueInv'
  <2>1. TileIds' = TileIds /\ BatchTiles' = BatchTiles
    BY <1>1, <1>7, BlocksKept DEF BatchTiles
  <2>2. ASSUME NEW t \in TileIds
        PROVE  /\ Signalled(t)' => tile_signal_buf'[t] = tile_progress'[t]
               /\ chunk_done[t] <= tile_progress'[t]
    <3>1. CASE t = tile[h]
      BY <1>7, <1>10, <1>11, <1>12, <1>13, <3>1 DEF PipeBody, ValueInv
    <3>2. CASE t # tile[h]
      <4>1. Signalled(t)' => Signalled(t)
        BY <1>7, <1>10, <2>1, <3>2 DEF Signalled
      <4>2. tile_signal_buf'[t] = tile_signal_buf[t] /\ tile_progress'[t] = tile_progress[t]
        BY <1>7, <1>10, <1>13, <3>2
      <4>3. QED
        BY <4>1, <4>2 DEF PipeBody, ValueInv
    <3>3. QED
      BY <3>1, <3>2
  <2>3. QED
    BY <1>7, <2>1, <2>2 DEF ValueInv
<1>20. ArrivedInv'
  <2>1. ~\E b \in Blocks : ~Arrived(b) /\ chunk_done'[tile[b]] >= (chunk[b] + 1) * C
    BY <1>7 DEF Arrived
  <2>2. QED
    BY <1>1, <1>2, <1>3, <1>4, <1>5, <1>6, <1>7, <2>1, ArrivedKept DEF PipeBody
<1>21. ReadyInv'
  BY <1>1, <1>6, <1>7, ReadyKept DEF PipeBody
<1>22. CopiesKept
  BY <1>7 DEF CopiesKept
<1>23. SignalInv'
  BY <1>1, <1>2, <1>3, <1>4, <1>5, <1>6, <1>7, <1>22, SignalKept DEF PipeBody
<1>24. EventInv'
  <2>1. tile_events_inflight \in Nat /\ ~(tile_events_inflight > 0)
    BY <1>2, <1>7 DEF FlightInv, PathInv, EventTypes
  <2>2. Waiting' = {}
    BY <1>7, <2>1 DEF Waiting
  <2>3. QED
    BY <2>2 DEF EventInv
<1>25. QED
  BY <1>17, <1>18, <1>19, <1>20, <1>21, <1>23, <1>24 DEF PipeBody

\* The signal of a batch is queued on the signal stream.
LEMMA SubmitSignalPipe ==
  ASSUME CoreInv, CoreInv', [Next]_vars, PipeBody, SubmitSignal, config.path = "device"
  PROVE  PipeBody'
<1>1. HostStep /\ UNCHANGED <<gpuVars, config>>
  BY HostFrame DEF HostStep, Poller, hostVars
<1>2. SchedInv /\ RingInv /\ RingInv' /\ FlightInv /\ FlightTypes /\ CountTypes /\ SignalTypes /\ EventTypes
  BY DEF CoreInv, StreamInv, FlightInv
<1>3. PlacesOK
  BY <1>2, CountPlaces
<1>4. PlacesOK'
  BY <1>2, CountPlaces, PTL
<1>5. First <= First' /\ Counted <= Counted' /\ Low <= Low'
  BY <1>1, <1>2, PlacesGrow
<1>6. (split => split') /\ (Strict' => Strict)
  BY <1>2, HistoryKept
<1>7. /\ poll_pc = "signal" /\ poll_pc' = "poll" /\ batch' = <<>>
      /\ UNCHANGED <<read_idx, chan, chunk_done, landed, tile_progress, tile_signal_buf>>
      /\ UNCHANGED <<tile_events, tile_event_tail, tile_events_inflight>>
      /\ signals' = Append(signals, [tiles |-> BatchTiles, after |-> QueuedOnDirty])
  BY DEF SubmitSignal, Flushed, eventVars, progressVars
<1>8. PICK sig \in Sig : sig = [tiles |-> BatchTiles, after |-> QueuedOnDirty]
  <2>1. \A c \in ChanIds : Len(chan[c]) \in Nat
    BY <1>2, LenProperties DEF FlightTypes
  <2>2. QueuedOnDirty \in [ChanIds -> Nat]
    BY <2>1 DEF QueuedOnDirty
  <2>3. BatchTiles \subseteq Nat
    BY <1>2, BatchOps
  <2>4. QED
    BY <2>2, <2>3 DEF Sig
<1>9. /\ sig.tiles = BatchTiles /\ sig.after = QueuedOnDirty
      /\ signals' = Append(signals, sig) /\ signals \in Seq(Sig)
  BY <1>2, <1>7, <1>8 DEF SignalTypes
<1>10. /\ Len(signals) \in Nat /\ Len(signals') = Len(signals) + 1
       /\ signals'[Len(signals) + 1] = sig
       /\ \A n \in 1..Len(signals) : signals'[n] = signals[n]
  BY <1>9, AppendProperties, LenProperties
<1>11. \A n \in 1..Len(signals') : n \in 1..Len(signals) \/ n = Len(signals) + 1
  BY <1>10
<1>12. CopiesKept
  BY <1>7 DEF CopiesKept
<1>13. HeldInv'
  BY <1>1, <1>3, <1>4, <1>5, HeldKept DEF PipeBody
<1>14. ProgressInv'
  BY <1>1, <1>2, <1>3, <1>4, <1>5, <1>7, ProgressKept DEF PipeBody
<1>15. ValueInv'
  <2>1. ASSUME NEW t \in TileIds, Signalled(t)'
        PROVE  Signalled(t)
    <3>1. CASE \E n \in 1..Len(signals') : t \in signals'[n].tiles
      BY <1>7, <1>9, <1>10, <1>11, <3>1 DEF Signalled
    <3>2. CASE ~\E n \in 1..Len(signals') : t \in signals'[n].tiles
      BY <1>7, <2>1, <3>2 DEF Signalled
    <3>3. QED
      BY <3>1, <3>2
  <2>2. QED
    BY <1>1, <1>7, <2>1, ValueKept DEF PipeBody
<1>16. ArrivedInv'
  <2>1. ~\E b \in Blocks : ~Arrived(b) /\ chunk_done'[tile[b]] >= (chunk[b] + 1) * C
    BY <1>7 DEF Arrived
  <2>2. QED
    BY <1>1, <1>2, <1>3, <1>4, <1>5, <1>6, <1>7, <2>1, ArrivedKept DEF PipeBody
<1>17. ReadyInv'
  BY <1>1, <1>6, <1>7, ReadyKept DEF PipeBody
<1>18. EventInv'
  BY <1>1, <1>2, <1>3, <1>4, <1>5, <1>7, <1>12, EventKept DEF PipeBody
<1>19. SignalInv'
  <2>1. SUFFICES ASSUME ~split
        PROVE  SignalInv'
    BY <1>6 DEF SignalInv
  <2>2. batch # <<>> /\ batch[Len(batch)].last
    BY <1>2, <1>7, <2>1 DEF RingInv, BatchInv
  <2>3. Strict /\ Low = First /\ Submitted = read_idx
    BY <1>3, <1>7, <2>1 DEF Strict, PlacesOK, Submitted, Handed
  <2>4. PICK h \in Blocks : HoldsBatch(h)
    BY <1>2, <2>2, <2>3, BatchHolder DEF PipeBody
  <2>5. /\ Holds(h) /\ Base(h) <= First /\ First < read_idx /\ read_idx = Base(h) + C
        /\ BatchTiles = {tile[h]}
    BY <2>2, <2>4 DEF HoldsBatch
  <2>6. /\ tile[h] \in TileIds /\ Base(h) \in Nat /\ C \in Nat /\ Active(h)
        /\ First \in Nat /\ read_idx \in Nat
    BY <1>2, <1>3, <2>5, HolderFacts DEF PlacesOK
  <2>7. ~Arrived(h)
    BY <2>3, <2>5, <2>6 DEF PipeBody, ArrivedInv
  <2>8. First' = read_idx
    BY <1>2, <1>7, FlushedFacts
  <2>9. /\ tile' = tile /\ chunk' = chunk /\ C' = C
        /\ \A b \in Blocks : Base(b)' = Base(b) /\ (Holds(b)' <=> Holds(b))
    BY <1>1, BlocksKept
  <2>10. \A t : t = tile[h] => Awaits(h, t)'
    BY <1>7, <2>5, <2>6, <2>7, <2>8, <2>9 DEF Awaits, Arrived
  <2>11. ASSUME NEW s \in Base(h)..(Base(h) + C - 1)
         PROVE  s \in landed \/ \E c \in ChanIds : InCopies(chan[c], s, QueuedOnDirty[c])
    <3>1. s \in 0..(Submitted - 1)
      BY <2>3, <2>5, <2>6
    <3>2. s \in landed \/ Queued(s)
      BY <1>2, <3>1 DEF FlightInv, HandedInv
    <3>3. ASSUME NEW c \in ChanIds, InCopies(chan[c], s, Len(chan[c]))
          PROVE  InCopies(chan[c], s, QueuedOnDirty[c])
      <4>1. c \in dirty
        <5>1. SUFFICES ASSUME c \notin dirty PROVE FALSE
          OBVIOUS
        <5>2. Len(chan[c]) = 0
          BY <1>2, <5>1, EmptySeq DEF FlightInv, DirtyInv
        <5>3. QED
          BY <3>3, <5>2 DEF InCopies
      <4>2. QueuedOnDirty[c] = Len(chan[c])
        BY <4>1 DEF QueuedOnDirty
      <4>3. QED
        BY <3>3, <4>2
    <3>4. QED
      BY <3>2, <3>3 DEF Queued
  <2>12. ASSUME NEW n \in 1..Len(signals), NEW t \in signals[n].tiles
         PROVE  /\ t # tile[h]
                /\ \E b \in Blocks : /\ Awaits(b, t)'
                                     /\ \A s \in Base(b)'..(Base(b)' + C' - 1) :
                                          \/ s \in landed'
                                          \/ \E c \in ChanIds : InCopies(chan'[c], s, signals'[n].after[c])
    <3>1. PICK b \in Blocks : Awaits(b, t) /\ \A s \in Base(b)..(Base(b) + C - 1) : OnItsWay(n, s)
      BY <2>1 DEF PipeBody, SignalInv, OnItsWay
    <3>2. Awaits(b, t)'
      BY <1>1, <1>2, <1>3, <1>4, <1>5, <1>7, <3>1, AwaitsKept
    <3>3. t # tile[h]
      <4>1. SUFFICES ASSUME t = tile[h] PROVE FALSE
        OBVIOUS
      <4>2. Holds(b) /\ tile[b] = t /\ Base(b) + C <= First
        BY <3>1 DEF Awaits
      <4>3. Active(b)
        BY <1>2, <4>2, HolderFacts
      <4>4. b = h
        BY <1>2, <2>6, <4>1, <4>2, <4>3, HoldersApart
      <4>5. QED
        BY <2>5, <2>6, <4>2, <4>4
    <3>4. QED
      BY <1>7, <1>10, <2>9, <3>1, <3>2, <3>3 DEF OnItsWay
  <2>13. ASSUME NEW n \in 1..Len(signals'), NEW t \in signals'[n].tiles
         PROVE  \E b \in Blocks : /\ Awaits(b, t)'
                                  /\ \A s \in Base(b)'..(Base(b)' + C' - 1) :
                                       \/ s \in landed'
                                       \/ \E c \in ChanIds : InCopies(chan'[c], s, signals'[n].after[c])
    <3>1. CASE n \in 1..Len(signals)
      BY <1>10, <2>12, <3>1
    <3>2. CASE n = Len(signals) + 1
      <4>1. signals'[n] = sig /\ t = tile[h]
        BY <1>9, <1>10, <2>5, <3>2
      <4>2. Awaits(h, t)'
        BY <2>10, <4>1
      <4>3. QED
        BY <1>7, <1>9, <2>9, <2>11, <4>1, <4>2
    <3>3. QED
      BY <1>11, <3>1, <3>2
  <2>14. \A n, m \in 1..Len(signals') : n # m => signals'[n].tiles \cap signals'[m].tiles = {}
    <3>1. \A n \in 1..Len(signals) : signals'[n].tiles \cap sig.tiles = {}
      BY <1>9, <1>10, <2>5, <2>12
    <3>2. \A n, m \in 1..Len(signals) : n # m => signals'[n].tiles \cap signals'[m].tiles = {}
      BY <1>10, <2>1 DEF PipeBody, SignalInv
    <3>3. QED
      BY <1>10, <1>11, <3>1, <3>2
  <2>15. \A n \in 1..Len(signals') : signals'[n].tiles # {}
    <3>1. \A n \in 1..Len(signals) : signals'[n].tiles # {}
      BY <1>10, <2>1 DEF PipeBody, SignalInv
    <3>2. sig.tiles # {}
      BY <1>9, <2>5
    <3>3. QED
      BY <1>10, <1>11, <3>1, <3>2
  <2>16. QED
    BY <2>13, <2>14, <2>15 DEF SignalInv
<1>20. QED
  BY <1>13, <1>14, <1>15, <1>16, <1>17, <1>18, <1>19 DEF PipeBody

\* What is known of a step of the CPU or of the copy engines.
LEMMA HostContext ==
  ASSUME CoreInv, CoreInv', HostStep, [Next]_vars
  PROVE  /\ UNCHANGED <<gpuVars, config>>
         /\ SchedInv /\ RingInv /\ FlightInv /\ FlightTypes /\ CountTypes /\ SignalTypes /\ EventTypes
         /\ RingInv' /\ FlightTypes' /\ CountTypes' /\ SignalTypes' /\ EventTypes'
         /\ PlacesOK /\ PlacesOK'
         /\ First <= First' /\ Counted <= Counted' /\ Low <= Low'
         /\ split => split'
         /\ Strict' => Strict
<1>1. UNCHANGED <<gpuVars, config>>
  BY HostFrame DEF hostVars
<1>2. /\ SchedInv /\ RingInv /\ FlightInv /\ FlightTypes /\ CountTypes /\ SignalTypes /\ EventTypes
      /\ RingInv' /\ FlightTypes' /\ CountTypes' /\ SignalTypes' /\ EventTypes'
  BY DEF CoreInv, StreamInv, FlightInv
<1>3. PlacesOK
  BY <1>2, CountPlaces
<1>4. PlacesOK'
  BY <1>2, CountPlaces, PTL
<1>5. First <= First' /\ Counted <= Counted' /\ Low <= Low'
  BY <1>2, PlacesGrow
<1>6. (split => split') /\ (Strict' => Strict)
  BY <1>2, HistoryKept
<1>7. QED
  BY <1>1, <1>2, <1>3, <1>4, <1>5, <1>6

\* A counter reaches the end of a chunk only when all of the chunk was counted.
LEMMA ReachedEnd ==
  ASSUME SchedInv, RingInv, CountTypes, ProgressInv, NEW b \in Blocks, Holds(b),
         tile_progress[tile[b]] >= (chunk[b] + 1) * C
  PROVE  Base(b) + C <= Counted
<1>1. /\ C \in Nat /\ C > 0 /\ chunk[b] \in Nat /\ Base(b) \in Nat /\ tile[b] \in TileIds /\ Active(b)
      /\ Counted \in Nat
  BY HolderFacts, CountPlaces DEF PlacesOK
<1>2. tile_progress[tile[b]] <= chunk[b] * C + Part(b)
  BY <1>1 DEF ProgressInv
<1>3. PICK y \in Nat : y = chunk[b] * C
  BY <1>1
<1>4. (chunk[b] + 1) * C = y + C
  BY <1>1, <1>3
<1>5. PICK x \in Nat : x = tile_progress[tile[b]]
  BY <1>1 DEF CountTypes
<1>6. x >= y + C /\ x <= y + Part(b)
  BY <1>2, <1>3, <1>4, <1>5
<1>7. SUFFICES ASSUME Counted < Base(b) + C PROVE FALSE
  BY <1>1
<1>8. Part(b) \in Nat /\ Part(b) < C
  BY <1>1, <1>7 DEF Part
<1>9. QED
  BY <1>1, <1>3, <1>5, <1>6, <1>8

\* Off the deferred path there are no events.
LEMMA NoEvents ==
  ASSUME CoreInv', config' = config, config.path # "deferred"
  PROVE  EventInv'
<1>1. ~(tile_events_inflight' > 0) /\ tile_events_inflight' \in Nat
  BY DEF CoreInv, StreamInv, FlightInv, PathInv, EventTypes
<1>2. tile_events_inflight' = 0
  BY <1>1
<1>3. Waiting' = {}
  BY <1>2 DEF Waiting
<1>4. QED
  BY <1>3 DEF EventInv

\* The signal stream publishes a count.
LEMMA SignalCompletesPipe ==
  ASSUME CoreInv, CoreInv', [Next]_vars, PipeBody, SignalCompletes
  PROVE  PipeBody'
<1>0. HostStep
  BY DEF HostStep
<1>1. /\ UNCHANGED <<gpuVars, config>>
      /\ SchedInv /\ RingInv /\ FlightInv /\ FlightTypes /\ CountTypes /\ SignalTypes
      /\ PlacesOK /\ PlacesOK' /\ First <= First' /\ Counted <= Counted' /\ Low <= Low'
      /\ (Strict' => Strict)
  BY <1>0, HostContext
<1>2. /\ signals # <<>> /\ signals' = Tail(signals)
      /\ \A c \in ChanIds : Head(signals).after[c] = 0
      /\ chunk_done' = Published(Head(signals).tiles)
      /\ UNCHANGED <<pollerVars, chan, landed, eventVars>>
  BY DEF SignalCompletes
<1>3. /\ UNCHANGED <<tile_progress, tile_signal_buf, batch, poll_pc, split>>
  BY <1>2 DEF pollerVars, progressVars
<1>4. config.path = "device"
  BY <1>1, <1>2 DEF FlightInv, PathInv
<1>5. /\ Len(signals) \in Nat /\ Len(signals) >= 1 /\ Len(signals') = Len(signals) - 1
      /\ Head(signals) = signals[1]
      /\ \A n \in 1..Len(signals') : signals'[n] = signals[n + 1] /\ n + 1 \in 1..Len(signals)
                                     /\ n + 1 # 1
  <2>1. signals \in Seq(Sig)
    BY <1>1 DEF SignalTypes
  <2>2. Len(signals) \in Nat /\ Len(signals) >= 1
    BY <1>2, <2>1, EmptySeq, LenProperties
  <2>3. Head(signals) = signals[1] /\ Len(Tail(signals)) = Len(signals) - 1
        /\ \A n \in 1..Len(Tail(signals)) : Tail(signals)[n] = signals[n + 1]
    BY <1>2, <2>1, HeadTailProperties
  <2>4. QED
    BY <1>2, <2>2, <2>3
<1>6. 1 \in 1..Len(signals)
  BY <1>5
<1>7. \A t \in TileIds : chunk_done'[t] = IF t \in signals[1].tiles THEN tile_signal_buf[t]
                                                                   ELSE chunk_done[t]
  BY <1>2, <1>5 DEF Published
<1>8. \A t \in TileIds : t \in signals[1].tiles => tile_signal_buf[t] = tile_progress[t]
  BY <1>6 DEF PipeBody, ValueInv, Signalled
<1>9. HeldInv'
  BY <1>1, HeldKept DEF PipeBody
<1>10. ProgressInv'
  BY <1>1, <1>3, ProgressKept DEF PipeBody
<1>11. ReadyInv'
  BY <1>1, <1>2, ReadyKept DEF PipeBody
<1>12. EventInv'
  BY <1>1, <1>4, NoEvents
<1>13. ValueInv'
  <2>1. TileIds' = TileIds /\ BatchTiles' = BatchTiles
    BY <1>1, <1>3, BlocksKept DEF BatchTiles
  <2>2. ASSUME NEW t \in TileIds
        PROVE  /\ Signalled(t)' => tile_signal_buf[t] = tile_progress[t]
               /\ chunk_done'[t] <= tile_progress[t]
    <3>1. Signalled(t)' => Signalled(t)
      BY <1>2, <1>3, <1>5, <2>1 DEF Signalled
    <3>2. chunk_done[t] <= tile_progress[t] /\ tile_progress[t] \in Nat
      BY <1>1 DEF PipeBody, ValueInv, CountTypes
    <3>3. chunk_done'[t] <= tile_progress[t]
      BY <1>7, <1>8, <3>2
    <3>4. QED
      BY <3>1, <3>3 DEF PipeBody, ValueInv
  <2>3. QED
    BY <1>3, <2>1, <2>2 DEF ValueInv
<1>14. ArrivedInv'
  <2>1. ASSUME NEW b \in Blocks, Holds(b), ~Arrived(b), chunk_done'[tile[b]] >= (chunk[b] + 1) * C
        PROVE  /\ Base(b) + C <= Low'
               /\ Strict' => Base(b)..(Base(b) + C - 1) \subseteq landed'
    <3>1. tile[b] \in TileIds /\ Active(b) /\ Base(b) \in Nat /\ C \in Nat
      BY <1>1, <2>1, HolderFacts
    <3>2. tile[b] \in signals[1].tiles
      BY <1>7, <2>1, <3>1 DEF Arrived
    <3>3. tile_progress[tile[b]] >= (chunk[b] + 1) * C
      BY <1>7, <1>8, <2>1, <3>1, <3>2
    <3>4. Base(b) + C <= Counted
      BY <1>1, <2>1, <3>3, ReachedEnd DEF PipeBody
    <3>5. CASE Strict
      <4>1. ~split
        BY <1>4, <3>5 DEF Strict, Fallback
      <4>2. PICK a \in Blocks : Awaits(a, tile[b]) /\ \A s \in Base(a)..(Base(a) + C - 1) : OnItsWay(1, s)
        BY <1>4, <1>6, <3>2, <4>1 DEF PipeBody, SignalInv, OnItsWay
      <4>3. Holds(a) /\ tile[a] = tile[b] /\ Base(a) + C <= First
        BY <4>2 DEF Awaits
      <4>4. a = b
        BY <1>1, <3>1, <4>3, HolderFacts, HoldersApart
      <4>5. \A s : OnItsWay(1, s) => s \in landed
        <5>1. \A c \in ChanIds : signals[1].after[c] = 0
          BY <1>2, <1>5
        <5>2. QED
          BY <5>1 DEF OnItsWay, InCopies
      <4>6. Base(b) + C <= Low'
        BY <1>1, <3>1, <3>5, <4>3, <4>4 DEF PlacesOK
      <4>7. QED
        BY <1>2, <4>2, <4>4, <4>5, <4>6
    <3>6. CASE ~Strict
      <4>1. Low = Counted
        BY <3>6 DEF Low
      <4>2. QED
        BY <1>1, <3>1, <3>4, <3>6, <4>1 DEF PlacesOK
    <3>7. QED
      BY <3>5, <3>6
  <2>2. landed \subseteq landed'
    BY <1>2
  <2>3. QED
    BY <1>1, <2>1, <2>2, ArrivedKept DEF PipeBody
<1>15. SignalInv'
  <2>1. SUFFICES ASSUME ~split
        PROVE  SignalInv'
    BY <1>3 DEF SignalInv
  <2>2. \A n, m \in 1..Len(signals) : n # m => signals[n].tiles \cap signals[m].tiles = {}
    BY <1>4, <2>1 DEF PipeBody, SignalInv
  <2>3. ASSUME NEW n \in 1..Len(signals'), NEW t \in signals'[n].tiles
        PROVE  \E b \in Blocks : /\ Awaits(b, t)'
                                 /\ \A s \in Base(b)'..(Base(b)' + C' - 1) :
                                      \/ s \in landed'
                                      \/ \E c \in ChanIds : InCopies(chan'[c], s, signals'[n].after[c])
    <3>1. n + 1 \in 1..Len(signals) /\ signals'[n] = signals[n + 1] /\ t \in signals[n + 1].tiles
      BY <1>5
    <3>2. PICK b \in Blocks : /\ Awaits(b, t)
                              /\ \A s \in Base(b)..(Base(b) + C - 1) : OnItsWay(n + 1, s)
      BY <1>4, <2>1, <3>1 DEF PipeBody, SignalInv, OnItsWay
    <3>3. t \notin signals[1].tiles
      BY <1>5, <1>6, <2>2, <3>1
    <3>4. t \in TileIds
      BY <1>1, <3>2, HolderFacts DEF Awaits
    <3>5. chunk_done'[t] = chunk_done[t]
      BY <1>7, <3>3, <3>4
    <3>6. Awaits(b, t)'
      BY <1>1, <3>2, <3>5, AwaitsKept
    <3>7. Base(b)' = Base(b) /\ C' = C
      BY <1>1, BlocksKept
    <3>8. QED
      BY <1>2, <3>1, <3>2, <3>6, <3>7 DEF OnItsWay
  <2>4. ASSUME NEW n \in 1..Len(signals'), NEW m \in 1..Len(signals'), n # m
        PROVE  signals'[n].tiles \cap signals'[m].tiles = {}
    <3>1. n + 1 \in 1..Len(signals) /\ m + 1 \in 1..Len(signals) /\ n + 1 # m + 1
      BY <1>5, <2>4
    <3>2. signals[n + 1].tiles \cap signals[m + 1].tiles = {}
      BY <2>2, <3>1
    <3>3. signals'[n] = signals[n + 1] /\ signals'[m] = signals[m + 1]
      BY <1>5
    <3>4. QED
      BY <3>2, <3>3
  <2>5. \A n \in 1..Len(signals') : signals'[n].tiles # {}
    BY <1>4, <1>5, <2>1 DEF PipeBody, SignalInv
  <2>6. QED
    BY <2>3, <2>4, <2>5 DEF SignalInv
<1>16. QED
  BY <1>9, <1>10, <1>11, <1>12, <1>13, <1>14, <1>15 DEF PipeBody

\* A copy completes: what was recorded behind it comes nearer.
LEMMA CopyCompletesPipe ==
  ASSUME CoreInv, CoreInv', [Next]_vars, PipeBody, NEW c \in ChanIds, CopyCompletes(c)
  PROVE  PipeBody'
<1>0. HostStep
  BY DEF HostStep
<1>1. /\ UNCHANGED <<gpuVars, config>>
      /\ SchedInv /\ RingInv /\ FlightInv /\ FlightTypes /\ CountTypes /\ SignalTypes /\ EventTypes
      /\ PlacesOK /\ PlacesOK' /\ First <= First' /\ Counted <= Counted' /\ Low <= Low'
      /\ (split => split') /\ (Strict' => Strict)
  BY <1>0, HostContext
<1>2. /\ chunk_done' = Published(Head(chan[c]).tiles)
      /\ UNCHANGED <<pollerVars, tile_event_tail, tile_events_inflight>>
  BY DEF CopyCompletes
<1>3. /\ UNCHANGED <<tile_progress, tile_signal_buf, batch, poll_pc, split>>
  BY <1>2 DEF pollerVars, progressVars
<1>4. /\ Head(chan[c]) = chan[c][1] /\ 1 \in 1..Len(chan[c])
      /\ landed' = landed \cup Head(chan[c]).data
      /\ \A d \in ChanIds : d # c => chan'[d] = chan[d]
      /\ \A d \in ChanIds : \A p \in 1..Len(chan'[d]) :
           \E r \in 1..Len(chan[d]) : chan'[d][p] = chan[d][r]
      /\ \A s, n : n \in 0..Len(chan[c]) /\ InCopies(chan[c], s, n) =>
                     s \in landed' \/ InCopies(chan'[c], s, Nearer(n))
  BY <1>1, CopyFacts DEF FlightTypes
<1>5. \A t \in TileIds : chunk_done'[t] = IF t \in chan[c][1].tiles THEN tile_signal_buf[t]
                                                                   ELSE chunk_done[t]
  BY <1>2, <1>4 DEF Published
<1>6. \A t \in TileIds : t \in chan[c][1].tiles => tile_signal_buf[t] = tile_progress[t]
  BY <1>4 DEF PipeBody, ValueInv, Signalled
<1>7. config.path # "host" => \A t \in TileIds : chunk_done'[t] = chunk_done[t]
  BY <1>1, <1>4, <1>5 DEF FlightInv, PathInv
<1>8. landed \subseteq landed'
  BY <1>4
<1>9. HeldInv'
  BY <1>1, HeldKept DEF PipeBody
<1>10. ProgressInv'
  BY <1>1, <1>3, ProgressKept DEF PipeBody
<1>11. ReadyInv'
  BY <1>1, <1>8, ReadyKept DEF PipeBody
<1>12. /\ Len(signals') = Len(signals)
       /\ \A n \in 1..Len(signals) :
            /\ signals'[n].tiles = signals[n].tiles
            /\ signals'[n].after[c] = Nearer(signals[n].after[c])
            /\ \A d \in ChanIds : d # c => signals'[n].after[d] = signals[n].after[d]
  BY <1>1, SignalsNearer
<1>13. ValueInv'
  <2>1. TileIds' = TileIds /\ BatchTiles' = BatchTiles
    BY <1>1, <1>3, BlocksKept DEF BatchTiles
  <2>2. ASSUME NEW t \in TileIds
        PROVE  /\ Signalled(t)' => tile_signal_buf[t] = tile_progress[t]
               /\ chunk_done'[t] <= tile_progress[t]
    <3>1. Signalled(t)' => Signalled(t)
      <4>1. (\E d \in ChanIds : \E p \in 1..Len(chan'[d]) : t \in chan'[d][p].tiles) =>
              \E d \in ChanIds : \E p \in 1..Len(chan[d]) : t \in chan[d][p].tiles
        BY <1>4
      <4>2. (\E n \in 1..Len(signals') : t \in signals'[n].tiles) =>
              \E n \in 1..Len(signals) : t \in signals[n].tiles
        BY <1>12
      <4>3. QED
        BY <1>3, <2>1, <4>1, <4>2 DEF Signalled
    <3>2. chunk_done[t] <= tile_progress[t] /\ tile_progress[t] \in Nat
      BY <1>1 DEF PipeBody, ValueInv, CountTypes
    <3>3. chunk_done'[t] <= tile_progress[t]
      BY <1>5, <1>6, <3>2
    <3>4. QED
      BY <3>1, <3>3 DEF PipeBody, ValueInv
  <2>3. QED
    BY <1>3, <2>1, <2>2 DEF ValueInv
<1>14. ArrivedInv'
  <2>1. ASSUME NEW b \in Blocks, Holds(b), ~Arrived(b), chunk_done'[tile[b]] >= (chunk[b] + 1) * C
        PROVE  /\ Base(b) + C <= Low'
               /\ Strict' => Base(b)..(Base(b) + C - 1) \subseteq landed'
    <3>1. tile[b] \in TileIds /\ Active(b) /\ Base(b) \in Nat /\ C \in Nat
      BY <1>1, <2>1, HolderFacts
    <3>2. tile[b] \in chan[c][1].tiles /\ config.path = "host"
      BY <1>5, <1>7, <2>1, <3>1 DEF Arrived
    <3>3. tile_progress[tile[b]] >= (chunk[b] + 1) * C
      BY <1>5, <1>6, <2>1, <3>1, <3>2
    <3>4. Base(b) + C <= Counted
      BY <1>1, <2>1, <3>3, ReachedEnd DEF PipeBody
    <3>5. ~Strict /\ Low = Counted
      BY <3>2 DEF Strict, Fallback, Low
    <3>6. QED
      BY <1>1, <3>1, <3>4, <3>5 DEF PlacesOK
  <2>2. QED
    BY <1>1, <1>8, <2>1, ArrivedKept DEF PipeBody
<1>15. SignalInv'
  <2>1. SUFFICES ASSUME config.path = "device", ~split
        PROVE  SignalInv'
    BY <1>1, <1>3 DEF SignalInv
  <2>2. ASSUME NEW n \in 1..Len(signals'), NEW t \in signals'[n].tiles
        PROVE  \E b \in Blocks : /\ Awaits(b, t)'
                                 /\ \A s \in Base(b)'..(Base(b)' + C' - 1) :
                                      \/ s \in landed'
                                      \/ \E d \in ChanIds : InCopies(chan'[d], s, signals'[n].after[d])
    <3>1. n \in 1..Len(signals) /\ t \in signals[n].tiles
      BY <1>12
    <3>2. PICK b \in Blocks : /\ Awaits(b, t)
                              /\ \A s \in Base(b)..(Base(b) + C - 1) : OnItsWay(n, s)
      BY <2>1, <3>1 DEF PipeBody, SignalInv, OnItsWay
    <3>3. t \in TileIds
      BY <1>1, <3>2, HolderFacts DEF Awaits
    <3>4. Awaits(b, t)'
      BY <1>1, <1>7, <2>1, <3>2, <3>3, AwaitsKept
    <3>5. Base(b)' = Base(b) /\ C' = C
      BY <1>1, BlocksKept
    <3>6. ASSUME NEW s, OnItsWay(n, s)
          PROVE  \/ s \in landed'
                 \/ \E d \in ChanIds : InCopies(chan'[d], s, signals'[n].after[d])
      <4>1. CASE s \in landed
        BY <1>8, <4>1
      <4>2. ASSUME NEW d \in ChanIds, InCopies(chan[d], s, signals[n].after[d])
            PROVE  s \in landed' \/ InCopies(chan'[d], s, signals'[n].after[d])
        <5>1. signals[n].after[d] \in 0..Len(chan[d])
          BY <1>1, <3>1, SignalFacts
        <5>2. QED
          BY <1>4, <1>12, <3>1, <4>2, <5>1
      <4>3. QED
        BY <3>6, <4>1, <4>2 DEF OnItsWay
    <3>7. QED
      BY <3>2, <3>4, <3>5, <3>6
  <2>3. \A n, m \in 1..Len(signals') : n # m => signals'[n].tiles \cap signals'[m].tiles = {}
    BY <1>12, <2>1 DEF PipeBody, SignalInv
  <2>4. \A n \in 1..Len(signals') : signals'[n].tiles # {}
    BY <1>12, <2>1 DEF PipeBody, SignalInv
  <2>5. QED
    BY <2>2, <2>3, <2>4 DEF SignalInv
<1>16. EventInv'
  <2>1. CASE config.path # "deferred"
    BY <1>1, <2>1, NoEvents
  <2>2. CASE config.path = "deferred"
    <3>1. Waiting' = Waiting /\ Waiting \subseteq Nat
      BY <1>1, <1>2 DEF Waiting, EventTypes
    <3>2. ASSUME NEW j \in Waiting
          PROVE  /\ Event(j)'.tiles = Event(j).tiles /\ Event(j)'.ch = Event(j).ch
                 /\ Event(j)'.before = IF Event(j).ch = c THEN Nearer(Event(j).before)
                                                          ELSE Event(j).before
      <4>1. EventSlot(j) \in EventSlots /\ EventSlot(j)' = EventSlot(j)
        BY <1>1, <1>2, <3>1, EventFacts DEF EventSlot
      <4>2. QED
        BY <1>1, <4>1, EventsNearer DEF Event
    <3>3. ASSUME NEW j \in Waiting
          PROVE  \E b \in Blocks : SpeaksFor(j, b)'
      <4>1. PICK b \in Blocks : SpeaksFor(j, b)
        BY DEF PipeBody, EventInv, SpeaksFor, Behind
      <4>2. Awaits(b, tile[b]) /\ Event(j).tiles = {tile[b]}
        BY <4>1 DEF SpeaksFor
      <4>3. /\ Base(b)' = Base(b) /\ C' = C /\ tile' = tile /\ chunk' = chunk
        BY <1>1, BlocksKept
      <4>4. tile[b] \in TileIds
        BY <1>1, <4>2, HolderFacts DEF Awaits
      <4>5. Awaits(b, tile[b])'
        <5>1. PICK t \in TileIds : t = tile[b]
          BY <4>4
        <5>2. chunk_done'[t] = chunk_done[t]
          BY <1>7, <2>2
        <5>3. Awaits(b, t)
          BY <4>2, <5>1
        <5>4. Awaits(b, t)'
          BY <1>1, <5>2, <5>3, AwaitsKept
        <5>5. QED
          BY <4>3, <5>1, <5>4 DEF Awaits
      <4>6. ASSUME NEW s, Behind(j, s)
            PROVE  Behind(j, s)'
        <5>1. Event(j).ch \in ChanIds /\ Event(j).before \in 0..Len(chan[Event(j).ch])
          BY <1>1, <3>1, EventFacts
        <5>2. PICK d \in ChanIds : d = Event(j).ch
          BY <5>1
        <5>3. PICK n \in 0..Len(chan[d]) : n = Event(j).before
          BY <5>1, <5>2
        <5>4. s \in landed \/ InCopies(chan[d], s, n)
          BY <4>6, <5>2, <5>3 DEF Behind
        <5>5. s \in landed' \/ InCopies(chan'[d], s, IF d = c THEN Nearer(n) ELSE n)
          BY <1>4, <1>8, <5>4
        <5>6. Event(j)'.ch = d /\ Event(j)'.before = (IF d = c THEN Nearer(n) ELSE n)
          BY <3>2, <5>2, <5>3
        <5>7. QED
          BY <5>5, <5>6 DEF Behind
      <4>7. SpeaksFor(j, b)'
        BY <1>3, <3>2, <4>1, <4>2, <4>3, <4>5, <4>6 DEF SpeaksFor
      <4>8. QED
        BY <4>7
    <3>4. \A i, j \in Waiting' : i # j => Event(i)'.tiles # Event(j)'.tiles
      BY <3>1, <3>2 DEF PipeBody, EventInv
    <3>5. QED
      BY <3>1, <3>3, <3>4 DEF EventInv, SpeaksFor, Behind
  <2>3. QED
    BY <2>1, <2>2
<1>17. QED
  BY <1>9, <1>10, <1>11, <1>13, <1>14, <1>15, <1>16 DEF PipeBody

-----------------------------------------------------------------------------
(* The pipeline without the pinned signal values *)

\* There no signal is on its way.
LEMMA NothingSignalled ==
  ASSUME FlightInv, Fallback, poll_pc' \notin {"data", "signal"}, UNCHANGED <<chan, signals>>, NEW t
  PROVE  ~Signalled(t)'
<1>1. signals = <<>> /\ \A c \in ChanIds : \A p \in 1..Len(chan[c]) : chan[c][p].tiles = {}
  BY DEF FlightInv, PathInv, Fallback
<1>2. Len(signals) = 0
  BY <1>1, EmptySeq
<1>3. QED
  BY <1>1, <1>2 DEF Signalled

\* The oldest deferred event is published.
LEMMA PollTileEventPipe ==
  ASSUME CoreInv, CoreInv', [Next]_vars, PipeBody, PollTileEvent
  PROVE  PipeBody'
<1>0. HostStep
  BY DEF HostStep, Poller
<1>1. /\ UNCHANGED <<gpuVars, config>>
      /\ SchedInv /\ RingInv /\ FlightInv /\ FlightTypes /\ CountTypes /\ EventTypes
      /\ PlacesOK /\ PlacesOK' /\ First <= First' /\ Counted <= Counted' /\ Low <= Low'
      /\ (Strict' => Strict)
  BY <1>0, HostContext
<1>2. /\ poll_pc = "events" /\ poll_pc' \notin {"data", "signal"}
      /\ tile_events[tile_event_tail].before = 0
      /\ chunk_done' = [t \in TileIds |-> IF t \in tile_events[tile_event_tail].tiles
                                            THEN tile_progress[t] ELSE chunk_done[t]]
      /\ tile_event_tail' = (tile_event_tail + 1) % MAX_PENDING_TILE_EVENTS
      /\ tile_events_inflight' = tile_events_inflight - 1
      /\ UNCHANGED <<tile_progress, tile_signal_buf, tile_events, chan, signals, landed>>
  BY DEF PollTileEvent, TailEventDone, progressVars
<1>3. /\ config.path = "deferred" /\ Fallback /\ Strict /\ tile_events_inflight > 0
      /\ tile_events_inflight \in Nat /\ tile_event_tail \in EventSlots
  BY <1>1, <1>2 DEF FlightInv, PathInv, Fallback, Strict, EventTypes
<1>4. EventSlot(0) = tile_event_tail /\ 0 \in Waiting /\ Waiting \subseteq Nat
  BY <1>3, EventPlaces DEF EventSlot, Waiting
<1>5. /\ Event(0).before = 0
      /\ \A t \in TileIds : chunk_done'[t] = IF t \in Event(0).tiles THEN tile_progress[t]
                                                                     ELSE chunk_done[t]
  BY <1>2, <1>4 DEF Event
<1>6. PICK a \in Blocks : SpeaksFor(0, a)
  BY <1>4 DEF PipeBody, EventInv, SpeaksFor, Behind
<1>7. /\ Event(0).tiles = {tile[a]} /\ Holds(a) /\ Base(a) + C <= First
      /\ tile_progress[tile[a]] >= (chunk[a] + 1) * C =>
           Base(a)..(Base(a) + C - 1) \subseteq landed
  <2>1. \A s : Behind(0, s) => s \in landed
    BY <1>5 DEF Behind, InCopies
  <2>2. QED
    BY <1>6, <2>1 DEF SpeaksFor, Awaits
<1>8. landed \subseteq landed'
  BY <1>2
<1>9. HeldInv'
  BY <1>1, HeldKept DEF PipeBody
<1>10. ProgressInv'
  BY <1>1, <1>2, ProgressKept DEF PipeBody
<1>11. ReadyInv'
  BY <1>1, <1>8, ReadyKept DEF PipeBody
<1>12. ValueInv'
  <2>1. TileIds' = TileIds
    BY <1>1, BlocksKept
  <2>2. \A t \in TileIds : ~Signalled(t)'
    BY <1>1, <1>2, <1>3, NothingSignalled
  <2>3. \A t \in TileIds : chunk_done'[t] <= tile_progress[t]
    <3>1. \A t \in TileIds : chunk_done[t] <= tile_progress[t] /\ tile_progress[t] \in Nat
      BY <1>1 DEF PipeBody, ValueInv, CountTypes
    <3>2. QED
      BY <1>5, <3>1
  <2>4. QED
    BY <1>2, <2>1, <2>2, <2>3 DEF ValueInv
<1>13. ArrivedInv'
  <2>1. ASSUME NEW b \in Blocks, Holds(b), ~Arrived(b), chunk_done'[tile[b]] >= (chunk[b] + 1) * C
        PROVE  /\ Base(b) + C <= Low'
               /\ Strict' => Base(b)..(Base(b) + C - 1) \subseteq landed'
    <3>1. tile[b] \in TileIds /\ Active(b) /\ Base(b) \in Nat /\ C \in Nat
      BY <1>1, <2>1, HolderFacts
    <3>2. tile[b] \in Event(0).tiles
      BY <1>5, <2>1, <3>1 DEF Arrived
    <3>3. b = a
      BY <1>1, <1>7, <3>1, <3>2, HolderFacts, HoldersApart
    <3>4. tile_progress[tile[b]] >= (chunk[b] + 1) * C
      BY <1>5, <2>1, <3>1, <3>2
    <3>5. Base(b) + C <= Low'
      BY <1>1, <1>3, <1>7, <3>1, <3>3 DEF PlacesOK
    <3>6. QED
      BY <1>2, <1>7, <3>3, <3>4, <3>5
  <2>2. QED
    BY <1>1, <1>8, <2>1, ArrivedKept DEF PipeBody
<1>14. SignalInv'
  BY <1>1, <1>3 DEF SignalInv
<1>15. EventInv'
  <2>1. ASSUME NEW j \in Waiting'
        PROVE  /\ j \in Nat /\ j + 1 \in Waiting /\ j + 1 # 0 /\ Event(j)' = Event(j + 1)
    <3>1. j \in Nat /\ j + 1 \in Waiting /\ j + 1 # 0
      BY <1>2, <1>3 DEF Waiting
    <3>2. EventSlot(j)' = EventSlot(j + 1)
      BY <1>2, <1>3, <3>1, EventPlaces DEF EventSlot
    <3>3. QED
      BY <1>2, <3>1, <3>2 DEF Event
  <2>2. ASSUME NEW j \in Waiting'
        PROVE  \E b \in Blocks : SpeaksFor(j, b)'
    <3>1. j + 1 \in Waiting /\ j + 1 # 0 /\ Event(j)' = Event(j + 1)
      BY <2>1
    <3>2. PICK b \in Blocks : SpeaksFor(j + 1, b)
      BY <3>1 DEF PipeBody, EventInv, SpeaksFor, Behind
    <3>3. Awaits(b, tile[b]) /\ Event(j + 1).tiles = {tile[b]}
      BY <3>2 DEF SpeaksFor
    <3>4. /\ Base(b)' = Base(b) /\ C' = C /\ tile' = tile /\ chunk' = chunk
      BY <1>1, BlocksKept
    <3>5. tile[b] \in TileIds
      BY <1>1, <3>3, HolderFacts DEF Awaits
    <3>6. Event(0).tiles # Event(j + 1).tiles
      BY <1>4, <3>1 DEF PipeBody, EventInv
    <3>7. chunk_done'[tile[b]] = chunk_done[tile[b]]
      BY <1>5, <1>7, <3>3, <3>5, <3>6
    <3>8. Awaits(b, tile[b])'
      <4>1. PICK t \in TileIds : t = tile[b]
        BY <3>5
      <4>2. Awaits(b, t) /\ chunk_done'[t] = chunk_done[t]
        BY <3>3, <3>7, <4>1
      <4>3. Awaits(b, t)'
        BY <1>1, <4>2, AwaitsKept
      <4>4. QED
        BY <3>4, <4>1, <4>3 DEF Awaits
    <3>9. \A s : Behind(j + 1, s) => Behind(j, s)'
      BY <1>2, <3>1 DEF Behind
    <3>10. SpeaksFor(j, b)'
      BY <1>2, <3>1, <3>2, <3>3, <3>4, <3>8, <3>9 DEF SpeaksFor
    <3>11. QED
      BY <3>10
  <2>3. ASSUME NEW i \in Waiting', NEW j \in Waiting', i # j
        PROVE  Event(i)'.tiles # Event(j)'.tiles
    <3>1. i + 1 \in Waiting /\ j + 1 \in Waiting /\ i + 1 # j + 1
      BY <2>1, <2>3
    <3>2. Event(i + 1).tiles # Event(j + 1).tiles
      BY <3>1 DEF PipeBody, EventInv
    <3>3. QED
      BY <2>1, <3>2
  <2>4. QED
    BY <2>2, <2>3 DEF EventInv, SpeaksFor, Behind
<1>16. QED
  BY <1>9, <1>10, <1>11, <1>12, <1>13, <1>14, <1>15 DEF PipeBody

\* Each deferred event has a block of its own, so there is room for one more
\* while some block has none.
LEMMA EventsFit ==
  ASSUME CoreInv, EventInv, NEW h \in Blocks,
         \A j \in Waiting : \A b \in Blocks : SpeaksFor(j, b) => b # h
  PROVE  tile_events_inflight \in Nat /\ tile_events_inflight < MAX_PENDING_TILE_EVENTS
<1>1. tile_events_inflight \in Nat /\ MAX_PENDING_TILE_EVENTS \in Nat
  BY TiledAssumption DEF CoreInv, StreamInv, EventTypes
<1> DEFINE f == [j \in Waiting |-> CHOOSE b \in Blocks : SpeaksFor(j, b)]
<1>2. ASSUME NEW j \in Waiting
      PROVE  f[j] \in Blocks /\ SpeaksFor(j, f[j]) /\ f[j] # h
  <2>1. \E b \in Blocks : SpeaksFor(j, b)
    BY DEF EventInv, SpeaksFor, Behind
  <2>2. f[j] \in Blocks /\ SpeaksFor(j, f[j])
    BY <2>1, Zenon
  <2>3. QED
    BY <2>2
<1>3. f \in [Waiting -> Blocks \ {h}]
  <2>1. \A j \in Waiting : f[j] \in Blocks \ {h}
    BY <1>2
  <2>2. f = [j \in Waiting |-> f[j]]
    OBVIOUS
  <2> HIDE DEF f
  <2>3. QED
    BY <2>1, <2>2
<1> HIDE DEF f
<1>4. \A i, j \in Waiting : f[i] = f[j] => i = j
  <2>1. SUFFICES ASSUME NEW i \in Waiting, NEW j \in Waiting, f[i] = f[j], i # j PROVE FALSE
    OBVIOUS
  <2>2. Event(i).tiles = {tile[f[i]]} /\ Event(j).tiles = {tile[f[j]]}
    BY <1>2 DEF SpeaksFor
  <2>3. QED
    BY <2>1, <2>2 DEF EventInv
<1>5. f \in Injection(Waiting, Blocks \ {h})
  BY <1>3, <1>4 DEF Injection, IsInjective
<1>6. /\ IsFiniteSet(Blocks \ {h}) /\ Cardinality(Blocks \ {h}) = Cardinality(Blocks) - 1
      /\ Cardinality(Blocks) \in Nat
  BY TiledAssumption, FS_RemoveElement, FS_CardinalityType
<1>7. Cardinality(Waiting) <= Cardinality(Blocks) - 1
  <2>1. Cardinality(Waiting) <= Cardinality(Blocks \ {h})
    BY <1>5, <1>6, FS_Injection, Zenon
  <2>2. QED
    BY <1>6, <2>1
<1>8. Cardinality(Waiting) = tile_events_inflight
  <2>1. 0 \in Int /\ tile_events_inflight - 1 \in Int
    BY <1>1
  <2>2. Cardinality(0..(tile_events_inflight - 1)) =
          IF 0 > tile_events_inflight - 1 THEN 0 ELSE (tile_events_inflight - 1) - 0 + 1
    BY <2>1, FS_Interval, Zenon
  <2>3. QED
    BY <1>1, <2>2 DEF Waiting
<1>9. QED
  BY <1>1, <1>6, <1>7, <1>8, BlocksFitEvents

\* A batch with a marker is counted: the whole chunk, if it was not cut.
LEMMA MarkedBatch ==
  ASSUME SchedInv, RingInv, CountTypes, ProgressInv, Fallback, poll_pc \in {"event", "publish"},
         UNCHANGED <<gpuVars, config, read_idx>>, PlacesOK, PlacesOK', Counted <= Counted',
         batch' = <<>>, poll_pc' = "poll", NEW h \in Blocks, HoldsBatch(h), read_idx = Base(h) + C,
         tile_progress' \in [TileIds -> Nat],
         \A t \in TileIds : t # tile[h] => tile_progress'[t] = tile_progress[t],
         tile_progress'[tile[h]] = tile_progress[tile[h]] + Len(batch)
  PROVE  /\ ProgressInv'
         /\ tile_progress[tile[h]] <= tile_progress'[tile[h]]
         /\ tile_progress'[tile[h]] >= (chunk[h] + 1) * C => First = Base(h)
<1>1. /\ Holds(h) /\ Base(h) <= First /\ First < read_idx
  BY DEF HoldsBatch
<1>2. /\ tile[h] \in TileIds /\ Base(h) \in Nat /\ C \in Nat /\ chunk[h] \in Nat
      /\ Len(batch) \in Nat /\ read_idx = First + Len(batch) /\ First \in Nat /\ read_idx \in Nat
  BY <1>1, HolderFacts, BatchRun
<1>3. PICK x \in Nat : x = tile_progress[tile[h]]
  BY <1>2 DEF CountTypes
<1>4. PICK y \in Nat : y = chunk[h] * C
  BY <1>2
<1>5. x >= y /\ x <= y
  <2>1. /\ tile_progress[tile[h]] \in Nat /\ tile_progress[tile[h]] >= chunk[h] * C
        /\ tile_progress[tile[h]] <= chunk[h] * C + 0
    BY BeforeBatch
  <2>2. QED
    BY <1>3, <1>4, <2>1
<1>6. tile_progress'[tile[h]] = y + Len(batch)
  BY <1>2, <1>3, <1>4, <1>5
<1>7. Part(h)' = C
  <2>1. First' = read_idx
    BY FlushedFacts
  <2>2. Counted' = read_idx /\ C' = C /\ Base(h)' = Base(h)
    BY <2>1, BlocksKept DEF Counted
  <2>3. QED
    BY <1>2, <2>2 DEF Part
<1>8. Len(batch) <= C
  BY <1>1, <1>2
<1>9. tile_progress'[tile[h]] <= chunk[h] * C + Part(h)'
  BY <1>2, <1>4, <1>6, <1>7, <1>8
<1>10. tile_progress[tile[h]] <= tile_progress'[tile[h]]
  BY <1>2, <1>3, <1>5, <1>6
<1>11. ProgressInv'
  BY <1>1, <1>9, <1>10, ProgressAdds
<1>12. ASSUME tile_progress'[tile[h]] >= (chunk[h] + 1) * C
       PROVE  First = Base(h)
  <2>1. (chunk[h] + 1) * C = y + C
    BY <1>2, <1>4
  <2>2. y + Len(batch) >= y + C
    BY <1>6, <1>12, <2>1
  <2>3. QED
    BY <1>1, <1>2, <1>4, <2>2
<1>13. QED
  BY <1>10, <1>11, <1>12

\* The batch whose event is recorded ends the chunk of a block that no event
\* speaks for yet.
LEMMA DeferHolder ==
  ASSUME CoreInv, PipeBody, poll_pc = "event"
  PROVE  \E h \in Blocks :
           /\ HoldsBatch(h) /\ read_idx = Base(h) + C
           /\ \A j \in Waiting : \A b \in Blocks : SpeaksFor(j, b) => b # h /\ Holds(b)
<1>1. SchedInv /\ RingInv /\ FlightInv /\ PlacesOK
  BY CountPlaces DEF CoreInv, StreamInv
<1>2. Low = First /\ batch # <<>> /\ batch[Len(batch)].last
  BY <1>1 DEF PlacesOK, RingInv, BatchInv
<1>3. PICK h \in Blocks : HoldsBatch(h)
  BY <1>1, <1>2, BatchHolder DEF PipeBody
<1>4. Holds(h) /\ First < read_idx /\ read_idx = Base(h) + C
  BY <1>2, <1>3 DEF HoldsBatch
<1>5. Base(h) \in Nat /\ C \in Nat /\ First \in Nat /\ read_idx \in Nat
  BY <1>1, <1>4, HolderFacts DEF PlacesOK
<1>6. ASSUME NEW j \in Waiting, NEW b \in Blocks, SpeaksFor(j, b)
      PROVE  b # h /\ Holds(b)
  <2>1. Holds(b) /\ Base(b) + C <= First
    BY <1>6 DEF SpeaksFor, Awaits
  <2>2. QED
    BY <1>4, <1>5, <2>1
<1>7. QED
  BY <1>3, <1>4, <1>6

\* Recording an event: it takes a slot of its own, and the others stay.
LEMMA DeferPlaces ==
  ASSUME CoreInv, PipeBody, DeferTileEvent, NEW m, m = tile_events_inflight
  PROVE  /\ m \in Nat /\ Waiting \subseteq Nat
         /\ \A j \in Waiting' : j \in Waiting \/ j = m
         /\ \A j \in Waiting : Event(j)' = Event(j)
         /\ Event(m)'.ch = LastStream /\ Event(m)'.before = Len(chan[LastStream])
         /\ Event(m)'.tiles = MarkedTiles /\ Event(m)'.done_value = read_idx
<1>1. /\ poll_pc = "event" /\ tile_event_tail' = tile_event_tail
      /\ tile_events' = [tile_events EXCEPT ![tile_event_head] =
           [ch |-> LastStream, before |-> Len(chan[LastStream]),
            tiles |-> MarkedTiles, done_value |-> read_idx]]
      /\ tile_events_inflight' = tile_events_inflight + 1
  BY DEF DeferTileEvent
<1>2. tile_events_inflight \in Nat /\ tile_events_inflight < MAX_PENDING_TILE_EVENTS
  <2>1. EventInv
    BY DEF PipeBody
  <2>2. PICK h \in Blocks : \A j \in Waiting : \A b \in Blocks : SpeaksFor(j, b) => b # h
    BY <1>1, DeferHolder
  <2>3. QED
    BY <2>1, <2>2, EventsFit
<1>3. MAX_PENDING_TILE_EVENTS \in Nat
  BY TiledAssumption
<1>4. /\ tile_event_tail \in EventSlots /\ tile_event_head = EventSlot(tile_events_inflight)
      /\ tile_event_head \in EventSlots /\ tile_events \in [EventSlots -> EventRec]
  BY DEF CoreInv, StreamInv, EventTypes
<1> DEFINE new == [ch |-> LastStream, before |-> Len(chan[LastStream]),
                   tiles |-> MarkedTiles, done_value |-> read_idx]
<1>5. m \in Nat /\ \A j \in Waiting' : j \in Waiting \/ j = m
  BY <1>1, <1>2 DEF Waiting
<1>6. Waiting \subseteq 0..(MAX_PENDING_TILE_EVENTS - 1) /\ Waiting \subseteq Nat
      /\ m \in 0..(MAX_PENDING_TILE_EVENTS - 1) /\ m \notin Waiting
  BY <1>2, <1>3 DEF Waiting
<1>7. \A j \in Nat : EventSlot(j)' = EventSlot(j)
  BY <1>1 DEF EventSlot
<1>8. Event(m)' = new
  BY <1>1, <1>4, <1>5, <1>7 DEF Event
<1>9. ASSUME NEW j \in Waiting
      PROVE  Event(j)' = Event(j)
  <2>1. EventSlot(j) # EventSlot(m)
    BY <1>4, <1>6, EventPlaces DEF EventSlot
  <2>2. QED
    BY <1>1, <1>4, <1>6, <1>7, <2>1 DEF Event
<1>10. /\ new.ch = LastStream /\ new.before = Len(chan[LastStream])
       /\ new.tiles = MarkedTiles /\ new.done_value = read_idx
  OBVIOUS
<1> HIDE DEF new
<1>11. QED
  BY <1>5, <1>6, <1>8, <1>9, <1>10

\* The event of a batch with a marker is recorded behind the batch's copy.
LEMMA DeferTileEventPipe ==
  ASSUME CoreInv, CoreInv', [Next]_vars, PipeBody, DeferTileEvent
  PROVE  PipeBody'
<1>0. HostStep
  BY DEF HostStep, Poller
<1>1. /\ UNCHANGED <<gpuVars, config>>
      /\ SchedInv /\ RingInv /\ FlightInv /\ FlightTypes /\ CountTypes /\ CountTypes' /\ EventTypes
      /\ PlacesOK /\ PlacesOK' /\ First <= First' /\ Counted <= Counted' /\ Low <= Low'
      /\ (Strict' => Strict)
  BY <1>0, HostContext
<1>2. /\ poll_pc = "event" /\ poll_pc' = "poll" /\ batch' = <<>>
      /\ tile_events' = [tile_events EXCEPT ![tile_event_head] =
           [ch |-> LastStream, before |-> Len(chan[LastStream]),
            tiles |-> MarkedTiles, done_value |-> read_idx]]
      /\ tile_events_inflight' = tile_events_inflight + 1
      /\ tile_progress' = [t \in TileIds |-> tile_progress[t] +
                             (IF t \in MarkedTiles THEN InBatch(t) ELSE 0)]
      /\ UNCHANGED <<read_idx, tile_signal_buf, tile_event_tail, chunk_done, chan, signals, landed>>
  BY DEF DeferTileEvent, Flushed
<1>3. /\ config.path = "deferred" /\ Fallback /\ Strict /\ Low = First
      /\ batch # <<>> /\ batch[Len(batch)].last
  BY <1>1, <1>2 DEF FlightInv, PathInv, Fallback, Strict, PlacesOK, RingInv, BatchInv
<1>4. PICK h \in Blocks :
        /\ HoldsBatch(h) /\ read_idx = Base(h) + C
        /\ \A j \in Waiting : \A b \in Blocks : SpeaksFor(j, b) => b # h /\ Holds(b)
  BY <1>2, DeferHolder
<1>5. /\ Holds(h) /\ Base(h) <= First /\ First < read_idx /\ read_idx = Base(h) + C
      /\ MarkedTiles = {tile[h]} /\ InBatch(tile[h]) = Len(batch)
  BY <1>3, <1>4 DEF HoldsBatch
<1>6. /\ tile[h] \in TileIds /\ Base(h) \in Nat /\ C \in Nat /\ Active(h)
      /\ First \in Nat /\ read_idx \in Nat
  BY <1>1, <1>5, HolderFacts DEF PlacesOK
<1>7. First' = read_idx
  BY <1>1, <1>2, FlushedFacts
<1>8. \A t \in TileIds : tile_progress[t] \in Nat
  BY <1>1 DEF CountTypes
<1>9. /\ tile_progress' \in [TileIds -> Nat]
      /\ \A t \in TileIds : t # tile[h] => tile_progress'[t] = tile_progress[t]
      /\ tile_progress'[tile[h]] = tile_progress[tile[h]] + Len(batch)
  <2>1. tile_progress' \in [TileIds -> Nat]
    <3>1. TileIds' = TileIds
      BY <1>1, BlocksKept
    <3>2. QED
      BY <1>1, <3>1 DEF CountTypes
  <2>2. QED
    BY <1>2, <1>5, <1>6, <1>8, <2>1
<1>10. /\ ProgressInv'
       /\ tile_progress[tile[h]] <= tile_progress'[tile[h]]
       /\ tile_progress'[tile[h]] >= (chunk[h] + 1) * C => First = Base(h)
  <2>1. poll_pc \in {"event", "publish"}
    BY <1>2
  <2>2. ProgressInv
    BY DEF PipeBody
  <2>3. QED
    BY <1>1, <1>2, <1>3, <1>4, <1>5, <1>9, <2>1, <2>2, MarkedBatch
<1>11. HeldInv'
  BY <1>1, HeldKept DEF PipeBody
<1>12. landed \subseteq landed' /\ CopiesKept
  BY <1>2 DEF CopiesKept
<1>13. ReadyInv'
  BY <1>1, <1>12, ReadyKept DEF PipeBody
<1>14. ValueInv'
  <2>1. TileIds' = TileIds
    BY <1>1, BlocksKept
  <2>2. \A t \in TileIds : ~Signalled(t)'
    BY <1>1, <1>2, <1>3, NothingSignalled
  <2>3. \A t \in TileIds : chunk_done'[t] <= tile_progress'[t]
    <3>1. \A t \in TileIds : chunk_done[t] <= tile_progress[t] /\ chunk_done[t] \in Nat
      BY <1>1 DEF PipeBody, ValueInv, CountTypes
    <3>2. \A t \in TileIds : tile_progress[t] <= tile_progress'[t] /\ tile_progress'[t] \in Nat
      BY <1>8, <1>9, <1>10
    <3>3. QED
      BY <1>2, <1>8, <3>1, <3>2
  <2>4. QED
    BY <2>1, <2>2, <2>3 DEF ValueInv
<1>15. ArrivedInv'
  <2>1. ~\E b \in Blocks : ~Arrived(b) /\ chunk_done'[tile[b]] >= (chunk[b] + 1) * C
    BY <1>2 DEF Arrived
  <2>2. QED
    BY <1>1, <1>12, <2>1, ArrivedKept DEF PipeBody
<1>16. SignalInv'
  BY <1>1, <1>3 DEF SignalInv
<1>17. EventInv'
  <2>1. ASSUME NEW j \in Waiting, NEW b \in Blocks, SpeaksFor(j, b)
        PROVE  tile[b] # tile[h] /\ Holds(b)
    <3>1. b # h /\ Holds(b)
      BY <1>4, <2>1
    <3>2. QED
      BY <1>1, <1>6, <3>1, HolderFacts, HoldersApart
  <2>2. PICK m : m = tile_events_inflight
    OBVIOUS
  <2>3. /\ m \in Nat /\ \A j \in Waiting' : j \in Waiting \/ j = m
        /\ \A j \in Waiting : Event(j)' = Event(j)
        /\ Event(m)'.ch = LastStream /\ Event(m)'.before = Len(chan[LastStream])
        /\ Event(m)'.tiles = {tile[h]}
    BY <1>5, <2>2, DeferPlaces
  <2>4. /\ tile' = tile /\ chunk' = chunk /\ C' = C /\ LastInv
         /\ \A b \in Blocks : Base(b)' = Base(b) /\ (Holds(b)' <=> Holds(b))
    BY <1>1, BlocksKept DEF FlightInv
  <2>5. SpeaksFor(m, h)'
    <3>1. ~Arrived(h)
      BY <1>3, <1>5, <1>6 DEF PipeBody, ArrivedInv
    <3>2. Awaits(h, tile[h])'
      BY <1>2, <1>5, <1>6, <1>7, <2>4, <3>1 DEF Awaits, Arrived
    <3>3. ASSUME tile_progress'[tile[h]] >= (chunk[h] + 1) * C, NEW s \in Base(h)..(Base(h) + C - 1)
          PROVE  s \in landed \/ InCopies(chan[LastStream], s, Len(chan[LastStream]))
      <4>1. s \in First..(read_idx - 1)
        BY <1>5, <1>6, <1>10, <3>3
      <4>2. QED
        BY <1>2, <2>4, <4>1 DEF LastInv
    <3>4. ASSUME NEW s, s \in landed \/ InCopies(chan[LastStream], s, Len(chan[LastStream]))
          PROVE  Behind(m, s)'
      BY <1>2, <2>3, <3>4 DEF Behind
    <3>5. Event(m)'.tiles = {tile[h]}
      BY <2>3
    <3>6. QED
      BY <2>4, <3>2, <3>3, <3>4, <3>5 DEF SpeaksFor
  <2>6. ASSUME NEW j \in Waiting, NEW b \in Blocks, SpeaksFor(j, b)
         PROVE  SpeaksFor(j, b)'
    <3>1. tile[b] # tile[h] /\ Holds(b)
      BY <2>1, <2>6
    <3>2. tile[b] \in TileIds /\ tile_progress'[tile[b]] = tile_progress[tile[b]]
      BY <1>1, <1>9, <3>1, HolderFacts
    <3>3. Awaits(b, tile[b])'
      <4>1. PICK t \in TileIds : t = tile[b]
        BY <3>2
      <4>2. Awaits(b, t) /\ chunk_done'[t] = chunk_done[t]
        BY <1>2, <2>6, <4>1 DEF SpeaksFor
      <4>3. Awaits(b, t)'
        BY <1>1, <4>2, AwaitsKept
      <4>4. QED
        BY <2>4, <4>1, <4>3 DEF Awaits
    <3>4. \A s : Behind(j, s) => Behind(j, s)'
      BY <1>2, <2>3 DEF Behind
    <3>5. Event(j)'.tiles = {tile[b]}
      BY <2>3, <2>6 DEF SpeaksFor
    <3>6. QED
      BY <2>4, <2>6, <3>2, <3>3, <3>4, <3>5 DEF SpeaksFor
  <2>7. \A j \in Waiting : \E b \in Blocks : SpeaksFor(j, b)
    BY DEF PipeBody, EventInv, SpeaksFor, Behind
  <2>8. \A j \in Waiting' : \E b \in Blocks : SpeaksFor(j, b)'
    BY <2>3, <2>5, <2>6, <2>7
  <2>9. \A j \in Waiting : Event(j)'.tiles # Event(m)'.tiles
    <3>1. \A j \in Waiting : Event(j).tiles # {tile[h]}
      BY <2>1, <2>7 DEF SpeaksFor
    <3>2. QED
      BY <2>3, <3>1
  <2>10. \A i, j \in Waiting : i # j => Event(i)'.tiles # Event(j)'.tiles
    BY <2>3 DEF PipeBody, EventInv
  <2>11. \A i, j \in Waiting' : i # j => Event(i)'.tiles # Event(j)'.tiles
    BY <2>3, <2>9, <2>10
  <2>12. QED
    BY <2>8, <2>11 DEF EventInv, SpeaksFor, Behind
<1>18. QED
  BY <1>10, <1>11, <1>13, <1>14, <1>15, <1>16, <1>17 DEF PipeBody

\* The poller has copied a batch itself and publishes.
LEMMA PublishNoCePipe ==
  ASSUME CoreInv, CoreInv', [Next]_vars, PipeBody, PublishNoCe
  PROVE  PipeBody'
<1>0. HostStep
  BY DEF HostStep, Poller
<1>1. /\ UNCHANGED <<gpuVars, config>>
      /\ SchedInv /\ RingInv /\ FlightInv /\ FlightTypes /\ CountTypes /\ CountTypes' /\ EventTypes
      /\ PlacesOK /\ PlacesOK' /\ First <= First' /\ Counted <= Counted' /\ Low <= Low'
      /\ (Strict' => Strict)
  BY <1>0, HostContext
<1>2. /\ poll_pc = "publish" /\ poll_pc' = "poll" /\ batch' = <<>>
      /\ tile_progress' = [t \in TileIds |-> tile_progress[t] +
                             (IF HasTileMarkers THEN InBatch(t) ELSE 0)]
      /\ chunk_done' = [t \in TileIds |-> IF t \in MarkedTiles THEN tile_progress'[t]
                                                              ELSE chunk_done[t]]
      /\ UNCHANGED <<read_idx, tile_signal_buf, chan, signals, landed>>
  BY DEF PublishNoCe
<1>3. /\ config.path = "no_ce" /\ Fallback /\ Strict /\ Low = First
      /\ batch # <<>> /\ Submitted = read_idx /\ \A c \in ChanIds : chan[c] = <<>>
  BY <1>1, <1>2 DEF FlightInv, PathInv, Fallback, Strict, PlacesOK, RingInv, BatchInv,
       Submitted, Handed
<1>4. PICK h \in Blocks : HoldsBatch(h)
  BY <1>1, <1>3, BatchHolder DEF PipeBody
<1>5. /\ Holds(h) /\ Base(h) <= First /\ First < read_idx
      /\ HasTileMarkers <=> read_idx = Base(h) + C
      /\ HasTileMarkers => MarkedTiles = {tile[h]}
      /\ ~HasTileMarkers => MarkedTiles = {}
      /\ InBatch(tile[h]) = Len(batch) /\ \A t \in TileIds : t # tile[h] => InBatch(t) = 0
  BY <1>4 DEF HoldsBatch
<1>6. /\ tile[h] \in TileIds /\ Base(h) \in Nat /\ C \in Nat /\ Active(h)
      /\ First \in Nat /\ read_idx \in Nat
  BY <1>1, <1>5, HolderFacts DEF PlacesOK
<1>7. First' = read_idx
  BY <1>1, <1>2, FlushedFacts
<1>8. TileIds' = TileIds
  BY <1>1, BlocksKept
<1>9. \A t \in TileIds : /\ tile_progress[t] \in Nat /\ tile_progress'[t] \in Nat
                         /\ chunk_done[t] \in Nat
  BY <1>1, <1>8 DEF CountTypes
<1>10. /\ ProgressInv'
       /\ \A t \in TileIds : tile_progress[t] <= tile_progress'[t]
  <2>1. CASE HasTileMarkers
    <3>1. /\ \A t \in TileIds : t # tile[h] => tile_progress'[t] = tile_progress[t]
          /\ tile_progress'[tile[h]] = tile_progress[tile[h]] + Len(batch)
          /\ tile_progress' \in [TileIds -> Nat]
      BY <1>1, <1>2, <1>5, <1>6, <1>8, <1>9, <2>1 DEF CountTypes
    <3>2. poll_pc \in {"event", "publish"} /\ ProgressInv
      BY <1>2 DEF PipeBody
    <3>3. /\ ProgressInv' /\ tile_progress[tile[h]] <= tile_progress'[tile[h]]
      BY <1>1, <1>2, <1>3, <1>4, <1>5, <2>1, <3>1, <3>2, MarkedBatch
    <3>4. QED
      BY <1>9, <3>1, <3>3
  <2>2. CASE ~HasTileMarkers
    <3>1. tile_progress' = tile_progress
      <4>1. \A t \in TileIds : tile_progress'[t] = tile_progress[t]
        BY <1>2, <1>9, <2>2
      <4>2. QED
        BY <1>1, <1>8, <4>1 DEF CountTypes
    <3>2. ProgressInv'
      BY <1>1, <3>1, ProgressKept DEF PipeBody
    <3>3. QED
      BY <1>9, <3>1, <3>2
  <2>3. QED
    BY <2>1, <2>2
<1>11. HeldInv'
  BY <1>1, HeldKept DEF PipeBody
<1>12. landed \subseteq landed'
  BY <1>2
<1>13. ReadyInv'
  BY <1>1, <1>12, ReadyKept DEF PipeBody
<1>14. ValueInv'
  <2>1. \A t \in TileIds : ~Signalled(t)'
    BY <1>1, <1>2, <1>3, NothingSignalled
  <2>2. \A t \in TileIds : chunk_done'[t] <= tile_progress'[t]
    <3>1. \A t \in TileIds : chunk_done[t] <= tile_progress[t]
      BY DEF PipeBody, ValueInv
    <3>2. \A t \in TileIds : chunk_done'[t] = tile_progress'[t] \/ chunk_done'[t] = chunk_done[t]
      BY <1>2
    <3>3. QED
      BY <1>9, <1>10, <3>1, <3>2
  <2>3. QED
    BY <1>8, <2>1, <2>2 DEF ValueInv
<1>15. ArrivedInv'
  <2>1. ASSUME NEW b \in Blocks, Holds(b), ~Arrived(b), chunk_done'[tile[b]] >= (chunk[b] + 1) * C
        PROVE  /\ Base(b) + C <= Low'
               /\ Strict' => Base(b)..(Base(b) + C - 1) \subseteq landed'
    <3>1. tile[b] \in TileIds /\ Active(b) /\ Base(b) \in Nat
      BY <1>1, <2>1, HolderFacts
    <3>2. tile[b] \in MarkedTiles
      BY <1>2, <2>1, <3>1 DEF Arrived
    <3>3. HasTileMarkers /\ tile[b] = tile[h]
      BY <1>5, <3>2
    <3>4. b = h
      BY <1>1, <1>6, <3>1, <3>3, HoldersApart
    <3>5. read_idx = Base(b) + C
      BY <1>5, <3>3, <3>4
    <3>6. Base(b) + C <= Low'
      BY <1>1, <1>6, <1>7, <3>5 DEF PlacesOK
    <3>7. ASSUME NEW s \in Base(b)..(Base(b) + C - 1)
          PROVE  s \in landed
      <4>1. s \in 0..(Submitted - 1)
        BY <1>3, <1>6, <3>1, <3>5
      <4>2. s \in landed \/ Queued(s)
        BY <1>1, <4>1 DEF FlightInv, HandedInv
      <4>3. ~Queued(s)
        BY <1>3, EmptySeq DEF Queued, InCopies
      <4>4. QED
        BY <4>2, <4>3
    <3>8. QED
      BY <1>2, <3>6, <3>7
  <2>2. QED
    BY <1>1, <1>12, <2>1, ArrivedKept DEF PipeBody
<1>16. SignalInv'
  BY <1>1, <1>3 DEF SignalInv
<1>17. EventInv'
  BY <1>1, <1>3, NoEvents
<1>18. QED
  BY <1>10, <1>11, <1>13, <1>14, <1>15, <1>16, <1>17 DEF PipeBody

\* Every step of the CPU and of the copy engines keeps the pipeline in order.
LEMMA HostPipe ==
  ASSUME CoreInv, CoreInv', [Next]_vars, PipeBody, HostStep
  PROVE  PipeBody'
<1>1. CASE \E c \in ChanIds : CopyCompletes(c)
  BY <1>1, CopyCompletesPipe
<1>2. CASE SignalCompletes
  BY <1>2, SignalCompletesPipe
<1>3. CASE Poller
  BY <1>3, QuietSteps, UpdateProgressPipe, SubmitSignalPipe, DeferTileEventPipe,
     PollTileEventPipe, PublishNoCePipe DEF Poller
<1>4. QED
  BY <1>1, <1>2, <1>3 DEF HostStep

-----------------------------------------------------------------------------
(* The pipeline: the steps of the GPU *)

GpuFrame == UNCHANGED <<config, pollerVars, eventVars, chunk_done, chan, signals, landed>>

\* Block b goes on with the chunk it is at.
SameBlock(b) == /\ Holds(b)' <=> Holds(b)
                /\ Active(b)' <=> Active(b)
                /\ tile'[b] = tile[b] /\ chunk'[b] = chunk[b] /\ chunk_base'[b] = chunk_base[b]

\* Nothing that waits for a count is disturbed: signals and events keep their
\* meaning.
LEMMA GpuSignals ==
  ASSUME CoreInv, PipeBody, GpuFrame,
         \A b \in Blocks : Holds(b) /\ ~Arrived(b) =>
           Holds(b)' /\ Base(b)' = Base(b) /\ tile'[b] = tile[b] /\ chunk'[b] = chunk[b]
  PROVE  ValueInv' /\ SignalInv' /\ EventInv'
<1>1. config' = config /\ UNCHANGED <<eventVars, chunk_done, chan, signals, landed>>
  BY DEF GpuFrame
<1>2. /\ First' = First /\ (Strict' <=> Strict)
      /\ UNCHANGED <<batch, poll_pc, split, tile_progress, tile_signal_buf>>
      /\ BatchTiles' = BatchTiles
  BY PlacesKept DEF GpuFrame
<1>3. C' = C /\ TileIds' = TileIds
  BY <1>1, SameShape
<1>4. ASSUME NEW b \in Blocks, NEW t, Awaits(b, t)
      PROVE  Awaits(b, t)' /\ Base(b)' = Base(b) /\ tile'[b] = tile[b] /\ chunk'[b] = chunk[b]
  BY <1>1, <1>2, <1>3, <1>4 DEF Awaits, Arrived
<1>5. ValueInv'
  BY <1>1, <1>2, <1>3 DEF PipeBody, ValueInv, Signalled
<1>6. SignalInv'
  <2>1. SUFFICES ASSUME config.path = "device", ~split
        PROVE  SignalInv'
    BY <1>1, <1>2 DEF SignalInv
  <2>2. ASSUME NEW n \in 1..Len(signals), NEW t \in signals[n].tiles
        PROVE  \E b \in Blocks : /\ Awaits(b, t)'
                                 /\ \A s \in Base(b)'..(Base(b)' + C' - 1) :
                                      \/ s \in landed
                                      \/ \E c \in ChanIds : InCopies(chan[c], s, signals[n].after[c])
    <3>1. PICK b \in Blocks : Awaits(b, t) /\ \A s \in Base(b)..(Base(b) + C - 1) : OnItsWay(n, s)
      BY <2>1 DEF PipeBody, SignalInv, OnItsWay
    <3>2. QED
      BY <1>3, <1>4, <3>1 DEF OnItsWay
  <2>3. QED
    BY <1>1, <2>1, <2>2 DEF PipeBody, SignalInv
<1>7. EventInv'
  <2>1. Waiting' = Waiting /\ \A j : Event(j)' = Event(j)
    BY <1>1 DEF eventVars, Waiting, Event, EventSlot
  <2>2. ASSUME NEW j \in Waiting
        PROVE  \E b \in Blocks : SpeaksFor(j, b)'
    <3>1. PICK b \in Blocks : SpeaksFor(j, b)
      BY DEF PipeBody, EventInv, SpeaksFor, Behind
    <3>2. Awaits(b, tile[b])
      BY <3>1 DEF SpeaksFor
    <3>3. tile[b] \in Nat
      BY DEF CoreInv, SchedInv, GpuTypes
    <3>4. Base(b)' = Base(b) /\ tile'[b] = tile[b] /\ chunk'[b] = chunk[b]
      BY <1>4, <3>2
    <3>5. Awaits(b, tile[b])'
      <4>1. PICK t \in Nat : t = tile[b]
        BY <3>3
      <4>2. Awaits(b, t)'
        BY <1>4, <3>2, <4>1
      <4>3. QED
        BY <3>4, <4>1, <4>2 DEF Awaits
    <3>6. \A s : Behind(j, s)' <=> Behind(j, s)
      BY <1>1, <2>1 DEF Behind
    <3>7. SpeaksFor(j, b)'
      BY <1>2, <1>3, <2>1, <3>1, <3>4, <3>5, <3>6 DEF SpeaksFor
    <3>8. QED
      BY <3>7
  <2>3. QED
    BY <2>1, <2>2 DEF PipeBody, EventInv, SpeaksFor, Behind
<1>8. QED
  BY <1>5, <1>6, <1>7

\* One block moves: what has to be shown of it.
LEMMA BlockPipe ==
  ASSUME CoreInv, PipeBody, GpuFrame, NEW a \in Blocks,
         next_tile' \in Nat, next_tile <= next_tile',
         \A b \in Blocks : b # a => SameBlock(b),
         Holds(a) /\ ~Arrived(a) =>
           Holds(a)' /\ Base(a)' = Base(a) /\ tile'[a] = tile[a] /\ chunk'[a] = chunk[a],
         HeldInv',
         Active(a)' =>
           /\ tile_progress[tile'[a]] >= chunk'[a] * C
           /\ tile_progress[tile'[a]] <= chunk'[a] * C + (IF Holds(a)' THEN Part(a)' ELSE 0),
         Holds(a)' /\ Arrived(a)' =>
           /\ Base(a)' + C <= Low
           /\ Strict => Base(a)'..(Base(a)' + C - 1) \subseteq landed,
         Strict /\ Active(a)' => \A k \in Chunks : k < chunk'[a] =>
           chunk_base'[a][k]..(chunk_base'[a][k] + C - 1) \subseteq landed
  PROVE  PipeBody'
<1>1. config' = config /\ UNCHANGED <<eventVars, chunk_done, chan, signals, landed>>
  BY DEF GpuFrame
<1>2. /\ First' = First /\ Counted' = Counted /\ Low' = Low /\ (Strict' <=> Strict)
      /\ UNCHANGED <<batch, poll_pc, split, tile_progress, tile_signal_buf>>
  BY PlacesKept DEF GpuFrame
<1>3. C' = C /\ K' = K /\ TileIds' = TileIds /\ Chunks' = Chunks /\ Fallback' = Fallback
  BY <1>1, SameShape
<1>4. \A b \in Blocks : b # a => /\ SameBlock(b) /\ Base(b)' = Base(b) /\ (Arrived(b)' <=> Arrived(b))
                                 /\ Part(b)' = Part(b)
  BY <1>1, <1>2, <1>3 DEF SameBlock, Base, Arrived, Part
<1>5. ValueInv' /\ SignalInv' /\ EventInv'
  <2>1. \A b \in Blocks : Holds(b) /\ ~Arrived(b) =>
          Holds(b)' /\ Base(b)' = Base(b) /\ tile'[b] = tile[b] /\ chunk'[b] = chunk[b]
    BY <1>4 DEF SameBlock
  <2>2. QED
    BY <2>1, GpuSignals
<1>6. ProgressInv'
  <2>1. \A t \in TileIds : /\ t >= next_tile' => tile_progress[t] = 0
                           /\ tile_progress[t] <= K * C
    <3>1. \A t \in TileIds : t >= next_tile' => t >= next_tile
      <4>1. TileIds \subseteq Int /\ next_tile \in Nat
        BY Shape DEF TileIds, CoreInv, SchedInv, GpuTypes
      <4>2. QED
        BY <4>1
    <3>2. QED
      BY <3>1 DEF PipeBody, ProgressInv
  <2>2. ASSUME NEW b \in Blocks, Active(b)'
        PROVE  /\ tile_progress[tile'[b]] >= chunk'[b] * C
               /\ tile_progress[tile'[b]] <= chunk'[b] * C + (IF Holds(b)' THEN Part(b)' ELSE 0)
    <3>1. CASE b = a
      BY <2>2, <3>1
    <3>2. CASE b # a
      BY <1>4, <2>2, <3>2 DEF SameBlock, PipeBody, ProgressInv
    <3>3. QED
      BY <3>1, <3>2
  <2>3. QED
    BY <1>2, <1>3, <2>1, <2>2 DEF ProgressInv
<1>7. ArrivedInv'
  <2>1. ASSUME NEW b \in Blocks, Holds(b)', Arrived(b)'
        PROVE  /\ Base(b)' + C <= Low
               /\ Strict => Base(b)'..(Base(b)' + C - 1) \subseteq landed
    <3>1. CASE b = a
      BY <2>1, <3>1
    <3>2. CASE b # a
      BY <1>4, <2>1, <3>2 DEF SameBlock, PipeBody, ArrivedInv
    <3>3. QED
      BY <3>1, <3>2
  <2>2. QED
    BY <1>1, <1>2, <1>3, <2>1 DEF ArrivedInv
<1>8. ReadyInv'
  <2>1. ASSUME Strict, NEW b \in Blocks, Active(b)', NEW k \in Chunks, k < chunk'[b]
        PROVE  chunk_base'[b][k]..(chunk_base'[b][k] + C - 1) \subseteq landed
    <3>1. CASE b = a
      BY <2>1, <3>1
    <3>2. CASE b # a
      BY <1>4, <2>1, <3>2 DEF SameBlock, PipeBody, ReadyInv
    <3>3. QED
      BY <3>1, <3>2
  <2>2. QED
    BY <1>1, <1>2, <1>3, <2>1 DEF ReadyInv
<1>9. QED
  BY <1>5, <1>6, <1>7, <1>8 DEF PipeBody

\* No block moves, but for one that may let go of its tile.
LEMMA QuietBlocks ==
  ASSUME CoreInv, PipeBody, GpuFrame, UNCHANGED <<entries, next_tile, tile, chunk, chunk_base>>,
         \A b \in Blocks : (Holds(b)' <=> Holds(b)) /\ (Active(b)' => Active(b))
  PROVE  PipeBody'
<1>1. config' = config /\ UNCHANGED <<eventVars, chunk_done, chan, signals, landed>>
  BY DEF GpuFrame
<1>2. /\ Counted' = Counted /\ Low' = Low /\ (Strict' <=> Strict)
      /\ UNCHANGED <<tile_progress, tile_signal_buf>>
  BY PlacesKept DEF GpuFrame
<1>3. C' = C /\ K' = K /\ TileIds' = TileIds /\ Chunks' = Chunks /\ Fallback' = Fallback
  BY <1>1, SameShape
<1>4. \A b \in Blocks : Base(b)' = Base(b) /\ (Arrived(b)' <=> Arrived(b)) /\ Part(b)' = Part(b)
  BY <1>1, <1>2, <1>3 DEF Base, Arrived, Part
<1>5. write_idx' = write_idx
  BY DEF write_idx
<1>6. ValueInv' /\ SignalInv' /\ EventInv'
  BY <1>4, GpuSignals
<1>7. HeldInv'
  BY <1>2, <1>3, <1>4, <1>5 DEF PipeBody, HeldInv
<1>8. ProgressInv'
  <2>1. \A b \in Blocks : Active(b)' =>
          /\ tile_progress[tile[b]] >= chunk[b] * C
          /\ tile_progress[tile[b]] <= chunk[b] * C + (IF Holds(b)' THEN Part(b)' ELSE 0)
    BY <1>4 DEF PipeBody, ProgressInv
  <2>2. QED
    BY <1>2, <1>3, <2>1 DEF PipeBody, ProgressInv
<1>9. ArrivedInv'
  BY <1>1, <1>2, <1>3, <1>4 DEF PipeBody, ArrivedInv
<1>10. ReadyInv'
  BY <1>1, <1>2, <1>3 DEF PipeBody, ReadyInv
<1>11. QED
  BY <1>6, <1>7, <1>8, <1>9, <1>10 DEF PipeBody

\* The other blocks stay where they are.
LEMMA OtherBlocks ==
  ASSUME GpuTypes, RingTypes, NEW a \in Blocks, TransferWarp(a), NEW b \in Blocks, b # a
  PROVE  SameBlock(b)
<1>1. /\ pc \in [Blocks -> PlaceSet] /\ tile \in [Blocks -> Nat] /\ chunk \in [Blocks -> Nat]
      /\ chunk_base \in [Blocks -> [Chunks -> Int]]
  BY DEF GpuTypes, RingTypes
<1>2. pc'[b] = pc[b] /\ tile'[b] = tile[b] /\ chunk'[b] = chunk[b] /\ chunk_base'[b] = chunk_base[b]
  <2>1. CASE AcquireTile(a)
    BY <1>1, <2>1 DEF AcquireTile, Dispatch
  <2>2. CASE AcquireSlots(a)
    BY <1>1, <2>2 DEF AcquireSlots
  <2>3. CASE CommitSlot(a)
    BY <1>1, <2>3 DEF CommitSlot
  <2>4. CASE WaitChunkDone(a)
    BY <1>1, <2>4 DEF WaitChunkDone
  <2>5. CASE WaitCompute(a)
    BY <1>1, <2>5 DEF WaitCompute
  <2>6. QED
    BY <2>1, <2>2, <2>3, <2>4, <2>5 DEF TransferWarp
<1>3. QED
  BY <1>2 DEF SameBlock, Holds, Active

\* A new tile has no counts yet.
LEMMA AcquireTilePipe ==
  ASSUME CoreInv, PipeBody, GpuFrame, NEW a \in Blocks, AcquireTile(a)
  PROVE  PipeBody'
<1>1. SchedInv /\ GpuTypes /\ RingTypes /\ RingInv
  BY DEF CoreInv, SchedInv, RingInv
<1>2. /\ pc \in [Blocks -> PlaceSet] /\ tile \in [Blocks -> Nat] /\ chunk \in [Blocks -> Nat]
      /\ next_tile \in Nat
  BY <1>1 DEF GpuTypes
<1>3. /\ pc[a] = "acquire_tile" /\ next_tile' = next_tile + 1
      /\ pc'[a] \in {"acquire_slots", "exit"} /\ (pc'[a] = "acquire_slots" => next_tile < Tiles)
      /\ tile'[a] = next_tile /\ chunk'[a] = 0 /\ entries' = entries
  BY <1>2 DEF AcquireTile, Dispatch
<1>4. ~Holds(a) /\ ~Holds(a)'
  BY <1>3 DEF Holds
<1>5. \A b \in Blocks : b # a => SameBlock(b)
  BY <1>1, OtherBlocks DEF TransferWarp
<1>6. config' = config /\ Low' = Low /\ C' = C
  BY PlacesKept, SameShape DEF GpuFrame
<1>7. K \in Nat /\ C \in Nat /\ Tiles \in Nat
  BY <1>1, Shape DEF GpuTypes
<1>8. HeldInv'
  <2>1. \A b \in Blocks : Holds(b) => Holds(b)' /\ Base(b)' = Base(b)
    BY <1>4, <1>5 DEF SameBlock, Base
  <2>2. QED
    BY <1>3, <1>6, <2>1 DEF PipeBody, HeldInv, write_idx
<1>9. ASSUME Active(a)'
      PROVE  /\ tile_progress[tile'[a]] >= chunk'[a] * C
             /\ tile_progress[tile'[a]] <= chunk'[a] * C + (IF Holds(a)' THEN Part(a)' ELSE 0)
  <2>1. next_tile \in TileIds
    BY <1>2, <1>3, <1>7, <1>9 DEF Active, TileIds
  <2>2. tile_progress[next_tile] = 0
    BY <1>2, <2>1 DEF PipeBody, ProgressInv
  <2>3. chunk'[a] * C = 0
    BY <1>3, <1>7
  <2>4. QED
    BY <1>3, <1>4, <2>2, <2>3
<1>10. \A k \in Chunks : ~(k < chunk'[a])
  BY <1>3, <1>7 DEF Chunks
<1>11. next_tile' \in Nat /\ next_tile <= next_tile'
  BY <1>2, <1>3
<1>12. QED
  BY <1>4, <1>5, <1>8, <1>9, <1>10, <1>11, BlockPipe

\* A new chunk in the ring: none of it has been counted.
LEMMA AcquireSlotsPipe ==
  ASSUME CoreInv, CoreInv', PipeBody, GpuFrame, NEW a \in Blocks, AcquireSlots(a)
  PROVE  PipeBody'
<1>1. SchedInv /\ GpuTypes /\ RingTypes /\ RingInv /\ RingInv' /\ CountTypes
  BY DEF CoreInv, SchedInv, RingInv, StreamInv
<1>2. /\ pc \in [Blocks -> PlaceSet] /\ tile \in [Blocks -> Nat] /\ chunk \in [Blocks -> Nat]
      /\ next_tile \in Nat /\ chunk_base \in [Blocks -> [Chunks -> Int]]
  BY <1>1 DEF GpuTypes, RingTypes
<1>3. /\ pc[a] = "acquire_slots" /\ pc'[a] = "commit"
      /\ UNCHANGED <<next_tile, tile, chunk>>
      /\ chunk_base' = [chunk_base EXCEPT ![a][chunk[a]] = write_idx]
  BY <1>2 DEF AcquireSlots
<1>4. ~Holds(a) /\ Holds(a)' /\ Active(a) /\ Active(a)'
  BY <1>3 DEF Holds, Active
<1>5. \A b \in Blocks : b # a => SameBlock(b)
  BY <1>1, OtherBlocks DEF TransferWarp
<1>6. /\ config' = config /\ Low' = Low /\ Counted' = Counted /\ C' = C /\ Fallback' = Fallback
      /\ tile_progress' = tile_progress /\ chunk_done' = chunk_done
  BY PlacesKept, SameShape DEF GpuFrame
<1>7. /\ C \in Nat /\ C > 0 /\ K \in Nat /\ chunk[a] \in Nat /\ chunk[a] \in Chunks
      /\ tile[a] \in TileIds
  <2>1. C \in Nat /\ C > 0 /\ K \in Nat
    BY <1>1, Shape DEF GpuTypes
  <2>2. chunk[a] \in Nat /\ chunk[a] < K /\ tile[a] \in TileIds
    BY <1>1, <1>2, <1>3, <1>4 DEF SchedInv, BlockOK
  <2>3. QED
    BY <2>1, <2>2 DEF Chunks
<1>8. /\ Base(a)' = write_idx
      /\ \A k \in Chunks : k # chunk[a] => chunk_base'[a][k] = chunk_base[a][k]
  BY <1>2, <1>3, <1>7 DEF Base
<1>9. /\ write_idx \in Nat /\ Low \in Nat /\ Counted \in Nat /\ Counted <= write_idx
      /\ Low <= Counted
  BY <1>1, CountPlaces DEF PlacesOK
<1>10. write_idx' = write_idx + C
  BY <1>1, RingGrows
<1>11. HeldInv'
  <2>1. ASSUME NEW s \in Low..(write_idx + C - 1)
        PROVE  \E b \in Blocks : Holds(b)' /\ s \in Base(b)'..(Base(b)' + C - 1)
    <3>1. CASE s < write_idx
      <4>1. s \in Low..(write_idx - 1)
        BY <1>7, <1>9, <3>1
      <4>2. PICK b \in Blocks : Holds(b) /\ s \in Base(b)..(Base(b) + C - 1)
        BY <4>1 DEF PipeBody, HeldInv
      <4>3. b # a
        BY <1>4, <4>2
      <4>4. Holds(b)' /\ Base(b)' = Base(b)
        BY <1>5, <4>2, <4>3 DEF SameBlock, Base
      <4>5. QED
        BY <4>2, <4>4
    <3>2. CASE s >= write_idx
      <4>1. s \in write_idx..(write_idx + C - 1)
        BY <1>7, <1>9, <3>2
      <4>2. QED
        BY <1>4, <1>8, <4>1
    <3>3. QED
      BY <1>7, <1>9, <3>1, <3>2
  <2>2. Low'..(write_idx' - 1) = Low..(write_idx + C - 1)
    <3>1. write_idx' - 1 = write_idx + C - 1
      BY <1>7, <1>9, <1>10
    <3>2. QED
      BY <1>6, <3>1
  <2>3. QED
    BY <1>6, <2>1, <2>2 DEF HeldInv
<1>12. /\ tile_progress[tile[a]] >= chunk[a] * C
       /\ tile_progress[tile[a]] <= chunk[a] * C
  <2>1. /\ tile_progress[tile[a]] >= chunk[a] * C
        /\ tile_progress[tile[a]] <= chunk[a] * C + 0
    BY <1>4 DEF PipeBody, ProgressInv
  <2>2. QED
    BY <1>7, <2>1
<1>13. Part(a)' = 0
  BY <1>6, <1>7, <1>8, <1>9 DEF Part
<1>14. ~Arrived(a)'
  <2>1. chunk_done[tile[a]] <= tile_progress[tile[a]]
    BY <1>7 DEF PipeBody, ValueInv
  <2>2. chunk_done[tile[a]] \in Nat /\ tile_progress[tile[a]] \in Nat
    BY <1>1, <1>7 DEF CountTypes
  <2>3. PICK y \in Nat : y = chunk[a] * C
    BY <1>7
  <2>4. (chunk[a] + 1) * C = y + C
    BY <1>7, <2>3
  <2>5. ~(chunk_done[tile[a]] >= y + C)
    BY <1>7, <1>12, <2>1, <2>2, <2>3
  <2>6. QED
    BY <1>3, <1>6, <2>4, <2>5 DEF Arrived
<1>15. ASSUME Strict, NEW k \in Chunks, k < chunk'[a]
       PROVE  chunk_base'[a][k]..(chunk_base'[a][k] + C - 1) \subseteq landed
  <2>1. k < chunk[a] /\ k # chunk[a]
    BY <1>3, <1>7, <1>15 DEF Chunks
  <2>2. QED
    BY <1>4, <1>8, <1>15, <2>1 DEF PipeBody, ReadyInv
<1>16. next_tile' \in Nat /\ next_tile <= next_tile'
  BY <1>2, <1>3
<1>17. /\ tile_progress[tile'[a]] >= chunk'[a] * C
       /\ tile_progress[tile'[a]] <= chunk'[a] * C + (IF Holds(a)' THEN Part(a)' ELSE 0)
  BY <1>3, <1>7, <1>12, <1>13
<1>18. QED
  BY <1>4, <1>5, <1>11, <1>14, <1>15, <1>16, <1>17, BlockPipe

\* The count a block waits for has arrived: its chunk is ready.
LEMMA WaitChunkDonePipe ==
  ASSUME CoreInv, PipeBody, GpuFrame, NEW a \in Blocks, WaitChunkDone(a)
  PROVE  PipeBody'
<1>1. SchedInv /\ GpuTypes /\ RingTypes /\ RingInv /\ CountTypes
  BY DEF CoreInv, SchedInv, RingInv, StreamInv
<1>2. /\ pc \in [Blocks -> PlaceSet] /\ chunk \in [Blocks -> Nat] /\ next_tile \in Nat
  BY <1>1 DEF GpuTypes
<1>3. /\ pc[a] = "wait" /\ pc'[a] \in {"acquire_slots", "wait_compute"} /\ chunk'[a] = chunk[a] + 1
      /\ chunk_done[tile[a]] >= (chunk[a] + 1) * C
      /\ UNCHANGED <<next_tile, tile, chunk_base, entries>>
  BY <1>2 DEF WaitChunkDone, ChunkDone
<1>4. Holds(a) /\ ~Holds(a)' /\ Arrived(a) /\ Active(a)
  BY <1>3 DEF Holds, Active, Arrived
<1>5. \A b \in Blocks : b # a => SameBlock(b)
  BY <1>1, OtherBlocks DEF TransferWarp
<1>6. config' = config /\ Low' = Low /\ C' = C
  BY PlacesKept, SameShape DEF GpuFrame
<1>7. /\ C \in Nat /\ C > 0 /\ K \in Nat /\ chunk[a] \in Nat /\ chunk[a] \in Chunks
      /\ tile[a] \in TileIds /\ Base(a) \in Nat
  BY <1>1, <1>4, HolderFacts
<1>8. Low \in Nat /\ write_idx \in Nat
  BY <1>1, CountPlaces DEF PlacesOK
<1>9. /\ Base(a) + C <= Low
      /\ Strict => Base(a)..(Base(a) + C - 1) \subseteq landed
  BY <1>4 DEF PipeBody, ArrivedInv
<1>10. HeldInv'
  <2>1. ASSUME NEW s \in Low..(write_idx - 1)
        PROVE  \E b \in Blocks : Holds(b)' /\ s \in Base(b)'..(Base(b)' + C - 1)
    <3>1. PICK b \in Blocks : Holds(b) /\ s \in Base(b)..(Base(b) + C - 1)
      BY DEF PipeBody, HeldInv
    <3>2. b # a
      BY <1>7, <1>8, <1>9, <3>1
    <3>3. Holds(b)' /\ Base(b)' = Base(b)
      BY <1>5, <3>1, <3>2 DEF SameBlock, Base
    <3>4. QED
      BY <3>1, <3>3
  <2>2. QED
    BY <1>3, <1>6, <2>1 DEF HeldInv, write_idx
<1>11. /\ tile_progress[tile'[a]] >= chunk'[a] * C
       /\ tile_progress[tile'[a]] <= chunk'[a] * C + (IF Holds(a)' THEN Part(a)' ELSE 0)
  <2>1. PICK y \in Nat : y = chunk[a] * C
    BY <1>7
  <2>2. (chunk[a] + 1) * C = y + C
    BY <1>7, <2>1
  <2>3. chunk_done[tile[a]] \in Nat /\ tile_progress[tile[a]] \in Nat
    BY <1>1, <1>7 DEF CountTypes
  <2>4. chunk_done[tile[a]] <= tile_progress[tile[a]]
    BY <1>7 DEF PipeBody, ValueInv
  <2>5. tile_progress[tile[a]] <= y + Part(a)
    BY <1>4, <2>1 DEF PipeBody, ProgressInv
  <2>6. Part(a) \in Nat /\ Part(a) <= C
    <3>1. Counted \in Nat
      BY <1>1, CountPlaces DEF PlacesOK
    <3>2. QED
      BY <1>7, <3>1 DEF Part
  <2>7. tile_progress[tile[a]] >= y + C /\ tile_progress[tile[a]] <= y + C + 0
    BY <1>3, <1>7, <2>1, <2>2, <2>3, <2>4, <2>5, <2>6
  <2>8. tile'[a] = tile[a] /\ chunk'[a] * C = y + C
    BY <1>3, <2>2
  <2>9. QED
    BY <1>4, <2>7, <2>8
<1>12. ASSUME Strict, NEW k \in Chunks, k < chunk'[a]
       PROVE  chunk_base'[a][k]..(chunk_base'[a][k] + C - 1) \subseteq landed
  <2>1. k < chunk[a] \/ k = chunk[a]
    BY <1>3, <1>7, <1>12 DEF Chunks
  <2>2. CASE k < chunk[a]
    BY <1>3, <1>4, <1>12, <2>2 DEF PipeBody, ReadyInv
  <2>3. CASE k = chunk[a]
    BY <1>3, <1>9, <1>12, <2>3 DEF Base
  <2>4. QED
    BY <2>1, <2>2, <2>3
<1>13. next_tile' \in Nat /\ next_tile <= next_tile'
  BY <1>2, <1>3
<1>14. QED
  BY <1>4, <1>5, <1>10, <1>11, <1>12, <1>13, BlockPipe

-----------------------------------------------------------------------------
(* The pipeline: launches, and the invariant *)

\* Without a block that waits nothing is left to signal: the next launch
\* starts from scratch.
LEMMA RelaunchPipe ==
  ASSUME CoreInv, CoreInv', NoLateSignal', [Next]_vars, PipeBody, Relaunch
  PROVE  PipeBody'
<1>1. SchedInv /\ RingInv /\ RingInv' /\ FlightInv /\ CountTypes /\ SignalTypes /\ EventTypes /\ HostInv
  BY DEF CoreInv, StreamInv, SchedInv
<1>2. /\ host = "stopping" /\ poll_pc = "poll" /\ batch = <<>> /\ launches' = launches + 1
      /\ UNCHANGED <<config, entries, poll_pc, batch, read_idx, split, eventVars, chan, signals, landed>>
      /\ has_async_dma => WaitCompletion
      /\ chunk_done' = [t \in TileIds |-> 0] /\ tile_progress' = [t \in TileIds |-> 0]
      /\ next_tile' = 0 /\ pc' = [b \in Blocks |-> "acquire_tile"]
  BY DEF Relaunch, ClearedCounts
<1>3. \A b \in Blocks : ~Holds(b) /\ ~Active(b) /\ ~Holds(b)' /\ ~Active(b)'
  BY <1>1, <1>2 DEF HostInv, Holds, Active
<1>4. C' = C /\ K' = K /\ TileIds' = TileIds /\ K \in Nat /\ C \in Nat
  BY <1>1, <1>2, SameShape, Shape DEF SchedInv, GpuTypes
<1>5. /\ Low' = Low /\ write_idx' = write_idx
  BY <1>2 DEF Low, Strict, Fallback, First, Counted, write_idx
<1>6. HeldInv'
  BY <1>3, <1>4, <1>5 DEF PipeBody, HeldInv
<1>7. ProgressInv'
  <2>1. K * C \in Nat
    BY <1>4
  <2>2. \A t \in TileIds : tile_progress'[t] = 0 /\ 0 <= K * C
    BY <1>2, <2>1
  <2>3. QED
    BY <1>3, <1>4, <2>2 DEF ProgressInv
<1>8. ArrivedInv' /\ ReadyInv'
  BY <1>3 DEF ArrivedInv, ReadyInv
<1>9. tile_events_inflight = 0
  <2>1. tile_events_inflight \in Nat /\ ~(0 \in Waiting)
    BY <1>1, <1>3 DEF PipeBody, EventInv, Awaits, EventTypes
  <2>2. QED
    BY <2>1 DEF Waiting
<1>10. EventInv'
  <2>1. tile_events_inflight' = 0
    BY <1>2, <1>9 DEF eventVars
  <2>2. Waiting' = {}
    BY <2>1 DEF Waiting
  <2>3. QED
    BY <2>2 DEF EventInv
<1>11. Len(signals) = 0
  <2>1. CASE config.path # "device"
    BY <1>1, <2>1, EmptySeq DEF FlightInv, PathInv
  <2>2. CASE config.path = "device"
    <3>1. ~split
      <4>1. launches' > 1
        <5>1. launches \in Nat /\ launches >= 1
          BY <1>1 DEF HostInv
        <5>2. QED
          BY <1>2, <5>1
      <4>2. QED
        BY <1>2, <2>2, <4>1 DEF NoLateSignal
    <3>2. SUFFICES ASSUME Len(signals) # 0 PROVE FALSE
      OBVIOUS
    <3>3. 1 \in 1..Len(signals)
      BY <1>1, <3>2, LenProperties DEF SignalTypes
    <3>4. PICK t : t \in signals[1].tiles
      BY <2>2, <3>1, <3>3 DEF PipeBody, SignalInv
    <3>5. QED
      BY <1>3, <2>2, <3>1, <3>3, <3>4 DEF PipeBody, SignalInv, Awaits
  <2>3. QED
    BY <2>1, <2>2
<1>12. \A c \in ChanIds : \A p \in 1..Len(chan[c]) : chan[c][p].tiles = {}
  <2>1. CASE config.path # "host"
    BY <1>1, <2>1 DEF FlightInv, PathInv
  <2>2. CASE config.path = "host"
    <3>1. \A c \in ChanIds : chan[c] = <<>>
      <4>1. CASE has_async_dma
        BY <1>1, <1>2, <4>1, AllCopied
      <4>2. CASE ~has_async_dma
        BY <1>1, <1>2, <2>2, <4>2 DEF FlightInv, PathInv
      <4>3. QED
        BY <4>1, <4>2
    <3>2. QED
      BY <3>1, EmptySeq
  <2>3. QED
    BY <2>1, <2>2
<1>13. ValueInv'
  <2>1. \A t : ~Signalled(t)'
    BY <1>2, <1>11, <1>12 DEF Signalled
  <2>2. QED
    BY <1>2, <1>4, <2>1 DEF ValueInv
<1>14. SignalInv'
  BY <1>2, <1>11 DEF SignalInv
<1>15. QED
  BY <1>6, <1>7, <1>8, <1>10, <1>13, <1>14 DEF PipeBody

\* Every step keeps the pipeline in order.
LEMMA StepPipe ==
  ASSUME CoreInv, CoreInv', NoLateSignal', PipeBody, [Next]_vars
  PROVE  PipeBody'
<1>1. CASE HostStep
  BY <1>1, HostPipe
<1>2. CASE Relaunch
  BY <1>2, RelaunchPipe
<1>3. CASE (\E b \in Blocks : TransferWarp(b)) \/ (\E b \in Blocks, k \in Chunks : ComputeWarp(b, k))
  <2>1. GpuFrame
    BY <1>3, GpuStepFrame DEF GpuFrame, hostVars
  <2>2. pc \in [Blocks -> PlaceSet]
    BY DEF CoreInv, SchedInv, GpuTypes
  <2>3. CASE \E b \in Blocks : AcquireTile(b) \/ AcquireSlots(b) \/ WaitChunkDone(b)
    BY <2>1, <2>3, AcquireTilePipe, AcquireSlotsPipe, WaitChunkDonePipe
  <2>4. CASE \E b \in Blocks : CommitSlot(b)
    <3>1. PICK a \in Blocks : CommitSlot(a)
      BY <2>4
    <3>2. /\ UNCHANGED <<entries, next_tile, tile, chunk, chunk_base>>
          /\ pc[a] = "commit" /\ pc'[a] \in {"wait", "commit"} /\ \A b \in Blocks : b # a => pc'[b] = pc[b]
      BY <2>2, <3>1 DEF CommitSlot
    <3>3. \A b \in Blocks : (Holds(b)' <=> Holds(b)) /\ (Active(b)' => Active(b))
      BY <3>2 DEF Holds, Active
    <3>4. QED
      BY <2>1, <3>2, <3>3, QuietBlocks
  <2>5. CASE \E b \in Blocks : WaitCompute(b)
    <3>1. PICK a \in Blocks : WaitCompute(a)
      BY <2>5
    <3>2. /\ UNCHANGED <<entries, next_tile, tile, chunk, chunk_base>>
          /\ pc[a] = "wait_compute" /\ pc'[a] = "acquire_tile" /\ \A b \in Blocks : b # a => pc'[b] = pc[b]
      BY <2>2, <3>1 DEF WaitCompute
    <3>3. \A b \in Blocks : (Holds(b)' <=> Holds(b)) /\ (Active(b)' => Active(b))
      BY <3>2 DEF Holds, Active
    <3>4. QED
      BY <2>1, <3>2, <3>3, QuietBlocks
  <2>6. CASE \E b \in Blocks, k \in Chunks : ComputeWarp(b, k)
    <3>1. UNCHANGED <<entries, next_tile, tile, chunk, chunk_base, pc>>
      BY <2>6 DEF ComputeWarp, StartCompute, FinishCompute
    <3>2. \A b \in Blocks : (Holds(b)' <=> Holds(b)) /\ (Active(b)' => Active(b))
      BY <3>1 DEF Holds, Active
    <3>3. QED
      BY <2>1, <3>1, <3>2, QuietBlocks
  <2>7. QED
    BY <1>3, <2>3, <2>4, <2>5, <2>6 DEF TransferWarp
<1>4. CASE DeviceSynchronize \/ UNCHANGED vars
  <2>1. GpuFrame /\ UNCHANGED <<entries, next_tile, tile, chunk, chunk_base, pc>>
    BY <1>4 DEF DeviceSynchronize, GpuFrame, vars, hostVars, gpuVars
  <2>2. \A b \in Blocks : (Holds(b)' <=> Holds(b)) /\ (Active(b)' => Active(b))
    BY <2>1 DEF Holds, Active
  <2>3. QED
    BY <2>1, <2>2, QuietBlocks
<1>5. QED
  BY <1>1, <1>2, <1>3, <1>4 DEF Next, HostStep, Finished, Hangs

\* Nothing has been counted at the start.
LEMMA InitPipe ==
  ASSUME Init
  PROVE  PipeBody
<1>1. /\ config \in Sessions /\ chan = [c \in ChanIds |-> <<>>] /\ signals = <<>> /\ entries = <<>>
      /\ batch = <<>> /\ read_idx = 0 /\ poll_pc = "poll" /\ tile_events_inflight = 0
      /\ pc = [b \in Blocks |-> "acquire_tile"]
      /\ tile_progress = [t \in TileIds |-> 0] /\ chunk_done = [t \in TileIds |-> 0]
  BY DEF Init
<1>2. Len(<<>>) = 0
  BY EmptySeq
<1>3. \A b \in Blocks : ~Holds(b) /\ ~Active(b)
  BY <1>1 DEF Holds, Active
<1>4. write_idx = 0 /\ First = 0
  <2>1. Len(entries) = 0 /\ Len(batch) = 0 /\ read_idx = 0
    BY <1>1, <1>2
  <2>2. QED
    BY <2>1 DEF write_idx, First
<1>5. HeldInv
  <2>1. Low = 0
    BY <1>1, <1>4 DEF Low, Counted
  <2>2. Low..(write_idx - 1) = {}
    BY <1>4, <2>1
  <2>3. QED
    BY <2>2 DEF HeldInv
<1>6. ProgressInv
  <2>1. K \in Nat /\ C \in Nat
    BY <1>1, Shape
  <2>2. K * C \in Nat
    BY <2>1
  <2>3. QED
    BY <1>1, <1>3, <2>2 DEF ProgressInv
<1>7. ValueInv
  <2>1. \A t : ~Signalled(t)
    BY <1>1, <1>2 DEF Signalled
  <2>2. QED
    BY <1>1, <2>1 DEF ValueInv
<1>8. ArrivedInv /\ ReadyInv
  BY <1>3 DEF ArrivedInv, ReadyInv
<1>9. SignalInv
  BY <1>1, <1>2 DEF SignalInv
<1>10. EventInv
  <2>1. Waiting = {}
    BY <1>1 DEF Waiting
  <2>2. QED
    BY <2>1 DEF EventInv
<1>11. QED
  BY <1>5, <1>6, <1>7, <1>8, <1>9, <1>10 DEF PipeBody

\* Every reachable state satisfies the invariant of the pipeline.
LEMMA PipeInvariant == Spec => []PipeInv
<1>1. Init => PipeInv
  BY InitPipe DEF PipeInv
<1>2. CoreInv /\ CoreInv' /\ PipeInv /\ [Next]_vars => PipeInv'
  <2>1. SUFFICES ASSUME CoreInv, CoreInv', PipeInv, [Next]_vars, NoLateSignal'
                 PROVE  PipeBody'
    BY DEF PipeInv
  <2>2. NoLateSignal
    BY <2>1, HistoryKept DEF CoreInv
  <2>3. PipeBody
    BY <2>1, <2>2 DEF PipeInv
  <2>4. QED
    BY <2>1, <2>3, StepPipe
<1>3. SchedInv /\ RingInv /\ StreamInv => CoreInv
  BY DEF CoreInv
<1>4. QED
  BY <1>1, <1>2, <1>3, SchedInvariant, RingInvariant, StreamInvariant, PTL DEF Spec

-----------------------------------------------------------------------------
(* The pipeline: what it guarantees *)

\* "Data is guaranteed to be available" (warp_spec.cuh) for every number of
\* blocks, channels, chunks and tokens: a compute warp works on a chunk only
\* when every token of it is in GPU memory, if no chunk was cut.
THEOREM DataIsThere == Spec => []DataAvailableUnsplit
<1>1. SchedInv /\ RingInv /\ PipeInv => DataAvailableUnsplit
  <2>1. SUFFICES ASSUME SchedInv, RingInv, PipeInv, config.path # "host",
                        config.path = "device" => ~split,
                        NEW b \in Blocks, NEW k \in Chunks, warp[b][k] = "compute",
                        NEW i \in 0..(C - 1)
                 PROVE  chunk_base[b][k] + i \in landed
    BY DEF DataAvailableUnsplit, DataAvailable
  <2>2. config.path \in Paths /\ C \in Nat
    BY <2>1, Shape DEF SchedInv, GpuTypes
  <2>3. Strict
    BY <2>1, <2>2 DEF Paths, Strict, Fallback
  <2>4. ReadyInv
    BY <2>1 DEF NoLateSignal, PipeInv, PipeBody
  <2>5. BlockOK(b)
    BY <2>1 DEF SchedInv
  <2>6. Active(b)
    BY <2>1, <2>5 DEF BlockOK, Through
  <2>7. k < chunk[b]
    BY <2>1, <2>5, <2>6 DEF BlockOK
  <2>8. chunk_base[b][k] \in Int
    BY <2>1 DEF RingInv, RingTypes
  <2>9. chunk_base[b][k] + i \in chunk_base[b][k]..(chunk_base[b][k] + C - 1)
    BY <2>2, <2>8
  <2>10. QED
    BY <2>3, <2>4, <2>6, <2>7, <2>9 DEF ReadyInv
<1>2. QED
  BY <1>1, SchedInvariant, RingInvariant, PipeInvariant, PTL

\* What the GPU polls never exceeds what was counted in this launch (reset and
\* flush_batch), for every session.
THEOREM CountsAreOfThisLaunch == Spec => []CountsOfThisLaunch
<1>1. PipeInv => CountsOfThisLaunch
  BY DEF PipeInv, PipeBody, ValueInv, ProgressInv, CountsOfThisLaunch
<1>2. QED
  BY <1>1, PipeInvariant, PTL

\* When the kernel has ended, stop() finds nothing to drain, for every session.
THEOREM StopFindsNothing == Spec => []NothingToDrain
<1>1. CoreInv /\ PipeInv => NothingToDrain
  <2>1. SUFFICES ASSUME CoreInv, PipeInv, NoLateSignal, \A b \in Blocks : pc[b] = "exit"
                 PROVE  /\ read_idx = write_idx /\ poll_pc # "flush"
                        /\ tile_events_inflight = 0
    BY DEF NothingToDrain
  <2>2. HeldInv /\ EventInv
    BY <2>1 DEF PipeInv, PipeBody
  <2>3. \A b \in Blocks : ~Holds(b)
    BY <2>1 DEF Holds
  <2>4. /\ Low \in Nat /\ write_idx \in Nat /\ read_idx \in Nat /\ First \in Nat
        /\ Low <= read_idx /\ read_idx <= write_idx
        /\ poll_pc = "flush" => Low = First
    BY <2>1, CountPlaces DEF CoreInv, PlacesOK
  <2>5. ~(Low \in Low..(write_idx - 1))
    BY <2>2, <2>3 DEF HeldInv
  <2>6. Low = write_idx /\ read_idx = write_idx
    BY <2>4, <2>5
  <2>7. poll_pc # "flush"
    <3>1. SUFFICES ASSUME poll_pc = "flush" PROVE FALSE
      OBVIOUS
    <3>2. batch # <<>> /\ batch \in Seq(BatchEntry)
      BY <2>1, <3>1 DEF CoreInv, RingInv, BatchInv, RingTypes
    <3>3. Len(batch) > 0 /\ Len(batch) \in Nat
      BY <3>2, EmptySeq, LenProperties
    <3>4. First < read_idx
      BY <2>4, <3>3 DEF First
    <3>5. QED
      BY <2>4, <2>6, <3>1, <3>4
  <2>8. tile_events_inflight = 0
    <3>1. tile_events_inflight \in Nat
      BY <2>1 DEF CoreInv, StreamInv, EventTypes
    <3>2. ~(0 \in Waiting)
      BY <2>2, <2>3 DEF EventInv, Awaits
    <3>3. QED
      BY <3>1, <3>2 DEF Waiting
  <2>9. QED
    BY <2>6, <2>7, <2>8
<1>2. SchedInv /\ RingInv /\ StreamInv => CoreInv
  BY DEF CoreInv
<1>3. QED
  BY <1>1, <1>2, SchedInvariant, RingInvariant, StreamInvariant, PipeInvariant, PTL

-----------------------------------------------------------------------------
(* done_idx: every slot below it has been copied *)

\* What has been copied stays.
LEMMA LandedGrows ==
  ASSUME [Next]_vars
  PROVE  landed \subseteq landed'
<1>1. CASE (\E b \in Blocks : TransferWarp(b)) \/ (\E b \in Blocks, k \in Chunks : ComputeWarp(b, k))
  BY <1>1, GpuStepFrame
<1>2. CASE Poller
  BY <1>2 DEF Poller, PollEntry, GapTimeout, UpdateProgress, SubmitData, SubmitSignal,
       ProcessBatch, DeferTileEvent, StartEventPoll, PollTileEvent, LeaveEventPoll,
       CopyNoCe, PublishNoCe, StartIdleWait, FinishIdleWait
<1>3. CASE (\E c \in ChanIds : CopyCompletes(c)) \/ SignalCompletes \/ DeviceSynchronize \/ Relaunch
  BY <1>3 DEF CopyCompletes, SignalCompletes, DeviceSynchronize, Relaunch
<1>4. CASE UNCHANGED vars
  BY <1>4 DEF vars
<1>5. QED
  BY <1>1, <1>2, <1>3, <1>4 DEF Next, Finished, Hangs

\* done_idx moves only to a place all of whose copies are done.
LEMMA StepDone ==
  ASSUME CoreInv, CoverInv, DoneIdxLanded, [Next]_vars
  PROVE  DoneIdxLanded'
<1>1. config' = config /\ (split => split') /\ landed \subseteq landed'
  BY ConfigFixed, HistoryKept, LandedGrows DEF CoreInv
<1>2. RingInv /\ FlightInv /\ FlightTypes /\ EventTypes
  BY DEF CoreInv, StreamInv, FlightInv
<1>3. /\ First \in Nat /\ read_idx \in Nat /\ Submitted \in Nat /\ First <= Submitted
      /\ done_idx \in Nat /\ latest_async_read \in Nat /\ latest_async_read <= First
  BY <1>2, BatchRun DEF FlightTypes
<1>4. SUFFICES ASSUME config.path = "deferred" => ~split, NEW s \in 0..(done_idx' - 1)
               PROVE  s \in landed'
  BY <1>1 DEF DoneIdxLanded
<1>5. \A n \in 0..(done_idx - 1) : n \in landed'
  BY <1>1, <1>4 DEF DoneIdxLanded
<1>6. CASE done_idx' = done_idx
  BY <1>4, <1>5, <1>6
<1>7. ASSUME WaitCompletion, done_idx' = latest_async_read
      PROVE  s \in landed'
  <2>1. s \in 0..(Submitted - 1)
    BY <1>3, <1>4, <1>7
  <2>2. QED
    BY <1>1, <1>2, <1>7, <2>1, AllCopied
<1>8. CASE FinishIdleWait \/ Relaunch
  BY <1>6, <1>7, <1>8 DEF FinishIdleWait, Relaunch
<1>9. CASE PublishNoCe
  <2>1. poll_pc = "publish" /\ done_idx' = read_idx
    BY <1>9 DEF PublishNoCe
  <2>2. Submitted = read_idx /\ \A c \in ChanIds : chan[c] = <<>>
    BY <1>2, <2>1 DEF Submitted, Handed, FlightInv, PathInv
  <2>3. s \in landed \/ Queued(s)
    BY <1>2, <1>4, <2>1, <2>2 DEF FlightInv, HandedInv
  <2>4. ~Queued(s)
    BY <2>2, EmptySeq DEF Queued, InCopies
  <2>5. QED
    BY <1>1, <2>3, <2>4
<1>10. CASE PollTileEvent
  <2>1. /\ poll_pc = "events" /\ tile_events[tile_event_tail].before = 0
        /\ \/ done_idx' = done_idx
           \/ done_idx' = tile_events[tile_event_tail].done_value
    BY <1>10 DEF PollTileEvent, TailEventDone
  <2>2. /\ config.path = "deferred" /\ tile_events_inflight > 0
        /\ tile_events_inflight \in Nat /\ tile_event_tail \in EventSlots
    BY <1>2, <2>1 DEF FlightInv, PathInv, EventTypes
  <2>3. EventSlot(0) = tile_event_tail /\ 0 \in Waiting
    BY <2>2, EventPlaces DEF EventSlot, Waiting
  <2>4. Event(0).before = 0 /\ Event(0).done_value = tile_events[tile_event_tail].done_value
    BY <2>1, <2>3 DEF Event
  <2>5. CASE done_idx' = Event(0).done_value
    <3>1. CoveredBy(s, 0 + 1)
      BY <1>4, <2>2, <2>3, <2>5 DEF CoverInv
    <3>2. \A i \in 0..(0 + 1 - 1) : i = 0
      OBVIOUS
    <3>3. s \in landed
      BY <2>4, <3>1, <3>2 DEF CoveredBy, InCopies
    <3>4. QED
      BY <1>1, <3>3
  <2>6. QED
    BY <1>6, <2>1, <2>4, <2>5
<1>11. CASE ~FinishIdleWait /\ ~Relaunch /\ ~PublishNoCe /\ ~PollTileEvent
  <2>1. done_idx' = done_idx
    <3>1. CASE (\E b \in Blocks : TransferWarp(b)) \/ (\E b \in Blocks, k \in Chunks : ComputeWarp(b, k))
      BY <3>1, GpuStepFrame DEF pollerVars
    <3>2. CASE Poller
      BY <1>11, <3>2 DEF Poller, PollEntry, GapTimeout, UpdateProgress, SubmitData, SubmitSignal,
         ProcessBatch, DeferTileEvent, StartEventPoll, LeaveEventPoll, CopyNoCe, StartIdleWait
    <3>3. CASE (\E c \in ChanIds : CopyCompletes(c)) \/ SignalCompletes \/ DeviceSynchronize
               \/ UNCHANGED vars
      BY <3>3 DEF CopyCompletes, SignalCompletes, DeviceSynchronize, vars, pollerVars
    <3>4. QED
      BY <1>11, <3>1, <3>2, <3>3 DEF Next, Finished, Hangs
  <2>2. QED
    BY <1>6, <2>1
<1>12. QED
  BY <1>8, <1>9, <1>10, <1>11

\* A step that keeps copies and events in place keeps what covers a slot.
LEMMA CoverKept ==
  ASSUME config' = config, split => split', CopiesKept, First' = First, EventTypes, FlightTypes,
         UNCHANGED <<tile_events, tile_event_tail, tile_events_inflight>>, CoverInv
  PROVE  CoverInv'
<1>1. SUFFICES ASSUME config.path = "deferred", ~split
               PROVE  CoverInv'
  BY DEF CoverInv
<1>2. Waiting' = Waiting /\ Waiting \subseteq Nat /\ \A j \in Nat : Event(j)' = Event(j)
  BY DEF Waiting, Event, EventSlot, EventTypes
<1>3. ASSUME NEW s, NEW n \in Nat, CoveredBy(s, n)
      PROVE  CoveredBy(s, n)'
  <2>1. CASE s \in landed
    BY <2>1 DEF CopiesKept, CoveredBy
  <2>2. ASSUME NEW i \in 0..(n - 1), InCopies(chan[Event(i).ch], s, Event(i).before)
        PROVE  InCopies(chan'[Event(i)'.ch], s, Event(i)'.before)
    <3>1. /\ i \in Nat
      OBVIOUS
    <3>2. Event(i).ch \in ChanIds /\ Event(i).before \in 0..Len(chan[Event(i).ch])
      BY <3>1, EventFacts
    <3>3. QED
      BY <1>2, <2>2, <3>1, <3>2 DEF CopiesKept
  <2>3. QED
    BY <1>3, <2>1, <2>2 DEF CoveredBy
<1>4. tile_events_inflight \in Nat
  BY DEF EventTypes
<1>5. \A s \in 0..(First' - 1) : CoveredBy(s, tile_events_inflight)'
  <2>1. \A s \in 0..(First - 1) : CoveredBy(s, tile_events_inflight)
    BY <1>1 DEF CoverInv
  <2>2. PICK n \in Nat : n = tile_events_inflight
    BY <1>4
  <2>3. \A s \in 0..(First - 1) : CoveredBy(s, n)'
    BY <1>3, <2>1, <2>2
  <2>4. QED
    BY <2>2, <2>3 DEF CoveredBy
<1>6. \A j \in Waiting' : \A s \in 0..(Event(j)'.done_value - 1) : CoveredBy(s, j + 1)'
  BY <1>1, <1>2, <1>3 DEF CoverInv
<1>7. QED
  BY <1>5, <1>6 DEF CoverInv

\* A new event covers the batch that was handed over before it.
LEMMA DeferCover ==
  ASSUME CoreInv, PipeBody, CoverInv, DeferTileEvent, config' = config, split => split'
  PROVE  CoverInv'
<1>1. SUFFICES ASSUME config.path = "deferred", ~split
               PROVE  CoverInv'
  BY DEF CoverInv
<1>2. /\ poll_pc = "event" /\ poll_pc' = "poll" /\ batch' = <<>>
      /\ tile_events_inflight' = tile_events_inflight + 1
      /\ UNCHANGED <<read_idx, chan, landed>>
  BY DEF DeferTileEvent, Flushed
<1>3. RingInv /\ LastInv
  BY DEF CoreInv, StreamInv, FlightInv
<1>4. First' = read_idx /\ First \in Nat /\ read_idx \in Nat
  BY <1>2, <1>3, FlushedFacts, BatchRun
<1>5. PICK m : m = tile_events_inflight
  OBVIOUS
<1>6. /\ m \in Nat /\ Waiting \subseteq Nat
      /\ \A j \in Waiting' : j \in Waiting \/ j = m
      /\ \A j \in Waiting : Event(j)' = Event(j)
      /\ Event(m)'.ch = LastStream /\ Event(m)'.before = Len(chan[LastStream])
      /\ Event(m)'.done_value = read_idx
  BY <1>5, DeferPlaces
<1>7. \A n \in 0..m : \A i \in 0..(n - 1) : i \in Waiting /\ i \in 0..((n + 1) - 1)
  BY <1>5, <1>6 DEF Waiting
<1>8. ASSUME NEW s, NEW n \in 0..m, CoveredBy(s, n)
      PROVE  CoveredBy(s, n)'
  BY <1>2, <1>6, <1>7, <1>8 DEF CoveredBy
<1>9. ASSUME NEW s \in 0..(read_idx - 1)
      PROVE  CoveredBy(s, m + 1)'
  <2>1. CASE s < First
    <3>1. CoveredBy(s, m)
      BY <1>1, <1>4, <1>5, <2>1 DEF CoverInv
    <3>2. CoveredBy(s, m)'
      BY <1>6, <1>8, <3>1
    <3>3. \A i \in 0..(m - 1) : i \in 0..((m + 1) - 1)
      BY <1>6
    <3>4. QED
      BY <3>2, <3>3 DEF CoveredBy
  <2>2. CASE s >= First
    <3>1. s \in First..(read_idx - 1)
      BY <1>4, <2>2
    <3>2. s \in landed \/ InCopies(chan[LastStream], s, Len(chan[LastStream]))
      BY <1>2, <1>3, <3>1 DEF LastInv
    <3>3. m \in 0..((m + 1) - 1)
      BY <1>6
    <3>4. QED
      BY <1>2, <1>6, <3>2, <3>3 DEF CoveredBy
  <2>3. QED
    BY <1>4, <2>1, <2>2
<1>10. \A s \in 0..(First' - 1) : CoveredBy(s, tile_events_inflight)'
  <2>1. tile_events_inflight' = m + 1
    BY <1>2, <1>5
  <2>2. QED
    BY <1>4, <1>9, <2>1 DEF CoveredBy
<1>11. ASSUME NEW j \in Waiting', NEW s \in 0..(Event(j)'.done_value - 1)
       PROVE  CoveredBy(s, j + 1)'
  <2>1. CASE j = m
    BY <1>6, <1>9, <2>1
  <2>2. CASE j \in Waiting
    <3>1. Event(j)' = Event(j) /\ j + 1 \in 0..m
      BY <1>5, <1>6, <2>2 DEF Waiting
    <3>2. CoveredBy(s, j + 1)
      BY <1>1, <2>2, <3>1 DEF CoverInv
    <3>3. QED
      BY <1>8, <3>1, <3>2
  <2>3. QED
    BY <1>6, <2>1, <2>2
<1>12. QED
  BY <1>10, <1>11 DEF CoverInv

\* An event that is done covers nothing that is not copied.
LEMMA PollCover ==
  ASSUME CoreInv, CoverInv, PollTileEvent, config' = config
  PROVE  CoverInv'
<1>1. /\ poll_pc = "events" /\ tile_events[tile_event_tail].before = 0
      /\ tile_event_tail' = (tile_event_tail + 1) % MAX_PENDING_TILE_EVENTS
      /\ tile_events_inflight' = tile_events_inflight - 1
      /\ UNCHANGED <<read_idx, batch, split, tile_events, chan, landed>>
  BY DEF PollTileEvent, TailEventDone
<1>2. SUFFICES ASSUME config.path = "deferred", ~split
               PROVE  CoverInv'
  BY <1>1 DEF CoverInv
<1>3. /\ tile_events_inflight > 0 /\ tile_events_inflight \in Nat /\ tile_event_tail \in EventSlots
  BY <1>1 DEF CoreInv, StreamInv, EventTypes
<1>4. EventSlot(0) = tile_event_tail
  BY <1>3, EventPlaces DEF EventSlot
<1>5. Event(0).before = 0
  BY <1>1, <1>4 DEF Event
<1>6. \A j \in Nat : Event(j)' = Event(j + 1)
  <2>1. \A j \in Nat : EventSlot(j)' = EventSlot(j + 1)
    BY <1>1, <1>3, EventPlaces DEF EventSlot
  <2>2. QED
    BY <1>1, <2>1 DEF Event
<1>7. ASSUME NEW s, NEW n \in Nat, CoveredBy(s, n + 1)
      PROVE  CoveredBy(s, n)'
  <2>1. CASE s \in landed
    BY <1>1, <2>1 DEF CoveredBy
  <2>2. ASSUME NEW i \in 0..((n + 1) - 1), InCopies(chan[Event(i).ch], s, Event(i).before)
        PROVE  \E j \in 0..(n - 1) : InCopies(chan'[Event(j)'.ch], s, Event(j)'.before)
    <3>1. i # 0
      BY <1>5, <2>2 DEF InCopies
    <3>2. i - 1 \in 0..(n - 1) /\ i - 1 \in Nat /\ (i - 1) + 1 = i
      BY <3>1
    <3>3. PICK j \in 0..(n - 1) : j \in Nat /\ j + 1 = i
      BY <3>2
    <3>4. Event(j)' = Event(i)
      BY <1>6, <3>3
    <3>5. QED
      BY <1>1, <2>2, <3>4
  <2>3. QED
    BY <1>7, <2>1, <2>2 DEF CoveredBy
<1>8. First' = First
  BY <1>1 DEF First
<1>9. PICK n \in Nat : tile_events_inflight = n + 1
  <2>1. tile_events_inflight - 1 \in Nat /\ tile_events_inflight = (tile_events_inflight - 1) + 1
    BY <1>3
  <2>2. QED
    BY <2>1
<1>10. \A s \in 0..(First' - 1) : CoveredBy(s, tile_events_inflight)'
  <2>1. \A s \in 0..(First - 1) : CoveredBy(s, n + 1)
    BY <1>2, <1>9 DEF CoverInv
  <2>2. \A s \in 0..(First - 1) : CoveredBy(s, n)'
    BY <1>7, <2>1
  <2>3. tile_events_inflight' = n
    BY <1>1, <1>9
  <2>4. QED
    BY <1>8, <2>2, <2>3 DEF CoveredBy
<1>11. ASSUME NEW j \in Waiting', NEW s \in 0..(Event(j)'.done_value - 1)
       PROVE  CoveredBy(s, j + 1)'
  <2>1. j \in Nat /\ j + 1 \in Waiting
    BY <1>1, <1>3 DEF Waiting
  <2>2. s \in 0..(Event(j + 1).done_value - 1)
    BY <1>6, <2>1
  <2>3. CoveredBy(s, (j + 1) + 1)
    BY <1>2, <2>1, <2>2 DEF CoverInv
  <2>4. QED
    BY <1>7, <2>1, <2>3
<1>12. QED
  BY <1>10, <1>11 DEF CoverInv

\* A copy that completes is copied, and the events behind it come nearer.
LEMMA CopyCover ==
  ASSUME CoreInv, CoverInv, NEW c \in ChanIds, CopyCompletes(c), config' = config
  PROVE  CoverInv'
<1>1. UNCHANGED <<pollerVars, tile_event_tail, tile_events_inflight>>
  BY DEF CopyCompletes
<1>2. UNCHANGED <<read_idx, batch, split>> /\ First' = First
  BY <1>1 DEF pollerVars, First
<1>3. SUFFICES ASSUME config.path = "deferred", ~split
               PROVE  CoverInv'
  BY <1>2 DEF CoverInv
<1>4. FlightTypes /\ EventTypes /\ tile_events_inflight \in Nat
  BY DEF CoreInv, StreamInv, FlightInv, EventTypes
<1>5. /\ landed' = landed \cup Head(chan[c]).data
      /\ \A d \in ChanIds : d # c => chan'[d] = chan[d]
      /\ \A s, n : n \in 0..Len(chan[c]) /\ InCopies(chan[c], s, n) =>
                     s \in landed' \/ InCopies(chan'[c], s, Nearer(n))
  BY <1>4, CopyFacts DEF FlightTypes
<1>6. Waiting' = Waiting /\ Waiting \subseteq Nat
  BY <1>1, <1>4 DEF Waiting
<1>7. ASSUME NEW j \in Nat
      PROVE  /\ Event(j)'.done_value = Event(j).done_value /\ Event(j)'.ch = Event(j).ch
             /\ Event(j)'.before = IF Event(j).ch = c THEN Nearer(Event(j).before)
                                                      ELSE Event(j).before
  <2>1. EventSlot(j) \in EventSlots /\ EventSlot(j)' = EventSlot(j)
    BY <1>1, <1>4, EventFacts DEF EventSlot
  <2>2. QED
    BY <1>4, <2>1, EventsNearer DEF Event
<1>8. ASSUME NEW s, NEW n \in Nat, CoveredBy(s, n)
      PROVE  CoveredBy(s, n)'
  <2>1. CASE s \in landed
    BY <1>5, <2>1 DEF CoveredBy
  <2>2. ASSUME NEW i \in 0..(n - 1), InCopies(chan[Event(i).ch], s, Event(i).before)
        PROVE  s \in landed' \/ InCopies(chan'[Event(i)'.ch], s, Event(i)'.before)
    <3>1. i \in Nat /\ Event(i).ch \in ChanIds /\ Event(i).before \in 0..Len(chan[Event(i).ch])
      BY <1>4, EventFacts
    <3>2. PICK d \in ChanIds : d = Event(i).ch
      BY <3>1
    <3>3. PICK k \in 0..Len(chan[d]) : k = Event(i).before
      BY <3>1, <3>2
    <3>4. InCopies(chan[d], s, k)
      BY <2>2, <3>2, <3>3
    <3>5. s \in landed' \/ InCopies(chan'[d], s, IF d = c THEN Nearer(k) ELSE k)
      BY <1>5, <3>4
    <3>6. Event(i)'.ch = d /\ Event(i)'.before = (IF d = c THEN Nearer(k) ELSE k)
      BY <1>7, <3>1, <3>2, <3>3
    <3>7. QED
      BY <3>5, <3>6
  <2>3. QED
    BY <1>8, <2>1, <2>2 DEF CoveredBy
<1>9. \A s \in 0..(First' - 1) : CoveredBy(s, tile_events_inflight)'
  <2>1. PICK n \in Nat : n = tile_events_inflight
    BY <1>4
  <2>2. \A s \in 0..(First - 1) : CoveredBy(s, n)
    BY <1>3, <2>1 DEF CoverInv
  <2>3. \A s \in 0..(First - 1) : CoveredBy(s, n)'
    BY <1>8, <2>2
  <2>4. QED
    BY <1>1, <1>2, <2>1, <2>3 DEF CoveredBy
<1>10. ASSUME NEW j \in Waiting', NEW s \in 0..(Event(j)'.done_value - 1)
       PROVE  CoveredBy(s, j + 1)'
  <2>1. j \in Waiting /\ j \in Nat /\ Event(j)'.done_value = Event(j).done_value
    BY <1>6, <1>7
  <2>2. CoveredBy(s, j + 1)
    BY <1>3, <2>1 DEF CoverInv
  <2>3. QED
    BY <1>8, <2>1, <2>2
<1>11. QED
  BY <1>9, <1>10 DEF CoverInv

\* Every step keeps each slot that was handed over copied or behind an event.
LEMMA StepCover ==
  ASSUME CoreInv, PipeInv, CoverInv, [Next]_vars
  PROVE  CoverInv'
<1>1. config' = config /\ (split => split') /\ landed \subseteq landed'
  BY ConfigFixed, HistoryKept, LandedGrows DEF CoreInv
<1>2. RingInv /\ FlightInv /\ FlightTypes /\ EventTypes /\ PathInv
  BY DEF CoreInv, StreamInv, FlightInv
<1>3. SUFFICES ASSUME config.path = "deferred", ~split
               PROVE  CoverInv'
  BY <1>1 DEF CoverInv
<1>4. PipeBody
  BY <1>3 DEF PipeInv, NoLateSignal
<1>5. ASSUME UNCHANGED <<chan, read_idx, batch, tile_events, tile_event_tail, tile_events_inflight>>
      PROVE  CoverInv'
  <2>1. CopiesKept /\ First' = First
    BY <1>1, <1>5 DEF CopiesKept, First
  <2>2. QED
    BY <1>1, <1>2, <1>5, <2>1, CoverKept
<1>6. CASE DeferTileEvent
  BY <1>1, <1>4, <1>6, DeferCover
<1>7. CASE PollTileEvent
  BY <1>1, <1>7, PollCover
<1>8. CASE \E c \in ChanIds : CopyCompletes(c)
  BY <1>1, <1>8, CopyCover
<1>9. CASE PollEntry
  <2> DEFINE x == [tile |-> entries[read_idx + 1].tile, last |-> entries[read_idx + 1].last,
                   slot |-> read_idx]
  <2>1. /\ batch' = Append(batch, x) /\ read_idx' = read_idx + 1
        /\ UNCHANGED <<chan, tile_events, tile_event_tail, tile_events_inflight>>
    BY <1>9 DEF PollEntry, eventVars
  <2>2. Len(batch') = Len(batch) + 1
    <3>1. batch \in Seq(BatchEntry \cup {x}) /\ x \in BatchEntry \cup {x}
      BY <1>2 DEF RingInv, RingTypes
    <3> HIDE DEF x
    <3>2. QED
      BY <2>1, <3>1, AppendProperties
  <2>3. First' = First
    <3>1. read_idx \in Nat /\ Len(batch) \in Nat
      BY <1>2, BatchRun
    <3>2. QED
      BY <2>1, <2>2, <3>1 DEF First
  <2>4. CopiesKept
    BY <1>1, <2>1 DEF CopiesKept
  <2>5. QED
    BY <1>1, <1>2, <2>1, <2>3, <2>4, CoverKept
<1>10. CASE ProcessBatch
  <2>1. poll_pc = "flush" /\ read_idx' = read_idx
        /\ UNCHANGED <<tile_events, tile_event_tail, tile_events_inflight>>
    BY <1>10 DEF ProcessBatch, eventVars
  <2>2. HasTileMarkers
    <3>1. batch # <<>> /\ batch[Len(batch)].last /\ batch \in Seq(BatchEntry)
      BY <1>2, <1>3, <2>1 DEF RingInv, BatchInv, RingTypes
    <3>2. Len(batch) \in 1..Len(batch)
      BY <3>1, EmptySeq, LenProperties
    <3>3. QED
      BY <3>1, <3>2 DEF HasTileMarkers
  <2>3. batch' = batch
    BY <1>10, <2>2 DEF ProcessBatch
  <2>4. First' = First
    BY <2>1, <2>3 DEF First
  <2>5. CopiesKept
    <3>1. Poller
      BY <1>10 DEF Poller
    <3>2. QED
      BY <1>1, <1>2, <3>1, PollerChannels DEF CopiesKept
  <2>6. QED
    BY <1>1, <1>2, <2>1, <2>4, <2>5, CoverKept
<1>11. CASE UpdateProgress \/ SubmitData \/ SubmitSignal \/ CopyNoCe \/ PublishNoCe
  <2>1. poll_pc \notin {"data", "signal", "publish"}
    BY <1>2, <1>3 DEF PathInv
  <2>2. QED
    BY <1>3, <1>11, <2>1 DEF UpdateProgress, SubmitData, SubmitSignal, CopyNoCe, PublishNoCe
<1>12. CASE GapTimeout \/ StartEventPoll \/ LeaveEventPoll \/ StartIdleWait \/ FinishIdleWait
  <2>1. UNCHANGED <<chan, read_idx, batch, tile_events, tile_event_tail, tile_events_inflight>>
    BY <1>12 DEF GapTimeout, StartEventPoll, LeaveEventPoll, StartIdleWait, FinishIdleWait, eventVars
  <2>2. QED
    BY <1>5, <2>1
<1>13. CASE (\E b \in Blocks : TransferWarp(b)) \/ (\E b \in Blocks, k \in Chunks : ComputeWarp(b, k))
  <2>1. UNCHANGED <<chan, read_idx, batch, tile_events, tile_event_tail, tile_events_inflight>>
    BY <1>13, GpuStepFrame DEF pollerVars, eventVars
  <2>2. QED
    BY <1>5, <2>1
<1>14. CASE SignalCompletes \/ DeviceSynchronize \/ Relaunch \/ UNCHANGED vars
  <2>1. UNCHANGED <<chan, read_idx, batch, tile_events, tile_event_tail, tile_events_inflight>>
    BY <1>14 DEF SignalCompletes, DeviceSynchronize, Relaunch, vars, pollerVars, eventVars
  <2>2. QED
    BY <1>5, <2>1
<1>15. QED
  BY <1>6, <1>7, <1>8, <1>9, <1>10, <1>11, <1>12, <1>13, <1>14 DEF Next, Poller, Finished, Hangs

\* done_idx never runs ahead of the data, for any number of channels, blocks and
\* event slots: although the copies of different channels complete in any order,
\* every slot below done_idx has been copied (idle branch of the polling loop,
\* poll_tile_events, process_batch_no_ce).
THEOREM DoneIsCopied == Spec => []DoneIdxLanded
<1>1. Init => CoverInv /\ DoneIdxLanded
  <2>1. SUFFICES ASSUME Init
                 PROVE  CoverInv /\ DoneIdxLanded
    OBVIOUS
  <2>2. /\ batch = <<>> /\ read_idx = 0 /\ done_idx = 0 /\ tile_events_inflight = 0
    BY <2>1 DEF Init
  <2>3. Len(batch) = 0 /\ read_idx = 0
    BY <2>2, EmptySeq
  <2>4. First = 0 /\ Waiting = {}
    <3>1. First = 0
      BY <2>3 DEF First
    <3>2. Waiting = {}
      BY <2>2 DEF Waiting
    <3>3. QED
      BY <3>1, <3>2
  <2>5. 0..(0 - 1) = {}
    OBVIOUS
  <2>6. QED
    BY <2>2, <2>4, <2>5 DEF CoverInv, DoneIdxLanded
<1>2. CoreInv /\ PipeInv /\ CoverInv /\ DoneIdxLanded /\ [Next]_vars => (CoverInv /\ DoneIdxLanded)'
  <2>1. SUFFICES ASSUME CoreInv, PipeInv, CoverInv, DoneIdxLanded, [Next]_vars
                 PROVE  CoverInv' /\ DoneIdxLanded'
    OBVIOUS
  <2>2. QED
    BY <2>1, StepCover, StepDone
<1>3. SchedInv /\ RingInv /\ StreamInv => CoreInv
  BY DEF CoreInv
<1>4. QED
  BY <1>1, <1>2, <1>3, SchedInvariant, RingInvariant, StreamInvariant, PipeInvariant, PTL DEF Spec

-----------------------------------------------------------------------------
(* Types *)

\* The counters of a block stay within its tile, and descriptors name tiles.
BlockCounts(b) == chunks_ready[b] <= K /\ compute_done[b] <= K
CountsFit      == \A b \in Blocks : BlockCounts(b)
ActiveFits     == \A b \in Blocks : Active(b) => BlockCounts(b)
EntriesFit     == \A n \in 1..write_idx : entries[n].tile \in TileIds

\* While a block has a tile, at most K chunks are ready and at most K warps done.
LEMMA ActiveCounts == SchedInv => ActiveFits
<1>1. SUFFICES ASSUME SchedInv, NEW b \in Blocks, Active(b)
               PROVE  BlockCounts(b)
  BY DEF ActiveFits
<1>2. /\ chunks_ready[b] = chunk[b] /\ chunk[b] <= K
      /\ compute_done[b] = Cardinality(Through(b))
  BY <1>1 DEF SchedInv, BlockOK
<1>3. K \in Nat /\ 0 \in Int /\ K - 1 \in Int
  BY <1>1, Shape DEF SchedInv, GpuTypes
<1>4. IsFiniteSet(Chunks) /\ Cardinality(Chunks) = K
  <2>1. /\ IsFiniteSet(0..(K - 1))
        /\ Cardinality(0..(K - 1)) = IF 0 > K - 1 THEN 0 ELSE (K - 1) - 0 + 1
    BY <1>3, FS_Interval, Zenon
  <2>2. QED
    BY <1>3, <2>1 DEF Chunks
<1>5. Through(b) \subseteq Chunks
  BY DEF Through
<1>6. Cardinality(Through(b)) <= Cardinality(Chunks)
  BY <1>4, <1>5, FS_Subset, Zenon
<1>7. QED
  BY <1>2, <1>4, <1>6 DEF BlockCounts

\* A step resets a counter, leaves it alone, or moves it while its block works.
LEMMA StepFits ==
  ASSUME SchedInv, SchedInv', RingInv, CountsFit, EntriesFit, [Next]_vars
  PROVE  CountsFit' /\ EntriesFit'
<1>1. config' = config /\ K' = K /\ TileIds' = TileIds
  BY ConfigFixed, SameShape
<1>2. /\ config \in Sessions /\ pc \in [Blocks -> PlaceSet]
      /\ chunks_ready \in [Blocks -> Nat] /\ compute_done \in [Blocks -> Nat]
      /\ K \in Nat /\ chunk \in [Blocks -> Nat]
  BY Shape DEF SchedInv, GpuTypes
<1>3. ActiveFits'
  BY ActiveCounts, PTL
<1>4. ASSUME \A b \in Blocks : \/ Active(b)'
                               \/ chunks_ready'[b] = chunks_ready[b] /\ compute_done'[b] = compute_done[b]
                               \/ chunks_ready'[b] = 0 /\ compute_done'[b] = 0
      PROVE  CountsFit'
  BY <1>1, <1>2, <1>3, <1>4 DEF ActiveFits, CountsFit, BlockCounts
<1>5. ASSUME entries' = entries
      PROVE  EntriesFit'
  BY <1>1, <1>5 DEF EntriesFit, write_idx
<1>6. CASE \E b \in Blocks : TransferWarp(b)
  <2>1. PICK a \in Blocks : TransferWarp(a)
    BY <1>6
  <2>2. CASE AcquireTile(a)
    BY <1>2, <1>4, <1>5, <2>2 DEF AcquireTile
  <2>3. CASE AcquireSlots(a)
    <3>1. UNCHANGED <<chunks_ready, compute_done>> /\ pc[a] = "acquire_slots"
      BY <2>3 DEF AcquireSlots
    <3>2. /\ write_idx' = write_idx + C
          /\ \A n \in 1..write_idx : entries'[n] = entries[n]
          /\ \A i \in 1..C : entries'[write_idx + i].tile = tile[a]
      BY <2>3, RingGrows DEF RingInv, SchedInv
    <3>3. tile[a] \in TileIds
      BY <3>1 DEF SchedInv, BlockOK, Active
    <3>4. write_idx \in Nat /\ C \in Nat
      BY <1>2, Shape, BatchRun
    <3>5. \A n \in 1..(write_idx + C) : n \in 1..write_idx \/ n - write_idx \in 1..C
      BY <3>4
    <3>6. \A n \in 1..(write_idx + C) : n = write_idx + (n - write_idx)
      BY <3>4
    <3>7. EntriesFit'
      BY <1>1, <3>2, <3>3, <3>5, <3>6 DEF EntriesFit
    <3>8. QED
      BY <1>4, <3>1, <3>7
  <2>4. CASE CommitSlot(a) \/ WaitCompute(a)
    BY <1>4, <1>5, <2>4 DEF CommitSlot, WaitCompute
  <2>5. CASE WaitChunkDone(a)
    <3>1. /\ pc'[a] \in {"acquire_slots", "wait_compute"}
          /\ \A b \in Blocks : b # a => chunks_ready'[b] = chunks_ready[b]
          /\ UNCHANGED <<entries, compute_done>>
      BY <1>2, <2>5 DEF WaitChunkDone
    <3>2. Active(a)'
      BY <3>1 DEF Active
    <3>3. QED
      BY <1>4, <1>5, <3>1, <3>2
  <2>6. QED
    BY <2>1, <2>2, <2>3, <2>4, <2>5 DEF TransferWarp
<1>7. CASE \E b \in Blocks, k \in Chunks : ComputeWarp(b, k)
  <2>1. PICK a \in Blocks, k \in Chunks : ComputeWarp(a, k)
    BY <1>7
  <2>2. CASE StartCompute(a, k)
    BY <1>4, <1>5, <2>2 DEF StartCompute
  <2>3. CASE FinishCompute(a, k)
    <3>1. /\ warp[a][k] = "compute" /\ UNCHANGED <<entries, pc, chunks_ready>>
          /\ \A b \in Blocks : b # a => compute_done'[b] = compute_done[b]
      BY <1>2, <2>3 DEF FinishCompute
    <3>2. Active(a)
      BY <3>1 DEF SchedInv, BlockOK, Through
    <3>3. Active(a)'
      BY <3>1, <3>2 DEF Active
    <3>4. QED
      BY <1>4, <1>5, <3>1, <3>3
  <2>4. QED
    BY <2>1, <2>2, <2>3 DEF ComputeWarp
<1>8. CASE HostStep \/ DeviceSynchronize \/ Relaunch \/ UNCHANGED vars
  <2>1. UNCHANGED <<entries, chunks_ready, compute_done>>
    BY <1>8, HostFrame DEF DeviceSynchronize, Relaunch, vars, gpuVars
  <2>2. QED
    BY <1>4, <1>5, <2>1
<1>9. QED
  BY <1>6, <1>7, <1>8 DEF Next, HostStep, Finished, Hangs

\* Type correctness of the whole pipeline, for every session: in particular the
\* indices of the ring stay in order (done_idx <= read_idx <= write_idx), every
\* committed or copied slot was acquired, and a block's counters never pass the
\* chunks of a tile.
THEOREM TypesHold == Spec => []TypeOK
<1>1. Init => CountsFit /\ EntriesFit
  <2>1. SUFFICES ASSUME Init
                 PROVE  CountsFit /\ EntriesFit
    OBVIOUS
  <2>2. K \in Nat
    BY <2>1, Shape DEF Init
  <2>3. CountsFit
    BY <2>1, <2>2 DEF Init, CountsFit, BlockCounts
  <2>4. write_idx = 0
    BY <2>1, EmptySeq DEF Init, write_idx
  <2>5. EntriesFit
    BY <2>4 DEF EntriesFit
  <2>6. QED
    BY <2>3, <2>5
<1>2. SchedInv /\ SchedInv' /\ RingInv /\ CountsFit /\ EntriesFit /\ [Next]_vars
        => (CountsFit /\ EntriesFit)'
  <2>1. SUFFICES ASSUME SchedInv, SchedInv', RingInv, CountsFit, EntriesFit, [Next]_vars
                 PROVE  CountsFit' /\ EntriesFit'
    OBVIOUS
  <2>2. QED
    BY <2>1, StepFits
<1>3. SchedInv /\ RingInv /\ StreamInv /\ CountsFit /\ EntriesFit => TypeOK
  <2>1. SUFFICES ASSUME SchedInv, RingInv, StreamInv, CountsFit, EntriesFit
                 PROVE  TypeOK
    OBVIOUS
  <2>2. \A n \in 1..write_idx : entries[n] \in [tile : TileIds, last : BOOLEAN]
    <3>1. \A n \in 1..write_idx : entries[n] \in Entry /\ entries[n].tile \in TileIds
      BY <2>1, EntryTypes DEF RingInv, EntriesFit
    <3>2. QED
      BY <3>1 DEF Entry
  <2>3. read_idx \in 0..write_idx /\ done_idx \in 0..read_idx
    BY <2>1, BatchRun DEF StreamInv, FlightInv, FlightTypes
  <2>4. chunks_ready \in [Blocks -> 0..K] /\ compute_done \in [Blocks -> 0..K]
    <3>1. /\ chunks_ready \in [Blocks -> Nat] /\ compute_done \in [Blocks -> Nat] /\ K \in Nat
      BY <2>1, Shape DEF SchedInv, GpuTypes
    <3>2. \A b \in Blocks : chunks_ready[b] \in 0..K /\ compute_done[b] \in 0..K
      BY <2>1, <3>1 DEF CountsFit, BlockCounts
    <3>3. QED
      BY <3>1, <3>2
  <2>5. /\ next_tile \in Nat /\ config \in Sessions /\ host \in {"running", "stopping"}
        /\ pc \in [Blocks -> PlaceSet] /\ warp \in [Blocks -> [Chunks -> WarpSet]]
    BY <2>1 DEF SchedInv, GpuTypes, HostInv
  <2>6. committed \subseteq 0..(write_idx - 1) /\ poll_pc \in PollSet
    BY <2>1 DEF RingInv, RingTypes
  <2>7. /\ dirty \subseteq ChanIds /\ landed \subseteq 0..(write_idx - 1)
        /\ tile_event_head \in EventSlots /\ tile_event_tail \in EventSlots
        /\ tile_progress \in [TileIds -> Nat] /\ tile_signal_buf \in [TileIds -> Nat]
        /\ chunk_done \in [TileIds -> Nat]
    BY <2>1 DEF StreamInv, FlightInv, FlightTypes, EventTypes, CountTypes
  <2>8. QED
    BY <2>2, <2>3, <2>4, <2>5, <2>6, <2>7 DEF TypeOK, PlaceSet, WarpSet, PollSet
<1>4. QED
  BY <1>1, <1>2, <1>3, SchedInvariant, RingInvariant, StreamInvariant, PTL DEF Spec
================================================================================
