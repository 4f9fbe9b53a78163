---------------------------- MODULE TiledTransfer ----------------------------
(***************************************************************************)
(* Warp-specialised tile processing, end to end: the blocks' transfer and  *)
(* compute warps (warp_spec.cuh), the polling thread and its per-tile      *)
(* batches (cpu_polling.cpp, batch_processor.cpp), the copy-engine streams *)
(* (copy_engine.cpp), the completion signals the transfer warps poll, and  *)
(* the session that launches, synchronises and resets (warp_spec_session). *)
(*                                                                         *)
(* The ring itself is DescriptorQueue's subject: here slots are handed out *)
(* and their descriptors consumed in slot order, as SlotQueue promises.    *)
(* Data is abstracted to the set of slots whose token has reached the GPU. *)
(***************************************************************************)
EXTENDS Integers, Sequences, FiniteSets

CONSTANTS Blocks,           \* thread blocks of the kernel
          Sessions,         \* the sessions considered, see SessionShape
          Channels,         \* num_channels_ of the copy-engine manager
          BATCH_THRESHOLD,  \* the poller flushes a batch of this many entries
          MAX_PENDING_TILE_EVENTS

\* How completion reaches the GPU depends on what could be allocated:
\*   device    d_tile_chunk_done, written by the signal stream
\*   host      no d_tile_chunk_done: tile_chunk_done, one more copy
\*   deferred  no tile_signal_buf_: events the idle poller queries
\*   no_ce     no copy engine: the poller copies and publishes by itself
Paths == {"device", "host", "deferred", "no_ce"}

\* A session: its path, total_tiles, chunks_per_tile, tokens_per_chunk and
\* how often it is launched (a bound).
SessionShape == [path : Paths, tiles : Nat, chunks : Nat \ {0},
                 tokens : Nat \ {0}, launches : Nat \ {0}]

ASSUME TiledAssumption ==
  /\ Blocks # {} /\ IsFiniteSet(Blocks)
  /\ \A s \in Sessions : s \in SessionShape
  /\ Channels \in Nat \ {0} /\ BATCH_THRESHOLD \in Nat \ {0}
  /\ MAX_PENDING_TILE_EVENTS \in Nat \ {0}

\* The arrays of counts have this many elements; a tile beyond is copied, but the
\* polling thread counts nothing for it, so that its blocks would wait for ever.
MAX_TILES == 1024

ASSUME TilesCounted == \A s \in Sessions : s.tiles <= MAX_TILES

\* More blocks than event slots would overrun them on the deferred path.
ASSUME BlocksFitEvents == Cardinality(Blocks) <= MAX_PENDING_TILE_EVENTS

VARIABLE config    \* the session's scheduler and signal path

Tiles       == config.tiles
K           == config.chunks
C           == config.tokens
MaxLaunches == config.launches

TileIds  == 0..(Tiles - 1)
Chunks   == 0..(K - 1)
ChanIds  == 0..(Channels - 1)
AnyChunk == UNION {0..(s.chunks - 1) : s \in Sessions}
NoSlot   == -1
EventSlots == 0..(MAX_PENDING_TILE_EVENTS - 1)

\* A PendingTileEvent: the channel it was recorded on, the copies still before
\* it there, the tiles and the done_idx to publish when it completes.
NoEvent == [ch |-> 0, before |-> 0, tiles |-> {}, done_value |-> 0]

VARIABLES
  next_tile,       \* scheduler.next_tile
  entries,         \* entries[s + 1]: tile and chunk boundary flag of slot s
  committed,       \* slots whose sequence marker is visible
  read_idx, done_idx,
  chunk_done,      \* d_tile_chunk_done or tile_chunk_done: what the GPU polls
  pc, tile, chunk, \* a block's transfer warp and its loop variables
  chunk_base,      \* first slot of each chunk of the block's tile
  pending,         \* offsets of the chunk whose marker is not stored yet
  chunks_ready, compute_done,  \* _WarpSpecState
  warp,            \* each compute warp of a block
  poll_pc, batch,  \* the polling loop: position, entries not flushed yet
  tile_progress, tile_signal_buf,
  has_async_dma, latest_async_read,
  chan,            \* work queued on each copy-engine stream
  next_channel, dirty,
  signals,         \* signal_stream_: tile and what it waits for, per channel
  tile_events,     \* pending_tile_events_, and the ring's head and tail
  tile_event_head, tile_event_tail, tile_events_inflight,
  landed,          \* slots whose token has been copied to the GPU buffer
  host, launches,  \* the session's thread
  computed,        \* history: how often each chunk was computed this launch
  split            \* history: a gap timeout or a full batch cut a chunk in two

gpuVars    == <<next_tile, entries, committed, pc, tile, chunk, chunk_base,
                pending, chunks_ready, compute_done, warp, computed>>
progressVars == <<tile_progress, tile_signal_buf>>
asyncVars  == <<has_async_dma, latest_async_read>>
channelVars == <<next_channel, dirty>>
pollerVars == <<read_idx, done_idx, poll_pc, batch, split, progressVars,
                asyncVars, channelVars>>
eventVars  == <<tile_events, tile_event_head, tile_event_tail,
                tile_events_inflight>>
hostVars   == <<config, host, launches>>
vars == <<gpuVars, pollerVars, eventVars, hostVars, chunk_done, chan, signals,
          landed>>

write_idx == Len(entries)

\* The state of a block when its kernel starts.
IdleWarps == [k \in Chunks |-> "sync"]

Init ==
  /\ config \in Sessions
  /\ next_tile = 0 /\ entries = <<>> /\ committed = {}
  /\ read_idx = 0 /\ done_idx = 0
  /\ chunk_done = [t \in TileIds |-> 0]
  /\ pc = [b \in Blocks |-> "acquire_tile"]
  /\ tile = [b \in Blocks |-> 0] /\ chunk = [b \in Blocks |-> 0]
  /\ chunk_base = [b \in Blocks |-> [k \in Chunks |-> NoSlot]]
  /\ pending = [b \in Blocks |-> {}]
  /\ chunks_ready = [b \in Blocks |-> 0]
  /\ compute_done = [b \in Blocks |-> 0]
  /\ warp = [b \in Blocks |-> IdleWarps]
  /\ poll_pc = "poll" /\ batch = <<>>
  /\ tile_progress = [t \in TileIds |-> 0]
  /\ tile_signal_buf = [t \in TileIds |-> 0]
  /\ has_async_dma = FALSE /\ latest_async_read = 0
  /\ chan = [c \in ChanIds |-> <<>>] /\ next_channel = 0 /\ dirty = {}
  /\ signals = <<>> /\ landed = {}
  /\ tile_events = [s \in EventSlots |-> NoEvent]
  /\ tile_event_head = 0 /\ tile_event_tail = 0 /\ tile_events_inflight = 0
  /\ host = "running" /\ launches = 1
  /\ computed = [t \in TileIds |-> [k \in Chunks |-> 0]] /\ split = FALSE

-----------------------------------------------------------------------------
(* The GPU: _warp_spec_tile_loop and _transfer_warp_loop *)

\* Where a block goes with the tile it got: to its chunks, or out.
Dispatch(b, more) ==
  IF more
    THEN /\ pc' = [pc EXCEPT ![b] = "acquire_slots"]
         /\ warp' = [warp EXCEPT ![b] = [k \in Chunks |-> "wait"]]
    ELSE /\ pc' = [pc EXCEPT ![b] = "exit"]
         /\ UNCHANGED warp

\* Mutants: compute_done survives from the last tile; the last tile is missed.
AcquireTileNoReset(b) ==
  /\ pc[b] = "acquire_tile"
  /\ \A k \in Chunks : warp[b][k] = "sync"
  /\ next_tile' = next_tile + 1
  /\ tile' = [tile EXCEPT ![b] = next_tile]
  /\ chunks_ready' = [chunks_ready EXCEPT ![b] = 0]
  /\ chunk' = [chunk EXCEPT ![b] = 0]
  /\ chunk_base' = [chunk_base EXCEPT ![b] = [k \in Chunks |-> NoSlot]]
  /\ Dispatch(b, next_tile < Tiles)
  /\ UNCHANGED <<entries, committed, pending, computed, compute_done,
                 pollerVars, hostVars, eventVars, chunk_done, chan, signals, landed>>

AcquireTileSkipsLast(b) ==
  /\ pc[b] = "acquire_tile"
  /\ \A k \in Chunks : warp[b][k] = "sync"
  /\ next_tile' = next_tile + 1
  /\ tile' = [tile EXCEPT ![b] = next_tile]
  /\ chunks_ready' = [chunks_ready EXCEPT ![b] = 0]
  /\ compute_done' = [compute_done EXCEPT ![b] = 0]
  /\ chunk' = [chunk EXCEPT ![b] = 0]
  /\ chunk_base' = [chunk_base EXCEPT ![b] = [k \in Chunks |-> NoSlot]]
  /\ Dispatch(b, next_tile < Tiles - 1)
  /\ UNCHANGED <<entries, committed, pending, computed, pollerVars, hostVars, eventVars,
                 chunk_done, chan, signals, landed>>

\* Thread 0 takes the next tile and resets the block's shared state between
\* two barriers: every warp of the block has arrived.
AcquireTile(b) ==
  /\ pc[b] = "acquire_tile"
  /\ \A k \in Chunks : warp[b][k] = "sync"
  /\ next_tile' = next_tile + 1
  /\ tile' = [tile EXCEPT ![b] = next_tile]
  /\ chunks_ready' = [chunks_ready EXCEPT ![b] = 0]
  /\ compute_done' = [compute_done EXCEPT ![b] = 0]
  /\ chunk' = [chunk EXCEPT ![b] = 0]
  /\ chunk_base' = [chunk_base EXCEPT ![b] = [k \in Chunks |-> NoSlot]]
  /\ Dispatch(b, next_tile < Tiles)
  /\ UNCHANGED <<entries, committed, pending, computed, pollerVars, hostVars, eventVars,
                 chunk_done, chan, signals, landed>>

\* acquire_chunk_slots, the wait for room and write_chunk: C consecutive slots
\* whose last descriptor carries FLAG_LAST_IN_TILE.
AcquireSlots(b) ==
  /\ pc[b] = "acquire_slots"
  /\ chunk_base' = [chunk_base EXCEPT ![b][chunk[b]] = write_idx]
  /\ entries' = entries \o [i \in 1..C |-> [tile |-> tile[b], last |-> i = C]]
  /\ pending' = [pending EXCEPT ![b] = 0..(C - 1)]
  /\ pc' = [pc EXCEPT ![b] = "commit"]
  /\ UNCHANGED <<next_tile, committed, tile, chunk, chunks_ready, compute_done,
                 warp, computed, pollerVars, hostVars, eventVars, chunk_done, chan,
                 signals, landed>>

\* commit_chunk: the markers of a chunk become visible in any order.
CommitSlot(b) ==
  /\ pc[b] = "commit"
  /\ \E i \in pending[b] :
       /\ committed' = committed \cup {chunk_base[b][chunk[b]] + i}
       /\ pending' = [pending EXCEPT ![b] = @ \ {i}]
       /\ pc' = [pc EXCEPT ![b] = IF pending[b] = {i} THEN "wait" ELSE "commit"]
  /\ UNCHANGED <<next_tile, entries, tile, chunk, chunk_base, chunks_ready,
                 compute_done, warp, computed, pollerVars, hostVars, eventVars,
                 chunk_done, chan, signals, landed>>

\* Mutant: the count of the chunk before is waited for.
ChunkDoneEarly(b) == chunk_done[tile[b]] >= chunk[b] * C

\* wait_chunk_done(tile_id, (chunk + 1) * C): the count the warp polls for.
ChunkDone(b) == chunk_done[tile[b]] >= (chunk[b] + 1) * C

\* The wait, then chunks_ready = chunk + 1; on to the next chunk or to
\* the wait for the compute warps.
WaitChunkDone(b) ==
  /\ pc[b] = "wait"
  /\ ChunkDone(b)
  /\ chunks_ready' = [chunks_ready EXCEPT ![b] = chunk[b] + 1]
  /\ chunk' = [chunk EXCEPT ![b] = @ + 1]
  /\ pc' = [pc EXCEPT ![b] = IF chunk[b] + 1 < K THEN "acquire_slots"
                                                 ELSE "wait_compute"]
  /\ UNCHANGED <<next_tile, entries, committed, tile, chunk_base, pending,
                 compute_done, warp, computed, pollerVars, hostVars, eventVars,
                 chunk_done, chan, signals, landed>>

WaitCompute(b) ==
  /\ pc[b] = "wait_compute"
  /\ compute_done[b] >= K
  /\ pc' = [pc EXCEPT ![b] = "acquire_tile"]
  /\ UNCHANGED <<next_tile, entries, committed, tile, chunk, chunk_base,
                 pending, chunks_ready, compute_done, warp, computed,
                 pollerVars, hostVars, eventVars, chunk_done, chan, signals, landed>>

TransferWarp(b) == \/ AcquireTile(b) \/ AcquireSlots(b) \/ CommitSlot(b)
                   \/ WaitChunkDone(b) \/ WaitCompute(b)

\* A compute warp sees its chunk ready and calls the user's compute_fn ...
StartCompute(b, k) ==
  /\ warp[b][k] = "wait"
  /\ chunks_ready[b] > k
  /\ warp' = [warp EXCEPT ![b][k] = "compute"]
  /\ computed' = [computed EXCEPT ![tile[b]][k] = @ + 1]
  /\ UNCHANGED <<next_tile, entries, committed, pc, tile, chunk, chunk_base,
                 pending, chunks_ready, compute_done, pollerVars, hostVars, eventVars,
                 chunk_done, chan, signals, landed>>

\* ... then counts itself done and goes to the barrier.
FinishCompute(b, k) ==
  /\ warp[b][k] = "compute"
  /\ compute_done' = [compute_done EXCEPT ![b] = @ + 1]
  /\ warp' = [warp EXCEPT ![b][k] = "sync"]
  /\ UNCHANGED <<next_tile, entries, committed, pc, tile, chunk, chunk_base,
                 pending, chunks_ready, computed, pollerVars, hostVars, eventVars,
                 chunk_done, chan, signals, landed>>

ComputeWarp(b, k) == StartCompute(b, k) \/ FinishCompute(b, k)

-----------------------------------------------------------------------------
(* The polling thread: polling_loop, flush_batch, process_batch_tiled *)

\* Mutant: the loop does not stop at the end of a chunk.
EndsBatchAtThreshold(e) == Len(batch) + 1 >= BATCH_THRESHOLD

\* The breaks of the inner loop that lead to a flush.
EndsBatch(e) == e.last \/ Len(batch) + 1 >= BATCH_THRESHOLD

\* Copy the next descriptor into the batch; a chunk's last descriptor or a
\* full batch ends the inner loop and is flushed at once.
PollEntry ==
  /\ poll_pc = "poll"
  /\ read_idx \in committed
  /\ LET e == entries[read_idx + 1] IN
       /\ batch' = Append(batch, [tile |-> e.tile, last |-> e.last,
                                 slot |-> read_idx])
       /\ poll_pc' = IF EndsBatch(e) THEN "flush" ELSE "poll"
       /\ split' = (split \/ (EndsBatch(e) /\ ~e.last))
  /\ read_idx' = read_idx + 1
  /\ UNCHANGED <<done_idx, progressVars, asyncVars, channelVars, gpuVars,
                 eventVars, hostVars, chunk_done, chan, signals, landed>>

\* GAP_SPIN_LIMIT checks found no next descriptor: flush what there is.
GapTimeout ==
  /\ poll_pc = "poll"
  /\ batch # <<>>
  /\ read_idx \notin committed
  /\ poll_pc' = "flush"
  /\ split' = TRUE
  /\ UNCHANGED <<read_idx, done_idx, batch, progressVars, asyncVars,
                 channelVars, gpuVars, eventVars, hostVars, chunk_done, chan,
                 signals, landed>>

\* Mutant: a partial batch is not counted.
InBatchWhole(t) == IF batch[Len(batch)].last
                     THEN Cardinality({n \in 1..Len(batch) : batch[n].tile = t})
                     ELSE 0

\* The number of batch entries of each tile.
InBatch(t) == Cardinality({n \in 1..Len(batch) : batch[n].tile = t})
BatchTiles == {batch[n].tile : n \in 1..Len(batch)}
BatchSlots == {batch[n].slot : n \in 1..Len(batch)}

\* or_flags holds FLAG_LAST_IN_TILE, and the tiles whose entries carry it.
HasTileMarkers == \E n \in 1..Len(batch) : batch[n].last
MarkedTiles    == {batch[n].tile : n \in {m \in 1..Len(batch) : batch[m].last}}

\* process_batch_tiled, first part: the counters and the pinned signal values.
UpdateProgress ==
  /\ poll_pc = "flush" /\ config.path \in {"device", "host"}
  /\ tile_progress' = [t \in TileIds |-> tile_progress[t] + InBatch(t)]
  /\ tile_signal_buf' = [t \in TileIds |->
       IF t \in BatchTiles THEN tile_progress'[t] ELSE tile_signal_buf[t]]
  /\ poll_pc' = "data"
  /\ UNCHANGED <<read_idx, done_idx, batch, split, asyncVars, channelVars,
                 gpuVars, eventVars, hostVars, chunk_done, chan, signals,
                 landed>>

\* submit_scatter_gather of one entry: the round-robin channel, now dirty.
Submit(op) ==
  /\ chan' = [chan EXCEPT ![next_channel] = Append(@, op)]
  /\ next_channel' = (next_channel + 1) % Channels
  /\ dirty' = dirty \cup {next_channel}

\* Second part: a batch is a run of one chunk's tokens (OneChunkPerBatch),
\* contiguous on both sides, so it is coalesced into a single copy.
SubmitData ==
  /\ poll_pc = "data"
  /\ Submit([data |-> BatchSlots, tiles |-> {}])
  /\ poll_pc' = "signal"
  /\ UNCHANGED <<read_idx, done_idx, batch, split, progressVars, asyncVars,
                 gpuVars, eventVars, hostVars, chunk_done, signals, landed>>

\* Mutant: the signal stream waits for nothing.
QueuedNothing == [c \in ChanIds |-> 0]

\* make_stream_wait_on_all: the work now queued on each dirty channel.
QueuedOnDirty == [c \in ChanIds |-> IF c \in dirty THEN Len(chan[c]) ELSE 0]

\* flush_batch's epilogue for a batch that was handed to the copy engines.
Flushed ==
  /\ has_async_dma' = TRUE
  /\ latest_async_read' = read_idx
  /\ batch' = <<>>
  /\ poll_pc' = "poll"

\* Last part, and the epilogue.  With device signals the signal
\* stream waits for the dirty channels; otherwise the signal is one more copy
\* on the next channel.  The value copied is read when the copy executes.
SubmitSignal ==
  /\ poll_pc = "signal"
  /\ IF config.path = "device"
       THEN /\ signals' = Append(signals, [tiles |-> BatchTiles,
                                          after |-> QueuedOnDirty])
            /\ UNCHANGED <<chan, channelVars>>
       ELSE /\ Submit([data |-> {}, tiles |-> BatchTiles])
            /\ UNCHANGED signals
  /\ Flushed
  /\ UNCHANGED <<read_idx, done_idx, split, progressVars, gpuVars, eventVars,
                 hostVars, chunk_done, landed>>

-----------------------------------------------------------------------------
(* Without the pinned signal values: process_batch and deferred tile events *)

\* process_batch submits the chunk's tokens as one copy; a batch without a
\* marker is not counted and leaves no event.
ProcessBatch ==
  /\ poll_pc = "flush" /\ config.path = "deferred"
  /\ Submit([data |-> BatchSlots, tiles |-> {}])
  /\ IF HasTileMarkers
       THEN poll_pc' = "event" /\ UNCHANGED <<batch, asyncVars>>
       ELSE Flushed
  /\ UNCHANGED <<read_idx, done_idx, split, progressVars, gpuVars, eventVars,
                 hostVars, chunk_done, signals, landed>>

\* record_event_on_last_stream: the channel it picks.
LastStream == (next_channel + Channels - 1) % Channels

\* The event for the marked tiles takes the next slot, free or not.
DeferTileEvent ==
  /\ poll_pc = "event"
  /\ tile_events' = [tile_events EXCEPT ![tile_event_head] =
       [ch |-> LastStream, before |-> Len(chan[LastStream]),
        tiles |-> MarkedTiles, done_value |-> read_idx]]
  /\ tile_event_head' = (tile_event_head + 1) % MAX_PENDING_TILE_EVENTS
  /\ tile_events_inflight' = tile_events_inflight + 1
  /\ tile_progress' = [t \in TileIds |-> tile_progress[t] +
                         (IF t \in MarkedTiles THEN InBatch(t) ELSE 0)]
  /\ Flushed
  /\ UNCHANGED <<read_idx, done_idx, split, tile_signal_buf, channelVars,
                 gpuVars, tile_event_tail, hostVars, chunk_done, chan, signals,
                 landed>>

\* No descriptor and no batch, but events: query them until they are done ...
StartEventPoll ==
  /\ poll_pc = "poll"
  /\ batch = <<>> /\ read_idx \notin committed
  /\ tile_events_inflight > 0
  /\ poll_pc' = "events"
  /\ UNCHANGED <<read_idx, done_idx, batch, split, progressVars, asyncVars,
                 channelVars, gpuVars, eventVars, hostVars, chunk_done, chan,
                 signals, landed>>

\* cuEventQuery of the oldest event does not say CUDA_ERROR_NOT_READY.
TailEventDone == tile_events[tile_event_tail].before = 0

\* poll_tile_events: publish the progress of the oldest event's tiles.
PollTileEvent ==
  /\ poll_pc = "events"
  /\ TailEventDone
  /\ LET pe == tile_events[tile_event_tail] IN
       /\ chunk_done' = [t \in TileIds |-> IF t \in pe.tiles THEN tile_progress[t]
                                                            ELSE chunk_done[t]]
       /\ done_idx' = IF pe.done_value > done_idx THEN pe.done_value ELSE done_idx
  /\ tile_event_tail' = (tile_event_tail + 1) % MAX_PENDING_TILE_EVENTS
  /\ tile_events_inflight' = tile_events_inflight - 1
  /\ has_async_dma' = (tile_events_inflight' > 0)
  /\ poll_pc' = IF tile_events_inflight' = 0 THEN "poll" ELSE "events"
  /\ UNCHANGED <<read_idx, batch, split, progressVars, latest_async_read,
                 channelVars, gpuVars, tile_events, tile_event_head, hostVars,
                 chan, signals, landed>>

\* ... or until a new descriptor shows up between two queries.
LeaveEventPoll ==
  /\ poll_pc = "events"
  /\ ~TailEventDone
  /\ read_idx \in committed
  /\ poll_pc' = "poll"
  /\ UNCHANGED <<read_idx, done_idx, batch, split, progressVars, asyncVars,
                 channelVars, gpuVars, eventVars, hostVars, chunk_done, chan,
                 signals, landed>>

-----------------------------------------------------------------------------
(* Without a copy engine: process_batch_no_ce *)

\* The poller copies the tokens itself ...
CopyNoCe ==
  /\ poll_pc = "flush" /\ config.path = "no_ce"
  /\ landed' = landed \cup BatchSlots
  /\ poll_pc' = "publish"
  /\ UNCHANGED <<read_idx, done_idx, batch, split, progressVars, asyncVars,
                 channelVars, gpuVars, eventVars, hostVars, chunk_done, chan,
                 signals>>

\* ... and publishes done_idx and, for a batch with a marker, the counts.
PublishNoCe ==
  /\ poll_pc = "publish"
  /\ done_idx' = read_idx
  /\ tile_progress' = [t \in TileIds |-> tile_progress[t] +
                         (IF HasTileMarkers THEN InBatch(t) ELSE 0)]
  /\ chunk_done' = [t \in TileIds |-> IF t \in MarkedTiles THEN tile_progress'[t]
                                                          ELSE chunk_done[t]]
  /\ batch' = <<>>
  /\ poll_pc' = "poll"
  /\ UNCHANGED <<read_idx, split, tile_signal_buf, asyncVars, channelVars,
                 gpuVars, eventVars, hostVars, chan, signals, landed>>

-----------------------------------------------------------------------------
(* The idle branch without events *)

\* No descriptor, no batch, but copies in flight: wait for them ...
StartIdleWait ==
  /\ poll_pc = "poll"
  /\ batch = <<>> /\ read_idx \notin committed
  /\ tile_events_inflight = 0 /\ has_async_dma
  /\ poll_pc' = "idle"
  /\ UNCHANGED <<read_idx, done_idx, batch, split, progressVars, asyncVars,
                 channelVars, gpuVars, eventVars, hostVars, chunk_done, chan,
                 signals, landed>>

\* Mutant: the wait returns at once.
NoWaitCompletion == TRUE

\* ... wait_completion returns when the dirty channels are empty.
WaitCompletion == \A c \in dirty : chan[c] = <<>>

FinishIdleWait ==
  /\ poll_pc = "idle"
  /\ WaitCompletion
  /\ dirty' = {}
  /\ done_idx' = latest_async_read
  /\ has_async_dma' = FALSE
  /\ poll_pc' = "poll"
  /\ UNCHANGED <<read_idx, batch, split, progressVars, latest_async_read,
                 next_channel, gpuVars, eventVars, hostVars, chunk_done, chan,
                 signals, landed>>

Poller == \/ PollEntry \/ GapTimeout
          \/ UpdateProgress \/ SubmitData \/ SubmitSignal
          \/ ProcessBatch \/ DeferTileEvent
          \/ StartEventPoll \/ PollTileEvent \/ LeaveEventPoll
          \/ CopyNoCe \/ PublishNoCe
          \/ StartIdleWait \/ FinishIdleWait

-----------------------------------------------------------------------------
(* The copy engines and the signal stream: work of one stream is done in order *)

\* What the GPU polls after the values of some tiles have been copied.
Published(tiles) == [t \in TileIds |-> IF t \in tiles THEN tile_signal_buf[t]
                                                      ELSE chunk_done[t]]

\* One copy less before whatever was recorded behind it.
Nearer(n) == IF n = 0 THEN 0 ELSE n - 1

\* The head of a copy-engine stream completes; recorded events come nearer.
CopyCompletes(c) ==
  /\ chan[c] # <<>>
  /\ chan' = [chan EXCEPT ![c] = Tail(@)]
  /\ landed' = landed \cup Head(chan[c]).data
  /\ chunk_done' = Published(Head(chan[c]).tiles)
  /\ signals' = [n \in 1..Len(signals) |->
                   [signals[n] EXCEPT !.after[c] = Nearer(@)]]
  /\ tile_events' = [s \in EventSlots |->
       IF tile_events[s].ch = c THEN [tile_events[s] EXCEPT !.before = Nearer(@)]
                                ELSE tile_events[s]]
  /\ UNCHANGED <<gpuVars, pollerVars, hostVars, tile_event_head,
                 tile_event_tail, tile_events_inflight>>

\* The head of the signal stream runs once the events it waits for are done.
SignalCompletes ==
  /\ signals # <<>>
  /\ \A c \in ChanIds : Head(signals).after[c] = 0
  /\ chunk_done' = Published(Head(signals).tiles)
  /\ signals' = Tail(signals)
  /\ UNCHANGED <<gpuVars, pollerVars, eventVars, hostVars, chan, landed>>

-----------------------------------------------------------------------------
(* WarpSpecSession: synchronize, then launch again (which resets) *)

\* synchronize: cudaDeviceSynchronize returns when the kernel and all work
\* queued so far are done.
DeviceSynchronize ==
  /\ host = "running"
  /\ \A b \in Blocks : pc[b] = "exit"
  /\ \A c \in ChanIds : chan[c] = <<>>
  /\ signals = <<>>
  /\ host' = "stopping"
  /\ UNCHANGED <<config, launches, gpuVars, pollerVars, eventVars, chunk_done,
                 chan, signals, landed>>

\* Mutant: the counts of the last launch are kept.
KeptCounts == chunk_done

\* reset(): the completion counts are cleared.
ClearedCounts == [t \in TileIds |-> 0]

\* stop(): the thread leaves its loop, drains (NothingToDrain) and waits for
\* its copies (not for the signal stream); reset() and the next kernel launch.
Relaunch ==
  /\ host = "stopping"
  /\ launches < MaxLaunches
  /\ poll_pc = "poll" /\ batch = <<>> /\ read_idx \notin committed
  /\ has_async_dma => WaitCompletion
  /\ done_idx' = IF has_async_dma THEN latest_async_read ELSE done_idx
  /\ dirty' = IF has_async_dma THEN {} ELSE dirty
  /\ has_async_dma' = FALSE
  /\ chunk_done' = ClearedCounts
  /\ next_tile' = 0
  /\ tile_progress' = [t \in TileIds |-> 0]
  /\ pc' = [b \in Blocks |-> "acquire_tile"]
  /\ computed' = [t \in TileIds |-> [k \in Chunks |-> 0]]
  /\ host' = "running" /\ launches' = launches + 1
  /\ UNCHANGED <<config, entries, committed, tile, chunk, chunk_base,
                 pending, chunks_ready, compute_done, warp, read_idx, poll_pc,
                 batch, split, tile_signal_buf, latest_async_read,
                 next_channel, eventVars, chan, signals, landed>>

\* All launches are done and every stream is empty; the poller spins on.
Finished == /\ host = "stopping" /\ launches = MaxLaunches
            /\ poll_pc = "poll" /\ batch = <<>> /\ ~has_async_dma
            /\ signals = <<>>
            /\ UNCHANGED vars

\* The paths that count a chunk's tokens only from the batch with its marker.
Fallback == config.path \in {"deferred", "no_ce"}

\* There a chunk cut in two is counted short: the kernel polls for ever.
Hangs == Fallback /\ split /\ UNCHANGED vars

Next == \/ \E b \in Blocks : TransferWarp(b)
        \/ \E b \in Blocks, k \in Chunks : ComputeWarp(b, k)
        \/ Poller
        \/ \E c \in ChanIds : CopyCompletes(c)
        \/ SignalCompletes
        \/ DeviceSynchronize \/ Relaunch
        \/ Finished \/ Hangs

\* Resident warps, the pinned polling thread, the copy engines and the
\* session's thread keep running; none needs more than weak fairness.
Fairness == /\ \A b \in Blocks : WF_vars(TransferWarp(b))
            /\ \A b \in Blocks, k \in AnyChunk :
                 WF_vars(k \in Chunks /\ ComputeWarp(b, k))
            /\ WF_vars(Poller)
            /\ \A c \in ChanIds : WF_vars(CopyCompletes(c))
            /\ WF_vars(SignalCompletes)
            /\ WF_vars(DeviceSynchronize) /\ WF_vars(Relaunch)

Spec == Init /\ [][Next]_vars /\ Fairness

-----------------------------------------------------------------------------
(* Properties *)

TypeOK ==
  /\ next_tile \in Nat
  /\ \A n \in 1..write_idx : entries[n] \in [tile : TileIds, last : BOOLEAN]
  /\ committed \subseteq 0..(write_idx - 1)
  /\ read_idx \in 0..write_idx /\ done_idx \in 0..read_idx
  /\ chunk_done \in [TileIds -> Nat]
  /\ pc \in [Blocks -> {"acquire_tile", "acquire_slots", "commit", "wait",
                        "wait_compute", "exit"}]
  /\ chunks_ready \in [Blocks -> 0..K] /\ compute_done \in [Blocks -> 0..K]
  /\ warp \in [Blocks -> [Chunks -> {"wait", "compute", "sync"}]]
  /\ poll_pc \in {"poll", "flush", "data", "signal", "event", "events",
                   "publish", "idle"}
  /\ tile_progress \in [TileIds -> Nat] /\ tile_signal_buf \in [TileIds -> Nat]
  /\ dirty \subseteq ChanIds
  /\ landed \subseteq 0..(write_idx - 1)
  /\ tile_event_head \in EventSlots /\ tile_event_tail \in EventSlots
  /\ config \in Sessions /\ host \in {"running", "stopping"}

\* "Data is guaranteed to be available" (warp_spec.cuh): while a compute warp
\* runs on a chunk, every token of that chunk has been copied to the GPU.
DataAvailable ==
  \A b \in Blocks, k \in Chunks :
    warp[b][k] = "compute" =>
      \A i \in 0..(C - 1) : chunk_base[b][k] + i \in landed

\* The guarantee holds whatever order blocks, copies and signals run in, if no
\* chunk was cut in two.  The signal stream's value is read late, so
\* it may then count a later part; and host signals are ordered by no stream.
DataAvailableUnsplit ==
  config.path # "host" /\ (config.path = "device" => ~split) => DataAvailable

\* done_idx never runs ahead of the data: each slot below it has been copied,
\* although copies of different channels complete in any order (a deferred
\* event speaks only for its own channel, so a cut chunk is the exception).
DoneIdxLanded ==
  (config.path = "deferred" => ~split) => 0..(done_idx - 1) \subseteq landed

\* A batch never mixes chunks: the poller stops at FLAG_LAST_IN_TILE and a
\* chunk's slots are consecutive, whatever blocks acquire slots in between.
OneChunkPerBatch ==
  \A m, n \in 1..Len(batch) :
    m < n => /\ batch[n].slot = batch[m].slot + (n - m)
             /\ batch[m].tile = batch[n].tile
             /\ ~batch[m].last

\* stop() does not wait for the signal stream: when a chunk has been cut in two,
\* the signal of its last part may arrive in the next launch.
NoLateSignal == config.path = "device" /\ launches > 1 => ~split

\* "Reset tile completion signals" (warp_spec_session.cpp, reset): what the
\* GPU polls never exceeds what the poller has counted in this launch, nor that
\* the tokens of a tile, so no count of an earlier launch is left or arrives
\* late.
CountsOfThisLaunch ==
  NoLateSignal => \A t \in TileIds : /\ chunk_done[t] <= tile_progress[t]
                                    /\ tile_progress[t] <= K * C

\* The scheduler deals every chunk of every tile to exactly one compute warp.
EachChunkOnce ==
  /\ \A t \in TileIds, k \in Chunks : computed[t][k] <= 1
  /\ (\A b \in Blocks : pc[b] = "exit") =>
        \A t \in TileIds, k \in Chunks : computed[t][k] = 1

\* When the kernel has ended the poller has consumed all its descriptors, so
\* the drain of stop() (which ignores flags, and publishes to
\* tile_chunk_done only) finds no descriptor and no event.
NothingToDrain ==
  NoLateSignal /\ (\A b \in Blocks : pc[b] = "exit") =>
    /\ read_idx = write_idx /\ poll_pc # "flush"
    /\ tile_events_inflight = 0

\* "... multi-block deadlocks where the GPU waits for a cumulative count that
\* never arrives" (batch_processor.cpp, flush_batch) do not occur: every launch
\* ends, except where a fallback path met a chunk cut in two.
EveryLaunchEnds == \/ <>[](launches = MaxLaunches /\ host = "stopping")
                   \/ <>(Fallback /\ split)
=============================================================================
