------------------------------ MODULE SGPipeline ------------------------------
(***************************************************************************)
(* Scatter-gather mode, end to end: SGTaskQueue (a ring of list headers    *)
(* and a pool of entries), the transfer and compute warps of              *)
(* sg_warp_spec.cuh that claim lists, turn their entries into descriptors  *)
(* and wait for the copies, the polling thread (process_batch_sg and, for  *)
(* a list split by a gap timeout, process_batch), the copy engines with    *)
(* the signal stream, and SGWarpSpecSession.                               *)
(*                                                                         *)
(* Slots of the descriptor ring are handed out and consumed in order, as   *)
(* SlotQueue promises.  An entry is abstracted to its list's id and its    *)
(* place in the list.  Callers number the lists of a launch 0, 1, 2, ...,  *)
(* as the examples do.  done_idx is not read by anyone in this mode.       *)
(***************************************************************************)
EXTENDS Integers, Sequences, FiniteSets, FiniteSetsExt

CONSTANTS Blocks,               \* thread blocks of the kernel
          MAX_SG_LISTS,         \* entries of the list ring
          MAX_SG_POOL_ENTRIES,  \* entries of the pool
          Counts,               \* sizes a submitted list may have
          Sessions,             \* the sessions considered, see SessionShape
          Channels,             \* num_channels_ of the copy-engine manager
          BATCH_THRESHOLD,      \* the poller flushes a batch of this size
          WORD,                 \* 2^64 in the code: indices are unsigned
          MaxLists              \* bound: lists submitted between two resets

\* How the end of a list is told depends on what the session has:
\*   fine       d_list_done, written by the signal stream
\*   no_stream  no signal stream: d_list_done, written by the poller
\*   coarse     no d_list_done: the blocks look at lists_completed
\*   no_ce      no copy engine: the poller copies, and tells nobody
Paths == {"fine", "no_stream", "coarse", "no_ce"}

\* A session: its path, num_blocks_, and how often it is launched (a bound).
SessionShape == [path : Paths, blocks : 1..Cardinality(Blocks),
                 launches : Nat \ {0}]

ASSUME SGAssumption == /\ IsFiniteSet(Blocks)
                       /\ MAX_SG_LISTS \in Nat \ {0}
                       /\ MAX_SG_POOL_ENTRIES \in Nat \ {0}
                       /\ Counts \subseteq Nat \ {0}
                       /\ Channels \in Nat \ {0}
                       /\ BATCH_THRESHOLD \in Nat \ {0}
                       /\ WORD \in Nat /\ WORD > MaxLists + MAX_SG_POOL_ENTRIES
                       /\ MaxLists \in 1..MAX_SG_LISTS
                       /\ \A s \in Sessions : s \in SessionShape

\* submit_sg_list never waits for room in the pool: its callers submit, between
\* two resets, only as many entries as the pool has.
ListsFitPool == \A n \in Counts : MaxLists * n <= MAX_SG_POOL_ENTRIES

\* All are below MAX_SG_LISTS: of a list with a larger id nothing would be copied
\* or reported (process_batch_sg skips its descriptors).
ListIds == 0..(MaxLists - 1)
Ring    == 0..(MAX_SG_LISTS - 1)
Pool    == 0..(MAX_SG_POOL_ENTRIES - 1)
ChanIds == 0..(Channels - 1)
NoEntry == <<-1, 0>>

VARIABLES
  config, grid,                        \* the session, the blocks of its kernel
  lists,                               \* SGTaskQueue.lists, the headers
  sequence,                            \* lists[i].sequence
  pool,                                \* SGTaskQueue.entries
  list_alloc_idx, entry_alloc_idx,
  list_read_idx, entry_consumed_idx,
  lists_completed, terminate,
  list_done,                           \* d_list_done
  pc, list_idx,                        \* a block's transfer warp, its claim
  lists_processed,
  state,                               \* _SGWarpSpecState's header fields
  desc_base, pending,                  \* its descriptor slots; markers to store
  list_ready, compute_done, terminated,
  warp, view,                          \* a block's compute warp, its SGListView
  entries, committed, read_idx,        \* the descriptor ring
  poll_pc, batch, has_async_dma,       \* the polling thread
  chan, next_channel, dirty, signals,  \* CopyEngineManager, signal_stream_
  landed,                              \* entries copied to the GPU
  host, expected, launches,            \* the session's thread
  since_reset,                         \* launches since the SG queue was reset
  sub_pc, sub,                         \* a submitting warp in sg_submit_list
  computed                             \* history: computations of each list

queueVars  == <<lists, sequence, pool, list_alloc_idx, entry_alloc_idx>>
claimVars  == <<list_read_idx, entry_consumed_idx>>
claimed    == <<list_idx, lists_processed>>
blockVars  == <<pc, claimed, state, desc_base, pending, terminated>>
handVars   == <<list_ready, compute_done>>
warpVars   == <<warp, view, computed>>
ringVars   == <<entries, committed>>
pollVars   == <<read_idx, poll_pc, batch, has_async_dma>>
engineVars == <<chan, next_channel, dirty>>
doneVars   == <<list_done, signals, landed>>
launchVars == <<config, grid, launches, since_reset>>
hostVars   == <<launchVars, host, expected, terminate>>
subVars    == <<sub_pc, sub>>
vars == <<queueVars, claimVars, blockVars, handVars, warpVars, ringVars,
          pollVars, engineVars, doneVars, lists_completed, hostVars, subVars>>

NoList == [pool_offset |-> 0, count |-> 0, list_id |-> 0]

\* Both queues and the completion array are allocated zeroed; no kernel runs.
Init ==
  /\ config \in Sessions
  /\ grid \in {bs \in SUBSET Blocks : Cardinality(bs) = config.blocks}
  /\ lists = [r \in Ring |-> NoList] /\ sequence = [r \in Ring |-> 0]
  /\ pool = [e \in Pool |-> NoEntry]
  /\ list_alloc_idx = 0 /\ entry_alloc_idx = 0
  /\ list_read_idx = 0 /\ entry_consumed_idx = 0
  /\ lists_completed = 0 /\ terminate = FALSE
  /\ list_done = [l \in ListIds |-> FALSE]
  /\ pc = [b \in Blocks |-> "exit"] /\ list_idx = [b \in Blocks |-> 0]
  /\ lists_processed = [b \in Blocks |-> 0]
  /\ state = [b \in Blocks |-> NoList]
  /\ desc_base = [b \in Blocks |-> 0] /\ pending = [b \in Blocks |-> {}]
  /\ list_ready = [b \in Blocks |-> FALSE]
  /\ compute_done = [b \in Blocks |-> FALSE]
  /\ terminated = [b \in Blocks |-> FALSE]
  /\ warp = [b \in Blocks |-> "exit"] /\ view = [b \in Blocks |-> NoList]
  /\ entries = <<>> /\ committed = {} /\ read_idx = 0
  /\ poll_pc = "poll" /\ batch = <<>> /\ has_async_dma = FALSE
  /\ chan = [c \in ChanIds |-> <<>>] /\ next_channel = 0 /\ dirty = {}
  /\ signals = <<>> /\ landed = {}
  /\ host = "prefill" /\ expected = 0 /\ launches = 0
  /\ since_reset = 0
  /\ sub_pc = "idle" /\ sub = NoList
  /\ computed = [l \in ListIds |-> 0]

-----------------------------------------------------------------------------
(* Submitting a list *)

Entries(l, n)  == {<<l, i>> : i \in 0..(n - 1)}
PoolSlot(o, i) == (o + i) % MAX_SG_POOL_ENTRIES

\* The pool with n entries of list l written from offset o on.
Written(o, l, n) ==
  [e \in Pool |-> IF \E i \in 0..(n - 1) : PoolSlot(o, i) = e
                    THEN <<l, CHOOSE i \in 0..(n - 1) : PoolSlot(o, i) = e>>
                    ELSE pool[e]]

Header(o, n, l) == [pool_offset |-> o % MAX_SG_POOL_ENTRIES, count |-> n,
                    list_id |-> l]

\* Mutant: the pool index advances by one entry per list.
PoolTakenOne(n) == entry_alloc_idx + 1

\* entry_alloc_idx after a list of n entries.
PoolTaken(n) == entry_alloc_idx + n

\* SGWarpSpecSession::submit_sg_list, before, during or after a launch: entries,
\* header and, last, the marker; nobody looks at a list before its marker.
HostSubmit(n) ==
  /\ host \in {"prefill", "running", "stopped"}
  /\ list_alloc_idx < MaxLists
  /\ pool' = Written(entry_alloc_idx, list_alloc_idx, n)
  /\ entry_alloc_idx' = PoolTaken(n)
  /\ list_alloc_idx' = list_alloc_idx + 1
  /\ lists' = [lists EXCEPT ![list_alloc_idx % MAX_SG_LISTS] =
                              Header(entry_alloc_idx, n, list_alloc_idx)]
  /\ sequence' = [sequence EXCEPT ![list_alloc_idx % MAX_SG_LISTS] =
                                    list_alloc_idx + 1]
  /\ UNCHANGED <<claimVars, blockVars, handVars, warpVars, ringVars, pollVars,
                 engineVars, doneVars, lists_completed, hostVars, subVars>>

\* sg_submit_list, called by a warp of the running kernel.
BeginSubmit(n) ==
  /\ sub_pc = "idle"
  /\ host = "running"
  /\ list_alloc_idx < MaxLists
  /\ sub' = [pool_offset |-> 0, count |-> n, list_id |-> list_alloc_idx]
  /\ sub_pc' = "entry_space"
  /\ UNCHANGED <<queueVars, claimVars, blockVars, handVars, warpVars, ringVars,
                 pollVars, engineVars, doneVars, lists_completed, hostVars>>

\* Unsigned subtraction.
Minus(a, b) == (a - b) % WORD

\* sg_wait_entry_space.
WaitEntrySpace ==
  /\ sub_pc = "entry_space"
  /\ Minus(entry_alloc_idx, entry_consumed_idx)
       <= MAX_SG_POOL_ENTRIES - sub.count
  /\ sub_pc' = "list_space"
  /\ UNCHANGED <<queueVars, claimVars, blockVars, handVars, warpVars, ringVars,
                 pollVars, engineVars, doneVars, lists_completed, hostVars,
                 sub>>

\* sg_wait_list_space.
WaitListSpace ==
  /\ sub_pc = "list_space"
  /\ Minus(list_alloc_idx, list_read_idx) < MAX_SG_LISTS - 1
  /\ sub_pc' = "entries"
  /\ UNCHANGED <<queueVars, claimVars, blockVars, handVars, warpVars, ringVars,
                 pollVars, engineVars, doneVars, lists_completed, hostVars,
                 sub>>

\* sg_alloc_entries and sg_write_entries.
AllocEntries ==
  /\ sub_pc = "entries"
  /\ sub' = [sub EXCEPT !.pool_offset = entry_alloc_idx]
  /\ pool' = Written(entry_alloc_idx, sub.list_id, sub.count)
  /\ entry_alloc_idx' = PoolTaken(sub.count)
  /\ sub_pc' = "commit"
  /\ UNCHANGED <<lists, sequence, list_alloc_idx, claimVars, blockVars,
                 handVars, warpVars, ringVars, pollVars, engineVars, doneVars,
                 lists_completed, hostVars>>

\* sg_alloc_list and sg_commit_list.
CommitList ==
  /\ sub_pc = "commit"
  /\ list_alloc_idx' = list_alloc_idx + 1
  /\ lists' = [lists EXCEPT ![list_alloc_idx % MAX_SG_LISTS] =
                       Header(sub.pool_offset, sub.count, sub.list_id)]
  /\ sequence' = [sequence EXCEPT ![list_alloc_idx % MAX_SG_LISTS] =
                                    list_alloc_idx + 1]
  /\ sub_pc' = "idle"
  /\ UNCHANGED <<pool, entry_alloc_idx, claimVars, blockVars, handVars,
                 warpVars, ringVars, pollVars, engineVars, doneVars,
                 lists_completed, hostVars, sub>>

Submitter == \/ \E n \in Counts : BeginSubmit(n)
             \/ WaitEntrySpace \/ WaitListSpace \/ AllocEntries \/ CommitList

-----------------------------------------------------------------------------
(* The kernel: _sg_transfer_warp_loop *)

\* atomicAdd(&list_read_idx, 1): claimed before it is known to exist.
ClaimList(b) ==
  /\ pc[b] = "claim"
  /\ list_idx' = [list_idx EXCEPT ![b] = list_read_idx]
  /\ list_read_idx' = list_read_idx + 1
  /\ pc' = [pc EXCEPT ![b] = "poll"]
  /\ UNCHANGED <<queueVars, entry_consumed_idx, lists_processed, state,
                 desc_base, pending,
                 terminated, handVars, warpVars, ringVars, pollVars,
                 engineVars, doneVars, lists_completed, hostVars, subVars>>

Slot(b) == list_idx[b] % MAX_SG_LISTS

\* The marker is there: read the header and reset the block's shared state.
ReadList(b) ==
  /\ pc[b] = "poll"
  /\ sequence[Slot(b)] = list_idx[b] + 1
  /\ state' = [state EXCEPT ![b] = lists[Slot(b)]]
  /\ list_ready' = [list_ready EXCEPT ![b] = FALSE]
  /\ compute_done' = [compute_done EXCEPT ![b] = FALSE]
  /\ pc' = [pc EXCEPT ![b] = "acquire"]
  /\ UNCHANGED <<queueVars, claimVars, claimed, desc_base, pending,
                 terminated, warpVars, ringVars, pollVars, engineVars,
                 doneVars, lists_completed, hostVars, subVars>>

\* The marker is not there; then, with a second load, terminate is looked at.
NotCommitted(b) ==
  /\ pc[b] = "poll"
  /\ sequence[Slot(b)] # list_idx[b] + 1
  /\ pc' = [pc EXCEPT ![b] = "check_terminate"]
  /\ UNCHANGED <<queueVars, claimVars, claimed, state, desc_base, pending,
                 terminated, handVars, warpVars, ringVars, pollVars,
                 engineVars, doneVars, lists_completed, hostVars, subVars>>

CheckTerminate(b) ==
  /\ pc[b] = "check_terminate"
  /\ pc' = [pc EXCEPT ![b] = IF terminate THEN "exit" ELSE "poll"]
  /\ terminated' = [terminated EXCEPT ![b] = terminate]
  /\ UNCHANGED <<queueVars, claimVars, claimed, state, desc_base, pending,
                 handVars, warpVars, ringVars, pollVars, engineVars, doneVars,
                 lists_completed, hostVars, subVars>>

\* atomicAdd on the descriptor ring's write_idx, the wait for room, and the
\* conversion: each descriptor is what the pool holds for the list now.
WriteDescriptors(b) ==
  /\ pc[b] = "acquire"
  /\ desc_base' = [desc_base EXCEPT ![b] = Len(entries)]
  /\ entries' = entries \o
       [i \in 1..state[b].count |->
          [entry   |-> pool[PoolSlot(state[b].pool_offset, i - 1)],
           list_id |-> state[b].list_id,
           last    |-> i = state[b].count]]
  /\ pending' = [pending EXCEPT ![b] = 0..(state[b].count - 1)]
  /\ pc' = [pc EXCEPT ![b] = "commit"]
  /\ UNCHANGED <<queueVars, claimVars, claimed, state, terminated, handVars,
                 warpVars, committed, pollVars, engineVars, doneVars,
                 lists_completed, hostVars, subVars>>

\* The markers of the list's descriptors, stored by the lanes in any order.
CommitSlot(b) ==
  /\ pc[b] = "commit"
  /\ \E i \in pending[b] :
       /\ committed' = committed \cup {desc_base[b] + i}
       /\ pending' = [pending EXCEPT ![b] = @ \ {i}]
       /\ pc' = [pc EXCEPT ![b] = IF pending[b] = {i} THEN "clear" ELSE "commit"]
  /\ UNCHANGED <<queueVars, claimVars, claimed, state, desc_base, terminated,
                 handVars, warpVars, entries, pollVars, engineVars, doneVars,
                 lists_completed, hostVars, subVars>>

\* The list's marker is cleared and the pool index raised to the list's end:
\* a maximum, taken of the offset within the pool.
ClearList(b) ==
  /\ pc[b] = "clear"
  /\ sequence' = [sequence EXCEPT ![Slot(b)] = 0]
  /\ entry_consumed_idx' =
       Max({entry_consumed_idx, state[b].pool_offset + state[b].count})
  /\ pc' = [pc EXCEPT ![b] = "wait_done"]
  /\ UNCHANGED <<lists, pool, list_alloc_idx, entry_alloc_idx, list_read_idx,
                 claimed, state, desc_base, pending, terminated, handVars,
                 warpVars, ringVars, pollVars, engineVars, doneVars,
                 lists_completed, hostVars, subVars>>

\* d_list_done[list_id] != 0 or, without it, as many lists have been completed
\* as this block has seen.
ListDone(b) == IF config.path = "coarse"
                 THEN lists_completed >= lists_processed[b] + 1
                 ELSE list_done[state[b].list_id]

\* The list is handed to the compute warp.
WaitListDone(b) ==
  /\ pc[b] = "wait_done"
  /\ ListDone(b)
  /\ list_ready' = [list_ready EXCEPT ![b] = TRUE]
  /\ lists_processed' = [lists_processed EXCEPT ![b] = @ + 1]
  /\ pc' = [pc EXCEPT ![b] = "wait_compute"]
  /\ UNCHANGED <<queueVars, claimVars, list_idx, state, desc_base, pending,
                 terminated, compute_done, warpVars, ringVars, pollVars,
                 engineVars, doneVars, lists_completed, hostVars, subVars>>

WaitCompute(b) ==
  /\ pc[b] = "wait_compute"
  /\ compute_done[b]
  /\ pc' = [pc EXCEPT ![b] = "claim"]
  /\ UNCHANGED <<queueVars, claimVars, claimed, state, desc_base, pending,
                 terminated, handVars, warpVars, ringVars, pollVars,
                 engineVars, doneVars, lists_completed, hostVars, subVars>>

TransferWarp(b) == \/ ClaimList(b) \/ ReadList(b) \/ NotCommitted(b)
                   \/ CheckTerminate(b) \/ WriteDescriptors(b)
                   \/ CommitSlot(b) \/ ClearList(b) \/ WaitListDone(b)
                   \/ WaitCompute(b)

\* The compute warp leaves, or builds its view and calls compute_fn ...
StartCompute(b) ==
  /\ warp[b] = "wait"
  /\ list_ready[b] \/ terminated[b]
  /\ IF terminated[b]
       THEN /\ warp' = [warp EXCEPT ![b] = "exit"]
            /\ UNCHANGED <<view, computed>>
       ELSE /\ warp' = [warp EXCEPT ![b] = "compute"]
            /\ view' = [view EXCEPT ![b] = state[b]]
            /\ computed' = [computed EXCEPT ![state[b].list_id] = @ + 1]
  /\ UNCHANGED <<queueVars, claimVars, blockVars, handVars, ringVars, pollVars,
                 engineVars, doneVars, lists_completed, hostVars, subVars>>

\* ... then stores compute_done = 1 ...
FinishCompute(b) ==
  /\ warp[b] = "compute"
  /\ compute_done' = [compute_done EXCEPT ![b] = TRUE]
  /\ warp' = [warp EXCEPT ![b] = "clear"]
  /\ UNCHANGED <<queueVars, claimVars, blockVars, list_ready, view, computed,
                 ringVars, pollVars, engineVars, doneVars, lists_completed,
                 hostVars, subVars>>

\* ... and then list_ready = 0, whatever the transfer warp did in between.
ClearReady(b) ==
  /\ warp[b] = "clear"
  /\ list_ready' = [list_ready EXCEPT ![b] = FALSE]
  /\ warp' = [warp EXCEPT ![b] = "wait"]
  /\ UNCHANGED <<queueVars, claimVars, blockVars, compute_done, view, computed,
                 ringVars, pollVars, engineVars, doneVars, lists_completed,
                 hostVars, subVars>>

ComputeWarp(b) == StartCompute(b) \/ FinishCompute(b) \/ ClearReady(b)

-----------------------------------------------------------------------------
(* The polling thread *)

\* start() follows the launch; stop() is the last thing synchronize does.
PollerRuns == host \notin {"prefill", "stopped"}

PollEntry ==
  /\ PollerRuns /\ poll_pc = "poll"
  /\ read_idx \in committed
  /\ LET e == entries[read_idx + 1] IN
       /\ batch' = Append(batch, e)
       /\ poll_pc' = IF e.last \/ Len(batch) + 1 >= BATCH_THRESHOLD
                       THEN "flush" ELSE "poll"
  /\ read_idx' = read_idx + 1
  /\ UNCHANGED <<queueVars, claimVars, blockVars, handVars, warpVars, ringVars,
                 has_async_dma, engineVars, doneVars, lists_completed,
                 hostVars, subVars>>

GapTimeout ==
  /\ PollerRuns /\ poll_pc = "poll"
  /\ batch # <<>> /\ read_idx \notin committed
  /\ poll_pc' = "flush"
  /\ UNCHANGED <<queueVars, claimVars, blockVars, handVars, warpVars, ringVars,
                 read_idx, batch, has_async_dma, engineVars, doneVars,
                 lists_completed, hostVars, subVars>>

\* submit_scatter_gather: the channel of copy i of n, and next_channel_ after.
ChannelOf(i, n) == IF n <= Channels THEN (next_channel + i) % Channels
                   ELSE i \div ((n + Channels - 1) \div Channels)
NextChannel(n)  == IF n <= Channels THEN (next_channel + n) % Channels ELSE 0

\* The entries of the batch that channel c copies when entry k of the batch is
\* part of copy[k], one of n.
CopiedBy(c, n, copy) ==
  {batch[k].entry : k \in {j \in 1..Len(batch) : c = ChannelOf(copy[j], n)}}

\* Mutant: the part of a list that a gap timeout flushes is signalled too.
SgModeAlways == TRUE

\* flush_batch: sg_mode, FLAG_LAST_IN_TILE is in the batch.
SgMode == \E k \in 1..Len(batch) : batch[k].last

\* process_batch_sg makes one copy of a list that is contiguous, or one of each
\* entry; process_batch sorts and merges the entries of a part of a list without
\* its end, so that they become any number of copies in any order.
Division(n, copy) ==
  IF SgMode THEN n = 1 \/ \A k \in 1..Len(batch) : copy[k] = k - 1
            ELSE \A i \in 0..(n - 1) : \E k \in 1..Len(batch) : copy[k] = i

\* The copies of a batch.  A part of a list is not signalled.
SubmitData(n, copy) ==
  /\ poll_pc = "flush" /\ config.path # "no_ce"
  /\ Division(n, copy)
  /\ LET used == {c \in ChanIds : CopiedBy(c, n, copy) # {}}
     IN /\ chan' = [c \in ChanIds |-> IF c \in used
                      THEN Append(chan[c], CopiedBy(c, n, copy)) ELSE chan[c]]
        /\ dirty' = dirty \cup used
  /\ next_channel' = NextChannel(n)
  /\ has_async_dma' = TRUE
  /\ IF SgMode THEN poll_pc' = "signal" /\ UNCHANGED batch
               ELSE poll_pc' = "poll" /\ batch' = <<>>
  /\ UNCHANGED <<queueVars, claimVars, blockVars, handVars, warpVars, ringVars,
                 read_idx, doneVars, lists_completed, hostVars, subVars>>

SubmitBatch == \E n \in 1..Len(batch) :
                 \E copy \in [1..Len(batch) -> 0..(n - 1)] : SubmitData(n, copy)

BatchLists == {batch[k].list_id : k \in 1..Len(batch)}

\* Mutant: the signal stream waits for nothing.
QueuedNothing == [c \in ChanIds |-> 0]

\* make_stream_wait_on_all: the work queued on each dirty channel.
QueuedOnDirty == [c \in ChanIds |-> IF c \in dirty THEN Len(chan[c]) ELSE 0]

\* process_batch_sg's signals: d_list_done by the signal stream, behind the
\* copies; lists_completed at once.
SignalLists ==
  /\ poll_pc = "signal" /\ config.path = "fine"
  /\ signals' = Append(signals, [lists |-> BatchLists, after |-> QueuedOnDirty])
  /\ lists_completed' = lists_completed + Cardinality(BatchLists)
  /\ batch' = <<>>
  /\ poll_pc' = "poll"
  /\ UNCHANGED <<queueVars, claimVars, blockVars, handVars, warpVars, ringVars,
                 read_idx, has_async_dma, engineVars, list_done, landed,
                 hostVars, subVars>>

\* wait_completion: the dirty channels are empty.
WaitCompletion == \A c \in dirty : chan[c] = <<>>

\* Without the array or the stream the poller waits for the copies itself, and
\* then stores what there is.
CompleteLists ==
  /\ poll_pc = "signal" /\ config.path \in {"no_stream", "coarse"}
  /\ WaitCompletion
  /\ dirty' = {}
  /\ list_done' = [l \in ListIds |->
       list_done[l] \/ (config.path = "no_stream" /\ l \in BatchLists)]
  /\ lists_completed' = lists_completed + Cardinality(BatchLists)
  /\ batch' = <<>>
  /\ poll_pc' = "poll"
  /\ UNCHANGED <<queueVars, claimVars, blockVars, handVars, warpVars, ringVars,
                 read_idx, has_async_dma, chan, next_channel, signals, landed,
                 hostVars, subVars>>

\* process_batch_no_ce: the poller copies; no tiled queue, so no signal.
CopyNoCe ==
  /\ poll_pc = "flush" /\ config.path = "no_ce"
  /\ landed' = landed \cup {batch[k].entry : k \in 1..Len(batch)}
  /\ batch' = <<>>
  /\ poll_pc' = "poll"
  /\ UNCHANGED <<queueVars, claimVars, blockVars, handVars, warpVars, ringVars,
                 read_idx, has_async_dma, engineVars, list_done, signals,
                 lists_completed, hostVars, subVars>>

\* Nothing to do but copies in flight: the poller waits for them.
IdleWait ==
  /\ PollerRuns /\ has_async_dma
  /\ \/ /\ poll_pc = "poll" /\ batch = <<>> /\ read_idx \notin committed
        /\ poll_pc' = "idle"
        /\ UNCHANGED <<dirty, has_async_dma>>
     \/ /\ poll_pc = "idle"
        /\ WaitCompletion
        /\ poll_pc' = "poll"
        /\ dirty' = {} /\ has_async_dma' = FALSE
  /\ UNCHANGED <<queueVars, claimVars, blockVars, handVars, warpVars, ringVars,
                 read_idx, batch, chan, next_channel, doneVars,
                 lists_completed, hostVars, subVars>>

Poller == \/ PollEntry \/ GapTimeout
          \/ SubmitBatch \/ SignalLists \/ CompleteLists \/ CopyNoCe \/ IdleWait

-----------------------------------------------------------------------------
(* The copy engines and the signal stream *)

CopyCompletes(c) ==
  /\ chan[c] # <<>>
  /\ chan' = [chan EXCEPT ![c] = Tail(@)]
  /\ landed' = landed \cup Head(chan[c])
  /\ signals' = [n \in 1..Len(signals) |->
       [signals[n] EXCEPT !.after[c] = IF @ = 0 THEN 0 ELSE @ - 1]]
  /\ UNCHANGED <<queueVars, claimVars, blockVars, handVars, warpVars, ringVars,
                 pollVars, next_channel, dirty, list_done, lists_completed,
                 hostVars, subVars>>

SignalCompletes ==
  /\ signals # <<>>
  /\ \A c \in ChanIds : Head(signals).after[c] = 0
  /\ list_done' = [l \in ListIds |-> list_done[l] \/ l \in Head(signals).lists]
  /\ signals' = Tail(signals)
  /\ UNCHANGED <<queueVars, claimVars, blockVars, handVars, warpVars, ringVars,
                 pollVars, engineVars, landed, lists_completed, hostVars,
                 subVars>>

-----------------------------------------------------------------------------
(* SGWarpSpecSession *)

\* launch: the descriptor ring and the completion state are reset, the SG
\* queue is not, whether or not reset() was called since the last launch; the
\* kernel's blocks start.
Launch ==
  /\ host \in {"prefill", "stopped"} /\ launches < config.launches
  /\ terminate' = FALSE /\ lists_completed' = 0
  /\ list_done' = [l \in ListIds |-> FALSE]
  /\ entries' = <<>> /\ committed' = {} /\ read_idx' = 0
  /\ pc' = [b \in Blocks |-> IF b \in grid THEN "claim" ELSE "exit"]
  /\ warp' = [b \in Blocks |-> IF b \in grid THEN "wait" ELSE "exit"]
  /\ list_ready' = [b \in Blocks |-> FALSE]
  /\ compute_done' = [b \in Blocks |-> FALSE]
  /\ terminated' = [b \in Blocks |-> FALSE]
  /\ list_idx' = [b \in Blocks |-> 0] /\ desc_base' = [b \in Blocks |-> 0]
  /\ lists_processed' = [b \in Blocks |-> 0]
  /\ state' = [b \in Blocks |-> NoList] /\ view' = [b \in Blocks |-> NoList]
  /\ host' = "running" /\ launches' = launches + 1
  /\ since_reset' = since_reset + 1
  /\ UNCHANGED <<queueVars, claimVars, pending, computed, poll_pc, batch,
                 has_async_dma, engineVars, signals, landed, expected, config,
                 grid, subVars>>

\* synchronize: how many lists there are ...
StartSync ==
  /\ host = "running"
  /\ expected' = list_alloc_idx
  /\ host' = "sync"
  /\ UNCHANGED <<launchVars, terminate, queueVars, claimVars, blockVars, handVars,
                 warpVars, ringVars, pollVars, engineVars, doneVars,
                 lists_completed, subVars>>

\* Mutant: lists that are claimed are taken for done.
AllClaimed == list_read_idx >= expected

\* lists_completed >= expected.
AllCompleted == lists_completed >= expected

\* ... wait until all are completed, then end the kernel ...
Terminate ==
  /\ host = "sync"
  /\ AllCompleted
  /\ terminate' = TRUE
  /\ host' = "terminating"
  /\ UNCHANGED <<expected, launchVars, queueVars, claimVars, blockVars, handVars,
                 warpVars, ringVars, pollVars, engineVars, doneVars,
                 lists_completed, subVars>>

\* ... and for the device: the kernel and all that is queued on the streams.
DeviceSynchronize ==
  /\ host = "terminating"
  /\ \A b \in Blocks : pc[b] = "exit" /\ warp[b] = "exit"
  /\ \A c \in ChanIds : chan[c] = <<>>
  /\ signals = <<>>
  /\ host' = "stopping"
  /\ UNCHANGED <<expected, launchVars, terminate, queueVars, claimVars,
                 blockVars, handVars, warpVars, ringVars, pollVars, engineVars,
                 doneVars, lists_completed, subVars>>

\* The poller's stop(): it leaves its loop with nothing to drain, and waits.
StopPoller ==
  /\ host = "stopping"
  /\ poll_pc = "poll" /\ batch = <<>> /\ read_idx \notin committed
  /\ has_async_dma => WaitCompletion
  /\ dirty' = IF has_async_dma THEN {} ELSE dirty
  /\ has_async_dma' = FALSE
  /\ host' = "stopped"
  /\ UNCHANGED <<expected, launchVars, terminate, queueVars, claimVars,
                 blockVars, handVars, warpVars, ringVars, read_idx, poll_pc,
                 batch, chan, next_channel, doneVars, lists_completed, subVars>>

\* Mutant: reset leaves the claim counter where the idle claims moved it.
ReadIdxKept == list_read_idx

\* reset(): list_read_idx = 0.
ReadIdxReset == 0

\* reset(): everything of the SG queue; the next launch brings new data.
Reset ==
  /\ host = "stopped" /\ launches < config.launches
  /\ list_alloc_idx' = 0 /\ list_read_idx' = ReadIdxReset
  /\ entry_alloc_idx' = 0 /\ entry_consumed_idx' = 0
  /\ lists_completed' = 0 /\ terminate' = FALSE
  /\ sequence' = [r \in Ring |-> 0]
  /\ list_done' = [l \in ListIds |-> FALSE]
  /\ entries' = <<>> /\ committed' = {} /\ read_idx' = 0
  /\ landed' = {} /\ computed' = [l \in ListIds |-> 0]
  /\ host' = "prefill" /\ since_reset' = 0
  /\ UNCHANGED <<lists, pool, blockVars, handVars, warp, view, poll_pc, batch,
                 has_async_dma, engineVars, signals, expected, config, grid,
                 launches, subVars>>

Session == \/ Launch \/ StartSync \/ Terminate \/ DeviceSynchronize
           \/ StopPoller \/ Reset

Running == \/ \E b \in Blocks : TransferWarp(b) \/ ComputeWarp(b)
           \/ Poller
           \/ \E c \in ChanIds : CopyCompletes(c)
           \/ SignalCompletes

\* Lists submitted by the host, before and after the launch ...
Next == Running \/ Session \/ \E n \in Counts : HostSubmit(n)
Spec == Init /\ [][Next]_vars

\* ... or by a warp of the kernel through sg_submit_list, while the host leaves
\* the kernel running.  Resident warps, the pinned polling thread and the copy
\* engines keep going.
DynamicNext == Running \/ Launch \/ Submitter
DynamicSpec == /\ Init /\ [][DynamicNext]_vars
               /\ \A b \in Blocks : WF_vars(TransferWarp(b))
               /\ \A b \in Blocks : WF_vars(ComputeWarp(b))
               /\ WF_vars(Submitter) /\ WF_vars(Poller)
               /\ \A c \in ChanIds : WF_vars(CopyCompletes(c))
               /\ WF_vars(SignalCompletes)

-----------------------------------------------------------------------------
(* Properties *)

Headers == [pool_offset : 0..(MaxLists * MAX_SG_POOL_ENTRIES),
            count : Counts \cup {0}, list_id : ListIds]

TypeOK ==
  /\ config \in Sessions /\ grid \subseteq Blocks
  /\ lists \in [Ring -> Headers] /\ sequence \in [Ring -> 0..MaxLists]
  /\ list_read_idx \in 0..(MaxLists + since_reset * Cardinality(grid))
  /\ lists_completed \in 0..MaxLists
  /\ list_done \in [ListIds -> BOOLEAN]
  /\ pc \in [Blocks -> {"claim", "poll", "check_terminate", "acquire",
                        "commit", "clear", "wait_done", "wait_compute", "exit"}]
  /\ warp \in [Blocks -> {"wait", "compute", "clear", "exit"}]
  /\ state \in [Blocks -> Headers] /\ view \in [Blocks -> Headers]
  /\ read_idx \in 0..Len(entries)
  /\ poll_pc \in {"poll", "flush", "signal", "idle"}
  /\ dirty \subseteq ChanIds
  /\ host \in {"prefill", "running", "sync", "terminating", "stopping",
               "stopped"}

\* The entries of the list whose header is h.
EntriesOf(h) == Entries(h.list_id, h.count)

\* While compute_fn runs on a list, each of its entries has been copied to the
\* GPU, also when gap timeouts split the list over batches of which only the
\* last is signalled (sg_warp_spec.cuh waits for d_list_done[list_id]).  Without
\* d_list_done this holds for a single block only: the list that raised
\* lists_completed may be another block's.
ListDataAvailable ==
  (config.path = "coarse" => config.blocks = 1) =>
    \A b \in Blocks : warp[b] = "compute" => EntriesOf(view[b]) \subseteq landed

\* Every descriptor carries the entry of its list that it stands for: the pool
\* was not overwritten between submit_sg_list and the conversion.
EntriesIntact ==
  \A n \in 1..Len(entries) :
    /\ entries[n].entry[1] = entries[n].list_id
    /\ n > 1 /\ ~entries[n - 1].last =>
         entries[n].entry[2] = entries[n - 1].entry[2] + 1

\* When synchronize returns, whichever way lists are completed and whether or
\* not the queue was reset, each list submitted before has been computed
\* exactly once and is on the GPU: no block left because of terminate with a
\* list to do, and no list was claimed twice.  And stop() finds nothing to
\* drain, whose loop forgets the flags of the entries.
SynchronizeMeansDone ==
  /\ \A l \in ListIds : computed[l] <= 1
  /\ host = "stopping" => read_idx = Len(entries) /\ batch = <<>>
  /\ host = "stopped" =>
       \A l \in 0..(expected - 1) :
         computed[l] = 1 /\ EntriesOf(lists[l % MAX_SG_LISTS]) \subseteq landed

\* The entries handed to the copy engines so far.
Submitted == landed \cup UNION {UNION {chan[c][k] : k \in 1..Len(chan[c])} :
                                  c \in ChanIds}

\* lists_completed, which synchronize waits for, never counts a list that is
\* not wholly submitted, and none twice, however lists are split into batches.
CompletedListsSubmitted ==
  lists_completed <= Cardinality({l \in 0..(list_alloc_idx - 1) :
                       EntriesOf(lists[l % MAX_SG_LISTS]) \subseteq Submitted})

\* "GPU-side dynamic submission is also supported - compute warps can call
\* gfd::sg::sg_submit_list() at runtime" (README.md): the call gets past
\* sg_wait_list_space, there being room in the list ring.
SubmitterGetsRoom == sub_pc = "list_space" ~> sub_pc # "list_space"
=============================================================================
