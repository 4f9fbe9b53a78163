# Verification of GPU-Free-DMA (gfd)

TLA+ models of gfd's transfer path, the TLC runs that check them on small
instances, and TLAPS proofs, for every size, of the safety properties the
passing runs check (one excepted, section 4). Source paths are relative to the
repository (`src/cpu_polling.cpp`, `include/gfd/warp_spec.cuh`, ...).

## 1. Inventory

gfd lets a GPU kernel request host-to-device copies. GPU warps write
*descriptors* into a ring in host-mapped memory; one CPU *polling thread* per
queue consumes them, submits DMA copies on several copy-engine *channels* (CUDA
streams) and tells the GPU what has arrived.

| component | state | operations | hard behaviour |
|---|---|---|---|
| descriptor ring (`descriptor_queue.h`, `device_primitives.cuh`, `device.cuh`) | `entries[].sequence` and fields, `write_idx`, `read_idx`, `done_idx` | acquire slots, wait for room, write, fence, commit; consume | many producers, laps, visibility of stores across PCIe |
| tile loop (`warp_spec.cuh`, `tiled_queue.h`) | scheduler, `chunks_ready`, `compute_done` per block | acquire tile, submit chunk, wait for chunk, compute | warps synchronising by flags and barriers, data must precede its signal |
| double-buffer loop (`warp_spec.cuh`) | two slots of the same state, `tiles_dispatched` | dispatch, transfer, compute, terminate | no barrier between the warps, termination sentinels |
| polling thread (`cpu_polling.cpp`, `batch_processor.cpp`) | batch, `tile_progress_`, `tile_signal_buf_`, `has_async_dma_`, `latest_async_read_`, staging buffers | poll, gap timeout, flush (tiled / queue / SG), idle wait, stop | batches split anywhere, results of streams in any order |
| gather workers (`parallel_gather.cpp`) | `GatherTask`: `has_work`, `done`, entries, range | post, copy, wait | hand-over with two flags; the polling thread and callers of `submit_direct` use the same tasks |
| copy-engine manager (`copy_engine.cpp`) | streams, events, `next_channel_`, `dirty_mask_` | submit, wait, record event, make a stream wait | streams are unordered with each other |
| sessions (`warp_spec_session.*`, `sg_warp_spec_session.cpp`) | kernel and poller life cycle | construct, launch, synchronize, reset | late work of an earlier launch |
| SG lists (`sg_task_queue.h`, `sg_*.cuh`) | list ring, entry pool, per-list completion | submit, claim, convert, complete | two rings of different size, relaunch |
| direct submission (`direct_submit.cpp`) | shares the poller's staging buffers and gather workers | submit and wait | runs beside the poller |
| staging pool (`staging_pool.h`) | one set of buffers per process, `initialized_`, `in_use` | init, acquire, get, release, shutdown | sessions come and go; some calls take no lock; allocations fail midway |
| PCIe topology (`pcie_topology.h`) | NUMA node and cores of each GPU | discovery, split of cores | rounding, nodes that sysfs does not know |
| examples and benchmarks (`examples/`) | pollers per GPU, `SpinBarrier` | set up, run in step, tear down | a barrier that is reused, the order of destructors |

What makes each part correct: the ring delivers every descriptor once, whole and
in order; a compute warp runs only on data that has arrived; `done_idx` and the
completion counts never run ahead of the copies; a buffer is not refilled under
a copy; the copies of a batch move exactly its bytes; pollers use memory and
cores of their own; every wait ends. `PROJECT.json` lists the hazards line by line with the
property that would notice each of them.

## 2. Modules

**SlotQueue** is the abstract promise of the ring: slots are reserved, published
in any order, and delivered in slot order with the contents published.

**DescriptorQueue** is the ring, store by store. `chunk_base`, `unwritten` and
`uncommitted` are a producing warp's registers: which field stores and markers
have not reached host memory. A descriptor is abstracted to the slot it was
written for, so a torn or replaced entry is visible as a field with another
slot's number. Producers wait for room as `_transfer_warp_loop` does and commit
as `commit_chunk` does: field stores become visible in any order, and the fence
of every lane keeps the markers behind them.

**TiledTransfer** composes the tile loop, the polling thread in tiled mode, the
copy engines, the signal stream and the session. It uses the ring as SlotQueue
promises it: slots are handed out and consumed in order. A token is its slot
number; `landed` is the set of tokens on the GPU. `CopyCompletes` and
`SignalCompletes` are external (CUDA streams): in order within a stream, any
order between streams, pinned source memory read when the copy executes. How
completion reaches the GPU depends on what could be allocated, and `config.path`
names the four cases: device-memory counts written by the signal stream,
host-mapped counts written by the copy engines, events that the idle poller
queries (`PendingTileEvent`), and no copy engine at all. `Relaunch` stands for
stop, drain, reset and the next launch.

**SGPipeline** is scatter-gather mode from end to end: the list ring and the
entry pool of `SGTaskQueue`, the transfer and compute warp of
`sg_warp_spec.cuh`, the polling thread (a list cut by a gap timeout goes through
`process_batch` first and `process_batch_sg` last), the copy engines and the
session. It too takes the descriptor ring as SlotQueue promises it. An entry is
its list's id and its place in the list, so a descriptor made from a pool slot
that was reused shows. In `Spec` the host submits lists with `submit_sg_list`,
before, during and after a launch, ends the launch with `synchronize` and
launches again with or without `reset`; in
`DynamicSpec` a warp of the kernel submits them with `sg_submit_list`. Index
differences are unsigned (`Minus`, modulo `WORD`), which is what decides
`sg_dynamic`. `config.path` is how the end of a list is told: `d_list_done` through
the signal stream or by the poller, `lists_completed` alone, or, without a copy
engine, not at all.

**DoubleBuffer** is one block of the double-buffered loop; other blocks only
take tiles from the scheduler. A chunk's transfer is one step (its parts are
TiledTransfer's subject), and a warp's lanes read shared memory as one.

**ParallelGather** is `parallel_gather` and `gather_worker_loop`, each load and
store of a flag a step, entries counted by how often they were copied. `Threads`
are the polling thread and those that call `submit_direct`
(`direct_submit.cpp:103`, `122`): nothing keeps their calls apart and there is
one `GatherTask` for each worker, so a call may rewrite the task of another. A
task's buffers (`source`: whose they are) and its range are stored in two steps,
and the worker reads both again for each entry. What of a call's entries a worker
reads through a task that is being rewritten is undefined behaviour in the code
(a data race); the model lets the worker use what has been stored so far.

**BatchPlan** is the arithmetic of queue mode as pure operators: contiguity,
`radix_sort_sg` (which sees 32 of 64 key bits, `KEY_RANGE`), coalescing, runs of
a staging buffer, the pipeline chunks of `submit_direct`. An entry is its source,
destination and size; `Moved` and `Delivered` are the reference, the set of
<<to, from>> byte pairs.

**StagingDma** is the polling thread in queue mode and `submit_direct` on another
thread: both follow a plan of BatchPlan, each with a `CopyEngineManager` of its
own, and share the staging buffers, their events and flags.

**Topology** and **SessionConfig** (chunk-size tuning, accepted configurations)
are pure operators too. Topology has the three ways in which threads get their
CPUs: the table of 16 cores per GPU that examples 05, 06 and 08 contain, where
the thread that drives a GPU's tests takes the last of them; `discover_topology`
and `get_exclusive_cores`, which `print_topology` and users following Pattern 4
of `docs/API_Reference.md` call; and the default without cores of one's own. A
machine has `nodes`, `cores` per node, what `sysfs` says of each GPU's node (-1
for nothing), and `stray`: on a machine of one node `discover_topology` puts half
of the GPUs that sysfs does not place on a node 1 (`pcie_topology.h:122`) and
counts them past the end of `gpus_per_numa` (line 150), so what it finds there is
arbitrary (any non-negative number).

**MultiGpu** composes them with the life of the pollers of one process: sessions,
an example's poller that outlives the pool (01-04 shut it down in `main`, before
the destructor runs), the multi-GPU benchmarks, whose threads meet at a
`SpinBarrier`, and a program that asks for the topology. `cpus` is where the
threads of each GPU are pinned: the polling thread, the gather workers, and
during a test of a benchmark the thread that drives it. A buffer is identified by the initialisation of the pool, or the
poller, that allocated it; `live` is what is allocated and not freed.

Some models carry *history variables* that record that the code has been in a
state in which a property fails, so that the property can be stated for all
other behaviours: `split` (a gap timeout or a full batch cut a chunk in two, now
or in an earlier launch), `overlapped` (in StagingDma: a call of `submit_direct` ran
beside a batch; in ParallelGather: two calls of `parallel_gather` were under way
at once), `pulled` and `early` (the pool was shut down while its set was held),
`partial` and `mixed` (a set was allocated incompletely, or with buffers of both
sorts). No action reads them (`Hangs`, which only stutters, excepted).

`MC*.tla` give the constants their values. Operators commented *Mutant* are not
part of the models: each is a plausible bug, used to confirm that a property
notices it.

## 3. Runs

| run | shows |
|---|---|
| `ring` | two blocks, chunks of 2, ring of 5 entries, 8 slots: safety, the inductive invariant, refinement of SlotQueue, every slot consumed |
| `tiled` | 2 blocks, 2 channels, batches of 2, thirteen sessions over all four paths (1 or 2 tiles, 1 or 2 chunks of 1 to 3 tokens, launched once or twice): data before compute, `done_idx` behind the data, batches keep to a chunk, every chunk once, no count of the launch before, nothing left to drain, every launch ends |
| `sg_session` | 2 blocks, up to 2 lists of 1 or 3 entries, five sessions over the four ways of completion, two launches with and without `reset`: a list is computed once and on arrived data, its descriptors carry its own entries, `lists_completed` counts only submitted lists, `synchronize` returns when all is done and nothing is left to drain |
| `gather_repeated` | 2 calling threads, 2 workers, batches of 1, 2 and 5 entries, three calls that may overlap: as long as none has, each entry staged once, no worker left copying, no task rewritten under a worker |
| `double_buffer` | 4 tiles, 2 chunks, both slots reused |
| `staging_one_run` | 2 buffers, 2 channels, 3 batches of seven shapes and a call of `submit_direct` of three: copies move the right bytes, buffers are kept, `done_idx` and the return of the call follow the copies, every batch is published |
| `multi_gpu` | 3 GPUs; two sessions that are created twice, an example's poller, two benchmarks of 2 and 3 GPUs with 2 rounds each, and a program that asks for the topology, on four machines (two nodes known to sysfs; unknown to it, on two nodes and, with 0 and 5 as the stray word, on one); 5 outcomes of an allocation, 5 configurations (two of them rejected): buffers usable and not shared, nothing leaked, rounds in step, cores apart, tuned sessions work, benchmarks end |
| `tiled_split_early`, `sg_dynamic`, `gather_lost_task`, `double_buffer_skip`, `staging_holes` | refuted, see below |

Bounds. The ring of 5 with chunks of 2 makes chunks straddle the end of the
ring, and 8 slots let it lap under both producers; the proofs remove the bound.
Two channels are enough for copies to overtake each other and two blocks for
descriptors of different tiles to interleave. Chunks of three tokens overfill a
batch of two, so full batches cut them as gap timeouts do. Two launches show
what one leaves to the next. In the gather the batch sizes cover idle workers (1), one
worker of two (2) and a short last range (5); three calls by two threads let each
thread follow the other and itself. Two staging buffers and three batches reuse a buffer; the seven
shapes of a batch take every branch of `process_batch` that gives one run, with
keys on both sides of the wrap of the radix sort (`HolesMoved` checks the
others' bytes). Two rounds and two tests reuse
the barrier while slow threads are still leaving it. `MCAllocations` are all huge
pages, none, one of each, and a failure at the first and at the second buffer.
In SG mode two blocks and two lists let a block claim a list that is not there
yet, and lists of three entries are cut anywhere, with a first part that is
itself several copies, and have more entries than there are channels. `MaxWriteIdx`, `MaxLaunches`,
`MaxGathers`, `MaxBatches`, `MaxCalls`, `MaxLives` and `MaxLists` bound the work only; at the bound the
models stutter (`Finished`, `Joined`, `Exited`, `Ended`) or stop. `WORD` stands for 2^64
and only has to exceed every index difference that is not a wrapped one.

TLC checks deadlock in `ring`, `tiled`, `double_buffer`, `staging_one_run` and
`multi_gpu`, so a hang of those parts would show. In `gather_repeated` the
workers' spinning is a step (`Pause`), and a hang is the liveness question that
`gather_lost_task` answers. The check is off in `sg_session`, because there the code
really can wait forever: the late `list_ready = 0` (`sg_warp_spec.cuh:294`) can
erase a hand-over, without a copy engine no list is ever reported complete, and
a launch without `reset()` claims lists beyond the ones submitted. The run shows
that even then nothing is computed twice or reported early.

What the properties leave out, because the code does not give it:

* `DataAvailableUnsplit`: on the device path a chunk cut in two
  (`tiled_split_early`), and the host-mapped path, where nothing orders the
  signal behind the data of another channel and the code relies on the polling
  latency (comment at `batch_processor.cpp:221`).
* `ListDataAvailable`: several blocks without `d_list_done`, where any block's
  list raises `lists_completed`.
* `CountsOfThisLaunch`, `NothingToDrain`: a launch after one in which a chunk was
  cut, on the device path (`NoLateSignal`). `stop()` waits for the copies but not
  for the signal stream, so the second signal of a cut chunk may arrive after
  `reset()` has cleared the counts.
* `DoneIdxLanded`: a cut chunk on the deferred path, whose event speaks only for
  its own channel.
* `EveryLaunchEnds`: a cut chunk on the deferred and no-copy-engine paths, which
  count only batches with a marker: the kernel then waits for ever.
* `GatherComplete`, `NoStrayWorker`: everything after two calls of
  `parallel_gather` have been under way at once. `cpu_polling.h:38` calls
  `submit_direct` thread-safe, but it posts to the same tasks as the polling
  thread, and without the exemption TLC refutes both on the instance of
  `gather_repeated`: thread 1 posts a task and worker 0 takes it; thread 2 stores
  its own entries and staging buffer into that task; worker 0 copies thread 2's
  entries by thread 1's range and reports done; thread 1 returns with a part of
  its batch not gathered, and submits the buffer. The properties therefore say
  what the code gives to callers that do not overlap, and the exemption marks
  what it does not give.
* `BufferKeptForDma`: a call of `submit_direct` that overlaps a batch gathers
  into the poller's buffers without waiting and clears all event flags.
* `BuffersUsable`, `BuffersNotShared`, `NothingLeaked`: a pool shut down while
  its set is held, null buffers of an incomplete set, and sets with buffers of
  both sorts, of which the pool remembers the last one's.
* `CoresApart`: a GPU with a single core of its own, whose worker is pinned to
  the next; and that the CPUs exist, on a machine of one node whose GPUs sysfs
  does not place: those put on node 1 get CPUs the machine does not have (pinning
  then fails and is only logged). They are still apart, whatever the word past
  `gpus_per_numa` holds, as long as it leaves two cores each. The examples' table
  is taken as it is, also where the machine has fewer than 16 cores per GPU.

Fairness is weak fairness of each thread, resident warp, copy stream and of the
session's thread: they are pinned or resident and never disabled by another's
progress. In `multi_gpu` it is assumed only of the benchmarks, whose `main` runs
through. Nothing forces new work to arrive: `EveryBatchPublished` speaks of the
time after descriptors stop coming.

### Disagreements between the code and its comments

Each is a run that TLC refutes; the finding in `PROJECT.json` quotes the text.

* `tiled_split_early`: `tile_signal_buf_` is pinned memory that the signal copy
  reads when it executes. When a gap timeout flushes the first part of a chunk
  and the second part is counted before that signal runs, the signal publishes
  the whole chunk and a compute warp starts before the second copy is submitted.
* `gather_lost_task`: a worker stores `done` before it clears `has_work`; a task
  posted in between is lost and the polling thread spins forever.
* `double_buffer_skip`: termination waits for the slot dispatched last, so a
  compute warp of the other slot that has not started yet leaves its chunk out.
* `staging_holes`: the staging event is recorded on one channel although several
  may read the buffer.
* `sg_dynamic`: a transfer warp claims a list, and so advances `list_read_idx`,
  before the list exists. `sg_wait_list_space` then subtracts the larger index
  from the smaller as unsigned numbers and waits forever.

The models show that the interleavings exist, not how likely they are: several
need a thread to be delayed for the length of a DMA or of a launch.

## 4. Proofs

Each theorem says that `P` holds of `Spec`, where `P` is a property that a run
checks, and holds for every value of the constants the assumptions allow. The
runs show the same properties on small instances, and each inductive invariant
below was checked by TLC on such an instance before it was proved. There is one
lemma per action or group of actions; facts about sequences, finite sets and
remainders that several of them need are lemmas of their own.

### The descriptor ring

`DescriptorQueueProofs` and `DescriptorQueueRefinement`, for every set of
blocks, ring size, chunk size (at most the ring) and number of slots
(`QueueAssumption`):

* `TypeCorrect`: the variables keep their types;
* `RingInvariant`, and from it `RingDelivers` (every descriptor once, in order,
  untorn), `RingKeepsCommits` (no committed entry is erased) and
  `RingEntriesUnshared` (no two blocks store to one entry);
* `RingRefinesSlotQueue`: the ring implements SlotQueue.

The inductive invariant `IndInv` adds to these properties where each producer is
relative to the poller: its slots are its own, the poller has not passed one it
still holds, and while it stores they lie within a lap of `read_idx`
(`ProducerInv`); what it has stored is still there (`StoredInv`); a marker in
the ring belongs to a committed slot of the current lap (`MarkerInv`); the
poller's partial copy is of the slot at `read_idx` (`PollerInv`). Without it the
properties are not inductive: that no step erases an entry follows only from
two live slots never being a lap apart. The arithmetic of that is the lemma
`IndexInjective`. Run `ring` checks `IndInv` too.

### Tile processing

`TiledTransferProofs`, for every set of blocks, session (path, tiles, chunks,
tokens, launches), number of channels, batch size and number of event slots
(`TiledAssumption`; `BlocksFitEvents`, without which the deferred path would
record over pending events): `TypesHold`, `ChunksComputedOnce`,
`BatchesHoldOneChunk`, `DataIsThere`, `CountsAreOfThisLaunch`,
`StopFindsNothing` and `DoneIsCopied`, one for each safety property of run
`tiled`. The invariant comes in layers, each proved with the help of the ones
before:

1. `SchedInv`, the scheduler: no two blocks have the same tile, `compute_done`
   is the number of warps at the barrier, a tile that nobody has is untouched or
   wholly computed. It gives `EachChunkOnce`.
2. `RingInv`, descriptors and the batch: a chunk occupies consecutive slots and
   only its last one ends it; the batch is the run before `read_idx`, without a
   chunk's end in its middle. It gives `OneChunkPerBatch`.
3. `StreamInv`, work in flight: every slot below the last one flushed is copied
   or in the queue of a channel that `wait_completion` would wait for; a signal
   or an event is behind no more copies than are queued.
4. `PipeInv`, what the counts mean: every descriptor not counted yet belongs to a
   block that waits for it; `tile_progress` of a block's tile is the tokens of
   its chunks so far and the counted part of this one; a signal or event under
   way speaks for one waiting block, whose copies it is behind; so when a count
   arrives, the chunk's tokens have. This is the argument for `DataIsThere`, and
   it needs all of it: that a signal copies its value late is harmless only
   because no other chunk of the tile can be counted before the block has seen
   this one. It is conditional on `NoLateSignal`, and its statements about data
   on `Strict`, the paths and histories for which the property is claimed.
5. `CoverInv`, for `DoneIsCopied` on the deferred path: a slot that is not copied
   is behind one of the pending events, and an event's `done_value` covers only
   slots behind it or earlier ones. An event is recorded on one channel, so
   nothing weaker shows that the oldest event speaks for all channels.

### Scatter-gather mode

`SGPipelineProofs`, for every set of blocks, session (path, blocks, launches),
number of lists, channels, batch size and size of the queues (`SGAssumption`),
about `Spec`, in which the host submits: `SGTypesCorrect`,
`ListDataAlwaysAvailable`, `EntriesStayIntact`, `CompletedAreSubmitted` and
`SynchronizeIsComplete`, one for each safety property of run `sg_session`. All
but the first assume `ListsFitPool`: `submit_sg_list` never waits for room in the
entry pool, so the lists of a session have to fit into it. TLC evaluates the
assumption for the run's constants. The layers of the invariant:

1. `QueueInv`, lists and claims: an index is claimed by one block at a time, a
   block that has read a header has its own list's, and claims run ahead of the
   lists by at most one index per block and launch. It needs the count of the
   blocks that still may claim (`ClaimsBounded`), because a launch without
   `reset` starts behind the claims of the one before.
2. `HandInv`, the two warps of a block: a list is computed once its compute warp
   starts, and at most once. The late `list_ready = 0` can lose a hand-over but
   never repeat one: the compute warp finds the flag set only while the transfer
   warp waits for it.
3. `DescInv`, `ListsKept` and `MarkersInv`, descriptors: a list occupies
   consecutive slots of which the last one ends it, it gets them once, and from
   then on it is computed or in the hands of a block.
4. `BatchInv` and `CountInv`, the poller: the batch is the run before `read_idx`
   without a list's end in its middle, so `lists_completed` counts lists whose
   last descriptor has left it (`Finished`), each once.
5. `ChanInv` and `FlightInv`, work in flight: every descriptor that has left the
   batch is copied or queued on a channel that `wait_completion` waits for; a
   signal on its way is queued behind *all* copies of its lists, also those that
   `process_batch` submitted for an earlier part of a list that was cut
   (`SignalsInv`); a list that is reported is on the GPU (`DoneInv`, `CoarseInv`).
6. `SingleInv` and `ToldInv`, what a block concludes: from `d_list_done` that its
   list is there, and from `lists_completed` alone only if it is the only block,
   which then has seen every list it stored but this one.
7. `SessionInv`: once `synchronize` has seen its count, every list there was is
   finished, and between launches nothing is in flight. Since the count is bounded
   by the finished lists, and these by the lists, it is reached only when the two
   are equal; a finished list has descriptors, so when the kernel has ended
   `ListsKept` leaves only that it is computed.
8. `PoolInv` and `ContentInv`, the data: while lists fit, a list's entries stay
   where its header says, and its descriptors carry them all.

### Gather workers

`ParallelGatherProofs`, for every set of calling threads, number of workers, batch
sizes and number of calls (`GatherAssumption`): `GatherTypes`, which holds whatever
overlaps, `GatherIsComplete` and `NoWorkerStrays`, which are about behaviours in
which no two calls have been under way at once. `GatherInv` is `TypeOK`, the
part that is true of each thread by itself (`LocalInv`: it sets up tasks of
existing workers that get a part) and, while calls have not overlapped, `OneCall`:
one thread at most is in a call; the positions of that thread and of the workers
determine how often each entry has been copied (`CopiesInv`); a worker with a task
was given it in this call (`WorkerInv`), also if the call before was another
thread's and the worker is only now leaving it; and which workers the caller has
dealt with (`CallerInv`). The lost task of `gather_lost_task` is a behaviour of the same
specification: safety holds in it too, the call just never returns.

### Double-buffered loop

`DoubleBufferProofs`, for every number of tiles and chunks: `BufferTypes`,
`ComputesArrivedChunks`, `ComputesChunksOnce` and `SlotsAreStable`. `BufferInv`
relates each compute warp's own count of tiles to the tiles dispatched: a warp
is never more than the slot's last tile behind, and `compute_done` counts the
warps that have caught up. There is no barrier, so this is what keeps a slot
from being refilled under a warp.

### Queue mode and `submit_direct`

`StagingDmaProofs`. `NothingDoneEarly` (from `DoneInv`) needs nothing about the
plans: whatever a batch becomes, `done_idx` and the return of `submit_direct`
wait for every dirty channel. `StagingTypes` assumes `PlansFit` (a plan's buffers
exist), which TLC evaluates for the plans of the runs. `BuffersKept` assumes
besides that a staged batch is one run (`OneRunPlans`): that is what run
`staging_holes` breaks, and the theorem shows that nothing else does, overlapping
calls apart. `BufferInv` says that a queued copy's buffer still holds what was
gathered for it and is guarded by an event recorded behind it.

### Pollers of one process

`MultiGpuProofs` (`MultiGpuAssumption`, any number of GPUs, programs,
allocations and rounds): `BarrierHolds`, from the invariant that `waiting_`
counts the threads spinning on the current generation (`BarrierInv`);
`BuffersAreUsable`, `BuffersAreSeparate` and `NoLeak`, from the invariant that
everything allocated has one owner who will free it (`BuffersInv`), outside the
exceptions section 3 lists; `CoresStayApart`, for every machine, also those with
one node and with nothing in sysfs: the threads of a GPU stay within the cores it
is given, the last of 16 is left to the control thread, and the cores of two GPUs
are apart, in the table and as `get_exclusive_cores` deals them out (`SharesApart`);
`TuningWorks`, the arithmetic of SessionConfig: for every token size and every
tile that is a power of two (up to 2^16 tokens, the bound of `PowerOfTwoBelow`)
the chunk that is found divides the tile into at most 8, although a target size,
a minimum, the tile and an eighth of it limit it in turn. The 17 powers are
enumerated, so no induction is needed.

### Only model-checked

Liveness (`EverySlotConsumed`, `EveryLaunchEnds`, `EveryBatchPublished`,
`BlockEnds`, `BenchmarkEnds`): fairness is out of the prover's reach. `CopiesMoveEntries`,
which is about what sorting and coalescing compute on a sequence, needs induction
over data. The refuted runs are counterexamples and have nothing to prove. Of
`sg_submit_list` (`DynamicSpec`) only run `sg_dynamic` speaks: the theorems about
SG mode are about lists that the host submits.

## 5. Not modelled

Failing CUDA calls other than the allocations named above (the code logs and
goes on), statistics, parsing of sysfs, `recommended_ce_channels`, the examples'
kernels, result checks and timing. `no_ce` is a session configured without the
copy engine; one whose `init_copy_engine` fails goes on with `use_ce_` set and no
channels, which is not modelled, nor is a tiled session whose signal stream
cannot be created (in SG mode that is `no_stream`). Of `discover_topology` the
Linux branch is modelled. The examples' table ends at eight GPUs; the model
continues it. 64-bit index wrap-around is
out of reach of any run of the program and left out.

`fence_and_commit`, which `examples/01_basic_transfer.cu` uses, fences in the
leader lane only, and `write_descriptor_safe`, which nothing calls, tests
`sequence == 0`, which does not tell a consumed entry from one that is taken and
not yet committed: both are hazards without a run. The double-buffer loop stores its
descriptors without waiting for room in the ring; whether they fit is a matter
of the launch configuration. A tiled session has at most `MAX_TILES` = 1024 tiles (`TilesCounted`):
the constructor does not check it, and of a tile beyond the polling thread counts
nothing (`batch_processor.cpp:96` and the tests like it), so that its blocks would
wait for ever. Likewise lists in SG mode have ids below `MAX_SG_LISTS` (callers
number those of a launch from 0), since `batch_processor.cpp:325` skips the
others. What `process_batch` makes of a cut part of a list is any division of it
into copies (`Division`); the staging buffer it may use for them is StagingDma's
subject, as are sorting and coalescing BatchPlan's.

In StagingDma a gather is one step: that it may hang, and what several callers do
to each other's tasks, is ParallelGather's subject. The drain loop of `stop()`
(`cpu_polling.cpp:438`-`452`), which flushes descriptors committed after the
polling loop has ended, is left out in queue mode: `Stop` comes when no more
descriptors do. Of SG mode the reuse of the entry pool after it has
wrapped is outside the bounds, and a pinned signal buffer that could not be
allocated is left out.

## 6. Plan

SG mode with an entry pool that wraps, for `sg_submit_list`, once a submitter gets
past the wait that `sg_dynamic` refutes; then the theorems of SG mode without
`ListsFitPool`.
