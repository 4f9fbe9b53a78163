------------------------------ MODULE StagingDma ------------------------------
(***************************************************************************)
(* Queue mode of the polling thread (no tiles, no SG lists) and            *)
(* submit_direct beside it.  process_batch submits a batch's entries to    *)
(* the copy engines from user memory, or gathers them into one of the      *)
(* staging buffers and submits the runs of that buffer; flush_batch and    *)
(* the idle branch of polling_loop maintain done_idx.  submit_direct does  *)
(* the same on its caller's thread, with a CopyEngineManager of its own    *)
(* and the staging buffers of the polling thread, and waits for its copies.*)
(*                                                                         *)
(* BatchPlan says which copies a batch becomes.  A buffer's contents are   *)
(* the batch or the call that was gathered into it last.                   *)
(***************************************************************************)
EXTENDS BatchPlan

CONSTANTS Channels,     \* num_channels_
          Batches,      \* the entry lists of batches
          CallLists,    \* the entry lists submit_direct is called with
          MaxBatches,   \* bound: batches flushed
          MaxCalls      \* bound: calls of submit_direct

ASSUME StagingAssumption == /\ NumBufs > 0
                            /\ Channels \in Nat \ {0}
                            /\ \A es \in Batches \cup CallLists : es # <<>> /\ Disjoint(es)
                            /\ MaxBatches \in Nat /\ MaxCalls \in Nat

Bufs     == 0..(NumBufs - 1)
ChanIds  == 0..(Channels - 1)
NoBuf    == -1
Managers == {"poller", "direct"}   \* ce_manager_ and direct_ce_manager_
NoPlan   == FromUser(<<>>)

\* What process_batch and submit_direct make of each list of entries.
Prepared == {[entries |-> es, plan |-> Plan(es)] : es \in Batches}
Cut      == {[entries |-> es, pieces |-> DirectPlans(es)] : es \in CallLists}

\* What the theorems ask of the plans: finitely many copies, and a staging buffer
\* for each piece of a call.
PlansFit ==
  /\ \A p \in Prepared : Len(p.plan.copies) \in Nat
  /\ \A p \in Cut : /\ Len(p.pieces) \in 1..NumBufs
                    /\ \A i \in 1..Len(p.pieces) : Len(p.pieces[i].copies) \in Nat

\* Every staged batch is one run of its buffer, as fixed-size entries with
\* destinations in a row are.
OneRunPlans == \A p \in Prepared : Staged(p.plan) => Len(p.plan.copies) = 1

VARIABLES
  poller, batch, entries, plan,  \* the polling thread: position, batches
                                 \* taken, the batch at hand and its plan
  caller, calls, call, pieces, piece,  \* submit_direct: the same, and the
                                       \* piece it is working on
  staging_cur, event_pending,    \* staging_event_pending_
  inflight,                      \* staging_inflight_count_
  event,                         \* staging_events_: the stream each was last
                                 \* recorded on, and the copies still before it
  content,                       \* what was gathered into each buffer
  chan, next_channel, dirty,     \* of each CopyEngineManager
  has_async_dma, latest_async_read, done_idx,
  running,
  overlapped  \* history: a call was made while the poller had copies in
              \* flight, or a batch came in during a call

pollerVars  == <<poller, batch, entries, plan>>
callerVars  == <<caller, calls, call, pieces, piece>>
stagingVars == <<staging_cur, event_pending, inflight, content>>
engineVars  == <<chan, next_channel, dirty>>
doneVars    == <<has_async_dma, latest_async_read, done_idx>>
vars == <<pollerVars, callerVars, running, overlapped, event, stagingVars,
          engineVars, doneVars>>

\* An event all of whose copies have completed.
Reached == [by |-> "poller", ch |-> 0, before |-> 0]

Work(m, n) == [by |-> m, n |-> n]

Init == /\ poller = "poll" /\ batch = 0 /\ entries = <<>> /\ plan = NoPlan
        /\ caller = "idle" /\ calls = 0 /\ call = <<>>
        /\ pieces = <<>> /\ piece = 0
        /\ staging_cur = 0
        /\ event_pending = [b \in Bufs |-> FALSE]
        /\ inflight = 0
        /\ event = [b \in Bufs |-> Reached]
        /\ content = [b \in Bufs |-> Work("poller", 0)]
        /\ chan = [m \in Managers |-> [c \in ChanIds |-> <<>>]]
        /\ next_channel = [m \in Managers |-> 0]
        /\ dirty = [m \in Managers |-> {}]
        /\ has_async_dma = FALSE /\ latest_async_read = 0 /\ done_idx = 0
        /\ running = TRUE /\ overlapped = FALSE

-----------------------------------------------------------------------------
(* CopyEngineManager *)

\* submit_scatter_gather: the channel of entry i of n - one per channel in
\* turn when they are few, otherwise a contiguous range for each channel.
ChannelOf(m, i, n) == IF n <= Channels
                        THEN (next_channel[m] + i) % Channels
                        ELSE i \div ((n + Channels - 1) \div Channels)

\* Mutant: the round robin does not wrap.
NextChannelNoWrap(m, n) == next_channel[m] + n

\* next_channel_ after a submission of n entries.
NextChannel(m, n) == IF n <= Channels THEN (next_channel[m] + n) % Channels
                                      ELSE 0

Used(m, n) == {ChannelOf(m, i, n) : i \in 0..(n - 1)}

\* Mutant: the mask of this submission replaces the cumulative one.
DirtyThisSubmission(m, n) == Used(m, n)

\* dirty_mask_ after a submission of n entries.
DirtyAfter(m, n) == dirty[m] \cup Used(m, n)

\* A submission of n entries of one batch.  What a channel gets of it stays
\* together: its stream executes in order.
Submit(m, n, copy) ==
  /\ chan' = [chan EXCEPT ![m] =
       [c \in ChanIds |-> IF c \in Used(m, n) THEN Append(@[c], copy) ELSE @[c]]]
  /\ next_channel' = [next_channel EXCEPT ![m] = NextChannel(m, n)]
  /\ dirty' = [dirty EXCEPT ![m] = DirtyAfter(m, n)]

\* Mutant: the channel the next submission will start with.
LastStreamOneAhead(m) == next_channel[m]

\* record_event_on_last_stream: the channel it picks.
LastStream(m) == (next_channel[m] + Channels - 1) % Channels

RecordOn(m, b) ==
  LET before == Len(chan[m][LastStream(m)])
  IN event' = [event EXCEPT ![b] =
       IF before = 0 THEN Reached
                     ELSE [by |-> m, ch |-> LastStream(m), before |-> before]]

\* The head of a stream completes; events recorded behind it come nearer.
CopyCompletes(m, c) ==
  /\ chan[m][c] # <<>>
  /\ chan' = [chan EXCEPT ![m][c] = Tail(@)]
  /\ event' = [b \in Bufs |->
       CASE event[b] = [by |-> m, ch |-> c, before |-> 1] -> Reached
         [] event[b].by = m /\ event[b].ch = c /\ event[b].before > 1
              -> [event[b] EXCEPT !.before = @ - 1]
         [] OTHER -> event[b]]
  /\ UNCHANGED <<pollerVars, callerVars, running, overlapped, stagingVars,
                 next_channel, dirty, doneVars>>

\* wait_completion: the events of the dirty channels have completed.
WaitCompletion(m) == \A c \in dirty[m] : chan[m][c] = <<>>

-----------------------------------------------------------------------------
(* polling_loop, flush_batch and process_batch *)

\* A batch is complete: process_batch decides how it is copied.
TakeBatch ==
  /\ poller = "poll" /\ batch < MaxBatches
  /\ \E p \in Prepared :
       /\ entries' = p.entries /\ plan' = p.plan
       /\ poller' = IF Staged(p.plan) THEN "buffer" ELSE "submit"
  /\ batch' = batch + 1
  /\ overlapped' = (overlapped \/ caller # "idle")
  /\ UNCHANGED <<callerVars, running, event, stagingVars, engineVars, doneVars>>

\* The end of flush_batch.
BatchFlushed ==
  /\ has_async_dma' = TRUE /\ latest_async_read' = batch
  /\ entries' = <<>> /\ plan' = NoPlan /\ poller' = "poll"

\* Copies from user memory.
SubmitCopies ==
  /\ poller = "submit" /\ ~Staged(plan)
  /\ Submit("poller", Len(plan.copies), [work |-> Work("poller", batch),
                                         buf |-> NoBuf])
  /\ BatchFlushed
  /\ UNCHANGED <<batch, callerVars, running, overlapped, event, stagingVars,
                 done_idx>>

\* cuEventSynchronize(staging_events_[cur]) returns, or is not called.
BufferFree == event_pending[staging_cur] => event[staging_cur].before = 0

\* The wait for the buffer, and parallel_gather into it.
Gather ==
  /\ poller = "buffer"
  /\ BufferFree
  /\ inflight' = IF event_pending[staging_cur] THEN inflight - 1 ELSE inflight
  /\ event_pending' = [event_pending EXCEPT ![staging_cur] = FALSE]
  /\ content' = [content EXCEPT ![staging_cur] = Work("poller", batch)]
  /\ poller' = "submit"
  /\ UNCHANGED <<batch, entries, plan, callerVars, running, overlapped, event,
                 staging_cur, engineVars, doneVars>>

SubmitRuns ==
  /\ poller = "submit" /\ Staged(plan)
  /\ Submit("poller", Len(plan.copies), [work |-> Work("poller", batch),
                                         buf |-> staging_cur])
  /\ poller' = "record"
  /\ UNCHANGED <<batch, entries, plan, callerVars, running, overlapped, event,
                 stagingVars, doneVars>>

\* The event and the next buffer.
RecordEvent ==
  /\ poller = "record"
  /\ RecordOn("poller", staging_cur)
  /\ event_pending' = [event_pending EXCEPT ![staging_cur] = TRUE]
  /\ inflight' = inflight + 1
  /\ staging_cur' = (staging_cur + 1) % NumBufs
  /\ BatchFlushed
  /\ UNCHANGED <<batch, callerVars, running, overlapped, content, engineVars,
                 done_idx>>

\* Mutant: only staged batches count as copies in flight.
StartIdleWaitStaged ==
  /\ poller = "poll" /\ has_async_dma /\ inflight > 0
  /\ poller' = "idle"
  /\ UNCHANGED <<batch, entries, plan, callerVars, running, overlapped, event,
                 stagingVars, engineVars, doneVars>>

\* No descriptor is ready and copies are in flight: wait, then publish.
StartIdleWait ==
  /\ poller = "poll" /\ has_async_dma
  /\ poller' = "idle"
  /\ UNCHANGED <<batch, entries, plan, callerVars, running, overlapped, event,
                 stagingVars, engineVars, doneVars>>

FinishIdleWait ==
  /\ poller = "idle"
  /\ WaitCompletion("poller")
  /\ inflight' = IF inflight > 0 THEN 0 ELSE inflight
  /\ dirty' = [dirty EXCEPT !["poller"] = {}]
  /\ done_idx' = latest_async_read
  /\ has_async_dma' = FALSE
  /\ poller' = "poll"
  /\ UNCHANGED <<batch, entries, plan, callerVars, running, overlapped, event,
                 staging_cur, event_pending, content, chan, next_channel,
                 latest_async_read>>

\* stop(): the loop is left, nothing more is in the ring, and the final flush
\* waits for the copies before it publishes them.
Stop ==
  /\ poller = "poll" /\ running
  /\ running' = FALSE
  /\ poller' = "final"
  /\ UNCHANGED <<batch, entries, plan, callerVars, overlapped, event,
                 stagingVars, engineVars, doneVars>>

FinalFlush ==
  /\ poller = "final"
  /\ inflight > 0 \/ has_async_dma => WaitCompletion("poller")
  /\ inflight' = IF inflight > 0 THEN 0 ELSE inflight
  /\ dirty' = IF inflight > 0 \/ has_async_dma
                THEN [dirty EXCEPT !["poller"] = {}] ELSE dirty
  /\ done_idx' = IF has_async_dma THEN latest_async_read ELSE done_idx
  /\ has_async_dma' = FALSE
  /\ poller' = "exit"
  /\ UNCHANGED <<batch, entries, plan, callerVars, running, overlapped, event,
                 staging_cur, event_pending, content, chan, next_channel,
                 latest_async_read>>

Poller == \/ SubmitCopies \/ Gather \/ SubmitRuns \/ RecordEvent
          \/ StartIdleWait \/ FinishIdleWait \/ FinalFlush

-----------------------------------------------------------------------------
(* submit_direct *)

\* The polling thread has nothing in flight.
Quiet == poller \in {"poll", "final", "exit"} /\ ~has_async_dma

\* Piece i goes through a staging buffer or straight to the copy engines.
At(i, ps) == IF Staged(ps[i]) THEN "gather" ELSE "submit"

DirectCall ==
  /\ caller = "idle" /\ calls < MaxCalls
  /\ \E p \in Cut :
       /\ call' = p.entries /\ pieces' = p.pieces
       /\ caller' = At(1, p.pieces)
  /\ calls' = calls + 1 /\ piece' = 1
  /\ overlapped' = (overlapped \/ ~Quiet)
  /\ UNCHANGED <<pollerVars, running, event, stagingVars, engineVars, doneVars>>

\* Piece c is gathered into staging_bufs_[c]: no event is waited for, there
\* are never more pieces than buffers.
DirectGather ==
  /\ caller = "gather"
  /\ content' = [content EXCEPT ![piece - 1] = Work("direct", calls)]
  /\ caller' = "submit"
  /\ UNCHANGED <<pollerVars, calls, call, pieces, piece, running, overlapped,
                 event, staging_cur, event_pending, inflight, engineVars,
                 doneVars>>

DirectSubmit ==
  /\ caller = "submit"
  /\ Submit("direct", Len(pieces[piece].copies),
            [work |-> Work("direct", calls),
             buf  |-> IF Staged(pieces[piece]) THEN piece - 1 ELSE NoBuf])
  /\ caller' = "record"
  /\ UNCHANGED <<pollerVars, calls, call, pieces, piece, running, overlapped,
                 event, stagingVars, doneVars>>

\* The pipeline records an event for every chunk but the last.
DirectRecord ==
  /\ caller = "record"
  /\ IF /\ Staged(pieces[piece]) /\ Pipelined(call)
        /\ piece < Min({PIPELINE_CHUNKS, NumBufs})
       THEN /\ RecordOn("direct", piece - 1)
            /\ event_pending' = [event_pending EXCEPT ![piece - 1] = TRUE]
       ELSE UNCHANGED <<event, event_pending>>
  /\ piece' = piece + 1
  /\ caller' = IF piece < Len(pieces) THEN At(piece + 1, pieces) ELSE "wait"
  /\ UNCHANGED <<pollerVars, calls, call, pieces, running, overlapped,
                 staging_cur, inflight, content, engineVars, doneVars>>

\* All copies of the call are done; the flags of all buffers are cleared.
DirectReturn ==
  /\ caller = "wait"
  /\ WaitCompletion("direct")
  /\ dirty' = [dirty EXCEPT !["direct"] = {}]
  /\ event_pending' = [b \in Bufs |-> FALSE]
  /\ caller' = "idle" /\ call' = <<>> /\ pieces' = <<>> /\ piece' = 0
  /\ UNCHANGED <<pollerVars, calls, running, overlapped, event, staging_cur,
                 inflight, content, chan, next_channel, doneVars>>

Caller == DirectGather \/ DirectSubmit \/ DirectRecord \/ DirectReturn

\* Everything the poller took is copied and it has left its loop.
Finished == poller = "exit" /\ caller = "idle" /\ UNCHANGED vars

Next == \/ TakeBatch \/ Poller \/ Stop
        \/ DirectCall \/ Caller
        \/ \E m \in Managers, c \in ChanIds : CopyCompletes(m, c)
        \/ Finished

\* The pinned polling thread, the calling thread and the copy engines keep
\* running; descriptors and calls may stop coming.
Fairness == /\ WF_vars(Poller) /\ WF_vars(Caller)
            /\ \A m \in Managers, c \in ChanIds : WF_vars(CopyCompletes(m, c))

Spec == Init /\ [][Next]_vars /\ Fairness

-----------------------------------------------------------------------------
(* Properties *)

Works == [by : Managers, n : 0..Max({MaxBatches, MaxCalls})]

TypeOK ==
  /\ poller \in {"poll", "buffer", "submit", "record", "idle", "final", "exit"}
  /\ batch \in 0..MaxBatches /\ calls \in 0..MaxCalls
  /\ <<entries, plan>> = <<<<>>, NoPlan>>
       \/ \E p \in Prepared : entries = p.entries /\ plan = p.plan
  /\ <<call, pieces>> = <<<<>>, <<>>>>
       \/ \E p \in Cut : call = p.entries /\ pieces = p.pieces
  /\ caller \in {"idle", "gather", "submit", "record", "wait"}
  /\ staging_cur \in Bufs
  /\ event_pending \in [Bufs -> BOOLEAN]
  /\ inflight \in Int
  /\ event \in [Bufs -> [by : Managers, ch : ChanIds, before : Nat]]
  /\ content \in [Bufs -> Works]
  /\ \A m \in Managers, c \in ChanIds : \A i \in 1..Len(chan[m][c]) :
       chan[m][c][i] \in [work : Works, buf : Bufs \cup {NoBuf}]
  /\ next_channel \in [Managers -> ChanIds]
  /\ dirty \in [Managers -> SUBSET ChanIds]
  /\ has_async_dma \in BOOLEAN
  /\ latest_async_read \in 0..MaxBatches /\ done_idx \in 0..MaxBatches
  /\ running \in BOOLEAN /\ overlapped \in BOOLEAN

\* The copies still to be executed: manager, channel and place in the stream.
Queued == {q \in Managers \X ChanIds \X
                  (1..(MaxBatches + MaxCalls * PIPELINE_CHUNKS)) :
             q[3] <= Len(chan[q[1]][q[2]])}

\* "Event synchronization ensures a buffer is not reused until its DMA
\* completes" (Architecture.md): every copy still queued will read from its
\* staging buffer what was gathered for it.  submit_direct uses the buffers
\* of the polling thread without waiting for their events and clears the
\* flags of all of them: that is safe as long as no call overlaps a batch.
BufferKeptForDma ==
  ~overlapped =>
    \A q \in Queued : LET copy == chan[q[1]][q[2]][q[3]]
                      IN copy.buf # NoBuf => content[copy.buf] = copy.work

\* Nothing is reported complete before it is: done_idx, which
\* wait_for_completion on the GPU relies on, counts only batches whose copies
\* have all been executed, and submit_direct returns only when every copy of
\* every piece has been, whatever channels they went to and whatever the other
\* thread does meanwhile.
DoneMeansCopied ==
  /\ \A q \in Queued : q[1] = "poller" => chan[q[1]][q[2]][q[3]].work.n > done_idx
  /\ caller = "idle" => \A c \in ChanIds : chan["direct"][c] = <<>>

\* What was submitted is eventually published in done_idx, by the idle branch
\* or by the final flush, once descriptors stop coming.
EveryBatchPublished ==
  \A n \in 1..MaxBatches : batch >= n ~> done_idx >= n

\* However process_batch sorts, merges and stages a batch - keys that wrap in
\* the radix sort, sizes that differ - and submit_direct cuts a call
\* into pieces, the copies move exactly the bytes asked for and stay within the
\* staging buffer, and each piece has a buffer of its own.
CopiesMoveEntries ==
  /\ entries # <<>> => Delivered(plan) = Moved(entries) /\ InBuffer(plan)
  /\ call # <<>> =>
       /\ UNION {Delivered(pieces[i]) : i \in 1..Len(pieces)} = Moved(call)
       /\ \A i \in 1..Len(pieces) : InBuffer(pieces[i])
       /\ Len(pieces) <= NumBufs
=============================================================================
