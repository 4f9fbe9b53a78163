---------------------------- MODULE StagingDmaProofs ----------------------------
(* Machine-checked proofs about queue mode and submit_direct: what done_idx    *)
(* and a returning call promise, and how long a staging buffer is kept.        *)
EXTENDS StagingDma, SequenceTheorems, TLAPS

-----------------------------------------------------------------------------
(* Completion: the inductive invariant, whatever plans the batches become *)

Copies == [work : [by : Managers, n : Nat], buf : Int]

DoneTypes ==
  /\ batch \in Nat /\ calls \in Nat /\ piece \in Nat
  /\ latest_async_read \in Nat /\ done_idx \in Nat /\ staging_cur \in Int
  /\ DOMAIN dirty = Managers
  /\ chan \in [Managers -> [ChanIds -> Seq(Copies)]]

\* A channel with copies is one wait_completion waits for.
DirtyInv == \A m \in Managers, c \in ChanIds : c \notin dirty[m] => chan[m][c] = <<>>

\* A batch in the making is newer than everything published or to be published.
OrderInv == /\ done_idx <= latest_async_read /\ latest_async_read <= batch
            /\ poller \in {"buffer", "submit"} => latest_async_read < batch

NewerInv == \A c \in ChanIds : \A i \in 1..Len(chan["poller"][c]) :
              chan["poller"][c][i].work.n > done_idx

IdleInv == caller = "idle" => \A c \in ChanIds : chan["direct"][c] = <<>>

DoneInv == DoneTypes /\ DirtyInv /\ OrderInv /\ NewerInv /\ IdleInv

\* submit_scatter_gather: what a submission adds, and that its channels are
\* waited for.
LEMMA Submitted ==
  ASSUME DoneTypes, DirtyInv, NEW m \in Managers, NEW n, NEW copy \in Copies,
         Submit(m, n, copy)
  PROVE  /\ chan' \in [Managers -> [ChanIds -> Seq(Copies)]]
         /\ DOMAIN dirty' = Managers /\ DirtyInv'
         /\ \A k \in Managers : k # m => chan'[k] = chan[k]
         /\ \A c \in ChanIds :
              chan'[m][c] = IF c \in Used(m, n) THEN Append(chan[m][c], copy)
                                                ELSE chan[m][c]
         /\ \A c \in ChanIds : \A i \in 1..Len(chan'[m][c]) :
              \/ i \in 1..Len(chan[m][c]) /\ chan'[m][c][i] = chan[m][c][i]
              \/ c \in Used(m, n) /\ i = Len(chan[m][c]) + 1 /\ chan'[m][c][i] = copy
<1>1. \A c \in ChanIds : chan[m][c] \in Seq(Copies)
  BY DEF DoneTypes
<1>2. /\ \A k \in Managers : k # m => chan'[k] = chan[k]
      /\ \A c \in ChanIds :
           chan'[m][c] = IF c \in Used(m, n) THEN Append(chan[m][c], copy)
                                             ELSE chan[m][c]
      /\ DOMAIN chan' = Managers /\ DOMAIN chan'[m] = ChanIds
      /\ chan'[m] = [c \in ChanIds |-> IF c \in Used(m, n) THEN Append(chan[m][c], copy)
                                             ELSE chan[m][c]]
      /\ chan' = [chan EXCEPT ![m] = chan'[m]]
  BY DEF Submit, DoneTypes
<1>3. \A c \in ChanIds : chan'[m][c] \in Seq(Copies)
  BY <1>1, <1>2
<1>4. chan'[m] \in [ChanIds -> Seq(Copies)]
  BY <1>2, <1>3
<1>5. chan' \in [Managers -> [ChanIds -> Seq(Copies)]]
  BY <1>2, <1>4 DEF DoneTypes
<1>6. /\ dirty'[m] = dirty[m] \cup Used(m, n) /\ DOMAIN dirty' = Managers
      /\ \A k \in Managers : k # m => dirty'[k] = dirty[k]
  BY DEF Submit, DirtyAfter, DoneTypes
<1>7. DirtyInv'
  BY <1>2, <1>6 DEF DirtyInv
<1>8. \A c \in ChanIds : \A i \in 1..Len(chan'[m][c]) :
        \/ i \in 1..Len(chan[m][c]) /\ chan'[m][c][i] = chan[m][c][i]
        \/ c \in Used(m, n) /\ i = Len(chan[m][c]) + 1 /\ chan'[m][c][i] = copy
  <2> SUFFICES ASSUME NEW c \in ChanIds, NEW i \in 1..Len(chan'[m][c])
               PROVE  \/ i \in 1..Len(chan[m][c]) /\ chan'[m][c][i] = chan[m][c][i]
                      \/ /\ c \in Used(m, n) /\ i = Len(chan[m][c]) + 1
                         /\ chan'[m][c][i] = copy
    OBVIOUS
  <2>1. CASE c \in Used(m, n)
    <3>1. chan'[m][c] = Append(chan[m][c], copy) /\ chan[m][c] \in Seq(Copies)
      BY <1>1, <1>2, <2>1
    <3>2. QED
      BY <2>1, <3>1, AppendProperties
  <2>2. CASE c \notin Used(m, n)
    BY <1>2, <2>2
  <2>3. QED
    BY <2>1, <2>2
<1>9. QED
  BY <1>2, <1>5, <1>6, <1>7, <1>8

\* A copy completes: the others of its channel move up.
LEMMA Completed ==
  ASSUME chan \in [Managers -> [ChanIds -> Seq(Copies)]],
         NEW m \in Managers, NEW c \in ChanIds, CopyCompletes(m, c)
  PROVE  /\ chan' \in [Managers -> [ChanIds -> Seq(Copies)]]
         /\ \A k \in Managers, d \in ChanIds :
              <<k, d>> # <<m, c>> => chan'[k][d] = chan[k][d]
         /\ chan[m][c] # <<>> /\ Len(chan'[m][c]) = Len(chan[m][c]) - 1
         /\ \A i \in 1..Len(chan'[m][c]) :
              i + 1 \in 1..Len(chan[m][c]) /\ chan'[m][c][i] = chan[m][c][i + 1]
<1>1. chan[m][c] \in Seq(Copies) /\ chan[m][c] # <<>>
  BY DEF CopyCompletes
<1>2. chan'[m][c] = Tail(chan[m][c])
      /\ \A k \in Managers, d \in ChanIds :
           <<k, d>> # <<m, c>> => chan'[k][d] = chan[k][d]
  BY DEF CopyCompletes
<1>3. /\ Tail(chan[m][c]) \in Seq(Copies) /\ Len(Tail(chan[m][c])) = Len(chan[m][c]) - 1
      /\ \A i \in 1..Len(Tail(chan[m][c])) :
           i + 1 \in 1..Len(chan[m][c]) /\ Tail(chan[m][c])[i] = chan[m][c][i + 1]
  BY <1>1, HeadTailProperties
<1>4. chan' \in [Managers -> [ChanIds -> Seq(Copies)]]
  BY <1>3 DEF CopyCompletes
<1>5. QED
  BY <1>1, <1>2, <1>3, <1>4

\* wait_completion returns: no channel has a copy left.
LEMMA Waited ==
  ASSUME DirtyInv, NEW m \in Managers, WaitCompletion(m)
  PROVE  \A c \in ChanIds : chan[m][c] = <<>>
BY DEF DirtyInv, WaitCompletion

\* The thread that submits does not disturb the other's copies; its own are
\* newer than done_idx.
LEMMA SubmitDone ==
  ASSUME DoneInv, SubmitCopies \/ SubmitRuns \/ DirectSubmit
  PROVE  DoneInv'
<1> USE DEF DoneInv
<1>1. ASSUME SubmitCopies \/ SubmitRuns
      PROVE  DoneInv'
  <2>1. PICK b \in {NoBuf, staging_cur} :
          Submit("poller", Len(plan.copies), [work |-> Work("poller", batch), buf |-> b])
    BY <1>1 DEF SubmitCopies, SubmitRuns
  <2> DEFINE copy == [work |-> Work("poller", batch), buf |-> b]
  <2>2. copy \in Copies /\ copy.work.n = batch /\ "poller" \in Managers
        /\ "direct" \in Managers
    BY DEF Copies, Work, Managers, DoneTypes, NoBuf
  <2>3. /\ poller = "submit"
        /\ UNCHANGED <<batch, caller, calls, piece, done_idx, staging_cur>>
    BY <1>1 DEF SubmitCopies, SubmitRuns, callerVars, stagingVars, doneVars
  <2>4. /\ latest_async_read' \in {batch, latest_async_read}
        /\ poller' \in {"poll", "record"}
    BY <1>1 DEF SubmitCopies, SubmitRuns, BatchFlushed, doneVars
  <2>5. /\ chan' \in [Managers -> [ChanIds -> Seq(Copies)]]
        /\ DOMAIN dirty' = Managers /\ DirtyInv' /\ chan'["direct"] = chan["direct"]
        /\ \A c \in ChanIds : \A i \in 1..Len(chan'["poller"][c]) :
             \/ i \in 1..Len(chan["poller"][c])
                /\ chan'["poller"][c][i] = chan["poller"][c][i]
             \/ chan'["poller"][c][i] = copy
    <3> HIDE DEF copy
    <3>1. Submit("poller", Len(plan.copies), copy)
      BY <2>1 DEF copy
    <3>2. "direct" # "poller"
      OBVIOUS
    <3>3. QED
      BY <2>2, <3>1, <3>2, Submitted
  <2>6. DoneTypes'
    BY <2>3, <2>4, <2>5 DEF DoneTypes
  <2>7. OrderInv'
    BY <2>3, <2>4 DEF OrderInv, DoneTypes
  <2>8. batch > done_idx
    BY <2>3 DEF OrderInv, DoneTypes
  <2>9. NewerInv'
    BY <2>2, <2>3, <2>5, <2>8 DEF NewerInv
  <2>10. IdleInv'
    BY <2>3, <2>5 DEF IdleInv
  <2>11. QED
    BY <2>5, <2>6, <2>7, <2>9, <2>10
<1>2. ASSUME DirectSubmit
      PROVE  DoneInv'
  <2>1. PICK b \in {NoBuf, piece - 1} :
          Submit("direct", Len(pieces[piece].copies),
                 [work |-> Work("direct", calls), buf |-> b])
    BY <1>2 DEF DirectSubmit
  <2> DEFINE copy == [work |-> Work("direct", calls), buf |-> b]
  <2>2. copy \in Copies /\ "poller" \in Managers /\ "direct" \in Managers
    BY DEF Copies, Work, Managers, DoneTypes, NoBuf
  <2>3. /\ caller' = "record"
        /\ UNCHANGED <<poller, batch, calls, piece, latest_async_read, done_idx, staging_cur>>
    BY <1>2 DEF DirectSubmit, pollerVars, stagingVars, doneVars
  <2>4. /\ chan' \in [Managers -> [ChanIds -> Seq(Copies)]]
        /\ DOMAIN dirty' = Managers /\ DirtyInv' /\ chan'["poller"] = chan["poller"]
    <3> HIDE DEF copy
    <3>1. Submit("direct", Len(pieces[piece].copies), copy)
      BY <2>1 DEF copy
    <3>2. "direct" # "poller"
      OBVIOUS
    <3>3. QED
      BY <2>2, <3>1, <3>2, Submitted
  <2>5. QED
    BY <2>3, <2>4 DEF DoneTypes, OrderInv, NewerInv, IdleInv
<1>3. QED
  BY <1>1, <1>2

\* What is published has been waited for: the streams are empty.
LEMMA WaitDone ==
  ASSUME DoneInv, FinishIdleWait \/ FinalFlush \/ DirectReturn
  PROVE  DoneInv'
<1> USE DEF DoneInv
<1>0. "poller" \in Managers /\ "direct" \in Managers
  BY DEF Managers
<1>1. CASE FinishIdleWait
  <2>1. \A c \in ChanIds : chan["poller"][c] = <<>>
    BY <1>0, <1>1, Waited DEF FinishIdleWait
  <2>2. UNCHANGED <<batch, caller, calls, piece, chan, latest_async_read, staging_cur>>
        /\ done_idx' = latest_async_read /\ poller' = "poll"
        /\ dirty' = [dirty EXCEPT !["poller"] = {}]
    BY <1>1 DEF FinishIdleWait, callerVars
  <2>3. DoneTypes' /\ DirtyInv' /\ OrderInv' /\ IdleInv'
    BY <1>0, <2>1, <2>2 DEF DoneTypes, DirtyInv, OrderInv, IdleInv
  <2>4. NewerInv'
    BY <2>1, <2>2 DEF NewerInv
  <2>5. QED
    BY <2>3, <2>4
<1>2. CASE FinalFlush /\ (inflight > 0 \/ has_async_dma)
  <2>1. \A c \in ChanIds : chan["poller"][c] = <<>>
    BY <1>0, <1>2, Waited DEF FinalFlush
  <2>2. UNCHANGED <<batch, caller, calls, piece, chan, latest_async_read, staging_cur>>
        /\ done_idx' \in {done_idx, latest_async_read} /\ poller' = "exit"
        /\ dirty' = [dirty EXCEPT !["poller"] = {}]
    BY <1>2 DEF FinalFlush, callerVars
  <2>3. DoneTypes' /\ DirtyInv' /\ OrderInv' /\ IdleInv'
    BY <1>0, <2>1, <2>2 DEF DoneTypes, DirtyInv, OrderInv, IdleInv
  <2>4. NewerInv'
    BY <2>1, <2>2 DEF NewerInv
  <2>5. QED
    BY <2>3, <2>4
<1>3. CASE FinalFlush /\ ~(inflight > 0 \/ has_async_dma)
  <2>1. UNCHANGED <<batch, caller, calls, piece, chan, latest_async_read, done_idx, dirty,
                    staging_cur>>
        /\ poller' = "exit"
    BY <1>3 DEF FinalFlush, callerVars
  <2>2. QED
    BY <2>1 DEF DoneTypes, DirtyInv, OrderInv, NewerInv, IdleInv
<1>4. CASE DirectReturn
  <2>1. \A c \in ChanIds : chan["direct"][c] = <<>>
    BY <1>0, <1>4, Waited DEF DirectReturn
  <2>2. UNCHANGED <<poller, batch, calls, chan, latest_async_read, done_idx, staging_cur>>
        /\ piece' = 0 /\ dirty' = [dirty EXCEPT !["direct"] = {}]
    BY <1>4 DEF DirectReturn, pollerVars, doneVars
  <2>3. QED
    BY <1>0, <2>1, <2>2 DEF DoneTypes, DirtyInv, OrderInv, NewerInv, IdleInv
<1>5. QED
  BY <1>1, <1>2, <1>3, <1>4

\* A copy completes: fewer are left.
LEMMA CompleteDone ==
  ASSUME DoneInv, NEW m \in Managers, NEW c \in ChanIds, CopyCompletes(m, c)
  PROVE  DoneInv'
<1> USE DEF DoneInv
<1>1. UNCHANGED <<poller, batch, caller, calls, piece, latest_async_read, done_idx,
                  staging_cur, dirty>>
  BY DEF CopyCompletes, pollerVars, callerVars, stagingVars, doneVars
<1>2. /\ chan' \in [Managers -> [ChanIds -> Seq(Copies)]]
      /\ \A k \in Managers, d \in ChanIds :
           <<k, d>> # <<m, c>> => chan'[k][d] = chan[k][d]
      /\ chan[m][c] # <<>>
      /\ \A i \in 1..Len(chan'[m][c]) :
           i + 1 \in 1..Len(chan[m][c]) /\ chan'[m][c][i] = chan[m][c][i + 1]
  BY Completed DEF DoneTypes
<1>3. DoneTypes' /\ OrderInv'
  BY <1>1, <1>2 DEF DoneTypes, OrderInv
<1>4. DirtyInv' /\ IdleInv'
  BY <1>1, <1>2 DEF DirtyInv, IdleInv, Managers
<1>5. NewerInv'
  <2> SUFFICES ASSUME NEW d \in ChanIds, NEW i \in 1..Len(chan'["poller"][d])
               PROVE  chan'["poller"][d][i].work.n > done_idx
    BY <1>1 DEF NewerInv
  <2>1. CASE m = "poller" /\ d = c
    BY <1>2, <2>1 DEF NewerInv
  <2>2. CASE ~(m = "poller" /\ d = c)
    <3>1. chan'["poller"][d] = chan["poller"][d]
      BY <1>2, <2>2 DEF Managers
    <3>2. QED
      BY <3>1 DEF NewerInv
  <2>3. QED
    BY <2>1, <2>2
<1>6. QED
  BY <1>3, <1>4, <1>5

\* All other steps leave the streams alone.
LEMMA OtherDone ==
  ASSUME DoneInv,
         \/ TakeBatch \/ Gather \/ RecordEvent \/ StartIdleWait \/ Stop
         \/ DirectCall \/ DirectGather \/ DirectRecord \/ UNCHANGED vars
  PROVE  DoneInv'
<1> USE DEF DoneInv
<1>1. UNCHANGED <<chan, dirty, done_idx>>
  BY DEF TakeBatch, Gather, RecordEvent, StartIdleWait, Stop, DirectCall, DirectGather,
       DirectRecord, vars, engineVars, doneVars
<1>2. /\ batch' \in Nat /\ calls' \in Nat /\ piece' \in Nat
      /\ latest_async_read' \in Nat /\ staging_cur' \in Int
  <2>1. CASE TakeBatch \/ Gather \/ StartIdleWait \/ Stop \/ UNCHANGED vars
    BY <2>1 DEF TakeBatch, Gather, StartIdleWait, Stop, vars, pollerVars, callerVars,
         stagingVars, doneVars, DoneTypes
  <2>2. CASE RecordEvent
    BY <2>2, PlanAssumption, StagingAssumption DEF RecordEvent, BatchFlushed, callerVars, DoneTypes
  <2>3. CASE DirectCall \/ DirectGather \/ DirectRecord
    BY <2>3 DEF DirectCall, DirectGather, DirectRecord, pollerVars, callerVars,
         stagingVars, doneVars, DoneTypes
  <2>4. QED
    BY <2>1, <2>2, <2>3
<1>3. DoneTypes' /\ DirtyInv' /\ NewerInv'
  BY <1>1, <1>2 DEF DoneTypes, DirtyInv, NewerInv
<1>4. OrderInv'
  BY <1>1 DEF TakeBatch, Gather, RecordEvent, BatchFlushed, StartIdleWait, Stop, DirectCall,
       DirectGather, DirectRecord, vars, pollerVars, doneVars, OrderInv, DoneTypes
<1>5. IdleInv'
  <2>1. caller' = "idle" => caller = "idle"
    BY DEF TakeBatch, Gather, RecordEvent, StartIdleWait, Stop, DirectCall, DirectGather,
         DirectRecord, vars, callerVars, At
  <2>2. QED
    BY <1>1, <2>1 DEF IdleInv
<1>6. QED
  BY <1>3, <1>4, <1>5

\* The invariant behind done_idx and the return of submit_direct.
THEOREM DoneInvariant == Spec => []DoneInv
<1>1. Init => DoneInv
  BY EmptySeq DEF Init, DoneInv, DoneTypes, DirtyInv, OrderInv, NewerInv, IdleInv,
       Managers, Bufs
<1>2. DoneInv /\ [Next]_vars => DoneInv'
  BY SubmitDone, WaitDone, CompleteDone, OtherDone DEF Next, Poller, Caller, Finished
<1>3. QED
  BY <1>1, <1>2, PTL DEF Spec

\* Nothing is reported complete before it is: done_idx counts only batches
\* whose copies have all been executed, and submit_direct returns only when all
\* of its copies have been - for every way to plan the copies, number of
\* channels and interleaving of the two threads.
THEOREM NothingDoneEarly == Spec => []DoneMeansCopied
<1>1. DoneInv => DoneMeansCopied
  <2> SUFFICES ASSUME DoneInv
               PROVE  DoneMeansCopied
    OBVIOUS
  <2>1. ASSUME NEW q \in Queued, q[1] = "poller"
        PROVE  chan[q[1]][q[2]][q[3]].work.n > done_idx
    <3>1. /\ q[2] \in ChanIds /\ q[3] <= Len(chan["poller"][q[2]])
          /\ q[3] \in 1..(MaxBatches + MaxCalls * PIPELINE_CHUNKS)
      BY <2>1 DEF Queued
    <3>2. q[3] \in 1..Len(chan["poller"][q[2]])
      BY <3>1 DEF DoneInv, DoneTypes, Managers
    <3>3. QED
      BY <2>1, <3>1, <3>2 DEF DoneInv, NewerInv
  <2>2. QED
    BY <2>1 DEF DoneInv, IdleInv, DoneMeansCopied
<1>2. QED
  BY <1>1, DoneInvariant, PTL

-----------------------------------------------------------------------------
(* Staging buffers: the inductive invariant *)

PieceInv == caller \in {"gather", "submit", "record"} =>
              /\ piece \in 1..Len(pieces) /\ Len(pieces) \in 1..NumBufs
              /\ \A i \in 1..Len(pieces) : Len(pieces[i].copies) \in Nat

StagingTypeInv == TypeOK /\ PieceInv

\* Copies of the polling thread in flight are known as such.
FlightInv == has_async_dma \/ poller = "record"
               \/ \A c \in ChanIds : chan["poller"][c] = <<>>

\* The event of buffer b lies behind place i of channel c.
Recorded(b, c, i) == /\ event_pending[b] /\ event[b].by = "poller"
                     /\ event[b].ch = c /\ i <= event[b].before

\* The copy at place i of a channel: its buffer has what was gathered for it,
\* and is guarded by an event or about to be.
CopyOK(m, c, i) ==
  LET copy == chan[m][c][i]
  IN /\ copy.buf # NoBuf => content[copy.buf] = copy.work
     /\ m = "direct" => copy.work = Work("direct", calls)
     /\ m = "poller" /\ copy.buf # NoBuf =>
          IF poller = "record" /\ copy.buf = staging_cur
            THEN c = LastStream("poller") ELSE Recorded(copy.buf, c, i)

CopiesOK == \A m \in Managers, c \in ChanIds : \A i \in 1..Len(chan[m][c]) :
              CopyOK(m, c, i)

\* Nobody reads a buffer that has been gathered into and not submitted yet.
Fresh ==
  /\ caller = "submit" /\ Staged(pieces[piece]) => content[piece - 1] = Work("direct", calls)
  /\ poller = "submit" /\ Staged(plan) =>
       /\ content[staging_cur] = Work("poller", batch)
       /\ \A c \in ChanIds : \A i \in 1..Len(chan["poller"][c]) :
            chan["poller"][c][i].buf # staging_cur

KeptInv == ~overlapped => /\ caller # "idle" => Quiet
                          /\ CopiesOK /\ Fresh

BufferInv == StagingTypeInv /\ FlightInv /\ KeptInv

-----------------------------------------------------------------------------
(* Channels *)

\* The contiguous ranges of a large submission reach the last channel at most.
LEMMA RangeChannel ==
  ASSUME NEW n \in Nat, NEW i \in 0..(n - 1)
  PROVE  i \div ((n + Channels - 1) \div Channels) \in ChanIds
<1> DEFINE per == (n + Channels - 1) \div Channels
           r   == (n + Channels - 1) % Channels
           q   == i \div per
           s   == i % per
<1>1. Channels \in Nat /\ Channels > 0
  BY StagingAssumption
<1>2. per \in Nat /\ r \in 0..(Channels - 1) /\ n + Channels - 1 = Channels * per + r
  BY <1>1
<1> HIDE DEF per, r
<1>3. n <= Channels * per
  BY <1>1, <1>2
<1>4. per > 0
  <2> SUFFICES ASSUME per = 0 PROVE FALSE
    BY <1>2
  <2> QED BY <1>1, <1>3
<1>5. q \in Nat /\ s \in 0..(per - 1) /\ i = per * q + s
  BY <1>2, <1>4 DEF q, s
<1> HIDE DEF q, s
<1>6. q < Channels
  <2> SUFFICES ASSUME q >= Channels PROVE FALSE
    BY <1>1, <1>5
  <2> DEFINE d == q - Channels
  <2>1. d \in Nat /\ q = Channels + d
    BY <1>1, <1>5
  <2> HIDE DEF d
  <2>2. per * q = Channels * per + per * d /\ per * d \in Nat
    BY <1>1, <1>2, <2>1
  <2>3. QED
    BY <1>2, <1>3, <1>5, <1>1, <2>2
<1>7. QED
  BY <1>1, <1>5, <1>6 DEF ChanIds, q, per

\* Submissions and events only ever name channels there are.
LEMMA ChannelTypes ==
  ASSUME next_channel \in [Managers -> ChanIds], NEW m \in Managers, NEW n \in Nat
  PROVE  /\ Used(m, n) \subseteq ChanIds /\ NextChannel(m, n) \in ChanIds
         /\ LastStream(m) \in ChanIds
<1>1. Channels \in Nat /\ Channels > 0 /\ next_channel[m] \in Nat
  BY StagingAssumption DEF ChanIds
<1>2. \A k \in Int : k % Channels \in ChanIds
  BY <1>1 DEF ChanIds
<1>3. \A i \in 0..(n - 1) : ChannelOf(m, i, n) \in ChanIds
  <2> SUFFICES ASSUME NEW i \in 0..(n - 1)
               PROVE  ChannelOf(m, i, n) \in ChanIds
    OBVIOUS
  <2>1. CASE n <= Channels
    <3>1. ChannelOf(m, i, n) = (next_channel[m] + i) % Channels
      BY <2>1 DEF ChannelOf
    <3>2. next_channel[m] + i \in Int
      BY <1>1
    <3>3. QED
      BY <1>2, <3>1, <3>2
  <2>2. CASE ~(n <= Channels)
    BY <2>2, RangeChannel DEF ChannelOf
  <2>3. QED
    BY <2>1, <2>2
<1>4. NextChannel(m, n) \in ChanIds
  BY <1>1, <1>2 DEF NextChannel, ChanIds
<1>5. LastStream(m) \in ChanIds
  BY <1>1, <1>2 DEF LastStream
<1>6. QED
  BY <1>3, <1>4, <1>5 DEF Used

\* One copy goes to one channel, and the event to the same.
LEMMA OneChannel ==
  ASSUME next_channel \in [Managers -> ChanIds], NEW m \in Managers
  PROVE  /\ Used(m, 1) = {next_channel[m]}
         /\ (NextChannel(m, 1) + Channels - 1) % Channels = next_channel[m]
<1>1. Channels \in Nat /\ Channels > 0 /\ next_channel[m] \in Nat /\ next_channel[m] < Channels
  BY StagingAssumption DEF ChanIds
<1>2. (next_channel[m] + 0) % Channels = next_channel[m]
  BY <1>1
<1>3. Used(m, 1) = {next_channel[m]}
  BY <1>1, <1>2 DEF Used, ChannelOf
<1>4. (NextChannel(m, 1) + Channels - 1) % Channels = next_channel[m]
  <2>1. CASE next_channel[m] + 1 < Channels
    <3>1. NextChannel(m, 1) = next_channel[m] + 1
      BY <1>1, <2>1 DEF NextChannel
    <3>2. (next_channel[m] + Channels) % Channels = next_channel[m]
      BY <1>1
    <3>3. QED
      BY <1>1, <3>1, <3>2
  <2>2. CASE next_channel[m] + 1 = Channels
    <3>1. NextChannel(m, 1) = 0
      BY <1>1, <2>2 DEF NextChannel
    <3>2. QED
      BY <1>1, <2>2, <3>1
  <2>3. QED
    BY <1>1, <2>1, <2>2
<1>5. QED
  BY <1>3, <1>4

\* The work of a batch or a call is one the buffers may hold.
LEMMA WorkTypes ==
  /\ \A n \in 0..MaxBatches : Work("poller", n) \in Works
  /\ \A n \in 0..MaxCalls : Work("direct", n) \in Works
  /\ Works \subseteq [by : Managers, n : Nat]
<1>1. MaxBatches \in Nat /\ MaxCalls \in Nat
  BY StagingAssumption
<1>2. \E x \in {MaxBatches, MaxCalls} : \A y \in {MaxBatches, MaxCalls} : x >= y
  <2>1. CASE MaxBatches <= MaxCalls
    BY <1>1, <2>1
  <2>2. CASE MaxCalls <= MaxBatches
    BY <1>1, <2>2
  <2>3. QED
    BY <1>1, <2>1, <2>2
<1> DEFINE top == Max({MaxBatches, MaxCalls})
<1>3. top \in Nat /\ MaxBatches <= top /\ MaxCalls <= top
  BY <1>1, <1>2 DEF Max
<1>4. Works = [by : Managers, n : 0..top]
  BY DEF Works
<1> HIDE DEF top
<1>5. QED
  BY <1>1, <1>3, <1>4 DEF Work, Managers

-----------------------------------------------------------------------------
(* Types *)

ControlTypes ==
  /\ poller \in {"poll", "buffer", "submit", "record", "idle", "final", "exit"}
  /\ batch \in 0..MaxBatches /\ calls \in 0..MaxCalls
  /\ <<entries, plan>> = <<<<>>, NoPlan>>
       \/ \E p \in Prepared : entries = p.entries /\ plan = p.plan
  /\ <<call, pieces>> = <<<<>>, <<>>>>
       \/ \E p \in Cut : call = p.entries /\ pieces = p.pieces
  /\ caller \in {"idle", "gather", "submit", "record", "wait"}
  /\ has_async_dma \in BOOLEAN
  /\ latest_async_read \in 0..MaxBatches /\ done_idx \in 0..MaxBatches
  /\ running \in BOOLEAN /\ overlapped \in BOOLEAN

BufferTypes ==
  /\ staging_cur \in Bufs
  /\ event_pending \in [Bufs -> BOOLEAN]
  /\ inflight \in Int
  /\ content \in [Bufs -> Works]

EventTypes == event \in [Bufs -> [by : Managers, ch : ChanIds, before : Nat]]

EngineTypes ==
  /\ \A m \in Managers, c \in ChanIds : \A i \in 1..Len(chan[m][c]) :
       chan[m][c][i] \in [work : Works, buf : Bufs \cup {NoBuf}]
  /\ next_channel \in [Managers -> ChanIds]
  /\ dirty \in [Managers -> SUBSET ChanIds]

\* These are all the parts of TypeOK.
LEMMA TypeParts == TypeOK <=> ControlTypes /\ BufferTypes /\ EventTypes /\ EngineTypes
BY DEF TypeOK, ControlTypes, BufferTypes, EventTypes, EngineTypes

\* The control state of both threads.
LEMMA ControlStep ==
  ASSUME PlansFit, DoneInv, DoneInv', ControlTypes, PieceInv, [Next]_vars
  PROVE  ControlTypes' /\ PieceInv'
<1>1. done_idx' <= latest_async_read' /\ latest_async_read' <= batch'
      /\ done_idx' \in Nat /\ latest_async_read' \in Nat
  BY DEF DoneInv, DoneTypes, OrderInv
<1>2. ASSUME batch' \in 0..MaxBatches
      PROVE  latest_async_read' \in 0..MaxBatches /\ done_idx' \in 0..MaxBatches
  BY <1>1, <1>2, StagingAssumption
<1>3. ASSUME UNCHANGED <<caller, pieces, piece>>
      PROVE  PieceInv'
  BY <1>3 DEF PieceInv
<1>4. CASE TakeBatch
  BY <1>2, <1>3, <1>4, StagingAssumption DEF TakeBatch, ControlTypes, callerVars, doneVars
<1>5. CASE SubmitCopies \/ RecordEvent
  BY <1>2, <1>3, <1>5 DEF SubmitCopies, RecordEvent, BatchFlushed, ControlTypes, callerVars
<1>6. CASE Gather \/ SubmitRuns \/ StartIdleWait \/ FinishIdleWait \/ FinalFlush \/ Stop
  BY <1>2, <1>3, <1>6 DEF Gather, SubmitRuns, StartIdleWait, FinishIdleWait, FinalFlush,
       Stop, ControlTypes, callerVars, doneVars
<1>7. CASE DirectCall
  <2>1. PICK p \in Cut : call' = p.entries /\ pieces' = p.pieces /\ caller' = At(1, p.pieces)
    BY <1>7 DEF DirectCall
  <2>2. /\ Len(pieces') \in 1..NumBufs /\ caller' \in {"gather", "submit"} /\ piece' = 1
        /\ \A i \in 1..Len(pieces') : Len(pieces'[i].copies) \in Nat
    BY <1>7, <2>1 DEF DirectCall, PlansFit, At
  <2>3. PieceInv'
    BY <2>2 DEF PieceInv
  <2>4. UNCHANGED <<poller, batch, entries, plan, running, has_async_dma, latest_async_read,
                    done_idx>>
        /\ calls' \in 0..MaxCalls /\ overlapped' \in BOOLEAN
    BY <1>7, StagingAssumption DEF DirectCall, pollerVars, doneVars, ControlTypes
  <2>5. QED
    BY <2>1, <2>2, <2>3, <2>4 DEF ControlTypes
<1>8. CASE DirectGather \/ DirectSubmit
  <2>1. caller \in {"gather", "submit"} /\ caller' \in {"submit", "record"}
        /\ UNCHANGED <<poller, batch, entries, plan, calls, call, pieces, piece, running,
                       overlapped, has_async_dma, latest_async_read, done_idx>>
    BY <1>8 DEF DirectGather, DirectSubmit, pollerVars, doneVars
  <2>2. QED
    BY <2>1 DEF ControlTypes, PieceInv
<1>9. CASE DirectRecord
  <2>1. /\ caller = "record" /\ piece' = piece + 1
        /\ caller' = IF piece < Len(pieces) THEN At(piece + 1, pieces) ELSE "wait"
        /\ UNCHANGED <<poller, batch, entries, plan, calls, call, pieces, running,
                       overlapped, has_async_dma, latest_async_read, done_idx>>
    BY <1>9 DEF DirectRecord, pollerVars, doneVars
  <2>2. PieceInv'
    BY <2>1 DEF PieceInv
  <2>3. QED
    BY <2>1, <2>2 DEF ControlTypes, At
<1>10. CASE DirectReturn
  BY <1>10 DEF DirectReturn, ControlTypes, PieceInv, pollerVars, doneVars
<1>11. CASE \E m \in Managers, c \in ChanIds : CopyCompletes(m, c)
  BY <1>11 DEF CopyCompletes, ControlTypes, PieceInv, pollerVars, callerVars, doneVars
<1>12. CASE UNCHANGED vars
  BY <1>12 DEF vars, ControlTypes, PieceInv, pollerVars, callerVars, doneVars
<1>13. QED
  BY <1>4, <1>5, <1>6, <1>7, <1>8, <1>9, <1>10, <1>11, <1>12
     DEF Next, Poller, Caller, Finished

\* The staging buffers and their flags.
LEMMA BufferStep ==
  ASSUME ControlTypes, PieceInv, BufferTypes, [Next]_vars
  PROVE  BufferTypes'
<1>1. CASE \/ TakeBatch \/ SubmitCopies \/ SubmitRuns \/ StartIdleWait \/ Stop
           \/ DirectCall \/ DirectSubmit \/ UNCHANGED vars
           \/ \E m \in Managers, c \in ChanIds : CopyCompletes(m, c)
  BY <1>1 DEF TakeBatch, SubmitCopies, SubmitRuns, StartIdleWait, Stop, DirectCall,
       DirectSubmit, CopyCompletes, vars, stagingVars, BufferTypes
<1>2. CASE Gather
  BY <1>2, WorkTypes DEF Gather, BufferTypes, ControlTypes
<1>3. CASE RecordEvent
  <2>1. staging_cur' \in Bufs
    BY <1>3, PlanAssumption, StagingAssumption DEF RecordEvent, BufferTypes, Bufs
  <2>2. QED
    BY <1>3, <2>1 DEF RecordEvent, BufferTypes
<1>4. CASE FinishIdleWait \/ FinalFlush
  BY <1>4 DEF FinishIdleWait, FinalFlush, BufferTypes
<1>5. CASE DirectGather
  BY <1>5, WorkTypes DEF DirectGather, BufferTypes, ControlTypes
<1>6. CASE DirectRecord \/ DirectReturn
  BY <1>6 DEF DirectRecord, DirectReturn, BufferTypes
<1>7. QED
  BY <1>1, <1>2, <1>3, <1>4, <1>5, <1>6 DEF Next, Poller, Caller, Finished

\* The events.
LEMMA EventStep ==
  ASSUME DoneInv, EventTypes, EngineTypes, [Next]_vars
  PROVE  EventTypes'
<1>1. "poller" \in Managers /\ "direct" \in Managers
  BY DEF Managers
<1>2. 0 \in ChanIds
  BY StagingAssumption DEF ChanIds
<1>3. ASSUME NEW m \in Managers, NEW b, RecordOn(m, b)
      PROVE  EventTypes'
  <2>1. LastStream(m) \in ChanIds /\ Len(chan[m][LastStream(m)]) \in Nat
    <3>1. LastStream(m) \in ChanIds
      BY ChannelTypes DEF EngineTypes
    <3>2. QED
      BY <3>1 DEF DoneInv, DoneTypes
  <2>2. QED
    BY <1>1, <1>2, <1>3, <2>1 DEF RecordOn, Reached, EventTypes
<1>4. CASE \/ TakeBatch \/ SubmitCopies \/ Gather \/ SubmitRuns \/ StartIdleWait
           \/ FinishIdleWait \/ FinalFlush \/ Stop \/ DirectCall \/ DirectGather
           \/ DirectSubmit \/ DirectReturn \/ UNCHANGED vars
  BY <1>4 DEF TakeBatch, SubmitCopies, Gather, SubmitRuns, StartIdleWait, FinishIdleWait,
       FinalFlush, Stop, DirectCall, DirectGather, DirectSubmit, DirectReturn, vars,
       EventTypes
<1>5. CASE RecordEvent
  BY <1>1, <1>3, <1>5 DEF RecordEvent
<1>6. CASE DirectRecord
  BY <1>1, <1>3, <1>6 DEF DirectRecord, EventTypes
<1>7. ASSUME NEW m \in Managers, NEW c \in ChanIds, CopyCompletes(m, c)
      PROVE  EventTypes'
  <2> SUFFICES ASSUME NEW b \in Bufs
               PROVE  event'[b] \in [by : Managers, ch : ChanIds, before : Nat]
    BY <1>7 DEF CopyCompletes, EventTypes
  <2>1. event[b] \in [by : Managers, ch : ChanIds, before : Nat]
    BY DEF EventTypes
  <2>2. event'[b] = CASE event[b] = [by |-> m, ch |-> c, before |-> 1] -> Reached
         [] event[b].by = m /\ event[b].ch = c /\ event[b].before > 1
              -> [event[b] EXCEPT !.before = @ - 1]
         [] OTHER -> event[b]
    BY <1>7 DEF CopyCompletes
  <2>3. CASE event[b] = [by |-> m, ch |-> c, before |-> 1]
    <3>1. event'[b] = Reached
      BY <2>2, <2>3
    <3>2. QED
      BY <1>1, <1>2, <3>1 DEF Reached
  <2>4. CASE event[b].by = m /\ event[b].ch = c /\ event[b].before > 1
    <3>1. event[b] # [by |-> m, ch |-> c, before |-> 1]
      BY <2>4
    <3>2. event'[b] = [event[b] EXCEPT !.before = @ - 1]
      BY <2>2, <2>4, <3>1
    <3>3. QED
      BY <2>1, <2>4, <3>2
  <2>5. CASE event[b] # [by |-> m, ch |-> c, before |-> 1]
             /\ ~(event[b].by = m /\ event[b].ch = c /\ event[b].before > 1)
    <3>1. event'[b] = event[b]
      BY <2>2, <2>5
    <3>2. QED
      BY <2>1, <3>1
  <2>6. QED
    BY <2>3, <2>4, <2>5
<1>8. QED
  BY <1>4, <1>5, <1>6, <1>7 DEF Next, Poller, Caller, Finished

\* The streams: every copy is of a batch or a call, from user memory or from a
\* buffer there is.
LEMMA EngineStep ==
  ASSUME PlansFit, DoneInv, ControlTypes, PieceInv, BufferTypes, EngineTypes, [Next]_vars
  PROVE  EngineTypes'
<1>1. "poller" \in Managers /\ "direct" \in Managers /\ NoBuf \in Int
  BY DEF Managers, NoBuf
<1>2. ASSUME NEW m \in Managers, NEW n \in Nat,
             NEW copy \in [work : Works, buf : Bufs \cup {NoBuf}], Submit(m, n, copy)
      PROVE  EngineTypes'
  <2>1. copy \in Copies
    BY <1>1, WorkTypes, PlanAssumption DEF Copies, Bufs
  <2>2. /\ \A k \in Managers : k # m => chan'[k] = chan[k]
        /\ \A c \in ChanIds : \A i \in 1..Len(chan'[m][c]) :
             \/ i \in 1..Len(chan[m][c]) /\ chan'[m][c][i] = chan[m][c][i]
             \/ c \in Used(m, n) /\ i = Len(chan[m][c]) + 1 /\ chan'[m][c][i] = copy
    BY <1>2, <2>1, Submitted DEF DoneInv
  <2>3. \A k \in Managers, c \in ChanIds : \A i \in 1..Len(chan'[k][c]) :
          chan'[k][c][i] \in [work : Works, buf : Bufs \cup {NoBuf}]
    <3> SUFFICES ASSUME NEW k \in Managers, NEW c \in ChanIds,
                        NEW i \in 1..Len(chan'[k][c])
                 PROVE  chan'[k][c][i] \in [work : Works, buf : Bufs \cup {NoBuf}]
      OBVIOUS
    <3>1. CASE k = m
      BY <2>2, <3>1 DEF EngineTypes
    <3>2. CASE k # m
      BY <2>2, <3>2 DEF EngineTypes
    <3>3. QED
      BY <3>1, <3>2
  <2>4. Used(m, n) \subseteq ChanIds /\ NextChannel(m, n) \in ChanIds
    BY ChannelTypes DEF EngineTypes
  <2>5. QED
    BY <1>2, <2>3, <2>4 DEF Submit, DirtyAfter, EngineTypes
<1>3. Len(plan.copies) \in Nat
  <2>1. Len(NoPlan.copies) \in Nat
    BY DEF NoPlan, FromUser
  <2>2. QED
    BY <2>1 DEF ControlTypes, PlansFit
<1>4. CASE SubmitCopies \/ SubmitRuns
  <2>1. PICK b \in {NoBuf, staging_cur} :
          Submit("poller", Len(plan.copies), [work |-> Work("poller", batch), buf |-> b])
    BY <1>4 DEF SubmitCopies, SubmitRuns
  <2>2. [work |-> Work("poller", batch), buf |-> b] \in [work : Works, buf : Bufs \cup {NoBuf}]
    BY WorkTypes DEF ControlTypes, BufferTypes
  <2>3. QED
    BY <1>1, <1>2, <1>3, <2>1, <2>2
<1>5. CASE DirectSubmit
  <2>1. PICK b \in {NoBuf, piece - 1} :
          Submit("direct", Len(pieces[piece].copies),
                 [work |-> Work("direct", calls), buf |-> b])
    BY <1>5 DEF DirectSubmit
  <2>2. /\ piece - 1 \in Bufs /\ Len(pieces[piece].copies) \in Nat
    BY <1>5, PlanAssumption DEF DirectSubmit, PieceInv, Bufs
  <2>3. [work |-> Work("direct", calls), buf |-> b] \in [work : Works, buf : Bufs \cup {NoBuf}]
    BY <2>2, WorkTypes DEF ControlTypes
  <2>4. QED
    BY <1>1, <1>2, <2>1, <2>2, <2>3
<1>6. CASE \/ TakeBatch \/ Gather \/ RecordEvent \/ StartIdleWait \/ Stop
           \/ DirectCall \/ DirectGather \/ DirectRecord \/ UNCHANGED vars
  <2>1. UNCHANGED <<chan, next_channel, dirty>>
    BY <1>6 DEF TakeBatch, Gather, RecordEvent, StartIdleWait, Stop, DirectCall,
         DirectGather, DirectRecord, vars, engineVars
  <2>2. QED
    BY <2>1 DEF EngineTypes
<1>7. CASE FinishIdleWait \/ FinalFlush \/ DirectReturn
  <2>1. UNCHANGED <<chan, next_channel>> /\ dirty' \in [Managers -> SUBSET ChanIds]
    BY <1>7 DEF FinishIdleWait, FinalFlush, DirectReturn, EngineTypes
  <2>2. QED
    BY <2>1 DEF EngineTypes
<1>8. ASSUME NEW m \in Managers, NEW c \in ChanIds, CopyCompletes(m, c)
      PROVE  EngineTypes'
  <2>1. /\ \A k \in Managers, d \in ChanIds :
             <<k, d>> # <<m, c>> => chan'[k][d] = chan[k][d]
        /\ \A i \in 1..Len(chan'[m][c]) :
             i + 1 \in 1..Len(chan[m][c]) /\ chan'[m][c][i] = chan[m][c][i + 1]
    BY <1>8, Completed DEF DoneInv, DoneTypes
  <2>2. \A k \in Managers, d \in ChanIds : \A i \in 1..Len(chan'[k][d]) :
          chan'[k][d][i] \in [work : Works, buf : Bufs \cup {NoBuf}]
    <3> SUFFICES ASSUME NEW k \in Managers, NEW d \in ChanIds,
                        NEW i \in 1..Len(chan'[k][d])
                 PROVE  chan'[k][d][i] \in [work : Works, buf : Bufs \cup {NoBuf}]
      OBVIOUS
    <3>1. CASE k = m /\ d = c
      BY <2>1, <3>1 DEF EngineTypes
    <3>2. CASE ~(k = m /\ d = c)
      BY <2>1, <3>2 DEF EngineTypes
    <3>3. QED
      BY <3>1, <3>2
  <2>3. UNCHANGED <<next_channel, dirty>>
    BY <1>8 DEF CopyCompletes
  <2>4. QED
    BY <2>2, <2>3 DEF EngineTypes
<1>9. QED
  BY <1>4, <1>5, <1>6, <1>7, <1>8 DEF Next, Poller, Caller, Finished

\* Types, and the piece of a call at hand.
THEOREM StagingTypeInvariant ==
  ASSUME PlansFit
  PROVE  Spec => []StagingTypeInv
<1>1. Init => StagingTypeInv
  <2> SUFFICES ASSUME Init
               PROVE  StagingTypeInv
    OBVIOUS
  <2>1. ControlTypes /\ PieceInv
    <3>1. /\ <<entries, plan>> = <<<<>>, NoPlan>> /\ <<call, pieces>> = <<<<>>, <<>>>>
          /\ caller = "idle" /\ poller = "poll"
      BY DEF Init
    <3>2. 0 \in 0..MaxBatches /\ 0 \in 0..MaxCalls
      BY StagingAssumption
    <3>3. PieceInv
      BY <3>1 DEF PieceInv
    <3>4. QED
      BY <3>1, <3>2, <3>3 DEF Init, ControlTypes
  <2>2. BufferTypes
    BY StagingAssumption, PlanAssumption, WorkTypes DEF Init, BufferTypes, Bufs
  <2>3. EventTypes
    BY StagingAssumption DEF Init, EventTypes, Reached, Managers, ChanIds
  <2>4. EngineTypes
    BY StagingAssumption DEF Init, EngineTypes, ChanIds
  <2>5. QED
    BY <2>1, <2>2, <2>3, <2>4, TypeParts DEF StagingTypeInv
<1>2. DoneInv /\ DoneInv' /\ StagingTypeInv /\ [Next]_vars => StagingTypeInv'
  <2> SUFFICES ASSUME DoneInv, DoneInv', StagingTypeInv, [Next]_vars
               PROVE  StagingTypeInv'
    OBVIOUS
  <2>1. ControlTypes /\ PieceInv /\ BufferTypes /\ EventTypes /\ EngineTypes
    BY TypeParts DEF StagingTypeInv
  <2>2. ControlTypes' /\ PieceInv' /\ BufferTypes' /\ EventTypes' /\ EngineTypes'
    BY <2>1, ControlStep, BufferStep, EventStep, EngineStep
  <2>3. (TypeOK <=> ControlTypes /\ BufferTypes /\ EventTypes /\ EngineTypes)'
    BY TypeParts, PTL
  <2>4. QED
    BY <2>2, <2>3 DEF StagingTypeInv
<1>3. QED
  BY <1>1, <1>2, DoneInvariant, PTL DEF Spec

\* Every variable keeps its type, whatever the batches and calls: no channel,
\* buffer or piece outside its range is ever named.
THEOREM StagingTypes ==
  ASSUME PlansFit
  PROVE  Spec => []TypeOK
<1>1. StagingTypeInv => TypeOK
  BY DEF StagingTypeInv
<1>2. QED
  BY <1>1, StagingTypeInvariant, PTL

-----------------------------------------------------------------------------
(* Staging buffers: every step preserves the invariant *)

\* A submission or a wait ends what it began: copies in flight stay known.
LEMMA FlightStep ==
  ASSUME DoneInv, FlightInv, [Next]_vars
  PROVE  FlightInv'
<1>1. "poller" \in Managers /\ "direct" \in Managers
  BY DEF Managers
<1>2. CASE SubmitCopies \/ SubmitRuns \/ RecordEvent
  BY <1>2 DEF SubmitCopies, SubmitRuns, RecordEvent, BatchFlushed, FlightInv
<1>3. CASE FinishIdleWait
  BY <1>1, <1>3, Waited DEF FinishIdleWait, FlightInv, DoneInv
<1>4. CASE FinalFlush
  <2>1. \A c \in ChanIds : chan["poller"][c] = <<>>
    BY <1>1, <1>4, Waited DEF FinalFlush, FlightInv, DoneInv
  <2>2. QED
    BY <1>4, <2>1 DEF FinalFlush, FlightInv
<1>5. CASE \/ TakeBatch \/ Gather \/ StartIdleWait \/ Stop \/ DirectCall \/ DirectGather
           \/ DirectRecord \/ DirectReturn \/ UNCHANGED vars
  <2>1. UNCHANGED <<chan, has_async_dma>> /\ (poller = "record" => poller' = "record")
    BY <1>5 DEF TakeBatch, Gather, StartIdleWait, Stop, DirectCall, DirectGather,
         DirectRecord, DirectReturn, vars, engineVars, doneVars, pollerVars
  <2>2. QED
    BY <2>1 DEF FlightInv
<1>6. CASE DirectSubmit
  <2>1. UNCHANGED <<poller, has_async_dma>>
    BY <1>6 DEF DirectSubmit, pollerVars, doneVars
  <2>2. chan'["poller"] = chan["poller"]
    BY <1>1, <1>6 DEF DirectSubmit, Submit, DoneInv, DoneTypes
  <2>3. QED
    BY <2>1, <2>2 DEF FlightInv
<1>7. ASSUME NEW m \in Managers, NEW c \in ChanIds, CopyCompletes(m, c)
      PROVE  FlightInv'
  <2>1. UNCHANGED <<poller, has_async_dma>> /\ chan[m][c] # <<>>
    BY <1>7 DEF CopyCompletes, pollerVars, doneVars
  <2>2. \A k \in Managers, d \in ChanIds : <<k, d>> # <<m, c>> => chan'[k][d] = chan[k][d]
    BY <1>7, Completed DEF DoneInv, DoneTypes
  <2>3. QED
    BY <1>1, <2>1, <2>2 DEF FlightInv
<1>8. QED
  BY <1>2, <1>3, <1>4, <1>5, <1>6, <1>7 DEF Next, Poller, Caller, Finished

\* As long as nothing overlaps, one thread has copies in flight at a time.
LEMMA OneThread ==
  ASSUME DoneInv, FlightInv, KeptInv, ~overlapped
  PROVE  /\ CopiesOK /\ Fresh
         /\ caller # "idle" => Quiet /\ \A c \in ChanIds : chan["poller"][c] = <<>>
         /\ ~Quiet => caller = "idle" /\ \A c \in ChanIds : chan["direct"][c] = <<>>
BY DEF DoneInv, FlightInv, KeptInv, Quiet, IdleInv

\* A submission of the polling thread: user memory, or the one run of a
\* buffer nobody else reads.
LEMMA KeptPollerSubmit ==
  ASSUME PlansFit, OneRunPlans, DoneInv, StagingTypeInv, FlightInv, KeptInv,
         SubmitCopies \/ SubmitRuns
  PROVE  KeptInv'
<1> SUFFICES ASSUME ~overlapped
             PROVE  caller' = "idle" /\ CopiesOK' /\ Fresh'
  BY DEF KeptInv, SubmitCopies, SubmitRuns
<1>1. poller = "submit" /\ ~Quiet
  BY DEF SubmitCopies, SubmitRuns, Quiet
<1>2. caller = "idle" /\ CopiesOK /\ Fresh /\ \A c \in ChanIds : chan["direct"][c] = <<>>
  BY <1>1, OneThread
<1>3. ControlTypes /\ BufferTypes /\ EngineTypes
  BY TypeParts DEF StagingTypeInv
<1>4. UNCHANGED <<caller, calls, pieces, piece, event, staging_cur, event_pending, content>>
  BY DEF SubmitCopies, SubmitRuns, callerVars, stagingVars
<1>5. PICK b \in {NoBuf, staging_cur} :
        /\ b = IF Staged(plan) THEN staging_cur ELSE NoBuf
        /\ poller' = IF Staged(plan) THEN "record" ELSE "poll"
        /\ Submit("poller", Len(plan.copies), [work |-> Work("poller", batch), buf |-> b])
  BY DEF SubmitCopies, SubmitRuns, BatchFlushed
<1> DEFINE copy == [work |-> Work("poller", batch), buf |-> b]
           n == Len(plan.copies)
<1>6. /\ copy \in Copies /\ copy.buf = b /\ copy.work = Work("poller", batch)
      /\ "poller" \in Managers /\ "direct" \in Managers /\ "poller" # "direct"
  BY DEF Copies, Work, Managers, DoneInv, DoneTypes, NoBuf
<1>7. /\ chan'["direct"] = chan["direct"]
      /\ \A c \in ChanIds : \A i \in 1..Len(chan'["poller"][c]) :
           \/ i \in 1..Len(chan["poller"][c]) /\ chan'["poller"][c][i] = chan["poller"][c][i]
           \/ c \in Used("poller", n) /\ chan'["poller"][c][i] = copy
  <2> HIDE DEF copy, n
  <2>1. Submit("poller", n, copy)
    BY <1>5 DEF copy, n
  <2>2. QED
    BY <1>6, <2>1, Submitted DEF DoneInv
<1>8. Staged(plan) => n = 1 /\ \A c \in Used("poller", n) : c = LastStream("poller")'
  <2> SUFFICES ASSUME Staged(plan)
               PROVE  n = 1 /\ \A c \in Used("poller", n) : c = LastStream("poller")'
    OBVIOUS
  <2>1. n = 1
    <3>1. plan # NoPlan
      BY DEF NoPlan, FromUser, Staged
    <3>2. QED
      BY <1>3, <3>1 DEF ControlTypes, OneRunPlans
  <2>2. next_channel' = [next_channel EXCEPT !["poller"] = NextChannel("poller", 1)]
    BY <1>5, <2>1 DEF Submit
  <2>3. next_channel'["poller"] = NextChannel("poller", 1)
    BY <1>3, <1>6, <2>2 DEF EngineTypes
  <2>4. LastStream("poller")' = next_channel["poller"]
    BY <1>3, <1>6, <2>3, OneChannel DEF LastStream, EngineTypes
  <2>5. QED
    BY <1>3, <1>6, <2>1, <2>4, OneChannel DEF EngineTypes
<1>9. CopiesOK'
  <2> SUFFICES ASSUME NEW c \in ChanIds, NEW i \in 1..Len(chan'["poller"][c])
               PROVE  CopyOK("poller", c, i)'
    BY <1>2, <1>7 DEF CopiesOK, Managers
  <2>1. CASE i \in 1..Len(chan["poller"][c]) /\ chan'["poller"][c][i] = chan["poller"][c][i]
    <3>1. CopyOK("poller", c, i)
      BY <1>2, <1>6, <2>1 DEF CopiesOK
    <3>2. Staged(plan) => chan["poller"][c][i].buf # staging_cur
      BY <1>1, <1>2, <2>1 DEF Fresh
    <3>3. QED
      BY <1>1, <1>4, <1>5, <2>1, <3>1, <3>2 DEF CopyOK, Recorded
  <2>2. CASE c \in Used("poller", n) /\ chan'["poller"][c][i] = copy
    <3>1. CASE Staged(plan)
      <4>1. b = staging_cur /\ poller' = "record" /\ c = LastStream("poller")'
        BY <1>5, <1>8, <2>2, <3>1
      <4>2. content[staging_cur] = Work("poller", batch)
        BY <1>1, <1>2, <3>1 DEF Fresh
      <4>3. QED
        BY <1>4, <1>6, <2>2, <4>1, <4>2 DEF CopyOK
    <3>2. CASE ~Staged(plan)
      BY <1>5, <1>6, <2>2, <3>2 DEF CopyOK
    <3>3. QED
      BY <3>1, <3>2
  <2>3. QED
    BY <1>7, <2>1, <2>2
<1>10. Fresh'
  BY <1>2, <1>4, <1>5 DEF Fresh
<1>11. QED
  BY <1>2, <1>4, <1>9, <1>10

\* The polling thread gathers into its next buffer: the event it waited for
\* was behind every copy from that buffer.
LEMMA KeptGather ==
  ASSUME DoneInv, StagingTypeInv, FlightInv, KeptInv, Gather
  PROVE  KeptInv'
<1> SUFFICES ASSUME ~overlapped
             PROVE  caller' = "idle" /\ CopiesOK' /\ Fresh'
  BY DEF KeptInv, Gather
<1>1. poller = "buffer" /\ ~Quiet /\ poller' = "submit" /\ BufferFree
  BY DEF Gather, Quiet
<1>2. caller = "idle" /\ CopiesOK /\ Fresh /\ \A c \in ChanIds : chan["direct"][c] = <<>>
  BY <1>1, OneThread
<1>3. ControlTypes /\ BufferTypes /\ EventTypes /\ EngineTypes
  BY TypeParts DEF StagingTypeInv
<1>4. UNCHANGED <<caller, calls, pieces, piece, batch, plan, event, staging_cur, chan>>
      /\ event_pending' = [event_pending EXCEPT ![staging_cur] = FALSE]
      /\ content' = [content EXCEPT ![staging_cur] = Work("poller", batch)]
  BY DEF Gather, callerVars, engineVars
<1>5. ASSUME NEW c \in ChanIds, NEW i \in 1..Len(chan["poller"][c])
      PROVE  chan["poller"][c][i].buf # staging_cur
  <2> SUFFICES ASSUME chan["poller"][c][i].buf = staging_cur
               PROVE  FALSE
    OBVIOUS
  <2>1. staging_cur # NoBuf
    BY <1>3, PlanAssumption DEF BufferTypes, Bufs, NoBuf
  <2>2. Recorded(staging_cur, c, i)
    BY <1>1, <1>2, <2>1 DEF CopiesOK, CopyOK, Managers
  <2>3. event[staging_cur].before = 0
    BY <1>1, <2>2 DEF BufferFree, Recorded
  <2>4. QED
    BY <2>2, <2>3 DEF Recorded
<1>6. CopiesOK'
  <2> SUFFICES ASSUME NEW c \in ChanIds, NEW i \in 1..Len(chan["poller"][c])
               PROVE  CopyOK("poller", c, i)'
    BY <1>2, <1>4 DEF CopiesOK, Managers
  <2>1. CopyOK("poller", c, i) /\ chan["poller"][c][i].buf # staging_cur
    BY <1>2, <1>5 DEF CopiesOK, Managers
  <2>2. chan["poller"][c][i].buf \in Bufs \cup {NoBuf}
    BY <1>3 DEF EngineTypes, Managers
  <2>3. \A b \in Bufs : b # staging_cur =>
          event_pending'[b] = event_pending[b] /\ content'[b] = content[b]
    BY <1>3, <1>4 DEF BufferTypes
  <2>4. QED
    BY <1>1, <1>4, <2>1, <2>2, <2>3 DEF CopyOK, Recorded
<1>7. content'[staging_cur] = Work("poller", batch)
  BY <1>3, <1>4 DEF BufferTypes
<1>8. Fresh'
  BY <1>2, <1>4, <1>5, <1>7 DEF Fresh
<1>9. QED
  BY <1>2, <1>4, <1>6, <1>8

\* The event goes behind the copies of the buffer just submitted.
LEMMA KeptRecord ==
  ASSUME DoneInv, StagingTypeInv, FlightInv, KeptInv, RecordEvent
  PROVE  KeptInv'
<1> SUFFICES ASSUME ~overlapped
             PROVE  caller' = "idle" /\ CopiesOK' /\ Fresh'
  BY DEF KeptInv, RecordEvent
<1>1. poller = "record" /\ ~Quiet /\ poller' = "poll"
  BY DEF RecordEvent, BatchFlushed, Quiet
<1>2. caller = "idle" /\ CopiesOK /\ \A c \in ChanIds : chan["direct"][c] = <<>>
  BY <1>1, OneThread
<1>3. BufferTypes /\ EventTypes /\ EngineTypes
  BY TypeParts DEF StagingTypeInv
<1>4. UNCHANGED <<caller, calls, pieces, piece, content, chan, next_channel>>
      /\ event_pending' = [event_pending EXCEPT ![staging_cur] = TRUE]
      /\ RecordOn("poller", staging_cur)
  BY DEF RecordEvent, callerVars, engineVars
<1>5. CopiesOK'
  <2> SUFFICES ASSUME NEW c \in ChanIds, NEW i \in 1..Len(chan["poller"][c])
               PROVE  CopyOK("poller", c, i)'
    BY <1>2, <1>4 DEF CopiesOK, Managers
  <2> DEFINE b == chan["poller"][c][i].buf
  <2>1. CopyOK("poller", c, i) /\ b \in Bufs \cup {NoBuf}
    BY <1>2, <1>3 DEF CopiesOK, EngineTypes, Managers
  <2>2. CASE b = NoBuf
    BY <1>4, <2>1, <2>2 DEF CopyOK
  <2>3. CASE b # NoBuf /\ b = staging_cur
    <3>1. c = LastStream("poller") /\ b \in Bufs
      BY <1>1, <2>1, <2>3 DEF CopyOK
    <3> DEFINE before == Len(chan["poller"][LastStream("poller")])
    <3>2. i <= before /\ before # 0
      BY <3>1 DEF DoneInv, DoneTypes, Managers
    <3>3. event'[b] = [by |-> "poller", ch |-> LastStream("poller"), before |-> before]
      BY <1>3, <1>4, <2>3, <3>1, <3>2 DEF RecordOn, EventTypes
    <3>4. event_pending'[b]
      BY <1>3, <1>4, <2>3, <3>1 DEF BufferTypes
    <3>5. Recorded(b, c, i)'
      <4>1. b' = b
        BY <1>4
      <4>2. QED
        BY <3>1, <3>2, <3>3, <3>4, <4>1 DEF Recorded
    <3>6. QED
      BY <1>1, <1>4, <2>1, <2>3, <3>5 DEF CopyOK
  <2>4. CASE b # NoBuf /\ b # staging_cur
    <3>1. Recorded(b, c, i) /\ b \in Bufs
      BY <2>1, <2>4 DEF CopyOK
    <3>2. event'[b] = event[b] /\ event_pending'[b] = event_pending[b]
      BY <1>3, <1>4, <2>4, <3>1 DEF RecordOn, EventTypes, BufferTypes
    <3>3. QED
      BY <1>1, <1>4, <2>1, <2>4, <3>1, <3>2 DEF CopyOK, Recorded
  <2>5. QED
    BY <2>2, <2>3, <2>4
<1>6. Fresh'
  BY <1>1, <1>2, <1>4 DEF Fresh
<1>7. QED
  BY <1>2, <1>4, <1>5, <1>6
\* Steps that change neither the streams nor the buffers nor the events.
LEMMA CopiesUntouched ==
  ASSUME CopiesOK, poller # "record", poller' # "record",
         UNCHANGED <<calls, content, chan, event, event_pending>>
  PROVE  CopiesOK'
<1> SUFFICES ASSUME NEW m \in Managers, NEW c \in ChanIds, NEW i \in 1..Len(chan[m][c])
             PROVE  CopyOK(m, c, i)'
  BY DEF CopiesOK
<1>1. CopyOK(m, c, i)
  BY DEF CopiesOK
<1>2. QED
  BY <1>1 DEF CopyOK, Recorded

\* The polling thread takes a batch, waits or stops.
LEMMA KeptIdle ==
  ASSUME DoneInv, FlightInv, KeptInv,
         TakeBatch \/ StartIdleWait \/ FinishIdleWait \/ Stop \/ FinalFlush
  PROVE  KeptInv'
<1> SUFFICES ASSUME ~overlapped'
             PROVE  (caller' # "idle" => Quiet') /\ CopiesOK' /\ Fresh'
  BY DEF KeptInv
<1>1. /\ ~overlapped /\ poller \in {"poll", "idle", "final"}
      /\ poller' \in {"poll", "buffer", "submit", "idle", "final", "exit"}
      /\ UNCHANGED <<caller, calls, pieces, piece, content, chan, event, event_pending>>
      /\ poller' = "submit" => ~Staged(plan')
  <2>1. CASE TakeBatch
    <3>1. PICK p \in Prepared :
            plan' = p.plan /\ poller' = IF Staged(p.plan) THEN "buffer" ELSE "submit"
      BY <2>1 DEF TakeBatch
    <3>2. ~overlapped
      BY <2>1, Zenon DEF TakeBatch
    <3>3. QED
      BY <2>1, <3>1, <3>2 DEF TakeBatch, callerVars, stagingVars, engineVars
  <2>2. CASE StartIdleWait \/ FinishIdleWait \/ Stop \/ FinalFlush
    BY <2>2 DEF StartIdleWait, FinishIdleWait, Stop, FinalFlush, callerVars, stagingVars,
         engineVars
  <2>3. QED
    BY <2>1, <2>2
<1>2. CopiesOK /\ Fresh
  BY <1>1, OneThread
<1>3. CopiesOK'
  BY <1>1, <1>2, CopiesUntouched
<1>4. Fresh'
  BY <1>1, <1>2 DEF Fresh
<1>5. caller' # "idle" => Quiet'
  <2> SUFFICES ASSUME caller # "idle"
               PROVE  Quiet'
    BY <1>1
  <2>1. Quiet
    BY <1>1, OneThread
  <2>2. ~TakeBatch /\ ~StartIdleWait /\ ~FinishIdleWait
    BY <2>1 DEF TakeBatch, StartIdleWait, FinishIdleWait, Quiet
  <2>3. QED
    BY <2>1, <2>2 DEF Stop, FinalFlush, Quiet, doneVars
<1>6. QED
  BY <1>3, <1>4, <1>5

\* A call begins and ends with no copy in flight.
LEMMA KeptCall ==
  ASSUME DoneInv, FlightInv, KeptInv, DirectCall \/ DirectReturn
  PROVE  KeptInv'
<1> SUFFICES ASSUME ~overlapped'
             PROVE  Quiet' /\ CopiesOK' /\ Fresh'
  BY DEF KeptInv
<1>1. /\ ~overlapped /\ UNCHANGED <<poller, has_async_dma, chan>>
      /\ caller' = "submit" => ~Staged(pieces'[piece'])
  <2>1. CASE DirectCall
    <3>1. PICK p \in Cut : pieces' = p.pieces /\ caller' = At(1, p.pieces)
      BY <2>1 DEF DirectCall
    <3>2. ~overlapped
      BY <2>1, Zenon DEF DirectCall
    <3>3. QED
      BY <2>1, <3>1, <3>2 DEF DirectCall, pollerVars, doneVars, engineVars, At
  <2>2. CASE DirectReturn
    BY <2>2 DEF DirectReturn, pollerVars, doneVars
  <2>3. QED
    BY <2>1, <2>2
<1>2. Quiet
  <2>1. CASE DirectCall
    BY <2>1, Zenon DEF DirectCall
  <2>2. CASE DirectReturn
    BY <2>2, <1>1, OneThread DEF DirectReturn
  <2>3. QED
    BY <2>1, <2>2
<1>3. \A m \in Managers, c \in ChanIds : chan[m][c] = <<>>
  <2>1. \A c \in ChanIds : chan["poller"][c] = <<>>
    BY <1>2 DEF FlightInv, Quiet
  <2>2. CASE DirectCall
    BY <2>1, <2>2 DEF DirectCall, DoneInv, IdleInv, Managers
  <2>3. CASE DirectReturn
    BY <2>1, <2>3, Waited DEF DirectReturn, DoneInv, Managers
  <2>4. QED
    BY <2>2, <2>3
<1>4. CopiesOK'
  BY <1>1, <1>3 DEF CopiesOK
<1>5. QED
  BY <1>1, <1>2, <1>4 DEF Quiet, Fresh

\* submit_direct gathers, submits and records with the polling thread quiet: a
\* buffer it gathers into is read by copies of the same call only.
LEMMA KeptDirect ==
  ASSUME DoneInv, StagingTypeInv, FlightInv, KeptInv,
         DirectGather \/ DirectSubmit \/ DirectRecord
  PROVE  KeptInv'
<1> SUFFICES ASSUME ~overlapped'
             PROVE  Quiet' /\ CopiesOK' /\ Fresh'
  BY DEF KeptInv
<1>1. /\ ~overlapped /\ caller # "idle" /\ UNCHANGED <<poller, has_async_dma, calls, pieces>>
      /\ caller \in {"gather", "submit", "record"}
  BY DEF DirectGather, DirectSubmit, DirectRecord, pollerVars, doneVars
<1>2. CopiesOK /\ Fresh /\ Quiet /\ \A c \in ChanIds : chan["poller"][c] = <<>>
  BY <1>1, OneThread
<1>3. BufferTypes /\ EngineTypes /\ PieceInv
  BY TypeParts DEF StagingTypeInv
<1>4. piece - 1 \in Bufs
  BY <1>1, <1>3, PlanAssumption DEF PieceInv, Bufs
<1>5. "poller" \in Managers /\ "direct" \in Managers /\ "direct" # "poller"
  BY DEF Managers
<1>6. ASSUME chan'["poller"] = chan["poller"],
             \A c \in ChanIds : \A i \in 1..Len(chan'["direct"][c]) :
               /\ chan'["direct"][c][i].work = Work("direct", calls)
               /\ chan'["direct"][c][i].buf # NoBuf =>
                    content'[chan'["direct"][c][i].buf] = chan'["direct"][c][i].work
      PROVE  CopiesOK'
  <2> SUFFICES ASSUME NEW c \in ChanIds, NEW i \in 1..Len(chan'["direct"][c])
               PROVE  CopyOK("direct", c, i)'
    BY <1>2, <1>6 DEF CopiesOK, Managers
  <2>1. QED
    BY <1>1, <1>5, <1>6 DEF CopyOK
<1>7. \A c \in ChanIds : \A i \in 1..Len(chan["direct"][c]) :
        /\ chan["direct"][c][i].work = Work("direct", calls)
        /\ chan["direct"][c][i].buf \in Bufs \cup {NoBuf}
        /\ chan["direct"][c][i].buf # NoBuf =>
             content[chan["direct"][c][i].buf] = chan["direct"][c][i].work
  BY <1>2, <1>3, <1>5 DEF CopiesOK, CopyOK, EngineTypes
<1>8. CASE DirectGather
  <2>1. /\ UNCHANGED <<chan, piece>>
        /\ content' = [content EXCEPT ![piece - 1] = Work("direct", calls)]
    BY <1>8 DEF DirectGather, engineVars
  <2>2. \A b \in Bufs : content'[b] = IF b = piece - 1 THEN Work("direct", calls)
                                                       ELSE content[b]
    BY <1>3, <2>1 DEF BufferTypes
  <2>3. CopiesOK'
    BY <1>6, <1>7, <2>1, <2>2
  <2>4. Fresh'
    BY <1>1, <1>2, <1>4, <2>1, <2>2 DEF Fresh, Quiet
  <2>5. QED
    BY <1>1, <1>2, <2>3, <2>4 DEF Quiet
<1>9. CASE DirectSubmit
  <2>1. PICK b \in {NoBuf, piece - 1} :
          /\ b = IF Staged(pieces[piece]) THEN piece - 1 ELSE NoBuf
          /\ Submit("direct", Len(pieces[piece].copies),
                    [work |-> Work("direct", calls), buf |-> b])
    BY <1>9 DEF DirectSubmit
  <2> DEFINE copy == [work |-> Work("direct", calls), buf |-> b]
             n == Len(pieces[piece].copies)
  <2>2. copy \in Copies /\ copy.work = Work("direct", calls) /\ copy.buf = b
    BY DEF Copies, Work, Managers, DoneInv, DoneTypes, NoBuf
  <2>3. /\ chan'["poller"] = chan["poller"]
        /\ \A c \in ChanIds : \A i \in 1..Len(chan'["direct"][c]) :
             \/ i \in 1..Len(chan["direct"][c]) /\ chan'["direct"][c][i] = chan["direct"][c][i]
             \/ chan'["direct"][c][i] = copy
    <3> HIDE DEF copy, n
    <3>1. Submit("direct", n, copy)
      BY <2>1 DEF copy, n
    <3>2. QED
      BY <1>5, <2>2, <3>1, Submitted DEF DoneInv
  <2>4. UNCHANGED content /\ caller = "submit" /\ caller' = "record"
    BY <1>9 DEF DirectSubmit, stagingVars
  <2>5. b # NoBuf => content[b] = Work("direct", calls)
    BY <1>2, <2>1, <2>4 DEF Fresh
  <2>6. CopiesOK'
    <3> HIDE DEF copy
    <3> QED
      BY <1>6, <1>7, <2>2, <2>3, <2>4, <2>5
  <2>7. QED
    BY <1>1, <1>2, <2>4, <2>6 DEF Quiet, Fresh
<1>10. CASE DirectRecord
  <2>1. /\ UNCHANGED <<chan, content>> /\ piece' = piece + 1
        /\ caller' = "submit" => ~Staged(pieces[piece + 1])
    BY <1>10 DEF DirectRecord, engineVars, At
  <2>2. CopiesOK'
    BY <1>6, <1>7, <2>1
  <2>3. QED
    BY <1>1, <1>2, <2>1, <2>2 DEF Quiet, Fresh
<1>11. QED
  BY <1>8, <1>9, <1>10
\* A copy completes: the rest of its stream, and the events in it, move up.
LEMMA KeptComplete ==
  ASSUME DoneInv, StagingTypeInv, KeptInv,
         NEW m \in Managers, NEW c \in ChanIds, CopyCompletes(m, c)
  PROVE  KeptInv'
<1>1. UNCHANGED <<poller, batch, plan, caller, calls, pieces, piece, overlapped, staging_cur,
                  event_pending, content, next_channel, has_async_dma>>
  BY DEF CopyCompletes, pollerVars, callerVars, stagingVars, doneVars
<1> SUFFICES ASSUME ~overlapped
             PROVE  CopiesOK' /\ Fresh'
  BY <1>1 DEF KeptInv, Quiet
<1>2. CopiesOK /\ Fresh
  BY DEF KeptInv
<1>3. EventTypes /\ EngineTypes
  BY TypeParts DEF StagingTypeInv
<1>4. /\ \A k \in Managers, d \in ChanIds :
           <<k, d>> # <<m, c>> => chan'[k][d] = chan[k][d]
      /\ \A i \in 1..Len(chan'[m][c]) :
           i + 1 \in 1..Len(chan[m][c]) /\ chan'[m][c][i] = chan[m][c][i + 1]
  BY Completed DEF DoneInv, DoneTypes
<1>5. ASSUME NEW k \in Managers, NEW d \in ChanIds, NEW i \in 1..Len(chan'[k][d])
      PROVE  /\ <<k, d>> = <<m, c>> => i + 1 \in 1..Len(chan[k][d])
                                       /\ chan'[k][d][i] = chan[k][d][i + 1]
             /\ <<k, d>> # <<m, c>> => i \in 1..Len(chan[k][d])
                                       /\ chan'[k][d][i] = chan[k][d][i]
  BY <1>4
<1>6. ASSUME NEW b \in Bufs, NEW d \in ChanIds, NEW i \in Nat, NEW j \in Nat,
             i > 0, Recorded(b, d, j), j = IF <<"poller", d>> = <<m, c>> THEN i + 1 ELSE i
      PROVE  Recorded(b, d, i)'
  <2>1. event[b] \in [by : Managers, ch : ChanIds, before : Nat]
    BY <1>3 DEF EventTypes
  <2>2. event_pending'[b] /\ event[b].by = "poller" /\ event[b].ch = d /\ j <= event[b].before
    BY <1>1, <1>6 DEF Recorded
  <2>3. CASE <<"poller", d>> = <<m, c>>
    <3>1. event[b].before > 1 /\ m = "poller" /\ d = c /\ j = i + 1
      BY <1>6, <2>1, <2>2, <2>3
    <3>2. event'[b] = [event[b] EXCEPT !.before = @ - 1]
      BY <2>2, <3>1 DEF CopyCompletes
    <3>3. QED
      BY <2>1, <2>2, <3>1, <3>2 DEF Recorded
  <2>4. CASE <<"poller", d>> # <<m, c>>
    <3>1. event'[b] = event[b]
      BY <2>1, <2>2, <2>4 DEF CopyCompletes
    <3>2. QED
      BY <1>6, <2>2, <2>4, <3>1 DEF Recorded
  <2>5. QED
    BY <2>3, <2>4
<1>7. CopiesOK'
  <2> SUFFICES ASSUME NEW k \in Managers, NEW d \in ChanIds, NEW i \in 1..Len(chan'[k][d])
               PROVE  CopyOK(k, d, i)'
    BY DEF CopiesOK
  <2> DEFINE j == IF <<k, d>> = <<m, c>> THEN i + 1 ELSE i
  <2>1. j \in 1..Len(chan[k][d]) /\ chan'[k][d][i] = chan[k][d][j]
    BY <1>5
  <2>2. CopyOK(k, d, j) /\ chan[k][d][j].buf \in Bufs \cup {NoBuf}
    BY <1>2, <1>3, <2>1 DEF CopiesOK, EngineTypes
  <2>3. i \in Nat /\ i > 0 /\ j \in Nat
    OBVIOUS
  <2>4. LastStream("poller")' = LastStream("poller")
    BY <1>1 DEF LastStream
  <2>5. k = "poller" /\ chan[k][d][j].buf # NoBuf /\ Recorded(chan[k][d][j].buf, d, j)
          => Recorded(chan[k][d][i].buf, d, i)'
    <3> SUFFICES ASSUME k = "poller", chan[k][d][j].buf # NoBuf,
                        Recorded(chan[k][d][j].buf, d, j)
                 PROVE  Recorded(chan[k][d][i].buf, d, i)'
      OBVIOUS
    <3>1. PICK b \in Bufs : b = chan[k][d][j].buf
      BY <2>2
    <3>2. Recorded(b, d, i)'
      BY <1>6, <2>3, <3>1
    <3>3. QED
      BY <2>1, <3>1, <3>2 DEF Recorded
  <2> HIDE DEF j
  <2>6. QED
    BY <1>1, <2>1, <2>2, <2>4, <2>5 DEF CopyOK
<1>8. Fresh'
  <2>1. "poller" \in Managers
    BY DEF Managers
  <2>2. ASSUME poller = "submit", Staged(plan), NEW d \in ChanIds,
               NEW i \in 1..Len(chan'["poller"][d])
        PROVE  chan'["poller"][d][i].buf # staging_cur
    BY <1>2, <1>5, <2>1, <2>2 DEF Fresh
  <2>3. QED
    BY <1>1, <1>2, <2>2 DEF Fresh
<1>9. QED
  BY <1>7, <1>8

\* The invariant behind the staging buffers, for plans that fit and staged
\* batches of one run.
THEOREM BufferInvariant ==
  ASSUME PlansFit, OneRunPlans
  PROVE  Spec => []BufferInv
<1>1. Init => FlightInv /\ KeptInv
  BY DEF Init, FlightInv, KeptInv, CopiesOK, Fresh, Managers
<1>2. DoneInv /\ StagingTypeInv /\ FlightInv /\ KeptInv /\ [Next]_vars => FlightInv' /\ KeptInv'
  <2> SUFFICES ASSUME DoneInv, StagingTypeInv, FlightInv, KeptInv, [Next]_vars
               PROVE  FlightInv' /\ KeptInv'
    OBVIOUS
  <2>1. CASE UNCHANGED vars
    <3>1. FlightInv'
      BY FlightStep
    <3>2. KeptInv'
      BY <2>1 DEF vars, pollerVars, callerVars, stagingVars, engineVars, doneVars, KeptInv,
           CopiesOK, CopyOK, Recorded, LastStream, Fresh, Quiet
    <3>3. QED
      BY <3>1, <3>2
  <2>2. CASE Next
    BY <2>2, <2>1, FlightStep, KeptPollerSubmit, KeptGather, KeptRecord, KeptIdle, KeptCall,
       KeptDirect, KeptComplete DEF Next, Poller, Caller, Finished
  <2>3. QED
    BY <2>1, <2>2
<1>3. QED
  BY <1>1, <1>2, DoneInvariant, StagingTypeInvariant, PTL DEF Spec, BufferInv

\* Every copy still queued will read from its staging buffer what was gathered
\* for it, as long as no call of submit_direct overlaps a batch and every staged
\* batch is one run of its buffer.
THEOREM BuffersKept ==
  ASSUME PlansFit, OneRunPlans
  PROVE  Spec => []BufferKeptForDma
<1>1. DoneInv /\ BufferInv => BufferKeptForDma
  <2> SUFFICES ASSUME DoneInv, BufferInv, ~overlapped, NEW q \in Queued,
                      chan[q[1]][q[2]][q[3]].buf # NoBuf
               PROVE  content[chan[q[1]][q[2]][q[3]].buf] = chan[q[1]][q[2]][q[3]].work
    BY DEF BufferKeptForDma
  <2>1. /\ q[1] \in Managers /\ q[2] \in ChanIds /\ q[3] <= Len(chan[q[1]][q[2]])
        /\ q[3] \in 1..(MaxBatches + MaxCalls * PIPELINE_CHUNKS)
    BY DEF Queued
  <2>2. q[3] \in 1..Len(chan[q[1]][q[2]])
    BY <2>1 DEF DoneInv, DoneTypes
  <2>3. QED
    BY <2>1, <2>2 DEF BufferInv, KeptInv, CopiesOK, CopyOK
<1>2. QED
  BY <1>1, DoneInvariant, BufferInvariant, PTL
=================================================================================
