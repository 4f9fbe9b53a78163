---------------------------- MODULE ParallelGather ----------------------------
(***************************************************************************)
(* The gather workers (parallel_gather.cpp): a thread splits the entries   *)
(* of a batch among itself and the workers, hands each worker its range    *)
(* through GatherTask, copies its own range and waits for the done flags.  *)
(* The threads that do so are the polling thread and those that call       *)
(* submit_direct; nothing keeps their calls apart, and there is one        *)
(* GatherTask for each worker.  Every load or store of has_work and done   *)
(* is a step of its own, and so are the stores of a task's buffers and of  *)
(* its range, which a worker reads again for each entry.  Entry i's bytes  *)
(* are abstracted to how often it was copied for the thread's last call.   *)
(***************************************************************************)
EXTENDS Integers

CONSTANTS Threads,      \* the polling thread and callers of submit_direct
          NumWorkers,   \* active_gather_workers_
          Counts,       \* sizes a gathered batch may have
          MaxGathers    \* bound: calls of parallel_gather

\* A batch is never empty, and the ring bounds its size.
ASSUME GatherAssumption == /\ Threads # {}
                           /\ NumWorkers \in Nat
                           /\ Counts \subseteq Nat \ {0}
                           /\ \E m \in Counts : \A n \in Counts : n <= m
                           /\ MaxGathers \in Nat

Workers == 0..(NumWorkers - 1)
Largest == CHOOSE m \in Counts : \A n \in Counts : n <= m
Entries == 0..(Largest - 1)

VARIABLES
  has_work, done,       \* each worker's GatherTask: its flags,
  source, start, end,   \* whose entries and staging buffer, and its range
  worker, next,         \* each worker's position; the entry it is at
  running,              \* gather_workers_running_
  pc, w, count,         \* each thread's position in parallel_gather, its loop
  main_next,            \* over the workers, batch size, its own next entry
  gathers,              \* calls made so far
  copies,               \* history: copies of each entry for the last call
  overlapped            \* history: two calls were under way at once

flagVars   == <<has_work, done>>
taskVars   == <<source, start, end>>
workerVars == <<worker, next>>
callVars   == <<count, gathers, overlapped>>
vars == <<flagVars, taskVars, workerVars, running, pc, w, main_next, copies,
          callVars>>

\* init_copy_engine: both flags cleared, then the threads are started.  Whose
\* entries a task points to before it is first set is arbitrary.
Init == /\ has_work = [i \in Workers |-> FALSE]
        /\ done = [i \in Workers |-> FALSE]
        /\ source \in [Workers -> Threads]
        /\ start = [i \in Workers |-> 0] /\ end = [i \in Workers |-> 0]
        /\ worker = [i \in Workers |-> "poll"]
        /\ next = [i \in Workers |-> 0]
        /\ running = TRUE
        /\ pc = [t \in Threads |-> "idle"] /\ w = [t \in Threads |-> 0]
        /\ count = [t \in Threads |-> 0] /\ main_next = [t \in Threads |-> 0]
        /\ gathers = 0
        /\ copies = [t \in Threads |-> [e \in Entries |-> 0]]
        /\ overlapped = FALSE

-----------------------------------------------------------------------------
(* A call of parallel_gather *)

\* Mutant: the division is not rounded up.
ChunkRoundedDown(n) == n \div (NumWorkers + 1)

\* chunk = (count + total_threads - 1) / total_threads.
Chunk(n) == (n + NumWorkers) \div (NumWorkers + 1)

Smaller(a, b) == IF a < b THEN a ELSE b

\* Where worker i's part of a batch of n begins and ends.
First(n, i) == (i + 1) * Chunk(n)

\* Mutant: the last part is not cut off at the end of the batch.
LimitUncut(n, i) == First(n, i) + Chunk(n)

Limit(n, i) == Smaller(First(n, i) + Chunk(n), n)

\* start < count: worker i gets a part.  Later workers get none if i does not,
\* so the loops below stop where the code's continue skips to the end.
Busy(n, i) == First(n, i) < n

GoTo(t, place) == pc' = [pc EXCEPT ![t] = place]

\* A batch, or a piece of submit_direct's entries, that needs gathering.
Call(t) ==
  /\ pc[t] = "idle" /\ running
  /\ gathers < MaxGathers
  /\ \E n \in Counts : count' = [count EXCEPT ![t] = n]
  /\ gathers' = gathers + 1
  /\ copies' = [copies EXCEPT ![t] = [e \in Entries |-> 0]]
  /\ w' = [w EXCEPT ![t] = 0] /\ main_next' = [main_next EXCEPT ![t] = 0]
  /\ overlapped' = (overlapped \/ \E u \in Threads : pc[u] # "idle")
  /\ GoTo(t, "post")
  /\ UNCHANGED <<flagVars, taskVars, workerVars, running>>

\* The next worker's task: entries, staging and min_dst, ...
PostTask(t) ==
  /\ pc[t] = "post"
  /\ w[t] < NumWorkers /\ Busy(count[t], w[t])
  /\ source' = [source EXCEPT ![w[t]] = t]
  /\ GoTo(t, "range")
  /\ UNCHANGED <<flagVars, start, end, workerVars, running, w, main_next, copies,
                 callVars>>

\* Mutant: done keeps its value of the call before.
PostRangeStale(t) ==
  /\ pc[t] = "range"
  /\ start' = [start EXCEPT ![w[t]] = First(count[t], w[t])]
  /\ end' = [end EXCEPT ![w[t]] = Limit(count[t], w[t])]
  /\ GoTo(t, "wake")
  /\ UNCHANGED <<flagVars, source, workerVars, running, w, main_next, copies,
                 callVars>>

\* ... start, end and done = false, ...
PostRange(t) ==
  /\ pc[t] = "range"
  /\ start' = [start EXCEPT ![w[t]] = First(count[t], w[t])]
  /\ end' = [end EXCEPT ![w[t]] = Limit(count[t], w[t])]
  /\ done' = [done EXCEPT ![w[t]] = FALSE]
  /\ GoTo(t, "wake")
  /\ UNCHANGED <<has_work, source, workerVars, running, w, main_next, copies,
                 callVars>>

\* ... then has_work = true.
WakeWorker(t) ==
  /\ pc[t] = "wake"
  /\ has_work' = [has_work EXCEPT ![w[t]] = TRUE]
  /\ w' = [w EXCEPT ![t] = @ + 1]
  /\ GoTo(t, "post")
  /\ UNCHANGED <<done, taskVars, workerVars, running, main_next, copies, callVars>>

\* Past the last worker with a range: the thread's own part comes next.
PostsDone(t) ==
  /\ pc[t] = "post"
  /\ w[t] = NumWorkers \/ ~Busy(count[t], w[t])
  /\ GoTo(t, "copy")
  /\ UNCHANGED <<flagVars, taskVars, workerVars, running, w, main_next, copies,
                 callVars>>

\* Entries 0 .. min(chunk, count) - 1.
OwnLimit(n) == Smaller(Chunk(n), n)

CopyOwn(t) ==
  /\ pc[t] = "copy"
  /\ main_next[t] < OwnLimit(count[t])
  /\ copies' = [copies EXCEPT ![t][main_next[t]] = @ + 1]
  /\ main_next' = [main_next EXCEPT ![t] = @ + 1]
  /\ UNCHANGED <<flagVars, taskVars, workerVars, running, pc, w, callVars>>

OwnDone(t) ==
  /\ pc[t] = "copy"
  /\ main_next[t] = OwnLimit(count[t])
  /\ w' = [w EXCEPT ![t] = 0]
  /\ GoTo(t, "wait")
  /\ UNCHANGED <<flagVars, taskVars, workerVars, running, main_next, copies,
                 callVars>>

\* The spin on done of one worker after the other.
WaitWorker(t) ==
  /\ pc[t] = "wait"
  /\ w[t] < NumWorkers /\ Busy(count[t], w[t])
  /\ done[w[t]]
  /\ w' = [w EXCEPT ![t] = @ + 1]
  /\ UNCHANGED <<flagVars, taskVars, workerVars, running, pc, main_next, copies,
                 callVars>>

Return(t) ==
  /\ pc[t] = "wait"
  /\ w[t] = NumWorkers \/ ~Busy(count[t], w[t])
  /\ GoTo(t, "idle")
  /\ UNCHANGED <<flagVars, taskVars, workerVars, running, w, main_next, copies,
                 callVars>>

\* ~CpuPollingThread, after the polling thread was joined.
StopWorkers ==
  /\ \A t \in Threads : pc[t] = "idle"
  /\ running /\ running' = FALSE
  /\ UNCHANGED <<flagVars, taskVars, workerVars, pc, w, main_next, copies, callVars>>

Gather(t) == \/ PostTask(t) \/ PostRange(t) \/ WakeWorker(t) \/ PostsDone(t)
             \/ CopyOwn(t) \/ OwnDone(t) \/ WaitWorker(t) \/ Return(t)

-----------------------------------------------------------------------------
(* A worker: gather_worker_loop *)

TakeTask(i) ==
  /\ worker[i] = "poll" /\ running
  /\ has_work[i]
  /\ worker' = [worker EXCEPT ![i] = "copy"]
  /\ next' = [next EXCEPT ![i] = start[i]]
  /\ UNCHANGED <<flagVars, taskVars, running, pc, w, main_next, copies, callVars>>

\* task.end, task.entries and task.staging are read for each entry.
CopyEntry(i) ==
  /\ worker[i] = "copy"
  /\ next[i] < end[i]
  /\ copies' = [copies EXCEPT ![source[i]][next[i]] = @ + 1]
  /\ next' = [next EXCEPT ![i] = @ + 1]
  /\ UNCHANGED <<flagVars, taskVars, worker, running, pc, w, main_next, callVars>>

\* task.done = true: the caller may go on from here ...
SetDone(i) ==
  /\ worker[i] = "copy"
  /\ next[i] >= end[i]
  /\ done' = [done EXCEPT ![i] = TRUE]
  /\ worker' = [worker EXCEPT ![i] = "clear"]
  /\ UNCHANGED <<has_work, taskVars, next, running, pc, w, main_next, copies,
                 callVars>>

\* ... and only then task.has_work = false.
ClearWork(i) ==
  /\ worker[i] = "clear"
  /\ has_work' = [has_work EXCEPT ![i] = FALSE]
  /\ worker' = [worker EXCEPT ![i] = "poll"]
  /\ UNCHANGED <<done, taskVars, next, running, pc, w, main_next, copies, callVars>>

\* cpu_pause_g: nothing to do yet.
Pause(i) == /\ worker[i] = "poll" /\ running /\ ~has_work[i]
            /\ UNCHANGED vars

Leave(i) ==
  /\ worker[i] = "poll" /\ ~running
  /\ worker' = [worker EXCEPT ![i] = "exit"]
  /\ UNCHANGED <<flagVars, taskVars, next, running, pc, w, main_next, copies,
                 callVars>>

Worker(i) == \/ TakeTask(i) \/ CopyEntry(i) \/ SetDone(i) \/ ClearWork(i)
             \/ Leave(i)

\* All threads were joined.
Joined == /\ \A i \in Workers : worker[i] = "exit"
          /\ ~running
          /\ UNCHANGED vars

Next == \/ \E t \in Threads : Call(t) \/ Gather(t)
        \/ StopWorkers
        \/ \E i \in Workers : Worker(i) \/ Pause(i)
        \/ Joined

\* The threads are pinned to cores of their own, or the application's, and keep
\* running.  Nothing forces another batch, or the end of the poller's life.
Fairness == /\ \A t \in Threads : WF_vars(Gather(t))
            /\ \A i \in Workers : WF_vars(Worker(i))

Spec == Init /\ [][Next]_vars /\ Fairness

-----------------------------------------------------------------------------
(* Properties *)

TypeOK ==
  /\ has_work \in [Workers -> BOOLEAN] /\ done \in [Workers -> BOOLEAN]
  /\ source \in [Workers -> Threads]
  /\ start \in [Workers -> Nat] /\ end \in [Workers -> 0..Largest]
  /\ worker \in [Workers -> {"poll", "copy", "clear", "exit"}]
  /\ next \in [Workers -> Nat]
  /\ running \in BOOLEAN
  /\ pc \in [Threads -> {"idle", "post", "range", "wake", "copy", "wait"}]
  /\ w \in [Threads -> 0..NumWorkers]
  /\ count \in [Threads -> Counts \cup {0}] /\ main_next \in [Threads -> Nat]
  /\ gathers \in 0..MaxGathers
  /\ copies \in [Threads -> [Entries -> Nat]]
  /\ overlapped \in BOOLEAN

\* Each entry of t's batch has been copied to its staging buffer exactly once,
\* and nothing beyond the batch.
Gathered(t) == \A e \in Entries : copies[t][e] = IF e < count[t] THEN 1 ELSE 0

\* When parallel_gather returns, the batch is in the staging buffer, each entry
\* copied once: the DMA of the buffer that follows reads whole data.  This holds
\* for all threads that call it as long as no two calls have been under way at
\* once, although a worker may still be leaving the task of one thread when
\* another thread posts it the next.
GatherComplete ==
  ~overlapped => \A t \in Threads : pc[t] = "idle" => Gathered(t)

\* As long as no two calls have been under way at once, a worker only copies for
\* a call that is still waiting for it: none is at work on a buffer once the
\* call has returned, and no task is rewritten under a worker that executes it.
NoStrayWorker ==
  ~overlapped => \A i \in Workers : worker[i] = "copy" =>
    LET t == source[i] IN
      /\ pc[t] # "idle"
      /\ Busy(count[t], i) /\ start[i] = First(count[t], i)
      /\ next[i] \in start[i]..end[i] /\ end[i] <= count[t]

\* A call of parallel_gather returns: the has_work/done hand-over loses no task.
EveryGatherReturns == \A t \in Threads : pc[t] # "idle" ~> pc[t] = "idle"
=============================================================================
