-------------------------- MODULE ParallelGatherProofs --------------------------
(* Machine-checked proofs about the gather workers, for every number of     *)
(* workers, calling threads and calls, and every size of a batch.           *)
EXTENDS ParallelGather, TLAPS

-----------------------------------------------------------------------------
(* The inductive invariant *)

Posting == {"post", "range", "wake"}

\* Worker i's part of a batch of n.
Part(n, i) == First(n, i)..(Limit(n, i) - 1)

\* Worker i has been handed a part in t's call.
Posted(t, i) == IF pc[t] \in Posting THEN i < w[t] ELSE Busy(count[t], i)

\* Worker i's task is its part of t's batch.
TaskSet(t, i) == /\ source[i] = t
                 /\ start[i] = First(count[t], i) /\ end[i] = Limit(count[t], i)

\* Where thread t is in its call: which workers it has dealt with.
CallerInv(t) ==
  /\ count[t] \in Counts
  /\ pc[t] \in Posting => /\ main_next[t] = 0
                          /\ \A i \in Workers : i < w[t] => Busy(count[t], i)
  /\ pc[t] \in {"range", "wake"} => source[w[t]] = t
  /\ pc[t] = "wake" => ~done[w[t]] /\ TaskSet(t, w[t])
  /\ main_next[t] <= OwnLimit(count[t])
  /\ pc[t] = "wait" => /\ main_next[t] = OwnLimit(count[t])
                       /\ \A i \in Workers : i < w[t] => done[i]
  /\ \A i \in Workers : Posted(t, i) => TaskSet(t, i)

\* Entry e of worker i's part is in t's staging buffer.
Copied(t, i, e) == /\ Posted(t, i)
                   /\ done[i] \/ (worker[i] = "copy" /\ e < next[i])

\* How often each entry has been copied, from the positions of the threads.
CopiesInv(t) ==
  /\ \A e \in Entries : e >= count[t] => copies[t][e] = 0
  /\ \A e \in Entries : e < count[t] /\ e < Chunk(count[t]) =>
       copies[t][e] = IF e < main_next[t] THEN 1 ELSE 0
  /\ \A i \in Workers : Busy(count[t], i) => \A e \in Part(count[t], i) :
       copies[t][e] = IF Copied(t, i, e) THEN 1 ELSE 0

\* A worker that has a task, or is about to take one, was given it in a call that
\* is under way and has not reported it done.
HasTask(i) == worker[i] = "copy" \/ (worker[i] = "poll" /\ has_work[i])

WorkerInv ==
  \A i \in Workers :
    /\ HasTask(i) => pc[source[i]] # "idle" /\ Posted(source[i], i) /\ ~done[i]
    /\ worker[i] = "copy" => next[i] \in start[i]..end[i]
    /\ worker[i] = "exit" => ~running

\* While calls do not overlap: one call is under way at most, and it accounts
\* for what the workers do.
OneCall ==
  /\ \A t, u \in Threads : pc[t] # "idle" /\ pc[u] # "idle" => t = u
  /\ \A t \in Threads : pc[t] # "idle" => running /\ CallerInv(t) /\ CopiesInv(t)
  /\ \A t \in Threads : pc[t] = "idle" => Gathered(t)
  /\ WorkerInv

\* A thread sets up tasks of existing workers that get a part, whatever the
\* other threads do.
LocalInv == \A t \in Threads : pc[t] \in {"range", "wake"} =>
                                w[t] \in Workers /\ Busy(count[t], w[t])

GatherInv == TypeOK /\ LocalInv /\ (~overlapped => OneCall)

-----------------------------------------------------------------------------
(* Arithmetic: the parts cover the batch and do not overlap *)

\* A batch size has a place in Entries for each of its entries.
LEMMA EntriesOfCount ==
  ASSUME NEW n \in Counts
  PROVE  /\ n \in Nat /\ n > 0 /\ Largest \in Nat /\ n <= Largest
         /\ \A e \in Nat : e < n => e \in Entries
<1>1. Largest \in Counts /\ \A k \in Counts : k <= Largest
  BY GatherAssumption DEF Largest
<1>2. Largest \in Nat /\ n \in Nat /\ n > 0 /\ n <= Largest
  BY <1>1, GatherAssumption
<1> QED BY <1>2 DEF Entries

\* Entries are the natural numbers below the largest batch size.
LEMMA EntriesNat == Largest \in Nat /\ \A e : e \in Entries <=> e \in Nat /\ e < Largest
<1>1. Largest \in Nat
  BY GatherAssumption DEF Largest
<1> QED BY <1>1 DEF Entries

\* Rounding up: the threads' parts together are at least the batch.
LEMMA ChunkCovers ==
  ASSUME NEW n \in Nat
  PROVE  /\ Chunk(n) \in Nat
         /\ n <= (NumWorkers + 1) * Chunk(n)
         /\ n > 0 => Chunk(n) > 0
<1> DEFINE N == NumWorkers + 1
           t == n + NumWorkers
           q == t \div N
           r == t % N
<1>1. /\ N \in Nat /\ N > 0 /\ NumWorkers = N - 1
      /\ t \in Nat /\ t = n + N - 1
  BY GatherAssumption
<1>2. /\ q \in Int /\ r \in 0..(N - 1)
      /\ t = N * q + r
  <2> HIDE DEF N, t
  <2> QED BY <1>1
<1>3. Chunk(n) = q
  BY DEF Chunk
<1> HIDE DEF N, t, q, r
<1>4. q >= 0
  <2>1. SUFFICES ASSUME q <= -1 PROVE FALSE
    BY <1>2
  <2>2. N * q <= -N
    BY <1>1, <1>2, <2>1
  <2> QED BY <2>2, <1>1, <1>2
<1>5. n <= N * q
  BY <1>1, <1>2
<1>6. n > 0 => q > 0
  <2>1. q = 0 => N * q = 0
    BY <1>1
  <2> QED BY <2>1, <1>1, <1>2, <1>4, <1>5
<1> QED BY <1>2, <1>3, <1>4, <1>5, <1>6 DEF N

\* Where worker i's part begins and ends.
LEMMA PartBounds ==
  ASSUME NEW n \in Nat, NEW i \in Workers
  PROVE  /\ i \in Nat /\ i < NumWorkers
         /\ First(n, i) \in Nat /\ First(n, i) >= Chunk(n)
         /\ Limit(n, i) \in Nat /\ Limit(n, i) <= n
         /\ Limit(n, i) <= First(n, i) + Chunk(n)
         /\ Busy(n, i) => First(n, i) <= Limit(n, i)
<1>1. i \in Nat /\ i < NumWorkers /\ Chunk(n) \in Nat
  BY ChunkCovers, GatherAssumption DEF Workers
<1>2. (i + 1) * Chunk(n) = i * Chunk(n) + Chunk(n)
  BY <1>1
<1>3. i * Chunk(n) \in Nat
  BY <1>1
<1>4. First(n, i) \in Nat /\ First(n, i) >= Chunk(n)
  BY <1>1, <1>2, <1>3 DEF First
<1> QED BY <1>1, <1>4 DEF Limit, Smaller, Busy

\* A later worker's part begins where that of the worker before it ends.
LEMMA PartsInOrder ==
  ASSUME NEW n \in Nat, NEW i \in Workers, NEW j \in Workers, i < j
  PROVE  First(n, i) + Chunk(n) <= First(n, j)
<1>1. i \in Nat /\ j \in Nat /\ Chunk(n) \in Nat
  BY ChunkCovers, GatherAssumption DEF Workers
<1> DEFINE d == j - i - 1
<1>2. d \in Nat
  BY <1>1
<1>3. d * Chunk(n) \in Nat
  BY <1>1, <1>2
<1>4. (j + 1) * Chunk(n) = (i + 1) * Chunk(n) + Chunk(n) + d * Chunk(n)
  BY <1>1
<1>5. (i + 1) * Chunk(n) \in Nat
  BY <1>1
<1> QED BY <1>1, <1>3, <1>4, <1>5 DEF First

\* The workers that get a part are the first ones.
LEMMA BusyFirst ==
  ASSUME NEW n \in Nat, NEW i \in Workers, NEW j \in Workers, i <= j, Busy(n, j)
  PROVE  Busy(n, i)
<1>1. CASE i = j
  BY <1>1
<1>2. CASE i < j
  BY <1>2, PartsInOrder, PartBounds, ChunkCovers DEF Busy
<1> QED BY <1>1, <1>2, GatherAssumption DEF Workers

\* A part lies in the batch, behind the calling thread's own entries.
LEMMA PartInBatch ==
  ASSUME NEW n \in Counts, NEW i \in Workers, NEW e \in Part(n, i)
  PROVE  e \in Entries /\ e \in Nat /\ e < n /\ e >= Chunk(n)
<1>1. n \in Nat
  BY EntriesOfCount
<1>2. e \in Nat /\ e < n /\ e >= Chunk(n)
  BY <1>1, PartBounds, ChunkCovers DEF Part
<1> QED BY <1>2, EntriesOfCount

\* Different workers' parts have no entry in common.
LEMMA PartsDisjoint ==
  ASSUME NEW n \in Nat, NEW i \in Workers, NEW j \in Workers, i # j,
         NEW e \in Part(n, i)
  PROVE  e \notin Part(n, j)
<1>1. /\ First(n, i) \in Nat /\ First(n, j) \in Nat /\ Chunk(n) \in Nat
      /\ Limit(n, i) \in Nat /\ Limit(n, j) \in Nat
      /\ Limit(n, i) <= First(n, i) + Chunk(n) /\ Limit(n, j) <= First(n, j) + Chunk(n)
      /\ i \in Nat /\ j \in Nat
  BY PartBounds, ChunkCovers
<1>2. CASE i < j
  BY <1>1, <1>2, PartsInOrder DEF Part
<1>3. CASE j < i
  BY <1>1, <1>3, PartsInOrder DEF Part
<1> QED BY <1>1, <1>2, <1>3

\* Every entry of the batch that is not the calling thread's own is in the part
\* of a worker.
LEMMA PartsCover ==
  ASSUME NEW n \in Nat, NEW e \in Nat, e < n, e >= Chunk(n)
  PROVE  \E i \in Workers : Busy(n, i) /\ e \in Part(n, i)
<1> DEFINE c == Chunk(n)
           q == e \div c
           r == e % c
<1>1. c \in Nat /\ c > 0 /\ n <= (NumWorkers + 1) * c
  BY ChunkCovers
<1> HIDE DEF c
<1>2. q \in Int /\ r \in 0..(c - 1) /\ e = c * q + r
  BY <1>1
<1> HIDE DEF q, r
<1>3. q >= 1
  <2>1. SUFFICES ASSUME q <= 0 PROVE FALSE
    BY <1>2
  <2>2. c * q <= 0
    BY <1>1, <1>2, <2>1
  <2>3. e >= c
    BY DEF c
  <2> QED BY <2>2, <2>3, <1>1, <1>2
<1>4. q <= NumWorkers
  <2>1. SUFFICES ASSUME q >= NumWorkers + 1 PROVE FALSE
    BY <1>2, GatherAssumption
  <2>2. c * q >= c * (NumWorkers + 1)
    <3>1. q - (NumWorkers + 1) \in Nat
      BY <1>2, <2>1, GatherAssumption
    <3>2. c * (q - (NumWorkers + 1)) >= 0
      BY <1>1, <3>1
    <3> QED BY <1>1, <1>2, <3>2, GatherAssumption
  <2>3. c * (NumWorkers + 1) = (NumWorkers + 1) * c
    BY <1>1, GatherAssumption
  <2>4. (NumWorkers + 1) * c \in Int
    BY <1>1, GatherAssumption
  <2> QED BY <1>1, <1>2, <2>2, <2>3, <2>4
<1>5. q - 1 \in Workers
  BY <1>2, <1>3, <1>4, GatherAssumption DEF Workers
<1>6. ((q - 1) + 1) * c = c * q
  BY <1>1, <1>2
<1>7. c * q \in Int
  BY <1>1, <1>2
<1>8. ((q - 1) + 1) * c \in Int /\ ((q - 1) + 1) * c <= e
      /\ e < ((q - 1) + 1) * c + c
  BY <1>1, <1>2, <1>6, <1>7
<1>9. Busy(n, q - 1) /\ e \in Part(n, q - 1)
  BY <1>8, <1>1 DEF Busy, Part, Smaller, First, Limit, c
<1> QED BY <1>5, <1>9

\* The calling thread's own entries.
LEMMA OwnBounds ==
  ASSUME NEW n \in Nat
  PROVE  /\ OwnLimit(n) \in Nat /\ OwnLimit(n) <= n /\ OwnLimit(n) <= Chunk(n)
         /\ \A e \in Nat : e < n /\ e < Chunk(n) => e < OwnLimit(n)
  BY ChunkCovers DEF OwnLimit, Smaller

-----------------------------------------------------------------------------
(* Types *)

\* A batch size is a natural number, also before the first call.
LEMMA CountsNat == \A n \in Counts \cup {0} : n \in Nat /\ n <= Largest
  BY EntriesOfCount, EntriesNat

\* Numbers of workers.
LEMMA WorkersNat ==
  \A i : (i \in Workers <=> i \in 0..NumWorkers /\ i # NumWorkers)
         /\ (i \in Workers => i \in Nat /\ i + 1 \in 0..NumWorkers)
  BY GatherAssumption DEF Workers

\* Counting one more copy of an entry for thread t.
LEMMA OneMoreCopy ==
  ASSUME copies \in [Threads -> [Entries -> Nat]], NEW t \in Threads,
         NEW x \in Nat, copies' = [copies EXCEPT ![t][x] = @ + 1]
  PROVE  /\ copies' \in [Threads -> [Entries -> Nat]]
         /\ \A u \in Threads : u # t => copies'[u] = copies[u]
         /\ \A e \in Entries :
              copies'[t][e] = IF e = x THEN copies[t][e] + 1 ELSE copies[t][e]
<1> DEFINE r == [copies[t] EXCEPT ![x] = copies[t][x] + 1]
<1>1. r \in [Entries -> Nat]
  <2>1. copies[t] \in [Entries -> Nat]
    OBVIOUS
  <2>2. r = [e \in Entries |-> IF e = x THEN copies[t][e] + 1 ELSE copies[t][e]]
    BY <2>1
  <2>3. \A e \in Entries : (IF e = x THEN copies[t][e] + 1 ELSE copies[t][e]) \in Nat
    BY <2>1
  <2> HIDE DEF r
  <2> QED BY <2>2, <2>3
<1>2. \A e \in Entries : r[e] = IF e = x THEN copies[t][e] + 1 ELSE copies[t][e]
  OBVIOUS
<1>3. copies' = [copies EXCEPT ![t] = r]
  OBVIOUS
<1> HIDE DEF r
<1> QED BY <1>1, <1>2, <1>3

\* Every step keeps the types, whether or not calls overlap.
LEMMA TypeStep == TypeOK /\ LocalInv /\ [Next]_vars => TypeOK' /\ LocalInv'
<1> SUFFICES ASSUME TypeOK, LocalInv, [Next]_vars PROVE TypeOK' /\ LocalInv'
  OBVIOUS
<1> USE DEF TypeOK, flagVars, taskVars, workerVars, callVars, GoTo
<1>1. ASSUME NEW t \in Threads, Call(t) PROVE TypeOK' /\ LocalInv'
  BY <1>1, GatherAssumption DEF Call, LocalInv
<1>2. ASSUME NEW t \in Threads, PostTask(t) PROVE TypeOK' /\ LocalInv'
  <2>1. w[t] \in Workers
    BY <1>2, WorkersNat, GatherAssumption DEF PostTask
  <2> QED BY <1>2, <2>1 DEF PostTask, LocalInv
<1>3. ASSUME NEW t \in Threads, PostRange(t) PROVE TypeOK' /\ LocalInv'
  <2>1. w[t] \in Workers
    BY <1>3 DEF PostRange, LocalInv
  <2>2. /\ First(count[t], w[t]) \in Nat
        /\ Limit(count[t], w[t]) \in Nat /\ Limit(count[t], w[t]) <= count[t]
    BY <2>1, CountsNat, PartBounds
  <2>3. Limit(count[t], w[t]) \in 0..Largest
    BY <2>2, CountsNat, EntriesNat
  <2> QED BY <1>3, <2>2, <2>3 DEF PostRange, LocalInv
<1>4. ASSUME NEW t \in Threads, WakeWorker(t) PROVE TypeOK' /\ LocalInv'
  <2>1. w[t] + 1 \in 0..NumWorkers
    BY <1>4, WorkersNat DEF WakeWorker, LocalInv
  <2> QED BY <1>4, <2>1 DEF WakeWorker, LocalInv
<1>5. ASSUME NEW t \in Threads, PostsDone(t) PROVE TypeOK' /\ LocalInv'
  BY <1>5 DEF PostsDone, LocalInv
<1>6. ASSUME NEW t \in Threads, CopyOwn(t) PROVE TypeOK' /\ LocalInv'
  <2>1. copies' \in [Threads -> [Entries -> Nat]]
    BY <1>6, OneMoreCopy DEF CopyOwn
  <2> QED BY <1>6, <2>1 DEF CopyOwn, LocalInv
<1>7. ASSUME NEW t \in Threads, OwnDone(t) PROVE TypeOK' /\ LocalInv'
  BY <1>7, GatherAssumption DEF OwnDone, LocalInv
<1>8. ASSUME NEW t \in Threads, WaitWorker(t) PROVE TypeOK' /\ LocalInv'
  <2>1. w[t] + 1 \in 0..NumWorkers
    BY <1>8, GatherAssumption DEF WaitWorker
  <2> QED BY <1>8, <2>1 DEF WaitWorker, LocalInv
<1>9. ASSUME NEW t \in Threads, Return(t) PROVE TypeOK' /\ LocalInv'
  BY <1>9 DEF Return, LocalInv
<1>10. ASSUME StopWorkers PROVE TypeOK' /\ LocalInv'
  BY <1>10 DEF StopWorkers, LocalInv
<1>11. ASSUME NEW i \in Workers, Worker(i) PROVE TypeOK' /\ LocalInv'
  <2>1. CASE CopyEntry(i)
    <3>1. copies' \in [Threads -> [Entries -> Nat]]
      BY <2>1, OneMoreCopy DEF CopyEntry
    <3> QED BY <2>1, <3>1 DEF CopyEntry, LocalInv
  <2> QED BY <1>11, <2>1 DEF Worker, TakeTask, SetDone, ClearWork, Leave, LocalInv
<1>12. ASSUME UNCHANGED vars PROVE TypeOK' /\ LocalInv'
  BY <1>12 DEF vars, LocalInv
<1> QED BY <1>1, <1>2, <1>3, <1>4, <1>5, <1>6, <1>7, <1>8, <1>9, <1>10, <1>11, <1>12
        DEF Next, Gather, Pause, Joined

-----------------------------------------------------------------------------
(* Every step preserves the invariant *)

\* At the start nobody has called, nobody has a part and nothing is copied.
LEMMA InitInv == Init => GatherInv
<1> SUFFICES ASSUME Init PROVE GatherInv
  OBVIOUS
<1>1. TypeOK
  <2>1. copies \in [Threads -> [Entries -> Nat]]
    BY DEF Init
  <2>2. source \in [Workers -> Threads]
    BY DEF Init
  <2>3. 0 \in 0..Largest /\ 0 \in 0..NumWorkers /\ 0 \in 0..MaxGathers
    BY GatherAssumption, EntriesNat
  <2> QED BY <2>1, <2>2, <2>3 DEF Init, TypeOK
<1>2. LocalInv
  BY DEF Init, LocalInv
<1>3. \A t \in Threads : pc[t] = "idle" /\ Gathered(t)
  <2>1. \A t \in Threads : \A e \in Entries : copies[t][e] = 0
    BY DEF Init
  <2>2. \A e \in Entries : ~(e < 0)
    BY EntriesNat
  <2> QED BY <2>1, <2>2 DEF Init, Gathered
<1>4. WorkerInv
  BY DEF Init, WorkerInv, HasTask
<1> QED BY <1>1, <1>2, <1>3, <1>4 DEF GatherInv, OneCall

\* The step of a thread t leaves the others where they are, outside the
\* function: what is to be shown is the step's effect on t and on the workers.
LEMMA OthersIdle ==
  ASSUME OneCall, NEW t \in Threads,
         \A u \in Threads : u # t => /\ pc[u] = "idle"
                                     /\ pc'[u] = pc[u] /\ count'[u] = count[u]
                                     /\ copies'[u] = copies[u],
         pc'[t] # "idle" => running' /\ CallerInv(t)' /\ CopiesInv(t)',
         pc'[t] = "idle" => Gathered(t)',
         WorkerInv'
  PROVE  OneCall'
<1>1. \A u \in Threads : u # t => pc'[u] = "idle" /\ Gathered(u)'
  BY DEF OneCall, Gathered
<1> QED BY <1>1 DEF OneCall

\* Thread t is inside its call, and every worker at work is so for t.
InCall(t) == /\ pc[t] # "idle" /\ \A u \in Threads : u # t => pc[u] = "idle"
             /\ running /\ CallerInv(t) /\ CopiesInv(t) /\ WorkerInv
             /\ count[t] \in Counts /\ count[t] \in Nat /\ Chunk(count[t]) \in Nat
             /\ \A i \in Workers :
                  HasTask(i) => source[i] = t /\ Posted(t, i) /\ ~done[i]

\* What is known of a thread that takes a step of its call.
LEMMA TheCaller ==
  ASSUME GatherInv, ~overlapped, NEW t \in Threads, pc[t] # "idle"
  PROVE  InCall(t)
<1>1. OneCall /\ TypeOK
  BY DEF GatherInv
<1>2. count[t] \in Counts
  BY <1>1 DEF OneCall, CallerInv
<1>3. count[t] \in Nat /\ Chunk(count[t]) \in Nat
  BY <1>2, EntriesOfCount, ChunkCovers
<1>4. \A i \in Workers : source[i] \in Threads
  BY <1>1 DEF TypeOK
<1> QED BY <1>1, <1>2, <1>3, <1>4 DEF InCall, OneCall, WorkerInv

\* A call resets the count of copies; no worker has work left of an earlier one.
LEMMA CallStep ==
  ASSUME GatherInv, NEW t \in Threads, Call(t), ~overlapped'
  PROVE  OneCall'
<1>1. /\ ~overlapped /\ OneCall /\ TypeOK /\ running' = running /\ running
      /\ \A u \in Threads : pc[u] = "idle"
  BY DEF GatherInv, Call
<1>2. \A i \in Workers : ~HasTask(i)
  BY <1>1 DEF OneCall, WorkerInv, TypeOK
<1>3. WorkerInv'
  BY <1>1, <1>2 DEF Call, OneCall, WorkerInv, HasTask, flagVars, workerVars
<1>4. /\ count'[t] \in Counts /\ w'[t] = 0 /\ main_next'[t] = 0 /\ pc'[t] = "post"
      /\ \A e \in Entries : copies'[t][e] = 0
      /\ \A u \in Threads : u # t => /\ pc'[u] = pc[u] /\ count'[u] = count[u]
                                     /\ copies'[u] = copies[u]
  BY <1>1 DEF Call, TypeOK, GoTo
<1>5. count'[t] \in Nat /\ OwnLimit(count'[t]) \in Nat
  BY <1>4, EntriesOfCount, OwnBounds
<1>6. \A i \in Workers : ~(i < w'[t]) /\ ~Posted(t, i)'
  BY <1>4, WorkersNat DEF Posted, Posting
<1>7. CallerInv(t)'
  BY <1>4, <1>5, <1>6 DEF CallerInv, Posting
<1>8. CopiesInv(t)'
  <2>1. \A i \in Workers : \A e \in Part(count'[t], i) : e \in Entries
    BY <1>4, PartInBatch
  <2> QED BY <1>4, <1>6, <2>1, EntriesNat DEF CopiesInv, Copied
<1> QED BY <1>1, <1>3, <1>4, <1>7, <1>8, OthersIdle

\* The worker whose task is set is not executing an earlier one.
LEMMA PostTaskStep ==
  ASSUME GatherInv, NEW t \in Threads, PostTask(t), ~overlapped'
  PROVE  OneCall'
<1>1. ~overlapped /\ OneCall /\ TypeOK /\ pc[t] = "post" /\ InCall(t)
  BY TheCaller DEF GatherInv, PostTask, callVars
<1> USE <1>1 DEF InCall
<1>2. w[t] \in Workers
  BY WorkersNat, GatherAssumption DEF PostTask, TypeOK
<1>3. /\ pc' = [pc EXCEPT ![t] = "range"] /\ source' = [source EXCEPT ![w[t]] = t]
      /\ UNCHANGED <<has_work, done, start, end, worker, next, running, w, count,
                     main_next, copies>>
  BY DEF PostTask, GoTo, flagVars, workerVars, callVars
<1>4. /\ pc'[t] = "range" /\ source'[w[t]] = t
      /\ \A u \in Threads : u # t => pc'[u] = pc[u]
      /\ \A i \in Workers : i # w[t] => source'[i] = source[i]
  BY <1>2, <1>3 DEF TypeOK
<1>5. \A i \in Workers : (Posted(t, i)' <=> Posted(t, i)) /\ (Posted(t, i) => i # w[t])
  BY <1>2, <1>3, <1>4, WorkersNat DEF Posted, Posting
<1>6. CallerInv(t)'
  BY <1>2, <1>3, <1>4, <1>5 DEF CallerInv, Posting, TaskSet
<1>7. CopiesInv(t)'
  <2>1. \A i \in Workers : \A e : Copied(t, i, e)' <=> Copied(t, i, e)
    BY <1>3, <1>5 DEF Copied
  <2> QED BY <1>3, <2>1 DEF CopiesInv
<1>8. WorkerInv'
  <2>1. \A i \in Workers : HasTask(i)' <=> HasTask(i)
    BY <1>3 DEF HasTask
  <2>2. \A i \in Workers : HasTask(i) => source'[i] = t
    BY <1>4, <1>5
  <2> QED BY <1>3, <1>4, <1>5, <2>1, <2>2 DEF WorkerInv
<1> QED BY <1>3, <1>4, <1>6, <1>7, <1>8, OthersIdle

\* The task has its range: it is that worker's part of the batch, not done.
LEMMA PostRangeStep ==
  ASSUME GatherInv, NEW t \in Threads, PostRange(t), ~overlapped'
  PROVE  OneCall'
<1>1. ~overlapped /\ OneCall /\ TypeOK /\ pc[t] = "range" /\ InCall(t)
  BY TheCaller DEF GatherInv, PostRange, callVars
<1> USE <1>1 DEF InCall
<1>2. w[t] \in Workers /\ source[w[t]] = t
  BY DEF GatherInv, LocalInv, CallerInv
<1>3. /\ pc' = [pc EXCEPT ![t] = "wake"]
      /\ start' = [start EXCEPT ![w[t]] = First(count[t], w[t])]
      /\ end' = [end EXCEPT ![w[t]] = Limit(count[t], w[t])]
      /\ done' = [done EXCEPT ![w[t]] = FALSE]
      /\ UNCHANGED <<has_work, source, worker, next, running, w, count, main_next,
                     copies>>
  BY DEF PostRange, GoTo, workerVars, callVars
<1>4. /\ pc'[t] = "wake" /\ ~done'[w[t]]
      /\ start'[w[t]] = First(count[t], w[t]) /\ end'[w[t]] = Limit(count[t], w[t])
      /\ \A u \in Threads : u # t => pc'[u] = pc[u]
      /\ \A i \in Workers : i # w[t] =>
           start'[i] = start[i] /\ end'[i] = end[i] /\ done'[i] = done[i]
  BY <1>2, <1>3 DEF TypeOK
<1>5. \A i \in Workers : (Posted(t, i)' <=> Posted(t, i)) /\ (Posted(t, i) => i # w[t])
  BY <1>2, <1>3, <1>4, WorkersNat DEF Posted, Posting
<1>6. CallerInv(t)'
  BY <1>2, <1>3, <1>4, <1>5 DEF CallerInv, Posting, TaskSet
<1>7. CopiesInv(t)'
  <2>1. \A i \in Workers : \A e : Copied(t, i, e)' <=> Copied(t, i, e)
    BY <1>3, <1>4, <1>5 DEF Copied
  <2> QED BY <1>3, <2>1 DEF CopiesInv
<1>8. WorkerInv'
  <2>1. \A i \in Workers : HasTask(i)' <=> HasTask(i)
    BY <1>3 DEF HasTask
  <2>2. \A i \in Workers : HasTask(i) => i # w[t]
    BY <1>5
  <2>3. \A i \in Workers : worker[i] = "copy" => HasTask(i)
    BY DEF HasTask
  <2> QED BY <1>3, <1>4, <1>5, <2>1, <2>2, <2>3 DEF WorkerInv
<1> QED BY <1>3, <1>4, <1>6, <1>7, <1>8, OthersIdle

\* The worker is woken: its part counts as handed over, and nothing of it is
\* copied yet.
LEMMA WakeWorkerStep ==
  ASSUME GatherInv, NEW t \in Threads, WakeWorker(t), ~overlapped'
  PROVE  OneCall'
<1>1. ~overlapped /\ OneCall /\ TypeOK /\ pc[t] = "wake" /\ InCall(t)
  BY TheCaller DEF GatherInv, WakeWorker, callVars
<1> USE <1>1 DEF InCall
<1>2. /\ w[t] \in Workers /\ Busy(count[t], w[t]) /\ ~done[w[t]]
      /\ source[w[t]] = t /\ TaskSet(t, w[t])
  BY DEF GatherInv, LocalInv, CallerInv
<1>3. /\ pc' = [pc EXCEPT ![t] = "post"]
      /\ has_work' = [has_work EXCEPT ![w[t]] = TRUE]
      /\ w' = [w EXCEPT ![t] = @ + 1]
      /\ UNCHANGED <<done, source, start, end, worker, next, running, count,
                     main_next, copies>>
  BY DEF WakeWorker, GoTo, taskVars, workerVars, callVars
<1>4. /\ pc'[t] = "post" /\ w'[t] = w[t] + 1
      /\ \A u \in Threads : u # t => pc'[u] = pc[u]
      /\ \A i \in Workers : i # w[t] => has_work'[i] = has_work[i]
  BY <1>2, <1>3 DEF TypeOK
<1>5. \A i \in Workers : /\ Posted(t, i)' <=> (Posted(t, i) \/ i = w[t])
                         /\ Posted(t, i) => i # w[t]
  BY <1>2, <1>3, <1>4, WorkersNat DEF Posted, Posting
<1>6. CallerInv(t)'
  <2>1. \A i \in Workers : i < w'[t] => i < w[t] \/ i = w[t]
    BY <1>2, <1>4, WorkersNat
  <2>2. \A i \in Workers : TaskSet(t, i)' <=> TaskSet(t, i)
    BY <1>3 DEF TaskSet
  <2>3. \A i \in Workers : i = w[t] => TaskSet(t, i)
    BY <1>2 DEF TaskSet
  <2> QED BY <1>2, <1>3, <1>4, <1>5, <2>1, <2>2, <2>3 DEF CallerInv, Posting
<1>7. \A i \in Workers : i = w[t] => worker[i] # "copy" /\ ~done[i] /\ source[i] = t
  BY <1>2, <1>5 DEF HasTask
<1>8. CopiesInv(t)'
  <2>1. \A i \in Workers : \A e : Copied(t, i, e)' <=> Copied(t, i, e)
    BY <1>3, <1>5, <1>7 DEF Copied
  <2> QED BY <1>3, <2>1 DEF CopiesInv
<1>9. WorkerInv'
  <2>1. \A i \in Workers : HasTask(i)' => HasTask(i) \/ i = w[t]
    BY <1>3, <1>4 DEF HasTask
  <2>2. \A i \in Workers : HasTask(i)' => source'[i] = t /\ Posted(t, i)' /\ ~done'[i]
    BY <1>3, <1>5, <1>7, <2>1
  <2> QED BY <1>3, <1>4, <2>2 DEF WorkerInv
<1> QED BY <1>3, <1>4, <1>6, <1>8, <1>9, OthersIdle

\* No worker is left with a part that was not posted.
LEMMA PostsDoneStep ==
  ASSUME GatherInv, NEW t \in Threads, PostsDone(t), ~overlapped'
  PROVE  OneCall'
<1>1. ~overlapped /\ OneCall /\ TypeOK /\ pc[t] = "post" /\ InCall(t)
  BY TheCaller DEF GatherInv, PostsDone, callVars
<1> USE <1>1 DEF InCall
<1>2. /\ pc' = [pc EXCEPT ![t] = "copy"]
      /\ UNCHANGED <<has_work, done, source, start, end, worker, next, running, w,
                     count, main_next, copies>>
  BY DEF PostsDone, GoTo, flagVars, taskVars, workerVars, callVars
<1>3. pc'[t] = "copy" /\ \A u \in Threads : u # t => pc'[u] = pc[u]
  BY <1>2 DEF TypeOK
<1>4. \A i \in Workers : Posted(t, i)' <=> Posted(t, i)
  <2>1. \A i \in Workers : i < w[t] => Busy(count[t], i)
    BY DEF CallerInv, Posting
  <2>2. ASSUME NEW i \in Workers, Busy(count[t], i) PROVE i < w[t]
    <3>1. SUFFICES ASSUME w[t] <= i PROVE FALSE
      BY WorkersNat, GatherAssumption DEF TypeOK
    <3>2. w[t] \in Workers
      BY <3>1, WorkersNat, GatherAssumption DEF TypeOK, Workers
    <3>3. Busy(count[t], w[t])
      BY <2>2, <3>1, <3>2, BusyFirst
    <3> QED BY <3>2, <3>3, WorkersNat DEF PostsDone
  <2> QED BY <1>2, <1>3, <2>1, <2>2 DEF Posted, Posting
<1>5. CallerInv(t)'
  BY <1>2, <1>3, <1>4 DEF CallerInv, Posting, TaskSet
<1>6. CopiesInv(t)'
  <2>1. \A i \in Workers : \A e : Copied(t, i, e)' <=> Copied(t, i, e)
    BY <1>2, <1>4 DEF Copied
  <2> QED BY <1>2, <2>1 DEF CopiesInv
<1>7. WorkerInv'
  <2>1. \A i \in Workers : HasTask(i)' <=> HasTask(i)
    BY <1>2 DEF HasTask
  <2> QED BY <1>2, <1>3, <1>4, <2>1 DEF WorkerInv
<1> QED BY <1>2, <1>3, <1>5, <1>6, <1>7, OthersIdle

\* The thread copies an entry that lies before the workers' parts.
LEMMA CopyOwnStep ==
  ASSUME GatherInv, NEW t \in Threads, CopyOwn(t), ~overlapped'
  PROVE  OneCall'
<1>1. ~overlapped /\ OneCall /\ TypeOK /\ pc[t] = "copy" /\ InCall(t)
  BY TheCaller DEF GatherInv, CopyOwn, callVars
<1> USE <1>1 DEF InCall
<1> DEFINE x == main_next[t]
<1>2. /\ x \in Nat /\ x < OwnLimit(count[t]) /\ OwnLimit(count[t]) \in Nat
      /\ x < count[t] /\ x < Chunk(count[t]) /\ x \in Entries
  <2>1. x \in Nat /\ x < OwnLimit(count[t])
    BY DEF CopyOwn, TypeOK
  <2>2. x < count[t] /\ x < Chunk(count[t]) /\ OwnLimit(count[t]) \in Nat
    BY <2>1, OwnBounds
  <2> QED BY <2>1, <2>2, EntriesOfCount
<1>3. /\ main_next' = [main_next EXCEPT ![t] = @ + 1]
      /\ UNCHANGED <<has_work, done, source, start, end, worker, next, running, pc,
                     w, count>>
  BY DEF CopyOwn, flagVars, taskVars, workerVars, callVars
<1>4. main_next'[t] = x + 1
  BY <1>3 DEF TypeOK
<1>5. /\ \A u \in Threads : u # t => copies'[u] = copies[u]
      /\ \A e \in Entries :
           copies'[t][e] = IF e = x THEN copies[t][e] + 1 ELSE copies[t][e]
  BY <1>2, OneMoreCopy DEF CopyOwn, TypeOK
<1> HIDE DEF x
<1>6. \A i \in Workers : Posted(t, i)' <=> Posted(t, i)
  BY <1>3 DEF Posted
<1>7. CallerInv(t)'
  <2>1. main_next'[t] <= OwnLimit(count[t])
    BY <1>2, <1>4
  <2>2. \A i \in Workers : TaskSet(t, i)' <=> TaskSet(t, i)
    BY <1>3 DEF TaskSet
  <2> QED BY <1>3, <1>6, <2>1, <2>2 DEF CallerInv, Posting
<1>8. CopiesInv(t)'
  <2>1. \A i \in Workers : \A e : Copied(t, i, e)' <=> Copied(t, i, e)
    BY <1>3, <1>6 DEF Copied
  <2>2. \A e \in Entries : e >= count[t] => copies'[t][e] = 0
    BY <1>2, <1>5, EntriesNat DEF CopiesInv
  <2>3. ASSUME NEW e \in Entries, e < count[t], e < Chunk(count[t])
        PROVE  copies'[t][e] = IF e < main_next'[t] THEN 1 ELSE 0
    <3>1. e \in Nat
      BY EntriesNat
    <3>2. copies[t][e] = IF e < x THEN 1 ELSE 0
      BY <2>3 DEF CopiesInv, x
    <3> QED BY <1>2, <1>4, <1>5, <3>1, <3>2
  <2>4. ASSUME NEW i \in Workers, NEW e \in Part(count[t], i)
        PROVE  copies'[t][e] = copies[t][e]
    <3>1. e \in Entries /\ e # x
      BY <1>2, PartInBatch
    <3> QED BY <1>5, <3>1
  <2> QED BY <1>3, <2>1, <2>2, <2>3, <2>4 DEF CopiesInv
<1>9. WorkerInv'
  <2>1. \A i \in Workers : HasTask(i)' <=> HasTask(i)
    BY <1>3 DEF HasTask
  <2> QED BY <1>3, <1>6, <2>1 DEF WorkerInv
<1> QED BY <1>3, <1>5, <1>7, <1>8, <1>9, OthersIdle

\* Its own part done, the thread starts to wait, with the first worker.
LEMMA OwnDoneStep ==
  ASSUME GatherInv, NEW t \in Threads, OwnDone(t), ~overlapped'
  PROVE  OneCall'
<1>1. ~overlapped /\ OneCall /\ TypeOK /\ pc[t] = "copy" /\ InCall(t)
  BY TheCaller DEF GatherInv, OwnDone, callVars
<1> USE <1>1 DEF InCall
<1>2. /\ pc' = [pc EXCEPT ![t] = "wait"] /\ w' = [w EXCEPT ![t] = 0]
      /\ main_next[t] = OwnLimit(count[t])
      /\ UNCHANGED <<has_work, done, source, start, end, worker, next, running,
                     count, main_next, copies>>
  BY DEF OwnDone, GoTo, flagVars, taskVars, workerVars, callVars
<1>3. pc'[t] = "wait" /\ w'[t] = 0 /\ \A u \in Threads : u # t => pc'[u] = pc[u]
  BY <1>2 DEF TypeOK
<1>4. \A i \in Workers : (Posted(t, i)' <=> Posted(t, i)) /\ ~(i < w'[t])
  BY <1>2, <1>3, WorkersNat DEF Posted, Posting
<1>5. CallerInv(t)'
  BY <1>2, <1>3, <1>4 DEF CallerInv, Posting, TaskSet
<1>6. CopiesInv(t)'
  <2>1. \A i \in Workers : \A e : Copied(t, i, e)' <=> Copied(t, i, e)
    BY <1>2, <1>4 DEF Copied
  <2> QED BY <1>2, <2>1 DEF CopiesInv
<1>7. WorkerInv'
  <2>1. \A i \in Workers : HasTask(i)' <=> HasTask(i)
    BY <1>2 DEF HasTask
  <2> QED BY <1>2, <1>3, <1>4, <2>1 DEF WorkerInv
<1> QED BY <1>2, <1>3, <1>5, <1>6, <1>7, OthersIdle

\* The worker waited for is done, and so were those before it.
LEMMA WaitWorkerStep ==
  ASSUME GatherInv, NEW t \in Threads, WaitWorker(t), ~overlapped'
  PROVE  OneCall'
<1>1. ~overlapped /\ OneCall /\ TypeOK /\ pc[t] = "wait" /\ InCall(t)
  BY TheCaller DEF GatherInv, WaitWorker, callVars
<1> USE <1>1 DEF InCall
<1>2. /\ w' = [w EXCEPT ![t] = @ + 1] /\ done[w[t]]
      /\ UNCHANGED <<has_work, done, source, start, end, worker, next, running, pc,
                     count, main_next, copies>>
  BY DEF WaitWorker, flagVars, taskVars, workerVars, callVars
<1>3. w'[t] = w[t] + 1 /\ w[t] \in 0..NumWorkers
  BY <1>2 DEF TypeOK
<1>4. \A i \in Workers : (Posted(t, i)' <=> Posted(t, i))
  BY <1>2 DEF Posted, Posting
<1>5. CallerInv(t)'
  <2>1. \A i \in Workers : i < w'[t] => i < w[t] \/ i = w[t]
    BY <1>3, WorkersNat, GatherAssumption
  <2> QED BY <1>2, <1>3, <1>4, <2>1 DEF CallerInv, Posting, TaskSet
<1>6. CopiesInv(t)'
  <2>1. \A i \in Workers : \A e : Copied(t, i, e)' <=> Copied(t, i, e)
    BY <1>2, <1>4 DEF Copied
  <2> QED BY <1>2, <2>1 DEF CopiesInv
<1>7. WorkerInv'
  <2>1. \A i \in Workers : HasTask(i)' <=> HasTask(i)
    BY <1>2 DEF HasTask
  <2> QED BY <1>2, <1>4, <2>1 DEF WorkerInv
<1> QED BY <1>2, <1>5, <1>6, <1>7, OthersIdle

\* Everybody with a part has reported it done: the batch is gathered, and no
\* worker is left at work.
LEMMA ReturnStep ==
  ASSUME GatherInv, NEW t \in Threads, Return(t), ~overlapped'
  PROVE  OneCall'
<1>1. ~overlapped /\ OneCall /\ TypeOK /\ pc[t] = "wait" /\ InCall(t)
  BY TheCaller DEF GatherInv, Return, callVars
<1> USE <1>1 DEF InCall
<1>2. /\ pc' = [pc EXCEPT ![t] = "idle"]
      /\ UNCHANGED <<has_work, done, source, start, end, worker, next, running, w,
                     count, main_next, copies>>
  BY DEF Return, GoTo, flagVars, taskVars, workerVars, callVars
<1>3. pc'[t] = "idle" /\ \A u \in Threads : u # t => pc'[u] = pc[u]
  BY <1>2 DEF TypeOK
<1>4. ASSUME NEW i \in Workers, Busy(count[t], i) PROVE done[i]
  <2>1. SUFFICES ASSUME w[t] <= i PROVE FALSE
    BY WorkersNat, GatherAssumption DEF TypeOK, CallerInv
  <2>2. w[t] \in Workers
    BY <2>1, WorkersNat, GatherAssumption DEF TypeOK, Workers
  <2>3. Busy(count[t], w[t])
    BY <1>4, <2>1, <2>2, BusyFirst
  <2> QED BY <2>2, <2>3, WorkersNat DEF Return
<1>5. \A i \in Workers : Posted(t, i) <=> Busy(count[t], i)
  BY DEF Posted, Posting
<1>6. \A i \in Workers : ~HasTask(i)
  BY <1>4, <1>5
<1>7. WorkerInv'
  BY <1>2, <1>6 DEF WorkerInv, HasTask
<1>8. ASSUME NEW e \in Entries
      PROVE  copies[t][e] = IF e < count[t] THEN 1 ELSE 0
  <2>1. e \in Nat
    BY EntriesNat
  <2>2. CASE e >= count[t]
    BY <2>1, <2>2 DEF CopiesInv
  <2>3. CASE e < count[t] /\ e < Chunk(count[t])
    <3>1. main_next[t] = OwnLimit(count[t])
      BY DEF CallerInv
    <3> QED BY <2>1, <2>3, <3>1, OwnBounds DEF CopiesInv
  <2>4. CASE e < count[t] /\ e >= Chunk(count[t])
    <3>1. PICK i \in Workers : Busy(count[t], i) /\ e \in Part(count[t], i)
      BY <2>1, <2>4, PartsCover
    <3>2. Copied(t, i, e)
      BY <1>4, <1>5, <3>1 DEF Copied
    <3> QED BY <2>4, <3>1, <3>2 DEF CopiesInv
  <2> QED BY <2>1, <2>2, <2>3, <2>4
<1>9. Gathered(t)'
  BY <1>2, <1>8 DEF Gathered
<1> QED BY <1>2, <1>3, <1>7, <1>9, OthersIdle

\* A worker that takes a task, works on it or reports it done does so for the
\* one thread that is inside its call.
LEMMA WorkersCaller ==
  ASSUME GatherInv, ~overlapped, NEW i \in Workers, HasTask(i)
  PROVE  \E t \in Threads : /\ InCall(t) /\ source[i] = t /\ Posted(t, i) /\ ~done[i]
                            /\ start[i] = First(count[t], i)
                            /\ end[i] = Limit(count[t], i)
                            /\ Busy(count[t], i)
<1>1. OneCall /\ TypeOK
  BY DEF GatherInv
<1>2. PICK t \in Threads : t = source[i]
  BY <1>1 DEF TypeOK
<1>3. pc[t] # "idle"
  BY <1>1, <1>2 DEF OneCall, WorkerInv
<1>4. InCall(t)
  BY <1>3, TheCaller
<1>5. Posted(t, i) /\ ~done[i] /\ TaskSet(t, i)
  BY <1>2, <1>4 DEF InCall, CallerInv
<1>6. Busy(count[t], i)
  BY <1>4, <1>5 DEF InCall, CallerInv, Posted
<1> QED BY <1>2, <1>4, <1>5, <1>6 DEF TaskSet

\* The worker begins at the start of its part.
LEMMA TakeTaskStep ==
  ASSUME GatherInv, NEW i \in Workers, TakeTask(i), ~overlapped'
  PROVE  OneCall'
<1>1. ~overlapped /\ OneCall /\ TypeOK /\ HasTask(i) /\ worker[i] = "poll"
  BY DEF GatherInv, TakeTask, callVars, HasTask
<1>2. PICK t \in Threads :
        /\ InCall(t) /\ source[i] = t /\ Posted(t, i) /\ ~done[i]
        /\ start[i] = First(count[t], i) /\ end[i] = Limit(count[t], i)
        /\ Busy(count[t], i)
  BY <1>1, WorkersCaller
<1> USE <1>1, <1>2 DEF InCall
<1>3. /\ worker' = [worker EXCEPT ![i] = "copy"]
      /\ next' = [next EXCEPT ![i] = start[i]]
      /\ UNCHANGED <<has_work, done, source, start, end, running, pc, w, count,
                     main_next, copies>>
  BY DEF TakeTask, flagVars, taskVars, callVars
<1>4. /\ worker'[i] = "copy" /\ next'[i] = start[i]
      /\ \A j \in Workers : j # i => worker'[j] = worker[j] /\ next'[j] = next[j]
  BY <1>3 DEF TypeOK
<1>5. \A j \in Workers : (Posted(t, j)' <=> Posted(t, j))
                         /\ (TaskSet(t, j)' <=> TaskSet(t, j))
  BY <1>3 DEF Posted, TaskSet
<1>6. CallerInv(t)'
  BY <1>3, <1>5 DEF CallerInv, Posting, TaskSet
<1>7. start[i] \in start[i]..end[i]
  BY PartBounds
<1>8. CopiesInv(t)'
  <2>1. \A j \in Workers : \A e \in Part(count[t], j) :
          Copied(t, j, e)' <=> Copied(t, j, e)
    <3>1. \A e \in Part(count[t], i) : ~(e < start[i])
      BY PartBounds DEF Part
    <3> QED BY <1>3, <1>4, <1>5, <3>1 DEF Copied
  <2> QED BY <1>3, <2>1 DEF CopiesInv
<1>9. WorkerInv'
  <2>1. \A j \in Workers : HasTask(j)' <=> HasTask(j)
    BY <1>3, <1>4 DEF HasTask
  <2> QED BY <1>3, <1>4, <1>5, <1>7, <2>1 DEF WorkerInv
<1> QED BY <1>3, <1>6, <1>8, <1>9, OthersIdle

\* The entry copied is the next one of the worker's own part.
LEMMA CopyEntryStep ==
  ASSUME GatherInv, NEW i \in Workers, CopyEntry(i), ~overlapped'
  PROVE  OneCall'
<1>1. ~overlapped /\ OneCall /\ TypeOK /\ HasTask(i) /\ worker[i] = "copy"
  BY DEF GatherInv, CopyEntry, callVars, HasTask
<1>2. PICK t \in Threads :
        /\ InCall(t) /\ source[i] = t /\ Posted(t, i) /\ ~done[i]
        /\ start[i] = First(count[t], i) /\ end[i] = Limit(count[t], i)
        /\ Busy(count[t], i)
  BY <1>1, WorkersCaller
<1> USE <1>1, <1>2 DEF InCall
<1> DEFINE x == next[i]
<1>3. /\ next' = [next EXCEPT ![i] = @ + 1]
      /\ UNCHANGED <<has_work, done, source, start, end, worker, running, pc, w,
                     count, main_next>>
  BY DEF CopyEntry, flagVars, taskVars, callVars
<1>4. /\ x \in Nat /\ x \in start[i]..end[i] /\ x < end[i]
      /\ next'[i] = x + 1 /\ x + 1 \in start[i]..end[i]
      /\ \A j \in Workers : j # i => next'[j] = next[j]
  <2>1. x \in Nat /\ x \in start[i]..end[i] /\ x < end[i]
    BY DEF CopyEntry, TypeOK, WorkerInv
  <2>2. start[i] \in Nat /\ end[i] \in Nat
    BY PartBounds
  <2> QED BY <1>3, <2>1, <2>2 DEF TypeOK
<1>5. x \in Part(count[t], i)
  BY <1>4, PartBounds DEF Part
<1>6. x \in Entries /\ x < count[t] /\ x >= Chunk(count[t])
  BY <1>5, PartInBatch
<1>7. /\ \A u \in Threads : u # t => copies'[u] = copies[u]
      /\ \A e \in Entries :
           copies'[t][e] = IF e = x THEN copies[t][e] + 1 ELSE copies[t][e]
  BY <1>4, OneMoreCopy DEF CopyEntry, TypeOK
<1> HIDE DEF x
<1>8. \A j \in Workers : (Posted(t, j)' <=> Posted(t, j))
                         /\ (TaskSet(t, j)' <=> TaskSet(t, j))
  BY <1>3 DEF Posted, TaskSet
<1>9. CallerInv(t)'
  BY <1>3, <1>8 DEF CallerInv, Posting, TaskSet
<1>10. CopiesInv(t)'
  <2>1. \A e \in Entries : e >= count[t] => copies'[t][e] = 0
    BY <1>6, <1>7, EntriesNat DEF CopiesInv
  <2>2. \A e \in Entries : e < count[t] /\ e < Chunk(count[t]) =>
          copies'[t][e] = IF e < main_next[t] THEN 1 ELSE 0
    <3>1. \A e \in Entries : e < Chunk(count[t]) => e # x
      BY <1>6, EntriesNat
    <3> QED BY <1>7, <3>1 DEF CopiesInv
  <2>3. ASSUME NEW j \in Workers, Busy(count[t], j), NEW e \in Part(count[t], j)
        PROVE  copies'[t][e] = IF Copied(t, j, e)' THEN 1 ELSE 0
    <3>1. e \in Entries /\ e \in Nat
      BY PartInBatch
    <3>2. copies[t][e] = IF Copied(t, j, e) THEN 1 ELSE 0
      BY <2>3 DEF CopiesInv
    <3>3. CASE j = i
      <4>1. Copied(t, j, e) <=> e < x
        BY <3>3 DEF Copied, x
      <4>2. Copied(t, j, e)' <=> e < x + 1
        BY <1>3, <1>4, <1>8, <3>3 DEF Copied
      <4> QED BY <1>4, <1>7, <3>1, <3>2, <4>1, <4>2
    <3>4. CASE j # i
      <4>1. e # x
        BY <1>5, <3>4, PartsDisjoint
      <4>2. Copied(t, j, e)' <=> Copied(t, j, e)
        BY <1>3, <1>4, <1>8, <3>4 DEF Copied
      <4> QED BY <1>7, <3>1, <3>2, <4>1, <4>2
    <3> QED BY <3>3, <3>4
  <2> QED BY <1>3, <2>1, <2>2, <2>3 DEF CopiesInv
<1>11. WorkerInv'
  <2>1. \A j \in Workers : HasTask(j)' <=> HasTask(j)
    BY <1>3 DEF HasTask
  <2> QED BY <1>3, <1>4, <1>8, <2>1 DEF WorkerInv
<1> QED BY <1>3, <1>7, <1>9, <1>10, <1>11, OthersIdle

\* A worker reports its task done when it is past its last entry.
LEMMA SetDoneStep ==
  ASSUME GatherInv, NEW i \in Workers, SetDone(i), ~overlapped'
  PROVE  OneCall'
<1>1. ~overlapped /\ OneCall /\ TypeOK /\ HasTask(i) /\ worker[i] = "copy"
  BY DEF GatherInv, SetDone, callVars, HasTask
<1>2. PICK t \in Threads :
        /\ InCall(t) /\ source[i] = t /\ Posted(t, i) /\ ~done[i]
        /\ start[i] = First(count[t], i) /\ end[i] = Limit(count[t], i)
        /\ Busy(count[t], i)
  BY <1>1, WorkersCaller
<1> USE <1>1, <1>2 DEF InCall
<1>3. /\ done' = [done EXCEPT ![i] = TRUE] /\ worker' = [worker EXCEPT ![i] = "clear"]
      /\ next[i] >= end[i]
      /\ UNCHANGED <<has_work, source, start, end, next, running, pc, w, count,
                     main_next, copies>>
  BY DEF SetDone, taskVars, callVars
<1>4. /\ worker'[i] = "clear" /\ done'[i]
      /\ \A j \in Workers : j # i => worker'[j] = worker[j] /\ done'[j] = done[j]
  BY <1>3 DEF TypeOK
<1>5. \A j \in Workers : (Posted(t, j)' <=> Posted(t, j))
                         /\ (TaskSet(t, j)' <=> TaskSet(t, j))
  BY <1>3 DEF Posted, TaskSet
<1>6. CallerInv(t)'
  <2>1. pc[t] = "wake" => w[t] \in Workers /\ w[t] # i
    BY WorkersNat DEF GatherInv, LocalInv, Posted, Posting
  <2>2. pc'[t] = "wake" => ~done'[w'[t]] /\ TaskSet(t, w[t])'
    BY <1>3, <1>4, <2>1 DEF CallerInv, TaskSet
  <2>3. pc'[t] = "wait" => \A j \in Workers : j < w'[t] => done'[j]
    BY <1>3, <1>4 DEF CallerInv
  <2> QED BY <1>3, <1>5, <2>2, <2>3 DEF CallerInv, Posting
<1>7. CopiesInv(t)'
  <2>1. \A j \in Workers : \A e \in Part(count[t], j) :
          Copied(t, j, e)' <=> Copied(t, j, e)
    <3>1. \A e \in Part(count[t], i) : e < next[i]
      BY <1>3, PartBounds DEF Part, TypeOK
    <3> QED BY <1>3, <1>4, <1>5, <3>1 DEF Copied
  <2> QED BY <1>3, <2>1 DEF CopiesInv
<1>8. WorkerInv'
  <2>1. \A j \in Workers : HasTask(j)' => HasTask(j) /\ j # i
    BY <1>3, <1>4 DEF HasTask
  <2> QED BY <1>3, <1>4, <1>5, <2>1 DEF WorkerInv
<1> QED BY <1>3, <1>6, <1>7, <1>8, OthersIdle

\* A step that touches no caller, no task and no copy, and gives no worker a
\* task, keeps the invariant.
LEMMA IdleStep ==
  ASSUME OneCall,
         UNCHANGED <<done, source, start, end, next, pc, w, count, main_next, copies>>,
         \A i \in Workers : /\ HasTask(i)' => HasTask(i)
                            /\ worker'[i] = "copy" <=> worker[i] = "copy"
                            /\ worker'[i] = "exit" => ~running',
         \A t \in Threads : pc[t] # "idle" => running'
  PROVE  OneCall'
<1>1. ASSUME NEW t \in Threads
      PROVE  /\ CallerInv(t)' <=> CallerInv(t)
             /\ CopiesInv(t)' <=> CopiesInv(t)
             /\ Gathered(t)' <=> Gathered(t)
  <2>1. \A i \in Workers : Posted(t, i)' <=> Posted(t, i)
    BY DEF Posted
  <2>2. \A i \in Workers : \A e : Copied(t, i, e)' <=> Copied(t, i, e)
    BY <2>1 DEF Copied
  <2>3. CallerInv(t)' <=> CallerInv(t)
    BY <2>1 DEF CallerInv, TaskSet
  <2>4. CopiesInv(t)' <=> CopiesInv(t)
    BY <2>2 DEF CopiesInv
  <2> QED BY <2>3, <2>4 DEF Gathered
<1>2. \A i \in Workers : Posted(source[i], i)' <=> Posted(source[i], i)
  BY DEF Posted
<1>3. WorkerInv'
  BY <1>2 DEF OneCall, WorkerInv
<1> QED BY <1>1, <1>3 DEF OneCall

\* The remaining steps of the workers, the end of the poller and idle rounds.
LEMMA OtherSteps ==
  ASSUME GatherInv, ~overlapped',
         \/ \E i \in Workers : ClearWork(i) \/ Leave(i)
         \/ StopWorkers
         \/ UNCHANGED vars
  PROVE  OneCall'
<1>1. ~overlapped /\ OneCall /\ TypeOK
  BY DEF GatherInv, ClearWork, Leave, StopWorkers, callVars, vars
<1>2. \A t \in Threads : pc[t] # "idle" => running
  BY <1>1 DEF OneCall
<1>3. \A i \in Workers : worker[i] = "exit" => ~running
  BY <1>1 DEF OneCall, WorkerInv
<1>4. ASSUME NEW i \in Workers, ClearWork(i) PROVE OneCall'
  <2>1. \A j \in Workers : HasTask(j)' => HasTask(j)
    BY <1>1, <1>4 DEF ClearWork, HasTask, TypeOK
  <2> QED BY <1>1, <1>2, <1>3, <1>4, <2>1, IdleStep
          DEF ClearWork, TypeOK, taskVars, callVars
<1>5. ASSUME NEW i \in Workers, Leave(i) PROVE OneCall'
  <2>1. \A j \in Workers : HasTask(j)' => HasTask(j)
    BY <1>1, <1>5 DEF Leave, HasTask, TypeOK, flagVars
  <2> QED BY <1>1, <1>2, <1>3, <1>5, <2>1, IdleStep
          DEF Leave, TypeOK, flagVars, taskVars, callVars
<1>6. ASSUME StopWorkers PROVE OneCall'
  <2>1. \A j \in Workers : HasTask(j)' => HasTask(j)
    BY <1>6 DEF StopWorkers, HasTask, flagVars, workerVars
  <2> QED BY <1>1, <1>2, <1>3, <1>6, <2>1, IdleStep
          DEF StopWorkers, flagVars, taskVars, workerVars, callVars
<1>7. ASSUME UNCHANGED vars PROVE OneCall'
  <2>1. \A j \in Workers : HasTask(j)' => HasTask(j)
    BY <1>7 DEF vars, HasTask, flagVars, workerVars
  <2> QED BY <1>1, <1>2, <1>3, <1>7, <2>1, IdleStep
          DEF vars, flagVars, taskVars, workerVars, callVars
<1> QED BY <1>4, <1>5, <1>6, <1>7

\* Every step preserves the invariant.
LEMMA GatherStep == GatherInv /\ [Next]_vars => GatherInv'
<1> SUFFICES ASSUME GatherInv, [Next]_vars PROVE GatherInv'
  OBVIOUS
<1>1. TypeOK' /\ LocalInv'
  BY TypeStep DEF GatherInv
<1>2. ASSUME ~overlapped' PROVE OneCall'
  <2>1. CASE \E t \in Threads : Call(t) \/ Gather(t)
    BY <1>2, <2>1, CallStep, PostTaskStep, PostRangeStep, WakeWorkerStep,
       PostsDoneStep, CopyOwnStep, OwnDoneStep, WaitWorkerStep, ReturnStep DEF Gather
  <2>2. CASE \E i \in Workers : Worker(i)
    BY <1>2, <2>2, TakeTaskStep, CopyEntryStep, SetDoneStep, OtherSteps DEF Worker
  <2>3. CASE StopWorkers \/ UNCHANGED vars
    BY <1>2, <2>3, OtherSteps
  <2> QED BY <2>1, <2>2, <2>3 DEF Next, Pause, Joined
<1> QED BY <1>1, <1>2 DEF GatherInv

-----------------------------------------------------------------------------
(* The theorems *)

\* The inductive invariant of parallel_gather: what has been copied, and what is
\* still to be, follows from the positions of the threads and the flags.
THEOREM GatherInvariant == Spec => []GatherInv
<1>1. Init => GatherInv
  BY InitInv
<1>2. GatherInv /\ [Next]_vars => GatherInv'
  BY GatherStep
<1> QED BY <1>1, <1>2, PTL DEF Spec

\* For every number of workers, calling threads and calls and every batch size,
\* the flags, ranges and counters of parallel_gather keep their types, also when
\* calls overlap: a worker's range never ends beyond the largest batch.
THEOREM GatherTypes == Spec => []TypeOK
<1>1. GatherInv => TypeOK
  BY DEF GatherInv
<1> QED BY <1>1, GatherInvariant, PTL

\* Every call of parallel_gather that returns has copied each entry of its batch
\* exactly once, whichever threads called it before, as long as no two calls have
\* been under way at once: the poller and submit_direct share the tasks unlocked.
THEOREM GatherIsComplete == Spec => []GatherComplete
<1>1. GatherInv => GatherComplete
  BY DEF GatherInv, OneCall, GatherComplete
<1> QED BY <1>1, GatherInvariant, PTL

\* As long as calls do not overlap, no gather worker copies for a call that has
\* returned, and none has its task rewritten while it executes it, although a
\* worker may still have to clear has_work when the next call posts its task.
THEOREM NoWorkerStrays == Spec => []NoStrayWorker
<1>1. ASSUME GatherInv PROVE NoStrayWorker
  <2> SUFFICES ASSUME ~overlapped, NEW i \in Workers, worker[i] = "copy"
               PROVE  /\ pc[source[i]] # "idle" /\ Busy(count[source[i]], i)
                      /\ start[i] = First(count[source[i]], i)
                      /\ next[i] \in start[i]..end[i] /\ end[i] <= count[source[i]]
    BY DEF NoStrayWorker
  <2>1. HasTask(i)
    BY DEF HasTask
  <2>2. PICK t \in Threads :
          /\ InCall(t) /\ source[i] = t /\ Posted(t, i) /\ ~done[i]
          /\ start[i] = First(count[t], i) /\ end[i] = Limit(count[t], i)
          /\ Busy(count[t], i)
    BY <1>1, <2>1, WorkersCaller
  <2>3. end[i] <= count[t]
    BY <2>2, PartBounds DEF InCall
  <2>4. next[i] \in start[i]..end[i]
    BY <2>2 DEF InCall, WorkerInv
  <2> QED BY <2>2, <2>3, <2>4 DEF InCall
<1> QED BY <1>1, GatherInvariant, PTL
=============================================================================
