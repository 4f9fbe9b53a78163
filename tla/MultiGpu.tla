------------------------------- MODULE MultiGpu -------------------------------
(***************************************************************************)
(* The life of the pollers of one process: they take their staging buffers *)
(* from the process-wide StagingPool or allocate their own, run, and give  *)
(* them back.  Four kinds of programs use them:                            *)
(*   "tiled", "sg"     sessions (WarpSpecSession, SGWarpSpecSession),      *)
(*                     created and destroyed by threads of their own;      *)
(*   "single"          a poller set up by hand (examples 01-04), whose     *)
(*                     main shuts the pool down before the destructor runs;*)
(*   "bench", "direct" one poller per GPU with cores of its own (examples  *)
(*                     08; 05 and 06), set up one after the other, driven  *)
(*                     by threads that meet at a SpinBarrier; the cores    *)
(*                     are those of the example's table;                   *)
(*   "topology"        one poller per GPU with the cores that              *)
(*                     get_exclusive_cores finds (API_Reference.md,        *)
(*                     Pattern 4), and no pool.                            *)
(* A buffer is [epoch, slot, buf, huge]: the pool's n-th init and the set, *)
(* or epoch 0 and the GPU for a poller's own; mapped as a huge page or     *)
(* allocated by cudaMallocHost.                                            *)
(***************************************************************************)
EXTENDS Topology, SessionConfig

CONSTANTS
  Programs,       \* [kind, machine]: a kind for each GPU, and the machine
  Configs,        \* configurations a tiled session may be created with
  Allocations,    \* outcomes of allocating a set of buffers: which of them
                  \* are huge pages; the first failure ends the sequence
  BUFS_PER_SET,
  PhaseSizes,     \* GPUs active in each test of a benchmark
  Rounds,         \* barriers per thread and test
  MaxLives        \* bound: sessions created for each GPU

ASSUME MultiGpuAssumption ==
  /\ \A c \in Configs : c \in ConfigShape
  /\ BUFS_PER_SET \in Nat
  /\ \A a \in Allocations : a \in Seq(BOOLEAN) /\ Len(a) <= BUFS_PER_SET
  /\ Rounds \in Nat \ {0} /\ MaxLives \in Nat \ {0}
  /\ PhaseSizes \in Seq(1..NumGpus)
  /\ \A p \in Programs : /\ p.machine.cores \in Nat /\ p.machine.nodes \in Nat \ {0}
                         /\ p.machine.stray \in Nat

NoSet    == -1
NoConfig == [total_tokens |-> 0]
NoMemory == [epoch |-> 0, slot |-> 0, buf |-> 0, huge |-> FALSE]

VARIABLES
  program, machine,
  pc, lives,          \* of each GPU's owner
  config,             \* config_ of a tiled session
  set,                \* staging_pool_set_
  bufs,               \* staging_bufs_[0 .. num_staging_bufs_ - 1]
  cpus,               \* where its threads are pinned: the polling thread, its
                      \* workers, and the control thread during a test
  initialized, epoch, \* StagingPool: initialized_, and how often init ran
  pool_size, pool_bufs, hugepage, in_use,  \* buf_size_ and sets_[0]
  live,               \* memory allocated and not freed
  waiting, generation, count,  \* the SpinBarrier
  gen, round, phase,  \* local gen and barriers of each thread; tests begun
  pulled,  \* history: pollers whose set the pool was shut down under
  early,   \* history: there was one
  mixed,   \* history: epochs whose set has buffers of both sorts
  partial  \* history: epochs whose set could not be allocated fully

lifeVars    == <<pc, lives, config, set, bufs, cpus>>
poolVars    == <<initialized, epoch, pool_size, pool_bufs, hugepage, in_use>>
barrierVars == <<waiting, generation, count, gen, round, phase>>
historyVars == <<pulled, early, mixed, partial>>
vars == <<program, machine, lifeVars, poolVars, live, barrierVars, historyVars>>

Init ==
  /\ \E p \in Programs : program = p.kind /\ machine = p.machine
  /\ pc = [g \in Gpus |-> IF program[g] = "none" THEN "gone" ELSE "new"]
  /\ lives = [g \in Gpus |-> 1]
  /\ config = [g \in Gpus |-> NoConfig]
  /\ set = [g \in Gpus |-> NoSet]
  /\ bufs = [g \in Gpus |-> <<>>] /\ cpus = [g \in Gpus |-> <<>>]
  /\ initialized = FALSE /\ epoch = 0 /\ pool_size = 0
  /\ pool_bufs = [b \in 1..BUFS_PER_SET |-> NoMemory]
  /\ hugepage = FALSE /\ in_use = FALSE
  /\ live = {}
  /\ waiting = 0 /\ generation = 0 /\ count = 0
  /\ gen = [g \in Gpus |-> 0] /\ round = [g \in Gpus |-> 0] /\ phase = 0
  /\ pulled = {} /\ early = FALSE /\ mixed = {} /\ partial = {}

Parallel == \A g \in Gpus : program[g] \in {"bench", "direct"}

\* In a benchmark main sets the GPUs up, and tears them down, in order.
Turn(g, done) == Parallel => \A h \in Gpus : h < g => pc[h] \in done

GoTo(g, place) == pc' = [pc EXCEPT ![g] = place]

-----------------------------------------------------------------------------
(* StagingPool.  Every caller asks for one set: init(1, size). *)

\* MAX_SG_POOL_ENTRIES * 4096 bytes: the staging_size of an SG session.
SG_STAGING == 16 * KB * 4 * KB

\* staging_buffer_size_, and the size init is called with: that of the data of a
\* tiled session; an example has one size for all its pollers.
Size(g) == CASE program[g] = "sg"    -> SG_STAGING
             [] program[g] = "tiled" -> config[g].total_tokens * config[g].token_size
             [] OTHER                -> KB

\* The buffers of one allocation; null from the first failure on.
Memory(e, s, a) == [b \in 1..BUFS_PER_SET |->
  IF b <= Len(a) THEN [epoch |-> e, slot |-> s, buf |-> b, huge |-> a[b]]
                 ELSE NoMemory]

Allocated(ms) == {ms[b] : b \in DOMAIN ms} \ {NoMemory}

\* init: allocates the set unless the pool is initialised.  The flag of the
\* set is that of the buffer allocated last.
PoolInit(g) ==
  /\ pc[g] = "init"
  /\ GoTo(g, "check")
  /\ \/ /\ initialized
        /\ UNCHANGED <<poolVars, live, mixed, partial>>
     \/ /\ ~initialized
        /\ initialized' = TRUE /\ epoch' = epoch + 1
        /\ pool_size' = Size(g) /\ in_use' = FALSE
        /\ \E a \in Allocations :
             /\ pool_bufs' = Memory(epoch + 1, 0, a)
             /\ hugepage' = IF a = <<>> THEN hugepage ELSE a[Len(a)]
             /\ live' = live \cup Allocated(Memory(epoch + 1, 0, a))
             /\ mixed' = IF \E i, j \in 1..Len(a) : a[i] # a[j]
                           THEN mixed \cup {epoch + 1} ELSE mixed
             /\ partial' = IF Len(a) < BUFS_PER_SET
                             THEN partial \cup {epoch + 1} ELSE partial
  /\ UNCHANGED <<program, machine, lives, config, set, bufs, cpus, barrierVars, pulled,
                 early>>

\* What freeing ms leaves allocated: memory is freed the way it was allocated
\* if its flag says so, otherwise the call fails.
Freed(ms, flag) == live \ {m \in Allocated(ms) : m.huge = flag[m]}

\* shutdown: frees the set whoever holds it.
ShutdownPool ==
  /\ initialized' = FALSE
  /\ live' = IF initialized
               THEN Freed(pool_bufs, [m \in Allocated(pool_bufs) |-> hugepage])
               ELSE live
  /\ pool_bufs' = IF initialized THEN [b \in 1..BUFS_PER_SET |-> NoMemory]
                                 ELSE pool_bufs
  /\ LET held == {h \in Gpus : initialized /\ set[h] # NoSet}
     IN pulled' = pulled \cup held /\ early' = (early \/ held # {})
  /\ UNCHANGED <<epoch, pool_size, hugepage, in_use, mixed, partial>>

-----------------------------------------------------------------------------
(* A poller's life: constructor, init_copy_engine, destructor *)

\* WarpSpecSession checks its configuration first; without one it has no
\* poller.
CreateSession(g) ==
  /\ pc[g] = "new" /\ program[g] = "tiled"
  /\ \E c \in Configs : /\ config' = [config EXCEPT ![g] = c]
                         /\ GoTo(g, IF Accepted(c) THEN "init" ELSE "closing")
  /\ UNCHANGED <<program, machine, lives, set, bufs, cpus, poolVars, live, barrierVars,
                 historyVars>>

\* An SG session, or a poller set up by hand: the pool is initialised first ...
CreatePoller(g) ==
  /\ pc[g] = "new" /\ program[g] \in {"sg", "single", "bench"}
  /\ Turn(g, {"ready"})
  /\ GoTo(g, "init")
  /\ UNCHANGED <<program, machine, lives, config, set, bufs, cpus, poolVars, live,
                 barrierVars, historyVars>>

\* ... or not: the benchmarks of submit_direct, and the program that asks for
\* the topology, use no pool.
CreateDirect(g) ==
  /\ pc[g] = "new" /\ program[g] \in {"direct", "topology"}
  /\ Turn(g, {"ready"})
  /\ GoTo(g, "check")
  /\ UNCHANGED <<program, machine, lives, config, set, bufs, cpus, poolVars, live,
                 barrierVars, historyVars>>

\* is_initialized() and buffer_size(), without the lock.
CheckPool(g) ==
  /\ pc[g] = "check"
  /\ GoTo(g, IF initialized /\ Size(g) <= pool_size THEN "acquire" ELSE "own")
  /\ UNCHANGED <<program, machine, lives, config, set, bufs, cpus, poolVars, live,
                 barrierVars, historyVars>>

\* Mutant: the set is handed out whether or not it is in use.
SetFreeAlways(g) == initialized /\ pool_size >= Size(g)

\* acquire_buffers finds the set free and large enough.
SetFree(g) == initialized /\ ~in_use /\ pool_size >= Size(g)

AcquireBuffers(g) ==
  /\ pc[g] = "acquire"
  /\ IF SetFree(g)
       THEN /\ set' = [set EXCEPT ![g] = 0]
            /\ in_use' = TRUE
            /\ GoTo(g, "get")
       ELSE GoTo(g, "own") /\ UNCHANGED <<set, in_use>>
  /\ UNCHANGED <<program, machine, lives, config, bufs, cpus, initialized, epoch,
                 pool_size, pool_bufs, hugepage, live, barrierVars, historyVars>>

\* The CPUs of the polling thread and the workers: by the table, by
\* get_exclusive_cores, or by default.
PollerCpus(g) ==
  IF Parallel THEN ExclusiveCpus(g \div 4, CoreBase(g), CORE_COUNT)
  ELSE IF program[g] = "topology"
    THEN ExclusiveCpus(NumaNode(machine, g), BaseCpu(machine, g), NumCores(machine, g))
    ELSE DefaultCpus(0)

\* The rest of init_copy_engine starts and pins the workers, start() the polling
\* thread.
PinThreads(g) == cpus' = [cpus EXCEPT ![g] = PollerCpus(g)]

\* get_buffers, without the lock: all BUFS_PER_SET pointers are taken over.
GetBuffers(g) ==
  /\ pc[g] = "get"
  /\ bufs' = [bufs EXCEPT ![g] = pool_bufs]
  /\ PinThreads(g)
  /\ GoTo(g, "ready")
  /\ UNCHANGED <<program, machine, lives, config, set, poolVars, live,
                 barrierVars, historyVars>>

\* Mutant: the buffers asked for are counted, not those allocated.
CountedAll(g, a) == Memory(0, g, a)

\* Own buffers: only those allocated before the first failure count.
Counted(g, a) == SubSeq(Memory(0, g, a), 1, Len(a))

AllocateOwn(g) ==
  /\ pc[g] = "own"
  /\ \E a \in Allocations :
       /\ bufs' = [bufs EXCEPT ![g] = Counted(g, a)]
       /\ live' = live \cup Allocated(Memory(0, g, a))
  /\ PinThreads(g)
  /\ GoTo(g, "ready")
  /\ UNCHANGED <<program, machine, lives, config, set, poolVars, barrierVars,
                 historyVars>>

\* A session or a single poller is launched ...
Run(g) ==
  /\ pc[g] = "ready" /\ ~Parallel
  /\ GoTo(g, "running")
  /\ UNCHANGED <<program, machine, lives, config, set, bufs, cpus, poolVars, live,
                 barrierVars, historyVars>>

\* ... and stopped.
Stop(g) ==
  /\ pc[g] = "running"
  /\ GoTo(g, IF program[g] = "single" THEN "closing" ELSE "stopped")
  /\ UNCHANGED <<program, machine, lives, config, set, bufs, cpus, poolVars, live,
                 barrierVars, historyVars>>

\* After its last test a benchmark stops and deletes its pollers in order.
CleanUp(g) ==
  /\ Parallel /\ pc[g] = "ready" /\ phase = Len(PhaseSizes)
  /\ Turn(g, {"gone"})
  /\ GoTo(g, "stopped")
  /\ UNCHANGED <<program, machine, lives, config, set, bufs, cpus, poolVars, live,
                 barrierVars, historyVars>>

\* Mutant: the first buffer's flag stands for all.
OwnFlagFirst(g, m) == bufs[g][1].huge

\* staging_hugepage_ of a buffer of one's own.
OwnFlag(g, m) == m.huge

\* ~CpuPollingThread: release_buffers, or free one's own.
Destroy(g) ==
  /\ pc[g] = "stopped"
  /\ IF set[g] # NoSet
       THEN in_use' = FALSE /\ UNCHANGED live
       ELSE /\ live' = Freed(bufs[g], [m \in Allocated(bufs[g]) |-> OwnFlag(g, m)])
            /\ UNCHANGED in_use
  /\ set' = [set EXCEPT ![g] = NoSet]
  /\ bufs' = [bufs EXCEPT ![g] = <<>>] /\ cpus' = [cpus EXCEPT ![g] = <<>>]
  /\ pulled' = pulled \ {g}
  /\ GoTo(g, IF program[g] = "tiled" THEN "closing" ELSE "gone")
  /\ UNCHANGED <<program, machine, lives, config, initialized, epoch, pool_size,
                 pool_bufs, hugepage, barrierVars, early, mixed, partial>>

\* ~WarpSpecSession shuts the pool down last, main of an example before the
\* poller's destructor.
Shutdown(g) ==
  /\ pc[g] = "closing"
  /\ ShutdownPool
  /\ config' = [config EXCEPT ![g] = NoConfig]
  /\ GoTo(g, IF program[g] = "tiled" THEN "gone" ELSE "stopped")
  /\ UNCHANGED <<program, machine, lives, set, bufs, cpus, barrierVars>>

\* A thread creates its next session.
CreateAgain(g) ==
  /\ pc[g] = "gone" /\ program[g] \in {"tiled", "sg"} /\ lives[g] < MaxLives
  /\ lives' = [lives EXCEPT ![g] = @ + 1]
  /\ GoTo(g, "new")
  /\ UNCHANGED <<program, machine, config, set, bufs, cpus, poolVars, live, barrierVars,
                 historyVars>>

\* ~StagingPool at the end of the process.
Exit ==
  /\ \A g \in Gpus : pc[g] = "gone"
  /\ pc' = [g \in Gpus |-> "ended"]
  /\ ShutdownPool
  /\ UNCHANGED <<program, machine, lives, config, set, bufs, cpus, barrierVars>>

-----------------------------------------------------------------------------
(* The benchmarks: tests one after the other, each with a barrier *)

Active == {g \in Gpus : g < PhaseSizes[phase]}

\* A new or reset barrier, and a thread for every active GPU, which pins itself.
StartPhase ==
  /\ Parallel /\ phase < Len(PhaseSizes)
  /\ \A g \in Gpus : pc[g] = "ready"
  /\ phase' = phase + 1
  /\ count' = PhaseSizes[phase + 1] /\ waiting' = 0
  /\ round' = [g \in Gpus |-> 0]
  /\ pc' = [g \in Gpus |-> IF g < PhaseSizes[phase + 1] THEN "load" ELSE pc[g]]
  /\ cpus' = [g \in Gpus |-> IF g < PhaseSizes[phase + 1]
                               THEN Append(PollerCpus(g), ControlCpu(g)) ELSE cpus[g]]
  /\ UNCHANGED <<program, machine, lives, config, set, bufs, poolVars, live,
                 generation, gen, historyVars>>

\* SpinBarrier::wait, access by access.
LoadGeneration(g) ==
  /\ pc[g] = "load"
  /\ gen' = [gen EXCEPT ![g] = generation]
  /\ round' = [round EXCEPT ![g] = @ + 1]
  /\ GoTo(g, "add")
  /\ UNCHANGED <<program, machine, lives, config, set, bufs, cpus, poolVars, live,
                 waiting, generation, count, phase, historyVars>>

\* Mutant: off by one.
LastButOne == waiting + 2 = count

\* fetch_add(1) + 1 == count_
LastToArrive == waiting + 1 = count

AddWaiting(g) ==
  /\ pc[g] = "add"
  /\ waiting' = waiting + 1
  /\ GoTo(g, IF LastToArrive THEN "reset" ELSE "spin")
  /\ UNCHANGED <<program, machine, lives, config, set, bufs, cpus, poolVars, live,
                 generation, count, gen, round, phase, historyVars>>

\* Mutant: the others are released before waiting_ is reset.
BumpFirst(g) ==
  /\ \/ /\ pc[g] = "reset" /\ generation' = generation + 1
        /\ GoTo(g, "bump") /\ UNCHANGED waiting
     \/ pc[g] = "bump" /\ waiting' = 0 /\ GoTo(g, "work") /\ UNCHANGED generation
  /\ UNCHANGED <<program, machine, lives, config, set, bufs, cpus, poolVars, live,
                 count, gen, round, phase, historyVars>>

\* The last thread resets waiting_, then releases the others.
Release(g) ==
  /\ \/ pc[g] = "reset" /\ waiting' = 0 /\ GoTo(g, "bump") /\ UNCHANGED generation
     \/ /\ pc[g] = "bump" /\ generation' = generation + 1
        /\ GoTo(g, "work") /\ UNCHANGED waiting
  /\ UNCHANGED <<program, machine, lives, config, set, bufs, cpus, poolVars, live,
                 count, gen, round, phase, historyVars>>

Spin(g) ==
  /\ pc[g] = "spin" /\ generation # gen[g]
  /\ GoTo(g, "work")
  /\ UNCHANGED <<program, machine, lives, config, set, bufs, cpus, poolVars, live,
                 barrierVars, historyVars>>

\* run_once, or submit_direct.
Work(g) ==
  /\ pc[g] = "work"
  /\ GoTo(g, IF round[g] < Rounds THEN "load" ELSE "joined")
  /\ UNCHANGED <<program, machine, lives, config, set, bufs, cpus, poolVars, live,
                 barrierVars, historyVars>>

\* main has joined all threads of the test.
EndPhase ==
  /\ phase > 0 /\ \A g \in Active : pc[g] = "joined"
  /\ pc' = [g \in Gpus |-> IF g \in Active THEN "ready" ELSE pc[g]]
  /\ cpus' = [g \in Gpus |-> IF g \in Active THEN PollerCpus(g) ELSE cpus[g]]
  /\ UNCHANGED <<program, machine, lives, config, set, bufs, poolVars, live,
                 barrierVars, historyVars>>

Life(g) == \/ CreateSession(g) \/ CreatePoller(g) \/ CreateDirect(g)
           \/ PoolInit(g) \/ CheckPool(g) \/ AcquireBuffers(g)
           \/ GetBuffers(g) \/ AllocateOwn(g) \/ Run(g) \/ Stop(g)
           \/ CleanUp(g) \/ Destroy(g) \/ Shutdown(g)

Thread(g) == LoadGeneration(g) \/ AddWaiting(g) \/ Release(g) \/ Spin(g) \/ Work(g)

Ended == /\ \A g \in Gpus : pc[g] = "ended"
         /\ UNCHANGED vars

Next == \/ \E g \in Gpus : Life(g) \/ CreateAgain(g) \/ Thread(g)
        \/ StartPhase \/ EndPhase \/ Exit \/ Ended

\* The threads of a process keep running; how long a session lives and
\* whether there is another is up to the caller.
Fairness == /\ \A g \in Gpus : WF_vars(Parallel /\ Life(g)) /\ WF_vars(Thread(g))
            /\ WF_vars(StartPhase) /\ WF_vars(EndPhase)

Spec == Init /\ [][Next]_vars /\ Fairness

-----------------------------------------------------------------------------
(* Properties *)

\* A poller may copy through its buffers.
Using(g) == pc[g] \in {"ready", "running", "load", "add", "reset", "bump", "spin",
                       "work", "joined"}

\* Every staging buffer a poller counts is allocated memory as long as the
\* poller is in use.  Two cases are excepted, both possible in the code: the
\* destructor of a session shuts the pool down under a poller that still
\* holds its set, and a set that could not be allocated fully is handed out
\* with null pointers.
BuffersUsable ==
  \A g \in Gpus : Using(g) /\ g \notin pulled =>
    \A b \in 1..Len(bufs[g]) :
      \/ bufs[g][b] \in live
      \/ set[g] # NoSet /\ bufs[g][b] = NoMemory /\ epoch \in partial

\* Two pollers never gather into the same buffer, unless the pool was shut
\* down while its set was held: release_buffers then gives back a set that
\* meanwhile may belong to somebody else.
BuffersNotShared ==
  ~early => \A g, h \in Gpus : g # h =>
              Allocated(bufs[g]) \cap Allocated(bufs[h]) = {}

\* When the process ends nothing is left allocated but buffers of a set that
\* had both sorts: the pool remembers the sort of the last one only.
NothingLeaked ==
  (\A g \in Gpus : pc[g] = "ended") => \A m \in live : m.epoch \in mixed

\* The threads of a benchmark are in the same round when they work: nobody
\* passes the barrier before everybody has arrived, however the barrier is
\* reused for the next round and the next test.
RoundsTogether ==
  \A g \in Gpus : pc[g] = "work" =>
    \A h \in Active : \/ round[h] = round[g] /\ pc[h] # "add"
                      \/ round[h] = round[g] + 1 /\ pc[h] \in {"add", "spin"}

\* The cores of a poller are meant to be its own: those of the table, or a share
\* of at least two cores of a node.
OwnCores(g) == Parallel \/ (program[g] = "topology" /\ Share(machine, g) >= 2)

\* No two threads of pollers with cores of their own, of one GPU or of two, are
\* pinned to the same CPU: polling threads, gather workers and, during the tests
\* of a benchmark, control threads.  Those of a program that asks for the topology
\* are on CPUs of the GPU's node, and these exist, if sysfs knows the node or the
\* machine has two: on a machine with one node the heuristic makes up another.
CoresApart ==
  /\ \A g, h \in Gpus : OwnCores(g) /\ OwnCores(h) =>
       \A i \in DOMAIN cpus[g], j \in DOMAIN cpus[h] :
         cpus[g][i] = cpus[h][j] => g = h /\ i = j
  /\ \A g \in Gpus : program[g] = "topology" /\ OwnCores(g) =>
       \A i \in DOMAIN cpus[g] :
         /\ cpus[g][i] \in CpuStart(machine, g)..CpuEnd(machine, g)
         /\ machine.nodes >= 2 \/ machine.sysfs[g] = 0 =>
              cpus[g][i] < machine.nodes * machine.cores

\* A session whose chunk size is tuned automatically always gets a poller if
\* its tile is a power of two, and at most 8 chunks per tile ("Enforce max
\* K=8 chunks per tile"); its block never exceeds 1024 threads.
TunedSessionWorks ==
  \A g \in Gpus : config[g] # NoConfig /\ AutoTuned(config[g])
      /\ NotEmpty(config[g])
      /\ config[g].tokens_per_tile = PowerOfTwoBelow(config[g].tokens_per_tile) =>
    /\ Accepted(config[g])
    /\ ChunksPerTile(config[g]) <= 8 /\ BlockSize(config[g]) <= 1024

\* A benchmark runs all its rounds and tears its pollers down: nobody is left
\* at the barrier.
BenchmarkEnds == Parallel ~> \A g \in Gpus : pc[g] \in {"gone", "ended"}
=============================================================================
