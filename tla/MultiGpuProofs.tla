--------------------------- MODULE MultiGpuProofs ---------------------------
(* Machine-checked proofs about the pollers of one process: the barrier of   *)
(* the benchmarks, the staging buffers and the cores of each GPU, for every  *)
(* number of GPUs, machine and outcome of the allocations.                   *)
EXTENDS MultiGpu, FiniteSetTheorems, SequenceTheorems, TLAPS

-----------------------------------------------------------------------------
(* The barrier: the inductive invariant *)

\* Positions of a benchmark's thread.
InTest(g) == pc[g] \in {"load", "add", "reset", "bump", "spin", "work", "joined"}

\* The thread has entered the barrier and is not released yet.
Ahead(g) == \/ pc[g] \in {"add", "reset", "bump"}
            \/ pc[g] = "spin" /\ gen[g] = generation

Step(g) == IF Ahead(g) THEN 1 ELSE 0

\* The threads that are counted in waiting_ and spin.
Waiters == {g \in Active : pc[g] = "spin" /\ gen[g] = generation}

\* During a test: who takes part, and where the barrier is.
Members == \A g \in Gpus : IF g \in Active THEN InTest(g) ELSE pc[g] = "ready"
Rings   == \A g \in Active : pc[g] \in {"add", "reset", "bump"} => gen[g] = generation
Levels  == \A g, h \in Active : round[g] + Step(h) = round[h] + Step(g)
Arrivals ==
  /\ \A g \in Active : pc[g] \in {"reset", "bump"} =>
       /\ waiting = IF pc[g] = "reset" THEN count ELSE 0
       /\ \A h \in Active : h # g => h \in Waiters
  /\ (\A g \in Active : pc[g] \notin {"reset", "bump"}) =>
       waiting = Cardinality(Waiters) /\ waiting < count

TestInv == /\ Parallel /\ phase \in 1..Len(PhaseSizes) /\ count = PhaseSizes[phase]
           /\ Members /\ Rings /\ Levels /\ Arrivals

Places == {"new", "init", "check", "acquire", "get", "own", "ready", "running",
           "stopped", "closing", "gone", "ended",
           "load", "add", "reset", "bump", "spin", "work", "joined"}

BarrierTypes ==
  /\ pc \in [Gpus -> Places] /\ phase \in 0..Len(PhaseSizes)
  /\ waiting \in Nat /\ generation \in Nat
  /\ gen \in [Gpus -> Nat] /\ round \in [Gpus -> Nat]

BarrierInv == BarrierTypes /\ ((\E g \in Gpus : InTest(g)) => TestInv)

-----------------------------------------------------------------------------
(* The barrier: every step preserves the invariant *)

\* The GPUs of a test are 0 .. n - 1, and GPU 0 is always one of them.
LEMMA ActiveGpus ==
  phase \in 1..Len(PhaseSizes) =>
    /\ PhaseSizes[phase] \in 1..NumGpus
    /\ Active \subseteq Gpus /\ 0 \in Active
    /\ IsFiniteSet(Active) /\ Cardinality(Active) = PhaseSizes[phase]
<1> SUFFICES ASSUME phase \in 1..Len(PhaseSizes)
             PROVE  /\ PhaseSizes[phase] \in 1..NumGpus
                    /\ Active \subseteq Gpus /\ 0 \in Active
                    /\ IsFiniteSet(Active) /\ Cardinality(Active) = PhaseSizes[phase]
  OBVIOUS
<1>1. PhaseSizes[phase] \in 1..NumGpus
  <2>1. PhaseSizes \in Seq(1..NumGpus)
    BY MultiGpuAssumption
  <2>2. QED
    BY <2>1, ElementOfSeq
<1>2. Active = 0..(PhaseSizes[phase] - 1)
  BY <1>1, TopologyAssumption DEF Active, Gpus
<1>3. IsFiniteSet(Active) /\ Cardinality(Active) = PhaseSizes[phase]
  <2> DEFINE n == PhaseSizes[phase] - 1
  <2>1. n \in Int /\ 0 <= n /\ n + 1 = PhaseSizes[phase]
    BY <1>1, TopologyAssumption
  <2>2. IsFiniteSet(0..n) /\ Cardinality(0..n) = IF 0 > n THEN 0 ELSE n - 0 + 1
    <3> HIDE DEF n
    <3>1. 0 \in Int
      OBVIOUS
    <3>2. QED
      BY <2>1, <3>1, FS_Interval, Zenon
  <2>3. QED
    BY <1>2, <2>1, <2>2
<1>4. Active \subseteq Gpus /\ 0 \in Active
  BY <1>1, <1>2 DEF Active
<1>5. QED
  BY <1>1, <1>3, <1>4

\* The spinning threads counted in waiting_ are finitely many.
LEMMA WaitersFinite ==
  phase \in 1..Len(PhaseSizes) => IsFiniteSet(Waiters) /\ Waiters \in SUBSET Active
BY ActiveGpus, FS_Subset DEF Waiters

\* What each step of a benchmark's thread leaves alone.
LEMMA ThreadFrame ==
  ASSUME NEW g \in Gpus, BarrierInv, Thread(g)
  PROVE  /\ TestInv /\ g \in Active
         /\ UNCHANGED <<program, phase, count>> /\ Active' = Active /\ Parallel'
         /\ Members /\ Rings /\ Levels /\ Arrivals /\ count = PhaseSizes[phase]
         /\ phase \in 1..Len(PhaseSizes)
<1>1. InTest(g)
  BY DEF Thread, LoadGeneration, AddWaiting, Release, Spin, Work, InTest
<1>2. TestInv
  BY <1>1 DEF BarrierInv
<1>3. g \in Active
  BY <1>1, <1>2 DEF TestInv, Members, InTest
<1>4. UNCHANGED <<program, phase, count>>
  BY DEF Thread, LoadGeneration, AddWaiting, Release, Spin, Work, barrierVars
<1>5. QED
  BY <1>2, <1>3, <1>4 DEF TestInv, Active, Parallel

\* A thread enters the barrier.
LEMMA LoadBarrier ==
  ASSUME NEW g \in Gpus, BarrierInv, LoadGeneration(g)
  PROVE  BarrierInv'
<1> USE ThreadFrame DEF Thread
<1>1. Active \subseteq Gpus
  BY ActiveGpus
<1>2. BarrierTypes /\ BarrierTypes'
  BY DEF BarrierInv, BarrierTypes, Places, LoadGeneration, GoTo
<1>3. /\ pc'[g] = "add" /\ gen'[g] = generation /\ round'[g] = round[g] + 1
      /\ \A h \in Gpus : h # g => pc'[h] = pc[h] /\ gen'[h] = gen[h] /\ round'[h] = round[h]
      /\ pc[g] = "load" /\ UNCHANGED <<generation, waiting>>
  BY <1>2 DEF BarrierTypes, Places, LoadGeneration, GoTo
<1>4. Waiters' = Waiters
  BY <1>1, <1>3 DEF Waiters
<1>5. Members' /\ Rings'
  BY <1>1, <1>3 DEF Members, Rings, InTest
<1>6. Step(g) = 0 /\ Step(g)' = 1 /\ \A h \in Active : h # g => Step(h)' = Step(h)
  BY <1>1, <1>3 DEF Step, Ahead
<1>7. \A h \in Active : round[h] \in Nat /\ Step(h) \in Nat
  BY <1>1, <1>2 DEF BarrierTypes, Step
<1>8. Levels'
  <2> SUFFICES ASSUME NEW h \in Active, NEW i \in Active
               PROVE  round'[h] + Step(i)' = round'[i] + Step(h)'
    BY DEF Levels
  <2>1. round[h] + Step(i) = round[i] + Step(h) /\ round[g] + Step(i) = round[i] + Step(g)
        /\ round[h] + Step(g) = round[g] + Step(h)
    BY DEF Levels
  <2>2. \A j \in Active : round'[j] + Step(j) = round[j] + Step(j)'
    BY <1>1, <1>3, <1>6, <1>7
  <2>3. \A j \in Active : round'[j] \in Nat /\ Step(j)' \in Nat
    BY <1>1, <1>2 DEF BarrierTypes, Step
  <2> DEFINE rh == round[h]  ri == round[i]  rh1 == round'[h]  ri1 == round'[i]
             sh == Step(h)  si == Step(i)  sh1 == Step(h)'  si1 == Step(i)'
  <2>4. /\ rh \in Nat /\ ri \in Nat /\ rh1 \in Nat /\ ri1 \in Nat
        /\ sh \in Nat /\ si \in Nat /\ sh1 \in Nat /\ si1 \in Nat
        /\ rh1 + sh = rh + sh1 /\ ri1 + si = ri + si1 /\ rh + si = ri + sh
    BY <1>7, <2>1, <2>2, <2>3
  <2>5. rh1 + si1 = ri1 + sh1
    <3> HIDE DEF rh, ri, rh1, ri1, sh, si, sh1, si1
    <3> QED  BY <2>4
  <2>6. QED
    BY <2>5
<1>9. \A h \in Active : pc[h] \notin {"reset", "bump"} /\ pc'[h] \notin {"reset", "bump"}
  BY <1>1, <1>3 DEF Arrivals, Waiters
<1>10. Arrivals'
  BY <1>3, <1>4, <1>9 DEF Arrivals
<1>11. QED
  BY <1>2, <1>5, <1>8, <1>10 DEF BarrierInv, TestInv

\* A thread is counted; the last one goes on to release the others.
LEMMA AddBarrier ==
  ASSUME NEW g \in Gpus, BarrierInv, AddWaiting(g)
  PROVE  BarrierInv'
<1> USE ThreadFrame DEF Thread
<1>1. Active \subseteq Gpus
  BY ActiveGpus
<1>2. BarrierTypes /\ BarrierTypes'
  BY DEF BarrierInv, BarrierTypes, Places, AddWaiting, GoTo
<1>3. /\ pc'[g] = (IF LastToArrive THEN "reset" ELSE "spin") /\ waiting' = waiting + 1
      /\ \A h \in Gpus : h # g => pc'[h] = pc[h]
      /\ pc[g] = "add" /\ UNCHANGED <<generation, gen, round>>
  BY <1>2 DEF BarrierTypes, Places, AddWaiting, GoTo
<1>4. gen[g] = generation
  BY <1>3 DEF Rings
<1>5. Members' /\ Rings'
  BY <1>1, <1>3, <1>4 DEF Members, Rings, InTest
<1>6. Step(g) = 1 /\ Step(g)' = 1 /\ \A h \in Active : h # g => Step(h)' = Step(h)
  BY <1>1, <1>3, <1>4 DEF Step, Ahead
<1>7. Levels'
  BY <1>3, <1>6 DEF Levels
<1>8. \A h \in Active : pc[h] \notin {"reset", "bump"}
  BY <1>3 DEF Arrivals, Waiters
<1>9. waiting = Cardinality(Waiters) /\ waiting < count
  BY <1>8 DEF Arrivals
<1>10. IsFiniteSet(Waiters) /\ Waiters \subseteq Active \ {g}
  BY <1>3, WaitersFinite DEF Waiters
<1>11. /\ IsFiniteSet(Active) /\ Cardinality(Active) = count /\ count \in Nat
  BY ActiveGpus
<1>12. CASE LastToArrive
  <2>1. Cardinality(Active \ {g}) = count - 1 /\ IsFiniteSet(Active \ {g})
    BY <1>11, FS_RemoveElement
  <2>2. Cardinality(Waiters) = count - 1
    BY <1>2, <1>9, <1>11, <1>12 DEF LastToArrive, BarrierTypes
  <2>3. Waiters = Active \ {g}
    BY <2>1, <2>2, <1>10, FS_Subset
  <2>4. Waiters' = Waiters
    BY <1>1, <1>3, <1>12 DEF Waiters
  <2>5. waiting' = count
    BY <1>3, <1>12 DEF LastToArrive
  <2>6. Arrivals'
    BY <1>1, <1>3, <1>8, <1>12, <2>3, <2>4, <2>5 DEF Arrivals
  <2>7. QED
    BY <1>2, <1>5, <1>7, <2>6 DEF BarrierInv, TestInv
<1>13. CASE ~LastToArrive
  <2>1. Waiters' = Waiters \cup {g}
    BY <1>1, <1>3, <1>4, <1>13 DEF Waiters
  <2>2. Cardinality(Waiters \cup {g}) = waiting + 1
    BY <1>9, <1>10, FS_AddElement
  <2>3. waiting' < count
    BY <1>2, <1>3, <1>9, <1>11, <1>13 DEF LastToArrive, BarrierTypes
  <2>4. \A h \in Active : pc'[h] \notin {"reset", "bump"}
    BY <1>1, <1>3, <1>8, <1>13
  <2>5. Arrivals'
    BY <1>3, <2>1, <2>2, <2>3, <2>4 DEF Arrivals
  <2>6. QED
    BY <1>2, <1>5, <1>7, <2>5 DEF BarrierInv, TestInv
<1>14. QED
  BY <1>12, <1>13

\* The last thread resets waiting_ and then, all the others spinning, releases
\* them: nobody is counted for the next round yet.
LEMMA ReleaseBarrier ==
  ASSUME NEW g \in Gpus, BarrierInv, Release(g)
  PROVE  BarrierInv'
<1> USE ThreadFrame DEF Thread
<1>1. Active \subseteq Gpus
  BY ActiveGpus
<1>2. BarrierTypes /\ BarrierTypes'
  <2>1. BarrierTypes /\ pc' \in [Gpus -> Places]
    BY DEF BarrierInv, BarrierTypes, Places, Release, GoTo
  <2>2. waiting' \in Nat /\ generation' \in Nat /\ UNCHANGED <<gen, round, phase>>
    BY DEF BarrierInv, BarrierTypes, Release
  <2>3. QED
    BY <2>1, <2>2 DEF BarrierTypes
<1>3. /\ \A h \in Gpus : h # g => pc'[h] = pc[h]
      /\ UNCHANGED <<gen, round>>
      /\ pc[g] \in {"reset", "bump"}
  BY <1>2 DEF BarrierTypes, Places, Release, GoTo
<1>4. \A h \in Active : h # g => pc[h] = "spin" /\ gen[h] = generation
  BY <1>3 DEF Arrivals, Waiters
<1>5. gen[g] = generation
  BY <1>3 DEF Rings
<1>6. CASE pc[g] = "reset"
  <2>1. pc'[g] = "bump" /\ waiting' = 0 /\ generation' = generation
    BY <1>2, <1>6 DEF BarrierTypes, Places, Release, GoTo
  <2>2. Waiters' = Waiters
    BY <1>1, <1>3, <1>6, <2>1 DEF Waiters
  <2>3. Members' /\ Rings'
    BY <1>1, <1>3, <1>5, <2>1 DEF Members, Rings, InTest
  <2>4. \A h \in Active : Step(h)' = Step(h)
    BY <1>1, <1>3, <1>6, <2>1 DEF Step, Ahead
  <2>5. Levels'
    BY <1>3, <2>4 DEF Levels
  <2>6. Arrivals'
    BY <1>1, <1>3, <1>4, <1>6, <2>1, <2>2 DEF Arrivals, Waiters
  <2>7. QED
    BY <1>2, <2>3, <2>5, <2>6 DEF BarrierInv, TestInv
<1>7. CASE pc[g] = "bump"
  <2>1. pc'[g] = "work" /\ waiting' = waiting /\ generation' = generation + 1
    BY <1>2, <1>7 DEF BarrierTypes, Places, Release, GoTo
  <2>2. waiting = 0
    BY <1>7 DEF Arrivals
  <2>3. generation # generation + 1
    BY <1>2 DEF BarrierTypes
  <2>4. Waiters' = {}
    BY <1>1, <1>3, <1>4, <2>1, <2>3 DEF Waiters
  <2>5. Members' /\ Rings'
    BY <1>1, <1>3, <1>4, <2>1 DEF Members, Rings, InTest
  <2>6. \A h \in Active : Step(h)' = 0 /\ Step(h) = 1
    BY <1>1, <1>3, <1>4, <1>7, <2>1, <2>3 DEF Step, Ahead
  <2>7. \A h \in Active : round[h] \in Nat
    BY <1>1, <1>2 DEF BarrierTypes
  <2>8. Levels'
    BY <1>3, <2>6, <2>7 DEF Levels
  <2>9. \A h \in Active : pc'[h] \notin {"reset", "bump"}
    BY <1>1, <1>3, <1>4, <2>1
  <2>10. waiting' < count
    BY <2>1, <2>2, ActiveGpus
  <2>11. Arrivals'
    BY <2>1, <2>2, <2>4, <2>9, <2>10, FS_EmptySet DEF Arrivals
  <2>12. QED
    BY <1>2, <2>5, <2>8, <2>11 DEF BarrierInv, TestInv
<1>8. QED
  BY <1>3, <1>6, <1>7

\* A released thread leaves the barrier, works, and comes back or is joined.
LEMMA LeaveBarrier ==
  ASSUME NEW g \in Gpus, BarrierInv, Spin(g) \/ Work(g)
  PROVE  BarrierInv'
<1> USE ThreadFrame DEF Thread
<1>1. Active \subseteq Gpus
  BY ActiveGpus
<1>2. BarrierTypes /\ BarrierTypes'
  BY DEF BarrierInv, BarrierTypes, Places, Spin, Work, GoTo, barrierVars
<1>3. /\ pc[g] = "work" \/ (pc[g] = "spin" /\ gen[g] # generation)
      /\ pc'[g] \in {"work", "load", "joined"}
      /\ \A h \in Gpus : h # g => pc'[h] = pc[h]
      /\ UNCHANGED <<generation, gen, round, waiting>>
  <2>1. CASE Spin(g)
    BY <1>2, <2>1 DEF BarrierTypes, Spin, GoTo, barrierVars
  <2>2. CASE Work(g)
    BY <1>2, <2>2 DEF BarrierTypes, Work, GoTo, barrierVars
  <2>3. QED
    BY <2>1, <2>2
<1>4. Waiters' = Waiters
  BY <1>1, <1>3 DEF Waiters
<1>5. Members' /\ Rings'
  BY <1>1, <1>3 DEF Members, Rings, InTest
<1>6. \A h \in Active : Step(h)' = Step(h)
  BY <1>1, <1>3 DEF Step, Ahead
<1>7. Levels'
  BY <1>3, <1>6 DEF Levels
<1>8. \A h \in Active : pc[h] \notin {"reset", "bump"} /\ pc'[h] \notin {"reset", "bump"}
  BY <1>1, <1>3 DEF Arrivals, Waiters
<1>9. Arrivals'
  BY <1>3, <1>4, <1>8 DEF Arrivals
<1>10. QED
  BY <1>2, <1>5, <1>7, <1>9 DEF BarrierInv, TestInv

\* main starts a test: a thread for each active GPU, nobody at the barrier.
LEMMA StartBarrier ==
  ASSUME BarrierInv, StartPhase
  PROVE  BarrierInv'
<1>1. BarrierTypes /\ phase' \in 1..Len(PhaseSizes) /\ Parallel'
  BY MultiGpuAssumption DEF BarrierInv, BarrierTypes, StartPhase, Parallel
<1>2. BarrierTypes'
  BY <1>1 DEF BarrierTypes, Places, StartPhase
<1>3. \A g \in Gpus : pc'[g] = IF g \in Active' THEN "load" ELSE "ready"
  BY DEF StartPhase, Active
<1>4. (phase \in 1..Len(PhaseSizes) => Active \subseteq Gpus /\ PhaseSizes[phase] \in 1..NumGpus)'
  BY ActiveGpus, PTL
<1>5. Active' \subseteq Gpus /\ PhaseSizes[phase'] \in 1..NumGpus
  BY <1>1, <1>4
<1>6. Members' /\ Rings'
  BY <1>3, <1>5 DEF Members, Rings, InTest
<1>7. \A g \in Active' : Step(g)' = 0 /\ round'[g] = 0
  BY <1>3, <1>5 DEF Step, Ahead, StartPhase
<1>8. Levels'
  BY <1>7 DEF Levels
<1>9. Waiters' = {} /\ \A g \in Active' : pc'[g] \notin {"reset", "bump"}
  BY <1>3, <1>5 DEF Waiters
<1>10. count' = PhaseSizes[phase'] /\ waiting' = 0
  BY DEF StartPhase
<1>11. Arrivals'
  BY <1>5, <1>9, <1>10, FS_EmptySet DEF Arrivals
<1>12. QED
  BY <1>1, <1>2, <1>6, <1>8, <1>10, <1>11 DEF BarrierInv, TestInv

\* main has joined all threads: nobody is left in a test.
LEMMA EndBarrier ==
  ASSUME BarrierInv, EndPhase
  PROVE  BarrierInv'
<1>1. BarrierTypes /\ phase \in 1..Len(PhaseSizes)
  BY MultiGpuAssumption DEF BarrierInv, BarrierTypes, EndPhase
<1>2. 0 \in Active /\ Active \subseteq Gpus /\ InTest(0)
  BY <1>1, ActiveGpus DEF EndPhase, InTest
<1>3. Members
  BY <1>2 DEF BarrierInv, TestInv
<1>4. \A g \in Gpus : pc'[g] = "ready"
  BY <1>3 DEF EndPhase, Members
<1>5. BarrierTypes'
  BY <1>1, <1>4 DEF BarrierTypes, Places, EndPhase, barrierVars
<1>6. QED
  BY <1>4, <1>5 DEF BarrierInv, InTest

\* Outside the tests: no poller is set up, torn down or created while a thread
\* is in one, because main does all that and is waiting for the threads.
LEMMA OtherBarrier ==
  ASSUME BarrierInv,
         \/ \E g \in Gpus : Life(g) \/ CreateAgain(g)
         \/ Exit
  PROVE  BarrierInv'
<1>1. \A g \in Gpus : ~InTest(g)
  <2> SUFFICES ASSUME NEW g \in Gpus, InTest(g)
               PROVE  FALSE
    OBVIOUS
  <2>1. TestInv /\ Members /\ Parallel
    BY DEF BarrierInv, TestInv
  <2>2. 0 \in Active /\ 0 \in Gpus
    BY <2>1, ActiveGpus DEF TestInv
  <2>3. InTest(0)
    BY <2>1, <2>2 DEF Members
  <2>4. ~Exit
    BY <2>2, <2>3 DEF Exit, InTest
  <2>5. PICK h \in Gpus : Life(h) \/ CreateAgain(h)
    BY <2>4
  <2>6. pc[h] = "ready"
    BY <2>1, <2>5 DEF Members, InTest, Life, CreateAgain, CreateSession, CreatePoller,
         CreateDirect, PoolInit, CheckPool, AcquireBuffers, GetBuffers, AllocateOwn,
         Run, Stop, CleanUp, Destroy, Shutdown
  <2>7. CleanUp(h)
    BY <2>1, <2>5, <2>6 DEF Life, CreateAgain, CreateSession, CreatePoller,
         CreateDirect, PoolInit, CheckPool, AcquireBuffers, GetBuffers, AllocateOwn,
         Run, Stop, Destroy, Shutdown
  <2>8. 0 < h
    BY <2>3, <2>6, TopologyAssumption DEF InTest, Gpus
  <2>9. pc[0] = "gone"
    BY <2>1, <2>2, <2>7, <2>8 DEF CleanUp, Turn
  <2>10. QED
    BY <2>3, <2>9 DEF InTest
<1>2. BarrierTypes
  BY DEF BarrierInv
<1>3. /\ BarrierTypes'
      /\ \A g \in Gpus : pc'[g] # pc[g] =>
           pc'[g] \in {"init", "closing", "check", "acquire", "own", "get", "ready",
                       "running", "stopped", "gone", "new", "ended"}
  <2>1. CASE Exit
    BY <1>2, <2>1 DEF BarrierTypes, Places, Exit, barrierVars
  <2>2. ASSUME NEW g \in Gpus, Life(g) \/ CreateAgain(g)
        PROVE  <1>3!:
    BY <1>2, <2>2 DEF BarrierTypes, Places, barrierVars, GoTo, Life, CreateAgain, CreateSession,
         CreatePoller, CreateDirect, PoolInit, CheckPool, AcquireBuffers, GetBuffers,
         AllocateOwn, Run, Stop, CleanUp, Destroy, Shutdown
  <2>3. QED
    BY <2>1, <2>2
<1>4. QED
  BY <1>1, <1>3 DEF BarrierInv, InTest

\* The barrier invariant holds in every state of the benchmarks: all threads of
\* a test are in the same round, give or take the barrier they are passing.
THEOREM BarrierInvariant == Spec => []BarrierInv
<1>1. Init => BarrierInv
  BY MultiGpuAssumption DEF Init, BarrierInv, BarrierTypes, Places, InTest
<1>2. BarrierInv /\ [Next]_vars => BarrierInv'
  <2> SUFFICES ASSUME BarrierInv, [Next]_vars
               PROVE  BarrierInv'
    OBVIOUS
  <2>1. ASSUME NEW g \in Gpus, Thread(g)
        PROVE  BarrierInv'
    BY <2>1, LoadBarrier, AddBarrier, ReleaseBarrier, LeaveBarrier DEF Thread
  <2>2. CASE UNCHANGED vars \/ Ended
    <3>1. UNCHANGED <<program, pc, waiting, generation, count, gen, round, phase>>
      BY <2>2 DEF Ended, vars, lifeVars, barrierVars
    <3>2. QED
      BY <3>1 DEF BarrierInv, BarrierTypes, TestInv, Parallel, Members, Rings, Levels,
           Arrivals, Waiters, Active, InTest, Step, Ahead
  <2>3. QED
    BY <2>1, <2>2, OtherBarrier, StartBarrier, EndBarrier DEF Next
<1>3. QED
  BY <1>1, <1>2, PTL DEF Spec

\* The threads of a benchmark are in the same round when they work, for every
\* number of GPUs, tests and rounds: nobody passes the SpinBarrier before
\* everybody has arrived.
THEOREM BarrierHolds == Spec => []RoundsTogether
<1>1. BarrierInv => RoundsTogether
  <2> SUFFICES ASSUME BarrierInv, NEW g \in Gpus, pc[g] = "work", NEW h \in Active
               PROVE  \/ round[h] = round[g] /\ pc[h] # "add"
                      \/ round[h] = round[g] + 1 /\ pc[h] \in {"add", "spin"}
    BY DEF RoundsTogether
  <2>1. TestInv /\ InTest(g)
    BY DEF BarrierInv, InTest
  <2>2. g \in Active /\ Active \subseteq Gpus
    BY <2>1, ActiveGpus DEF TestInv, Members, InTest
  <2>3. Step(g) = 0
    BY DEF Step, Ahead
  <2>4. round[g] + Step(h) = round[h] + 0
    BY <2>1, <2>2, <2>3 DEF TestInv, Levels
  <2>5. round[g] \in Nat /\ round[h] \in Nat
    BY <2>2 DEF BarrierInv, BarrierTypes
  <2>6. pc[h] \notin {"reset", "bump"}
    BY <2>1, <2>2 DEF TestInv, Arrivals, Waiters
  <2>7. QED
    BY <2>4, <2>5, <2>6 DEF Step, Ahead
<1>2. QED
  BY <1>1, BarrierInvariant, PTL

-----------------------------------------------------------------------------
(* The staging buffers: the inductive invariant *)

Memories == [epoch : Nat, slot : Gpus, buf : 0..BUFS_PER_SET, huge : BOOLEAN]

PoolTypes ==
  /\ set \in [Gpus -> {NoSet, 0}] /\ bufs \in [Gpus -> Seq(Memories)]
  /\ epoch \in Nat /\ pool_bufs \in [1..BUFS_PER_SET -> Memories]
  /\ initialized \in BOOLEAN /\ hugepage \in BOOLEAN /\ in_use \in BOOLEAN
  /\ live \subseteq Memories \ {NoMemory} /\ early \in BOOLEAN

\* The poller has no buffers: not yet, or not any more.
Bare(g) == \/ pc[g] \in {"new", "init", "check", "acquire", "own", "gone", "ended"}
           \/ pc[g] = "closing" /\ program[g] = "tiled"

\* Where the pollers have buffers.
PlaceOK(g) == /\ Bare(g) => set[g] = NoSet /\ bufs[g] = <<>>
              /\ pc[g] = "get" => set[g] # NoSet /\ bufs[g] = <<>>
PlaceInv == \A g \in Gpus : PlaceOK(g)

\* A poller's own buffers are allocated, and nobody else's.
Mine(g, m) == m \in live /\ m.epoch = 0 /\ m.slot = g /\ m # NoMemory
OwnInv == \A g \in Gpus : set[g] = NoSet =>
            \A b \in 1..Len(bufs[g]) : Mine(g, bufs[g][b])

\* A poller that holds the pool's set, unless the pool was shut down under it.
Holder(g) == set[g] # NoSet /\ g \notin pulled
HolderInv == \A g \in Gpus : Holder(g) =>
               initialized /\ (pc[g] # "get" => bufs[g] = pool_bufs)

\* The buffers of an initialised pool.
SetOK(m) == /\ m \in live /\ m.epoch = epoch
            /\ m.huge = hugepage \/ epoch \in mixed
PoolInv == initialized =>
             /\ epoch > 0
             /\ \A b \in 1..BUFS_PER_SET : IF pool_bufs[b] = NoMemory
                                             THEN epoch \in partial ELSE SetOK(pool_bufs[b])

\* As long as the pool was not shut down early, one poller holds its set and
\* the flag says so.
AloneInv == ~early => /\ pulled = {}
                      /\ \A g \in Gpus : set[g] # NoSet =>
                           in_use /\ \A h \in Gpus \ {g} : set[h] = NoSet

\* Whatever is allocated has somebody who will free it, or cannot be freed by
\* the pool, which remembers one sort of memory for its whole set.
Owned(m) == \/ \E g \in Gpus : set[g] = NoSet /\ \E b \in 1..Len(bufs[g]) : bufs[g][b] = m
            \/ initialized /\ \E b \in 1..BUFS_PER_SET : pool_bufs[b] = m
            \/ m.epoch \in mixed
LiveInv == \A m \in live : Owned(m)

EndInv == (\E g \in Gpus : pc[g] = "ended") =>
            ~initialized /\ \A g \in Gpus : pc[g] = "ended"

BuffersInv == /\ PoolTypes /\ PlaceInv /\ OwnInv /\ HolderInv
              /\ PoolInv /\ AloneInv /\ LiveInv /\ EndInv

-----------------------------------------------------------------------------
(* The staging buffers: every step preserves the invariant *)

\* What allocating a set of buffers yields.
LEMMA MemoryOf ==
  ASSUME NEW e \in Nat, NEW s \in Gpus, NEW a \in Allocations
  PROVE  /\ a \in Seq(BOOLEAN) /\ Len(a) \in 0..BUFS_PER_SET
         /\ Memory(e, s, a) \in [1..BUFS_PER_SET -> Memories]
         /\ \A b \in 1..BUFS_PER_SET :
              IF b <= Len(a)
                THEN /\ Memory(e, s, a)[b].epoch = e /\ Memory(e, s, a)[b].slot = s
                     /\ Memory(e, s, a)[b].huge = a[b] /\ Memory(e, s, a)[b] # NoMemory
                ELSE Memory(e, s, a)[b] = NoMemory
         /\ Allocated(Memory(e, s, a)) = {Memory(e, s, a)[b] : b \in 1..Len(a)}
<1>1. a \in Seq(BOOLEAN) /\ Len(a) \in 0..BUFS_PER_SET /\ BUFS_PER_SET \in Nat
  BY MultiGpuAssumption
<1>2. \A b \in 1..Len(a) : a[b] \in BOOLEAN
  BY <1>1, ElementOfSeq
<1>3. 0 \in Gpus
  BY TopologyAssumption DEF Gpus
<1>4. NoMemory \in Memories
  BY <1>1, <1>3 DEF NoMemory, Memories
<1>5. ASSUME NEW b \in 1..BUFS_PER_SET, b <= Len(a)
      PROVE  /\ Memory(e, s, a)[b] = [epoch |-> e, slot |-> s, buf |-> b, huge |-> a[b]]
             /\ Memory(e, s, a)[b] \in Memories /\ Memory(e, s, a)[b] # NoMemory
  <2>1. Memory(e, s, a)[b] = [epoch |-> e, slot |-> s, buf |-> b, huge |-> a[b]]
    BY <1>5 DEF Memory
  <2>2. a[b] \in BOOLEAN /\ b \in 0..BUFS_PER_SET /\ b # 0
    BY <1>1, <1>2, <1>5
  <2>3. QED
    BY <2>1, <2>2 DEF Memories, NoMemory
<1>6. ASSUME NEW b \in 1..BUFS_PER_SET, ~(b <= Len(a))
      PROVE  Memory(e, s, a)[b] = NoMemory
  BY <1>6 DEF Memory
<1>7. Memory(e, s, a) \in [1..BUFS_PER_SET -> Memories]
  BY <1>4, <1>5, <1>6 DEF Memory
<1>8. Allocated(Memory(e, s, a)) = {Memory(e, s, a)[b] : b \in 1..Len(a)}
  <2>1. DOMAIN Memory(e, s, a) = 1..BUFS_PER_SET
    BY DEF Memory
  <2>2. \A b \in 1..Len(a) : b \in 1..BUFS_PER_SET /\ b <= Len(a)
    BY <1>1
  <2>3. \A b \in 1..BUFS_PER_SET : b <= Len(a) => b \in 1..Len(a)
    BY <1>1
  <2>4. QED
    BY <1>5, <1>6, <2>1, <2>2, <2>3 DEF Allocated
<1>9. QED
  BY <1>1, <1>5, <1>6, <1>7, <1>8

\* The buffers a poller allocates itself: as many as it counts.
LEMMA CountedOf ==
  ASSUME NEW s \in Gpus, NEW a \in Allocations
  PROVE  /\ Counted(s, a) \in Seq(Memories) /\ Len(Counted(s, a)) = Len(a)
         /\ \A b \in 1..Len(a) : Counted(s, a)[b] = Memory(0, s, a)[b]
<1>1. /\ Memory(0, s, a) \in [1..BUFS_PER_SET -> Memories]
      /\ Len(a) \in 0..BUFS_PER_SET /\ BUFS_PER_SET \in Nat
  BY MemoryOf, MultiGpuAssumption
<1>2. Memory(0, s, a) \in Seq(Memories) /\ Len(Memory(0, s, a)) = BUFS_PER_SET
  BY <1>1
<1>3. QED
  BY <1>1, <1>2, SubSeqProperties DEF Counted

\* Once one poller is gone for good, all are.
LEMMA NotEnded ==
  ASSUME BuffersInv, NEW g \in Gpus, pc[g] # "ended"
  PROVE  \A h \in Gpus : pc[h] # "ended"
BY DEF BuffersInv, EndInv

\* Steps that leave the buffers alone.
LEMMA BuffersMove ==
  ASSUME BuffersInv,
         UNCHANGED <<set, bufs, poolVars, live, historyVars>>,
         \A g \in Gpus : /\ Bare(g)' => Bare(g)
                         /\ pc'[g] = "get" <=> pc[g] = "get"
                         /\ pc'[g] # "ended"
  PROVE  BuffersInv'
<1>1. UNCHANGED <<set, bufs, initialized, epoch, pool_bufs, hugepage, in_use, live,
                  pulled, early, mixed, partial>>
  BY DEF poolVars, historyVars
<1>2. PoolTypes' /\ OwnInv' /\ PoolInv' /\ AloneInv' /\ LiveInv'
  BY <1>1 DEF BuffersInv, PoolTypes, OwnInv, Mine, PoolInv, SetOK, AloneInv, LiveInv,
       Owned
<1>3. PlaceInv' /\ HolderInv' /\ EndInv'
  BY <1>1 DEF BuffersInv, PlaceInv, PlaceOK, HolderInv, Holder, EndInv
<1>4. QED
  BY <1>2, <1>3 DEF BuffersInv

\* Steps of one poller, or of main, that change only where the pollers are.
LEMMA PlainSteps ==
  ASSUME BarrierInv, BuffersInv,
         \/ \E g \in Gpus : \/ CreateSession(g) \/ CreatePoller(g) \/ CreateDirect(g)
                            \/ CheckPool(g) \/ Run(g) \/ Stop(g) \/ CleanUp(g)
                            \/ CreateAgain(g) \/ Thread(g)
         \/ StartPhase \/ EndPhase
  PROVE  BuffersInv'
<1>1. pc \in [Gpus -> Places]
  BY DEF BarrierInv, BarrierTypes
<1>2. UNCHANGED <<program, set, bufs, poolVars, live, historyVars>>
  BY DEF CreateSession, CreatePoller, CreateDirect, CheckPool, Run, Stop, CleanUp,
       CreateAgain, Thread, LoadGeneration, AddWaiting, Release, Spin, Work, StartPhase,
       EndPhase, vars, lifeVars
<1>3. CASE StartPhase
  BY <1>2, <1>3, BuffersMove DEF StartPhase, Bare
<1>4. CASE EndPhase
  <2>1. BarrierTypes /\ phase \in 1..Len(PhaseSizes)
    BY <1>4, MultiGpuAssumption DEF BarrierInv, BarrierTypes, EndPhase
  <2>2. 0 \in Gpus /\ pc[0] # "ended"
    BY <1>4, <2>1, ActiveGpus DEF EndPhase
  <2>3. \A g \in Gpus : pc[g] # "ended"
    BY <2>2, NotEnded
  <2>4. \A g \in Gpus : pc'[g] = pc[g] \/ (pc[g] = "joined" /\ pc'[g] = "ready")
    BY <1>4 DEF EndPhase
  <2>5. QED
    BY <1>2, <2>3, <2>4, BuffersMove DEF Bare
<1>5. ASSUME NEW g \in Gpus,
             \/ CreateSession(g) \/ CreatePoller(g) \/ CreateDirect(g)
             \/ CheckPool(g) \/ Run(g) \/ Stop(g) \/ CleanUp(g)
             \/ CreateAgain(g) \/ Thread(g)
      PROVE  BuffersInv'
  <2>1. \A h \in Gpus : h # g => pc'[h] = pc[h]
    BY <1>1, <1>5 DEF GoTo, CreateSession, CreatePoller, CreateDirect, CheckPool, Run,
         Stop, CleanUp, CreateAgain, Thread, LoadGeneration, AddWaiting, Release, Spin,
         Work
  <2>2. /\ pc[g] # "ended" /\ pc'[g] # "ended" /\ pc[g] # "get" /\ pc'[g] # "get"
        /\ Bare(g)' => Bare(g)
    <3>1. CASE \/ CreateSession(g) \/ CreatePoller(g) \/ CreateDirect(g)
               \/ CheckPool(g) \/ CreateAgain(g)
      BY <1>1, <1>2, <3>1 DEF GoTo, CreateSession, CreatePoller, CreateDirect,
           CheckPool, CreateAgain, Bare
    <3>2. CASE Run(g) \/ Stop(g) \/ CleanUp(g)
      BY <1>1, <1>2, <3>2 DEF GoTo, Run, Stop, CleanUp, Bare
    <3>3. CASE Thread(g)
      BY <1>1, <1>2, <3>3 DEF GoTo, Thread, LoadGeneration, AddWaiting, Release, Spin,
           Work, Bare
    <3>4. QED
      BY <1>5, <3>1, <3>2, <3>3
  <2>3. \A h \in Gpus : pc[h] # "ended"
    BY <2>2, NotEnded
  <2>4. QED
    BY <1>2, <2>1, <2>2, <2>3, BuffersMove DEF Bare
<1>6. QED
  BY <1>3, <1>4, <1>5

\* StagingPool::init: a new set for a pool nobody holds.
LEMMA PoolInitStep ==
  ASSUME BarrierInv, BuffersInv, NEW g \in Gpus, PoolInit(g)
  PROVE  BuffersInv'
<1>1. /\ pc[g] = "init" /\ pc'[g] = "check" /\ \A h \in Gpus : h # g => pc'[h] = pc[h]
  BY DEF BarrierInv, BarrierTypes, PoolInit, GoTo
<1>2. \A h \in Gpus : pc[h] # "ended"
  BY <1>1, NotEnded
<1>3. UNCHANGED <<program, set, bufs, pulled, early>>
  BY DEF PoolInit
<1>4. \A h \in Gpus : (Bare(h)' => Bare(h)) /\ (pc'[h] = "get" <=> pc[h] = "get")
                      /\ pc'[h] # "ended"
  BY <1>1, <1>2, <1>3 DEF Bare
<1>5. CASE initialized
  <2>1. UNCHANGED <<set, bufs, poolVars, live, historyVars>>
    BY <1>5, <1>3 DEF PoolInit, historyVars
  <2>2. QED
    BY <1>4, <2>1, BuffersMove
<1>6. CASE ~initialized
  <2>1. PICK a \in Allocations :
          /\ initialized' = TRUE /\ epoch' = epoch + 1 /\ in_use' = FALSE
          /\ pool_bufs' = Memory(epoch + 1, 0, a)
          /\ hugepage' = IF a = <<>> THEN hugepage ELSE a[Len(a)]
          /\ live' = live \cup Allocated(Memory(epoch + 1, 0, a))
          /\ mixed' = IF \E i, j \in 1..Len(a) : a[i] # a[j]
                        THEN mixed \cup {epoch + 1} ELSE mixed
          /\ partial' = IF Len(a) < BUFS_PER_SET
                          THEN partial \cup {epoch + 1} ELSE partial
    BY <1>6 DEF PoolInit
  <2>2. PoolTypes /\ PlaceInv /\ OwnInv /\ HolderInv /\ AloneInv /\ LiveInv
    BY DEF BuffersInv
  <2>3. 0 \in Gpus /\ epoch + 1 \in Nat /\ epoch + 1 > 0
    BY <2>2, TopologyAssumption DEF PoolTypes, Gpus
  <2>4. /\ a \in Seq(BOOLEAN) /\ Len(a) \in 0..BUFS_PER_SET
        /\ pool_bufs' \in [1..BUFS_PER_SET -> Memories]
        /\ \A b \in 1..BUFS_PER_SET :
              IF b <= Len(a)
                THEN /\ pool_bufs'[b].epoch = epoch + 1
                     /\ pool_bufs'[b].huge = a[b] /\ pool_bufs'[b] # NoMemory
                ELSE pool_bufs'[b] = NoMemory
        /\ live' = live \cup {pool_bufs'[b] : b \in 1..Len(a)}
    <3> DEFINE m == Memory(epoch + 1, 0, a)
    <3>1. /\ a \in Seq(BOOLEAN) /\ Len(a) \in 0..BUFS_PER_SET
          /\ m \in [1..BUFS_PER_SET -> Memories]
          /\ \A b \in 1..BUFS_PER_SET :
                IF b <= Len(a)
                  THEN /\ m[b].epoch = epoch + 1 /\ m[b].slot = 0
                       /\ m[b].huge = a[b] /\ m[b] # NoMemory
                  ELSE m[b] = NoMemory
          /\ Allocated(m) = {m[b] : b \in 1..Len(a)}
      BY <2>3, MemoryOf, Zenon
    <3>2. pool_bufs' = m /\ live' = live \cup Allocated(m)
      BY <2>1
    <3> HIDE DEF m
    <3>3. live' = live \cup {pool_bufs'[b] : b \in 1..Len(a)}
      BY <3>1, <3>2
    <3>4. \A b \in 1..BUFS_PER_SET :
            IF b <= Len(a)
              THEN /\ pool_bufs'[b].epoch = epoch + 1
                   /\ pool_bufs'[b].huge = a[b] /\ pool_bufs'[b] # NoMemory
              ELSE pool_bufs'[b] = NoMemory
      BY <3>1, <3>2
    <3>5. QED
      BY <3>1, <3>2, <3>3, <3>4
  <2>5. BUFS_PER_SET \in Nat
    BY MultiGpuAssumption
  <2>6. \A b \in 1..Len(a) : /\ b \in 1..BUFS_PER_SET /\ b <= Len(a)
                             /\ a # <<>> /\ Len(a) \in 1..Len(a) /\ a[b] \in BOOLEAN
    BY <2>4, <2>5, ElementOfSeq
  <2>7. PoolTypes'
    <3>1. hugepage' \in BOOLEAN
      <4>1. CASE a = <<>>
        BY <2>1, <2>2, <4>1 DEF PoolTypes
      <4>2. CASE a # <<>>
        <5>1. Len(a) \in 1..Len(a)
          BY <2>4, <4>2, EmptySeq
        <5>2. QED
          BY <2>1, <2>6, <4>2, <5>1
      <4>3. QED
        BY <4>1, <4>2
    <3>2. live' \subseteq Memories \ {NoMemory}
      BY <2>2, <2>4, <2>6 DEF PoolTypes
    <3>3. QED
      BY <1>3, <2>1, <2>2, <2>3, <2>4, <3>1, <3>2 DEF PoolTypes
  <2>8. PlaceInv'
    BY <1>3, <1>4, <2>2 DEF PlaceInv, PlaceOK
  <2>9. OwnInv'
    BY <1>3, <2>2, <2>4 DEF OwnInv, Mine
  <2>10. \A h \in Gpus : ~Holder(h)
    BY <1>6, <2>2 DEF HolderInv
  <2>11. HolderInv'
    BY <1>3, <2>10 DEF HolderInv, Holder
  <2>12. PoolInv'
    <3> SUFFICES ASSUME NEW b \in 1..BUFS_PER_SET
                 PROVE  IF pool_bufs'[b] = NoMemory THEN epoch' \in partial'
                                                    ELSE SetOK(pool_bufs[b])'
      BY <2>1, <2>3 DEF PoolInv
    <3>1. CASE b <= Len(a)
      <4>1. b \in 1..Len(a) /\ pool_bufs'[b] # NoMemory
        BY <2>4, <3>1
      <4>2. pool_bufs'[b] \in live' /\ pool_bufs'[b].epoch = epoch'
        BY <2>1, <2>4, <3>1, <4>1
      <4>3. hugepage' = a[Len(a)] /\ pool_bufs'[b].huge = a[b] /\ Len(a) \in 1..Len(a)
        BY <2>1, <2>4, <2>6, <3>1, <4>1
      <4>4. pool_bufs'[b].huge = hugepage' \/ epoch' \in mixed'
        BY <2>1, <4>1, <4>3
      <4>5. QED
        BY <4>1, <4>2, <4>4 DEF SetOK
    <3>2. CASE ~(b <= Len(a))
      <4>1. pool_bufs'[b] = NoMemory
        BY <2>4, <3>2
      <4>2. Len(a) < BUFS_PER_SET
        BY <2>4, <2>5, <3>2
      <4>3. epoch' \in partial'
        BY <2>1, <4>2
      <4>4. QED
        BY <4>1, <4>3
    <3>3. QED
      BY <3>1, <3>2
  <2>13. AloneInv'
    <3>1. ~early => \A h \in Gpus : set[h] = NoSet
      BY <2>2, <2>10 DEF AloneInv, Holder
    <3>2. QED
      BY <1>3, <2>2, <3>1 DEF AloneInv
  <2>14. LiveInv'
    <3> SUFFICES ASSUME NEW m \in live'
                 PROVE  Owned(m)'
      BY DEF LiveInv
    <3>1. CASE m \in live
      BY <1>3, <1>6, <2>1, <2>2, <3>1 DEF LiveInv, Owned
    <3>2. CASE \E b \in 1..Len(a) : m = pool_bufs'[b]
      BY <2>1, <2>6, <3>2 DEF Owned
    <3>3. QED
      BY <2>4, <3>1, <3>2
  <2>15. EndInv'
    BY <1>4 DEF EndInv
  <2>16. QED
    BY <2>7, <2>8, <2>9, <2>11, <2>12, <2>13, <2>14, <2>15 DEF BuffersInv
<1>7. QED
  BY <1>5, <1>6

\* acquire_buffers: the set goes to one poller, or that poller makes its own.
LEMMA AcquireStep ==
  ASSUME BarrierInv, BuffersInv, NEW g \in Gpus, AcquireBuffers(g)
  PROVE  BuffersInv'
<1>1. /\ pc[g] = "acquire" /\ \A h \in Gpus : h # g => pc'[h] = pc[h]
      /\ pc'[g] = IF SetFree(g) THEN "get" ELSE "own"
  BY DEF BarrierInv, BarrierTypes, AcquireBuffers, GoTo
<1>2. \A h \in Gpus : pc[h] # "ended"
  BY <1>1, NotEnded
<1>3. UNCHANGED <<program, bufs, initialized, epoch, pool_bufs, hugepage, live, pulled,
                  early, mixed, partial>>
  BY DEF AcquireBuffers, historyVars
<1>4. set[g] = NoSet /\ bufs[g] = <<>>
  BY <1>1 DEF BuffersInv, PlaceInv, PlaceOK, Bare
<1>5. CASE ~SetFree(g)
  <2>1. UNCHANGED <<set, bufs, poolVars, live, historyVars>>
    BY <1>5 DEF AcquireBuffers, poolVars
  <2>2. \A h \in Gpus : (Bare(h)' => Bare(h)) /\ (pc'[h] = "get" <=> pc[h] = "get")
                        /\ pc'[h] # "ended"
    BY <1>1, <1>2, <1>3, <1>5 DEF Bare
  <2>3. QED
    BY <2>1, <2>2, BuffersMove
<1>6. CASE SetFree(g)
  <2>1. PoolTypes /\ PlaceInv /\ OwnInv /\ HolderInv /\ PoolInv /\ AloneInv /\ LiveInv
    BY DEF BuffersInv
  <2>2. /\ set'[g] = 0 /\ \A h \in Gpus : h # g => set'[h] = set[h]
        /\ in_use' = TRUE /\ initialized /\ ~in_use /\ pc'[g] = "get"
        /\ set' \in [Gpus -> {NoSet, 0}]
    BY <1>1, <1>6, <2>1 DEF AcquireBuffers, SetFree, PoolTypes
  <2>3. PoolTypes'
    BY <1>3, <2>1, <2>2 DEF PoolTypes
  <2>4. PlaceInv'
    BY <1>1, <1>3, <1>4, <2>1, <2>2 DEF PlaceInv, PlaceOK, Bare, NoSet
  <2>5. OwnInv'
    BY <1>3, <2>1, <2>2 DEF OwnInv, Mine, NoSet
  <2>6. HolderInv'
    BY <1>1, <1>3, <2>1, <2>2 DEF HolderInv, Holder
  <2>7. PoolInv'
    BY <1>3, <2>1 DEF PoolInv, SetOK
  <2>8. AloneInv'
    BY <1>3, <2>1, <2>2 DEF AloneInv
  <2>9. LiveInv'
    <3> SUFFICES ASSUME NEW m \in live
                 PROVE  Owned(m)'
      BY <1>3 DEF LiveInv
    <3>1. Owned(m)
      BY <2>1 DEF LiveInv
    <3>2. Len(bufs[g]) = 0
      BY <1>4
    <3>3. \A h \in Gpus, b \in Nat : set[h] = NoSet /\ b \in 1..Len(bufs[h]) => set'[h] = NoSet
      BY <2>2, <3>2
    <3>4. QED
      BY <1>3, <3>1, <3>3 DEF Owned
  <2>10. EndInv'
    BY <1>1, <1>2, <2>2 DEF EndInv
  <2>11. QED
    BY <2>3, <2>4, <2>5, <2>6, <2>7, <2>8, <2>9, <2>10 DEF BuffersInv
<1>7. QED
  BY <1>5, <1>6

\* get_buffers: the holder takes over the set's pointers.
LEMMA GetStep ==
  ASSUME BarrierInv, BuffersInv, NEW g \in Gpus, GetBuffers(g)
  PROVE  BuffersInv'
<1>1. /\ pc[g] = "get" /\ \A h \in Gpus : h # g => pc'[h] = pc[h]
      /\ pc'[g] = "ready"
  BY DEF BarrierInv, BarrierTypes, GetBuffers, GoTo
<1>2. \A h \in Gpus : pc[h] # "ended"
  BY <1>1, NotEnded
<1>3. UNCHANGED <<program, set, initialized, epoch, pool_bufs, hugepage, in_use, live,
                  pulled, early, mixed, partial>>
  BY DEF GetBuffers, poolVars, historyVars
<1>4. PoolTypes /\ PlaceInv /\ OwnInv /\ HolderInv /\ PoolInv /\ AloneInv /\ LiveInv
  BY DEF BuffersInv
<1>5. set[g] # NoSet
  BY <1>1, <1>4 DEF PlaceInv, PlaceOK
<1>6. bufs'[g] = pool_bufs /\ \A h \in Gpus : h # g => bufs'[h] = bufs[h]
  BY <1>4 DEF GetBuffers, PoolTypes
<1>7. PoolTypes'
  <2>1. pool_bufs \in Seq(Memories)
    BY <1>4, MultiGpuAssumption DEF PoolTypes
  <2>2. bufs' \in [Gpus -> Seq(Memories)]
    BY <1>4, <2>1 DEF GetBuffers, PoolTypes
  <2>3. QED
    BY <1>3, <1>4, <2>2 DEF PoolTypes
<1>8. PlaceInv'
  BY <1>1, <1>3, <1>4, <1>6 DEF PlaceInv, PlaceOK, Bare
<1>9. OwnInv'
  BY <1>3, <1>4, <1>5, <1>6 DEF OwnInv, Mine
<1>10. HolderInv'
  BY <1>1, <1>3, <1>4, <1>6 DEF HolderInv, Holder
<1>11. PoolInv' /\ AloneInv'
  BY <1>3, <1>4 DEF PoolInv, SetOK, AloneInv
<1>12. LiveInv'
  BY <1>3, <1>4, <1>5, <1>6 DEF LiveInv, Owned
<1>13. EndInv'
  BY <1>1, <1>2 DEF EndInv
<1>14. QED
  BY <1>7, <1>8, <1>9, <1>10, <1>11, <1>12, <1>13 DEF BuffersInv

\* A poller without a set allocates its own buffers.
LEMMA OwnStep ==
  ASSUME BarrierInv, BuffersInv, NEW g \in Gpus, AllocateOwn(g)
  PROVE  BuffersInv'
<1>1. /\ pc[g] = "own" /\ \A h \in Gpus : h # g => pc'[h] = pc[h]
      /\ pc'[g] = "ready"
  BY DEF BarrierInv, BarrierTypes, AllocateOwn, GoTo
<1>2. \A h \in Gpus : pc[h] # "ended"
  BY <1>1, NotEnded
<1>3. UNCHANGED <<program, set, initialized, epoch, pool_bufs, hugepage, in_use,
                  pulled, early, mixed, partial>>
  BY DEF AllocateOwn, poolVars, historyVars
<1>4. PoolTypes /\ PlaceInv /\ OwnInv /\ HolderInv /\ PoolInv /\ AloneInv /\ LiveInv
  BY DEF BuffersInv
<1>5. set[g] = NoSet /\ bufs[g] = <<>>
  BY <1>1, <1>4 DEF PlaceInv, PlaceOK, Bare
<1>6. PICK a \in Allocations : /\ bufs' = [bufs EXCEPT ![g] = Counted(g, a)]
                               /\ live' = live \cup Allocated(Memory(0, g, a))
  BY DEF AllocateOwn
<1>7. bufs'[g] = Counted(g, a) /\ \A h \in Gpus : h # g => bufs'[h] = bufs[h]
  BY <1>4, <1>6 DEF PoolTypes
<1>8. /\ Len(a) \in Nat /\ Len(bufs'[g]) = Len(a) /\ bufs'[g] \in Seq(Memories)
      /\ \A b \in 1..Len(a) : bufs'[g][b] = Memory(0, g, a)[b]
  BY <1>7, CountedOf, MemoryOf
<1>9. /\ \A b \in 1..Len(a) : /\ bufs'[g][b].epoch = 0 /\ bufs'[g][b].slot = g
                              /\ bufs'[g][b] # NoMemory /\ bufs'[g][b] \in Memories
      /\ live' = live \cup {bufs'[g][b] : b \in 1..Len(a)}
  <2>1. /\ Len(a) \in 0..BUFS_PER_SET
        /\ Memory(0, g, a) \in [1..BUFS_PER_SET -> Memories]
        /\ \A b \in 1..BUFS_PER_SET :
             IF b <= Len(a)
               THEN /\ Memory(0, g, a)[b].epoch = 0 /\ Memory(0, g, a)[b].slot = g
                    /\ Memory(0, g, a)[b].huge = a[b] /\ Memory(0, g, a)[b] # NoMemory
               ELSE Memory(0, g, a)[b] = NoMemory
        /\ Allocated(Memory(0, g, a)) = {Memory(0, g, a)[b] : b \in 1..Len(a)}
    <3>1. 0 \in Nat
      OBVIOUS
    <3>2. QED
      BY <3>1, MemoryOf, Zenon
  <2>2. \A b \in 1..Len(a) : b \in 1..BUFS_PER_SET /\ b <= Len(a)
    BY <2>1, MultiGpuAssumption
  <2>3. \A b \in 1..Len(a) :
           /\ Memory(0, g, a)[b].epoch = 0 /\ Memory(0, g, a)[b].slot = g
           /\ Memory(0, g, a)[b] # NoMemory /\ Memory(0, g, a)[b] \in Memories
    BY <2>1, <2>2
  <2>4. \A b \in 1..Len(a) : /\ bufs'[g][b].epoch = 0 /\ bufs'[g][b].slot = g
                              /\ bufs'[g][b] # NoMemory /\ bufs'[g][b] \in Memories
    BY <1>8, <2>3
  <2>5. live' = live \cup {Memory(0, g, a)[b] : b \in 1..Len(a)}
    BY <1>6, <2>1
  <2>6. {Memory(0, g, a)[b] : b \in 1..Len(a)} = {bufs'[g][b] : b \in 1..Len(a)}
    BY <1>8
  <2>7. QED
    BY <2>4, <2>5, <2>6
<1>10. PoolTypes'
  BY <1>3, <1>4, <1>6, <1>7, <1>8, <1>9 DEF PoolTypes
<1>11. PlaceInv'
  BY <1>1, <1>3, <1>4, <1>7 DEF PlaceInv, PlaceOK, Bare
<1>12. OwnInv'
  <2> SUFFICES ASSUME NEW h \in Gpus, set[h] = NoSet, NEW b \in 1..Len(bufs'[h])
               PROVE  Mine(h, bufs[h][b])'
    BY <1>3 DEF OwnInv
  <2>1. CASE h = g
    BY <1>8, <1>9, <2>1 DEF Mine
  <2>2. CASE h # g
    BY <1>4, <1>7, <1>9, <2>2 DEF OwnInv, Mine
  <2>3. QED
    BY <2>1, <2>2
<1>13. HolderInv'
  BY <1>1, <1>3, <1>4, <1>5, <1>7 DEF HolderInv, Holder
<1>14. PoolInv' /\ AloneInv'
  BY <1>3, <1>4, <1>9 DEF PoolInv, SetOK, AloneInv
<1>15. LiveInv'
  <2> SUFFICES ASSUME NEW m \in live'
               PROVE  Owned(m)'
    BY DEF LiveInv
  <2>1. CASE m \in live
    <3>1. Owned(m) /\ Len(bufs[g]) = 0
      BY <1>4, <1>5, <2>1 DEF LiveInv
    <3>2. QED
      BY <1>3, <1>7, <3>1 DEF Owned
  <2>2. CASE \E b \in 1..Len(a) : m = bufs'[g][b]
    BY <1>3, <1>5, <1>8, <2>2 DEF Owned
  <2>3. QED
    BY <1>9, <2>1, <2>2
<1>16. EndInv'
  BY <1>1, <1>2 DEF EndInv
<1>17. QED
  BY <1>10, <1>11, <1>12, <1>13, <1>14, <1>15, <1>16 DEF BuffersInv

\* ~CpuPollingThread: the set is given back, or one's own buffers are freed.
LEMMA DestroyStep ==
  ASSUME BarrierInv, BuffersInv, NEW g \in Gpus, Destroy(g)
  PROVE  BuffersInv'
<1>1. /\ pc[g] = "stopped" /\ \A h \in Gpus : h # g => pc'[h] = pc[h]
      /\ pc'[g] = IF program[g] = "tiled" THEN "closing" ELSE "gone"
  BY DEF BarrierInv, BarrierTypes, Destroy, GoTo
<1>2. \A h \in Gpus : pc[h] # "ended"
  BY <1>1, NotEnded
<1>3. UNCHANGED <<program, initialized, epoch, pool_bufs, hugepage, early, mixed,
                  partial>>
  BY DEF Destroy
<1>4. PoolTypes /\ PlaceInv /\ OwnInv /\ HolderInv /\ PoolInv /\ AloneInv /\ LiveInv
  BY DEF BuffersInv
<1>5. /\ set'[g] = NoSet /\ \A h \in Gpus : h # g => set'[h] = set[h]
      /\ bufs'[g] = <<>> /\ \A h \in Gpus : h # g => bufs'[h] = bufs[h]
      /\ set' \in [Gpus -> {NoSet, 0}] /\ bufs' \in [Gpus -> Seq(Memories)]
      /\ Len(bufs'[g]) = 0
  BY <1>4 DEF Destroy, PoolTypes
<1>6. pulled' = pulled \ {g}
  BY DEF Destroy
<1>7. PlaceInv'
  BY <1>1, <1>3, <1>4, <1>5 DEF PlaceInv, PlaceOK, Bare
<1>8. HolderInv'
  BY <1>1, <1>3, <1>4, <1>5, <1>6 DEF HolderInv, Holder
<1>9. EndInv'
  BY <1>1, <1>2 DEF EndInv
<1>10. CASE set[g] # NoSet
  <2>1. in_use' = FALSE /\ live' = live
    BY <1>10 DEF Destroy
  <2>2. PoolTypes'
    BY <1>3, <1>4, <1>5, <2>1 DEF PoolTypes
  <2>3. OwnInv'
    BY <1>4, <1>5, <2>1 DEF OwnInv, Mine
  <2>4. PoolInv'
    BY <1>3, <1>4, <2>1 DEF PoolInv, SetOK
  <2>5. AloneInv'
    BY <1>3, <1>4, <1>5, <1>6, <1>10 DEF AloneInv
  <2>6. LiveInv'
    <3> SUFFICES ASSUME NEW m \in live
                 PROVE  Owned(m)'
      BY <2>1 DEF LiveInv
    <3>1. Owned(m)
      BY <1>4 DEF LiveInv
    <3>2. ASSUME NEW h \in Gpus, set[h] = NoSet, NEW b \in 1..Len(bufs[h]), bufs[h][b] = m
          PROVE  Owned(m)'
      <4>1. set'[h] = NoSet /\ bufs'[h] = bufs[h]
        BY <1>5, <1>10, <3>2
      <4>2. QED
        BY <3>2, <4>1 DEF Owned
    <3>3. QED
      BY <1>3, <3>1, <3>2 DEF Owned
  <2>7. QED
    BY <1>7, <1>8, <1>9, <2>2, <2>3, <2>4, <2>5, <2>6 DEF BuffersInv
<1>11. CASE set[g] = NoSet
  <2>1. /\ in_use' = in_use
        /\ live' = live \ {bufs[g][b] : b \in 1..Len(bufs[g])}
    <3>1. live' = Freed(bufs[g], [m \in Allocated(bufs[g]) |-> OwnFlag(g, m)])
          /\ in_use' = in_use
      BY <1>11 DEF Destroy
    <3>2. bufs[g] \in Seq(Memories)
      BY <1>4 DEF PoolTypes
    <3>3. DOMAIN bufs[g] = 1..Len(bufs[g])
      BY <3>2, LenProperties
    <3>4. \A b \in 1..Len(bufs[g]) : bufs[g][b] # NoMemory
      BY <1>4, <1>11 DEF OwnInv, Mine
    <3>5. Allocated(bufs[g]) = {bufs[g][b] : b \in 1..Len(bufs[g])}
      BY <3>3, <3>4 DEF Allocated
    <3>6. QED
      BY <3>1, <3>5 DEF Freed, OwnFlag
  <2>2. \A m \in live : m.slot # g \/ m.epoch # 0 => m \in live'
    BY <1>4, <1>11, <2>1 DEF OwnInv, Mine
  <2>3. PoolTypes'
    BY <1>3, <1>4, <1>5, <2>1 DEF PoolTypes
  <2>4. OwnInv'
    BY <1>4, <1>5, <2>2 DEF OwnInv, Mine
  <2>5. PoolInv'
    <3> SUFFICES ASSUME initialized, NEW b \in 1..BUFS_PER_SET
                 PROVE  IF pool_bufs[b] = NoMemory THEN epoch \in partial
                                                   ELSE SetOK(pool_bufs[b])'
      BY <1>3, <1>4 DEF PoolInv
    <3>1. epoch # 0
      BY <1>4 DEF PoolInv, PoolTypes
    <3>2. pool_bufs[b] # NoMemory => SetOK(pool_bufs[b])
      BY <1>4 DEF PoolInv
    <3>3. pool_bufs[b] # NoMemory => SetOK(pool_bufs[b])'
      BY <1>3, <2>2, <3>1, <3>2 DEF SetOK
    <3>4. QED
      BY <1>4, <3>3 DEF PoolInv
  <2>6. AloneInv'
    BY <1>3, <1>4, <1>5, <1>6, <2>1 DEF AloneInv
  <2>7. LiveInv'
    <3> SUFFICES ASSUME NEW m \in live'
                 PROVE  Owned(m)'
      BY DEF LiveInv
    <3>1. Owned(m)
      BY <1>4, <2>1 DEF LiveInv
    <3>2. ASSUME NEW h \in Gpus, set[h] = NoSet, NEW b \in 1..Len(bufs[h]), bufs[h][b] = m
          PROVE  Owned(m)'
      <4>1. h # g
        BY <2>1, <3>2
      <4>2. set'[h] = NoSet /\ bufs'[h] = bufs[h]
        BY <1>5, <3>2, <4>1
      <4>3. QED
        BY <3>2, <4>2 DEF Owned
    <3>3. QED
      BY <1>3, <3>1, <3>2 DEF Owned
  <2>8. QED
    BY <1>7, <1>8, <1>9, <2>3, <2>4, <2>5, <2>6, <2>7 DEF BuffersInv
<1>12. QED
  BY <1>10, <1>11

\* StagingPool::shutdown: the set is freed as the sort of memory the flag says.
LEMMA ShutdownStep ==
  ASSUME BuffersInv, ShutdownPool, UNCHANGED <<set, bufs>>, EndInv',
         \A g \in Gpus : (Bare(g)' => Bare(g)) /\ (pc'[g] = "get" <=> pc[g] = "get")
  PROVE  BuffersInv'
<1>1. PoolTypes /\ PlaceInv /\ OwnInv /\ HolderInv /\ PoolInv /\ AloneInv /\ LiveInv
  BY DEF BuffersInv
<1>2. UNCHANGED <<set, bufs, epoch, hugepage, in_use, mixed, partial>>
      /\ initialized' = FALSE
  BY DEF ShutdownPool
<1>3. live' \subseteq live
      /\ \A m \in live : m \notin live' =>
           initialized /\ \E b \in 1..BUFS_PER_SET : pool_bufs[b] = m /\ m # NoMemory
  BY <1>1 DEF ShutdownPool, Freed, Allocated, PoolTypes
<1>4. initialized => \A b \in 1..BUFS_PER_SET :
        pool_bufs[b] # NoMemory /\ pool_bufs[b].huge = hugepage => pool_bufs[b] \notin live'
  BY <1>1 DEF ShutdownPool, Freed, Allocated, PoolTypes
<1>5. PoolTypes'
  <2>1. NoMemory \in Memories
    BY TopologyAssumption, MultiGpuAssumption DEF NoMemory, Memories, Gpus
  <2>2. pool_bufs' \in [1..BUFS_PER_SET -> Memories]
    BY <1>1, <2>1 DEF ShutdownPool, PoolTypes
  <2>3. early' \in BOOLEAN
    BY DEF ShutdownPool
  <2>4. QED
    BY <1>1, <1>2, <1>3, <2>2, <2>3 DEF PoolTypes
<1>6. PlaceInv'
  BY <1>1, <1>2 DEF PlaceInv, PlaceOK
<1>7. OwnInv'
  <2>1. \A m \in live : m.epoch = 0 => m \in live'
    BY <1>1, <1>3 DEF PoolInv, SetOK, PoolTypes
  <2>2. QED
    BY <1>1, <1>2, <2>1 DEF OwnInv, Mine
<1>8. \A g \in Gpus : ~Holder(g)'
  BY <1>1, <1>2 DEF ShutdownPool, HolderInv, Holder
<1>9. HolderInv' /\ PoolInv'
  BY <1>2, <1>8 DEF HolderInv, PoolInv
<1>10. AloneInv'
  <2>1. ~early' => ~early /\ pulled' = pulled
    BY <1>1 DEF ShutdownPool, PoolTypes
  <2>2. QED
    BY <1>1, <1>2, <2>1 DEF AloneInv
<1>11. LiveInv'
  <2> SUFFICES ASSUME NEW m \in live'
               PROVE  Owned(m)'
    BY DEF LiveInv
  <2>1. Owned(m) /\ m # NoMemory
    BY <1>1, <1>3 DEF LiveInv, PoolTypes
  <2>2. CASE initialized /\ \E b \in 1..BUFS_PER_SET : pool_bufs[b] = m
    <3>1. SetOK(m) /\ m.huge # hugepage
      BY <1>1, <1>4, <2>1, <2>2 DEF PoolInv
    <3>2. QED
      BY <1>2, <3>1 DEF SetOK, Owned
  <2>3. QED
    BY <1>2, <2>1, <2>2 DEF Owned
<1>12. QED
  BY <1>5, <1>6, <1>7, <1>9, <1>10, <1>11 DEF BuffersInv

\* The invariant of the pool, the pollers' buffers and the memory allocated.
THEOREM BuffersInvariant == Spec => []BuffersInv
<1>1. Init => BuffersInv
  <2> SUFFICES ASSUME Init
               PROVE  BuffersInv
    OBVIOUS
  <2>1. NoMemory \in Memories
    BY TopologyAssumption, MultiGpuAssumption DEF NoMemory, Memories, Gpus
  <2>2. PoolTypes
    <3>1. /\ set \in [Gpus -> {NoSet, 0}] /\ epoch \in Nat
          /\ pool_bufs \in [1..BUFS_PER_SET -> Memories]
      BY <2>1 DEF Init
    <3>2. bufs \in [Gpus -> Seq(Memories)]
      BY EmptySeq DEF Init
    <3>3. QED
      BY <3>1, <3>2 DEF Init, PoolTypes
  <2>3. \A g \in Gpus : pc[g] \in {"gone", "new"} /\ set[g] = NoSet /\ bufs[g] = <<>>
    BY DEF Init
  <2>4. QED
    BY <2>2, <2>3 DEF Init, BuffersInv, PlaceInv, PlaceOK, OwnInv, HolderInv, Holder,
         PoolInv, AloneInv, LiveInv, EndInv
<1>2. BarrierInv /\ BuffersInv /\ [Next]_vars => BuffersInv'
  <2> SUFFICES ASSUME BarrierInv, BuffersInv, [Next]_vars
               PROVE  BuffersInv'
    OBVIOUS
  <2>1. ASSUME NEW g \in Gpus, Shutdown(g)
        PROVE  BuffersInv'
    <3>1. /\ pc[g] = "closing" /\ \A h \in Gpus : h # g => pc'[h] = pc[h]
          /\ pc'[g] = IF program[g] = "tiled" THEN "gone" ELSE "stopped"
      BY <2>1 DEF BarrierInv, BarrierTypes, Shutdown, GoTo
    <3>2. \A h \in Gpus : pc[h] # "ended"
      BY <3>1, NotEnded
    <3>3. ShutdownPool /\ UNCHANGED <<program, set, bufs>>
      BY <2>1 DEF Shutdown
    <3>4. QED
      BY <3>1, <3>2, <3>3, ShutdownStep DEF Bare, EndInv
  <2>2. ASSUME Exit
        PROVE  BuffersInv'
    <3>1. \A g \in Gpus : pc[g] = "gone" /\ pc'[g] = "ended"
      BY <2>2 DEF Exit
    <3>2. ShutdownPool /\ UNCHANGED <<program, set, bufs>> /\ initialized' = FALSE
      BY <2>2 DEF Exit, ShutdownPool
    <3>3. QED
      BY <3>1, <3>2, ShutdownStep DEF Bare, EndInv
  <2>3. CASE UNCHANGED vars \/ Ended
    <3>1. UNCHANGED <<program, pc, set, bufs, initialized, epoch, pool_bufs, hugepage,
                      in_use, live, pulled, early, mixed, partial>>
      BY <2>3 DEF Ended, vars, lifeVars, poolVars, historyVars
    <3>2. QED
      BY <3>1 DEF BuffersInv, PoolTypes, PlaceInv, PlaceOK, Bare, OwnInv, Mine, HolderInv,
           Holder, PoolInv, SetOK, AloneInv, LiveInv, Owned, EndInv
  <2>4. QED
    BY <2>1, <2>2, <2>3, PlainSteps, PoolInitStep, AcquireStep, GetStep, OwnStep,
       DestroyStep DEF Next, Life
<1>3. QED
  BY <1>1, <1>2, BarrierInvariant, PTL DEF Spec

\* A poller in use never counts a staging buffer that is not allocated, for
\* every number of GPUs, program and outcome of the allocations; the exceptions
\* are the ones named in the property.
THEOREM BuffersAreUsable == Spec => []BuffersUsable
<1>1. BuffersInv => BuffersUsable
  <2> SUFFICES ASSUME BuffersInv, NEW g \in Gpus, Using(g), g \notin pulled,
                      NEW b \in 1..Len(bufs[g])
               PROVE  \/ bufs[g][b] \in live
                      \/ set[g] # NoSet /\ bufs[g][b] = NoMemory /\ epoch \in partial
    BY DEF BuffersUsable
  <2>1. CASE set[g] = NoSet
    BY <2>1 DEF BuffersInv, OwnInv, Mine
  <2>2. CASE set[g] # NoSet
    <3>1. initialized /\ bufs[g] = pool_bufs
      BY <2>2 DEF BuffersInv, HolderInv, Holder, Using
    <3>2. bufs[g] \in Seq(Memories) /\ pool_bufs \in [1..BUFS_PER_SET -> Memories]
      BY DEF BuffersInv, PoolTypes
    <3>3. b \in 1..BUFS_PER_SET
      BY <3>1, <3>2, LenProperties
    <3>4. QED
      BY <2>2, <3>1, <3>3 DEF BuffersInv, PoolInv, SetOK
  <2>3. QED
    BY <2>1, <2>2
<1>2. QED
  BY <1>1, BuffersInvariant, PTL

\* Two pollers never gather into the same buffer, unless the pool was shut
\* down while its set was held.
THEOREM BuffersAreSeparate == Spec => []BuffersNotShared
<1>1. BuffersInv => BuffersNotShared
  <2> SUFFICES ASSUME BuffersInv, ~early, NEW g \in Gpus, NEW h \in Gpus, g # h,
                      NEW m \in Allocated(bufs[g]) \cap Allocated(bufs[h])
               PROVE  FALSE
    BY DEF BuffersNotShared
  <2>1. PoolTypes /\ PlaceInv /\ OwnInv /\ HolderInv /\ PoolInv /\ AloneInv
    BY DEF BuffersInv
  <2>2. ASSUME NEW i \in Gpus, m \in Allocated(bufs[i])
        PROVE  m # NoMemory /\ \E b \in 1..Len(bufs[i]) : m = bufs[i][b]
    <3>1. DOMAIN bufs[i] = 1..Len(bufs[i])
      BY <2>1, LenProperties DEF PoolTypes
    <3>2. QED
      BY <2>2, <3>1 DEF Allocated
  <2>3. ASSUME NEW i \in Gpus, m \in Allocated(bufs[i]), set[i] = NoSet
        PROVE  m.epoch = 0 /\ m.slot = i
    BY <2>1, <2>2, <2>3 DEF OwnInv, Mine
  <2>4. ASSUME NEW i \in Gpus, m \in Allocated(bufs[i]), set[i] # NoSet
        PROVE  m.epoch # 0
    <3>1. Holder(i) /\ initialized
      BY <2>1, <2>4 DEF AloneInv, HolderInv, Holder
    <3>2. bufs[i] # <<>>
      BY <2>2, <2>4
    <3>3. bufs[i] = pool_bufs
      BY <2>1, <3>1, <3>2 DEF HolderInv, PlaceInv, PlaceOK
    <3>4. \E b \in 1..BUFS_PER_SET : m = pool_bufs[b]
      BY <2>1, <2>4, <3>3 DEF Allocated, PoolTypes
    <3>5. SetOK(m) /\ epoch > 0 /\ epoch \in Nat
      BY <2>1, <2>2, <2>4, <3>1, <3>4 DEF PoolInv, PoolTypes
    <3>6. QED
      BY <3>5 DEF SetOK
  <2>5. CASE set[g] # NoSet /\ set[h] # NoSet
    BY <2>1, <2>5 DEF AloneInv
  <2>6. QED
    BY <2>3, <2>4, <2>5
<1>2. QED
  BY <1>1, BuffersInvariant, PTL

\* Nothing is left allocated at the end of the process, but buffers of a set
\* with both sorts of memory.
THEOREM NoLeak == Spec => []NothingLeaked
<1>1. BuffersInv => NothingLeaked
  <2> SUFFICES ASSUME BuffersInv, \A g \in Gpus : pc[g] = "ended", NEW m \in live
               PROVE  m.epoch \in mixed
    BY DEF NothingLeaked
  <2>1. Owned(m)
    BY DEF BuffersInv, LiveInv
  <2>2. \A g \in Gpus : bufs[g] = <<>>
    BY DEF BuffersInv, PlaceInv, PlaceOK, Bare
  <2>3. ~initialized
    BY TopologyAssumption DEF BuffersInv, EndInv, Gpus
  <2>4. QED
    BY <2>1, <2>2, <2>3 DEF Owned
<1>2. QED
  BY <1>1, BuffersInvariant, PTL

-----------------------------------------------------------------------------
(* The cores of each GPU *)

\* What MultiGpuAssumption says of a program's machine.
Sane(m) == m.cores \in Nat /\ m.nodes \in Nat \ {0} /\ m.stray \in Nat

\* The smaller of two numbers.
LEMMA MinOfTwo ==
  ASSUME NEW a \in Int, NEW b \in Int
  PROVE  Min({a, b}) \in {a, b} /\ Min({a, b}) <= a /\ Min({a, b}) <= b
<1>1. \E x \in {a, b} : \A y \in {a, b} : x <= y
  <2>1. CASE a <= b
    BY <2>1
  <2>2. CASE b <= a
    BY <2>2
  <2>3. QED
    BY <2>1, <2>2
<1>2. QED
  BY <1>1 DEF Min

\* The larger of two numbers.
LEMMA MaxOfTwo ==
  ASSUME NEW a \in Int, NEW b \in Int
  PROVE  Max({a, b}) = IF a >= b THEN a ELSE b
<1>1. \E x \in {a, b} : \A y \in {a, b} : x >= y
  <2>1. CASE a <= b
    BY <2>1
  <2>2. CASE b <= a
    BY <2>2
  <2>3. QED
    BY <2>1, <2>2
<1>2. Max({a, b}) \in {a, b} /\ Max({a, b}) >= a /\ Max({a, b}) >= b
  BY <1>1 DEF Max
<1>3. QED
  BY <1>2

\* Multiples of a number grow with the factor.
LEMMA Multiples ==
  ASSUME NEW a \in Nat, NEW b \in Nat, NEW c \in Nat, a < b
  PROVE  a * c \in Nat /\ b * c \in Nat /\ a * c + c <= b * c
<1> DEFINE d == b - a - 1
<1>1. d \in Nat
  OBVIOUS
<1>2. d * c \in Nat /\ a * c \in Nat /\ b * c \in Nat
  BY <1>1
<1>3. b * c = a * c + c + d * c
  OBVIOUS
<1>4. QED
  BY <1>2, <1>3

\* intra_numa_idx counts the GPUs of the node before this one.
LEMMA RankOnNode ==
  ASSUME NEW m, NEW g \in Gpus
  PROVE  /\ Rank(m, g) \in Nat
         /\ Cardinality(GpusOnNode(m, NumaNode(m, g))) \in Nat
         /\ Rank(m, g) < Cardinality(GpusOnNode(m, NumaNode(m, g)))
         /\ \A h \in Gpus : NumaNode(m, h) = NumaNode(m, g) /\ g < h =>
              Rank(m, g) < Rank(m, h)
<1> DEFINE N == GpusOnNode(m, NumaNode(m, g))
           Before(h) == {i \in N : i < h}
<1>1. IsFiniteSet(Gpus) /\ Gpus \subseteq Int
  BY FS_Interval, TopologyAssumption DEF Gpus
<1>2. IsFiniteSet(N) /\ N \subseteq Gpus /\ g \in N
  BY <1>1, FS_Subset DEF GpusOnNode
<1>3. \A h \in Gpus : Before(h) \in SUBSET N /\ IsFiniteSet(Before(h))
                      /\ Cardinality(Before(h)) \in Nat
  BY <1>2, FS_Subset, FS_CardinalityType
<1>4. \A h \in Gpus : NumaNode(m, h) = NumaNode(m, g) => Rank(m, h) = Cardinality(Before(h))
  BY DEF Rank
<1>5. g \notin Before(g)
  BY <1>1
<1>6. Cardinality(Before(g)) < Cardinality(N) /\ Cardinality(N) \in Nat
  <2>1. Cardinality(N) \in Nat /\ Cardinality(Before(g)) <= Cardinality(N)
    BY <1>2, <1>3, FS_Subset, FS_CardinalityType
  <2>2. Cardinality(N) # Cardinality(Before(g))
    BY <1>2, <1>3, <1>5, FS_Subset
  <2>3. QED
    BY <1>3, <2>1, <2>2
<1>7. ASSUME NEW h \in Gpus, g < h
      PROVE  Cardinality(Before(g)) < Cardinality(Before(h))
  <2>1. Before(g) \in SUBSET Before(h) /\ g \in Before(h)
    <3>1. g \in Int /\ h \in Int /\ \A i \in N : i \in Int
      BY <1>1, <1>2
    <3>2. \A i \in Int : i < g => i < h
      BY <1>7, <3>1
    <3>3. QED
      BY <1>2, <1>7, <3>1, <3>2
  <2>2. Cardinality(Before(g)) <= Cardinality(Before(h))
    BY <1>3, <2>1, FS_Subset
  <2>3. Cardinality(Before(h)) # Cardinality(Before(g))
    BY <1>3, <1>5, <2>1, FS_Subset
  <2>4. QED
    BY <1>3, <2>2, <2>3
<1>8. QED
  BY <1>3, <1>4, <1>6, <1>7

\* get_exclusive_cores: the GPU's share lies in its node, whole.
LEMMA ShareOnNode ==
  ASSUME NEW m, Sane(m), NEW g \in Gpus
  PROVE  /\ NumaNode(m, g) \in Nat /\ m.cores \in Nat
         /\ CpuStart(m, g) \in Nat /\ CpuEnd(m, g) = CpuStart(m, g) + m.cores - 1
         /\ Share(m, g) \in Nat /\ BaseCpu(m, g) \in Nat /\ CpuStart(m, g) <= BaseCpu(m, g)
         /\ BaseCpu(m, g) + Share(m, g) - 1 <= CpuEnd(m, g)
         /\ NumCores(m, g) = Share(m, g)
<1> DEFINE n == NumaNode(m, g)
           c == m.cores
           k == GpusPerNuma(m, NumaNode(m, g))
           r == Rank(m, g)
           s == Share(m, g)
<1>1. n \in Nat /\ c \in Nat
  BY DEF NumaNode, Sane
<1>2. r \in Nat /\ k \in Nat /\ r < k
  BY RankOnNode DEF GpusPerNuma, Sane
<1>3. s = c \div k
  BY DEF Share
<1>4. CpuStart(m, g) = n * c /\ CpuEnd(m, g) = (n + 1) * c - 1
      /\ BaseCpu(m, g) = n * c + r * s
  BY DEF CpuStart, CpuEnd, BaseCpu
<1> HIDE DEF n, c, k, r, s
<1>5. s \in Nat /\ k * s <= c
  BY <1>1, <1>2, <1>3
<1>6. r * s \in Nat /\ k * s \in Nat /\ r * s + s <= k * s
  BY <1>2, <1>5, Multiples
<1>7. n * c \in Nat /\ (n + 1) * c = n * c + c
  BY <1>1
<1>8. /\ CpuStart(m, g) \in Nat /\ CpuEnd(m, g) = CpuStart(m, g) + c - 1
      /\ BaseCpu(m, g) \in Nat /\ CpuStart(m, g) <= BaseCpu(m, g)
      /\ BaseCpu(m, g) + s - 1 <= CpuEnd(m, g)
  BY <1>1, <1>4, <1>5, <1>6, <1>7
<1>9. NumCores(m, g) = s
  <2>1. ~(BaseCpu(m, g) + s - 1 > CpuEnd(m, g))
    BY <1>1, <1>5, <1>8
  <2>2. QED
    BY <2>1 DEF NumCores, s
<1>10. QED
  BY <1>1, <1>5, <1>8, <1>9 DEF n, c, s

\* The polling thread and the workers stay within the cores they are given, no
\* two of them on one, and with 16 cores or more the last one stays free.
LEMMA CpusInCores ==
  ASSUME NEW node, NEW base \in Nat, NEW cores \in Nat, cores >= 2
  PROVE  LET p == ExclusiveCpus(node, base, cores) IN
           /\ p \in Seq(Nat)
           /\ \A i \in DOMAIN p : base <= p[i] /\ p[i] <= base + cores - 1
           /\ \A i, j \in DOMAIN p : p[i] = p[j] => i = j
           /\ cores >= 16 => \A i \in DOMAIN p : p[i] < base + cores - 1
<1> DEFINE p == ExclusiveCpus(node, base, cores)
           stride == CoreStride(cores)
           room == cores \div stride - 1
           w == Workers(cores \div stride)
<1>1. stride = IF cores >= 16 THEN 2 ELSE 1
  BY DEF CoreStride
<1>2. w = Min({MAX_GATHER_WORKERS, Max({1, room})})
  BY DEF Workers
<1>3. p = [i \in 1..(w + 1) |-> base + (i - 1) * stride]
  BY DEF ExclusiveCpus, Pinned
<1> HIDE DEF p, stride, w
<1>4. room \in Int
  BY <1>1
<1>5. w \in Nat /\ w <= (IF room >= 1 THEN room ELSE 1)
  <2>1. Max({1, room}) = IF 1 >= room THEN 1 ELSE room
    BY <1>4, MaxOfTwo
  <2> DEFINE top == Max({1, room})
  <2>2. top \in Nat
    BY <1>4, <2>1
  <2>3. w \in {MAX_GATHER_WORKERS, top} /\ w <= top
    <3>1. MAX_GATHER_WORKERS \in Int /\ top \in Int /\ w = Min({MAX_GATHER_WORKERS, top})
      BY <1>2, <2>2, TopologyAssumption
    <3> HIDE DEF top
    <3>2. QED
      BY <3>1, MinOfTwo
  <2>4. QED
    BY <1>4, <2>1, <2>2, <2>3, TopologyAssumption
<1>6. /\ stride \in {1, 2} /\ w * stride <= cores - 1
      /\ cores >= 16 => w * stride < cores - 1
  <2>1. CASE cores >= 16
    <3>1. stride = 2 /\ room = cores \div 2 - 1
      BY <1>1, <2>1
    <3>2. w * 2 < cores - 1
      BY <1>4, <1>5, <2>1, <3>1
    <3>3. QED
      BY <1>5, <3>1, <3>2
  <2>2. CASE ~(cores >= 16)
    <3>1. stride = 1 /\ room = cores - 1
      BY <1>1, <2>2
    <3>2. QED
      BY <1>5, <2>2, <3>1
  <2>3. QED
    BY <2>1, <2>2
<1>7. ASSUME NEW i \in 1..(w + 1)
      PROVE  /\ (i - 1) * stride \in Nat /\ (i - 1) * stride <= cores - 1
             /\ cores >= 16 => (i - 1) * stride < cores - 1
  <2>1. CASE stride = 1
    BY <1>5, <1>6, <2>1
  <2>2. CASE stride = 2
    BY <1>5, <1>6, <2>2
  <2>3. QED
    BY <1>6, <2>1, <2>2
<1>8. ASSUME NEW i \in 1..(w + 1), NEW j \in 1..(w + 1),
             (i - 1) * stride = (j - 1) * stride
      PROVE  i = j
  <2>1. i \in Int /\ j \in Int
    BY <1>5
  <2>2. CASE stride = 1
    BY <1>8, <2>1, <2>2
  <2>3. CASE stride = 2
    BY <1>8, <2>1, <2>3
  <2>4. QED
    BY <1>6, <2>2, <2>3
<1>9. DOMAIN p = 1..(w + 1) /\ \A i \in 1..(w + 1) : p[i] = base + (i - 1) * stride
  BY <1>3
<1>10. p \in Seq(Nat)
  <2>1. w + 1 \in Nat /\ p \in [1..(w + 1) -> Nat]
    BY <1>3, <1>5, <1>7
  <2>2. QED
    BY <2>1
<1>11. \A i, j \in DOMAIN p : p[i] = p[j] => i = j
  BY <1>7, <1>8, <1>9
<1>12. \A i \in DOMAIN p : /\ base <= p[i] /\ p[i] <= base + cores - 1
                           /\ cores >= 16 => p[i] < base + cores - 1
  BY <1>7, <1>9
<1>13. QED
  BY <1>10, <1>11, <1>12 DEF p

\* The shares of two GPUs: apart by rank on one node, by node otherwise.
LEMMA SharesApart ==
  ASSUME NEW m, Sane(m), NEW g \in Gpus, NEW h \in Gpus, g < h
  PROVE  \/ BaseCpu(m, g) + Share(m, g) <= BaseCpu(m, h)
         \/ BaseCpu(m, h) + Share(m, h) <= BaseCpu(m, g)
<1>1. /\ NumaNode(m, g) \in Nat /\ NumaNode(m, h) \in Nat /\ m.cores \in Nat
      /\ Share(m, g) \in Nat /\ Share(m, h) \in Nat
      /\ BaseCpu(m, g) \in Nat /\ BaseCpu(m, h) \in Nat
      /\ CpuStart(m, g) \in Nat /\ CpuStart(m, h) \in Nat
      /\ CpuEnd(m, g) = CpuStart(m, g) + m.cores - 1
      /\ CpuEnd(m, h) = CpuStart(m, h) + m.cores - 1
      /\ CpuStart(m, g) <= BaseCpu(m, g) /\ CpuStart(m, h) <= BaseCpu(m, h)
      /\ BaseCpu(m, g) + Share(m, g) - 1 <= CpuEnd(m, g)
      /\ BaseCpu(m, h) + Share(m, h) - 1 <= CpuEnd(m, h)
  BY ShareOnNode
<1>2. QED
  <2>1. CASE NumaNode(m, g) = NumaNode(m, h)
    <3>1. Share(m, h) = Share(m, g) /\ CpuStart(m, h) = CpuStart(m, g)
      BY <2>1 DEF Share, CpuStart
    <3>2. Rank(m, g) \in Nat /\ Rank(m, h) \in Nat /\ Rank(m, g) < Rank(m, h)
      BY <2>1, RankOnNode
    <3>3. Rank(m, g) * Share(m, g) + Share(m, g) <= Rank(m, h) * Share(m, g)
          /\ Rank(m, g) * Share(m, g) \in Nat /\ Rank(m, h) * Share(m, g) \in Nat
      BY <1>1, <3>2, Multiples
    <3>4. BaseCpu(m, g) = CpuStart(m, g) + Rank(m, g) * Share(m, g)
          /\ BaseCpu(m, h) = CpuStart(m, g) + Rank(m, h) * Share(m, g)
      BY <3>1 DEF BaseCpu
    <3>5. QED
      BY <1>1, <3>3, <3>4
  <2>2. CASE NumaNode(m, g) < NumaNode(m, h)
    <3>1. CpuStart(m, g) + m.cores <= CpuStart(m, h)
      BY <1>1, <2>2, Multiples DEF CpuStart
    <3>2. QED
      BY <1>1, <3>1
  <2>3. CASE NumaNode(m, h) < NumaNode(m, g)
    <3>1. CpuStart(m, h) + m.cores <= CpuStart(m, g)
      BY <1>1, <2>3, Multiples DEF CpuStart
    <3>2. QED
      BY <1>1, <3>1
  <2>4. QED
    BY <1>1, <2>1, <2>2, <2>3

\* The CPUs of a poller whose cores are its own, and the ones it may use.
FirstCpu(g) == IF Parallel THEN CoreBase(g) ELSE BaseCpu(machine, g)
OwnCount(g) == IF Parallel THEN CORE_COUNT ELSE Share(machine, g)

\* A poller's threads are pinned as its program says, or not at all; a control
\* thread comes with the tests of a benchmark.
CoresInv ==
  /\ Sane(machine) /\ DOMAIN cpus = Gpus
  /\ \A g \in Gpus : \/ cpus[g] \in {<<>>, PollerCpus(g)}
                     \/ Parallel /\ cpus[g] = Append(PollerCpus(g), ControlCpu(g))

\* The polling thread, the workers and the control thread of a GPU are on
\* different CPUs, all among the GPU's own.
LEMMA OwnThreads ==
  ASSUME CoresInv, NEW g \in Gpus, OwnCores(g)
  PROVE  /\ FirstCpu(g) \in Nat /\ OwnCount(g) \in Nat
         /\ \A i \in DOMAIN cpus[g] : /\ cpus[g][i] \in Nat
                                      /\ FirstCpu(g) <= cpus[g][i]
                                      /\ cpus[g][i] <= FirstCpu(g) + OwnCount(g) - 1
         /\ \A i, j \in DOMAIN cpus[g] : cpus[g][i] = cpus[g][j] => i = j
<1> DEFINE p == PollerCpus(g)
           c == cpus[g]
           b == FirstCpu(g)
           n == OwnCount(g)
<1>1. b \in Nat /\ n \in Nat /\ n >= 2
  <2>1. g \in Nat
    BY TopologyAssumption DEF Gpus
  <2>2. CASE Parallel
    BY <2>1, <2>2 DEF FirstCpu, OwnCount, CoreBase, CORE_COUNT
  <2>3. CASE ~Parallel
    BY <2>3, ShareOnNode DEF FirstCpu, OwnCount, OwnCores, CoresInv
  <2>4. QED
    BY <2>2, <2>3
<1>2. /\ p \in Seq(Nat)
      /\ \A i \in DOMAIN p : b <= p[i] /\ p[i] <= b + n - 1
      /\ \A i, j \in DOMAIN p : p[i] = p[j] => i = j
      /\ n >= 16 => \A i \in DOMAIN p : p[i] < b + n - 1
  <2>1. CASE Parallel
    <3>1. p = ExclusiveCpus(g \div 4, b, n)
      BY <2>1 DEF PollerCpus, FirstCpu, OwnCount
    <3> HIDE DEF p, b, n
    <3>2. QED
      BY <1>1, <3>1, CpusInCores
  <2>2. CASE ~Parallel
    <3>1. p = ExclusiveCpus(NumaNode(machine, g), b, n)
      BY <2>2, ShareOnNode DEF PollerCpus, FirstCpu, OwnCount, OwnCores, CoresInv
    <3> HIDE DEF p, b, n
    <3>2. QED
      BY <1>1, <3>1, CpusInCores
  <2>3. QED
    BY <2>1, <2>2
<1>3. CASE c \in {<<>>, p}
  <2> HIDE DEF p, b, n
  <2>1. \A i \in DOMAIN p : p[i] \in Nat
    BY <1>2
  <2>2. QED
    BY <1>1, <1>2, <1>3, <2>1 DEF b, n
<1>4. CASE Parallel /\ c = Append(p, ControlCpu(g))
  <2>1. n >= 16 /\ ControlCpu(g) = b + n - 1
    BY <1>4 DEF FirstCpu, OwnCount, ControlCpu, CORE_COUNT
  <2> DEFINE x == ControlCpu(g)
  <2> HIDE DEF p, b, n, x, c
  <2>2. x = b + n - 1 /\ x \in Nat
    BY <1>1, <2>1 DEF x
  <2>3. /\ Len(p) \in Nat /\ DOMAIN p = 1..Len(p) /\ DOMAIN c = 1..(Len(p) + 1)
        /\ \A i \in 1..Len(p) : c[i] = p[i] /\ p[i] \in Nat
        /\ c[Len(p) + 1] = x
    <3>1. c = Append(p, x)
      BY <1>4 DEF x, c
    <3>2. QED
      BY <1>2, <2>2, <3>1, AppendProperties, LenProperties
  <2>4. \A i \in DOMAIN c : i \in 1..Len(p) \/ i = Len(p) + 1
    BY <2>3
  <2>5. \A i \in DOMAIN c : c[i] \in Nat /\ b <= c[i] /\ c[i] <= b + n - 1
    BY <1>1, <1>2, <2>2, <2>3, <2>4
  <2>6. \A i \in 1..Len(p) : c[i] # x
    BY <1>1, <1>2, <2>1, <2>2, <2>3
  <2>7. \A i, j \in DOMAIN c : c[i] = c[j] => i = j
    BY <1>2, <2>3, <2>4, <2>6
  <2>8. QED
    BY <1>1, <2>5, <2>7 DEF c, b, n
<1>5. QED
  BY <1>3, <1>4 DEF CoresInv

\* Two GPUs with cores of their own have none in common.
LEMMA OwnApart ==
  ASSUME CoresInv, NEW g \in Gpus, NEW h \in Gpus, g < h, OwnCores(g), OwnCores(h)
  PROVE  \/ FirstCpu(g) + OwnCount(g) <= FirstCpu(h)
         \/ FirstCpu(h) + OwnCount(h) <= FirstCpu(g)
<1>1. CASE Parallel
  <2>1. g \in Nat /\ h \in Nat
    BY TopologyAssumption DEF Gpus
  <2>2. QED
    BY <1>1, <2>1 DEF FirstCpu, OwnCount, CoreBase, CORE_COUNT
<1>2. CASE ~Parallel
  BY <1>2, SharesApart DEF FirstCpu, OwnCount, CoresInv
<1>3. QED
  BY <1>1, <1>2

\* On two nodes or more, or where sysfs knows it, the GPU's node exists.
LEMMA NodeExists ==
  ASSUME NEW m, Sane(m), NEW g \in Gpus, m.nodes >= 2 \/ m.sysfs[g] = 0
  PROVE  CpuEnd(m, g) < m.nodes * m.cores
<1>1. NumaNode(m, g) \in Nat /\ NumaNode(m, g) < m.nodes
  BY DEF NumaNode, Sane
<1>2. CpuEnd(m, g) = NumaNode(m, g) * m.cores + m.cores - 1
  BY <1>1 DEF CpuEnd, Sane
<1>3. NumaNode(m, g) * m.cores + m.cores <= m.nodes * m.cores
      /\ NumaNode(m, g) * m.cores \in Nat /\ m.nodes * m.cores \in Nat
  BY <1>1, Multiples DEF Sane
<1>4. QED
  BY <1>2, <1>3 DEF Sane

\* Every program, machine and number of GPUs: no two threads of pollers with cores
\* of their own share a CPU, whether the cores are those of the examples' table or
\* the ones get_exclusive_cores finds, and the latter are on the GPU's node.
THEOREM CoresStayApart == Spec => []CoresApart
<1>1. Init => CoresInv
  <2> SUFFICES ASSUME Init
               PROVE  CoresInv
    OBVIOUS
  <2>1. PICK p \in Programs : machine = p.machine
    BY DEF Init
  <2>2. Sane(machine)
    BY <2>1, MultiGpuAssumption DEF Sane
  <2>3. QED
    BY <2>2 DEF Init, CoresInv
<1>2. CoresInv /\ [Next]_vars => CoresInv'
  <2> SUFFICES ASSUME CoresInv, [Next]_vars
               PROVE  CoresInv'
    OBVIOUS
  <2>1. machine' = machine /\ program' = program
    BY DEF Next, Life, CreateSession, CreatePoller, CreateDirect, PoolInit, CheckPool,
         AcquireBuffers, GetBuffers, AllocateOwn, Run, Stop, CleanUp, Destroy, Shutdown,
         CreateAgain, Thread, LoadGeneration, AddWaiting, Release, Spin, Work,
         StartPhase, EndPhase, Exit, Ended, vars
  <2>2. (Parallel' <=> Parallel) /\ \A g \in Gpus : PollerCpus(g)' = PollerCpus(g)
    BY <2>1 DEF Parallel, PollerCpus
  <2>3. \/ cpus' = cpus
        \/ \E g \in Gpus : PinThreads(g) \/ cpus' = [cpus EXCEPT ![g] = <<>>]
        \/ StartPhase \/ EndPhase
    BY DEF Next, Life, CreateSession, CreatePoller, CreateDirect, PoolInit, CheckPool,
         AcquireBuffers, GetBuffers, AllocateOwn, Run, Stop, CleanUp, Destroy, Shutdown,
         CreateAgain, Thread, LoadGeneration, AddWaiting, Release, Spin, Work,
         Exit, Ended, vars, lifeVars
  <2>4. DOMAIN cpus' = Gpus
    BY <2>3 DEF CoresInv, PinThreads, StartPhase, EndPhase
  <2>5. \A g \in Gpus : \/ cpus'[g] = cpus[g]
                        \/ cpus'[g] \in {<<>>, PollerCpus(g)}
                        \/ Parallel /\ cpus'[g] = Append(PollerCpus(g), ControlCpu(g))
    BY <2>3 DEF CoresInv, PinThreads, StartPhase, EndPhase
  <2>6. QED
    BY <2>1, <2>2, <2>4, <2>5 DEF CoresInv
<1>3. CoresInv => CoresApart
  <2> SUFFICES ASSUME CoresInv
               PROVE  CoresApart
    OBVIOUS
  <2>1. ASSUME NEW g \in Gpus, NEW h \in Gpus, OwnCores(g), OwnCores(h),
               NEW i \in DOMAIN cpus[g], NEW j \in DOMAIN cpus[h],
               cpus[g][i] = cpus[h][j]
        PROVE  g = h /\ i = j
    <3>1. CASE g = h
      BY <2>1, <3>1, OwnThreads
    <3>2. CASE g # h
      <4>1. g < h \/ h < g
        BY <3>2, TopologyAssumption DEF Gpus
      <4>2. \/ FirstCpu(g) + OwnCount(g) <= FirstCpu(h)
            \/ FirstCpu(h) + OwnCount(h) <= FirstCpu(g)
        BY <2>1, <4>1, OwnApart
      <4>3. /\ FirstCpu(g) \in Nat /\ OwnCount(g) \in Nat /\ FirstCpu(h) \in Nat
            /\ OwnCount(h) \in Nat /\ cpus[g][i] \in Nat
            /\ FirstCpu(g) <= cpus[g][i] /\ cpus[g][i] <= FirstCpu(g) + OwnCount(g) - 1
            /\ FirstCpu(h) <= cpus[h][j] /\ cpus[h][j] <= FirstCpu(h) + OwnCount(h) - 1
        BY <2>1, OwnThreads
      <4>4. QED
        BY <2>1, <4>2, <4>3
    <3>3. QED
      BY <3>1, <3>2
  <2>2. ASSUME NEW g \in Gpus, program[g] = "topology", OwnCores(g),
               NEW i \in DOMAIN cpus[g]
        PROVE  /\ cpus[g][i] \in CpuStart(machine, g)..CpuEnd(machine, g)
               /\ machine.nodes >= 2 \/ machine.sysfs[g] = 0 =>
                    cpus[g][i] < machine.nodes * machine.cores
    <3>1. ~Parallel /\ Sane(machine)
      BY <2>2 DEF Parallel, CoresInv
    <3>2. /\ cpus[g][i] \in Nat /\ BaseCpu(machine, g) <= cpus[g][i]
          /\ cpus[g][i] <= BaseCpu(machine, g) + Share(machine, g) - 1
      BY <2>2, <3>1, OwnThreads DEF FirstCpu, OwnCount
    <3>3. /\ CpuStart(machine, g) \in Nat /\ CpuStart(machine, g) <= BaseCpu(machine, g)
          /\ Share(machine, g) \in Nat /\ BaseCpu(machine, g) \in Nat
          /\ machine.cores \in Nat
          /\ CpuEnd(machine, g) = CpuStart(machine, g) + machine.cores - 1
          /\ BaseCpu(machine, g) + Share(machine, g) - 1 <= CpuEnd(machine, g)
      BY <3>1, ShareOnNode
    <3>4. cpus[g][i] \in CpuStart(machine, g)..CpuEnd(machine, g)
      BY <3>2, <3>3
    <3>5. ASSUME machine.nodes >= 2 \/ machine.sysfs[g] = 0
          PROVE  cpus[g][i] < machine.nodes * machine.cores
      <4>1. CpuEnd(machine, g) < machine.nodes * machine.cores
        BY <3>1, <3>5, NodeExists
      <4>2. machine.nodes * machine.cores \in Int
        BY <3>1 DEF Sane
      <4>3. QED
        BY <3>2, <3>3, <4>1, <4>2
    <3>6. QED
      BY <3>4, <3>5
  <2>3. QED
    BY <2>1, <2>2 DEF CoresApart
<1>4. QED
  BY <1>1, <1>2, <1>3, PTL DEF Spec

-----------------------------------------------------------------------------
(* The configuration of a tiled session *)

\* The powers of two that rounding knows, for a tile of at most 2^16 tokens.
Powers == {1, 2, 4, 8, 16, 32, 64, 128, 256, 512, 1024, 2048, 4096, 8192, 16384,
           32768, 65536}

\* They are what PowerOfTwoBelow chooses from.
LEMMA PowersAre ==
  ASSUME NEW n \in Nat
  PROVE  {2^k : k \in {j \in 0..16 : 2^j <= n}} = {p \in Powers : p <= n}
<1>1. /\ 2^0 = 1 /\ 2^1 = 2 /\ 2^2 = 4 /\ 2^3 = 8 /\ 2^4 = 16 /\ 2^5 = 32
      /\ 2^6 = 64 /\ 2^7 = 128 /\ 2^8 = 256 /\ 2^9 = 512 /\ 2^10 = 1024
      /\ 2^11 = 2048 /\ 2^12 = 4096 /\ 2^13 = 8192 /\ 2^14 = 16384
      /\ 2^15 = 32768 /\ 2^16 = 65536
  OBVIOUS
<1>2. \A j \in 0..16 : 2^j \in Powers
  <2>1. 2^0 \in Powers /\ 2^1 \in Powers /\ 2^2 \in Powers /\ 2^3 \in Powers
        /\ 2^4 \in Powers /\ 2^5 \in Powers /\ 2^6 \in Powers /\ 2^7 \in Powers
        /\ 2^8 \in Powers /\ 2^9 \in Powers /\ 2^10 \in Powers
        /\ 2^11 \in Powers /\ 2^12 \in Powers /\ 2^13 \in Powers
        /\ 2^14 \in Powers /\ 2^15 \in Powers /\ 2^16 \in Powers
    BY <1>1 DEF Powers
  <2>2. \A j \in 0..16 :
          j = 0 \/ j = 1 \/ j = 2 \/ j = 3 \/ j = 4 \/ j = 5 \/ j = 6 \/ j = 7
          \/ j = 8 \/ j = 9 \/ j = 10 \/ j = 11 \/ j = 12 \/ j = 13 \/ j = 14
          \/ j = 15 \/ j = 16
    OBVIOUS
  <2>3. QED
    BY <2>1, <2>2, Zenon
<1>3. \A p \in Powers : \E j \in 0..16 : 2^j = p
  <2>1. \A p \in Powers :
          p = 2^0 \/ p = 2^1 \/ p = 2^2 \/ p = 2^3 \/ p = 2^4 \/ p = 2^5
          \/ p = 2^6 \/ p = 2^7 \/ p = 2^8 \/ p = 2^9 \/ p = 2^10 \/ p = 2^11
          \/ p = 2^12 \/ p = 2^13 \/ p = 2^14 \/ p = 2^15 \/ p = 2^16
    BY <1>1 DEF Powers
  <2>2. 0 \in 0..16 /\ 1 \in 0..16 /\ 2 \in 0..16 /\ 3 \in 0..16 /\ 4 \in 0..16
        /\ 5 \in 0..16 /\ 6 \in 0..16 /\ 7 \in 0..16 /\ 8 \in 0..16
        /\ 9 \in 0..16 /\ 10 \in 0..16 /\ 11 \in 0..16 /\ 12 \in 0..16
        /\ 13 \in 0..16 /\ 14 \in 0..16 /\ 15 \in 0..16 /\ 16 \in 0..16
    OBVIOUS
  <2>3. QED
    BY <2>1, <2>2, Zenon
<1>4. QED
  BY <1>2, <1>3

\* PowerOfTwoBelow is the largest of them that is not above its argument.
LEMMA PowerBelow ==
  ASSUME NEW n \in Nat, n >= 1
  PROVE  /\ PowerOfTwoBelow(n) \in Powers /\ PowerOfTwoBelow(n) <= n
         /\ \A p \in Powers : p <= n => p <= PowerOfTwoBelow(n)
<1> DEFINE S == {p \in Powers : p <= n}
<1>1. PowerOfTwoBelow(n) = Max(S)
  BY PowersAre DEF PowerOfTwoBelow
<1>2. \E x \in S : \A y \in S : x >= y
  <2>1. PICK x \in Powers : x <= n /\ \A y \in Powers : y <= n => x >= y
    BY DEF Powers
  <2>2. QED
    BY <2>1
<1>3. Max(S) \in S /\ \A y \in S : Max(S) >= y
  BY <1>2 DEF Max
<1>4. QED
  BY <1>1, <1>3 DEF Powers

\* A power of two divides the larger ones, and the eighth of one is one.
LEMMA PowersDivide ==
  ASSUME NEW t \in Powers, NEW p \in Powers, p <= t
  PROVE  /\ t % p = 0 /\ t \div p \in Nat
         /\ t \div 8 <= p => t \div p <= 8
         /\ t \div 8 >= 1 => t \div 8 \in Powers
<1>1. CASE p \in {1, 2, 4, 8, 16, 32}
  BY <1>1 DEF Powers
<1>2. CASE p \in {64, 128, 256, 512, 1024, 2048}
  BY <1>2 DEF Powers
<1>3. CASE p \in {4096, 8192, 16384, 32768, 65536}
  BY <1>3 DEF Powers
<1>4. QED
  BY <1>1, <1>2, <1>3 DEF Powers

\* The chunk found for a tile that is a power of two divides it, at most 8 times.
LEMMA TunedChunk ==
  ASSUME NEW c \in ConfigShape, NotEmpty(c),
         c.tokens_per_tile = PowerOfTwoBelow(c.tokens_per_tile)
  PROVE  /\ c.tokens_per_tile % AutoChunk(c) = 0
         /\ c.tokens_per_tile \div AutoChunk(c) \in 0..8
<1> DEFINE t == c.tokens_per_tile
           x == TargetBytes(c) \div c.token_size
           y == Max({x, 4})
           q == t \div 8
           m == Max({Clipped(c), q})
           p == AutoChunk(c)
<1>1. t \in Nat /\ t >= 1 /\ c.token_size \in Nat /\ c.token_size >= 1
  BY DEF ConfigShape, NotEmpty
<1>2. t \in Powers
  BY <1>1, PowerBelow
<1>3. x \in Nat
  <2>1. TargetBytes(c) \in Nat
    BY DEF TargetBytes, KB
  <2>2. QED
    BY <1>1, <2>1
<1>4. y \in Nat /\ y >= 4
  <2> HIDE DEF x
  <2>1. y = IF x >= 4 THEN x ELSE 4
    BY <1>3, MaxOfTwo
  <2>2. QED
    BY <1>3, <2>1
<1>5. Clipped(c) = Min({y, t})
  BY DEF Clipped
<1> HIDE DEF x, y, t
<1>6. Clipped(c) \in Nat /\ Clipped(c) >= 1 /\ Clipped(c) <= t
  <2>1. y \in Int /\ t \in Int
    BY <1>1, <1>4
  <2>2. Min({y, t}) \in {y, t} /\ Min({y, t}) <= y /\ Min({y, t}) <= t
    BY <2>1, MinOfTwo
  <2>3. Clipped(c) \in {y, t} /\ Clipped(c) <= t
    BY <1>5, <2>2
  <2>4. QED
    BY <1>1, <1>4, <2>3
<1>7. q \in Nat /\ q <= t
  BY <1>1
<1>8. m = IF Clipped(c) >= q THEN Clipped(c) ELSE q
  <2> HIDE DEF q
  <2>1. QED
    BY <1>6, <1>7, MaxOfTwo
<1>9. m \in Nat /\ m >= 1 /\ m <= t /\ q <= m
  <2> HIDE DEF q, m
  <2>1. QED
    BY <1>1, <1>6, <1>7, <1>8
<1>10. p = PowerOfTwoBelow(m)
  BY DEF AutoChunk, t
<1> HIDE DEF m, p
<1>11. p \in Powers /\ p <= m /\ \A r \in Powers : r <= m => r <= p
  BY <1>9, <1>10, PowerBelow
<1>12. p \in Nat /\ p >= 1
  BY <1>11 DEF Powers
<1>13. p <= t
  BY <1>1, <1>9, <1>11, <1>12
<1>14. t % p = 0 /\ t \div p \in Nat /\ (q <= p => t \div p <= 8) /\ (q >= 1 => q \in Powers)
  BY <1>2, <1>11, <1>13, PowersDivide
<1>15. q <= p
  <2>1. CASE q >= 1
    BY <1>9, <1>11, <1>14, <2>1
  <2>2. CASE q < 1
    BY <1>7, <1>12, <2>2
  <2>3. QED
    BY <1>7, <2>1, <2>2
<1>16. t % p = 0 /\ t \div p \in 0..8
  BY <1>14, <1>15
<1>17. QED
  BY <1>16 DEF t, p

\* A session's configuration is one of those there may be.
ConfigInv == config \in [Gpus -> Configs \cup {NoConfig}]

\* Whatever the sizes of tokens and tile, a tiled session whose tile is a power of
\* two (up to 2^16) and whose chunk size is tuned is accepted by the constructor and
\* has at most 8 chunks per tile, so its blocks are never too large.
THEOREM TuningWorks == Spec => []TunedSessionWorks
<1>1. Init => ConfigInv
  BY DEF Init, ConfigInv
<1>2. ConfigInv /\ [Next]_vars => ConfigInv'
  <2> SUFFICES ASSUME ConfigInv, [Next]_vars
               PROVE  ConfigInv'
    OBVIOUS
  <2>1. \/ config' = config
        \/ \E g \in Gpus : \E c \in Configs \cup {NoConfig} :
             config' = [config EXCEPT ![g] = c]
    BY DEF Next, Life, CreateSession, CreatePoller, CreateDirect, PoolInit, CheckPool,
         AcquireBuffers, GetBuffers, AllocateOwn, Run, Stop, CleanUp, Destroy, Shutdown,
         CreateAgain, Thread, LoadGeneration, AddWaiting, Release, Spin, Work,
         StartPhase, EndPhase, Exit, Ended, vars, lifeVars
  <2>2. QED
    BY <2>1 DEF ConfigInv
<1>3. ConfigInv => TunedSessionWorks
  <2> SUFFICES ASSUME ConfigInv, NEW g \in Gpus, config[g] # NoConfig,
                      AutoTuned(config[g]), NotEmpty(config[g]),
                      config[g].tokens_per_tile =
                        PowerOfTwoBelow(config[g].tokens_per_tile)
               PROVE  /\ Accepted(config[g])
                      /\ ChunksPerTile(config[g]) <= 8 /\ BlockSize(config[g]) <= 1024
    BY DEF TunedSessionWorks
  <2>1. PICK c \in ConfigShape : c = config[g]
    BY MultiGpuAssumption DEF ConfigInv
  <2>2. EffectiveTokensPerChunk(c) = AutoChunk(c)
    BY <2>1 DEF EffectiveTokensPerChunk, AutoTuned
  <2>3. c.tokens_per_tile % AutoChunk(c) = 0 /\ c.tokens_per_tile \div AutoChunk(c) \in 0..8
    BY <2>1, TunedChunk
  <2>4. Accepted(c)
    BY <2>1, <2>2, <2>3 DEF Accepted
  <2>5. ChunksPerTile(c) \in 0..8
    BY <2>2, <2>3 DEF ChunksPerTile
  <2>6. BlockSize(c) <= 1024
    BY <2>5 DEF BlockSize
  <2>7. QED
    BY <2>1, <2>4, <2>5, <2>6
<1>4. QED
  BY <1>1, <1>2, <1>3, PTL DEF Spec
=============================================================================
