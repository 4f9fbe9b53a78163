------------------------ MODULE DescriptorQueueProofs ------------------------
(* Machine-checked proofs about the descriptor ring. *)
EXTENDS DescriptorQueue, TLAPS

\* Facts about slot % QUEUE_SIZE, the place of a slot in the ring.
LEMMA IndexInRing == \A s \in Nat : Index(s) \in Ring
  BY QueueAssumption DEF Index, Ring

\* Two slots less than a lap apart have different places in the ring.
LEMMA IndexInjective ==
  ASSUME NEW s \in Nat, NEW t \in Nat, s < t, t < s + QUEUE_SIZE
  PROVE  Index(s) # Index(t)
<1> DEFINE Q == QUEUE_SIZE
<1>1. Q \in Nat /\ Q > 0
  BY QueueAssumption
<1> DEFINE a == s \div Q
           b == t \div Q
<1>2. /\ a \in Int /\ b \in Int
      /\ s = Q * a + (s % Q)
      /\ t = Q * b + (t % Q)
  BY <1>1
<1>3. SUFFICES ASSUME s % Q = t % Q PROVE FALSE
  BY DEF Index
<1>4. t - s = Q * b - Q * a
  BY <1>1, <1>2, <1>3
<1> HIDE DEF a, b
<1>5. Q * b - Q * a = Q * (b - a)
  BY <1>1, <1>2
<1>6. CASE b - a <= 0
  <2>1. Q * (b - a) <= 0
    BY <1>1, <1>2, <1>6
  <2> QED BY <2>1, <1>1, <1>2, <1>4, <1>5
<1>7. CASE b - a >= 1
  <2>1. Q * (b - a) >= Q
    BY <1>1, <1>2, <1>7
  <2> QED BY <2>1, <1>1, <1>2, <1>4, <1>5
<1> QED BY <1>2, <1>6, <1>7

-----------------------------------------------------------------------------
\* The initial state satisfies the invariant.
LEMMA InitInv == Init => IndInv
<1> SUFFICES ASSUME Init PROVE IndInv
  OBVIOUS
<1>1. TypeOK
  BY QueueAssumption DEF Init, TypeOK, NoSlot
<1>2. ProducerInv
  BY DEF Init, ProducerInv, Storing
<1>3. StoredInv
  BY DEF Init, StoredInv
<1>4. MarkerInv
  BY DEF Init, MarkerInv
<1>5. PollerInv
  BY DEF Init, PollerInv
<1>6. NoCommitLost
  BY DEF Init, NoCommitLost
<1>7. DeliveredIntact
  BY DEF Init, DeliveredIntact
<1> QED BY <1>1, <1>2, <1>3, <1>4, <1>5, <1>6, <1>7 DEF IndInv

\* The slots of a producer's chunk are natural numbers with a place.
LEMMA SlotOfChunk ==
  ASSUME TypeOK, NEW b \in Blocks, NEW i \in Offsets
  PROVE  /\ chunk_base[b] + i \in Nat
         /\ Index(chunk_base[b] + i) \in Ring
<1>1. chunk_base[b] \in Nat /\ i \in Nat
  BY QueueAssumption DEF TypeOK, Offsets
<1> QED BY <1>1, IndexInRing

\* Type correctness needs nothing but itself.
LEMMA TypeStep == TypeOK /\ [Next]_vars => TypeOK'
<1> SUFFICES ASSUME TypeOK, [Next]_vars PROVE TypeOK'
  OBVIOUS
<1> USE QueueAssumption, IndexInRing DEF TypeOK, pollerVars, producerVars, Offsets
<1>1. ASSUME NEW b \in Blocks, AcquireSlots(b) PROVE TypeOK'
  <2>1. (Offsets \X Fields) \in SUBSET (Offsets \X Fields) /\ write_idx + C \in Nat
    OBVIOUS
  <2>2. unwritten' \in [Blocks -> SUBSET (Offsets \X Fields)]
    <3> HIDE DEF Offsets
    <3> QED BY <1>1, <2>1 DEF AcquireSlots
  <2> QED BY <1>1, <2>1, <2>2 DEF AcquireSlots
<1>2. ASSUME NEW b \in Blocks, WaitSpace(b) PROVE TypeOK'
  BY <1>2 DEF WaitSpace
<1>3. ASSUME NEW b \in Blocks, NEW i \in Offsets, NEW f \in Fields,
             WriteField(b, i, f) PROVE TypeOK'
  <2> DEFINE s == chunk_base[b] + i
  <2>1. s \in Nat
    BY SlotOfChunk
  <2>2. fields' \in [Ring -> [Fields -> Int]]
    <3>1. Index(s) \in Ring /\ s \in Int
      BY <2>1
    <3>2. fields' = [fields EXCEPT ![Index(s)] = [@ EXCEPT ![f] = s]]
      BY <1>3 DEF WriteField
    <3> HIDE DEF s
    <3>3. [fields[Index(s)] EXCEPT ![f] = s] \in [Fields -> Int]
      BY <3>1
    <3> QED BY <3>1, <3>2, <3>3
  <2>3. unwritten' \in [Blocks -> SUBSET (Offsets \X Fields)]
    BY <1>3 DEF WriteField
  <2> QED BY <1>3, <2>2, <2>3 DEF WriteField
<1>4. ASSUME NEW b \in Blocks, PreCommitFence(b) PROVE TypeOK'
  BY <1>4 DEF PreCommitFence
<1>5. ASSUME NEW b \in Blocks, NEW i \in Offsets, CommitSlot(b, i) PROVE TypeOK'
  <2> DEFINE s == chunk_base[b] + i
  <2>1. s \in Nat /\ Index(s) \in Ring
    BY SlotOfChunk
  <2>2. sequence' \in [Ring -> Nat]
    <3>1. sequence' = [sequence EXCEPT ![Index(s)] = s + 1]
      BY <1>5 DEF CommitSlot
    <3> HIDE DEF s
    <3> QED BY <2>1, <3>1
  <2>3. uncommitted' \in [Blocks -> SUBSET Offsets]
    BY <1>5 DEF CommitSlot
  <2> QED BY <1>5, <2>2, <2>3 DEF CommitSlot
<1>6. ASSUME NEW b \in Blocks, PostCommitFence(b) PROVE TypeOK'
  BY <1>6 DEF PostCommitFence
<1>7. CASE PollSequence
  BY <1>7 DEF PollSequence
<1>8. ASSUME NEW f \in Fields, CopyField(f) PROVE TypeOK'
  BY <1>8 DEF CopyField
<1>9. CASE ClearSequence
  BY <1>9 DEF ClearSequence
<1>10. CASE AdvanceReadIdx
  <2>1. read_idx' \in Nat
    BY <1>10 DEF AdvanceReadIdx
  <2>2. consumed' \in Seq([Fields -> Int])
    BY <1>10 DEF AdvanceReadIdx
  <2> QED BY <1>10, <2>1, <2>2 DEF AdvanceReadIdx
<1>11. CASE UNCHANGED vars
  BY <1>11 DEF vars
<1> QED
  BY <1>1, <1>2, <1>3, <1>4, <1>5, <1>6, <1>7, <1>8, <1>9, <1>10, <1>11
  DEF Next, Producer, Poller, Finished

\* Every variable keeps its type, whatever the producers' space check.
THEOREM TypeCorrect == Spec => []TypeOK
<1>1. Init => TypeOK
  BY InitInv DEF IndInv
<1> QED BY <1>1, TypeStep, PTL DEF Spec

-----------------------------------------------------------------------------
\* Two different slots of one lap never share an entry.
LEMMA OneLap ==
  ASSUME NEW r \in Nat, NEW s \in Nat, NEW t \in Nat, s # t,
         r <= s, s < r + QUEUE_SIZE, r <= t, t < r + QUEUE_SIZE
  PROVE  Index(s) # Index(t)
<1>1. QUEUE_SIZE \in Nat
  BY QueueAssumption
<1>2. CASE s < t
  BY <1>1, <1>2, IndexInjective
<1>3. CASE t < s
  BY <1>1, <1>3, IndexInjective
<1> QED BY <1>2, <1>3

\* A slot that is committed and not yet copied lies within a lap of read_idx.
LEMMA CommittedInLap ==
  ASSUME IndInv, NEW t \in Nat, read_idx <= t, t < write_idx,
         ~Held(t), ~Cleared(t)
  PROVE  /\ t < read_idx + QUEUE_SIZE
         /\ sequence[Index(t)] = t + 1
         /\ fields[Index(t)] = DescOf(t)
<1>1. t \in read_idx..(write_idx - 1)
  BY DEF IndInv, TypeOK
<1>2. sequence[Index(t)] = t + 1 /\ fields[Index(t)] = DescOf(t)
  BY <1>1 DEF IndInv, NoCommitLost
<1>3. Index(t) \in Ring
  BY IndexInRing
<1>4. sequence[Index(t)] # 0
  BY <1>2
<1>5. PICK u \in read_idx..(write_idx - 1) :
        sequence[Index(t)] = u + 1 /\ u < read_idx + QUEUE_SIZE
  BY <1>3, <1>4 DEF IndInv, MarkerInv
<1> QED BY <1>2, <1>5 DEF IndInv, TypeOK

\* A slot a storing producer has not committed lies within a lap of read_idx.
LEMMA HeldInLap ==
  ASSUME IndInv, NEW b \in Blocks, NEW i \in uncommitted[b], Storing(b)
  PROVE  /\ i \in Offsets
         /\ chunk_base[b] + i \in Nat
         /\ Index(chunk_base[b] + i) \in Ring
         /\ read_idx <= chunk_base[b] + i
         /\ chunk_base[b] + i < read_idx + QUEUE_SIZE
         /\ chunk_base[b] + i < write_idx
         /\ Held(chunk_base[b] + i)
<1>1. i \in Offsets
  BY DEF IndInv, TypeOK
<1>2. chunk_base[b] + i \in Nat /\ Index(chunk_base[b] + i) \in Ring
  BY <1>1, SlotOfChunk DEF IndInv
<1>3. /\ chunk_base[b] \in Nat /\ read_idx \in Nat /\ write_idx \in Nat
      /\ QUEUE_SIZE \in Nat /\ C \in Nat /\ i \in Nat /\ i < C
  BY <1>1, QueueAssumption DEF IndInv, TypeOK, Offsets
<1>4. /\ pc[b] # "idle"
      /\ chunk_base[b] + C <= write_idx
      /\ chunk_base[b] + i >= read_idx
      /\ chunk_base[b] + C <= read_idx + QUEUE_SIZE
  BY DEF IndInv, ProducerInv, Storing
<1>5. (chunk_base[b] + i) - chunk_base[b] = i
  BY <1>3
<1>6. Held(chunk_base[b] + i)
  BY <1>4, <1>5 DEF Held
<1> QED BY <1>1, <1>2, <1>3, <1>4, <1>6

\* Two producers never hold the same slot.
LEMMA OneHolder ==
  ASSUME IndInv, NEW a \in Blocks, NEW b \in Blocks, a # b,
         pc[a] # "idle", pc[b] # "idle",
         NEW i \in uncommitted[a], NEW j \in uncommitted[b]
  PROVE  chunk_base[a] + i # chunk_base[b] + j
<1>1. /\ chunk_base[a] \in Nat /\ chunk_base[b] \in Nat
      /\ i \in 0..(C - 1) /\ j \in 0..(C - 1) /\ C \in Nat
  BY QueueAssumption DEF IndInv, TypeOK, Offsets
<1>2. \/ chunk_base[a] + C <= chunk_base[b]
      \/ chunk_base[b] + C <= chunk_base[a]
  BY DEF IndInv, ProducerInv
<1> QED BY <1>1, <1>2

-----------------------------------------------------------------------------
(* One lemma per action: it preserves every part of IndInv but its type. *)

Preserved == /\ ProducerInv' /\ StoredInv' /\ MarkerInv'
             /\ PollerInv' /\ NoCommitLost' /\ DeliveredIntact'

\* The types the steps below compute with.
LEMMA Types ==
  ASSUME IndInv
  PROVE  /\ write_idx \in Nat /\ read_idx \in Nat /\ C \in Nat /\ C > 0
         /\ QUEUE_SIZE \in Nat /\ chunk_base \in [Blocks -> Nat]
         /\ uncommitted \in [Blocks -> SUBSET Offsets]
         /\ unwritten \in [Blocks -> SUBSET (Offsets \X Fields)]
         /\ pc \in [Blocks -> {"idle", "space", "write", "commit"}]
         /\ sequence \in [Ring -> Nat]
         /\ fields \in [Ring -> [Fields -> Int]]
         /\ copy \in [Fields -> Int] /\ uncopied \in SUBSET Fields
         /\ Offsets = 0..(C - 1)
         /\ read_idx <= write_idx
  BY QueueAssumption DEF IndInv, TypeOK, Offsets, PollerInv

\* An acquire hands out slots above every slot that matters so far.
LEMMA AcquireSlotsStep ==
  ASSUME IndInv, NEW b \in Blocks, AcquireSlots(b)
  PROVE  Preserved
<1>1. /\ write_idx \in Nat /\ read_idx \in Nat /\ C \in Nat /\ C > 0
      /\ QUEUE_SIZE \in Nat /\ chunk_base \in [Blocks -> Nat]
      /\ uncommitted \in [Blocks -> SUBSET Offsets]
      /\ unwritten \in [Blocks -> SUBSET (Offsets \X Fields)]
      /\ pc \in [Blocks -> {"idle", "space", "write", "commit"}]
      /\ Offsets = 0..(C - 1)
      /\ read_idx <= write_idx
  BY Types
<1>2. /\ pc[b] = "idle" /\ uncommitted[b] = {}
      /\ write_idx' = write_idx + C
      /\ pc' = [pc EXCEPT ![b] = "space"]
      /\ chunk_base' = [chunk_base EXCEPT ![b] = write_idx]
      /\ uncommitted' = [uncommitted EXCEPT ![b] = Offsets]
      /\ unwritten' = [unwritten EXCEPT ![b] = Offsets \X Fields]
      /\ UNCHANGED <<read_idx, fields, sequence, poll_pc, copy, uncopied,
                     consumed>>
  BY DEF AcquireSlots, pollerVars, IndInv, ProducerInv
<1>3. \A t \in Nat : t < write_idx => (Held(t)' => Held(t))
  <2> SUFFICES ASSUME NEW t \in Nat, t < write_idx, NEW a \in Blocks,
                      pc'[a] # "idle", t - chunk_base'[a] \in uncommitted'[a]
               PROVE  Held(t)
    BY DEF Held
  <2>1. CASE a = b
    BY <2>1, <1>1, <1>2
  <2>2. CASE a # b
    BY <2>2, <1>1, <1>2 DEF Held
  <2> QED BY <2>1, <2>2
<1>4. \A t \in write_idx..(write_idx' - 1) : Held(t)'
  <2> SUFFICES ASSUME NEW t \in write_idx..(write_idx' - 1)
               PROVE  pc'[b] # "idle" /\ t - chunk_base'[b] \in uncommitted'[b]
    BY DEF Held
  <2> QED BY <1>1, <1>2
<1>5. ProducerInv'
  <2> SUFFICES ASSUME NEW a \in Blocks
               PROVE  ProducerInv!(a)'
    BY DEF ProducerInv
  <2> QED BY <1>1, <1>2 DEF IndInv, ProducerInv, Storing
<1>6. StoredInv'
  BY <1>1, <1>2 DEF IndInv, StoredInv, Storing
<1>7. MarkerInv'
  BY <1>1, <1>2, <1>3 DEF IndInv, MarkerInv, Cleared, TypeOK
<1>8. PollerInv'
  BY <1>1, <1>2, <1>3 DEF IndInv, PollerInv
<1>9. NoCommitLost'
  <2> SUFFICES ASSUME NEW t \in read_idx'..(write_idx' - 1),
                      ~Held(t)', ~Cleared(t)'
               PROVE  /\ sequence'[Index(t)] = t + 1
                      /\ fields'[Index(t)] = DescOf(t)
    BY DEF NoCommitLost
  <2>1. t \in Nat /\ read_idx <= t /\ t < write_idx
    BY <1>1, <1>2, <1>4
  <2>2. ~Held(t) /\ ~Cleared(t)
    <3>1. Held(t) => Held(t)'
      BY <1>1, <1>2 DEF Held
    <3> QED BY <3>1, <1>2 DEF Cleared
  <2> QED BY <2>1, <2>2, <1>2, CommittedInLap
<1>10. DeliveredIntact'
  BY <1>2 DEF IndInv, DeliveredIntact
<1> QED BY <1>5, <1>6, <1>7, <1>8, <1>9, <1>10 DEF Preserved

\* A step of a producer that holds the same slots before and after it, and
\* touches neither the ring nor the poller, disturbs only ProducerInv and
\* StoredInv.
LEMMA QuietStep ==
  ASSUME IndInv, ProducerInv', StoredInv',
         \A t \in Nat : Held(t)' = Held(t),
         UNCHANGED <<write_idx, read_idx, fields, sequence, poll_pc, copy,
                     uncopied, consumed>>
  PROVE  Preserved
<1>1. MarkerInv'
  BY Types DEF IndInv, MarkerInv, Cleared
<1>2. PollerInv'
  BY Types DEF IndInv, PollerInv
<1>3. NoCommitLost'
  BY Types DEF IndInv, NoCommitLost, Cleared
<1>4. DeliveredIntact'
  BY DEF IndInv, DeliveredIntact
<1> QED BY <1>1, <1>2, <1>3, <1>4 DEF Preserved

\* The wait for room is what puts a storing producer within a lap of read_idx.
LEMMA WaitSpaceStep ==
  ASSUME IndInv, NEW b \in Blocks, WaitSpace(b)
  PROVE  Preserved
<1>1. /\ pc[b] = "space" /\ pc' = [pc EXCEPT ![b] = "write"]
      /\ UNCHANGED <<write_idx, read_idx, fields, sequence, poll_pc, copy,
                     uncopied, consumed, chunk_base, unwritten, uncommitted>>
  BY DEF WaitSpace, pollerVars
<1>2. chunk_base[b] + C <= read_idx + QUEUE_SIZE
  <2>1. HasRoom(b)
    BY DEF WaitSpace
  <2>2. chunk_base[b] + C - read_idx <= QUEUE_SIZE
    BY <2>1 DEF HasRoom
  <2> QED BY <2>2, Types
<1>3. unwritten[b] = Offsets \X Fields /\ uncommitted[b] = Offsets
  BY <1>1 DEF IndInv, ProducerInv
<1>4. ProducerInv'
  BY <1>1, <1>2, <1>3, Types DEF IndInv, ProducerInv, Storing
<1>5. StoredInv'
  BY <1>1, <1>3, Types DEF IndInv, StoredInv, Storing
<1>6. \A t \in Nat : Held(t)' = Held(t)
  BY <1>1, Types DEF Held
<1> QED BY <1>1, <1>4, <1>5, <1>6, QuietStep

\* As every lane fences, no marker is stored while a field is outstanding.
LEMMA PreCommitFenceStep ==
  ASSUME IndInv, NEW b \in Blocks, PreCommitFence(b)
  PROVE  Preserved
<1>1. /\ pc[b] = "write" /\ pc' = [pc EXCEPT ![b] = "commit"]
      /\ UNCHANGED <<write_idx, read_idx, fields, sequence, poll_pc, copy,
                     uncopied, consumed, chunk_base, unwritten, uncommitted>>
  BY DEF PreCommitFence, pollerVars
<1>2. unwritten[b] = {}
  BY DEF PreCommitFence
<1>3. ProducerInv'
  BY <1>1, <1>2, Types DEF IndInv, ProducerInv, Storing
<1>4. StoredInv'
  BY <1>1, Types DEF IndInv, StoredInv, Storing
<1>5. \A t \in Nat : Held(t)' = Held(t)
  BY <1>1, Types DEF Held
<1> QED BY <1>1, <1>3, <1>4, <1>5, QuietStep

\* A producer that goes idle holds nothing any more.
LEMMA PostCommitFenceStep ==
  ASSUME IndInv, NEW b \in Blocks, PostCommitFence(b)
  PROVE  Preserved
<1>1. /\ pc[b] = "commit" /\ uncommitted[b] = {} /\ unwritten[b] = {}
      /\ pc' = [pc EXCEPT ![b] = "idle"]
      /\ UNCHANGED <<write_idx, read_idx, fields, sequence, poll_pc, copy,
                     uncopied, consumed, chunk_base, unwritten, uncommitted>>
  BY DEF PostCommitFence, pollerVars
<1>2. ProducerInv'
  BY <1>1, Types DEF IndInv, ProducerInv, Storing
<1>3. StoredInv'
  BY <1>1, Types DEF IndInv, StoredInv, Storing
<1>4. \A t \in Nat : Held(t)' = Held(t)
  BY <1>1, Types DEF Held
<1> QED BY <1>1, <1>2, <1>3, <1>4, QuietStep

\* A field store lands in an entry no other live slot of the lap uses.
LEMMA WriteFieldStep ==
  ASSUME IndInv, NEW b \in Blocks, NEW i \in Offsets, NEW f \in Fields,
         WriteField(b, i, f)
  PROVE  Preserved
<1> DEFINE s == chunk_base[b] + i
<1>1. /\ <<i, f>> \in unwritten[b]
      /\ fields' = [fields EXCEPT ![Index(s)] = [@ EXCEPT ![f] = s]]
      /\ unwritten' = [unwritten EXCEPT ![b] = @ \ {<<i, f>>}]
      /\ UNCHANGED <<write_idx, read_idx, sequence, poll_pc, copy, uncopied,
                     consumed, chunk_base, uncommitted, pc>>
  BY DEF WriteField, pollerVars
<1>2. pc[b] = "write" /\ Storing(b) /\ i \in uncommitted[b]
  BY <1>1 DEF WriteField, IndInv, ProducerInv, Storing
<1>3. /\ s \in Nat /\ Index(s) \in Ring /\ Held(s)
      /\ read_idx <= s /\ s < read_idx + QUEUE_SIZE
  BY <1>2, HeldInLap
<1> HIDE DEF s
<1>4. \A t \in Nat : Held(t)' = Held(t)
  BY <1>1 DEF Held
<1>5. ProducerInv'
  BY <1>1, <1>2, Types DEF IndInv, ProducerInv, Storing
<1>6. StoredInv'
  <2> SUFFICES ASSUME NEW c \in Blocks, NEW j \in uncommitted[c],
                      NEW g \in Fields, Storing(c), <<j, g>> \notin unwritten'[c]
               PROVE  fields'[Index(chunk_base[c] + j)][g] = chunk_base[c] + j
    BY <1>1 DEF StoredInv, Storing
  <2> DEFINE t == chunk_base[c] + j
  <2>1. /\ t \in Nat /\ Index(t) \in Ring /\ j \in Offsets
        /\ read_idx <= t /\ t < read_idx + QUEUE_SIZE
    BY HeldInLap
  <2>2. CASE t = s /\ g = f
    BY <2>1, <2>2, <1>1, <1>3, Types
  <2>3. CASE t = s /\ g # f
    <3>1. c = b
      <4> SUFFICES ASSUME c # b PROVE FALSE
        OBVIOUS
      <4> QED BY <2>3, <1>2, OneHolder DEF s, Storing
    <3>2. j = i
      BY <3>1, <2>1, <2>3, Types DEF s
    <3>3. <<j, g>> \notin unwritten[c]
      BY <3>1, <3>2, <2>3, <1>1, Types
    <3>4. fields[Index(t)][g] = t
      BY <3>3 DEF IndInv, StoredInv
    <3> QED BY <3>4, <2>1, <2>3, <1>1, <1>3, Types
  <2>4. CASE t # s
    <3>1. Index(t) # Index(s)
      BY <2>1, <2>4, <1>3, Types, OneLap
    <3>2. <<j, g>> \notin unwritten[c]
      <4>1. CASE c = b
        <5>1. j # i
          BY <4>1, <2>4 DEF s
        <5> QED BY <5>1, <4>1, <1>1, Types
      <4>2. CASE c # b
        BY <4>2, <1>1, Types
      <4> QED BY <4>1, <4>2
    <3>3. fields[Index(t)][g] = t
      BY <3>2 DEF IndInv, StoredInv
    <3> QED BY <3>1, <3>3, <2>1, <1>1, <1>3, Types
  <2> QED BY <2>2, <2>3, <2>4
<1>7. NoCommitLost'
  <2> SUFFICES ASSUME NEW t \in read_idx..(write_idx - 1), ~Held(t)', ~Cleared(t)
               PROVE  /\ sequence[Index(t)] = t + 1
                      /\ fields'[Index(t)] = DescOf(t)
    BY <1>1 DEF NoCommitLost, Cleared
  <2>1. /\ t \in Nat /\ read_idx <= t /\ t < write_idx
        /\ ~Held(t) /\ t # s
    BY <1>3, <1>4, Types
  <2>2. /\ t < read_idx + QUEUE_SIZE /\ sequence[Index(t)] = t + 1
        /\ fields[Index(t)] = DescOf(t)
    BY <2>1, CommittedInLap
  <2>3. Index(t) # Index(s) /\ Index(t) \in Ring
    BY <2>1, <2>2, <1>3, Types, OneLap, IndexInRing
  <2> QED BY <2>2, <2>3, <1>1, <1>3, Types
<1>8. MarkerInv'
  <2>1. \A t \in Nat : Cleared(t)' = Cleared(t)
    BY <1>1 DEF Cleared
  <2>2. \A t \in read_idx..(write_idx - 1) : t \in Nat
    BY Types
  <2> QED BY <1>1, <1>4, <2>1, <2>2 DEF IndInv, MarkerInv
<1>9. PollerInv'
  BY <1>1, <1>4, Types DEF IndInv, PollerInv
<1>10. DeliveredIntact'
  BY <1>1 DEF IndInv, DeliveredIntact
<1> QED BY <1>5, <1>6, <1>7, <1>8, <1>9, <1>10 DEF Preserved

\* A marker goes to an entry whose fields are all stored, and erases no other.
LEMMA CommitSlotStep ==
  ASSUME IndInv, NEW b \in Blocks, NEW i \in Offsets, CommitSlot(b, i)
  PROVE  Preserved
<1> DEFINE s == chunk_base[b] + i
<1>1. /\ pc[b] = "commit" /\ i \in uncommitted[b]
      /\ sequence' = [sequence EXCEPT ![Index(s)] = s + 1]
      /\ uncommitted' = [uncommitted EXCEPT ![b] = @ \ {i}]
      /\ UNCHANGED <<write_idx, read_idx, fields, poll_pc, copy, uncopied,
                     consumed, chunk_base, unwritten, pc>>
  BY DEF CommitSlot, pollerVars
<1>2. /\ s \in Nat /\ Index(s) \in Ring /\ Held(s) /\ s < write_idx
      /\ read_idx <= s /\ s < read_idx + QUEUE_SIZE
  BY <1>1, HeldInLap DEF Storing
<1>3. fields[Index(s)] = DescOf(s)
  <2>1. unwritten[b] = {}
    BY <1>1 DEF IndInv, ProducerInv
  <2>2. \A f \in Fields : fields[Index(s)][f] = s
    BY <1>1, <2>1 DEF IndInv, StoredInv, Storing
  <2>3. fields[Index(s)] \in [Fields -> Int]
    BY <1>2, Types
  <2> QED BY <2>2, <2>3 DEF DescOf
<1>4. \A t \in Nat : Held(t)' <=> Held(t) /\ t # s
  <2> SUFFICES ASSUME NEW t \in Nat PROVE Held(t)' <=> Held(t) /\ t # s
    OBVIOUS
  <2>1. ASSUME NEW c \in Blocks, pc[c] # "idle",
               t - chunk_base[c] \in uncommitted[c], t # s
        PROVE  t - chunk_base[c] \in uncommitted'[c]
    BY <2>1, <1>1, Types
  <2>2. ASSUME NEW c \in Blocks, pc[c] # "idle",
               t - chunk_base[c] \in uncommitted'[c]
        PROVE  t - chunk_base[c] \in uncommitted[c] /\ t # s
    <3>1. t - chunk_base[c] \in uncommitted[c]
      BY <2>2, <1>1, Types
    <3>2. CASE c = b
      BY <3>1, <3>2, <2>2, <1>1, Types
    <3>3. CASE c # b
      <4>1. chunk_base[c] + (t - chunk_base[c]) # s
        BY <3>1, <3>3, <2>2, <1>1, OneHolder
      <4> QED BY <4>1, <3>1, Types
    <3> QED BY <3>1, <3>2, <3>3
  <2> QED BY <2>1, <2>2, <1>1 DEF Held
<1> HIDE DEF s
<1>5. ProducerInv'
  BY <1>1, Types DEF IndInv, ProducerInv, Storing
<1>6. StoredInv'
  BY <1>1, Types DEF IndInv, StoredInv, Storing
<1>7. ~Cleared(s)
  BY <1>2 DEF IndInv, PollerInv, Cleared
<1>8. MarkerInv'
  <2> SUFFICES ASSUME NEW k \in Ring, sequence'[k] # 0
               PROVE  \E t \in read_idx..(write_idx - 1) :
                        /\ sequence'[k] = t + 1
                        /\ Index(t) = k
                        /\ t < read_idx + QUEUE_SIZE
                        /\ ~Held(t)' /\ ~Cleared(t)
    BY <1>1 DEF MarkerInv, Cleared
  <2>1. CASE k = Index(s)
    <3>1. sequence'[k] = s + 1 /\ s \in read_idx..(write_idx - 1)
      BY <2>1, <1>1, <1>2, Types
    <3> QED BY <3>1, <2>1, <1>2, <1>4, <1>7
  <2>2. CASE k # Index(s)
    <3>1. sequence'[k] = sequence[k]
      BY <2>2, <1>1, Types
    <3>2. PICK t \in read_idx..(write_idx - 1) :
            /\ sequence[k] = t + 1 /\ Index(t) = k
            /\ t < read_idx + QUEUE_SIZE /\ ~Held(t) /\ ~Cleared(t)
      BY <3>1 DEF IndInv, MarkerInv
    <3>3. ~Held(t)'
      BY <3>2, <1>4, Types
    <3> QED BY <3>1, <3>2, <3>3
  <2> QED BY <2>1, <2>2
<1>9. PollerInv'
  <2>1. poll_pc = "copy" => sequence'[Index(read_idx)] = read_idx + 1
    <3> SUFFICES ASSUME poll_pc = "copy"
                 PROVE  sequence'[Index(read_idx)] = read_idx + 1
      OBVIOUS
    <3>1. sequence[Index(read_idx)] = read_idx + 1 /\ Index(read_idx) \in Ring
      BY Types, IndexInRing DEF IndInv, PollerInv
    <3>2. CASE s = read_idx
      BY <3>2, <1>1, <1>2, Types
    <3>3. CASE s # read_idx
      <4>1. Index(s) # Index(read_idx)
        <5>1. read_idx < read_idx + QUEUE_SIZE
          BY Types, QueueAssumption
        <5> QED BY <5>1, <3>3, <1>2, Types, OneLap
      <4> QED BY <4>1, <3>1, <1>1, Types
    <3> QED BY <3>2, <3>3
  <2> QED BY <2>1, <1>1, <1>4, Types DEF IndInv, PollerInv
<1>10. NoCommitLost'
  <2> SUFFICES ASSUME NEW t \in read_idx..(write_idx - 1), ~Held(t)', ~Cleared(t)
               PROVE  /\ sequence'[Index(t)] = t + 1
                      /\ fields[Index(t)] = DescOf(t)
    BY <1>1, Types DEF NoCommitLost, Cleared
  <2>1. t \in Nat /\ read_idx <= t /\ t < write_idx
    BY Types
  <2>2. CASE t = s
    BY <2>2, <1>1, <1>2, <1>3, Types
  <2>3. CASE t # s
    <3>1. ~Held(t)
      BY <2>1, <2>3, <1>4
    <3>2. /\ t < read_idx + QUEUE_SIZE /\ sequence[Index(t)] = t + 1
          /\ fields[Index(t)] = DescOf(t)
      BY <2>1, <3>1, CommittedInLap
    <3>3. Index(t) # Index(s) /\ Index(t) \in Ring
      BY <2>1, <2>3, <3>2, <1>2, Types, OneLap, IndexInRing
    <3> QED BY <3>2, <3>3, <1>1, <1>2, Types
  <2> QED BY <2>2, <2>3
<1>11. DeliveredIntact'
  BY <1>1 DEF IndInv, DeliveredIntact
<1> QED BY <1>5, <1>6, <1>8, <1>9, <1>10, <1>11 DEF Preserved

\* The poller found the marker of read_idx: the entry stays until cleared.
LEMMA PollSequenceStep ==
  ASSUME IndInv, PollSequence
  PROVE  Preserved
<1>1. /\ poll_pc = "check" /\ poll_pc' = "copy" /\ uncopied' = Fields
      /\ sequence[Index(read_idx)] = read_idx + 1
      /\ UNCHANGED <<write_idx, read_idx, fields, sequence, copy, consumed,
                     chunk_base, unwritten, uncommitted, pc>>
  BY DEF PollSequence, producerVars
<1>2. \A t \in Nat : Held(t)' = Held(t)
  BY <1>1 DEF Held
<1>3. \A t \in Nat : ~Cleared(t)' /\ ~Cleared(t)
  BY <1>1 DEF Cleared
<1>4. \A t \in read_idx..(write_idx - 1) : t \in Nat
  BY Types
<1>5. ProducerInv'
  BY <1>1 DEF IndInv, ProducerInv, Storing
<1>6. StoredInv'
  BY <1>1 DEF IndInv, StoredInv, Storing
<1>7. MarkerInv'
  BY <1>1, <1>2, <1>3, <1>4 DEF IndInv, MarkerInv
<1>8. PollerInv'
  BY <1>1 DEF IndInv, PollerInv
<1>9. NoCommitLost'
  BY <1>1, <1>2, <1>3, <1>4 DEF IndInv, NoCommitLost
<1>10. DeliveredIntact'
  BY <1>1 DEF IndInv, DeliveredIntact
<1> QED BY <1>5, <1>6, <1>7, <1>8, <1>9, <1>10 DEF Preserved

\* While the entry at read_idx is being copied it is committed and whole.
LEMMA EntryAtReadIdx ==
  ASSUME IndInv, poll_pc = "copy"
  PROVE  /\ read_idx < write_idx /\ ~Held(read_idx)
         /\ fields[Index(read_idx)] = DescOf(read_idx)
<1>1. /\ sequence[Index(read_idx)] = read_idx + 1
      /\ sequence[Index(read_idx)] # 0
      /\ Index(read_idx) \in Ring
  BY Types, IndexInRing DEF IndInv, PollerInv
<1>2. PICK t \in read_idx..(write_idx - 1) :
        sequence[Index(read_idx)] = t + 1 /\ ~Held(t) /\ ~Cleared(t)
  BY <1>1 DEF IndInv, MarkerInv
<1>3. t = read_idx /\ read_idx < write_idx
  BY <1>1, <1>2, Types
<1> QED BY <1>2, <1>3, Types, CommittedInLap

\* What is copied is the field the slot's producer stored.
LEMMA CopyFieldStep ==
  ASSUME IndInv, NEW f \in Fields, CopyField(f)
  PROVE  Preserved
<1>1. /\ poll_pc = "copy" /\ f \in uncopied
      /\ copy' = [copy EXCEPT ![f] = fields[Index(read_idx)][f]]
      /\ uncopied' = uncopied \ {f}
      /\ UNCHANGED <<write_idx, read_idx, fields, sequence, poll_pc, consumed,
                     chunk_base, unwritten, uncommitted, pc>>
  BY DEF CopyField, producerVars
<1>2. fields[Index(read_idx)][f] = read_idx
  BY <1>1, EntryAtReadIdx DEF DescOf
<1>3. \A t \in Nat : Held(t)' = Held(t) /\ Cleared(t)' = Cleared(t)
  BY <1>1 DEF Held, Cleared
<1>4. \A t \in read_idx..(write_idx - 1) : t \in Nat
  BY Types
<1>5. ProducerInv'
  BY <1>1 DEF IndInv, ProducerInv, Storing
<1>6. StoredInv'
  BY <1>1 DEF IndInv, StoredInv, Storing
<1>7. MarkerInv'
  BY <1>1, <1>3, <1>4 DEF IndInv, MarkerInv
<1>8. PollerInv'
  BY <1>1, <1>2, Types DEF IndInv, PollerInv
<1>9. NoCommitLost'
  BY <1>1, <1>3, <1>4 DEF IndInv, NoCommitLost
<1>10. DeliveredIntact'
  BY <1>1 DEF IndInv, DeliveredIntact
<1> QED BY <1>5, <1>6, <1>7, <1>8, <1>9, <1>10 DEF Preserved

\* sequence = 0 is stored before any producer may use the entry again.
LEMMA ClearSequenceStep ==
  ASSUME IndInv, ClearSequence
  PROVE  Preserved
<1>1. /\ poll_pc = "copy" /\ poll_pc' = "advance" /\ uncopied = {}
      /\ sequence' = [sequence EXCEPT ![Index(read_idx)] = 0]
      /\ UNCHANGED <<write_idx, read_idx, fields, copy, uncopied, consumed,
                     chunk_base, unwritten, uncommitted, pc>>
  BY DEF ClearSequence, producerVars
<1>2. /\ read_idx < write_idx /\ ~Held(read_idx)
      /\ Index(read_idx) \in Ring
  BY <1>1, EntryAtReadIdx, Types, IndexInRing
<1>3. \A t \in Nat : /\ Held(t)' = Held(t)
                     /\ Cleared(t)' <=> t = read_idx
                     /\ ~Cleared(t)
  BY <1>1 DEF Held, Cleared
<1>4. ProducerInv'
  BY <1>1 DEF IndInv, ProducerInv, Storing
<1>5. StoredInv'
  BY <1>1 DEF IndInv, StoredInv, Storing
<1>6. MarkerInv'
  <2> SUFFICES ASSUME NEW k \in Ring, sequence'[k] # 0
               PROVE  \E t \in read_idx..(write_idx - 1) :
                        /\ sequence'[k] = t + 1
                        /\ Index(t) = k
                        /\ t < read_idx + QUEUE_SIZE
                        /\ ~Held(t)' /\ ~Cleared(t)'
    BY <1>1 DEF MarkerInv
  <2>1. k # Index(read_idx) /\ sequence'[k] = sequence[k]
    BY <1>1, <1>2, Types
  <2>2. PICK t \in read_idx..(write_idx - 1) :
          /\ sequence[k] = t + 1 /\ Index(t) = k
          /\ t < read_idx + QUEUE_SIZE /\ ~Held(t) /\ ~Cleared(t)
    BY <2>1 DEF IndInv, MarkerInv
  <2>3. ~Held(t)' /\ ~Cleared(t)'
    BY <2>1, <2>2, <1>3, Types
  <2> QED BY <2>1, <2>2, <2>3
<1>7. PollerInv'
  BY <1>1, <1>2, <1>3, Types DEF IndInv, PollerInv
<1>8. NoCommitLost'
  <2> SUFFICES ASSUME NEW t \in read_idx..(write_idx - 1), ~Held(t)', ~Cleared(t)'
               PROVE  /\ sequence'[Index(t)] = t + 1
                      /\ fields[Index(t)] = DescOf(t)
    BY <1>1 DEF NoCommitLost
  <2>1. /\ t \in Nat /\ read_idx <= t /\ t < write_idx
        /\ ~Held(t) /\ ~Cleared(t) /\ t # read_idx
    BY <1>3, Types
  <2>2. /\ t < read_idx + QUEUE_SIZE /\ sequence[Index(t)] = t + 1
        /\ fields[Index(t)] = DescOf(t)
    BY <2>1, CommittedInLap
  <2>3. Index(t) # Index(read_idx) /\ Index(t) \in Ring
    <3>1. read_idx < read_idx + QUEUE_SIZE
      BY Types, QueueAssumption
    <3> QED BY <3>1, <2>1, <2>2, Types, OneLap, IndexInRing
  <2> QED BY <2>2, <2>3, <1>1, <1>2, Types
<1>9. DeliveredIntact'
  BY <1>1 DEF IndInv, DeliveredIntact
<1> QED BY <1>4, <1>5, <1>6, <1>7, <1>8, <1>9 DEF Preserved

\* Moving read_idx gives the entry back and adds one whole descriptor.
LEMMA AdvanceReadIdxStep ==
  ASSUME IndInv, AdvanceReadIdx
  PROVE  Preserved
<1>1. /\ poll_pc = "advance" /\ poll_pc' = "check"
      /\ read_idx' = read_idx + 1
      /\ consumed' = Append(consumed, copy)
      /\ UNCHANGED <<write_idx, fields, sequence, copy, uncopied,
                     chunk_base, unwritten, uncommitted, pc>>
  BY DEF AdvanceReadIdx, producerVars
<1>2. /\ read_idx < write_idx /\ ~Held(read_idx) /\ uncopied = {}
      /\ copy = DescOf(read_idx)
  <2>1. /\ read_idx < write_idx /\ ~Held(read_idx) /\ uncopied = {}
        /\ \A f \in Fields : copy[f] = read_idx
    BY <1>1 DEF IndInv, PollerInv
  <2> QED BY <2>1, Types DEF DescOf
<1>3. \A t \in Nat : /\ Held(t)' = Held(t)
                     /\ ~Cleared(t)'
                     /\ Cleared(t) <=> t = read_idx
  BY <1>1 DEF Held, Cleared
<1>4. ProducerInv'
  <2>1. \A b \in Blocks : \A i \in uncommitted[b] :
          chunk_base[b] + i >= read_idx + 1
    <3> SUFFICES ASSUME NEW b \in Blocks, NEW i \in uncommitted[b]
                 PROVE  chunk_base[b] + i >= read_idx + 1
      OBVIOUS
    <3>1. chunk_base[b] + i >= read_idx /\ pc[b] # "idle"
      BY DEF IndInv, ProducerInv
    <3>2. chunk_base[b] + i # read_idx
      BY <1>2, <3>1, Types DEF Held
    <3> QED BY <3>1, <3>2, Types
  <2> QED BY <2>1, <1>1, Types DEF IndInv, ProducerInv, Storing
<1>5. StoredInv'
  BY <1>1 DEF IndInv, StoredInv, Storing
<1>6. MarkerInv'
  <2> SUFFICES ASSUME NEW k \in Ring, sequence[k] # 0
               PROVE  \E t \in (read_idx + 1)..(write_idx - 1) :
                        /\ sequence[k] = t + 1
                        /\ Index(t) = k
                        /\ t < read_idx + 1 + QUEUE_SIZE
                        /\ ~Held(t)' /\ ~Cleared(t)'
    BY <1>1 DEF MarkerInv
  <2>1. PICK t \in read_idx..(write_idx - 1) :
          /\ sequence[k] = t + 1 /\ Index(t) = k
          /\ t < read_idx + QUEUE_SIZE /\ ~Held(t) /\ ~Cleared(t)
    BY DEF IndInv, MarkerInv
  <2>2. /\ t \in (read_idx + 1)..(write_idx - 1)
        /\ t < read_idx + 1 + QUEUE_SIZE
        /\ ~Held(t)' /\ ~Cleared(t)'
    BY <2>1, <1>3, Types
  <2> QED BY <2>1, <2>2
<1>7. PollerInv'
  BY <1>1, <1>2, Types DEF IndInv, PollerInv
<1>8. NoCommitLost'
  <2> SUFFICES ASSUME NEW t \in (read_idx + 1)..(write_idx - 1), ~Held(t)'
               PROVE  /\ sequence[Index(t)] = t + 1
                      /\ fields[Index(t)] = DescOf(t)
    BY <1>1 DEF NoCommitLost
  <2>1. /\ t \in Nat /\ read_idx <= t /\ t < write_idx
        /\ ~Held(t) /\ ~Cleared(t)
    BY <1>3, Types
  <2> QED BY <2>1, CommittedInLap
<1>9. DeliveredIntact'
  <2>1. /\ consumed \in Seq([Fields -> Int]) /\ copy \in [Fields -> Int]
        /\ Len(consumed) = read_idx
        /\ \A n \in 1..Len(consumed) : consumed[n] = DescOf(n - 1)
    BY DEF IndInv, TypeOK, DeliveredIntact
  <2>2. Len(consumed') = read_idx + 1
    BY <2>1, <1>1
  <2> SUFFICES ASSUME NEW n \in 1..(read_idx + 1)
               PROVE  consumed'[n] = DescOf(n - 1)
    BY <2>2, <1>1 DEF DeliveredIntact
  <2>3. CASE n = read_idx + 1
    BY <2>1, <2>3, <1>1, <1>2, Types
  <2>4. CASE n # read_idx + 1
    BY <2>1, <2>4, <1>1, Types
  <2> QED BY <2>3, <2>4
<1> QED BY <1>4, <1>5, <1>6, <1>7, <1>8, <1>9 DEF Preserved

-----------------------------------------------------------------------------
(* The theorems                                                             *)

\* Every step of the ring preserves the inductive invariant.
LEMMA IndInvStep ==
  ASSUME IndInv, [Next]_vars
  PROVE  IndInv'
<1>1. TypeOK'
  BY TypeStep DEF IndInv
<1>2. CASE UNCHANGED vars
  <2>1. Preserved
    BY <1>2 DEF vars, IndInv, Preserved, ProducerInv, StoredInv, MarkerInv,
       PollerInv, NoCommitLost, DeliveredIntact, Storing, Held, Cleared
  <2> QED BY <1>1, <2>1 DEF Preserved, IndInv
<1>3. ASSUME NEW b \in Blocks, Producer(b) PROVE Preserved
  BY <1>3, AcquireSlotsStep, WaitSpaceStep, WriteFieldStep,
     PreCommitFenceStep, CommitSlotStep, PostCommitFenceStep DEF Producer
<1>4. ASSUME Poller PROVE Preserved
  BY <1>4, PollSequenceStep, CopyFieldStep, ClearSequenceStep,
     AdvanceReadIdxStep DEF Poller
<1>5. Next \/ UNCHANGED vars
  OBVIOUS
<1> QED BY <1>1, <1>2, <1>3, <1>4, <1>5 DEF Next, Finished, Preserved, IndInv

\* The inductive invariant holds in every reachable state of the ring: what
\* acquire_chunk_slots, the wait for room, commit_chunk and the consume loop of
\* polling_loop keep true together.
THEOREM RingInvariant == Spec => []IndInv
<1>1. Init => IndInv
  BY InitInv
<1>2. IndInv /\ [Next]_vars => IndInv'
  BY IndInvStep
<1> QED BY <1>1, <1>2, PTL DEF Spec

\* Whatever the ring's size, the chunk size and the number of blocks, the
\* poller's batches hold every descriptor once, in slot order and untorn.
THEOREM RingDelivers == Spec => []DeliveredIntact
<1>1. IndInv => DeliveredIntact
  BY DEF IndInv
<1> QED BY <1>1, RingInvariant, PTL

\* No committed descriptor is erased before the poller has copied it.
THEOREM RingKeepsCommits == Spec => []NoCommitLost
<1>1. IndInv => NoCommitLost
  BY DEF IndInv
<1> QED BY <1>1, RingInvariant, PTL

\* No two blocks store to one entry of the ring at the same time.
THEOREM RingEntriesUnshared == Spec => []NoSharedEntry
<1>1. IndInv => NoSharedEntry
  <2> SUFFICES ASSUME IndInv, NEW a \in Blocks, NEW b \in Blocks, a # b,
                      NEW i \in uncommitted[a], NEW j \in uncommitted[b],
                      Storing(a), Storing(b)
               PROVE  Index(chunk_base[a] + i) # Index(chunk_base[b] + j)
    BY DEF NoSharedEntry, Storing
  <2>1. chunk_base[a] + i # chunk_base[b] + j
    BY OneHolder DEF Storing
  <2>2. /\ chunk_base[a] + i \in Nat /\ read_idx <= chunk_base[a] + i
        /\ chunk_base[a] + i < read_idx + QUEUE_SIZE
    BY HeldInLap
  <2>3. /\ chunk_base[b] + j \in Nat /\ read_idx <= chunk_base[b] + j
        /\ chunk_base[b] + j < read_idx + QUEUE_SIZE
    BY HeldInLap
  <2> QED BY <2>1, <2>2, <2>3, Types, OneLap
<1> QED BY <1>1, RingInvariant, PTL
=============================================================================
