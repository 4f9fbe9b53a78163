---------------------- MODULE DescriptorQueueRefinement ----------------------
(* The descriptor ring implements SlotQueue, for every value of the constants. *)
EXTENDS DescriptorQueueProofs

\* A slot is published exactly when it was passed, or carries its marker, or
\* is the one the poller is about to step over.
LEMMA PublishedMember ==
  ASSUME IndInv, NEW t \in Nat
  PROVE  t \in PublishedSlots <=>
           \/ t < read_idx
           \/ /\ t < write_idx /\ read_idx <= t
              /\ sequence[Index(t)] = t + 1 \/ Cleared(t)
  BY Types DEF PublishedSlots

\* Only slots are published.
LEMMA PublishedNat == ASSUME IndInv PROVE PublishedSlots \subseteq Nat
  BY Types DEF PublishedSlots

\* The ring's empty start is the abstract start.
LEMMA InitRefines == Init => Abs!Init
  BY QueueAssumption DEF Init, Abs!Init, PublishedSlots, Cleared

\* An acquire reserves slots and publishes none.
LEMMA AcquireRefines ==
  ASSUME IndInv, IndInv', NEW b \in Blocks, AcquireSlots(b)
  PROVE  Abs!Reserve
<1>1. /\ write_idx' = write_idx + C
      /\ UNCHANGED <<read_idx, sequence, poll_pc, consumed>>
  BY DEF AcquireSlots, pollerVars
<1>2. \A t \in Nat : t >= write_idx => sequence[Index(t)] # t + 1
  <2> SUFFICES ASSUME NEW t \in Nat, t >= write_idx, sequence[Index(t)] = t + 1
               PROVE  FALSE
    OBVIOUS
  <2>1. Index(t) \in Ring /\ sequence[Index(t)] # 0
    BY IndexInRing
  <2>2. PICK u \in read_idx..(write_idx - 1) : sequence[Index(t)] = u + 1
    BY <2>1 DEF IndInv, MarkerInv
  <2> QED BY <2>2, Types
<1>3. \A t \in Nat : Cleared(t) => t < write_idx
  BY Types DEF Cleared, IndInv, PollerInv
<1>4. \A t \in Nat : t \in PublishedSlots' <=> t \in PublishedSlots
  <2> SUFFICES ASSUME NEW t \in Nat
               PROVE  t \in PublishedSlots' <=> t \in PublishedSlots
    OBVIOUS
  <2>1. t \in PublishedSlots' <=>
           \/ t < read_idx
           \/ /\ t < write_idx' /\ read_idx <= t
              /\ sequence[Index(t)] = t + 1 \/ Cleared(t)
    BY <1>1, Types DEF PublishedSlots, Cleared
  <2> QED BY <2>1, <1>1, <1>2, <1>3, PublishedMember, Types
<1>5. PublishedSlots' \subseteq Nat
  BY <1>1, Types DEF PublishedSlots
<1>6. PublishedSlots' = PublishedSlots
  BY <1>4, <1>5, PublishedNat
<1> QED BY <1>1, <1>6, Types DEF Abs!Reserve

\* Storing a marker publishes that slot and no other.
LEMMA CommitRefines ==
  ASSUME IndInv, NEW b \in Blocks, NEW i \in Offsets, CommitSlot(b, i)
  PROVE  Abs!Publish
<1> DEFINE s == chunk_base[b] + i
<1>1. /\ pc[b] = "commit" /\ i \in uncommitted[b]
      /\ sequence' = [sequence EXCEPT ![Index(s)] = s + 1]
      /\ UNCHANGED <<write_idx, read_idx, poll_pc, consumed>>
  BY DEF CommitSlot, pollerVars
<1>2. /\ s \in Nat /\ Index(s) \in Ring /\ Held(s) /\ s < write_idx
      /\ read_idx <= s /\ s < read_idx + QUEUE_SIZE
  BY <1>1, HeldInLap DEF Storing
<1> HIDE DEF s
<1>3. \A t \in Nat : t # s /\ read_idx <= t =>
         (sequence'[Index(t)] = t + 1 <=> sequence[Index(t)] = t + 1)
  <2> SUFFICES ASSUME NEW t \in Nat, t # s, read_idx <= t
               PROVE  sequence'[Index(t)] = t + 1 <=> sequence[Index(t)] = t + 1
    OBVIOUS
  <2>1. Index(t) \in Ring
    BY IndexInRing
  <2>2. CASE Index(t) # Index(s)
    BY <2>1, <2>2, <1>1, <1>2, Types
  <2>3. CASE Index(t) = Index(s)
    <3>1. sequence'[Index(t)] = s + 1
      BY <2>3, <1>1, <1>2, Types
    <3>2. ASSUME sequence[Index(t)] = t + 1 PROVE FALSE
      <4>1. PICK u \in read_idx..(write_idx - 1) :
              sequence[Index(t)] = u + 1 /\ u < read_idx + QUEUE_SIZE
        BY <2>1, <3>2 DEF IndInv, MarkerInv
      <4>2. t < read_idx + QUEUE_SIZE
        BY <4>1, <3>2, Types
      <4> QED BY <4>2, <2>3, <1>2, Types, OneLap
    <3> QED BY <3>1, <3>2, <1>2
  <2> QED BY <2>2, <2>3
<1>4. s \notin PublishedSlots
  <2>1. sequence[Index(s)] # s + 1
    <3> SUFFICES ASSUME sequence[Index(s)] = s + 1 PROVE FALSE
      OBVIOUS
    <3>1. PICK u \in read_idx..(write_idx - 1) :
            sequence[Index(s)] = u + 1 /\ ~Held(u)
      BY <1>2 DEF IndInv, MarkerInv
    <3>2. u = s
      BY <3>1, <1>2, Types
    <3> QED BY <3>1, <3>2, <1>2
  <2>2. ~Cleared(s)
    BY <1>2 DEF IndInv, PollerInv, Cleared
  <2> QED BY <2>1, <2>2, <1>2, PublishedMember, Types
<1>5. \A t \in Nat : t \in PublishedSlots' <=> t \in PublishedSlots \/ t = s
  <2> SUFFICES ASSUME NEW t \in Nat
               PROVE  t \in PublishedSlots' <=> t \in PublishedSlots \/ t = s
    OBVIOUS
  <2>1. t \in PublishedSlots' <=>
           \/ t < read_idx
           \/ /\ t < write_idx /\ read_idx <= t
              /\ sequence'[Index(t)] = t + 1 \/ Cleared(t)
    BY <1>1, Types DEF PublishedSlots, Cleared
  <2>2. CASE t = s
    BY <2>1, <2>2, <1>1, <1>2, Types
  <2>3. CASE t # s
    BY <2>1, <2>3, <1>3, PublishedMember, Types
  <2> QED BY <2>2, <2>3
<1>6. PublishedSlots' \subseteq Nat
  BY <1>1, Types DEF PublishedSlots
<1>7. PublishedSlots' = PublishedSlots \cup {s}
  BY <1>2, <1>5, <1>6, PublishedNat
<1>8. s \in 0..(write_idx - 1)
  BY <1>2, Types
<1> QED BY <1>1, <1>4, <1>7, <1>8 DEF Abs!Publish

\* Clearing the marker does not take back the publication.
LEMMA ClearRefines ==
  ASSUME IndInv, ClearSequence
  PROVE  UNCHANGED Abs!absvars
<1>1. /\ poll_pc = "copy" /\ poll_pc' = "advance"
      /\ sequence' = [sequence EXCEPT ![Index(read_idx)] = 0]
      /\ UNCHANGED <<write_idx, read_idx, consumed>>
  BY DEF ClearSequence, producerVars
<1>2. /\ read_idx < write_idx /\ Index(read_idx) \in Ring
      /\ sequence[Index(read_idx)] = read_idx + 1
  BY <1>1, EntryAtReadIdx, Types, IndexInRing DEF IndInv, PollerInv
<1>3. \A t \in Nat : t \in PublishedSlots' <=> t \in PublishedSlots
  <2> SUFFICES ASSUME NEW t \in Nat
               PROVE  t \in PublishedSlots' <=> t \in PublishedSlots
    OBVIOUS
  <2>1. t \in PublishedSlots' <=>
           \/ t < read_idx
           \/ /\ t < write_idx /\ read_idx <= t
              /\ sequence'[Index(t)] = t + 1 \/ t = read_idx
    BY <1>1, Types DEF PublishedSlots, Cleared
  <2>2. t \in PublishedSlots <=>
           \/ t < read_idx
           \/ /\ t < write_idx /\ read_idx <= t
              /\ sequence[Index(t)] = t + 1
    BY <1>1, PublishedMember DEF Cleared
  <2>3. Index(t) \in Ring
    BY IndexInRing
  <2>4. CASE Index(t) = Index(read_idx)
    <3>1. sequence'[Index(t)] # t + 1 /\ sequence[Index(t)] = read_idx + 1
      BY <2>4, <1>1, <1>2, Types
    <3>2. sequence[Index(t)] = t + 1 <=> t = read_idx
      BY <3>1, Types
    <3> QED BY <2>1, <2>2, <3>1, <3>2
  <2>5. CASE Index(t) # Index(read_idx)
    <3>1. sequence'[Index(t)] = sequence[Index(t)] /\ t # read_idx
      BY <2>3, <2>5, <1>1, <1>2, Types
    <3> QED BY <2>1, <2>2, <3>1
  <2> QED BY <2>4, <2>5
<1>4. PublishedSlots' \subseteq Nat
  BY <1>1, Types DEF PublishedSlots
<1>5. PublishedSlots' = PublishedSlots
  BY <1>3, <1>4, PublishedNat
<1> QED BY <1>1, <1>5 DEF Abs!absvars

\* Moving read_idx delivers the next descriptor in slot order.
LEMMA AdvanceRefines ==
  ASSUME IndInv, AdvanceReadIdx
  PROVE  Abs!Deliver
<1>1. /\ poll_pc = "advance" /\ poll_pc' = "check"
      /\ read_idx' = read_idx + 1
      /\ consumed' = Append(consumed, copy)
      /\ UNCHANGED <<write_idx, sequence>>
  BY DEF AdvanceReadIdx, producerVars
<1>2. /\ read_idx < write_idx /\ Len(consumed) = read_idx
      /\ copy = [f \in Fields |-> read_idx]
  <2>1. /\ read_idx < write_idx /\ uncopied = {}
        /\ \A f \in Fields : f \notin uncopied => copy[f] = read_idx
        /\ Len(consumed) = read_idx
    BY <1>1 DEF IndInv, PollerInv, DeliveredIntact
  <2> QED BY <2>1, Types
<1>3. Len(consumed) \in PublishedSlots
  BY <1>1, <1>2, PublishedMember, Types DEF Cleared
<1>4. \A t \in Nat : t \in PublishedSlots' <=> t \in PublishedSlots
  <2> SUFFICES ASSUME NEW t \in Nat
               PROVE  t \in PublishedSlots' <=> t \in PublishedSlots
    OBVIOUS
  <2>1. t \in PublishedSlots' <=>
           \/ t < read_idx + 1
           \/ /\ t < write_idx /\ read_idx + 1 <= t
              /\ sequence[Index(t)] = t + 1
    BY <1>1, Types DEF PublishedSlots, Cleared
  <2>2. t \in PublishedSlots <=>
           \/ t < read_idx
           \/ /\ t < write_idx /\ read_idx <= t
              /\ sequence[Index(t)] = t + 1 \/ t = read_idx
    BY <1>1, PublishedMember DEF Cleared
  <2> QED BY <2>1, <2>2, <1>2, Types
<1>5. PublishedSlots' \subseteq Nat
  BY <1>1, Types DEF PublishedSlots
<1>6. PublishedSlots' = PublishedSlots
  BY <1>4, <1>5, PublishedNat
<1> QED BY <1>1, <1>2, <1>3, <1>6 DEF Abs!Deliver, Abs!DescOf

\* Every other step of the ring is invisible to SlotQueue.
LEMMA StepRefines ==
  ASSUME IndInv, IndInv', [Next]_vars
  PROVE  Abs!Next \/ UNCHANGED Abs!absvars
<1>1. ASSUME NEW b \in Blocks, Producer(b)
      PROVE  Abs!Next \/ UNCHANGED Abs!absvars
  <2>1. CASE AcquireSlots(b)
    BY <2>1, AcquireRefines DEF Abs!Next
  <2>2. CASE \E i \in Offsets : CommitSlot(b, i)
    BY <2>2, CommitRefines DEF Abs!Next
  <2>3. CASE \/ WaitSpace(b) \/ PreCommitFence(b) \/ PostCommitFence(b)
             \/ \E i \in Offsets, f \in Fields : WriteField(b, i, f)
    <3>1. UNCHANGED <<write_idx, read_idx, sequence, poll_pc, consumed>>
      BY <2>3 DEF WaitSpace, PreCommitFence, PostCommitFence, WriteField,
         pollerVars
    <3>2. PublishedSlots' = PublishedSlots
      BY <3>1 DEF PublishedSlots, Cleared
    <3> QED BY <3>1, <3>2 DEF Abs!absvars
  <2> QED BY <1>1, <2>1, <2>2, <2>3 DEF Producer
<1>2. ASSUME Poller PROVE Abs!Next \/ UNCHANGED Abs!absvars
  <2>1. CASE ClearSequence
    BY <2>1, ClearRefines
  <2>2. CASE AdvanceReadIdx
    BY <2>2, AdvanceRefines DEF Abs!Next
  <2>3. CASE PollSequence \/ \E f \in Fields : CopyField(f)
    <3>1. /\ UNCHANGED <<write_idx, read_idx, sequence, consumed>>
          /\ poll_pc # "advance" /\ poll_pc' # "advance"
      BY <2>3 DEF PollSequence, CopyField, producerVars
    <3>2. PublishedSlots' = PublishedSlots
      BY <3>1 DEF PublishedSlots, Cleared
    <3> QED BY <3>1, <3>2 DEF Abs!absvars
  <2> QED BY <1>2, <2>1, <2>2, <2>3 DEF Poller
<1>3. ASSUME UNCHANGED vars PROVE UNCHANGED Abs!absvars
  BY <1>3 DEF vars, Abs!absvars, PublishedSlots, Cleared
<1> QED BY <1>1, <1>2, <1>3 DEF Next, Finished

\* Whatever its size and however the blocks interleave, the ring behaves as a
\* queue that hands each published descriptor over once, whole and in order.
THEOREM RingRefinesSlotQueue == Spec => ImplementsSlotQueue
<1>1. Init => Abs!Init
  BY InitRefines
<1>2. IndInv /\ IndInv' /\ [Next]_vars => [Abs!Next]_(Abs!absvars)
  BY StepRefines
<1> QED BY <1>1, <1>2, RingInvariant, PTL DEF Spec, Abs!Spec, ImplementsSlotQueue
=============================================================================
