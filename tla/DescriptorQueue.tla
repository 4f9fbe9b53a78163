--------------------------- MODULE DescriptorQueue ---------------------------
(***************************************************************************)
(* The ring of transfer descriptors in host-mapped memory                  *)
(* (include/gfd/descriptor_queue.h), written by the transfer warps of the  *)
(* GPU's blocks and emptied by the one CPU polling thread.                 *)
(*                                                                         *)
(* A producer takes C consecutive slots with an atomicAdd on write_idx,    *)
(* waits for room, stores the fields of its descriptors, fences, and then  *)
(* stores sequence = slot + 1 in each entry.  The poller waits for         *)
(* sequence = read_idx + 1, copies the entry, stores sequence = 0 and only *)
(* then advances read_idx.  Every store and load that the other side can   *)
(* observe is a step of its own; the lanes of a warp store in any order.   *)
(*                                                                         *)
(* A descriptor is abstracted to the slot it was written for: a field of   *)
(* an entry holds the slot number whose descriptor it belongs to.          *)
(***************************************************************************)
EXTENDS Integers, Sequences

CONSTANTS Blocks,        \* the producing blocks (one transfer warp each)
          QUEUE_SIZE,    \* entries in the ring
          C,             \* slots taken by one acquire (tokens_per_chunk)
          MaxWriteIdx    \* bound: no acquire takes write_idx beyond it

ASSUME QueueAssumption == /\ QUEUE_SIZE \in Nat \ {0}
                          /\ C \in 1..QUEUE_SIZE
                          /\ MaxWriteIdx \in Nat

Fields  == {"addr", "meta"}     \* src/dst/size, and user_data/flags
Offsets == 0..(C - 1)           \* entries of a chunk
Ring    == 0..(QUEUE_SIZE - 1)
Index(slot) == slot % QUEUE_SIZE
NoSlot  == -1                   \* a field nobody has stored to

VARIABLES
  write_idx, read_idx,   \* DescriptorQueue's indices
  fields,                \* entries[i]'s fields, by the slot they belong to
  sequence,              \* entries[i].sequence
  pc, chunk_base,        \* a producer's position and the first slot it took
  unwritten,             \* field stores not yet visible to the CPU
  uncommitted,           \* sequence stores not yet visible to the CPU
  poll_pc,               \* the poller's position in the consume loop
  copy, uncopied,        \* batch[batch_count] while the entry is copied
  consumed               \* history: every entry copied into a batch

producerVars == <<write_idx, fields, pc, chunk_base, unwritten, uncommitted>>
pollerVars   == <<read_idx, poll_pc, copy, uncopied, consumed>>
vars == <<write_idx, read_idx, fields, sequence, pc, chunk_base, unwritten,
          uncommitted, poll_pc, copy, uncopied, consumed>>

\* Mutant: the ring is used without its memset.
InitNotZeroed == /\ write_idx = 0 /\ read_idx = 0
                 /\ fields = [i \in Ring |-> [f \in Fields |-> NoSlot]]
                 /\ sequence = [i \in Ring |-> NoSlot]
                 /\ pc = [b \in Blocks |-> "idle"]
                 /\ chunk_base = [b \in Blocks |-> 0]
                 /\ unwritten = [b \in Blocks |-> {}]
                 /\ uncommitted = [b \in Blocks |-> {}]
                 /\ poll_pc = "check"
                 /\ copy = [f \in Fields |-> NoSlot]
                 /\ uncopied = {} /\ consumed = <<>>

\* The queue is allocated zeroed: no entry is committed.
Init == /\ write_idx = 0 /\ read_idx = 0
        /\ fields = [i \in Ring |-> [f \in Fields |-> NoSlot]]
        /\ sequence = [i \in Ring |-> 0]
        /\ pc = [b \in Blocks |-> "idle"]
        /\ chunk_base = [b \in Blocks |-> 0]
        /\ unwritten = [b \in Blocks |-> {}]
        /\ uncommitted = [b \in Blocks |-> {}]
        /\ poll_pc = "check"
        /\ copy = [f \in Fields |-> NoSlot]
        /\ uncopied = {}
        /\ consumed = <<>>

-----------------------------------------------------------------------------
(* Producers *)

\* acquire_chunk_slots: atomicAdd(&write_idx, C).
AcquireSlots(b) ==
  /\ pc[b] = "idle"
  /\ write_idx + C <= MaxWriteIdx
  /\ chunk_base' = [chunk_base EXCEPT ![b] = write_idx]
  /\ write_idx' = write_idx + C
  /\ unwritten' = [unwritten EXCEPT ![b] = Offsets \X Fields]
  /\ uncommitted' = [uncommitted EXCEPT ![b] = Offsets]
  /\ pc' = [pc EXCEPT ![b] = "space"]
  /\ UNCHANGED <<fields, sequence, pollerVars>>

\* Mutants: the capacity is off by one; only the first slot of the chunk is
\* checked; the shared write_idx is tested instead of the block's own slots.
RoomOffByOne(b)  == chunk_base[b] + C - read_idx <= QUEUE_SIZE + 1
RoomFirstSlot(b) == chunk_base[b] - read_idx <= QUEUE_SIZE
RoomWriteIdx(b)  == write_idx + C - read_idx <= QUEUE_SIZE

\* The back-pressure of _transfer_warp_loop: the block's own slots fit behind
\* read_idx.
HasRoom(b) == chunk_base[b] + C - read_idx <= QUEUE_SIZE

\* A producer goes on to store when there is room; until then it spins.
WaitSpace(b) ==
  /\ pc[b] = "space"
  /\ HasRoom(b)
  /\ pc' = [pc EXCEPT ![b] = "write"]
  /\ UNCHANGED <<write_idx, fields, sequence, chunk_base, unwritten,
                 uncommitted, pollerVars>>

\* write_chunk: one field store of one lane reaches host memory.  Nothing but
\* the lanes' fence keeps it ahead of the markers.
WriteField(b, i, f) ==
  /\ pc[b] \in {"write", "commit"}
  /\ <<i, f>> \in unwritten[b]
  /\ fields' = [fields EXCEPT ![Index(chunk_base[b] + i)][f] =
                                chunk_base[b] + i]
  /\ unwritten' = [unwritten EXCEPT ![b] = @ \ {<<i, f>>}]
  /\ UNCHANGED <<write_idx, sequence, pc, chunk_base, uncommitted, pollerVars>>

\* Mutant: no fence between a lane's fields and its marker, as for the lanes
\* other than the leader in fence_and_commit (device.cuh).
NoPreCommitFence(b) ==
  /\ pc[b] = "write"
  /\ pc' = [pc EXCEPT ![b] = "commit"]
  /\ UNCHANGED <<write_idx, fields, sequence, chunk_base, unwritten,
                 uncommitted, pollerVars>>

\* commit_chunk: __threadfence_system by every lane, then __syncwarp.
PreCommitFence(b) ==
  /\ pc[b] = "write"
  /\ unwritten[b] = {}
  /\ pc' = [pc EXCEPT ![b] = "commit"]
  /\ UNCHANGED <<write_idx, fields, sequence, chunk_base, unwritten,
                 uncommitted, pollerVars>>

\* entries[slot % QUEUE_SIZE].sequence = slot + 1, by the slot's lane.
CommitSlot(b, i) ==
  /\ pc[b] = "commit"
  /\ i \in uncommitted[b]
  /\ sequence' = [sequence EXCEPT ![Index(chunk_base[b] + i)] =
                                    chunk_base[b] + i + 1]
  /\ uncommitted' = [uncommitted EXCEPT ![b] = @ \ {i}]
  /\ UNCHANGED <<write_idx, fields, pc, chunk_base, unwritten, pollerVars>>

\* The post-commit fence: the producer goes on when its stores are out.
PostCommitFence(b) ==
  /\ pc[b] = "commit"
  /\ uncommitted[b] = {} /\ unwritten[b] = {}
  /\ pc' = [pc EXCEPT ![b] = "idle"]
  /\ UNCHANGED <<write_idx, fields, sequence, chunk_base, unwritten,
                 uncommitted, pollerVars>>

Producer(b) ==
  \/ AcquireSlots(b)
  \/ WaitSpace(b)
  \/ \E i \in Offsets, f \in Fields : WriteField(b, i, f)
  \/ PreCommitFence(b)
  \/ \E i \in Offsets : CommitSlot(b, i)
  \/ PostCommitFence(b)

-----------------------------------------------------------------------------
(* The polling thread: the consume loop of polling_loop, and its drain loop *)

\* Mutant: a slot that was taken is treated as ready.
PollWriteIdx ==
  /\ poll_pc = "check"
  /\ read_idx < write_idx
  /\ poll_pc' = "copy"
  /\ uncopied' = Fields
  /\ UNCHANGED <<producerVars, sequence, read_idx, copy, consumed>>

\* __atomic_load_n(&entry->sequence) == read + 1.
PollSequence ==
  /\ poll_pc = "check"
  /\ sequence[Index(read_idx)] = read_idx + 1
  /\ poll_pc' = "copy"
  /\ uncopied' = Fields
  /\ UNCHANGED <<producerVars, sequence, read_idx, copy, consumed>>

\* batch[batch_count] = *entry, one field at a time.
CopyField(f) ==
  /\ poll_pc = "copy"
  /\ f \in uncopied
  /\ copy' = [copy EXCEPT ![f] = fields[Index(read_idx)][f]]
  /\ uncopied' = uncopied \ {f}
  /\ UNCHANGED <<producerVars, sequence, read_idx, poll_pc, consumed>>

\* Mutant: the marker of a consumed entry is left behind.
KeepSequence ==
  /\ poll_pc = "copy"
  /\ uncopied = {}
  /\ poll_pc' = "advance"
  /\ UNCHANGED <<producerVars, sequence, read_idx, copy, uncopied, consumed>>

\* __atomic_store_n(&entry->sequence, 0).
ClearSequence ==
  /\ poll_pc = "copy"
  /\ uncopied = {}
  /\ sequence' = [sequence EXCEPT ![Index(read_idx)] = 0]
  /\ poll_pc' = "advance"
  /\ UNCHANGED <<producerVars, read_idx, copy, uncopied, consumed>>

\* batch_count++; queue_->read_idx = ++read.
AdvanceReadIdx ==
  /\ poll_pc = "advance"
  /\ read_idx' = read_idx + 1
  /\ consumed' = Append(consumed, copy)
  /\ poll_pc' = "check"
  /\ UNCHANGED <<producerVars, sequence, copy, uncopied>>

Poller == \/ PollSequence
          \/ \E f \in Fields : CopyField(f)
          \/ ClearSequence
          \/ AdvanceReadIdx

\* Every slot the bound allows has gone through: only the poller spins on.
Finished == /\ write_idx + C > MaxWriteIdx
            /\ \A b \in Blocks : pc[b] = "idle"
            /\ read_idx = write_idx
            /\ poll_pc = "check"
            /\ UNCHANGED vars

Next == Poller \/ (\E b \in Blocks : Producer(b)) \/ Finished

\* Warps that are resident on an SM and the pinned polling thread keep running.
Fairness == WF_vars(Poller) /\ \A b \in Blocks : WF_vars(Producer(b))

Spec     == Init /\ [][Next]_vars
FairSpec == Spec /\ Fairness

-----------------------------------------------------------------------------
(* Properties *)

TypeOK ==
  /\ write_idx \in Nat /\ read_idx \in Nat
  /\ fields \in [Ring -> [Fields -> Int]]
  /\ sequence \in [Ring -> Nat]
  /\ pc \in [Blocks -> {"idle", "space", "write", "commit"}]
  /\ chunk_base \in [Blocks -> Nat]
  /\ unwritten \in [Blocks -> SUBSET (Offsets \X Fields)]
  /\ uncommitted \in [Blocks -> SUBSET Offsets]
  /\ poll_pc \in {"check", "copy", "advance"}
  /\ copy \in [Fields -> Int]
  /\ uncopied \in SUBSET Fields
  /\ consumed \in Seq([Fields -> Int])

\* The descriptor its producer stores for a slot, every field of it.
DescOf(slot) == [f \in Fields |-> slot]

\* The poller has copied the descriptor of each slot below read_idx exactly
\* once, in slot order, and with all its fields from that slot's producer: no
\* entry is torn, skipped, read twice or replaced by a later lap of the ring.
DeliveredIntact ==
  /\ Len(consumed) = read_idx
  /\ \A n \in 1..Len(consumed) : consumed[n] = DescOf(n - 1)

\* A slot some producer holds and has not committed.
Held(slot) == \E b \in Blocks : /\ pc[b] # "idle"
                                /\ slot - chunk_base[b] \in uncommitted[b]

\* A slot the poller has cleared but not yet stepped over.
Cleared(slot) == poll_pc = "advance" /\ slot = read_idx

\* A descriptor that was committed and not yet copied is still in the ring,
\* with its marker and its fields: neither the poller's sequence = 0 nor a
\* producer one lap ahead erases it (polling_loop stores 0 before it moves
\* read_idx; _transfer_warp_loop waits for chunk_base + C - read_idx <=
\* QUEUE_SIZE before it stores).
NoCommitLost ==
  \A slot \in read_idx..(write_idx - 1) :
    ~Held(slot) /\ ~Cleared(slot) =>
      /\ sequence[Index(slot)] = slot + 1
      /\ fields[Index(slot)] = DescOf(slot)

\* No two producers are storing to the same entry of the ring at once.
NoSharedEntry ==
  \A a, b \in Blocks : \A i \in Offsets, j \in Offsets :
    /\ a # b
    /\ pc[a] \in {"write", "commit"} /\ i \in uncommitted[a]
    /\ pc[b] \in {"write", "commit"} /\ j \in uncommitted[b]
    => Index(chunk_base[a] + i) # Index(chunk_base[b] + j)

Storing(b) == pc[b] \in {"write", "commit"}

-----------------------------------------------------------------------------
(* The inductive invariant behind the safety properties *)

\* A producer's slots were taken by it alone, the poller has not reached one
\* it still holds, and while it stores they fit the ring behind read_idx.
ProducerInv ==
  \A b \in Blocks :
    /\ pc[b] # "idle" => chunk_base[b] + C <= write_idx
    /\ \A i \in uncommitted[b] : chunk_base[b] + i >= read_idx
    /\ Storing(b) => chunk_base[b] + C <= read_idx + QUEUE_SIZE
    /\ pc[b] = "idle" => uncommitted[b] = {} /\ unwritten[b] = {}
    /\ pc[b] = "commit" => unwritten[b] = {}
    /\ pc[b] \in {"space", "write"} => uncommitted[b] = Offsets
    /\ pc[b] = "space" => unwritten[b] = Offsets \X Fields
    /\ \A a \in Blocks : /\ a # b /\ pc[a] # "idle" /\ pc[b] # "idle"
                        => \/ chunk_base[a] + C <= chunk_base[b]
                           \/ chunk_base[b] + C <= chunk_base[a]

\* What a producer has stored and not yet committed is still there.
StoredInv ==
  \A b \in Blocks : \A i \in uncommitted[b], f \in Fields :
    Storing(b) /\ <<i, f>> \notin unwritten[b]
      => fields[Index(chunk_base[b] + i)][f] = chunk_base[b] + i

\* A marker in the ring is that of a committed slot of the current lap.
MarkerInv ==
  \A k \in Ring : sequence[k] # 0 =>
    \E slot \in read_idx..(write_idx - 1) :
      /\ sequence[k] = slot + 1
      /\ Index(slot) = k
      /\ slot < read_idx + QUEUE_SIZE
      /\ ~Held(slot) /\ ~Cleared(slot)

\* The poller's private copy is of the slot at read_idx.
PollerInv ==
  /\ read_idx <= write_idx
  /\ poll_pc = "copy" => sequence[Index(read_idx)] = read_idx + 1
  /\ poll_pc = "advance" => read_idx < write_idx /\ uncopied = {}
  /\ poll_pc = "advance" => ~Held(read_idx)
  /\ \A f \in Fields : poll_pc # "check" /\ f \notin uncopied
                        => copy[f] = read_idx

\* Everything above, with what it is needed for: DeliveredIntact and
\* NoCommitLost are not inductive by themselves, because a step that erases an
\* entry is excluded only by where each producer is relative to read_idx.
IndInv == /\ TypeOK
          /\ ProducerInv
          /\ StoredInv
          /\ MarkerInv
          /\ PollerInv
          /\ NoCommitLost
          /\ DeliveredIntact

-----------------------------------------------------------------------------
\* The ring implements the promise of SlotQueue.  A slot is published from
\* its marker until the poller's read_idx has passed it.
PublishedSlots ==
  0..(read_idx - 1) \cup
  {slot \in read_idx..(write_idx - 1) :
     sequence[Index(slot)] = slot + 1 \/ Cleared(slot)}

Abs == INSTANCE SlotQueue WITH reserved  <- write_idx,
                               published <- PublishedSlots,
                               delivered <- consumed,
                               Fields    <- Fields
ImplementsSlotQueue == Abs!Spec

\* Every slot that is taken is eventually consumed: a producer waiting for
\* room and the poller waiting for a marker never wait for each other.
EverySlotConsumed ==
  \A slot \in 0..(MaxWriteIdx - 1) : write_idx > slot ~> read_idx > slot
=============================================================================
