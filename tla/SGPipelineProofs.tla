--------------------------- MODULE SGPipelineProofs ---------------------------
(* Machine-checked proofs about scatter-gather mode, for every set of blocks, *)
(* session, number of lists, channels, batch size and size of the queues.     *)
EXTENDS SGPipeline, FiniteSetTheorems, SequenceTheorems, TLAPS

-----------------------------------------------------------------------------
(* The queue of lists and who has claimed which: the inductive invariant *)

PlaceSet == {"claim", "poll", "check_terminate", "acquire", "commit", "clear",
             "wait_done", "wait_compute", "exit"}
WarpSet  == {"wait", "compute", "clear", "exit"}
HostSet  == {"prefill", "running", "sync", "terminating", "stopping", "stopped"}

\* Where a transfer warp has claimed an index, where it has read the list's
\* header, and where it has written the list's descriptors.
HasClaim(b) == pc[b] \in {"poll", "check_terminate", "acquire", "commit",
                          "clear", "wait_done", "wait_compute"}
HasList(b)  == pc[b] \in {"acquire", "commit", "clear", "wait_done",
                          "wait_compute"}
HasSlots(b) == pc[b] \in {"commit", "clear", "wait_done", "wait_compute"}

QueueTypes ==
  /\ config \in Sessions /\ grid \subseteq Blocks
  /\ Cardinality(grid) = config.blocks
  /\ list_alloc_idx \in 0..MaxLists /\ list_read_idx \in Nat
  /\ entry_alloc_idx \in Nat
  /\ lists \in [Ring -> Headers] /\ sequence \in [Ring -> 0..MaxLists]
  /\ pool \in [Pool -> Int \X Int]
  /\ pc \in [Blocks -> PlaceSet] /\ warp \in [Blocks -> WarpSet]
  /\ list_idx \in [Blocks -> Nat] /\ state \in [Blocks -> Headers]
  /\ host \in HostSet /\ since_reset \in Nat

\* A marker stands for its own index; a submitted list has its own header.
HeadersInv ==
  /\ \A r \in Ring : sequence[r] = 0 \/ (sequence[r] = r + 1 /\ r < list_alloc_idx)
  /\ \A l \in ListIds : l < list_alloc_idx =>
       lists[l].list_id = l /\ lists[l].count \in Counts

\* An index is claimed once, and a list is read by who has claimed it.
ClaimsInv ==
  /\ \A b \in Blocks : HasClaim(b) => list_idx[b] < list_read_idx
  /\ \A a, b \in Blocks : HasClaim(a) /\ HasClaim(b) /\ a # b =>
       list_idx[a] # list_idx[b]
  /\ \A b \in Blocks : HasList(b) =>
       list_idx[b] < list_alloc_idx /\ state[b] = lists[list_idx[b]]

\* Only a launched kernel's blocks are away from their exits.
KernelInv ==
  /\ \A b \in Blocks : pc[b] # "exit" \/ warp[b] # "exit" =>
       b \in grid /\ host \in {"running", "sync", "terminating"}
  /\ host = "prefill" <=> since_reset = 0

\* The blocks that have claimed an index no list will have: they keep it until
\* the kernel ends.
Idle == {b \in grid : pc[b] # "claim" /\ list_idx[b] >= MaxLists}

ClaimsBounded ==
  IF since_reset = 0 THEN list_read_idx = 0
  ELSE list_read_idx <= MaxLists + (since_reset - 1) * Cardinality(grid)
                          + Cardinality(Idle)

QueueInv == QueueTypes /\ HeadersInv /\ ClaimsInv /\ KernelInv /\ ClaimsBounded

-----------------------------------------------------------------------------
(* The hand-over between a block's two warps *)

HandTypes ==
  /\ list_ready \in [Blocks -> BOOLEAN] /\ compute_done \in [Blocks -> BOOLEAN]
  /\ terminated \in [Blocks -> BOOLEAN] /\ view \in [Blocks -> Headers]
  /\ computed \in [ListIds -> Nat] /\ terminate \in BOOLEAN

\* A block's list has been computed from the moment its compute warp starts.
HandOver(b) ==
  /\ pc[b] # "exit" => warp[b] # "exit" /\ ~terminated[b]
  /\ pc[b] # "wait_compute" =>
       /\ warp[b] # "compute"
       /\ warp[b] = "wait" => ~list_ready[b]
       /\ HasClaim(b) /\ list_idx[b] \in ListIds => computed[list_idx[b]] = 0
  /\ pc[b] \in {"acquire", "commit", "clear", "wait_done"} => ~compute_done[b]
  /\ pc[b] = "wait_compute" =>
       /\ warp[b] = "compute" => ~compute_done[b] /\ view[b] = state[b]
       /\ warp[b] = "wait" /\ compute_done[b] => ~list_ready[b]
       /\ computed[list_idx[b]] =
            IF warp[b] = "compute" \/ compute_done[b] THEN 1 ELSE 0

\* A list nobody has claimed is not computed, and no list is computed twice.
ComputedInv == \A l \in ListIds : /\ computed[l] <= 1
                                  /\ l >= list_read_idx => computed[l] = 0

HandInv == HandTypes /\ ComputedInv /\ \A b \in Blocks : HandOver(b)

-----------------------------------------------------------------------------
(* The descriptors of the lists *)

Desc == [entry : Int \X Int, list_id : ListIds, last : BOOLEAN]

Described(l) == \E n \in 1..Len(entries) : entries[n].list_id = l

\* A list's descriptors are consecutive and the last one ends it.
ListsConsecutive ==
  \A n \in 1..Len(entries) : \E e \in n..Len(entries) :
    /\ entries[e].last
    /\ \A i \in n..e : /\ entries[i].list_id = entries[n].list_id
                       /\ i < e => ~entries[i].last

\* No list has descriptors twice.
ListsEndOnce ==
  \A m, n \in 1..Len(entries) :
    entries[m].last /\ entries[n].last /\ entries[m].list_id = entries[n].list_id =>
      m = n

\* A list has descriptors from when the block that claimed it stores them.
ListsOwned ==
  /\ \A n \in 1..Len(entries) : /\ entries[n].list_id < list_alloc_idx
                                /\ entries[n].list_id < list_read_idx
  /\ \A b \in Blocks : HasClaim(b) => (HasSlots(b) <=> Described(list_idx[b]))

DescInv == /\ entries \in Seq(Desc)
           /\ ListsConsecutive /\ ListsEndOnce /\ ListsOwned

\* A list with descriptors is computed or is in the hands of a block.
ListsKept ==
  \A l \in ListIds : Described(l) =>
    \/ computed[l] = 1
    \/ \E b \in Blocks : HasSlots(b) /\ list_idx[b] = l

\* Markers are stored for slots that exist.
MarkersInv ==
  /\ committed \subseteq 0..(Len(entries) - 1)
  /\ desc_base \in [Blocks -> Nat] /\ pending \in [Blocks -> SUBSET Nat]
  /\ \A b \in Blocks : pc[b] = "commit" =>
       \A i \in pending[b] : desc_base[b] + i < Len(entries)

-----------------------------------------------------------------------------
(* The poller *)

\* The descriptors that have left the poller's batch.
Flushed == read_idx - Len(batch)

\* The batch is the run before read_idx, without a list's end in its middle.
BatchInv ==
  /\ read_idx \in 0..Len(entries)
  /\ batch \in Seq(Desc) /\ Len(batch) <= read_idx
  /\ \A k \in 1..Len(batch) :
       /\ batch[k] = entries[Flushed + k]
       /\ k < Len(batch) \/ poll_pc = "poll" => ~batch[k].last
  /\ poll_pc \in {"poll", "flush", "signal", "idle"}
  /\ poll_pc \in {"flush", "signal"} => Len(batch) > 0
  /\ poll_pc = "signal" => batch[Len(batch)].last
  /\ poll_pc = "idle" => Len(batch) = 0
  /\ host \in {"prefill", "stopped"} => poll_pc = "poll" /\ Len(batch) = 0

\* The lists whose last descriptor has left the batch.
Finished == {l \in ListIds : \E n \in 1..Flushed :
               entries[n].last /\ entries[n].list_id = l}

\* lists_completed counts lists that are finished.
CountInv == lists_completed \in Nat /\ lists_completed <= Cardinality(Finished)

-----------------------------------------------------------------------------
(* The streams *)

CopyOp == SUBSET (Int \X Int)
Signal == [lists : SUBSET ListIds, after : [ChanIds -> Nat]]

\* wait_completion waits for every channel with copies.
ChanInv ==
  /\ chan \in [ChanIds -> Seq(CopyOp)] /\ signals \in Seq(Signal)
  /\ list_done \in [ListIds -> BOOLEAN] /\ dirty \subseteq ChanIds
  /\ next_channel \in ChanIds
  /\ \A c \in ChanIds : c \notin dirty => chan[c] = <<>>

-----------------------------------------------------------------------------
(* The session *)

\* Once synchronize has seen the count, every list there is is finished.
SyncInv ==
  /\ expected \in Nat
  /\ host \in {"sync", "terminating", "stopping"} => expected = list_alloc_idx
  /\ host = "stopped" => expected <= list_alloc_idx
  /\ host \in {"terminating", "stopping", "stopped"} =>
       \A l \in ListIds : l < expected => l \in Finished

\* Nothing is in flight between two launches.
QuietInv == host \in {"prefill", "stopping", "stopped"} =>
              (\A c \in ChanIds : chan[c] = <<>>) /\ signals = <<>>

SessionInv == SyncInv /\ QuietInv

-----------------------------------------------------------------------------
(* Copies in flight *)

\* The entry is on the GPU or queued on a channel.
Handed(x) == x \in landed \/ \E c \in ChanIds : \E k \in 1..Len(chan[c]) : x \in chan[c][k]

\* ... or is queued ahead of what the signal waits for.
Ahead(s, x) == \/ x \in landed
               \/ \E c \in ChanIds : \E k \in 1..Len(chan[c]) :
                    k <= s.after[c] /\ x \in chan[c][k]

ListLanded(l) == \A n \in 1..Len(entries) :
                   entries[n].list_id = l => entries[n].entry \in landed

\* The descriptors whose copies the poller has submitted.
Sent == IF poll_pc = "signal" THEN read_idx ELSE Flushed

SentInv == \A n \in 1..Len(entries) : n <= Sent => Handed(entries[n].entry)

\* A list that is reported done is on the GPU ...
DoneInv == \A l \in ListIds : list_done[l] => Described(l) /\ ListLanded(l)

\* ... and a signal under way is behind the copies of its lists.
Behind(s) == \A l \in s.lists :
               /\ Described(l)
               /\ \A n \in 1..Len(entries) :
                    entries[n].list_id = l => Ahead(s, entries[n].entry)

SignalsInv == \A j \in 1..Len(signals) : Behind(signals[j])

\* Without d_list_done the poller counts a list when its copies are done.
CoarseInv == config.path = "coarse" => \A l \in Finished : ListLanded(l)

FlightInv == SentInv /\ DoneInv /\ SignalsInv /\ CoarseInv

\* The lists with descriptors, and how many a block has seen or waits for.
DescribedLists == {l \in ListIds : Described(l)}
Seen(b) == lists_processed[b] + (IF pc[b] \in {"commit", "clear", "wait_done"}
                                   THEN 1 ELSE 0)

\* A single block has seen every list it stored but the one it waits for.
SingleInv ==
  /\ lists_processed \in [Blocks -> Nat]
  /\ config.blocks = 1 => \A b \in grid : Cardinality(DescribedLists) <= Seen(b)

\* What a block has been told is there is there.
ToldInv == (config.path = "coarse" => config.blocks = 1) =>
             \A b \in Blocks : pc[b] = "wait_compute" => ListLanded(list_idx[b])

-----------------------------------------------------------------------------
(* What the descriptors carry *)

\* A list's entries are where its header says.
PoolInv ==
  /\ \E p \in Nat : p = list_alloc_idx * MAX_SG_POOL_ENTRIES /\ 
                    MaxLists * entry_alloc_idx <= p
  /\ \A l \in ListIds : l < list_alloc_idx =>
       /\ lists[l].pool_offset + lists[l].count <= entry_alloc_idx
       /\ \A i \in 0..(lists[l].count - 1) : pool[lists[l].pool_offset + i] = <<l, i>>

\* A descriptor's entry is its list's, and every entry of the list has one.
ContentInv ==
  /\ \A n \in 1..Len(entries) :
       /\ entries[n].entry[1] = entries[n].list_id
       /\ n > 1 /\ ~entries[n - 1].last =>
            entries[n].entry[2] = entries[n - 1].entry[2] + 1
  /\ \A l \in ListIds : Described(l) =>
       \A i \in 0..(lists[l].count - 1) : \E n \in 1..Len(entries) :
         entries[n].list_id = l /\ entries[n].entry = <<l, i>>
-----------------------------------------------------------------------------
(* Tuples of variables, and what the constants give *)

USE DEF queueVars, claimVars, claimed, blockVars, handVars, warpVars, ringVars,
        pollVars, engineVars, doneVars, launchVars, hostVars, subVars

\* The lists of a launch have slots of the ring of their own.
LEMMA ListSlots ==
  /\ MaxLists \in Nat \ {0} /\ MAX_SG_LISTS \in Nat \ {0}
  /\ MAX_SG_POOL_ENTRIES \in Nat \ {0}
  /\ ListIds \subseteq Ring /\ 0 \in ListIds
  /\ \A l \in ListIds : l % MAX_SG_LISTS = l
  /\ \A i \in Ring : i % MAX_SG_LISTS = i
  /\ \A i \in Nat : i % MAX_SG_LISTS \in Ring
BY SGAssumption DEF ListIds, Ring

\* Offsets into the pool.
LEMMA PoolOffset ==
  ASSUME NEW i \in Nat
  PROVE  /\ i % MAX_SG_POOL_ENTRIES \in Pool
         /\ i % MAX_SG_POOL_ENTRIES \in 0..(MaxLists * MAX_SG_POOL_ENTRIES)
         /\ i < MAX_SG_POOL_ENTRIES => i % MAX_SG_POOL_ENTRIES = i
<1>1. PICK q \in Nat : q = MaxLists * MAX_SG_POOL_ENTRIES /\ q >= MAX_SG_POOL_ENTRIES
  BY SGAssumption
<1>2. QED
  BY <1>1, SGAssumption DEF Pool

\* A header fits the type of headers.
LEMMA HeaderType ==
  ASSUME NEW o \in Nat, NEW n \in Counts, NEW l \in ListIds
  PROVE  /\ Header(o, n, l) \in Headers
         /\ Header(o, n, l).list_id = l /\ Header(o, n, l).count = n
         /\ Header(o, n, l).pool_offset = o % MAX_SG_POOL_ENTRIES
         /\ n \in Nat \ {0}
BY PoolOffset, SGAssumption DEF Header, Headers

\* The header of no list.
LEMMA NoListType == NoList \in Headers
<1>1. PICK q \in Nat : q = MaxLists * MAX_SG_POOL_ENTRIES
  BY SGAssumption
<1>2. QED
  BY <1>1, SGAssumption DEF NoList, Headers, ListIds

\* The grid is a finite set of blocks.
LEMMA GridFinite ==
  ASSUME NEW S \in SUBSET Blocks
  PROVE  IsFiniteSet(S) /\ Cardinality(S) \in Nat
BY SGAssumption, FS_Subset, FS_CardinalityType
-----------------------------------------------------------------------------
(* The queue and the claims: the proof *)

\* What QueueInv is about.
queueInvVars == <<config, grid, list_alloc_idx, list_read_idx, entry_alloc_idx,
                  lists, sequence, pool, pc, warp, list_idx, state, host,
                  since_reset>>

\* Steps that change none of it.
LEMMA QueueFrame ==
  ASSUME QueueInv, UNCHANGED queueInvVars
  PROVE  QueueInv'
<1>1. QueueTypes' /\ HeadersInv'
  BY DEF QueueInv, queueInvVars, QueueTypes, HeadersInv
<1>2. ClaimsInv' /\ KernelInv'
  BY DEF QueueInv, queueInvVars, ClaimsInv, KernelInv, HasClaim, HasList
<1>3. ClaimsBounded'
  BY DEF QueueInv, queueInvVars, ClaimsBounded, Idle
<1>4. QED
  BY <1>1, <1>2, <1>3 DEF QueueInv

\* Nothing is submitted and nothing runs at first.
LEMMA QueueInit == Init => QueueInv
<1> SUFFICES ASSUME Init PROVE QueueInv
  OBVIOUS
<1>1. QueueTypes
  <2>1. /\ config \in Sessions /\ grid \subseteq Blocks
        /\ Cardinality(grid) = config.blocks
    BY DEF Init
  <2>2. lists \in [Ring -> Headers] /\ state \in [Blocks -> Headers]
    BY NoListType DEF Init
  <2>3. sequence \in [Ring -> 0..MaxLists] /\ pool \in [Pool -> Int \X Int]
    <3>1. sequence = [r \in Ring |-> 0] /\ 0 \in 0..MaxLists
      BY ListSlots DEF Init
    <3>2. pool = [e \in Pool |-> NoEntry] /\ NoEntry \in Int \X Int
      BY DEF Init, NoEntry
    <3>3. QED
      BY <3>1, <3>2
  <2>4. QED
    BY <2>1, <2>2, <2>3, ListSlots DEF Init, QueueTypes, PlaceSet, WarpSet, HostSet
<1>2. HeadersInv /\ ClaimsInv
  BY ListSlots DEF Init, HeadersInv, ClaimsInv, HasClaim, HasList, ListIds
<1>3. KernelInv /\ ClaimsBounded
  BY DEF Init, KernelInv, ClaimsBounded
<1>4. QED
  BY <1>1, <1>2, <1>3 DEF QueueInv

\* A list is written over no other: the ring has a slot for each.
LEMMA QueueSubmit ==
  ASSUME QueueInv, NEW n \in Counts, HostSubmit(n)
  PROVE  QueueInv'
<1> USE DEF QueueInv
<1>1. /\ list_alloc_idx \in ListIds /\ list_alloc_idx \in Ring
      /\ list_alloc_idx % MAX_SG_LISTS = list_alloc_idx
  BY ListSlots DEF HostSubmit, QueueTypes, ListIds
<1> DEFINE H == Header(entry_alloc_idx, n, list_alloc_idx)
<1>2. H \in Headers /\ H.list_id = list_alloc_idx /\ H.count = n /\ n \in Nat
  BY <1>1, HeaderType DEF QueueTypes
<1>3. /\ lists' = [lists EXCEPT ![list_alloc_idx] = H]
      /\ sequence' = [sequence EXCEPT ![list_alloc_idx] = list_alloc_idx + 1]
      /\ list_alloc_idx' = list_alloc_idx + 1 /\ list_alloc_idx + 1 <= MaxLists
      /\ entry_alloc_idx' = entry_alloc_idx + n
      /\ pool' = Written(entry_alloc_idx, list_alloc_idx, n)
      /\ UNCHANGED <<config, grid, list_read_idx, pc, warp, list_idx, state,
                     host, since_reset>>
  <2>1. lists' = [lists EXCEPT ![list_alloc_idx] = H]
    BY <1>1 DEF HostSubmit
  <2>2. sequence' = [sequence EXCEPT ![list_alloc_idx] = list_alloc_idx + 1]
    BY <1>1 DEF HostSubmit
  <2>3. list_alloc_idx' = list_alloc_idx + 1 /\ list_alloc_idx + 1 <= MaxLists
    BY <1>1, ListSlots DEF HostSubmit, ListIds
  <2>4. QED
    BY <2>1, <2>2, <2>3 DEF HostSubmit, PoolTaken
<1> HIDE DEF H
<1>4. pool' \in [Pool -> Int \X Int]
  <2>1. \A e \in Pool : pool'[e] \in Int \X Int
    <3> TAKE e \in Pool
    <3>1. CASE \E i \in 0..(n - 1) : PoolSlot(entry_alloc_idx, i) = e
      BY <3>1, <1>1, <1>3 DEF Written, ListIds
    <3>2. CASE ~\E i \in 0..(n - 1) : PoolSlot(entry_alloc_idx, i) = e
      BY <3>2, <1>3 DEF Written, QueueTypes
    <3>3. QED
      BY <3>1, <3>2
  <2>2. QED
    BY <2>1, <1>3 DEF Written
<1>5. QueueTypes'
  BY <1>1, <1>2, <1>3, <1>4, ListSlots DEF QueueTypes
<1>6. HeadersInv'
  BY <1>1, <1>2, <1>3, ListSlots DEF QueueTypes, HeadersInv
<1>7. ClaimsInv'
  <2>1. ASSUME NEW b \in Blocks, HasList(b)
        PROVE  list_idx[b] < list_alloc_idx' /\ state[b] = lists'[list_idx[b]]
    <3>1. /\ list_idx[b] < list_alloc_idx /\ state[b] = lists[list_idx[b]]
          /\ list_idx[b] \in Nat
      BY <2>1 DEF ClaimsInv, QueueTypes
    <3>2. list_idx[b] \in Ring
      BY <3>1, <1>1, SGAssumption DEF Ring, ListIds
    <3>3. QED
      BY <3>1, <3>2, <1>1, <1>3 DEF QueueTypes
  <2>2. QED
    BY <2>1, <1>3 DEF ClaimsInv, HasClaim, HasList
<1>8. KernelInv' /\ ClaimsBounded'
  BY <1>3 DEF KernelInv, ClaimsBounded, Idle
<1>9. QED
  BY <1>5, <1>6, <1>7, <1>8
\* The steps of a transfer warp that has claimed an index and only goes on.
LEMMA QueueMove ==
  ASSUME QueueInv, NEW b \in Blocks, NEW q \in PlaceSet,
         HasClaim(b), pc' = [pc EXCEPT ![b] = q],
         q = "claim" => HasList(b),
         q \in {"acquire", "commit", "clear", "wait_done", "wait_compute"} => HasList(b),
         UNCHANGED <<config, grid, list_alloc_idx, list_read_idx,
                     entry_alloc_idx, lists, sequence, pool, warp, list_idx,
                     state, host, since_reset>>
  PROVE  QueueInv'
<1> USE DEF QueueInv
<1>1. QueueTypes' /\ HeadersInv'
  BY DEF QueueTypes, HeadersInv
<1>2. \A a \in Blocks : (HasClaim(a)' => HasClaim(a)) /\ (HasList(a)' => HasList(a))
  BY DEF QueueTypes, HasClaim, HasList
<1>3. ClaimsInv'
  BY <1>2 DEF ClaimsInv, HasClaim, HasList
<1>4. KernelInv'
  BY DEF KernelInv, QueueTypes, HasClaim
<1>5. Idle' = Idle
  <2>1. q = "claim" => list_idx[b] < MaxLists
    BY SGAssumption DEF ClaimsInv, QueueTypes
  <2>2. \A a \in grid : (pc'[a] # "claim" /\ list_idx[a] >= MaxLists) <=>
                        (pc[a] # "claim" /\ list_idx[a] >= MaxLists)
    BY <2>1, SGAssumption DEF QueueTypes, HasClaim
  <2>3. QED
    BY <2>2 DEF Idle
<1>6. ClaimsBounded'
  BY <1>5 DEF ClaimsBounded
<1>7. QED
  BY <1>1, <1>3, <1>4, <1>6

\* The index that is claimed is nobody else's; one beyond all lists is never
\* given back.
LEMMA QueueClaim ==
  ASSUME QueueInv, NEW b \in Blocks, ClaimList(b)
  PROVE  QueueInv'
<1> USE DEF QueueInv
<1>1. /\ pc[b] = "claim" /\ pc' = [pc EXCEPT ![b] = "poll"]
      /\ list_idx' = [list_idx EXCEPT ![b] = list_read_idx]
      /\ list_read_idx' = list_read_idx + 1
      /\ UNCHANGED <<config, grid, list_alloc_idx, entry_alloc_idx, lists,
                     sequence, pool, warp, state, host, since_reset>>
  BY DEF ClaimList
<1>2. b \in grid /\ host # "prefill"
  BY <1>1 DEF KernelInv
<1>3. QueueTypes' /\ HeadersInv'
  BY <1>1 DEF QueueTypes, HeadersInv, PlaceSet
<1>4. ClaimsInv'
  BY <1>1 DEF ClaimsInv, QueueTypes, HasClaim, HasList
<1>5. KernelInv'
  BY <1>1 DEF KernelInv, QueueTypes
<1>6. Idle' = IF list_read_idx >= MaxLists THEN Idle \cup {b} ELSE Idle
  BY <1>1, <1>2 DEF Idle, QueueTypes
<1>7. b \notin Idle /\ Idle \subseteq Blocks
  BY <1>1 DEF Idle, QueueTypes
<1>8. IsFiniteSet(Idle) /\ Cardinality(Idle) \in Nat /\ Cardinality(grid) \in Nat
  BY <1>7, GridFinite DEF QueueTypes
<1>9. Cardinality(Idle \cup {b}) = Cardinality(Idle) + 1
  BY <1>7, <1>8, FS_AddElement
<1>10. ClaimsBounded'
  <2>1. since_reset # 0 /\ since_reset \in Nat
    BY <1>2 DEF KernelInv, QueueTypes
  <2>2. PICK y \in Nat : y = (since_reset - 1) * Cardinality(grid)
    BY <2>1, <1>8
  <2>3. list_read_idx <= MaxLists + y + Cardinality(Idle)
    BY <2>1, <2>2 DEF ClaimsBounded
  <2>4. list_read_idx + 1 <= MaxLists + y + Cardinality(Idle')
    BY <2>3, <2>2, <1>6, <1>8, <1>9, SGAssumption DEF QueueTypes
  <2>5. QED
    BY <2>1, <2>2, <2>4, <1>1 DEF ClaimsBounded
<1>11. QED
  BY <1>3, <1>4, <1>5, <1>10

\* The list whose marker a block finds has the index it claimed.
LEMMA ReadFacts ==
  ASSUME QueueInv, NEW b \in Blocks, ReadList(b)
  PROVE  /\ list_idx[b] \in ListIds /\ list_idx[b] < list_alloc_idx
         /\ Slot(b) = list_idx[b] /\ lists[Slot(b)] = lists[list_idx[b]]
<1>1. list_idx[b] \in Nat /\ list_idx[b] % MAX_SG_LISTS \in Ring
  BY ListSlots DEF QueueInv, QueueTypes
<1>2. sequence[Slot(b)] = list_idx[b] + 1
  BY DEF ReadList
<1>3. Slot(b) = list_idx[b] /\ Slot(b) < list_alloc_idx
  BY <1>1, <1>2 DEF QueueInv, HeadersInv, Slot, Ring
<1>4. QED
  BY <1>3, <1>1, SGAssumption DEF ListIds, QueueInv, QueueTypes

\* The header that is read is the list's.
LEMMA QueueRead ==
  ASSUME QueueInv, NEW b \in Blocks, ReadList(b)
  PROVE  QueueInv'
<1> USE DEF QueueInv
<1>1. /\ pc[b] = "poll" /\ pc' = [pc EXCEPT ![b] = "acquire"]
      /\ state' = [state EXCEPT ![b] = lists[list_idx[b]]]
      /\ list_idx[b] < list_alloc_idx /\ list_idx[b] \in Ring
      /\ UNCHANGED <<config, grid, list_alloc_idx, list_read_idx,
                     entry_alloc_idx, lists, sequence, pool, warp, list_idx,
                     host, since_reset>>
  BY ReadFacts, ListSlots DEF ReadList
<1>2. QueueTypes' /\ HeadersInv'
  BY <1>1 DEF QueueTypes, HeadersInv, PlaceSet
<1>3. ClaimsInv'
  BY <1>1 DEF ClaimsInv, QueueTypes, HasClaim, HasList
<1>4. KernelInv'
  BY <1>1 DEF KernelInv, QueueTypes
<1>5. Idle' = Idle
  BY <1>1 DEF Idle, QueueTypes
<1>6. ClaimsBounded'
  BY <1>1, <1>5 DEF ClaimsBounded
<1>7. QED
  BY <1>2, <1>3, <1>4, <1>6

\* The marker that is cleared is the block's own.
LEMMA QueueClear ==
  ASSUME QueueInv, NEW b \in Blocks, ClearList(b)
  PROVE  QueueInv'
<1> USE DEF QueueInv
<1>1. /\ pc[b] = "clear" /\ pc' = [pc EXCEPT ![b] = "wait_done"]
      /\ sequence' = [sequence EXCEPT ![Slot(b)] = 0]
      /\ UNCHANGED <<config, grid, list_alloc_idx, list_read_idx, lists, pool,
                     entry_alloc_idx, warp, list_idx, state, host, since_reset>>
  BY DEF ClearList
<1>2. QueueTypes' /\ HeadersInv'
  <2>1. sequence' \in [Ring -> 0..MaxLists]
    <3>1. 0 \in 0..MaxLists
      BY ListSlots
    <3>2. QED
      BY <3>1, <1>1 DEF QueueTypes
  <2>2. QueueTypes'
    BY <2>1, <1>1 DEF QueueTypes, PlaceSet
  <2>3. HeadersInv'
    BY <1>1 DEF QueueTypes, HeadersInv
  <2>4. QED
    BY <2>2, <2>3
<1>3. ClaimsInv'
  BY <1>1 DEF ClaimsInv, QueueTypes, HasClaim, HasList
<1>4. KernelInv'
  BY <1>1 DEF KernelInv, QueueTypes
<1>5. Idle' = Idle
  BY <1>1 DEF Idle, QueueTypes
<1>6. ClaimsBounded'
  BY <1>1, <1>5 DEF ClaimsBounded
<1>7. QED
  BY <1>2, <1>3, <1>4, <1>6

\* The transfer warp's steps.
LEMMA QueueTransfer ==
  ASSUME QueueInv, NEW b \in Blocks, TransferWarp(b)
  PROVE  QueueInv'
<1>1. CASE ClaimList(b)
  BY <1>1, QueueClaim
<1>2. CASE ReadList(b)
  BY <1>2, QueueRead
<1>3. CASE NotCommitted(b)
  <2>1. PICK q \in PlaceSet : q = "check_terminate"
    BY DEF PlaceSet
  <2>2. QED
    BY <2>1, <1>3, QueueMove DEF NotCommitted, HasClaim, HasList
<1>4. CASE CheckTerminate(b)
  <2>1. PICK q \in PlaceSet : q = IF terminate THEN "exit" ELSE "poll"
    BY DEF PlaceSet
  <2>2. pc' = [pc EXCEPT ![b] = q] /\ q \in {"exit", "poll"}
    BY <2>1, <1>4 DEF CheckTerminate
  <2>3. QED
    BY <2>2, <1>4, QueueMove DEF CheckTerminate, HasClaim, HasList
<1>5. CASE WriteDescriptors(b)
  <2>1. PICK q \in PlaceSet : q = "commit"
    BY DEF PlaceSet
  <2>2. QED
    BY <2>1, <1>5, QueueMove DEF WriteDescriptors, HasClaim, HasList
<1>6. CASE CommitSlot(b)
  <2>1. PICK q \in PlaceSet : pc' = [pc EXCEPT ![b] = q] /\ q \in {"clear", "commit"}
    BY <1>6 DEF CommitSlot, PlaceSet
  <2>2. QED
    BY <2>1, <1>6, QueueMove DEF CommitSlot, HasClaim, HasList
<1>7. CASE ClearList(b)
  BY <1>7, QueueClear
<1>8. CASE WaitListDone(b)
  <2>1. PICK q \in PlaceSet : q = "wait_compute"
    BY DEF PlaceSet
  <2>2. QED
    BY <2>1, <1>8, QueueMove DEF WaitListDone, HasClaim, HasList
<1>9. CASE WaitCompute(b)
  <2>1. PICK q \in PlaceSet : q = "claim"
    BY DEF PlaceSet
  <2>2. QED
    BY <2>1, <1>9, QueueMove DEF WaitCompute, HasClaim, HasList
<1>10. QED
  BY <1>1, <1>2, <1>3, <1>4, <1>5, <1>6, <1>7, <1>8, <1>9 DEF TransferWarp
\* A compute warp's steps.
LEMMA QueueCompute ==
  ASSUME QueueInv, NEW b \in Blocks, ComputeWarp(b)
  PROVE  QueueInv'
<1> USE DEF QueueInv
<1>1. PICK q \in WarpSet :
        /\ warp' = [warp EXCEPT ![b] = q] /\ warp[b] # "exit"
        /\ UNCHANGED <<config, grid, list_alloc_idx, list_read_idx, lists,
                       sequence, pool, entry_alloc_idx, pc, list_idx, state,
                       host, since_reset>>
  <2>1. CASE StartCompute(b)
    BY <2>1 DEF StartCompute, WarpSet
  <2>2. CASE FinishCompute(b)
    BY <2>2 DEF FinishCompute, WarpSet
  <2>3. CASE ClearReady(b)
    BY <2>3 DEF ClearReady, WarpSet
  <2>4. QED
    BY <2>1, <2>2, <2>3 DEF ComputeWarp
<1>2. QueueTypes' /\ HeadersInv'
  BY <1>1 DEF QueueTypes, HeadersInv
<1>3. ClaimsInv'
  BY <1>1 DEF ClaimsInv, HasClaim, HasList
<1>4. KernelInv'
  BY <1>1 DEF KernelInv, QueueTypes
<1>5. ClaimsBounded'
  BY <1>1 DEF ClaimsBounded, Idle
<1>6. QED
  BY <1>2, <1>3, <1>4, <1>5

\* A launch releases the idle claims but does not take them back.
LEMMA QueueLaunch ==
  ASSUME QueueInv, Launch
  PROVE  QueueInv'
<1> USE DEF QueueInv
<1>1. /\ pc' = [b \in Blocks |-> IF b \in grid THEN "claim" ELSE "exit"]
      /\ warp' = [b \in Blocks |-> IF b \in grid THEN "wait" ELSE "exit"]
      /\ list_idx' = [b \in Blocks |-> 0] /\ state' = [b \in Blocks |-> NoList]
      /\ host' = "running" /\ since_reset' = since_reset + 1
      /\ UNCHANGED <<config, grid, list_alloc_idx, list_read_idx, lists,
                     sequence, pool, entry_alloc_idx>>
  BY DEF Launch
<1>2. QueueTypes' /\ HeadersInv'
  BY <1>1, NoListType DEF QueueTypes, HeadersInv, PlaceSet, WarpSet, HostSet
<1>3. ClaimsInv' /\ KernelInv'
  BY <1>1 DEF ClaimsInv, KernelInv, HasClaim, HasList, QueueTypes
<1>4. Idle \subseteq Blocks /\ Idle \subseteq grid /\ IsFiniteSet(grid)
  BY GridFinite DEF Idle, QueueTypes
<1>5. /\ Cardinality(Idle) \in Nat /\ Cardinality(grid) \in Nat
      /\ Cardinality(Idle) <= Cardinality(grid)
  BY <1>4, GridFinite, FS_Subset DEF QueueTypes
<1>6. Cardinality(Idle') = 0
  <2>1. Idle' = {}
    BY <1>1 DEF Idle, QueueTypes
  <2>2. QED
    BY <2>1, FS_EmptySet
<1>7. ClaimsBounded'
  <2>1. since_reset \in Nat /\ MaxLists \in Nat /\ list_read_idx \in Nat
    BY ListSlots DEF QueueTypes
  <2>2. PICK y \in Nat : y = ((since_reset + 1) - 1) * Cardinality(grid)
    BY <2>1, <1>5
  <2>3. list_read_idx <= MaxLists + y
    <3>1. CASE since_reset = 0
      BY <3>1, <2>1, <2>2 DEF ClaimsBounded
    <3>2. CASE since_reset # 0
      <4>1. PICK z \in Nat : z = (since_reset - 1) * Cardinality(grid)
        BY <3>2, <2>1, <1>5
      <4>2. y = z + Cardinality(grid)
        BY <4>1, <2>2, <2>1, <1>5
      <4>3. list_read_idx <= MaxLists + z + Cardinality(Idle)
        BY <3>2, <4>1 DEF ClaimsBounded
      <4>4. QED
        BY <4>1, <4>2, <4>3, <2>1, <2>2, <1>5
    <3>3. QED
      BY <3>1, <3>2
  <2>4. (since_reset + 1) # 0
    BY <2>1
  <2>5. list_read_idx <= MaxLists + y + 0
    BY <2>1, <2>2, <2>3
  <2>6. list_read_idx' <= MaxLists + (since_reset' - 1) * Cardinality(grid') + Cardinality(Idle')
    BY <2>2, <2>5, <1>1, <1>6
  <2>7. QED
    BY <2>4, <2>6, <1>1 DEF ClaimsBounded
<1>8. QED
  BY <1>2, <1>3, <1>7

\* What the polling thread leaves alone.
LEMMA PollerFrame ==
  ASSUME Poller
  PROVE  UNCHANGED <<queueVars, claimVars, blockVars, handVars, warpVars, ringVars, hostVars>>
<1>1. CASE PollEntry
  BY <1>1 DEF PollEntry
<1>2. CASE GapTimeout
  BY <1>2 DEF GapTimeout
<1>3. CASE SubmitBatch
  BY <1>3 DEF SubmitBatch, SubmitData
<1>4. CASE SignalLists
  BY <1>4 DEF SignalLists
<1>5. CASE CompleteLists
  BY <1>5 DEF CompleteLists
<1>6. CASE CopyNoCe
  BY <1>6 DEF CopyNoCe
<1>7. CASE IdleWait
  BY <1>7 DEF IdleWait
<1>8. QED
  BY <1>1, <1>2, <1>3, <1>4, <1>5, <1>6, <1>7 DEF Poller

\* The list a block works on.
LEMMA ListInHand ==
  ASSUME QueueInv, NEW b \in Blocks, HasList(b)
  PROVE  /\ list_idx[b] \in ListIds /\ list_idx[b] < list_alloc_idx
         /\ list_idx[b] < list_read_idx /\ HasClaim(b)
         /\ state[b] = lists[list_idx[b]] /\ state[b].list_id = list_idx[b]
         /\ state[b].count \in Counts /\ state[b].count \in Nat \ {0}
         /\ state[b].pool_offset \in Nat
<1> USE DEF QueueInv
<1>1. /\ list_idx[b] < list_alloc_idx /\ list_idx[b] < list_read_idx
      /\ HasClaim(b) /\ state[b] = lists[list_idx[b]]
  BY DEF ClaimsInv, HasClaim, HasList
<1>2. list_idx[b] \in ListIds
  BY <1>1, ListSlots DEF QueueTypes, ListIds
<1>3. state[b].list_id = list_idx[b] /\ state[b].count \in Counts
  BY <1>1, <1>2 DEF HeadersInv
<1>4. state[b].count \in Nat \ {0}
  BY <1>3, SGAssumption
<1>5. state[b].pool_offset \in Nat
  <2>1. PICK q \in Nat : q = MaxLists * MAX_SG_POOL_ENTRIES
    BY ListSlots
  <2>2. QED
    BY <2>1 DEF QueueTypes, Headers
<1>6. QED
  BY <1>1, <1>2, <1>3, <1>4, <1>5

\* Every step keeps the queue invariant.
LEMMA QueueStep ==
  ASSUME QueueInv, [Next]_vars
  PROVE  QueueInv'
<1>1. CASE Poller
  BY <1>1, PollerFrame, QueueFrame DEF queueInvVars
<1>2. CASE \E c \in ChanIds : CopyCompletes(c)
  BY <1>2, QueueFrame DEF CopyCompletes, queueInvVars
<1>3. CASE SignalCompletes
  BY <1>3, QueueFrame DEF SignalCompletes, queueInvVars
<1>4. CASE \E b \in Blocks : TransferWarp(b) \/ ComputeWarp(b)
  BY <1>4, QueueTransfer, QueueCompute
<1>5. CASE \E n \in Counts : HostSubmit(n)
  BY <1>5, QueueSubmit
<1>6. CASE Launch
  BY <1>6, QueueLaunch
<1>7. CASE StartSync \/ Terminate \/ DeviceSynchronize \/ StopPoller
  <2> USE DEF QueueInv
  <2>1. /\ UNCHANGED <<config, grid, list_alloc_idx, list_read_idx,
                       entry_alloc_idx, lists, sequence, pool, pc, warp,
                       list_idx, state, since_reset>>
        /\ host # "prefill" /\ host' # "prefill" /\ host' \in HostSet
        /\ host' \in {"stopping", "stopped"} =>
             \A b \in Blocks : pc[b] = "exit" /\ warp[b] = "exit"
    <3>1. CASE StartSync
      BY <3>1 DEF StartSync, HostSet
    <3>2. CASE Terminate
      BY <3>2 DEF Terminate, HostSet
    <3>3. CASE DeviceSynchronize
      BY <3>3 DEF DeviceSynchronize, HostSet
    <3>4. CASE StopPoller
      BY <3>4 DEF StopPoller, HostSet, KernelInv
    <3>5. QED
      BY <1>7, <3>1, <3>2, <3>3, <3>4
  <2>2. QueueTypes' /\ HeadersInv'
    BY <2>1 DEF QueueTypes, HeadersInv
  <2>3. ClaimsInv'
    BY <2>1 DEF ClaimsInv, HasClaim, HasList
  <2>4. KernelInv'
    BY <2>1 DEF KernelInv, HostSet
  <2>5. ClaimsBounded'
    BY <2>1 DEF ClaimsBounded, Idle
  <2>6. QED
    BY <2>2, <2>3, <2>4, <2>5
<1>8. CASE Reset
  <2> USE DEF QueueInv
  <2>1. /\ UNCHANGED <<config, grid, lists, pool, pc, warp, list_idx, state>>
        /\ host = "stopped" /\ host' = "prefill" /\ since_reset' = 0
        /\ list_alloc_idx' = 0 /\ list_read_idx' = 0 /\ entry_alloc_idx' = 0
        /\ sequence' = [r \in Ring |-> 0]
    BY <1>8 DEF Reset, ReadIdxReset
  <2>2. \A b \in Blocks : pc[b] = "exit" /\ warp[b] = "exit"
    BY <2>1 DEF KernelInv
  <2>3. sequence' \in [Ring -> 0..MaxLists] /\ 0 \in 0..MaxLists
    BY <2>1, ListSlots
  <2>4. QueueTypes' /\ HeadersInv'
    BY <2>1, <2>3, ListSlots DEF QueueTypes, HeadersInv, HostSet, ListIds
  <2>5. ClaimsInv' /\ KernelInv' /\ ClaimsBounded'
    BY <2>1, <2>2 DEF ClaimsInv, HasClaim, HasList, KernelInv, ClaimsBounded
  <2>6. QED
    BY <2>4, <2>5
<1>9. CASE UNCHANGED vars
  BY <1>9, QueueFrame DEF vars, queueInvVars
<1>10. QED
  BY <1>1, <1>2, <1>3, <1>4, <1>5, <1>6, <1>7, <1>8, <1>9
  DEF Next, Running, Session

\* Lists are claimed once each and read by who has claimed them (QueueInv).
LEMMA QueueHolds == Spec => []QueueInv
BY QueueInit, QueueStep, PTL DEF Spec
-----------------------------------------------------------------------------
(* The hand-over: the proof *)

\* What HandInv is about.
handInvVars == <<list_read_idx, list_ready, compute_done, terminated, view,
                 computed, pc, list_idx, state, warp, terminate>>

\* The step is that of block b and leaves the warps of all others alone.
OthersHandUnchanged(b) ==
  \A a \in Blocks : a # b =>
    /\ list_ready'[a] = list_ready[a] /\ compute_done'[a] = compute_done[a]
    /\ terminated'[a] = terminated[a] /\ view'[a] = view[a]
    /\ pc'[a] = pc[a] /\ list_idx'[a] = list_idx[a] /\ state'[a] = state[a]
    /\ warp'[a] = warp[a]

\* Steps that change nothing of the hand-over.
LEMMA HandFrame ==
  ASSUME HandInv, UNCHANGED handInvVars
  PROVE  HandInv'
<1>1. HandTypes' /\ ComputedInv'
  BY DEF HandInv, handInvVars, HandTypes, ComputedInv
<1>2. \A b \in Blocks : HandOver(b)'
  BY DEF HandInv, handInvVars, HandOver, HasClaim
<1>3. QED
  BY <1>1, <1>2 DEF HandInv

\* No block runs and nothing is computed at first.
LEMMA HandInit == Init => HandInv
<1> SUFFICES ASSUME Init PROVE HandInv
  OBVIOUS
<1>1. HandTypes
  BY NoListType DEF Init, HandTypes
<1>2. ComputedInv
  BY DEF Init, ComputedInv
<1>3. \A b \in Blocks : HandOver(b)
  BY DEF Init, HandOver, HasClaim
<1>4. QED
  BY <1>1, <1>2, <1>3 DEF HandInv

\* A step of block b that computes nothing leaves the others' hand-over alone.
LEMMA HandOthers ==
  ASSUME HandInv, NEW b \in Blocks, OthersHandUnchanged(b), computed' = computed
  PROVE  \A a \in Blocks : a # b => HandOver(a)'
BY DEF HandInv, OthersHandUnchanged, HandOver, HasClaim

\* The transfer warp's steps: a list is handed over after the previous one has
\* been computed, whatever its compute warp still has to store.
LEMMA HandTransfer ==
  ASSUME QueueInv, HandInv, NEW b \in Blocks, TransferWarp(b)
  PROVE  HandInv'
<1> USE DEF HandInv, QueueInv
<1>1. CASE ClaimList(b)
  <2> USE <1>1 DEF ClaimList
  <2>1. HandTypes'
    BY DEF HandTypes
  <2>2. ComputedInv'
    BY DEF ComputedInv, QueueTypes, ListIds
  <2>3. OthersHandUnchanged(b) /\ computed' = computed
    BY DEF OthersHandUnchanged, QueueTypes
  <2>4. HandOver(b)'
    BY DEF HandOver, ComputedInv, QueueTypes, HasClaim, ListIds
  <2>5. QED
    BY <2>1, <2>2, <2>3, <2>4, HandOthers
<1>2. CASE ReadList(b)
  <2> USE <1>2 DEF ReadList
  <2>1. HandTypes' /\ ComputedInv'
    BY DEF HandTypes, ComputedInv
  <2>2. OthersHandUnchanged(b) /\ computed' = computed
    BY DEF OthersHandUnchanged, QueueTypes, HandTypes
  <2>3. HandOver(b)'
    BY DEF HandOver, QueueTypes, HandTypes, HasClaim
  <2>4. QED
    BY <2>1, <2>2, <2>3, HandOthers
<1>3. CASE NotCommitted(b)
  <2> USE <1>3 DEF NotCommitted
  <2>1. HandTypes' /\ ComputedInv'
    BY DEF HandTypes, ComputedInv
  <2>2. OthersHandUnchanged(b) /\ computed' = computed
    BY DEF OthersHandUnchanged, QueueTypes, HandTypes
  <2>3. HandOver(b)'
    BY DEF HandOver, QueueTypes, HandTypes, HasClaim
  <2>4. QED
    BY <2>1, <2>2, <2>3, HandOthers
<1>4. CASE CheckTerminate(b)
  <2> USE <1>4 DEF CheckTerminate
  <2>1. HandTypes' /\ ComputedInv'
    BY DEF HandTypes, ComputedInv
  <2>2. OthersHandUnchanged(b) /\ computed' = computed
    BY DEF OthersHandUnchanged, QueueTypes, HandTypes
  <2>3. HandOver(b)'
    BY DEF HandOver, QueueTypes, HandTypes, HasClaim
  <2>4. QED
    BY <2>1, <2>2, <2>3, HandOthers
<1>5. CASE WriteDescriptors(b) \/ CommitSlot(b) \/ ClearList(b)
  <2>1. /\ pc[b] \in {"acquire", "commit", "clear"}
        /\ pc'[b] \in {"commit", "clear", "wait_done"}
        /\ \A a \in Blocks : a # b => pc'[a] = pc[a]
        /\ UNCHANGED <<list_read_idx, list_ready, compute_done, terminated,
                       view, computed, list_idx, state, warp, terminate>>
    <3>1. CASE WriteDescriptors(b)
      BY <3>1 DEF WriteDescriptors, QueueTypes
    <3>2. CASE CommitSlot(b)
      BY <3>2 DEF CommitSlot, QueueTypes
    <3>3. CASE ClearList(b)
      BY <3>3 DEF ClearList, QueueTypes
    <3>4. QED
      BY <1>5, <3>1, <3>2, <3>3
  <2>2. HandTypes' /\ ComputedInv'
    BY <2>1 DEF HandTypes, ComputedInv
  <2>3. OthersHandUnchanged(b)
    BY <2>1 DEF OthersHandUnchanged
  <2>4. HandOver(b)'
    BY <2>1 DEF HandOver, HasClaim
  <2>5. QED
    BY <2>1, <2>2, <2>3, <2>4, HandOthers
<1>6. CASE WaitListDone(b)
  <2> USE <1>6 DEF WaitListDone
  <2>1. HandTypes' /\ ComputedInv'
    BY DEF HandTypes, ComputedInv
  <2>2. OthersHandUnchanged(b) /\ computed' = computed
    BY DEF OthersHandUnchanged, QueueTypes, HandTypes
  <2>3. list_idx[b] \in ListIds
    BY ListInHand DEF HasList
  <2>4. HandOver(b)'
    BY <2>3 DEF HandOver, QueueTypes, HandTypes, HasClaim
  <2>5. QED
    BY <2>1, <2>2, <2>4, HandOthers
<1>7. CASE WaitCompute(b)
  <2> USE <1>7 DEF WaitCompute
  <2>1. HandTypes' /\ ComputedInv'
    BY DEF HandTypes, ComputedInv
  <2>2. OthersHandUnchanged(b) /\ computed' = computed
    BY DEF OthersHandUnchanged, QueueTypes, HandTypes
  <2>3. HandOver(b)'
    BY DEF HandOver, QueueTypes, HandTypes, HasClaim
  <2>4. QED
    BY <2>1, <2>2, <2>3, HandOthers
<1>8. QED
  BY <1>1, <1>2, <1>3, <1>4, <1>5, <1>6, <1>7 DEF TransferWarp

\* A compute warp starts only on the list its block has handed over.
LEMMA StartFacts ==
  ASSUME QueueInv, HandInv, NEW b \in Blocks, StartCompute(b), ~terminated[b]
  PROVE  /\ pc[b] = "wait_compute" /\ ~compute_done[b]
         /\ computed[list_idx[b]] = 0
         /\ list_idx[b] \in ListIds /\ list_idx[b] < list_read_idx
         /\ computed' = [computed EXCEPT ![list_idx[b]] = 1]
         /\ warp' = [warp EXCEPT ![b] = "compute"]
         /\ view' = [view EXCEPT ![b] = state[b]]
         /\ UNCHANGED <<list_read_idx, list_ready, compute_done, terminated,
                        pc, list_idx, state, terminate, entries>>
<1> USE DEF HandInv, QueueInv, StartCompute
<1>1. pc[b] = "wait_compute" /\ ~compute_done[b] /\ computed[list_idx[b]] = 0
  BY DEF HandOver, HandTypes, QueueTypes, PlaceSet
<1>2. /\ list_idx[b] \in ListIds /\ list_idx[b] < list_read_idx
      /\ state[b] = lists[list_idx[b]] /\ state[b].list_id = list_idx[b]
  BY <1>1, ListInHand DEF HasList
<1>3. QED
  BY <1>1, <1>2

\* The compute warp's steps: no other block has the list it starts on.
LEMMA HandCompute ==
  ASSUME QueueInv, HandInv, NEW b \in Blocks, ComputeWarp(b)
  PROVE  HandInv'
<1> USE DEF HandInv, QueueInv
<1>1. CASE StartCompute(b) /\ terminated[b]
  <2> USE <1>1 DEF StartCompute
  <2>1. HandTypes' /\ ComputedInv'
    BY DEF HandTypes, ComputedInv
  <2>2. OthersHandUnchanged(b) /\ computed' = computed
    BY DEF OthersHandUnchanged, QueueTypes, HandTypes
  <2>3. HandOver(b)'
    BY DEF HandOver, QueueTypes, HandTypes, HasClaim
  <2>4. QED
    BY <2>1, <2>2, <2>3, HandOthers
<1>2. CASE StartCompute(b) /\ ~terminated[b]
  <2>1. pc[b] = "wait_compute" /\ ~compute_done[b] /\ computed[list_idx[b]] = 0
    BY <1>2, StartFacts
  <2>2. list_idx[b] \in ListIds /\ list_idx[b] < list_read_idx
    BY <1>2, StartFacts
  <2>3. /\ computed' = [computed EXCEPT ![list_idx[b]] = 1]
        /\ warp' = [warp EXCEPT ![b] = "compute"]
        /\ view' = [view EXCEPT ![b] = state[b]]
        /\ UNCHANGED <<list_read_idx, list_ready, compute_done, terminated,
                       pc, list_idx, state, terminate>>
    BY <1>2, StartFacts
  <2>4. HandTypes'
    BY <2>2, <2>3 DEF HandTypes, QueueTypes
  <2>5. ComputedInv'
    BY <2>2, <2>3 DEF ComputedInv, HandTypes, QueueTypes, ListIds
  <2>6. HandOver(b)'
    BY <2>1, <2>2, <2>3 DEF HandOver, QueueTypes, HandTypes, HasClaim
  <2>7. ASSUME NEW a \in Blocks, a # b PROVE HandOver(a)'
    <3>1. HasClaim(a) => list_idx[a] # list_idx[b]
      BY <2>1, <2>7 DEF ClaimsInv, HasClaim
    <3>2. HasClaim(a) /\ list_idx[a] \in ListIds =>
            computed'[list_idx[a]] = computed[list_idx[a]]
      BY <3>1, <2>3 DEF HandTypes
    <3>3. pc[a] = "wait_compute" => HasClaim(a) /\ list_idx[a] \in ListIds
      BY ListInHand DEF HasClaim, HasList
    <3>4. warp'[a] = warp[a] /\ view'[a] = view[a]
      BY <2>3, <2>7 DEF QueueTypes, HandTypes
    <3>5. HandOver(a)
      OBVIOUS
    <3>6. QED
      BY <3>2, <3>3, <3>4, <3>5, <2>3 DEF HandOver, HasClaim
  <2>8. QED
    BY <2>4, <2>5, <2>6, <2>7
<1>3. CASE FinishCompute(b)
  <2> USE <1>3 DEF FinishCompute
  <2>1. HandTypes' /\ ComputedInv'
    BY DEF HandTypes, ComputedInv
  <2>2. OthersHandUnchanged(b) /\ computed' = computed
    BY DEF OthersHandUnchanged, QueueTypes, HandTypes
  <2>3. HandOver(b)'
    BY DEF HandOver, QueueTypes, HandTypes, HasClaim
  <2>4. QED
    BY <2>1, <2>2, <2>3, HandOthers
<1>4. CASE ClearReady(b)
  <2> USE <1>4 DEF ClearReady
  <2>1. HandTypes' /\ ComputedInv'
    BY DEF HandTypes, ComputedInv
  <2>2. OthersHandUnchanged(b) /\ computed' = computed
    BY DEF OthersHandUnchanged, QueueTypes, HandTypes
  <2>3. HandOver(b)'
    BY DEF HandOver, QueueTypes, HandTypes, HasClaim
  <2>4. QED
    BY <2>1, <2>2, <2>3, HandOthers
<1>5. QED
  BY <1>1, <1>2, <1>3, <1>4 DEF ComputeWarp

\* Every step keeps the hand-over invariant.
LEMMA HandStep ==
  ASSUME QueueInv, HandInv, [Next]_vars
  PROVE  HandInv'
<1>1. CASE Poller
  BY <1>1, PollerFrame, HandFrame DEF handInvVars
<1>2. CASE \E c \in ChanIds : CopyCompletes(c)
  BY <1>2, HandFrame DEF CopyCompletes, handInvVars
<1>3. CASE SignalCompletes
  BY <1>3, HandFrame DEF SignalCompletes, handInvVars
<1>4. CASE \E b \in Blocks : TransferWarp(b) \/ ComputeWarp(b)
  BY <1>4, HandTransfer, HandCompute
<1>5. CASE \E n \in Counts : HostSubmit(n)
  BY <1>5, HandFrame DEF HostSubmit, handInvVars
<1>6. CASE StartSync \/ DeviceSynchronize \/ StopPoller
  BY <1>6, HandFrame DEF StartSync, DeviceSynchronize, StopPoller, handInvVars
<1>7. CASE Terminate
  <2> USE <1>7 DEF Terminate, HandInv
  <2>1. HandTypes' /\ ComputedInv'
    BY DEF HandTypes, ComputedInv
  <2>2. \A b \in Blocks : HandOver(b)'
    BY DEF HandOver, HasClaim
  <2>3. QED
    BY <2>1, <2>2
<1>8. CASE Launch
  <2> USE <1>8 DEF Launch, HandInv
  <2>1. HandTypes' /\ ComputedInv'
    BY NoListType DEF HandTypes, ComputedInv
  <2>2. \A b \in Blocks : HandOver(b)'
    BY DEF HandOver, HasClaim
  <2>3. QED
    BY <2>1, <2>2
<1>9. CASE Reset
  <2> USE <1>9 DEF Reset, HandInv
  <2>1. HandTypes'
    BY DEF HandTypes
  <2>4. ComputedInv'
    <3>1. computed' = [l \in ListIds |-> 0]
      OBVIOUS
    <3>2. QED
      BY <3>1 DEF ComputedInv
  <2>2. \A b \in Blocks : pc[b] = "exit" /\ warp[b] = "exit"
    BY DEF QueueInv, KernelInv
  <2>3. \A b \in Blocks : HandOver(b)'
    BY <2>2 DEF HandOver, HasClaim
  <2>5. QED
    BY <2>1, <2>3, <2>4
<1>10. CASE UNCHANGED vars
  BY <1>10, HandFrame DEF vars, handInvVars
<1>11. QED
  BY <1>1, <1>2, <1>3, <1>4, <1>5, <1>6, <1>7, <1>8, <1>9, <1>10
  DEF Next, Running, Session

\* Lists are computed at most once, by the block that claimed them (HandInv).
LEMMA HandHolds == Spec => []HandInv
BY QueueHolds, HandInit, HandStep, PTL DEF Spec
-----------------------------------------------------------------------------
(* The descriptors: the proof *)

\* Where the descriptors of a list that is written come to lie.
LEMMA WriteFacts ==
  ASSUME QueueInv, entries \in Seq(Desc), NEW b \in Blocks, WriteDescriptors(b)
  PROVE  /\ entries' \in Seq(Desc) /\ Len(entries) \in Nat
         /\ Len(entries') = Len(entries) + state[b].count
         /\ state[b].count \in Nat \ {0}
         /\ \A n \in 1..Len(entries) : entries'[n] = entries[n]
         /\ \A i \in 1..state[b].count :
              /\ entries'[Len(entries) + i].list_id = list_idx[b]
              /\ entries'[Len(entries) + i].last = (i = state[b].count)
              /\ entries'[Len(entries) + i].entry =
                   pool[PoolSlot(state[b].pool_offset, i - 1)]
<1> DEFINE c == state[b].count
           L == Len(entries)
           R(i) == [entry   |-> pool[PoolSlot(state[b].pool_offset, i - 1)],
                    list_id |-> state[b].list_id,
                    last    |-> i = state[b].count]
           S == [i \in 1..c |-> R(i)]
<1>1. /\ c \in Nat \ {0} /\ state[b].list_id = list_idx[b]
      /\ list_idx[b] \in ListIds /\ state[b].pool_offset \in Nat
  BY ListInHand DEF WriteDescriptors, HasList
<1>2. \A i \in 1..c : R(i) \in Desc
  <2> TAKE i \in 1..c
  <2>1. state[b].pool_offset + (i - 1) \in Nat
    BY <1>1
  <2>2. PoolSlot(state[b].pool_offset, i - 1) \in Pool
    BY <2>1, PoolOffset DEF PoolSlot
  <2>3. pool[PoolSlot(state[b].pool_offset, i - 1)] \in Int \X Int
    BY <2>2 DEF QueueInv, QueueTypes
  <2>4. QED
    BY <2>3, <1>1 DEF Desc
<1> HIDE DEF R
<1>3. S \in Seq(Desc)
  BY <1>1, <1>2, IsASeq
<1>4. Len(S) = c
  BY <1>1, <1>3, LenProperties
<1>5. entries' = entries \o S
  BY DEF WriteDescriptors, R
<1> HIDE DEF S
<1>6. /\ entries' \in Seq(Desc) /\ Len(entries') = L + c /\ L \in Nat
      /\ \A i \in 1..(L + c) : entries'[i] = IF i <= L THEN entries[i] ELSE S[i - L]
  BY <1>3, <1>4, <1>5, ConcatProperties, LenProperties
<1>7. \A n \in 1..L : entries'[n] = entries[n]
  <2> HIDE DEF L, c
  <2>1. \A n \in 1..L : n \in 1..(L + c) /\ n <= L
    BY <1>1, <1>6
  <2>2. QED
    BY <2>1, <1>6
<1>8. \A i \in 1..c : entries'[L + i] = R(i)
  <2> TAKE i \in 1..c
  <2>1. L + i \in 1..(L + c) /\ ~(L + i <= L) /\ (L + i) - L = i
    BY <1>1, <1>6
  <2>2. entries'[L + i] = S[i]
    BY <2>1, <1>6
  <2>3. QED
    BY <2>2 DEF S
<1>9. \A i \in 1..c : /\ R(i).list_id = list_idx[b] /\ R(i).last = (i = c)
                      /\ R(i).entry = pool[PoolSlot(state[b].pool_offset, i - 1)]
  BY <1>1 DEF R
<1>10. QED
  BY <1>1, <1>6, <1>7, <1>8, <1>9

\* Steps that write no descriptors and neither take up nor give up a list.
LEMMA DescKeep ==
  ASSUME DescInv, entries' = entries,
         QueueInv, QueueInv', list_alloc_idx' >= list_alloc_idx,
         list_read_idx' >= list_read_idx,
         \A b \in Blocks : HasClaim(b)' => (HasSlots(b)' <=> Described(list_idx'[b]))
  PROVE  DescInv'
<1>1. /\ list_alloc_idx \in Nat /\ list_alloc_idx' \in Nat
      /\ list_read_idx \in Nat /\ list_read_idx' \in Nat
  BY SGAssumption DEF QueueInv, QueueTypes
<1>2. \A n \in 1..Len(entries) : entries[n].list_id \in Nat
  <2> TAKE n \in 1..Len(entries)
  <2>1. entries[n] \in Desc
    BY ElementOfSeq DEF DescInv
  <2>2. entries[n].list_id \in ListIds /\ ListIds \subseteq Nat
    BY <2>1 DEF Desc, ListIds
  <2>3. QED
    BY <2>2
<1>3. ListsConsecutive' /\ ListsEndOnce'
  BY DEF DescInv, ListsConsecutive, ListsEndOnce
<1>4. \A n \in 1..Len(entries) : /\ entries[n].list_id < list_alloc_idx'
                                 /\ entries[n].list_id < list_read_idx'
  BY <1>1, <1>2 DEF DescInv, ListsOwned
<1>5. ListsOwned'
  BY <1>4 DEF ListsOwned, Described
<1>6. QED
  BY <1>3, <1>5 DEF DescInv

\* What DescInv is about.
descInvVars == <<entries, list_alloc_idx, list_read_idx, pc, list_idx>>

\* Steps that change none of it.
LEMMA DescFrame ==
  ASSUME DescInv, UNCHANGED descInvVars
  PROVE  DescInv'
<1> USE DEF descInvVars
<1>1. ListsConsecutive' /\ ListsEndOnce'
  BY DEF DescInv, ListsConsecutive, ListsEndOnce
<1>2. ListsOwned'
  BY DEF DescInv, ListsOwned, HasClaim, HasSlots, Described
<1>3. QED
  BY <1>1, <1>2 DEF DescInv

\* An empty ring of descriptors.
NoDescriptors == entries = <<>> /\ \A b \in Blocks : ~HasClaim(b)

\* It satisfies the invariant.
LEMMA DescEmpty == NoDescriptors => DescInv
<1> SUFFICES ASSUME NoDescriptors PROVE DescInv
  OBVIOUS
<1> USE DEF NoDescriptors
<1>1. Len(entries) = 0 /\ entries \in Seq(Desc)
  BY EmptySeq
<1>2. 1..Len(entries) = {}
  BY <1>1
<1>3. ListsConsecutive /\ ListsEndOnce /\ ListsOwned
  BY <1>2 DEF ListsConsecutive, ListsEndOnce, ListsOwned
<1>4. QED
  BY <1>1, <1>3 DEF DescInv

\* The lists that have descriptors then.
LEMMA DescribedAfter ==
  ASSUME QueueInv, DescInv, NEW b \in Blocks, WriteDescriptors(b)
  PROVE  \A l : Described(l)' <=> (Described(l) \/ l = list_idx[b])
<1> DEFINE L == Len(entries)
           c == state[b].count
<1>1. /\ L \in Nat /\ Len(entries') = L + c /\ c \in Nat \ {0}
      /\ \A n \in 1..L : entries'[n] = entries[n]
      /\ \A i \in 1..c : entries'[L + i].list_id = list_idx[b]
  BY WriteFacts DEF DescInv
<1> HIDE DEF c
<1>2. /\ \A n \in 1..L : n \in 1..(L + c)
      /\ 1 \in 1..c /\ L + 1 \in 1..(L + c)
  BY <1>1
<1>3. \A n \in 1..(L + c) : n \in 1..L \/ \E i \in 1..c : n = L + i
  <2> TAKE n \in 1..(L + c)
  <2>1. n \notin 1..L => n - L \in 1..c /\ n = L + (n - L)
    BY <1>1
  <2>2. QED
    BY <2>1
<1>4. ASSUME NEW l, Described(l)' PROVE Described(l) \/ l = list_idx[b]
  <2>1. PICK n \in 1..(L + c) : entries'[n].list_id = l
    BY <1>4, <1>1 DEF Described
  <2>2. CASE n \in 1..L
    BY <2>1, <2>2, <1>1 DEF Described
  <2>3. CASE \E i \in 1..c : n = L + i
    <3>1. PICK i \in 1..c : n = L + i
      BY <2>3
    <3>2. entries'[n].list_id = list_idx[b]
      BY <3>1, <1>1
    <3>3. QED
      BY <2>1, <3>2
  <2>4. QED
    BY <2>2, <2>3, <1>3
<1>5. ASSUME NEW l, Described(l) PROVE Described(l)'
  <2>1. PICK n \in 1..L : entries[n].list_id = l
    BY <1>5 DEF Described
  <2>2. n \in 1..Len(entries') /\ entries'[n].list_id = l
    BY <2>1, <1>1, <1>2
  <2>3. QED
    BY <2>2 DEF Described
<1>6. ASSUME NEW l, l = list_idx[b] PROVE Described(l)'
  <2>1. L + 1 \in 1..Len(entries') /\ entries'[L + 1].list_id = l
    BY <1>6, <1>1, <1>2
  <2>2. QED
    BY <2>1 DEF Described
<1>7. QED
  BY <1>4, <1>5, <1>6

\* The descriptors of a list come all at once behind the others, which are of
\* other lists.
LEMMA DescWrite ==
  ASSUME QueueInv, QueueInv', DescInv, NEW b \in Blocks, WriteDescriptors(b)
  PROVE  DescInv'
<1> DEFINE L == Len(entries)
           c == state[b].count
<1>1. /\ entries' \in Seq(Desc) /\ L \in Nat /\ Len(entries') = L + c
      /\ c \in Nat \ {0}
      /\ \A n \in 1..L : entries'[n] = entries[n]
      /\ \A i \in 1..c : /\ entries'[L + i].list_id = list_idx[b]
                         /\ entries'[L + i].last = (i = c)
  BY WriteFacts DEF DescInv
<1>2. \A n \in (L + 1)..(L + c) : /\ entries'[n].list_id = list_idx[b]
                                  /\ entries'[n].last = (n = L + c)
  <2> TAKE n \in (L + 1)..(L + c)
  <2>1. n - L \in 1..c /\ L + (n - L) = n /\ (n - L = c <=> n = L + c)
    BY <1>1
  <2>2. QED
    BY <2>1, <1>1
<1>3. ~Described(list_idx[b]) /\ HasClaim(b) /\ HasList(b)
  BY DEF WriteDescriptors, DescInv, ListsOwned, HasClaim, HasList, HasSlots
<1>4. \A n \in 1..L : entries'[n].list_id # list_idx[b]
  BY <1>1, <1>3 DEF Described
<1> HIDE DEF L, c
<1>5. ListsConsecutive'
  <2>1. ASSUME NEW n \in 1..L
        PROVE  \E e \in n..(L + c) :
                 /\ entries'[e].last
                 /\ \A i \in n..e : /\ entries'[i].list_id = entries'[n].list_id
                                    /\ i < e => ~entries'[i].last
    <3>1. PICK e \in n..L :
            /\ entries[e].last
            /\ \A i \in n..e : /\ entries[i].list_id = entries[n].list_id
                               /\ i < e => ~entries[i].last
      BY DEF L, DescInv, ListsConsecutive
    <3>2. e \in n..(L + c) /\ e \in 1..L /\ \A i \in n..e : i \in 1..L
      BY <1>1
    <3>3. QED
      BY <3>1, <3>2, <1>1
  <2>2. ASSUME NEW n \in (L + 1)..(L + c)
        PROVE  \E e \in n..(L + c) :
                 /\ entries'[e].last
                 /\ \A i \in n..e : /\ entries'[i].list_id = entries'[n].list_id
                                    /\ i < e => ~entries'[i].last
    <3>1. /\ L + c \in n..(L + c) /\ L + c \in (L + 1)..(L + c)
          /\ \A i \in n..(L + c) : i \in (L + 1)..(L + c)
      BY <1>1
    <3>2. entries'[L + c].last
      BY <3>1, <1>2
    <3>3. \A i \in n..(L + c) : /\ entries'[i].list_id = entries'[n].list_id
                                /\ i < L + c => ~entries'[i].last
      <4> TAKE i \in n..(L + c)
      <4>1. entries'[i].list_id = list_idx[b] /\ entries'[n].list_id = list_idx[b]
        BY <3>1, <2>2, <1>2
      <4>2. entries'[i].last = (i = L + c) /\ (i < L + c => i # L + c)
        BY <3>1, <1>1, <1>2
      <4>3. QED
        BY <4>1, <4>2
    <3>4. QED
      BY <3>1, <3>2, <3>3
  <2>3. \A n \in 1..(L + c) : n \in 1..L \/ n \in (L + 1)..(L + c)
    BY <1>1
  <2>4. QED
    BY <2>1, <2>2, <2>3, <1>1 DEF ListsConsecutive
<1>6. ListsEndOnce'
  <2> SUFFICES ASSUME NEW m \in 1..(L + c), NEW n \in 1..(L + c),
                      entries'[m].last, entries'[n].last,
                      entries'[m].list_id = entries'[n].list_id
               PROVE  m = n
    BY <1>1 DEF ListsEndOnce
  <2>1. CASE m \in 1..L /\ n \in 1..L
    BY <2>1, <1>1 DEF L, DescInv, ListsEndOnce
  <2>2. CASE m \in 1..L /\ n \notin 1..L
    <3>1. n \in (L + 1)..(L + c)
      BY <2>2, <1>1
    <3>2. QED
      BY <2>2, <3>1, <1>2, <1>4
  <2>3. CASE m \notin 1..L /\ n \in 1..L
    <3>1. m \in (L + 1)..(L + c)
      BY <2>3, <1>1
    <3>2. QED
      BY <2>3, <3>1, <1>2, <1>4
  <2>4. CASE m \notin 1..L /\ n \notin 1..L
    <3>1. m \in (L + 1)..(L + c) /\ n \in (L + 1)..(L + c)
      BY <2>4, <1>1
    <3>2. QED
      BY <3>1, <1>2
  <2>5. QED
    BY <2>1, <2>2, <2>3, <2>4
<1>7. UNCHANGED <<list_alloc_idx, list_read_idx, list_idx>> /\ pc' = [pc EXCEPT ![b] = "commit"]
  BY DEF WriteDescriptors
<1>8. ListsOwned'
  <2>1. ASSUME NEW n \in 1..(L + c)
        PROVE  entries'[n].list_id < list_alloc_idx /\ entries'[n].list_id < list_read_idx
    <3>1. CASE n \in 1..L
      BY <3>1, <1>1 DEF L, DescInv, ListsOwned
    <3>2. CASE n \notin 1..L
      <4>1. n \in (L + 1)..(L + c)
        BY <3>2, <1>1
      <4>2. QED
        BY <4>1, <1>2, <1>3, ListInHand
    <3>3. QED
      BY <3>1, <3>2
  <2>2. \A l : Described(l)' <=> (Described(l) \/ l = list_idx[b])
    BY DescribedAfter
  <2>3. ASSUME NEW a \in Blocks, HasClaim(a)'
        PROVE  HasSlots(a)' <=> Described(list_idx[a])'
    <3>1. CASE a = b
      BY <3>1, <2>2, <1>7 DEF HasSlots, QueueInv, QueueTypes
    <3>2. CASE a # b
      <4>1. pc'[a] = pc[a] /\ HasClaim(a)
        BY <3>2, <2>3, <1>7 DEF HasClaim, QueueInv, QueueTypes
      <4>2. list_idx[a] # list_idx[b]
        BY <4>1, <3>2, <1>3 DEF QueueInv, ClaimsInv
      <4>3. PICK l : l = list_idx[a]
        OBVIOUS
      <4>4. Described(l)' <=> Described(l)
        BY <4>2, <4>3, <2>2
      <4>5. Described(list_idx[a])' <=> Described(l)
        BY <4>3, <4>4, <1>7 DEF Described
      <4>6. HasSlots(a) <=> Described(l)
        BY <4>1, <4>3 DEF DescInv, ListsOwned
      <4>7. QED
        BY <4>1, <4>5, <4>6 DEF HasSlots
    <3>3. QED
      BY <3>1, <3>2
  <2>4. QED
    BY <2>1, <2>3, <1>1, <1>7 DEF ListsOwned
<1>9. QED
  BY <1>1, <1>5, <1>6, <1>8 DEF DescInv
\* Every step keeps the descriptors' invariant.
LEMMA DescStep ==
  ASSUME QueueInv, QueueInv', DescInv, [Next]_vars
  PROVE  DescInv'
<1> DEFINE Same(b) == pc'[b] = pc[b] /\ list_idx'[b] = list_idx[b]
<1>1. ASSUME NEW b \in Blocks, entries' = entries, list_alloc_idx' = list_alloc_idx,
             list_read_idx' = list_read_idx, list_idx' = list_idx,
             \A a \in Blocks : a # b => pc'[a] = pc[a],
             HasClaim(b)' => HasClaim(b), HasClaim(b)' => (HasSlots(b)' <=> HasSlots(b))
      PROVE  DescInv'
  <2>1. \A a \in Blocks : HasClaim(a)' => HasClaim(a) /\ (HasSlots(a)' <=> HasSlots(a))
    BY <1>1 DEF HasClaim, HasSlots
  <2>2. \A a \in Blocks : HasClaim(a)' => (HasSlots(a)' <=> Described(list_idx'[a]))
    BY <2>1, <1>1 DEF DescInv, ListsOwned
  <2>3. list_alloc_idx' >= list_alloc_idx /\ list_read_idx' >= list_read_idx
    BY <1>1, SGAssumption DEF QueueInv, QueueTypes
  <2>4. QED
    BY <2>2, <2>3, <1>1, DescKeep
<1>2. CASE \E b \in Blocks : TransferWarp(b)
  <2>1. PICK b \in Blocks : TransferWarp(b)
    BY <1>2
  <2> USE DEF QueueInv, QueueTypes
  <2>2. CASE ClaimList(b)
    <3>1. /\ pc' = [pc EXCEPT ![b] = "poll"]
          /\ list_idx' = [list_idx EXCEPT ![b] = list_read_idx]
          /\ list_read_idx' = list_read_idx + 1
          /\ UNCHANGED <<entries, list_alloc_idx>>
      BY <2>2 DEF ClaimList
    <3>2. ~Described(list_read_idx)
      BY DEF Described, DescInv, ListsOwned
    <3>3. ASSUME NEW a \in Blocks, HasClaim(a)'
          PROVE  HasSlots(a)' <=> Described(list_idx'[a])
      <4>1. CASE a = b
        BY <4>1, <3>1, <3>2 DEF HasSlots
      <4>2. CASE a # b
        BY <4>2, <3>1, <3>3 DEF HasSlots, HasClaim, DescInv, ListsOwned
      <4>3. QED
        BY <4>1, <4>2
    <3>4. list_alloc_idx' >= list_alloc_idx /\ list_read_idx' >= list_read_idx
      BY <3>1, SGAssumption
    <3>5. QED
      BY <3>1, <3>3, <3>4, DescKeep
  <2>3. CASE ReadList(b)
    BY <2>3, <1>1 DEF ReadList, HasClaim, HasSlots
  <2>4. CASE NotCommitted(b)
    BY <2>4, <1>1 DEF NotCommitted, HasClaim, HasSlots
  <2>5. CASE CheckTerminate(b)
    BY <2>5, <1>1 DEF CheckTerminate, HasClaim, HasSlots
  <2>6. CASE WriteDescriptors(b)
    BY <2>6, DescWrite
  <2>7. CASE CommitSlot(b)
    BY <2>7, <1>1 DEF CommitSlot, HasClaim, HasSlots
  <2>8. CASE ClearList(b)
    BY <2>8, <1>1 DEF ClearList, HasClaim, HasSlots
  <2>9. CASE WaitListDone(b)
    BY <2>9, <1>1 DEF WaitListDone, HasClaim, HasSlots
  <2>10. CASE WaitCompute(b)
    BY <2>10, <1>1 DEF WaitCompute, HasClaim, HasSlots
  <2>11. QED
    BY <2>1, <2>2, <2>3, <2>4, <2>5, <2>6, <2>7, <2>8, <2>9, <2>10 DEF TransferWarp
<1>3. CASE \E b \in Blocks : ComputeWarp(b)
  BY <1>3, DescFrame DEF ComputeWarp, StartCompute, FinishCompute, ClearReady, descInvVars
<1>4. CASE Poller
  BY <1>4, PollerFrame, DescFrame DEF descInvVars
<1>5. CASE \E c \in ChanIds : CopyCompletes(c)
  BY <1>5, DescFrame DEF CopyCompletes, descInvVars
<1>6. CASE SignalCompletes
  BY <1>6, DescFrame DEF SignalCompletes, descInvVars
<1>7. CASE \E n \in Counts : HostSubmit(n)
  <2>1. /\ entries' = entries /\ list_alloc_idx' = list_alloc_idx + 1
        /\ UNCHANGED <<list_read_idx, pc, list_idx>>
    BY <1>7 DEF HostSubmit
  <2>2. list_alloc_idx' >= list_alloc_idx /\ list_read_idx' >= list_read_idx
    BY <2>1, SGAssumption DEF QueueInv, QueueTypes
  <2>3. \A b \in Blocks : HasClaim(b)' => (HasSlots(b)' <=> Described(list_idx'[b]))
    BY <2>1 DEF HasClaim, HasSlots, DescInv, ListsOwned
  <2>4. QED
    BY <2>1, <2>2, <2>3, DescKeep
<1>8. CASE StartSync \/ Terminate \/ DeviceSynchronize \/ StopPoller
  BY <1>8, DescFrame DEF StartSync, Terminate, DeviceSynchronize, StopPoller, descInvVars
<1>9. CASE Launch
  <2>1. NoDescriptors'
    BY <1>9 DEF Launch, NoDescriptors, HasClaim
  <2>2. QED
    BY <2>1, DescEmpty, PTL
<1>10. CASE Reset
  <2>1. NoDescriptors'
    BY <1>10 DEF Reset, NoDescriptors, HasClaim, QueueInv, KernelInv
  <2>2. QED
    BY <2>1, DescEmpty, PTL
<1>11. CASE UNCHANGED vars
  BY <1>11, DescFrame DEF vars, descInvVars
<1>12. QED
  BY <1>2, <1>3, <1>4, <1>5, <1>6, <1>7, <1>8, <1>9, <1>10, <1>11
  DEF Next, Running, Session

\* The ring of descriptors is made of whole lists, each once (DescInv).
LEMMA DescHolds == Spec => []DescInv
<1>1. Init => DescInv
  <2>1. Init => NoDescriptors
    BY DEF Init, NoDescriptors, HasClaim
  <2>2. QED
    BY <2>1, DescEmpty
<1>2. QED
  BY <1>1, QueueHolds, DescStep, PTL DEF Spec
-----------------------------------------------------------------------------
(* No list is dropped: the proof *)

\* What ListsKept is about.
keptVars == <<entries, computed, pc, list_idx>>

\* Every step keeps it: a list is computed before its block lets it go.
LEMMA KeptStep ==
  ASSUME QueueInv, HandInv, DescInv, ListsKept, [Next]_vars
  PROVE  ListsKept'
<1>1. ASSUME UNCHANGED keptVars PROVE ListsKept'
  BY <1>1 DEF ListsKept, keptVars, Described, HasSlots
<1>2. ASSUME entries' = entries, computed' = computed,
             \A a \in Blocks : HasSlots(a) => HasSlots(a)' /\ list_idx'[a] = list_idx[a]
      PROVE  ListsKept'
  BY <1>2 DEF ListsKept, Described
<1>3. CASE \E b \in Blocks : TransferWarp(b)
  <2>1. PICK b \in Blocks : TransferWarp(b)
    BY <1>3
  <2>2. CASE ClaimList(b)
    BY <2>2, <1>2 DEF ClaimList, HasSlots, QueueInv, QueueTypes
  <2>3. CASE ReadList(b)
    BY <2>3, <1>2 DEF ReadList, HasSlots, QueueInv, QueueTypes
  <2>4. CASE NotCommitted(b)
    BY <2>4, <1>2 DEF NotCommitted, HasSlots, QueueInv, QueueTypes
  <2>5. CASE CheckTerminate(b)
    BY <2>5, <1>2 DEF CheckTerminate, HasSlots, QueueInv, QueueTypes
  <2>6. CASE WriteDescriptors(b)
    <3>1. pc' = [pc EXCEPT ![b] = "commit"] /\ list_idx' = list_idx /\ computed' = computed
      BY <2>6 DEF WriteDescriptors
    <3>2. /\ HasSlots(b)'
          /\ \A a \in Blocks : HasSlots(a) => HasSlots(a)'
      BY <3>1 DEF HasSlots, QueueInv, QueueTypes
    <3>3. \A l : Described(l)' <=> (Described(l) \/ l = list_idx[b])
      BY <2>6, DescribedAfter
    <3>4. QED
      BY <3>1, <3>2, <3>3 DEF ListsKept
  <2>7. CASE CommitSlot(b)
    BY <2>7, <1>2 DEF CommitSlot, HasSlots, QueueInv, QueueTypes
  <2>8. CASE ClearList(b)
    BY <2>8, <1>2 DEF ClearList, HasSlots, QueueInv, QueueTypes
  <2>9. CASE WaitListDone(b)
    BY <2>9, <1>2 DEF WaitListDone, HasSlots, QueueInv, QueueTypes
  <2>10. CASE WaitCompute(b)
    <3>1. /\ pc' = [pc EXCEPT ![b] = "claim"]
          /\ UNCHANGED <<list_idx, computed, entries>>
      BY <2>10 DEF WaitCompute
    <3>2. computed[list_idx[b]] = 1
      BY <2>10 DEF WaitCompute, HandInv, HandOver
    <3>3. \A a \in Blocks : HasSlots(a) => HasSlots(a)' \/ list_idx[a] = list_idx[b]
      BY <3>1 DEF HasSlots, QueueInv, QueueTypes
    <3>4. QED
      BY <3>1, <3>2, <3>3 DEF ListsKept, Described
  <2>11. QED
    BY <2>1, <2>2, <2>3, <2>4, <2>5, <2>6, <2>7, <2>8, <2>9, <2>10 DEF TransferWarp
<1>4. CASE \E b \in Blocks : ComputeWarp(b)
  <2>1. PICK b \in Blocks : ComputeWarp(b)
    BY <1>4
  <2>2. CASE StartCompute(b) /\ ~terminated[b]
    <3>1. /\ computed' = [computed EXCEPT ![list_idx[b]] = 1]
          /\ UNCHANGED <<entries, pc, list_idx>>
      BY <2>2, StartFacts
    <3>2. \A l \in ListIds : computed[l] = 1 => computed'[l] = 1
      BY <3>1 DEF HandInv, HandTypes
    <3>3. QED
      BY <3>1, <3>2 DEF ListsKept, Described, HasSlots
  <2>3. CASE (StartCompute(b) /\ terminated[b]) \/ FinishCompute(b) \/ ClearReady(b)
    BY <2>3, <1>1 DEF StartCompute, FinishCompute, ClearReady, keptVars
  <2>4. QED
    BY <2>1, <2>2, <2>3 DEF ComputeWarp
<1>5. CASE Poller
  BY <1>5, <1>1, PollerFrame DEF keptVars
<1>6. CASE \E c \in ChanIds : CopyCompletes(c)
  BY <1>6, <1>1 DEF CopyCompletes, keptVars
<1>7. CASE SignalCompletes
  BY <1>7, <1>1 DEF SignalCompletes, keptVars
<1>8. CASE (\E n \in Counts : HostSubmit(n)) \/ StartSync \/ Terminate
             \/ DeviceSynchronize \/ StopPoller
  BY <1>8, <1>1 DEF HostSubmit, StartSync, Terminate, DeviceSynchronize, StopPoller, keptVars
<1>9. CASE Launch \/ Reset
  <2>1. Len(entries') = 0
    BY <1>9, EmptySeq DEF Launch, Reset
  <2>2. QED
    BY <2>1 DEF ListsKept, Described
<1>10. CASE UNCHANGED vars
  BY <1>10, <1>1 DEF vars, keptVars
<1>11. QED
  BY <1>3, <1>4, <1>5, <1>6, <1>7, <1>8, <1>9, <1>10 DEF Next, Running, Session

\* A list with descriptors is computed or some block still works on it.
LEMMA KeptHolds == Spec => []ListsKept
<1>1. Init => ListsKept
  BY EmptySeq DEF Init, ListsKept, Described
<1>2. QED
  BY <1>1, QueueHolds, HandHolds, DescHolds, KeptStep, PTL DEF Spec

-----------------------------------------------------------------------------
(* The markers of the descriptors: the proof *)

\* What MarkersInv is about.
markersVars == <<entries, committed, desc_base, pending, pc>>

\* Every step keeps it.
LEMMA MarkersStep ==
  ASSUME QueueInv, DescInv, MarkersInv, [Next]_vars
  PROVE  MarkersInv'
<1> USE DEF QueueInv, QueueTypes
<1>1. ASSUME UNCHANGED markersVars PROVE MarkersInv'
  BY <1>1 DEF MarkersInv, markersVars
<1>2. ASSUME UNCHANGED <<entries, committed, desc_base, pending>>,
             \A a \in Blocks : pc'[a] = "commit" => pc[a] = "commit"
      PROVE  MarkersInv'
  BY <1>2 DEF MarkersInv
<1>3. CASE \E b \in Blocks : TransferWarp(b)
  <2>1. PICK b \in Blocks : TransferWarp(b)
    BY <1>3
  <2>2. CASE ClaimList(b) \/ ReadList(b) \/ NotCommitted(b) \/ CheckTerminate(b)
    BY <2>2, <1>2 DEF ClaimList, ReadList, NotCommitted, CheckTerminate
  <2>3. CASE WriteDescriptors(b)
    <3> DEFINE c == state[b].count
    <3>1. /\ pc' = [pc EXCEPT ![b] = "commit"] /\ committed' = committed
          /\ desc_base' = [desc_base EXCEPT ![b] = Len(entries)]
          /\ pending' = [pending EXCEPT ![b] = 0..(c - 1)]
      BY <2>3 DEF WriteDescriptors
    <3>2. Len(entries) \in Nat /\ Len(entries') = Len(entries) + c /\ c \in Nat \ {0}
      BY <2>3, WriteFacts DEF DescInv
    <3> HIDE DEF c
    <3>3. committed' \subseteq 0..(Len(entries') - 1)
      BY <3>1, <3>2 DEF MarkersInv
    <3>4. desc_base' \in [Blocks -> Nat] /\ pending' \in [Blocks -> SUBSET Nat]
      BY <3>1, <3>2 DEF MarkersInv
    <3>5. ASSUME NEW a \in Blocks, pc'[a] = "commit", NEW i \in pending'[a]
          PROVE  desc_base'[a] + i < Len(entries')
      <4>1. CASE a = b
        BY <4>1, <3>1, <3>2, <3>5 DEF MarkersInv
      <4>2. CASE a # b
        <5>1. i \in pending[a] /\ pc[a] = "commit" /\ desc_base'[a] = desc_base[a]
          BY <4>2, <3>1, <3>5 DEF MarkersInv
        <5>2. desc_base[a] + i < Len(entries) /\ desc_base[a] \in Nat /\ i \in Nat
          BY <5>1 DEF MarkersInv
        <5>3. QED
          BY <5>1, <5>2, <3>2
      <4>3. QED
        BY <4>1, <4>2
    <3>6. QED
      BY <3>3, <3>4, <3>5 DEF MarkersInv
  <2>4. CASE CommitSlot(b)
    <3>1. PICK i \in pending[b] :
            /\ committed' = committed \cup {desc_base[b] + i}
            /\ pending' = [pending EXCEPT ![b] = @ \ {i}]
            /\ pc' = [pc EXCEPT ![b] = IF pending[b] = {i} THEN "clear" ELSE "commit"]
      BY <2>4 DEF CommitSlot
    <3>2. pc[b] = "commit" /\ UNCHANGED <<entries, desc_base>>
      BY <2>4 DEF CommitSlot
    <3>3. Len(entries) \in Nat
      BY LenProperties DEF DescInv
    <3>4. desc_base[b] + i \in 0..(Len(entries) - 1)
      BY <3>1, <3>2, <3>3 DEF MarkersInv
    <3>5. pending' \in [Blocks -> SUBSET Nat] /\ \A a \in Blocks : pending'[a] \subseteq pending[a]
      BY <3>1 DEF MarkersInv
    <3>6. \A a \in Blocks : pc'[a] = "commit" => pc[a] = "commit"
      BY <3>1, <3>2
    <3>7. QED
      BY <3>1, <3>2, <3>4, <3>5, <3>6 DEF MarkersInv
  <2>5. CASE ClearList(b) \/ WaitListDone(b) \/ WaitCompute(b)
    BY <2>5, <1>2 DEF ClearList, WaitListDone, WaitCompute
  <2>6. QED
    BY <2>1, <2>2, <2>3, <2>4, <2>5 DEF TransferWarp
<1>4. CASE \E b \in Blocks : ComputeWarp(b)
  BY <1>4, <1>1 DEF ComputeWarp, StartCompute, FinishCompute, ClearReady, markersVars
<1>5. CASE Poller
  BY <1>5, <1>1, PollerFrame DEF markersVars
<1>6. CASE \E c \in ChanIds : CopyCompletes(c)
  BY <1>6, <1>1 DEF CopyCompletes, markersVars
<1>7. CASE SignalCompletes
  BY <1>7, <1>1 DEF SignalCompletes, markersVars
<1>8. CASE (\E n \in Counts : HostSubmit(n)) \/ StartSync \/ Terminate
             \/ DeviceSynchronize \/ StopPoller
  BY <1>8, <1>1 DEF HostSubmit, StartSync, Terminate, DeviceSynchronize, StopPoller, markersVars
<1>9. CASE Launch
  <2>1. committed' = {} /\ desc_base' = [b \in Blocks |-> 0] /\ pending' = pending
    BY <1>9 DEF Launch
  <2>2. \A b \in Blocks : pc'[b] # "commit"
    BY <1>9 DEF Launch
  <2>3. QED
    BY <2>1, <2>2 DEF MarkersInv
<1>10. CASE Reset
  <2>1. committed' = {} /\ UNCHANGED <<desc_base, pending, pc>>
    BY <1>10 DEF Reset
  <2>2. \A b \in Blocks : pc[b] # "commit"
    BY <1>10 DEF Reset, KernelInv
  <2>3. QED
    BY <2>1, <2>2 DEF MarkersInv
<1>11. CASE UNCHANGED vars
  BY <1>11, <1>1 DEF vars, markersVars
<1>12. QED
  BY <1>3, <1>4, <1>5, <1>6, <1>7, <1>8, <1>9, <1>10, <1>11 DEF Next, Running, Session

\* Markers are stored only for descriptors that have been written.
LEMMA MarkersHold == Spec => []MarkersInv
<1>1. Init => MarkersInv
  BY DEF Init, MarkersInv
<1>2. QED
  BY <1>1, QueueHolds, DescHolds, MarkersStep, PTL DEF Spec
-----------------------------------------------------------------------------
(* The poller's batch: the proof *)

\* What BatchInv is about.
batchVars == <<entries, read_idx, poll_pc, batch, host>>

\* Descriptors are only added, but for a launch or a reset.
LEMMA EntriesGrow ==
  ASSUME QueueInv, DescInv, [Next]_vars, ~Launch, ~Reset
  PROVE  /\ Len(entries) \in Nat /\ Len(entries') \in Nat
         /\ Len(entries) <= Len(entries')
         /\ \A n \in 1..Len(entries) : entries'[n] = entries[n]
<1>1. Len(entries) \in Nat
  BY LenProperties DEF DescInv
<1>2. ASSUME entries' = entries
      PROVE  /\ Len(entries') \in Nat /\ Len(entries) <= Len(entries')
             /\ \A n \in 1..Len(entries) : entries'[n] = entries[n]
  BY <1>1, <1>2
<1>3. CASE \E b \in Blocks : TransferWarp(b)
  <2>1. PICK b \in Blocks : TransferWarp(b)
    BY <1>3
  <2>2. CASE WriteDescriptors(b)
    <3>1. /\ Len(entries') = Len(entries) + state[b].count
          /\ state[b].count \in Nat \ {0}
          /\ \A n \in 1..Len(entries) : entries'[n] = entries[n]
      BY <2>2, WriteFacts DEF DescInv
    <3>2. QED
      BY <3>1, <1>1
  <2>3. CASE ~WriteDescriptors(b)
    <3>1. entries' = entries
      BY <2>1, <2>3 DEF TransferWarp, ClaimList, ReadList, NotCommitted, CheckTerminate,
         CommitSlot, ClearList, WaitListDone, WaitCompute
    <3>2. QED
      BY <3>1, <1>1, <1>2
  <2>4. QED
    BY <2>2, <2>3
<1>4. CASE ~(\E b \in Blocks : TransferWarp(b))
  <2>1. CASE \E b \in Blocks : ComputeWarp(b)
    BY <2>1, <1>1, <1>2 DEF ComputeWarp, StartCompute, FinishCompute, ClearReady
  <2>2. CASE Poller
    BY <2>2, <1>1, <1>2, PollerFrame
  <2>3. CASE (\E c \in ChanIds : CopyCompletes(c)) \/ SignalCompletes
    BY <2>3, <1>1, <1>2 DEF CopyCompletes, SignalCompletes
  <2>4. CASE (\E n \in Counts : HostSubmit(n)) \/ StartSync \/ Terminate
               \/ DeviceSynchronize \/ StopPoller
    BY <2>4, <1>1, <1>2 DEF HostSubmit, StartSync, Terminate, DeviceSynchronize, StopPoller
  <2>5. CASE UNCHANGED vars
    BY <2>5, <1>1, <1>2 DEF vars
  <2>6. QED
    BY <1>4, <2>1, <2>2, <2>3, <2>4, <2>5 DEF Next, Running, Session
<1>5. QED
  BY <1>1, <1>3, <1>4

\* The steps of the polling thread, and what they do to the batch.
LEMMA BatchPoller ==
  ASSUME DescInv, MarkersInv, BatchInv, Poller
  PROVE  BatchInv'
<1>1. /\ Len(entries) \in Nat /\ Len(batch) \in Nat /\ read_idx \in Nat
      /\ UNCHANGED <<entries, host>>
  BY LenProperties, PollerFrame DEF DescInv, BatchInv
<1>2. ASSUME batch' = <<>>, read_idx' = read_idx, poll_pc' = "poll"
      PROVE  BatchInv'
  <2>1. Len(batch') = 0 /\ batch' \in Seq(Desc)
    BY <1>2, EmptySeq
  <2>2. QED
    BY <2>1, <1>1, <1>2 DEF BatchInv
<1>3. CASE PollEntry
  <2> DEFINE e == entries[read_idx + 1]
  <2>1. /\ poll_pc = "poll" /\ batch' = Append(batch, e) /\ read_idx' = read_idx + 1
        /\ poll_pc' = IF e.last \/ Len(batch) + 1 >= BATCH_THRESHOLD THEN "flush" ELSE "poll"
        /\ host \notin {"prefill", "stopped"}
    BY <1>3 DEF PollEntry, PollerRuns
  <2>2. read_idx \in 0..(Len(entries) - 1)
    BY <1>3 DEF PollEntry, MarkersInv
  <2>3. read_idx + 1 \in 1..Len(entries) /\ e \in Desc
    BY <2>2, <1>1, ElementOfSeq DEF DescInv
  <2> HIDE DEF e
  <2>4. /\ batch' \in Seq(Desc) /\ Len(batch') = Len(batch) + 1
        /\ batch'[Len(batch) + 1] = e
        /\ \A k \in 1..Len(batch) : batch'[k] = batch[k]
    BY <2>1, <2>3, AppendProperties DEF BatchInv
  <2>5. Flushed' = Flushed /\ Flushed + (Len(batch) + 1) = read_idx + 1
    BY <2>1, <2>4, <1>1 DEF Flushed
  <2>6. \A k \in 1..Len(batch') :
          /\ batch'[k] = entries[Flushed + k]
          /\ k < Len(batch') \/ poll_pc' = "poll" => ~batch'[k].last
    <3> TAKE k \in 1..Len(batch')
    <3>1. CASE k \in 1..Len(batch)
      BY <3>1, <2>1, <2>4 DEF BatchInv
    <3>2. CASE k = Len(batch) + 1
      BY <3>2, <2>1, <2>4, <2>5, <1>1 DEF e
    <3>3. QED
      BY <3>1, <3>2, <2>4, <1>1
  <2>7. read_idx' \in 0..Len(entries) /\ Len(batch') <= read_idx' /\ Len(batch') > 0
    BY <2>1, <2>3, <2>4, <1>1 DEF BatchInv
  <2>8. poll_pc' \in {"flush", "poll"}
    BY <2>1
  <2>9. QED
    BY <2>1, <2>4, <2>5, <2>6, <2>7, <2>8, <1>1 DEF BatchInv
<1>4. CASE GapTimeout
  <2>1. Len(batch) > 0
    BY <1>4, <1>1, EmptySeq DEF GapTimeout, BatchInv
  <2>2. /\ poll_pc' = "flush" /\ UNCHANGED <<read_idx, batch>>
        /\ host \notin {"prefill", "stopped"}
    BY <1>4 DEF GapTimeout, PollerRuns
  <2>3. QED
    BY <2>1, <2>2, <1>1 DEF BatchInv, Flushed
<1>5. CASE SubmitBatch
  <2>1. PICK n \in 1..Len(batch) :
         \E copy \in [1..Len(batch) -> 0..(n - 1)] : SubmitData(n, copy)
    BY <1>5 DEF SubmitBatch
  <2>2. CASE SgMode
    <3>1. poll_pc = "flush" /\ poll_pc' = "signal" /\ UNCHANGED <<batch, read_idx>>
      BY <2>1, <2>2 DEF SubmitData
    <3>2. PICK k \in 1..Len(batch) : batch[k].last
      BY <2>2 DEF SgMode
    <3>3. k = Len(batch)
      BY <3>2, <1>1 DEF BatchInv
    <3>4. batch[Len(batch)].last
      BY <3>2, <3>3
    <3>5. QED
      BY <3>1, <3>4, <1>1 DEF BatchInv, Flushed
  <2>3. CASE ~SgMode
    BY <2>1, <2>3, <1>2 DEF SubmitData
  <2>4. QED
    BY <2>2, <2>3
<1>6. CASE SignalLists
  BY <1>6, <1>2 DEF SignalLists
<1>7. CASE CompleteLists
  BY <1>7, <1>2 DEF CompleteLists
<1>8. CASE CopyNoCe
  BY <1>8, <1>2 DEF CopyNoCe
<1>9. CASE IdleWait
  <2>1. CASE poll_pc = "poll"
    <3>1. /\ poll_pc' = "idle" /\ batch = <<>> /\ UNCHANGED <<batch, read_idx>>
          /\ host \notin {"prefill", "stopped"}
      BY <1>9, <2>1 DEF IdleWait, PollerRuns
    <3>2. Len(batch) = 0
      BY <3>1, EmptySeq
    <3>3. QED
      BY <3>1, <3>2, <1>1 DEF BatchInv, Flushed
  <2>2. CASE poll_pc = "idle"
    <3>1. /\ poll_pc' = "poll" /\ UNCHANGED <<batch, read_idx>>
          /\ host \notin {"prefill", "stopped"} /\ Len(batch) = 0
      BY <1>9, <2>2 DEF IdleWait, PollerRuns, BatchInv
    <3>2. QED
      BY <3>1, <1>1 DEF BatchInv, Flushed
  <2>3. QED
    BY <1>9, <2>1, <2>2 DEF IdleWait
<1>10. QED
  BY <1>3, <1>4, <1>5, <1>6, <1>7, <1>8, <1>9 DEF Poller

\* Every step keeps the batch invariant.
LEMMA BatchStep ==
  ASSUME QueueInv, DescInv, MarkersInv, BatchInv, [Next]_vars
  PROVE  BatchInv'
<1>1. ASSUME UNCHANGED batchVars PROVE BatchInv'
  BY <1>1 DEF BatchInv, batchVars, Flushed
<1>2. /\ Len(entries) \in Nat /\ Len(batch) \in Nat /\ read_idx \in Nat
  BY LenProperties DEF DescInv, BatchInv
<1>3. CASE Poller
  BY <1>3, BatchPoller
<1>4. CASE Launch \/ Reset
  <2>1. /\ read_idx' = 0 /\ entries' = <<>> /\ UNCHANGED <<poll_pc, batch>>
        /\ host \in {"prefill", "stopped"}
    BY <1>4 DEF Launch, Reset
  <2>2. poll_pc = "poll" /\ Len(batch) = 0 /\ batch \in Seq(Desc)
    BY <2>1 DEF BatchInv
  <2>3. Len(entries') = 0
    BY <2>1, EmptySeq
  <2>4. 1..Len(batch) = {}
    BY <2>2
  <2>5. QED
    BY <2>1, <2>2, <2>3, <2>4 DEF BatchInv
<1>5. CASE \E b \in Blocks : TransferWarp(b)
  <2>1. PICK b \in Blocks : TransferWarp(b)
    BY <1>5
  <2>2. UNCHANGED <<read_idx, poll_pc, batch, host>>
    BY <2>1 DEF TransferWarp, ClaimList, ReadList, NotCommitted, CheckTerminate,
       WriteDescriptors, CommitSlot, ClearList, WaitListDone, WaitCompute
  <2>3. ~Launch /\ ~Reset
    BY <2>2 DEF Launch, Reset
  <2>4. /\ Len(entries) <= Len(entries') /\ Len(entries') \in Nat
        /\ \A n \in 1..Len(entries) : entries'[n] = entries[n]
    BY <2>3, EntriesGrow
  <2>5. \A k \in 1..Len(batch) : Flushed + k \in 1..Len(entries)
    BY <1>2 DEF Flushed, BatchInv
  <2>6. read_idx' \in 0..Len(entries')
    BY <2>2, <2>4, <1>2 DEF BatchInv
  <2>7. \A k \in 1..Len(batch) : batch[k] = entries'[Flushed + k]
    BY <2>4, <2>5 DEF BatchInv
  <2>8. QED
    BY <2>2, <2>6, <2>7 DEF BatchInv, Flushed
<1>6. CASE \E b \in Blocks : ComputeWarp(b)
  BY <1>6, <1>1 DEF ComputeWarp, StartCompute, FinishCompute, ClearReady, batchVars
<1>7. CASE \E c \in ChanIds : CopyCompletes(c)
  BY <1>7, <1>1 DEF CopyCompletes, batchVars
<1>8. CASE SignalCompletes
  BY <1>8, <1>1 DEF SignalCompletes, batchVars
<1>9. CASE \E n \in Counts : HostSubmit(n)
  BY <1>9, <1>1 DEF HostSubmit, batchVars
<1>10. CASE StartSync \/ Terminate \/ DeviceSynchronize
  <2>1. /\ UNCHANGED <<read_idx, poll_pc, batch, entries>>
        /\ host' \notin {"prefill", "stopped"}
    BY <1>10 DEF StartSync, Terminate, DeviceSynchronize
  <2>2. QED
    BY <2>1 DEF BatchInv, Flushed
<1>11. CASE StopPoller
  <2>1. /\ UNCHANGED <<read_idx, poll_pc, batch, entries>>
        /\ poll_pc = "poll" /\ batch = <<>>
    BY <1>11 DEF StopPoller
  <2>2. Len(batch) = 0
    BY <2>1, EmptySeq
  <2>3. QED
    BY <2>1, <2>2 DEF BatchInv, Flushed
<1>12. CASE UNCHANGED vars
  BY <1>12, <1>1 DEF vars, batchVars
<1>13. QED
  BY <1>3, <1>4, <1>5, <1>6, <1>7, <1>8, <1>9, <1>10, <1>11, <1>12 DEF Next, Running, Session

\* The batch is a run of the ring within one list (BatchInv, DescInv).
LEMMA BatchHolds == Spec => []BatchInv
<1>1. Init => BatchInv
  BY EmptySeq DEF Init, BatchInv
<1>2. QED
  BY <1>1, QueueHolds, DescHolds, MarkersHold, BatchStep, PTL DEF Spec
-----------------------------------------------------------------------------
(* Lists counted and lists finished: the proof *)

\* Sets of lists are finite.
LEMMA ListsFinite ==
  ASSUME NEW S \in SUBSET ListIds
  PROVE  IsFiniteSet(S) /\ Cardinality(S) \in Nat
<1>1. IsFiniteSet(ListIds)
  <2>1. 0 \in Int /\ MaxLists - 1 \in Int
    BY ListSlots
  <2>2. IsFiniteSet(0..(MaxLists - 1))
    BY <2>1, FS_Interval, Zenon
  <2>3. QED
    BY <2>2 DEF ListIds
<1>2. QED
  BY <1>1, FS_Subset, FS_CardinalityType

\* Where the batch lies in the ring.
LEMMA FlushedRange ==
  ASSUME DescInv, BatchInv
  PROVE  /\ Flushed \in Nat /\ Flushed <= read_idx /\ read_idx <= Len(entries)
         /\ Len(entries) \in Nat /\ read_idx \in Nat /\ Len(batch) \in Nat
         /\ Flushed + Len(batch) = read_idx
<1>1. /\ Len(entries) \in Nat /\ Len(batch) \in Nat /\ read_idx \in Nat
      /\ Len(batch) <= read_idx /\ read_idx <= Len(entries)
  BY LenProperties DEF DescInv, BatchInv
<1>2. QED
  BY <1>1 DEF Flushed

\* A batch that is signalled ends its list, which is not finished before.
LEMMA BatchEnds ==
  ASSUME DescInv, BatchInv, poll_pc = "signal"
  PROVE  \E x \in ListIds :
           /\ BatchLists = {x} /\ x \notin Finished
           /\ read_idx \in 1..Len(entries) /\ Len(batch) > 0
           /\ entries[read_idx].last /\ entries[read_idx].list_id = x
<1> DEFINE x == entries[read_idx].list_id
<1>1. /\ Flushed \in Nat /\ Flushed <= read_idx /\ read_idx <= Len(entries)
      /\ Len(entries) \in Nat /\ read_idx \in Nat /\ Len(batch) \in Nat
      /\ Flushed + Len(batch) = read_idx
  BY FlushedRange
<1>2. /\ Len(batch) > 0 /\ batch[Len(batch)].last
      /\ \A k \in 1..Len(batch) : /\ batch[k] = entries[Flushed + k]
                                  /\ k < Len(batch) => ~batch[k].last
  BY DEF BatchInv
<1>3. Len(batch) \in 1..Len(batch) /\ read_idx \in 1..Len(entries)
  BY <1>1, <1>2
<1>4. entries[read_idx].last /\ x \in ListIds
  <2>1. entries[read_idx].last
    BY <1>1, <1>2, <1>3
  <2>2. entries[read_idx] \in Desc
    BY <1>3, ElementOfSeq DEF DescInv
  <2>3. QED
    BY <2>1, <2>2 DEF Desc
<1>5. \A k \in 1..Len(batch) : batch[k].list_id = x
  <2> TAKE k \in 1..Len(batch)
  <2>1. Flushed + k \in 1..Len(entries) /\ Flushed + k <= read_idx
    BY <1>1
  <2>2. PICK e \in (Flushed + k)..Len(entries) :
          /\ entries[e].last
          /\ \A i \in (Flushed + k)..e :
               /\ entries[i].list_id = entries[Flushed + k].list_id
               /\ i < e => ~entries[i].last
    BY <2>1 DEF DescInv, ListsConsecutive
  <2>3. e >= read_idx
    <3> SUFFICES ASSUME e < read_idx PROVE FALSE
      BY <2>2, <1>1
    <3>1. e - Flushed \in 1..Len(batch) /\ e - Flushed < Len(batch)
          /\ Flushed + (e - Flushed) = e
      BY <2>2, <2>1, <1>1
    <3>2. ~entries[e].last
      BY <3>1, <1>2
    <3>3. QED
      BY <3>2, <2>2
  <2>4. read_idx \in (Flushed + k)..e
    BY <2>1, <2>2, <2>3, <1>1
  <2>5. QED
    BY <2>2, <2>4, <1>2
<1>6. BatchLists = {x}
  BY <1>3, <1>5 DEF BatchLists
<1>7. x \notin Finished
  <2> SUFFICES ASSUME x \in Finished PROVE FALSE
    OBVIOUS
  <2>1. PICK n \in 1..Flushed : entries[n].last /\ entries[n].list_id = x
    BY DEF Finished
  <2>2. n \in 1..Len(entries) /\ n # read_idx
    BY <1>1, <1>2
  <2>3. QED
    BY <2>1, <2>2, <1>3, <1>4 DEF DescInv, ListsEndOnce
<1>8. QED
  BY <1>2, <1>3, <1>4, <1>6, <1>7

\* Only the poller moves its place in the ring.
LEMMA ReadFrame ==
  ASSUME [Next]_vars, ~Launch, ~Reset, ~Poller
  PROVE  UNCHANGED <<read_idx, batch, poll_pc>>
<1>1. CASE \E b \in Blocks : TransferWarp(b) \/ ComputeWarp(b)
  BY <1>1 DEF TransferWarp, ClaimList, ReadList, NotCommitted, CheckTerminate,
     WriteDescriptors, CommitSlot, ClearList, WaitListDone, WaitCompute,
     ComputeWarp, StartCompute, FinishCompute, ClearReady
<1>2. CASE SignalCompletes \/ (\E c \in ChanIds : CopyCompletes(c))
             \/ \E n \in Counts : HostSubmit(n)
  BY <1>2 DEF SignalCompletes, CopyCompletes, HostSubmit
<1>3. CASE Session
  BY <1>3 DEF Session, StartSync, Terminate, DeviceSynchronize, StopPoller
<1>4. CASE UNCHANGED vars
  BY <1>4 DEF vars
<1>5. QED
  BY <1>1, <1>2, <1>3, <1>4 DEF Next, Running

\* The poller does not go back.
LEMMA FlushedGrows ==
  ASSUME DescInv, DescInv', BatchInv, BatchInv', [Next]_vars, ~Launch, ~Reset
  PROVE  /\ Flushed <= Flushed' /\ Flushed' \in Nat
         /\ Flushed' # Flushed => Flushed' = read_idx
<1>1. /\ Flushed \in Nat /\ Flushed <= read_idx /\ read_idx \in Nat
      /\ Len(batch) \in Nat /\ Flushed + Len(batch) = read_idx
  BY FlushedRange
<1>2. ASSUME UNCHANGED <<read_idx, batch>>
      PROVE  Flushed' = Flushed
  BY <1>2 DEF Flushed
<1>3. ASSUME read_idx' = read_idx, batch' = <<>>
      PROVE  Flushed' = read_idx
  <2>1. Len(batch') = 0
    BY <1>3, EmptySeq
  <2>2. QED
    BY <2>1, <1>1, <1>3 DEF Flushed
<1>4. CASE Poller
  <2>1. CASE PollEntry
    <3> DEFINE e == entries[read_idx + 1]
    <3>1. batch' = Append(batch, e) /\ read_idx' = read_idx + 1
      BY <2>1 DEF PollEntry
    <3>2. batch \in Seq(Desc \cup {e}) /\ e \in Desc \cup {e}
      BY SeqMonotonic DEF BatchInv
    <3> HIDE DEF e
    <3>3. Len(batch') = Len(batch) + 1
      BY <3>1, <3>2, AppendProperties
    <3>4. QED
      BY <3>1, <3>3, <1>1 DEF Flushed
  <2>2. CASE GapTimeout
    BY <2>2, <1>1, <1>2 DEF GapTimeout
  <2>3. CASE SubmitBatch
    BY <2>3, <1>1, <1>2, <1>3 DEF SubmitBatch, SubmitData
  <2>4. CASE SignalLists
    BY <2>4, <1>1, <1>3 DEF SignalLists
  <2>5. CASE CompleteLists
    BY <2>5, <1>1, <1>3 DEF CompleteLists
  <2>6. CASE CopyNoCe
    BY <2>6, <1>1, <1>3 DEF CopyNoCe
  <2>7. CASE IdleWait
    BY <2>7, <1>1, <1>2 DEF IdleWait
  <2>8. QED
    BY <1>4, <2>1, <2>2, <2>3, <2>4, <2>5, <2>6, <2>7 DEF Poller
<1>5. CASE ~Poller
  BY <1>1, <1>2, <1>5, ReadFrame
<1>6. QED
  BY <1>4, <1>5

\* A finished list stays finished.
LEMMA FinishedGrows ==
  ASSUME QueueInv, DescInv, DescInv', BatchInv, BatchInv', [Next]_vars, ~Launch, ~Reset
  PROVE  Finished \subseteq Finished'
<1>1. Flushed <= Flushed' /\ Flushed' \in Nat
  BY FlushedGrows
<1>2. Flushed \in Nat /\ Flushed <= Len(entries) /\ Len(entries) \in Nat
  BY FlushedRange
<1>3. \A n \in 1..Len(entries) : entries'[n] = entries[n]
  BY EntriesGrow
<1>4. \A n \in 1..Flushed : n \in 1..Flushed' /\ n \in 1..Len(entries)
  BY <1>1, <1>2
<1>5. QED
  BY <1>3, <1>4 DEF Finished

\* Every step keeps the count.
LEMMA CountStep ==
  ASSUME QueueInv, DescInv, DescInv', BatchInv, BatchInv', CountInv, [Next]_vars
  PROVE  CountInv'
<1>1. CASE Launch \/ Reset
  <2>1. lists_completed' = 0
    BY <1>1 DEF Launch, Reset
  <2>2. Finished' \in SUBSET ListIds
    BY DEF Finished
  <2>3. Cardinality(Finished') \in Nat
    BY <2>2, ListsFinite
  <2>4. QED
    BY <2>1, <2>3 DEF CountInv
<1>2. CASE ~Launch /\ ~Reset
  <2>1. Finished \subseteq Finished'
    BY <1>2, FinishedGrows
  <2>2. Finished \in SUBSET ListIds /\ Finished' \in SUBSET ListIds
    BY DEF Finished
  <2>3. /\ IsFiniteSet(Finished) /\ IsFiniteSet(Finished')
        /\ Cardinality(Finished) \in Nat /\ Cardinality(Finished') \in Nat
    BY <2>2, ListsFinite
  <2>4. CASE SignalLists \/ CompleteLists
    <3>1. PICK x \in ListIds :
            /\ BatchLists = {x} /\ x \notin Finished
            /\ read_idx \in 1..Len(entries) /\ Len(batch) > 0
            /\ entries[read_idx].last /\ entries[read_idx].list_id = x
      BY <2>4, BatchEnds DEF SignalLists, CompleteLists
    <3>2. /\ lists_completed' = lists_completed + Cardinality(BatchLists)
          /\ batch' = <<>> /\ UNCHANGED <<read_idx, entries>>
      BY <2>4 DEF SignalLists, CompleteLists
    <3>3. Cardinality(BatchLists) = 1
      BY <3>1, FS_Singleton
    <3>4. Flushed' = read_idx
      <4>1. Len(batch') = 0
        BY <3>2, EmptySeq
      <4>2. QED
        BY <4>1, <3>2, FlushedRange DEF Flushed
    <3>5. x \in Finished'
      BY <3>1, <3>2, <3>4 DEF Finished
    <3>6. Finished \cup {x} \subseteq Finished'
      BY <2>1, <3>5
    <3>7. Cardinality(Finished \cup {x}) = Cardinality(Finished) + 1
      BY <2>3, <3>1, FS_AddElement
    <3>8. Cardinality(Finished \cup {x}) <= Cardinality(Finished')
      BY <2>3, <3>6, FS_Subset
    <3>9. QED
      BY <2>3, <3>2, <3>3, <3>7, <3>8 DEF CountInv
  <2>5. CASE ~(SignalLists \/ CompleteLists)
    <3>1. lists_completed' = lists_completed
      <4>1. CASE \E b \in Blocks : TransferWarp(b)
        BY <4>1 DEF TransferWarp, ClaimList, ReadList, NotCommitted, CheckTerminate,
           WriteDescriptors, CommitSlot, ClearList, WaitListDone, WaitCompute
      <4>2. CASE \E b \in Blocks : ComputeWarp(b)
        BY <4>2 DEF ComputeWarp, StartCompute, FinishCompute, ClearReady
      <4>3. CASE (\E c \in ChanIds : CopyCompletes(c)) \/ SignalCompletes
        BY <4>3 DEF CopyCompletes, SignalCompletes
      <4>4. CASE (\E n \in Counts : HostSubmit(n)) \/ StartSync \/ Terminate
                   \/ DeviceSynchronize \/ StopPoller
        BY <4>4 DEF HostSubmit, StartSync, Terminate, DeviceSynchronize, StopPoller
      <4>5. CASE Poller
        <5>1. CASE PollEntry \/ GapTimeout \/ CopyNoCe \/ IdleWait
          BY <5>1 DEF PollEntry, GapTimeout, CopyNoCe, IdleWait
        <5>2. CASE SubmitBatch
          BY <5>2 DEF SubmitBatch, SubmitData
        <5>3. QED
          BY <4>5, <2>5, <5>1, <5>2 DEF Poller
      <4>6. CASE UNCHANGED vars
        BY <4>6 DEF vars
      <4>7. QED
        BY <1>2, <4>1, <4>2, <4>3, <4>4, <4>5, <4>6 DEF Next, Running, Session
    <3>2. Cardinality(Finished) <= Cardinality(Finished')
      BY <2>1, <2>3, FS_Subset
    <3>3. QED
      BY <2>3, <3>1, <3>2 DEF CountInv
  <2>6. QED
    BY <2>4, <2>5
<1>3. QED
  BY <1>1, <1>2

\* lists_completed never runs ahead of the lists that are finished.
LEMMA CountHolds == Spec => []CountInv
<1>1. Init => CountInv
  <2> SUFFICES ASSUME Init PROVE CountInv
    OBVIOUS
  <2>1. Finished \in SUBSET ListIds /\ lists_completed = 0
    BY DEF Init, Finished
  <2>2. Cardinality(Finished) \in Nat
    BY <2>1, ListsFinite
  <2>3. QED
    BY <2>1, <2>2 DEF CountInv
<1>2. QED
  BY <1>1, QueueHolds, DescHolds, BatchHolds, CountStep, PTL DEF Spec
-----------------------------------------------------------------------------
(* The streams: the proof *)

\* A range of copies of one channel each: ceil(n / Channels) at a time.
LEMMA RangeChannel ==
  ASSUME NEW n \in Nat, NEW i \in 0..(n - 1)
  PROVE  i \div ((n + Channels - 1) \div Channels) \in ChanIds
<1> DEFINE m   == n + Channels - 1
           per == m \div Channels
           q   == i \div per
<1>1. Channels \in Nat /\ Channels > 0 /\ m \in Nat
  BY SGAssumption
<1>2. per \in Nat /\ m < Channels * per + Channels
  <2>1. PICK r \in 0..(Channels - 1) : per \in Nat /\ m = Channels * per + r
    BY <1>1
  <2>2. QED
    BY <2>1, <1>1
<1>3. n <= Channels * per
  <2> HIDE DEF per
  <2>1. PICK z \in Nat : z = Channels * per
    BY <1>1, <1>2
  <2>2. n <= z
    BY <2>1, <1>1, <1>2
  <2>3. QED
    BY <2>1, <2>2
<1> HIDE DEF m, per
<1>4. per > 0
  <2> SUFFICES ASSUME per = 0 PROVE FALSE
    BY <1>2
  <2>1. Channels * per = 0
    BY <1>1
  <2>2. QED
    BY <2>1, <1>3
<1>5. q \in Nat /\ i >= per * q
  <2>1. PICK s \in 0..(per - 1) : q \in Nat /\ i = per * q + s
    BY <1>2, <1>4
  <2>2. PICK z \in Nat : z = per * q
    BY <2>1, <1>2
  <2>3. QED
    BY <2>1, <2>2, <1>2
<1> HIDE DEF q
<1>6. q < Channels
  <2> SUFFICES ASSUME q >= Channels PROVE FALSE
    BY <1>1, <1>5
  <2>1. PICK d \in Nat : q = Channels + d
    BY <1>1, <1>5
  <2>2. PICK z \in Nat : z = Channels * per
    BY <1>1, <1>2
  <2>3. PICK y \in Nat : y = per * d
    BY <1>2, <2>1
  <2>4. per * q = z + y
    BY <1>1, <1>2, <2>1, <2>2, <2>3
  <2>5. QED
    BY <1>3, <1>5, <2>2, <2>3, <2>4
<1>7. q \in ChanIds
  BY <1>1, <1>5, <1>6 DEF ChanIds
<1>8. QED
  BY <1>7 DEF q, per, m

\* A copy goes to a channel there is, and the next one starts at one there is.
LEMMA ChannelRange ==
  ASSUME ChanInv, NEW n \in Nat
  PROVE  /\ NextChannel(n) \in ChanIds
         /\ \A i \in 0..(n - 1) : ChannelOf(i, n) \in ChanIds
<1>1. Channels \in Nat /\ Channels > 0 /\ next_channel \in Nat
  BY SGAssumption DEF ChanInv, ChanIds
<1>2. \A x \in Nat : x % Channels \in ChanIds
  BY <1>1 DEF ChanIds
<1>3. NextChannel(n) \in ChanIds
  BY <1>1, <1>2 DEF NextChannel, ChanIds
<1>4. ASSUME NEW i \in 0..(n - 1) PROVE ChannelOf(i, n) \in ChanIds
  <2>1. CASE n <= Channels
    BY <2>1, <1>1, <1>2 DEF ChannelOf
  <2>2. CASE ~(n <= Channels)
    BY <2>2, RangeChannel DEF ChannelOf
  <2>3. QED
    BY <2>1, <2>2
<1>5. QED
  BY <1>3, <1>4

\* Submitting a batch queues each of its entries and takes back no copy.
LEMMA SubmitFacts ==
  ASSUME ChanInv, BatchInv, NEW n \in 1..Len(batch),
         NEW copy \in [1..Len(batch) -> 0..(n - 1)], SubmitData(n, copy)
  PROVE  /\ chan' \in [ChanIds -> Seq(CopyOp)]
         /\ \A c \in ChanIds :
              /\ Len(chan[c]) \in Nat /\ Len(chan'[c]) \in Nat
              /\ Len(chan[c]) <= Len(chan'[c])
              /\ \A k \in 1..Len(chan[c]) : chan'[c][k] = chan[c][k]
              /\ c \notin dirty' => chan'[c] = <<>>
         /\ \A k \in 1..Len(batch) : \E c \in ChanIds :
              \E j \in 1..Len(chan'[c]) : batch[k].entry \in chan'[c][j]
         /\ dirty' \subseteq ChanIds /\ next_channel' \in ChanIds
<1> DEFINE used == {c \in ChanIds : CopiedBy(c, n, copy) # {}}
<1>1. /\ chan' = [c \in ChanIds |-> IF c \in used THEN Append(chan[c], CopiedBy(c, n, copy))
                                                  ELSE chan[c]]
      /\ dirty' = dirty \cup used /\ next_channel' = NextChannel(n)
  BY DEF SubmitData
<1>2. Len(batch) \in Nat /\ n \in Nat /\ \A k \in 1..Len(batch) : batch[k].entry \in Int \X Int
  <2>1. Len(batch) \in Nat /\ \A k \in 1..Len(batch) : batch[k] \in Desc
    BY LenProperties, ElementOfSeq DEF BatchInv
  <2>2. QED
    BY <2>1 DEF Desc
<1>3. \A c : CopiedBy(c, n, copy) \in CopyOp
  BY <1>2 DEF CopiedBy, CopyOp
<1>4. ASSUME NEW c \in ChanIds
      PROVE  /\ chan'[c] \in Seq(CopyOp)
             /\ Len(chan[c]) \in Nat /\ Len(chan'[c]) \in Nat
             /\ Len(chan[c]) <= Len(chan'[c])
             /\ \A k \in 1..Len(chan[c]) : chan'[c][k] = chan[c][k]
             /\ c \notin dirty' => chan'[c] = <<>>
             /\ c \in used => \E j \in 1..Len(chan'[c]) : chan'[c][j] = CopiedBy(c, n, copy)
  <2>1. chan[c] \in Seq(CopyOp) /\ Len(chan[c]) \in Nat
    BY LenProperties DEF ChanInv
  <2>2. CASE c \in used
    <3> DEFINE x == CopiedBy(c, n, copy)
    <3>1. chan'[c] = Append(chan[c], x) /\ x \in CopyOp
      BY <2>2, <1>1, <1>3
    <3> HIDE DEF x
    <3>2. /\ chan'[c] \in Seq(CopyOp) /\ Len(chan'[c]) = Len(chan[c]) + 1
          /\ \A k \in 1..Len(chan[c]) : chan'[c][k] = chan[c][k]
          /\ chan'[c][Len(chan[c]) + 1] = x
      BY <2>1, <3>1, AppendProperties
    <3>3. Len(chan[c]) + 1 \in 1..Len(chan'[c])
      BY <2>1, <3>2
    <3>4. c \in dirty'
      BY <1>1, <2>2
    <3>5. \E j \in 1..Len(chan'[c]) : chan'[c][j] = x
      BY <3>2, <3>3
    <3>6. QED
      BY <2>1, <3>2, <3>4, <3>5 DEF x
  <2>3. CASE c \notin used
    <3>1. chan'[c] = chan[c] /\ (c \notin dirty' => c \notin dirty)
      BY <2>3, <1>1
    <3>2. QED
      BY <2>1, <2>3, <3>1 DEF ChanInv
  <2>4. QED
    BY <2>2, <2>3
<1>5. chan' \in [ChanIds -> Seq(CopyOp)]
  BY <1>1, <1>4
<1>6. ASSUME NEW k \in 1..Len(batch)
      PROVE  \E c \in ChanIds : \E j \in 1..Len(chan'[c]) : batch[k].entry \in chan'[c][j]
  <2> DEFINE i == copy[k]
             c == ChannelOf(i, n)
  <2>1. i \in 0..(n - 1)
    BY <1>2, <1>6
  <2>2. c \in ChanIds
    BY <2>1, <1>2, ChannelRange
  <2>3. batch[k].entry \in CopiedBy(c, n, copy)
    BY <1>6 DEF CopiedBy
  <2>4. PICK j \in 1..Len(chan'[c]) : chan'[c][j] = CopiedBy(c, n, copy)
    BY <1>4, <2>2, <2>3
  <2>5. QED
    BY <2>2, <2>3, <2>4
<1>7. NextChannel(n) \in ChanIds
  BY <1>2, ChannelRange
<1>8. dirty' \subseteq ChanIds
  BY <1>1 DEF ChanInv
<1>9. QED
  BY <1>1, <1>4, <1>5, <1>6, <1>7, <1>8
\* A copy that completes has landed; what signals wait for comes nearer.
LEMMA CopyFacts ==
  ASSUME ChanInv, NEW c \in ChanIds, CopyCompletes(c)
  PROVE  /\ chan' \in [ChanIds -> Seq(CopyOp)]
         /\ \A d \in ChanIds : d # c => chan'[d] = chan[d]
         /\ Len(chan[c]) \in Nat /\ Len(chan'[c]) = Len(chan[c]) - 1
         /\ 1 \in 1..Len(chan[c])
         /\ \A k \in 1..Len(chan'[c]) : chan'[c][k] = chan[c][k + 1]
         /\ landed' = landed \cup chan[c][1]
<1>1. chan[c] \in Seq(CopyOp) /\ chan[c] # <<>>
  BY DEF ChanInv, CopyCompletes
<1>2. /\ Head(chan[c]) = chan[c][1] /\ Tail(chan[c]) \in Seq(CopyOp)
      /\ Len(Tail(chan[c])) = Len(chan[c]) - 1
      /\ \A k \in 1..Len(Tail(chan[c])) : Tail(chan[c])[k] = chan[c][k + 1]
      /\ Len(chan[c]) \in Nat
  BY <1>1, HeadTailProperties, LenProperties
<1>3. Len(chan[c]) > 0 /\ 1 \in 1..Len(chan[c])
  BY <1>1, <1>2, EmptySeq
<1>4. chan' = [chan EXCEPT ![c] = Tail(chan[c])] /\ landed' = landed \cup Head(chan[c])
  BY DEF CopyCompletes
<1>5. chan'[c] = Tail(chan[c]) /\ \A d \in ChanIds : d # c => chan'[d] = chan[d]
  BY <1>4 DEF ChanInv
<1>6. chan' \in [ChanIds -> Seq(CopyOp)]
  BY <1>2, <1>4 DEF ChanInv
<1>7. QED
  BY <1>2, <1>3, <1>4, <1>5, <1>6

\* What it does to the signals.
LEMMA CopySignals ==
  ASSUME ChanInv, NEW c \in ChanIds, CopyCompletes(c)
  PROVE  /\ signals' \in Seq(Signal) /\ Len(signals') = Len(signals)
         /\ Len(signals) \in Nat
         /\ \A j \in 1..Len(signals) :
              /\ signals'[j].lists = signals[j].lists
              /\ signals[j].after[c] \in Nat
              /\ signals'[j].after[c] =
                   IF signals[j].after[c] = 0 THEN 0 ELSE signals[j].after[c] - 1
              /\ \A d \in ChanIds : d # c => signals'[j].after[d] = signals[j].after[d]
<1> DEFINE R(j) == [signals[j] EXCEPT !.after[c] = IF @ = 0 THEN 0 ELSE @ - 1]
<1>1. Len(signals) \in Nat /\ \A j \in 1..Len(signals) : signals[j] \in Signal
  BY LenProperties, ElementOfSeq DEF ChanInv
<1>2. ASSUME NEW j \in 1..Len(signals)
      PROVE  /\ R(j) \in Signal /\ R(j).lists = signals[j].lists
             /\ signals[j].after[c] \in Nat
             /\ R(j).after[c] = IF signals[j].after[c] = 0 THEN 0 ELSE signals[j].after[c] - 1
             /\ \A d \in ChanIds : d # c => R(j).after[d] = signals[j].after[d]
  <2>1. PICK s \in Signal : s = signals[j]
    BY <1>1
  <2>2. PICK a \in [ChanIds -> Nat] : a = s.after
    BY <2>1 DEF Signal
  <2>3. PICK x \in Nat : x = IF a[c] = 0 THEN 0 ELSE a[c] - 1
    <3>1. a[c] \in Nat
      BY <2>2
    <3>2. QED
      BY <3>1
  <2>4. R(j) = [s EXCEPT !.after = [a EXCEPT ![c] = x]]
    BY <2>1, <2>2, <2>3
  <2> HIDE DEF R
  <2>5. s = [lists |-> s.lists, after |-> a] /\ s.lists \in SUBSET ListIds
    BY <2>1, <2>2 DEF Signal
  <2>6. R(j) = [lists |-> s.lists, after |-> [a EXCEPT ![c] = x]]
    BY <2>4, <2>5
  <2>7. [a EXCEPT ![c] = x] \in [ChanIds -> Nat]
    BY <2>2, <2>3
  <2>8. R(j) \in Signal
    BY <2>5, <2>6, <2>7 DEF Signal
  <2>9. \A d \in ChanIds : R(j).after[d] = IF d = c THEN x ELSE a[d]
    BY <2>2, <2>6
  <2>10. QED
    BY <2>1, <2>2, <2>3, <2>5, <2>6, <2>8, <2>9
<1>3. signals' = [j \in 1..Len(signals) |-> R(j)]
  BY DEF CopyCompletes
<1> HIDE DEF R
<1>4. signals' \in Seq(Signal)
  BY <1>1, <1>2, <1>3, IsASeq
<1>5. Len(signals') = Len(signals)
  BY <1>1, <1>3, <1>4, LenProperties
<1>6. \A j \in 1..Len(signals) : signals'[j] = R(j)
  BY <1>3
<1>7. QED
  BY <1>1, <1>2, <1>4, <1>5, <1>6

\* The oldest signal leaves the stream.
LEMMA SignalFacts ==
  ASSUME ChanInv, SignalCompletes
  PROVE  /\ signals' \in Seq(Signal) /\ Len(signals') = Len(signals) - 1
         /\ Len(signals) \in Nat /\ 1 \in 1..Len(signals)
         /\ \A j \in 1..Len(signals') : signals'[j] = signals[j + 1]
         /\ list_done' = [l \in ListIds |-> list_done[l] \/ l \in signals[1].lists]
         /\ \A c \in ChanIds : signals[1].after[c] = 0
<1>1. signals \in Seq(Signal) /\ signals # <<>> /\ signals' = Tail(signals)
  BY DEF ChanInv, SignalCompletes
<1>2. /\ Head(signals) = signals[1] /\ Tail(signals) \in Seq(Signal)
      /\ Len(Tail(signals)) = Len(signals) - 1
      /\ \A j \in 1..Len(Tail(signals)) : Tail(signals)[j] = signals[j + 1]
      /\ Len(signals) \in Nat
  BY <1>1, HeadTailProperties, LenProperties
<1>3. Len(signals) > 0 /\ 1 \in 1..Len(signals)
  BY <1>1, <1>2, EmptySeq
<1>4. QED
  BY <1>1, <1>2, <1>3 DEF SignalCompletes

\* What ChanInv is about.
chanVars == <<chan, signals, list_done, dirty, next_channel>>

\* Every step keeps it.
LEMMA ChanStep ==
  ASSUME BatchInv, ChanInv, [Next]_vars
  PROVE  ChanInv'
<1>1. ASSUME UNCHANGED chanVars PROVE ChanInv'
  BY <1>1 DEF ChanInv, chanVars
<1>2. ASSUME UNCHANGED <<chan, signals, next_channel>>, list_done' \in [ListIds -> BOOLEAN],
             dirty' = dirty \/ (dirty' = {} /\ WaitCompletion)
      PROVE  ChanInv'
  BY <1>2 DEF ChanInv, WaitCompletion
<1>3. CASE \E b \in Blocks : TransferWarp(b)
  BY <1>3, <1>1 DEF TransferWarp, ClaimList, ReadList, NotCommitted, CheckTerminate,
     WriteDescriptors, CommitSlot, ClearList, WaitListDone, WaitCompute, chanVars
<1>4. CASE \E b \in Blocks : ComputeWarp(b)
  BY <1>4, <1>1 DEF ComputeWarp, StartCompute, FinishCompute, ClearReady, chanVars
<1>5. CASE Poller
  <2>1. CASE PollEntry \/ GapTimeout \/ CopyNoCe
    BY <2>1, <1>1 DEF PollEntry, GapTimeout, CopyNoCe, chanVars
  <2>2. CASE SubmitBatch
    <3>1. PICK n \in 1..Len(batch) :
         \E copy \in [1..Len(batch) -> 0..(n - 1)] : SubmitData(n, copy)
      BY <2>2 DEF SubmitBatch
    <3>2. UNCHANGED <<signals, list_done>>
      BY <3>1 DEF SubmitBatch, SubmitData
    <3>3. QED
      BY <3>1, <3>2, SubmitFacts DEF ChanInv
  <2>3. CASE SignalLists
    <3> DEFINE s == [lists |-> BatchLists, after |-> QueuedOnDirty]
    <3>1. signals' = Append(signals, s) /\ UNCHANGED <<chan, list_done, dirty, next_channel>>
      BY <2>3 DEF SignalLists
    <3>2. BatchLists \subseteq ListIds
      <4>1. \A k \in 1..Len(batch) : batch[k] \in Desc
        BY ElementOfSeq DEF BatchInv
      <4>2. QED
        BY <4>1 DEF BatchLists, Desc
    <3>3. QueuedOnDirty \in [ChanIds -> Nat]
      <4>1. \A c \in ChanIds : Len(chan[c]) \in Nat
        BY LenProperties DEF ChanInv
      <4>2. QED
        BY <4>1 DEF QueuedOnDirty
    <3>4. s \in Signal
      BY <3>2, <3>3 DEF Signal
    <3> HIDE DEF s
    <3>5. signals' \in Seq(Signal)
      BY <3>1, <3>4, AppendProperties DEF ChanInv
    <3>6. QED
      BY <3>1, <3>5 DEF ChanInv
  <2>4. CASE CompleteLists
    <3>1. list_done' \in [ListIds -> BOOLEAN]
      BY <2>4 DEF CompleteLists
    <3>2. QED
      BY <2>4, <3>1, <1>2 DEF CompleteLists
  <2>5. CASE IdleWait
    <3>1. list_done' \in [ListIds -> BOOLEAN]
      BY <2>5 DEF IdleWait, ChanInv
    <3>2. QED
      BY <2>5, <3>1, <1>2 DEF IdleWait
  <2>6. QED
    BY <1>5, <2>1, <2>2, <2>3, <2>4, <2>5 DEF Poller
<1>6. CASE \E c \in ChanIds : CopyCompletes(c)
  <2>1. PICK c \in ChanIds : CopyCompletes(c)
    BY <1>6
  <2>2. UNCHANGED <<list_done, dirty, next_channel>> /\ chan[c] # <<>>
    BY <2>1 DEF CopyCompletes
  <2>3. \A d \in ChanIds : d \notin dirty => chan'[d] = <<>>
    BY <2>1, <2>2, CopyFacts DEF ChanInv
  <2>4. QED
    BY <2>1, <2>2, <2>3, CopyFacts, CopySignals DEF ChanInv
<1>7. CASE SignalCompletes
  <2>1. UNCHANGED <<chan, dirty, next_channel>>
    BY <1>7 DEF SignalCompletes
  <2>2. list_done' \in [ListIds -> BOOLEAN] /\ signals' \in Seq(Signal)
    BY <1>7, SignalFacts
  <2>3. QED
    BY <2>1, <2>2 DEF ChanInv
<1>8. CASE (\E n \in Counts : HostSubmit(n)) \/ StartSync \/ Terminate \/ DeviceSynchronize
  BY <1>8, <1>1 DEF HostSubmit, StartSync, Terminate, DeviceSynchronize, chanVars
<1>9. CASE StopPoller
  <2>1. list_done' \in [ListIds -> BOOLEAN]
    BY <1>9 DEF StopPoller, ChanInv
  <2>2. QED
    BY <1>9, <2>1, <1>2 DEF StopPoller
<1>10. CASE Launch \/ Reset
  BY <1>10, <1>2 DEF Launch, Reset
<1>11. CASE UNCHANGED vars
  BY <1>11, <1>1 DEF vars, chanVars
<1>12. QED
  BY <1>3, <1>4, <1>5, <1>6, <1>7, <1>8, <1>9, <1>10, <1>11 DEF Next, Running, Session

\* No copy is on a channel that wait_completion would not wait for (ChanInv).
LEMMA ChanHolds == Spec => []ChanInv
<1>1. Init => ChanInv
  <2>1. <<>> \in Seq(CopyOp) /\ <<>> \in Seq(Signal)
    BY EmptySeq
  <2>2. 0 \in ChanIds
    BY SGAssumption DEF ChanIds
  <2>3. QED
    BY <2>1, <2>2 DEF Init, ChanInv
<1>2. QED
  BY <1>1, BatchHolds, ChanStep, PTL DEF Spec
-----------------------------------------------------------------------------
(* The session: the proof *)

\* When every list there is is finished the poller has nothing left to do.
LEMMA AllFlushed ==
  ASSUME QueueInv, DescInv, BatchInv, expected = list_alloc_idx,
         \A l \in ListIds : l < expected => l \in Finished
  PROVE  Flushed = Len(entries) /\ read_idx = Len(entries) /\ Len(batch) = 0
<1>1. SUFFICES ASSUME Flushed # Len(entries) PROVE FALSE
  BY FlushedRange
<1> DEFINE n == Len(entries)
<1>2. Flushed \in Nat /\ n \in Nat /\ Flushed < n /\ n \in 1..Len(entries)
  <2>1. /\ Flushed \in Nat /\ Flushed <= read_idx /\ read_idx <= Len(entries)
        /\ Len(entries) \in Nat /\ read_idx \in Nat
    BY FlushedRange
  <2>2. Flushed < Len(entries)
    BY <1>1, <2>1
  <2>3. QED
    BY <2>1, <2>2
<1>3. entries[n].list_id \in ListIds /\ entries[n].list_id < list_alloc_idx
  <2>1. entries[n] \in Desc
    BY <1>2, ElementOfSeq DEF DescInv
  <2>2. QED
    BY <1>2, <2>1 DEF DescInv, ListsOwned, Desc
<1>4. entries[n].list_id \in Finished
  BY <1>3
<1>5. PICK m \in 1..Flushed : entries[m].last /\ entries[m].list_id = entries[n].list_id
  BY <1>4 DEF Finished
<1>6. PICK e \in n..Len(entries) : entries[e].last
  BY <1>2 DEF DescInv, ListsConsecutive
<1>7. e = n /\ m \in 1..Len(entries) /\ m < n
  BY <1>2, <1>5, <1>6
<1>8. m = n
  BY <1>2, <1>5, <1>6, <1>7 DEF DescInv, ListsEndOnce
<1>9. QED
  BY <1>2, <1>7, <1>8

\* As many completed lists as there are lists: each of them is finished.
LEMMA AllFinished ==
  ASSUME QueueInv, DescInv, BatchInv, CountInv, lists_completed >= list_alloc_idx
  PROVE  \A l \in ListIds : l < list_alloc_idx => l \in Finished
<1> DEFINE S == 0..(list_alloc_idx - 1)
<1>1. list_alloc_idx \in Nat
  BY ListSlots DEF QueueInv, QueueTypes
<1>2. Finished \subseteq S
  <2>1. ASSUME NEW l \in Finished PROVE l \in S
    <3>1. PICK m \in 1..Flushed : entries[m].list_id = l
      BY <2>1 DEF Finished
    <3>2. m \in 1..Len(entries) /\ l \in Nat
      BY <3>1, <2>1, FlushedRange, SGAssumption DEF Finished, ListIds
    <3>3. l < list_alloc_idx
      BY <3>1, <3>2 DEF DescInv, ListsOwned
    <3>4. QED
      BY <1>1, <3>2, <3>3
  <2>2. QED
    BY <2>1
<1>3. IsFiniteSet(S) /\ Cardinality(S) = list_alloc_idx
  <2>1. 0 \in Int /\ list_alloc_idx - 1 \in Int
    BY <1>1
  <2>2. IsFiniteSet(S) /\ Cardinality(S) = IF 0 > list_alloc_idx - 1 THEN 0
                                            ELSE list_alloc_idx - 1 - 0 + 1
    BY <2>1, FS_Interval, Zenon
  <2>3. QED
    BY <1>1, <2>2
<1>4. Finished \in SUBSET ListIds
  BY DEF Finished
<1>5. Cardinality(Finished) \in Nat /\ Cardinality(Finished) >= list_alloc_idx
  BY <1>1, <1>4, ListsFinite DEF CountInv
<1>6. Finished = S
  <2>1. Cardinality(Finished) <= Cardinality(S)
        /\ (Cardinality(S) = Cardinality(Finished) => Finished = S)
    BY <1>2, <1>3, FS_Subset
  <2>2. QED
    BY <1>1, <1>3, <1>5, <2>1
<1>7. QED
  BY <1>1, <1>6, SGAssumption DEF ListIds

\* What a step does to the session's variables.
LEMMA SessionSteps ==
  ASSUME [Next]_vars, ~Launch, ~Reset, ~Terminate, ~StartSync
  PROVE  /\ expected' = expected
         /\ \/ host' = host
            \/ DeviceSynchronize /\ host = "terminating" /\ host' = "stopping"
            \/ StopPoller /\ host = "stopping" /\ host' = "stopped"
         /\ \/ list_alloc_idx' = list_alloc_idx
            \/ /\ host' = host /\ host \in {"prefill", "running", "stopped"}
               /\ list_alloc_idx' = list_alloc_idx + 1
<1>1. CASE \E b \in Blocks : TransferWarp(b) \/ ComputeWarp(b)
  BY <1>1 DEF TransferWarp, ClaimList, ReadList, NotCommitted, CheckTerminate,
     WriteDescriptors, CommitSlot, ClearList, WaitListDone, WaitCompute,
     ComputeWarp, StartCompute, FinishCompute, ClearReady
<1>2. CASE Poller
  BY <1>2, PollerFrame
<1>3. CASE \E c \in ChanIds : CopyCompletes(c)
  BY <1>3 DEF CopyCompletes
<1>4. CASE SignalCompletes
  BY <1>4 DEF SignalCompletes
<1>5. CASE \E n \in Counts : HostSubmit(n)
  BY <1>5 DEF HostSubmit
<1>6. CASE DeviceSynchronize
  BY <1>6 DEF DeviceSynchronize
<1>7. CASE StopPoller
  BY <1>7 DEF StopPoller
<1>8. CASE UNCHANGED vars
  BY <1>8 DEF vars
<1>9. QED
  BY <1>1, <1>2, <1>3, <1>4, <1>5, <1>6, <1>7, <1>8 DEF Next, Running, Session

\* Every step keeps what synchronize relies on.
LEMMA SyncStep ==
  ASSUME QueueInv, DescInv, DescInv', BatchInv, BatchInv', CountInv, SyncInv, [Next]_vars
  PROVE  SyncInv'
<1>0. list_alloc_idx \in Nat /\ expected \in Nat
  BY ListSlots DEF QueueInv, QueueTypes, SyncInv
<1>1. CASE Launch \/ Reset
  BY <1>0, <1>1 DEF Launch, Reset, SyncInv
<1>2. CASE StartSync
  BY <1>0, <1>2 DEF StartSync, SyncInv
<1>3. CASE Terminate
  <2>1. expected' = expected /\ host' = "terminating" /\ expected = list_alloc_idx
        /\ UNCHANGED <<list_alloc_idx, entries, read_idx, batch>>
        /\ lists_completed >= list_alloc_idx
    BY <1>3 DEF Terminate, AllCompleted, SyncInv
  <2>2. \A l \in ListIds : l < list_alloc_idx => l \in Finished
    BY <2>1, AllFinished
  <2>3. Finished' = Finished
    BY <2>1 DEF Finished, Flushed
  <2>4. QED
    BY <1>0, <2>1, <2>2, <2>3 DEF SyncInv
<1>4. ASSUME ~Launch, ~Reset, ~Terminate, ~StartSync PROVE SyncInv'
  <2>1. Finished \subseteq Finished'
    BY <1>4, FinishedGrows
  <2>2. QED
    BY <1>0, <1>4, <2>1, SessionSteps DEF SyncInv
<1>5. QED
  BY <1>1, <1>2, <1>3, <1>4

\* Every step keeps the streams quiet between two launches.
LEMMA QuietStep ==
  ASSUME QueueInv, DescInv, BatchInv, ChanInv, SyncInv, QuietInv, [Next]_vars
  PROVE  QuietInv'
<1>0. ASSUME host \in {"prefill", "stopping", "stopped"} PROVE Len(batch) = 0
  <2>1. CASE host \in {"prefill", "stopped"}
    BY <2>1 DEF BatchInv
  <2>2. CASE host = "stopping"
    BY <2>2, AllFlushed DEF SyncInv
  <2>3. QED
    BY <1>0, <2>1, <2>2
<1>1. CASE Launch
  BY <1>1 DEF Launch, QuietInv
<1>2. CASE Reset
  BY <1>2 DEF Reset, QuietInv
<1>3. CASE StartSync \/ Terminate
  BY <1>3 DEF StartSync, Terminate, QuietInv
<1>4. CASE DeviceSynchronize
  BY <1>4 DEF DeviceSynchronize, QuietInv
<1>5. CASE StopPoller
  BY <1>5 DEF StopPoller, QuietInv
<1>6. ASSUME ~Launch, ~Reset, ~StartSync, ~Terminate, ~DeviceSynchronize, ~StopPoller,
             host \in {"prefill", "stopping", "stopped"}
      PROVE  UNCHANGED <<chan, signals>>
  <2>1. CASE \E b \in Blocks : TransferWarp(b) \/ ComputeWarp(b)
    BY <2>1 DEF TransferWarp, ClaimList, ReadList, NotCommitted, CheckTerminate,
       WriteDescriptors, CommitSlot, ClearList, WaitListDone, WaitCompute,
       ComputeWarp, StartCompute, FinishCompute, ClearReady
  <2>2. CASE Poller
    <3>1. poll_pc \notin {"flush", "signal"}
      BY <1>0, <1>6 DEF BatchInv
    <3>2. QED
      BY <2>2, <3>1 DEF Poller, PollEntry, GapTimeout, SubmitBatch, SubmitData, SignalLists,
         CompleteLists, CopyNoCe, IdleWait
  <2>3. CASE \E c \in ChanIds : CopyCompletes(c)
    BY <2>3, <1>6 DEF CopyCompletes, QuietInv
  <2>4. CASE SignalCompletes
    BY <2>4, <1>6 DEF SignalCompletes, QuietInv
  <2>5. CASE \E n \in Counts : HostSubmit(n)
    BY <2>5 DEF HostSubmit
  <2>6. CASE UNCHANGED vars
    BY <2>6 DEF vars
  <2>7. QED
    BY <1>6, <2>1, <2>2, <2>3, <2>4, <2>5, <2>6 DEF Next, Running, Session
<1>7. ASSUME ~Launch, ~Reset, ~StartSync, ~Terminate, ~DeviceSynchronize, ~StopPoller
      PROVE  QuietInv'
  BY <1>6, <1>7, SessionSteps DEF QuietInv
<1>8. QED
  BY <1>1, <1>2, <1>3, <1>4, <1>5, <1>7

\* What synchronize has waited for is there (SyncInv, QuietInv).
LEMMA SessionHolds == Spec => []SessionInv
<1>1. Init => SessionInv
  BY DEF Init, SessionInv, SyncInv, QuietInv
<1>2. QueueInv /\ DescInv /\ DescInv' /\ BatchInv /\ BatchInv' /\ CountInv /\ ChanInv
        /\ SessionInv /\ [Next]_vars => SessionInv'
  BY SyncStep, QuietStep DEF SessionInv
<1>3. QED
  BY <1>1, <1>2, QueueHolds, DescHolds, BatchHolds, CountHolds, ChanHolds, PTL DEF Spec
-----------------------------------------------------------------------------
(* Copies in flight: the proof *)

\* No descriptor of a list follows the one that ends it.
LEMMA EndIsLast ==
  ASSUME DescInv, NEW m \in 1..Len(entries), entries[m].last,
         NEW n \in 1..Len(entries), entries[n].list_id = entries[m].list_id
  PROVE  n <= m
<1>1. PICK e \in n..Len(entries) : /\ entries[e].last
                                   /\ \A i \in n..e : entries[i].list_id = entries[n].list_id
  BY DEF DescInv, ListsConsecutive
<1>2. Len(entries) \in Nat
  BY LenProperties DEF DescInv
<1>3. e \in 1..Len(entries) /\ e \in n..e
  BY <1>1, <1>2
<1>4. e = m
  BY <1>1, <1>3 DEF DescInv, ListsEndOnce
<1>5. QED
  BY <1>1, <1>2, <1>4

\* Steps that touch neither the channels nor what is on the GPU.
LEMMA FlightFrame ==
  ASSUME [Next]_vars, ~Reset, ~CopyNoCe, ~SubmitBatch,
         ~(\E c \in ChanIds : CopyCompletes(c))
  PROVE  UNCHANGED <<chan, landed>>
<1>1. CASE \E b \in Blocks : TransferWarp(b) \/ ComputeWarp(b)
  BY <1>1 DEF TransferWarp, ClaimList, ReadList, NotCommitted, CheckTerminate,
     WriteDescriptors, CommitSlot, ClearList, WaitListDone, WaitCompute,
     ComputeWarp, StartCompute, FinishCompute, ClearReady
<1>2. CASE Poller
  BY <1>2 DEF Poller, PollEntry, GapTimeout, SignalLists, CompleteLists, IdleWait
<1>3. CASE SignalCompletes \/ \E n \in Counts : HostSubmit(n)
  BY <1>3 DEF SignalCompletes, HostSubmit
<1>4. CASE Session
  BY <1>4 DEF Session, Launch, StartSync, Terminate, DeviceSynchronize, StopPoller
<1>5. CASE UNCHANGED vars
  BY <1>5 DEF vars
<1>6. QED
  BY <1>1, <1>2, <1>3, <1>4, <1>5 DEF Next, Running

\* Steps that report nothing.
LEMMA ReportFrame ==
  ASSUME [Next]_vars, ~Launch, ~Reset, ~SignalLists, ~CompleteLists, ~SignalCompletes,
         ~(\E c \in ChanIds : CopyCompletes(c))
  PROVE  UNCHANGED <<signals, list_done>>
<1>1. CASE \E b \in Blocks : TransferWarp(b) \/ ComputeWarp(b)
  BY <1>1 DEF TransferWarp, ClaimList, ReadList, NotCommitted, CheckTerminate,
     WriteDescriptors, CommitSlot, ClearList, WaitListDone, WaitCompute,
     ComputeWarp, StartCompute, FinishCompute, ClearReady
<1>2. CASE Poller
  BY <1>2 DEF Poller, PollEntry, GapTimeout, SubmitBatch, SubmitData, CopyNoCe, IdleWait
<1>3. CASE \E n \in Counts : HostSubmit(n)
  BY <1>3 DEF HostSubmit
<1>4. CASE Session
  BY <1>4 DEF Session, StartSync, Terminate, DeviceSynchronize, StopPoller
<1>5. CASE UNCHANGED vars
  BY <1>5 DEF vars
<1>6. QED
  BY <1>1, <1>2, <1>3, <1>4, <1>5 DEF Next, Running

\* What is on the GPU stays there.
LEMMA LandedGrows ==
  ASSUME [Next]_vars, ~Reset
  PROVE  landed \subseteq landed'
<1>1. CASE \E c \in ChanIds : CopyCompletes(c)
  BY <1>1 DEF CopyCompletes
<1>2. CASE SubmitBatch
  BY <1>2 DEF SubmitBatch, SubmitData
<1>3. CASE CopyNoCe
  BY <1>3 DEF CopyNoCe
<1>4. QED
  BY <1>1, <1>2, <1>3, FlightFrame

\* No copy is lost.
LEMMA HandedKept ==
  ASSUME BatchInv, ChanInv, [Next]_vars, ~Reset, NEW x, Handed(x)
  PROVE  Handed(x)'
<1>1. CASE x \in landed
  BY <1>1, LandedGrows DEF Handed
<1>2. CASE x \notin landed
  <2>1. PICK c \in ChanIds : \E k \in 1..Len(chan[c]) : x \in chan[c][k]
    BY <1>2 DEF Handed
  <2>2. PICK k \in 1..Len(chan[c]) : x \in chan[c][k]
    BY <2>1
  <2>3. CASE \E d \in ChanIds : CopyCompletes(d)
    <3>1. PICK d \in ChanIds : CopyCompletes(d)
      BY <2>3
    <3>2. CASE d # c
      <4>1. chan'[c] = chan[c]
        BY <3>1, <3>2, CopyFacts
      <4>2. QED
        BY <2>2, <4>1 DEF Handed
    <3>3. CASE d = c /\ k = 1
      BY <2>2, <3>1, <3>3, CopyFacts DEF Handed
    <3>4. CASE d = c /\ k # 1
      <4>1. /\ Len(chan[c]) \in Nat /\ Len(chan'[c]) = Len(chan[c]) - 1
            /\ \A i \in 1..Len(chan'[c]) : chan'[c][i] = chan[c][i + 1]
        BY <3>1, <3>4, CopyFacts
      <4>2. k - 1 \in 1..Len(chan'[c]) /\ (k - 1) + 1 = k
        BY <3>4, <4>1
      <4>3. x \in chan'[c][k - 1]
        BY <2>2, <4>1, <4>2
      <4>4. QED
        BY <4>2, <4>3 DEF Handed
    <3>5. QED
      BY <3>2, <3>3, <3>4
  <2>4. CASE SubmitBatch
    <3>1. PICK n \in 1..Len(batch) :
         \E copy \in [1..Len(batch) -> 0..(n - 1)] : SubmitData(n, copy)
      BY <2>4 DEF SubmitBatch
    <3>2. /\ Len(chan[c]) \in Nat /\ Len(chan'[c]) \in Nat
          /\ Len(chan[c]) <= Len(chan'[c]) /\ chan'[c][k] = chan[c][k]
      BY <3>1, SubmitFacts
    <3>3. k \in 1..Len(chan'[c])
      BY <3>2
    <3>4. QED
      BY <2>2, <3>2, <3>3 DEF Handed
  <2>5. CASE CopyNoCe
    BY <2>2, <2>5 DEF CopyNoCe, Handed
  <2>6. CASE ~(\E d \in ChanIds : CopyCompletes(d)) /\ ~CopyNoCe
               /\ ~SubmitBatch
    <3>1. UNCHANGED <<chan, landed>>
      BY <2>6, FlightFrame
    <3>2. QED
      BY <3>1, <2>2 DEF Handed
  <2>7. QED
    BY <2>3, <2>4, <2>5, <2>6
<1>3. QED
  BY <1>1, <1>2

\* Steps other than the conversion leave the descriptors alone.
LEMMA EntriesFrame ==
  ASSUME [Next]_vars, ~Launch, ~Reset, ~(\E b \in Blocks : WriteDescriptors(b))
  PROVE  entries' = entries
<1>1. CASE \E b \in Blocks : TransferWarp(b) \/ ComputeWarp(b)
  BY <1>1 DEF TransferWarp, ClaimList, ReadList, NotCommitted, CheckTerminate,
     CommitSlot, ClearList, WaitListDone, WaitCompute,
     ComputeWarp, StartCompute, FinishCompute, ClearReady
<1>2. CASE Poller
  BY <1>2, PollerFrame
<1>3. CASE SignalCompletes \/ (\E c \in ChanIds : CopyCompletes(c))
             \/ \E n \in Counts : HostSubmit(n)
  BY <1>3 DEF SignalCompletes, CopyCompletes, HostSubmit
<1>4. CASE Session
  BY <1>4 DEF Session, StartSync, Terminate, DeviceSynchronize, StopPoller
<1>5. CASE UNCHANGED vars
  BY <1>5 DEF vars
<1>6. QED
  BY <1>1, <1>2, <1>3, <1>4, <1>5 DEF Next, Running

\* A list that has descriptors gets no more.
LEMMA DescribedFixed ==
  ASSUME QueueInv, DescInv, [Next]_vars, ~Launch, ~Reset, NEW l, Described(l)
  PROVE  /\ Described(l)'
         /\ \A n \in 1..Len(entries') : entries'[n].list_id = l =>
              n \in 1..Len(entries) /\ entries'[n] = entries[n]
<1>1. /\ Len(entries) \in Nat /\ Len(entries') \in Nat /\ Len(entries) <= Len(entries')
      /\ \A n \in 1..Len(entries) : entries'[n] = entries[n]
  BY EntriesGrow
<1>2. \A n \in 1..Len(entries) : n \in 1..Len(entries')
  BY <1>1
<1>3. Described(l)'
  BY <1>1, <1>2 DEF Described
<1>4. ASSUME NEW n \in 1..Len(entries'), entries'[n].list_id = l, n \notin 1..Len(entries)
      PROVE  FALSE
  <2>1. CASE \E b \in Blocks : WriteDescriptors(b)
    <3>1. PICK b \in Blocks : WriteDescriptors(b)
      BY <2>1
    <3>2. /\ Len(entries') = Len(entries) + state[b].count
          /\ state[b].count \in Nat \ {0}
          /\ \A i \in 1..state[b].count : entries'[Len(entries) + i].list_id = list_idx[b]
      BY <3>1, WriteFacts DEF DescInv
    <3>3. n - Len(entries) \in 1..state[b].count /\ Len(entries) + (n - Len(entries)) = n
      BY <1>1, <1>4, <3>2
    <3>4. l = list_idx[b]
      BY <1>4, <3>2, <3>3
    <3>5. pc[b] = "acquire"
      BY <3>1 DEF WriteDescriptors
    <3>6. ~Described(list_idx[b])
      BY <3>5 DEF DescInv, ListsOwned, HasClaim, HasSlots
    <3>7. QED
      BY <3>4, <3>6
  <2>2. CASE ~(\E b \in Blocks : WriteDescriptors(b))
    <3>1. entries' = entries
      BY <2>2, EntriesFrame
    <3>2. QED
      BY <1>4, <3>1
  <2>3. QED
    BY <2>1, <2>2
<1>5. QED
  BY <1>1, <1>3, <1>4

\* A list that is on the GPU stays there.
LEMMA LandedKept ==
  ASSUME QueueInv, DescInv, [Next]_vars, ~Launch, ~Reset, NEW l, Described(l), ListLanded(l)
  PROVE  Described(l)' /\ ListLanded(l)'
<1>1. landed \subseteq landed'
  BY LandedGrows
<1>2. QED
  BY <1>1, DescribedFixed DEF ListLanded
\* The descriptors whose copies are submitted are ones the poller has read.
LEMMA SentRange ==
  ASSUME DescInv, BatchInv
  PROVE  Sent \in Nat /\ Flushed <= Sent /\ Sent <= read_idx /\ Sent <= Len(entries)
BY FlushedRange DEF Sent

\* A batch that is handed to the channels, or copied by the poller.
BatchSent == SubmitBatch \/ CopyNoCe

\* Which descriptors a step submits: none, or the batch.
LEMMA SentSteps ==
  ASSUME DescInv, BatchInv, [Next]_vars, ~Launch, ~Reset
  PROVE  Sent' = Sent \/ (BatchSent /\ Sent = Flushed /\ Sent' = read_idx)
<1>1. /\ Flushed \in Nat /\ Flushed <= read_idx /\ read_idx \in Nat
      /\ Len(batch) \in Nat /\ Flushed + Len(batch) = read_idx
  BY FlushedRange
<1>2. ASSUME UNCHANGED <<read_idx, batch>>
      PROVE  Flushed' = Flushed
  BY <1>2 DEF Flushed
<1>3. ASSUME read_idx' = read_idx, batch' = <<>>
      PROVE  Flushed' = read_idx
  <2>1. Len(batch') = 0
    BY <1>3, EmptySeq
  <2>2. QED
    BY <2>1, <1>1, <1>3 DEF Flushed
<1>4. CASE PollEntry
  <2> DEFINE e == entries[read_idx + 1]
  <2>1. batch' = Append(batch, e) /\ read_idx' = read_idx + 1
    BY <1>4 DEF PollEntry
  <2>2. batch \in Seq(Desc \cup {e}) /\ e \in Desc \cup {e}
    BY SeqMonotonic DEF BatchInv
  <2> HIDE DEF e
  <2>3. Len(batch') = Len(batch) + 1
    BY <2>1, <2>2, AppendProperties
  <2>4. Flushed' = Flushed
    BY <2>1, <2>3, <1>1 DEF Flushed
  <2>5. QED
    BY <2>4, <1>4 DEF PollEntry, Sent
<1>5. CASE GapTimeout
  BY <1>5, <1>2 DEF GapTimeout, Sent
<1>6. CASE SubmitBatch
  <2>1. PICK n \in 1..Len(batch) :
         \E copy \in [1..Len(batch) -> 0..(n - 1)] : SubmitData(n, copy)
    BY <1>6 DEF SubmitBatch
  <2>2. Sent = Flushed
    BY <2>1 DEF SubmitData, Sent
  <2>3. read_idx' = read_idx
    BY <2>1 DEF SubmitData
  <2>4. CASE SgMode
    <3>1. poll_pc' = "signal"
      BY <2>1, <2>4 DEF SubmitData
    <3>2. QED
      BY <1>6, <2>2, <2>3, <3>1 DEF Sent, BatchSent
  <2>5. CASE ~SgMode
    <3>1. poll_pc' = "poll" /\ batch' = <<>>
      BY <2>1, <2>5 DEF SubmitData
    <3>2. QED
      BY <1>6, <1>3, <2>2, <2>3, <3>1 DEF Sent, BatchSent
  <2>6. QED
    BY <2>4, <2>5
<1>7. CASE SignalLists
  BY <1>7, <1>3 DEF SignalLists, Sent
<1>8. CASE CompleteLists
  BY <1>8, <1>3 DEF CompleteLists, Sent
<1>9. CASE CopyNoCe
  BY <1>9, <1>3 DEF CopyNoCe, Sent, BatchSent
<1>10. CASE IdleWait
  BY <1>10, <1>2 DEF IdleWait, Sent
<1>11. CASE ~Poller
  BY <1>2, <1>11, ReadFrame DEF Sent
<1>12. QED
  BY <1>4, <1>5, <1>6, <1>7, <1>8, <1>9, <1>10, <1>11 DEF Poller

\* A batch that is sent is handed over, each descriptor of it.
LEMMA BatchHanded ==
  ASSUME BatchInv, ChanInv, BatchSent, NEW k \in 1..Len(batch),
         NEW x, x = batch[k].entry
  PROVE  Handed(x)'
<1>1. CASE CopyNoCe
  <2>1. landed' = landed \cup {batch[i].entry : i \in 1..Len(batch)}
    BY <1>1 DEF CopyNoCe
  <2>2. QED
    BY <2>1 DEF Handed
<1>2. CASE SubmitBatch
  BY <1>2, SubmitFacts DEF SubmitBatch, Handed
<1>3. QED
  BY <1>1, <1>2 DEF BatchSent
\* Every step keeps it: what is submitted is on the GPU or queued.
LEMMA SentStep ==
  ASSUME QueueInv, DescInv, BatchInv, ChanInv, SentInv, [Next]_vars
  PROVE  SentInv'
<1>1. CASE Launch \/ Reset
  <2>1. entries' = <<>>
    BY <1>1 DEF Launch, Reset
  <2>2. Len(entries') = 0
    BY <2>1, EmptySeq
  <2>3. QED
    BY <2>2 DEF SentInv
<1>2. CASE ~Launch /\ ~Reset
  <2> SUFFICES ASSUME NEW n \in 1..Len(entries'), n <= Sent'
               PROVE  \A x : x = entries'[n].entry => Handed(x)'
    BY DEF SentInv, Handed
  <2>1. /\ Len(entries) \in Nat /\ Len(entries) <= Len(entries') /\ Len(entries') \in Nat
        /\ \A m \in 1..Len(entries) : entries'[m] = entries[m]
    BY <1>2, EntriesGrow
  <2>2. /\ Sent \in Nat /\ Sent <= Len(entries)
        /\ read_idx \in Nat /\ read_idx <= Len(entries)
        /\ Len(batch) \in Nat /\ Flushed \in Nat /\ Flushed + Len(batch) = read_idx
    BY SentRange, FlushedRange
  <2>3. ASSUME n <= Sent PROVE \A x : x = entries'[n].entry => Handed(x)'
    <3>1. n \in 1..Len(entries)
      BY <2>1, <2>2, <2>3
    <3>2. entries'[n] = entries[n] /\ Handed(entries[n].entry)
      BY <2>1, <2>3, <3>1 DEF SentInv
    <3>3. QED
      BY <1>2, <3>2, HandedKept
  <2>4. CASE Sent' = Sent
    BY <2>3, <2>4
  <2>5. CASE BatchSent /\ Sent = Flushed /\ Sent' = read_idx
    <3>1. CASE n <= Sent
      BY <2>3, <3>1
    <3>2. CASE ~(n <= Sent)
      <4>1. n - Flushed \in 1..Len(batch) /\ Flushed + (n - Flushed) = n
        BY <2>1, <2>2, <2>5, <3>2
      <4>2. n \in 1..Len(entries)
        BY <2>1, <2>2, <2>5
      <4>3. entries'[n] = batch[n - Flushed]
        BY <2>1, <4>1, <4>2 DEF BatchInv
      <4>4. QED
        BY <2>5, <4>1, <4>3, BatchHanded
    <3>3. QED
      BY <3>1, <3>2
  <2>6. QED
    BY <1>2, <2>4, <2>5, SentSteps
<1>3. QED
  BY <1>1, <1>2

\* When every channel is empty, what is submitted is on the GPU.
LEMMA EmptyLanded ==
  ASSUME \A c \in ChanIds : chan[c] = <<>>, NEW x, Handed(x)
  PROVE  x \in landed
<1>1. \A c \in ChanIds : Len(chan[c]) = 0
  BY EmptySeq
<1>2. QED
  BY <1>1 DEF Handed

\* The list whose end is in the batch is submitted as a whole.
LEMMA BatchListSent ==
  ASSUME DescInv, BatchInv, SentInv, poll_pc = "signal", NEW x \in BatchLists
  PROVE  /\ x \in ListIds /\ Described(x)
         /\ \A n \in 1..Len(entries) : entries[n].list_id = x => Handed(entries[n].entry)
<1>1. PICK y \in ListIds : /\ BatchLists = {y} /\ read_idx \in 1..Len(entries)
                           /\ entries[read_idx].last /\ entries[read_idx].list_id = y
  BY BatchEnds
<1>2. x = y
  BY <1>1
<1>3. Sent = read_idx
  BY DEF Sent
<1>4. \A n \in 1..Len(entries) : entries[n].list_id = x => n <= read_idx
  BY <1>1, <1>2, EndIsLast
<1>5. QED
  BY <1>1, <1>2, <1>3, <1>4 DEF SentInv, Described

\* wait_completion has waited for every channel.
LEMMA AllChannelsEmpty ==
  ASSUME ChanInv, WaitCompletion
  PROVE  \A c \in ChanIds : chan[c] = <<>>
BY DEF ChanInv, WaitCompletion
\* Every step keeps it: a list is reported done when it is on the GPU.
LEMMA DoneStep ==
  ASSUME QueueInv, DescInv, BatchInv, ChanInv, SentInv, DoneInv, SignalsInv, [Next]_vars
  PROVE  DoneInv'
<1>1. CASE Launch \/ Reset
  BY <1>1 DEF Launch, Reset, DoneInv
<1>2. ASSUME ~Launch, ~Reset,
             \A l \in ListIds : list_done'[l] =>
               list_done[l] \/ (Described(l) /\ ListLanded(l))
      PROVE  DoneInv'
  <2>1. ASSUME NEW l \in ListIds, list_done'[l] PROVE Described(l)' /\ ListLanded(l)'
    <3>1. Described(l) /\ ListLanded(l)
      BY <1>2, <2>1 DEF DoneInv
    <3>2. QED
      BY <1>2, <3>1, LandedKept
  <2>2. QED
    BY <2>1 DEF DoneInv
<1>3. CASE CompleteLists
  <2>1. /\ poll_pc = "signal" /\ \A c \in ChanIds : chan[c] = <<>>
        /\ \A l \in ListIds : list_done'[l] => list_done[l] \/ l \in BatchLists
    BY <1>3, AllChannelsEmpty DEF CompleteLists
  <2>2. ASSUME NEW l \in BatchLists PROVE Described(l) /\ ListLanded(l)
    <3>1. /\ Described(l)
          /\ \A n \in 1..Len(entries) : entries[n].list_id = l => Handed(entries[n].entry)
      BY <2>1, <2>2, BatchListSent
    <3>2. QED
      BY <2>1, <3>1, EmptyLanded DEF ListLanded
  <2>3. ~Launch /\ ~Reset
    BY <1>3 DEF CompleteLists, BatchInv, Launch, Reset
  <2>4. QED
    BY <2>1, <2>2, <2>3, <1>2
<1>4. CASE SignalCompletes
  <2>1. /\ 1 \in 1..Len(signals)
        /\ \A l \in ListIds : list_done'[l] => list_done[l] \/ l \in signals[1].lists
        /\ \A c \in ChanIds : signals[1].after[c] = 0
    BY <1>4, SignalFacts
  <2>2. ASSUME NEW l \in signals[1].lists PROVE Described(l) /\ ListLanded(l)
    <3>1. /\ Described(l)
          /\ \A n \in 1..Len(entries) :
               entries[n].list_id = l => Ahead(signals[1], entries[n].entry)
      BY <2>1, <2>2 DEF SignalsInv, Behind
    <3>2. ASSUME NEW x, Ahead(signals[1], x) PROVE x \in landed
      <4>1. \A c \in ChanIds : \A k \in 1..Len(chan[c]) : ~(k <= signals[1].after[c])
        BY <2>1
      <4>2. QED
        BY <4>1, <3>2 DEF Ahead
    <3>3. QED
      BY <3>1, <3>2 DEF ListLanded
  <2>3. CASE Launch \/ Reset
    BY <2>3, <1>1
  <2>4. CASE ~Launch /\ ~Reset
    BY <2>1, <2>2, <2>4, <1>2
  <2>5. QED
    BY <2>3, <2>4
<1>5. CASE SignalLists
  <2>1. list_done' = list_done
    BY <1>5 DEF SignalLists
  <2>2. QED
    BY <2>1, <1>1, <1>2
<1>6. CASE \E c \in ChanIds : CopyCompletes(c)
  <2>1. list_done' = list_done
    BY <1>6 DEF CopyCompletes
  <2>2. QED
    BY <2>1, <1>1, <1>2
<1>7. CASE ~Launch /\ ~Reset /\ ~SignalLists /\ ~CompleteLists /\ ~SignalCompletes
             /\ ~(\E c \in ChanIds : CopyCompletes(c))
  <2>1. list_done' = list_done
    BY <1>7, ReportFrame
  <2>2. QED
    BY <2>1, <1>7, <1>2
<1>8. QED
  BY <1>1, <1>3, <1>4, <1>5, <1>6, <1>7

\* A copy that is ahead of a signal stays ahead of it, or lands.
LEMMA AheadKept ==
  ASSUME BatchInv, ChanInv, [Next]_vars, ~Reset, ~(\E c \in ChanIds : CopyCompletes(c)),
         NEW s, s \in Signal, NEW x, Ahead(s, x)
  PROVE  Ahead(s, x)'
<1>1. CASE x \in landed
  BY <1>1, LandedGrows DEF Ahead
<1>2. CASE x \notin landed
  <2>1. PICK c \in ChanIds : \E k \in 1..Len(chan[c]) : k <= s.after[c] /\ x \in chan[c][k]
    BY <1>2 DEF Ahead
  <2>2. PICK k \in 1..Len(chan[c]) : k <= s.after[c] /\ x \in chan[c][k]
    BY <2>1
  <2>3. k \in 1..Len(chan'[c]) /\ chan'[c][k] = chan[c][k]
    <3>1. CASE SubmitBatch
      <4>1. PICK n \in 1..Len(batch) :
         \E copy \in [1..Len(batch) -> 0..(n - 1)] : SubmitData(n, copy)
        BY <3>1 DEF SubmitBatch
      <4>2. /\ Len(chan[c]) \in Nat /\ Len(chan'[c]) \in Nat
            /\ Len(chan[c]) <= Len(chan'[c]) /\ chan'[c][k] = chan[c][k]
        BY <4>1, SubmitFacts
      <4>3. QED
        BY <4>2
    <3>2. CASE CopyNoCe
      BY <3>2 DEF CopyNoCe
    <3>3. CASE ~CopyNoCe /\ ~SubmitBatch
      BY <3>3, FlightFrame
    <3>4. QED
      BY <3>1, <3>2, <3>3
  <2>4. QED
    BY <2>2, <2>3 DEF Ahead
<1>3. QED
  BY <1>1, <1>2
\* A signal behind the copies of its lists stays behind them.
LEMMA BehindKept ==
  ASSUME QueueInv, DescInv, [Next]_vars, ~Launch, ~Reset,
         NEW s, NEW t, t.lists = s.lists, Behind(s), \A x : Ahead(s, x) => Ahead(t, x)'
  PROVE  Behind(t)'
<1> SUFFICES ASSUME NEW l \in t.lists
             PROVE  /\ Described(l)'
                    /\ \A n \in 1..Len(entries') :
                         entries'[n].list_id = l =>
                           \A x : x = entries'[n].entry => Ahead(t, x)'
  BY DEF Behind, Ahead
<1>1. /\ Described(l)
      /\ \A n \in 1..Len(entries) : entries[n].list_id = l => Ahead(s, entries[n].entry)
  BY DEF Behind
<1>2. /\ Described(l)'
      /\ \A n \in 1..Len(entries') : entries'[n].list_id = l =>
           n \in 1..Len(entries) /\ entries'[n] = entries[n]
  BY <1>1, DescribedFixed
<1>3. QED
  BY <1>1, <1>2

\* A copy that completes leaves the others ahead of the signals they were ahead of.
LEMMA AheadCopied ==
  ASSUME ChanInv, NEW c \in ChanIds, CopyCompletes(c), NEW j \in 1..Len(signals),
         NEW t, t = signals'[j], NEW x, Ahead(signals[j], x)
  PROVE  Ahead(t, x)'
<1>1. /\ signals[j].after[c] \in Nat
      /\ t.after[c] = IF signals[j].after[c] = 0 THEN 0 ELSE signals[j].after[c] - 1
      /\ \A d \in ChanIds : d # c => t.after[d] = signals[j].after[d]
  BY CopySignals
<1>2. /\ \A d \in ChanIds : d # c => chan'[d] = chan[d]
      /\ Len(chan[c]) \in Nat /\ Len(chan'[c]) = Len(chan[c]) - 1
      /\ \A k \in 1..Len(chan'[c]) : chan'[c][k] = chan[c][k + 1]
      /\ landed' = landed \cup chan[c][1]
  BY CopyFacts
<1>3. CASE x \in landed
  BY <1>2, <1>3 DEF Ahead
<1>4. CASE x \notin landed
  <2>1. PICK d \in ChanIds :
          \E k \in 1..Len(chan[d]) : k <= signals[j].after[d] /\ x \in chan[d][k]
    BY <1>4 DEF Ahead
  <2>2. PICK k \in 1..Len(chan[d]) : k <= signals[j].after[d] /\ x \in chan[d][k]
    BY <2>1
  <2>3. CASE d # c
    <3>1. chan'[d] = chan[d] /\ t.after[d] = signals[j].after[d]
      BY <1>1, <1>2, <2>3
    <3>2. QED
      BY <2>2, <3>1 DEF Ahead
  <2>4. CASE d = c /\ k = 1
    BY <1>2, <2>2, <2>4 DEF Ahead
  <2>5. CASE d = c /\ k # 1
    <3>1. k - 1 \in 1..Len(chan'[c]) /\ (k - 1) + 1 = k /\ k - 1 <= t.after[c]
      BY <1>1, <1>2, <2>2, <2>5
    <3>2. x \in chan'[c][k - 1]
      BY <1>2, <2>2, <2>5, <3>1
    <3>3. QED
      BY <3>1, <3>2 DEF Ahead
  <2>6. QED
    BY <2>3, <2>4, <2>5
<1>5. QED
  BY <1>3, <1>4

\* Every step keeps it: signals are behind the copies of their lists.
LEMMA SignalsStep ==
  ASSUME QueueInv, DescInv, BatchInv, ChanInv, QuietInv, SentInv, SignalsInv, [Next]_vars
  PROVE  SignalsInv'
<1>0. Len(signals) \in Nat /\ \A j \in 1..Len(signals) : signals[j] \in Signal
  BY LenProperties, ElementOfSeq DEF ChanInv
<1>1. SUFFICES ASSUME NEW j \in 1..Len(signals')
               PROVE  \A t : t = signals'[j] => Behind(t)'
  BY DEF SignalsInv, Behind, Ahead
<1>2. CASE Launch \/ Reset
  <2>1. signals = <<>> /\ signals' = signals
    BY <1>2 DEF Launch, Reset, QuietInv
  <2>2. Len(signals') = 0
    BY <2>1, EmptySeq
  <2>3. QED
    BY <1>1, <2>2
<1>3. ASSUME ~Launch, ~Reset, ~(\E c \in ChanIds : CopyCompletes(c)),
             NEW i \in 1..Len(signals), signals'[j] = signals[i]
      PROVE  \A t : t = signals'[j] => Behind(t)'
  <2>1. Behind(signals[i]) /\ signals[i] \in Signal
    BY <1>0 DEF SignalsInv
  <2>2. \A x : \A t : t = signals[i] /\ Ahead(t, x) => Ahead(t, x)'
    BY <1>3, <2>1, AheadKept
  <2>3. QED
    BY <1>3, <2>1, <2>2, BehindKept
<1>4. CASE ~Launch /\ ~Reset /\ \E c \in ChanIds : CopyCompletes(c)
  <2>1. PICK c \in ChanIds : CopyCompletes(c)
    BY <1>4
  <2>2. j \in 1..Len(signals) /\ signals'[j].lists = signals[j].lists
    BY <2>1, CopySignals
  <2>3. Behind(signals[j])
    BY <2>2 DEF SignalsInv
  <2>4. \A t : t = signals'[j] => \A x : Ahead(signals[j], x) => Ahead(t, x)'
    BY <2>1, <2>2, AheadCopied
  <2>5. QED
    BY <1>4, <2>2, <2>3, <2>4, BehindKept
<1>5. CASE /\ ~Launch /\ ~Reset /\ ~(\E c \in ChanIds : CopyCompletes(c))
           /\ SignalCompletes
  <2>1. Len(signals') = Len(signals) - 1 /\ signals'[j] = signals[j + 1]
    BY <1>5, SignalFacts
  <2>2. j + 1 \in 1..Len(signals)
    BY <1>0, <1>1, <2>1
  <2>3. QED
    BY <1>3, <1>5, <2>1, <2>2
<1>6. CASE /\ ~Launch /\ ~Reset /\ ~(\E c \in ChanIds : CopyCompletes(c))
           /\ SignalLists
  <2>1. PICK s : s = [lists |-> BatchLists, after |-> QueuedOnDirty]
    OBVIOUS
  <2>2. /\ signals' = Append(signals, s) /\ poll_pc = "signal"
        /\ UNCHANGED <<entries, chan, landed>>
    BY <1>6, <2>1 DEF SignalLists
  <2>3. signals \in Seq(Signal \cup {s}) /\ s \in Signal \cup {s}
    BY SeqMonotonic DEF ChanInv
  <2>4. /\ Len(signals') = Len(signals) + 1 /\ signals'[Len(signals) + 1] = s
        /\ \A i \in 1..Len(signals) : signals'[i] = signals[i]
    BY <2>2, <2>3, AppendProperties
  <2>5. CASE j \in 1..Len(signals)
    BY <1>3, <1>6, <2>4, <2>5
  <2>6. CASE j \notin 1..Len(signals)
    <3>1. signals'[j] = s
      <4>1. j = Len(signals) + 1
        BY <1>0, <1>1, <2>4, <2>6
      <4>2. QED
        BY <2>4, <4>1
    <3>2. ASSUME NEW x, Handed(x) PROVE Ahead(s, x)
      <4>1. ASSUME NEW c \in ChanIds, NEW k \in 1..Len(chan[c])
            PROVE  k <= s.after[c]
        <5>1. Len(chan[c]) \in Nat /\ chan[c] # <<>>
          BY <4>1, LenProperties, EmptySeq DEF ChanInv
        <5>2. s.after[c] = Len(chan[c])
          BY <2>1, <5>1 DEF QueuedOnDirty, ChanInv
        <5>3. QED
          BY <5>1, <5>2
      <4>2. QED
        BY <3>2, <4>1 DEF Handed, Ahead
    <3>3. \A l \in s.lists :
            /\ Described(l)
            /\ \A n \in 1..Len(entries) : entries[n].list_id = l => Ahead(s, entries[n].entry)
      BY <2>1, <2>2, <3>2, BatchListSent
    <3>4. Behind(s)
      BY <3>3 DEF Behind
    <3>5. \A x : Ahead(s, x) => Ahead(s, x)'
      BY <2>2 DEF Ahead
    <3>6. QED
      BY <1>6, <3>1, <3>4, <3>5, BehindKept
  <2>7. QED
    BY <2>5, <2>6
<1>7. CASE /\ ~Launch /\ ~Reset /\ ~(\E c \in ChanIds : CopyCompletes(c))
           /\ ~SignalCompletes /\ ~SignalLists
  <2>1. signals' = signals
    <3>1. CASE CompleteLists
      BY <3>1 DEF CompleteLists
    <3>2. CASE ~CompleteLists
      BY <1>7, <3>2, ReportFrame
    <3>3. QED
      BY <3>1, <3>2
  <2>2. QED
    BY <1>1, <1>3, <1>7, <2>1
<1>8. QED
  BY <1>2, <1>4, <1>5, <1>6, <1>7
\* The session is chosen once.
LEMMA ConfigFixed ==
  ASSUME [Next]_vars
  PROVE  UNCHANGED <<config, grid>>
<1>1. CASE \E b \in Blocks : TransferWarp(b) \/ ComputeWarp(b)
  BY <1>1 DEF TransferWarp, ClaimList, ReadList, NotCommitted, CheckTerminate,
     WriteDescriptors, CommitSlot, ClearList, WaitListDone, WaitCompute,
     ComputeWarp, StartCompute, FinishCompute, ClearReady
<1>2. CASE Poller
  BY <1>2, PollerFrame
<1>3. CASE SignalCompletes \/ (\E c \in ChanIds : CopyCompletes(c))
             \/ \E n \in Counts : HostSubmit(n)
  BY <1>3 DEF SignalCompletes, CopyCompletes, HostSubmit
<1>4. CASE Session
  BY <1>4 DEF Session, Launch, StartSync, Terminate, DeviceSynchronize, StopPoller, Reset
<1>5. CASE UNCHANGED vars
  BY <1>5 DEF vars
<1>6. QED
  BY <1>1, <1>2, <1>3, <1>4, <1>5 DEF Next, Running

\* The poller counts a list when it has signalled it.
LEMMA FlushedSteps ==
  ASSUME DescInv, BatchInv, [Next]_vars, ~Launch, ~Reset, SgMode, Flushed' # Flushed
  PROVE  SignalLists \/ CompleteLists \/ CopyNoCe
<1>1. Poller
  <2> SUFFICES ASSUME ~Poller PROVE FALSE
    OBVIOUS
  <2>1. UNCHANGED <<read_idx, batch>>
    BY ReadFrame
  <2>2. QED
    BY <2>1 DEF Flushed
<1>2. ~PollEntry
  <2> SUFFICES ASSUME PollEntry PROVE Flushed' = Flushed
    OBVIOUS
  <2> DEFINE e == entries[read_idx + 1]
  <2>1. batch' = Append(batch, e) /\ read_idx' = read_idx + 1
    BY DEF PollEntry
  <2>2. batch \in Seq(Desc \cup {e}) /\ e \in Desc \cup {e}
    BY SeqMonotonic DEF BatchInv
  <2> HIDE DEF e
  <2>3. Len(batch') = Len(batch) + 1
    BY <2>1, <2>2, AppendProperties
  <2>4. QED
    BY <2>1, <2>3, FlushedRange DEF Flushed
<1>3. ~GapTimeout /\ ~IdleWait
  BY DEF GapTimeout, IdleWait, Flushed
<1>4. ~SubmitBatch
  BY DEF SubmitBatch, SubmitData, Flushed
<1>5. QED
  BY <1>1, <1>2, <1>3, <1>4 DEF Poller

\* A list becomes finished with the batch that has its end.
LEMMA FinishedNew ==
  ASSUME QueueInv, DescInv, DescInv', BatchInv, BatchInv', [Next]_vars, ~Launch, ~Reset,
         NEW l \in Finished', l \notin Finished
  PROVE  l \in BatchLists /\ SgMode /\ Flushed' # Flushed
<1>1. PICK n \in 1..Flushed' : entries'[n].last /\ entries'[n].list_id = l
  BY DEF Finished
<1>2. /\ Flushed \in Nat /\ read_idx \in Nat /\ read_idx <= Len(entries)
      /\ Len(entries) \in Nat /\ Len(batch) \in Nat /\ Flushed + Len(batch) = read_idx
  BY FlushedRange
<1>3. Flushed <= Flushed' /\ Flushed' \in Nat /\ (Flushed' # Flushed => Flushed' = read_idx)
  BY FlushedGrows
<1>4. n \in 1..Len(entries)
  BY <1>2, <1>3, FlushedRange
<1>5. entries'[n] = entries[n]
  BY <1>4, EntriesGrow
<1>6. l \in ListIds
  BY DEF Finished
<1>7. n \notin 1..Flushed
  BY <1>1, <1>5, <1>6 DEF Finished
<1>8. n - Flushed \in 1..Len(batch) /\ Flushed + (n - Flushed) = n /\ Flushed' # Flushed
  BY <1>2, <1>3, <1>7
<1>9. batch[n - Flushed] = entries[n]
  BY <1>8 DEF BatchInv
<1>10. QED
  BY <1>1, <1>5, <1>8, <1>9 DEF BatchLists, SgMode

\* Every step keeps it: without d_list_done a finished list is on the GPU.
LEMMA CoarseStep ==
  ASSUME QueueInv, DescInv, DescInv', BatchInv, BatchInv', ChanInv, SentInv, CoarseInv,
         [Next]_vars
  PROVE  CoarseInv'
<1>1. CASE Launch \/ Reset
  <2>1. entries' = <<>>
    BY <1>1 DEF Launch, Reset
  <2>2. Len(entries') = 0
    BY <2>1, EmptySeq
  <2>3. QED
    BY <2>2 DEF CoarseInv, ListLanded
<1>2. CASE ~Launch /\ ~Reset
  <2> SUFFICES ASSUME config.path = "coarse", NEW l \in Finished'
               PROVE  ListLanded(l)'
    BY ConfigFixed DEF CoarseInv
  <2>1. Described(l) /\ ListLanded(l)
    <3>1. CASE l \in Finished
      <4>1. PICK m \in 1..Flushed : entries[m].list_id = l
        BY <3>1 DEF Finished
      <4>2. m \in 1..Len(entries)
        BY FlushedRange
      <4>3. QED
        BY <3>1, <4>1, <4>2 DEF CoarseInv, Described
    <3>2. CASE l \notin Finished
      <4>1. l \in BatchLists /\ SgMode /\ Flushed' # Flushed
        BY <1>2, <3>2, FinishedNew
      <4>2. SignalLists \/ CompleteLists \/ CopyNoCe
        BY <1>2, <4>1, FlushedSteps
      <4>3. CompleteLists
        BY <4>2 DEF SignalLists, CopyNoCe
      <4>4. poll_pc = "signal" /\ \A c \in ChanIds : chan[c] = <<>>
        BY <4>3, AllChannelsEmpty DEF CompleteLists
      <4>5. /\ Described(l)
            /\ \A n \in 1..Len(entries) : entries[n].list_id = l => Handed(entries[n].entry)
        BY <4>1, <4>4, BatchListSent
      <4>6. QED
        BY <4>4, <4>5, EmptyLanded DEF ListLanded
    <3>3. QED
      BY <3>1, <3>2
  <2>2. QED
    BY <1>2, <2>1, LandedKept
<1>3. QED
  BY <1>1, <1>2

\* What is reported done is on the GPU (SentInv, DoneInv, SignalsInv, CoarseInv).
LEMMA FlightHolds == Spec => []FlightInv
<1>1. Init => FlightInv
  <2> SUFFICES ASSUME Init PROVE FlightInv
    OBVIOUS
  <2>1. Len(entries) = 0 /\ Len(signals) = 0 /\ list_done = [l \in ListIds |-> FALSE]
    BY EmptySeq DEF Init
  <2>2. QED
    BY <2>1 DEF FlightInv, SentInv, DoneInv, SignalsInv, CoarseInv, ListLanded
<1>2. QueueInv /\ DescInv /\ DescInv' /\ BatchInv /\ BatchInv' /\ ChanInv /\ SessionInv
        /\ FlightInv /\ [Next]_vars => FlightInv'
  BY SentStep, DoneStep, SignalsStep, CoarseStep DEF FlightInv, SessionInv
<1>3. QED
  BY <1>1, <1>2, QueueHolds, DescHolds, BatchHolds, ChanHolds, SessionHolds, PTL DEF Spec
-----------------------------------------------------------------------------
(* What a block is told: the proof *)

\* Steps of others than the transfer warps leave the transfer warps alone.
LEMMA BlocksFrame ==
  ASSUME [Next]_vars, ~Launch, ~(\E b \in Blocks : TransferWarp(b))
  PROVE  UNCHANGED <<pc, list_idx, lists_processed, state>>
<1>1. CASE \E b \in Blocks : ComputeWarp(b)
  BY <1>1 DEF ComputeWarp, StartCompute, FinishCompute, ClearReady
<1>2. CASE Poller
  BY <1>2, PollerFrame
<1>3. CASE SignalCompletes \/ (\E c \in ChanIds : CopyCompletes(c))
             \/ \E n \in Counts : HostSubmit(n)
  BY <1>3 DEF SignalCompletes, CopyCompletes, HostSubmit
<1>4. CASE Session
  BY <1>4 DEF Session, StartSync, Terminate, DeviceSynchronize, StopPoller, Reset
<1>5. CASE UNCHANGED vars
  BY <1>5 DEF vars
<1>6. QED
  BY <1>1, <1>2, <1>3, <1>4, <1>5 DEF Next, Running

\* Where a transfer warp's step leaves it, and what it has seen.
LEMMA SeenStep ==
  ASSUME QueueInv, lists_processed \in [Blocks -> Nat], NEW b \in Blocks, TransferWarp(b)
  PROVE  /\ lists_processed' \in [Blocks -> Nat]
         /\ \A a \in Blocks : Seen(a) \in Nat /\ Seen(a)' \in Nat /\ Seen(a) <= Seen(a)'
         /\ WriteDescriptors(b) => Seen(b)' = Seen(b) + 1
<1>1. pc \in [Blocks -> PlaceSet] /\ \A a \in Blocks : lists_processed[a] \in Nat
  BY DEF QueueInv, QueueTypes
<1>2. \A a \in Blocks : Seen(a) \in Nat
  BY <1>1 DEF Seen
<1>3. ASSUME lists_processed' = lists_processed, NEW p, pc' = [pc EXCEPT ![b] = p],
             pc[b] \in {"commit", "clear", "wait_done"} => p \in {"commit", "clear", "wait_done"}
      PROVE  /\ lists_processed' \in [Blocks -> Nat]
             /\ \A a \in Blocks : Seen(a) \in Nat /\ Seen(a)' \in Nat /\ Seen(a) <= Seen(a)'
  BY <1>1, <1>2, <1>3 DEF Seen
<1>4. CASE ClaimList(b) \/ ReadList(b) \/ NotCommitted(b) \/ WaitCompute(b)
  <2>1. pc[b] \notin {"acquire", "commit", "clear", "wait_done"} /\ lists_processed' = lists_processed
    BY <1>4 DEF ClaimList, ReadList, NotCommitted, WaitCompute
  <2>2. \E p : pc' = [pc EXCEPT ![b] = p]
    BY <1>4 DEF ClaimList, ReadList, NotCommitted, WaitCompute
  <2>3. ~WriteDescriptors(b)
    BY <2>1 DEF WriteDescriptors
  <2>4. QED
    BY <1>3, <2>1, <2>2, <2>3
<1>5. CASE CheckTerminate(b)
  <2>1. pc[b] = "check_terminate" /\ lists_processed' = lists_processed
    BY <1>5 DEF CheckTerminate
  <2>2. \E p : pc' = [pc EXCEPT ![b] = p]
    BY <1>5 DEF CheckTerminate
  <2>3. ~WriteDescriptors(b)
    BY <2>1 DEF WriteDescriptors
  <2>4. QED
    BY <1>3, <2>1, <2>2, <2>3
<1>6. CASE WriteDescriptors(b)
  <2>1. pc[b] = "acquire" /\ lists_processed' = lists_processed
        /\ pc' = [pc EXCEPT ![b] = "commit"]
    BY <1>6 DEF WriteDescriptors
  <2>2. Seen(b)' = Seen(b) + 1
    BY <1>1, <2>1 DEF Seen
  <2>3. QED
    BY <1>3, <2>1, <2>2
<1>7. CASE CommitSlot(b)
  <2>1. /\ pc[b] = "commit" /\ lists_processed' = lists_processed
        /\ (pc' = [pc EXCEPT ![b] = "commit"] \/ pc' = [pc EXCEPT ![b] = "clear"])
    BY <1>1, <1>7 DEF CommitSlot
  <2>2. ~WriteDescriptors(b)
    BY <2>1 DEF WriteDescriptors
  <2>3. QED
    BY <1>3, <2>1, <2>2
<1>8. CASE ClearList(b)
  <2>1. /\ pc[b] = "clear" /\ lists_processed' = lists_processed
        /\ pc' = [pc EXCEPT ![b] = "wait_done"]
    BY <1>8 DEF ClearList
  <2>2. ~WriteDescriptors(b)
    BY <2>1 DEF WriteDescriptors
  <2>3. QED
    BY <1>3, <2>1, <2>2
<1>9. CASE WaitListDone(b)
  <2>1. /\ pc[b] = "wait_done" /\ pc' = [pc EXCEPT ![b] = "wait_compute"]
        /\ lists_processed' = [lists_processed EXCEPT ![b] = lists_processed[b] + 1]
    BY <1>9 DEF WaitListDone
  <2>2. ~WriteDescriptors(b)
    BY <2>1 DEF WriteDescriptors
  <2>3. lists_processed' \in [Blocks -> Nat]
    BY <1>1, <2>1
  <2>4. \A a \in Blocks : Seen(a)' = Seen(a)
    BY <1>1, <2>1 DEF Seen
  <2>5. QED
    BY <1>2, <2>2, <2>3, <2>4
<1>10. QED
  BY <1>4, <1>5, <1>6, <1>7, <1>8, <1>9 DEF TransferWarp
\* Every step keeps it: a single block has seen what it stored.
LEMMA SingleStep ==
  ASSUME QueueInv, DescInv, SingleInv, [Next]_vars
  PROVE  SingleInv'
<1>1. DescribedLists \in SUBSET ListIds /\ DescribedLists' \in SUBSET ListIds
  BY DEF DescribedLists
<1>2. /\ IsFiniteSet(DescribedLists)
      /\ Cardinality(DescribedLists) \in Nat /\ Cardinality(DescribedLists') \in Nat
  BY <1>1, ListsFinite
<1>3. config' = config /\ grid' = grid /\ grid \subseteq Blocks
  BY ConfigFixed DEF QueueInv, QueueTypes
<1>4. ASSUME entries' = <<>>, lists_processed' \in [Blocks -> Nat] PROVE SingleInv'
  <2>1. Len(entries') = 0
    BY <1>4, EmptySeq
  <2>2. DescribedLists' = {}
    BY <2>1 DEF DescribedLists, Described
  <2>3. Cardinality(DescribedLists') = 0
    BY <2>2, FS_EmptySet
  <2>4. \A b \in Blocks : Seen(b)' \in Nat
    BY <1>4 DEF Seen
  <2>5. QED
    BY <1>3, <1>4, <2>3, <2>4 DEF SingleInv
<1>5. CASE Launch \/ Reset
  <2>1. entries' = <<>> /\ lists_processed' \in [Blocks -> Nat]
    BY <1>5 DEF Launch, Reset, SingleInv
  <2>2. QED
    BY <1>4, <2>1
<1>6. CASE ~Launch /\ ~Reset /\ \E b \in Blocks : TransferWarp(b)
  <2>1. PICK b \in Blocks : TransferWarp(b)
    BY <1>6
  <2>2. /\ lists_processed' \in [Blocks -> Nat]
        /\ \A a \in Blocks : Seen(a) \in Nat /\ Seen(a)' \in Nat /\ Seen(a) <= Seen(a)'
        /\ WriteDescriptors(b) => Seen(b)' = Seen(b) + 1
    BY <2>1, SeenStep DEF SingleInv
  <2>3. CASE \E a \in Blocks : WriteDescriptors(a)
    <3>1. PICK a \in Blocks : WriteDescriptors(a)
      BY <2>3
    <3>2. /\ \A d \in Blocks : Seen(d) \in Nat /\ Seen(d)' \in Nat
          /\ Seen(a)' = Seen(a) + 1
      BY <3>1, SeenStep DEF SingleInv, TransferWarp
    <3>3. DescribedLists' \subseteq DescribedLists \cup {list_idx[a]}
      BY <3>1, DescribedAfter DEF DescribedLists
    <3>4. Cardinality(DescribedLists') <= Cardinality(DescribedLists) + 1
      <4>1. /\ IsFiniteSet(DescribedLists \cup {list_idx[a]})
            /\ Cardinality(DescribedLists \cup {list_idx[a]}) \in Nat
            /\ Cardinality(DescribedLists \cup {list_idx[a]}) <=
                 Cardinality(DescribedLists) + 1
        <5> DEFINE x == list_idx[a]
                   D == DescribedLists
        <5> HIDE DEF x, D
        <5>1. IsFiniteSet(D) /\ Cardinality(D) \in Nat
          BY <1>2 DEF D
        <5>2. /\ IsFiniteSet(D \cup {x})
              /\ x \in D => D \cup {x} = D
              /\ x \notin D => Cardinality(D \cup {x}) = Cardinality(D) + 1
          BY <5>1, FS_AddElement
        <5>3. Cardinality(D \cup {x}) \in Nat /\ Cardinality(D \cup {x}) <= Cardinality(D) + 1
          BY <5>1, <5>2
        <5>4. QED
          BY <5>2, <5>3 DEF x, D
      <4>2. Cardinality(DescribedLists') <= Cardinality(DescribedLists \cup {list_idx[a]})
        BY <3>3, <4>1, FS_Subset
      <4>3. QED
        BY <1>2, <4>1, <4>2
    <3>5. ASSUME config.blocks = 1, NEW d \in grid
          PROVE  Cardinality(DescribedLists') <= Seen(d)'
      <4>1. a \in grid /\ Cardinality(grid) = 1
        BY <3>1, <3>5 DEF WriteDescriptors, QueueInv, KernelInv, QueueTypes
      <4>2. d = a
        <5>1. IsFiniteSet(grid)
          BY <1>3, GridFinite
        <5>2. PICK g : grid = {g}
          BY <4>1, <5>1, FS_Singleton
        <5>3. QED
          BY <4>1, <5>2
      <4>3. Cardinality(DescribedLists) <= Seen(a)
        BY <3>5, <4>1 DEF SingleInv
      <4>4. QED
        BY <1>2, <3>2, <3>4, <4>2, <4>3
    <3>6. QED
      BY <1>3, <2>2, <3>5 DEF SingleInv
  <2>4. CASE ~(\E a \in Blocks : WriteDescriptors(a))
    <3>1. DescribedLists' = DescribedLists
      BY <1>6, <2>4, EntriesFrame DEF DescribedLists, Described
    <3>2. ASSUME config.blocks = 1, NEW d \in grid
          PROVE  Cardinality(DescribedLists') <= Seen(d)'
      <4>1. d \in Blocks /\ Cardinality(DescribedLists) <= Seen(d)
        BY <1>3, <3>2 DEF SingleInv
      <4>2. QED
        BY <1>2, <2>2, <3>1, <4>1
    <3>3. QED
      BY <1>3, <2>2, <3>2 DEF SingleInv
  <2>5. QED
    BY <2>3, <2>4
<1>7. CASE ~Launch /\ ~Reset /\ ~(\E b \in Blocks : TransferWarp(b))
  <2>1. UNCHANGED <<pc, lists_processed>>
    BY <1>7, BlocksFrame
  <2>2. DescribedLists' = DescribedLists
    BY <1>7, EntriesFrame DEF DescribedLists, Described, TransferWarp
  <2>3. QED
    BY <1>3, <2>1, <2>2 DEF SingleInv, Seen
<1>8. QED
  BY <1>5, <1>6, <1>7

\* How a block comes to wait for its compute warp.
LEMMA WaitSteps ==
  ASSUME QueueInv, [Next]_vars, NEW b \in Blocks, pc'[b] = "wait_compute"
  PROVE  /\ ~Launch /\ ~Reset
         /\ list_idx'[b] = list_idx[b]
         /\ pc[b] = "wait_compute" \/ WaitListDone(b)
<1>1. pc \in [Blocks -> PlaceSet]
  BY DEF QueueInv, QueueTypes
<1>2. ~Launch
  BY DEF Launch
<1>3. ~Reset
  BY DEF Reset, QueueInv, KernelInv
<1>4. CASE \E a \in Blocks : TransferWarp(a)
  <2>1. PICK a \in Blocks : TransferWarp(a)
    BY <1>4
  <2>2. CASE WaitListDone(a)
    BY <1>1, <1>2, <1>3, <2>2 DEF WaitListDone
  <2>3. CASE ~WaitListDone(a)
    <3>1. CASE ClaimList(a)
      BY <1>1, <1>2, <1>3, <3>1 DEF ClaimList, QueueInv, QueueTypes
    <3>2. CASE ReadList(a) \/ NotCommitted(a) \/ CheckTerminate(a)
      BY <1>1, <1>2, <1>3, <3>2 DEF ReadList, NotCommitted, CheckTerminate
    <3>3. CASE WriteDescriptors(a) \/ ClearList(a) \/ WaitCompute(a)
      BY <1>1, <1>2, <1>3, <3>3 DEF WriteDescriptors, ClearList, WaitCompute
    <3>4. CASE CommitSlot(a)
      BY <1>1, <1>2, <1>3, <3>4 DEF CommitSlot
    <3>5. QED
      BY <2>1, <2>3, <3>1, <3>2, <3>3, <3>4 DEF TransferWarp
  <2>4. QED
    BY <2>2, <2>3
<1>5. CASE ~(\E a \in Blocks : TransferWarp(a))
  BY <1>2, <1>3, <1>5, BlocksFrame
<1>6. QED
  BY <1>4, <1>5

\* A single block that sees one more completed list than it has seen before sees
\* its own: every list with descriptors is finished.
LEMMA SingleDone ==
  ASSUME QueueInv, DescInv, BatchInv, CountInv, SingleInv, config.blocks = 1,
         NEW b \in Blocks, pc[b] = "wait_done", lists_completed >= lists_processed[b] + 1
  PROVE  DescribedLists = Finished
<1>1. b \in grid
  BY DEF QueueInv, KernelInv
<1>2. Seen(b) = lists_processed[b] + 1 /\ lists_processed[b] \in Nat
  BY DEF Seen, SingleInv
<1>3. Cardinality(DescribedLists) <= lists_processed[b] + 1
  BY <1>1, <1>2 DEF SingleInv
<1>4. Finished \subseteq DescribedLists
  <2>1. Flushed \in Nat /\ Flushed <= Len(entries) /\ Len(entries) \in Nat
    BY FlushedRange
  <2>2. QED
    BY <2>1 DEF Finished, DescribedLists, Described
<1>5. Finished \in SUBSET ListIds /\ DescribedLists \in SUBSET ListIds
  BY DEF Finished, DescribedLists
<1>6. /\ IsFiniteSet(DescribedLists) /\ Cardinality(DescribedLists) \in Nat
      /\ Cardinality(Finished) \in Nat
  BY <1>5, ListsFinite
<1>7. /\ Cardinality(Finished) <= Cardinality(DescribedLists)
      /\ Cardinality(DescribedLists) = Cardinality(Finished) => Finished = DescribedLists
  BY <1>4, <1>6, FS_Subset
<1>8. lists_completed \in Nat /\ lists_completed <= Cardinality(Finished)
  BY DEF CountInv
<1>9. QED
  BY <1>2, <1>3, <1>6, <1>7, <1>8

\* Every step keeps it: a block hands over a list that is on the GPU.
LEMMA ToldStep ==
  ASSUME QueueInv, DescInv, BatchInv, CountInv, FlightInv, SingleInv, ToldInv, [Next]_vars
  PROVE  ToldInv'
<1> SUFFICES ASSUME config.path = "coarse" => config.blocks = 1,
                    NEW b \in Blocks, pc'[b] = "wait_compute",
                    NEW l, l = list_idx'[b]
             PROVE  ListLanded(l)'
  BY ConfigFixed DEF ToldInv, ListLanded
<1>1. ~Launch /\ ~Reset /\ l = list_idx[b] /\ (pc[b] = "wait_compute" \/ WaitListDone(b))
  BY WaitSteps
<1>2. pc[b] \in {"wait_done", "wait_compute"}
  BY <1>1 DEF WaitListDone
<1>3. Described(l) /\ l \in ListIds /\ state[b].list_id = l
  BY <1>1, <1>2, ListInHand DEF DescInv, ListsOwned, HasClaim, HasSlots, HasList
<1>4. ListLanded(l)
  <2>1. CASE pc[b] = "wait_compute"
    BY <1>1, <2>1 DEF ToldInv
  <2>2. CASE WaitListDone(b) /\ config.path # "coarse"
    <3>1. list_done[l]
      BY <1>3, <2>2 DEF WaitListDone, ListDone
    <3>2. QED
      BY <1>3, <3>1 DEF FlightInv, DoneInv
  <2>3. CASE WaitListDone(b) /\ config.path = "coarse"
    <3>1. pc[b] = "wait_done" /\ lists_completed >= lists_processed[b] + 1
      BY <2>3 DEF WaitListDone, ListDone
    <3>2. DescribedLists = Finished
      BY <2>3, <3>1, SingleDone
    <3>3. l \in Finished
      BY <1>3, <3>2 DEF DescribedLists
    <3>4. QED
      BY <2>3, <3>3 DEF FlightInv, CoarseInv
  <2>4. QED
    BY <1>1, <2>1, <2>2, <2>3
<1>5. QED
  BY <1>1, <1>3, <1>4, LandedKept

\* A single block keeps its own count (SingleInv) ...
LEMMA SingleHolds == Spec => []SingleInv
<1>1. Init => SingleInv
  <2> SUFFICES ASSUME Init PROVE SingleInv
    OBVIOUS
  <2>1. Len(entries) = 0 /\ lists_processed = [b \in Blocks |-> 0] /\ grid \subseteq Blocks
    BY EmptySeq DEF Init
  <2>2. DescribedLists = {}
    BY <2>1 DEF DescribedLists, Described
  <2>3. Cardinality(DescribedLists) = 0
    BY <2>2, FS_EmptySet
  <2>4. QED
    BY <2>1, <2>3 DEF SingleInv, Seen
<1>2. QED
  BY <1>1, QueueHolds, DescHolds, SingleStep, PTL DEF Spec

\* ... and what a block is told is there is there (ToldInv).
LEMMA ToldHolds == Spec => []ToldInv
<1>1. Init => ToldInv
  BY DEF Init, ToldInv
<1>2. QED
  BY <1>1, QueueHolds, DescHolds, BatchHolds, CountHolds, FlightHolds, SingleHolds,
     ToldStep, PTL DEF Spec
-----------------------------------------------------------------------------
(* What the descriptors carry: the proof *)

\* A factor can be taken from both sides.
LEMMA FactorLeq ==
  ASSUME NEW m \in Nat \ {0}, NEW a \in Nat, NEW b \in Nat, m * a <= m * b
  PROVE  a <= b
<1> SUFFICES ASSUME a > b PROVE FALSE
  OBVIOUS
<1>1. PICK d \in Nat : a = b + 1 + d
  BY a - b - 1 \in Nat /\ a = b + 1 + (a - b - 1)
<1>2. PICK x \in Nat : x = m * b
  OBVIOUS
<1>3. PICK y \in Nat : y = m * d
  BY <1>1
<1>4. m * a = x + m + y
  BY <1>1, <1>2, <1>3
<1>5. QED
  BY <1>2, <1>3, <1>4

\* The pool has room for the lists there may be.
LEMMA PoolRoom ==
  ASSUME ListsFitPool, QueueInv, PoolInv
  PROVE  /\ entry_alloc_idx \in Nat /\ entry_alloc_idx <= MAX_SG_POOL_ENTRIES
         /\ \A n \in Counts : list_alloc_idx < MaxLists =>
              /\ n \in Nat \ {0} /\ entry_alloc_idx + n <= MAX_SG_POOL_ENTRIES
              /\ MaxLists * (entry_alloc_idx + n) <= (list_alloc_idx + 1) * MAX_SG_POOL_ENTRIES
<1>1. /\ MaxLists \in Nat \ {0} /\ MAX_SG_POOL_ENTRIES \in Nat \ {0}
      /\ entry_alloc_idx \in Nat /\ list_alloc_idx \in Nat /\ list_alloc_idx <= MaxLists
      /\ Counts \subseteq Nat \ {0}
  BY ListSlots, SGAssumption DEF QueueInv, QueueTypes
<1>2. MaxLists * entry_alloc_idx <= list_alloc_idx * MAX_SG_POOL_ENTRIES
  BY DEF PoolInv
<1>3. ASSUME NEW a \in Nat, a <= MaxLists
      PROVE  a * MAX_SG_POOL_ENTRIES <= MaxLists * MAX_SG_POOL_ENTRIES
  <2>1. PICK d \in Nat : MaxLists = a + d
    BY <1>1, <1>3, MaxLists - a \in Nat /\ MaxLists = a + (MaxLists - a)
  <2>2. PICK x \in Nat : x = a * MAX_SG_POOL_ENTRIES
    BY <1>1
  <2>3. PICK y \in Nat : y = d * MAX_SG_POOL_ENTRIES
    BY <1>1
  <2>4. MaxLists * MAX_SG_POOL_ENTRIES = x + y
    BY <1>1, <2>1, <2>2, <2>3
  <2>5. QED
    BY <2>2, <2>3, <2>4
<1>4. ASSUME NEW a \in Nat, NEW e \in Nat, a <= MaxLists,
             MaxLists * e <= a * MAX_SG_POOL_ENTRIES
      PROVE  e <= MAX_SG_POOL_ENTRIES
  <2>1. PICK x \in Nat : x = MaxLists * e
    BY <1>1
  <2>2. PICK y \in Nat : y = a * MAX_SG_POOL_ENTRIES
    BY <1>1
  <2>3. PICK z \in Nat : z = MaxLists * MAX_SG_POOL_ENTRIES
    BY <1>1
  <2>4. x <= z
    BY <1>3, <1>4, <2>1, <2>2, <2>3
  <2>5. MaxLists * e <= MaxLists * MAX_SG_POOL_ENTRIES
    BY <2>1, <2>3, <2>4
  <2>6. QED
    BY <1>1, <2>5, FactorLeq
<1>5. ASSUME NEW n \in Counts, list_alloc_idx < MaxLists
      PROVE  MaxLists * (entry_alloc_idx + n) <= (list_alloc_idx + 1) * MAX_SG_POOL_ENTRIES
  <2>1. n \in Nat \ {0} /\ MaxLists * n <= MAX_SG_POOL_ENTRIES
    BY <1>1 DEF ListsFitPool
  <2>2. PICK x \in Nat : x = MaxLists * entry_alloc_idx
    BY <1>1
  <2>3. PICK y \in Nat : y = MaxLists * n
    BY <1>1, <2>1
  <2>4. PICK z \in Nat : z = list_alloc_idx * MAX_SG_POOL_ENTRIES
    BY <1>1
  <2>5. MaxLists * (entry_alloc_idx + n) = x + y
    BY <1>1, <2>1, <2>2, <2>3
  <2>6. (list_alloc_idx + 1) * MAX_SG_POOL_ENTRIES = z + MAX_SG_POOL_ENTRIES
    BY <1>1, <2>4
  <2>7. QED
    BY <1>1, <1>2, <2>1, <2>2, <2>3, <2>4, <2>5, <2>6
<1>6. ASSUME NEW n \in Counts, list_alloc_idx < MaxLists
      PROVE  entry_alloc_idx + n <= MAX_SG_POOL_ENTRIES
  <2>1. entry_alloc_idx + n \in Nat /\ list_alloc_idx + 1 \in Nat /\ list_alloc_idx + 1 <= MaxLists
    BY <1>1, <1>6
  <2>2. QED
    BY <1>4, <1>5, <1>6, <2>1
<1>7. QED
  BY <1>1, <1>2, <1>4, <1>5, <1>6

\* A list that fits behind the others leaves them in place.
LEMMA SubmitPool ==
  ASSUME ListsFitPool, QueueInv, PoolInv, NEW n \in Counts, HostSubmit(n)
  PROVE  /\ list_alloc_idx \in ListIds /\ list_alloc_idx' = list_alloc_idx + 1
         /\ entry_alloc_idx' = entry_alloc_idx + n
         /\ lists'[list_alloc_idx].pool_offset = entry_alloc_idx
         /\ lists'[list_alloc_idx].count = n
         /\ \A l \in ListIds : l < list_alloc_idx => lists'[l] = lists[l]
         /\ \A i \in 0..(n - 1) : pool'[entry_alloc_idx + i] = <<list_alloc_idx, i>>
         /\ \A e \in Pool : e < entry_alloc_idx => pool'[e] = pool[e]
<1>1. /\ list_alloc_idx \in Nat /\ list_alloc_idx < MaxLists /\ list_alloc_idx \in ListIds
      /\ entry_alloc_idx \in Nat
  BY ListSlots DEF HostSubmit, QueueInv, QueueTypes, ListIds
<1>2. n \in Nat \ {0} /\ entry_alloc_idx + n <= MAX_SG_POOL_ENTRIES
  BY <1>1, PoolRoom
<1>3. MAX_SG_POOL_ENTRIES \in Nat \ {0}
  BY ListSlots
<1>4. \A i \in 0..(n - 1) : /\ PoolSlot(entry_alloc_idx, i) = entry_alloc_idx + i
                            /\ entry_alloc_idx + i \in Pool
  <2> TAKE i \in 0..(n - 1)
  <2>1. entry_alloc_idx + i \in Nat /\ entry_alloc_idx + i < MAX_SG_POOL_ENTRIES
    BY <1>1, <1>2, <1>3
  <2>2. QED
    BY <2>1, <1>3, PoolOffset DEF PoolSlot, Pool
<1>5. pool' = [e \in Pool |->
                 IF \E i \in 0..(n - 1) : PoolSlot(entry_alloc_idx, i) = e
                   THEN <<list_alloc_idx,
                          CHOOSE i \in 0..(n - 1) : PoolSlot(entry_alloc_idx, i) = e>>
                   ELSE pool[e]]
  BY DEF HostSubmit, Written
<1>6. ASSUME NEW i \in 0..(n - 1) PROVE pool'[entry_alloc_idx + i] = <<list_alloc_idx, i>>
  <2> DEFINE P(j) == PoolSlot(entry_alloc_idx, j) = entry_alloc_idx + i
             c == CHOOSE j \in 0..(n - 1) : P(j)
  <2>1. P(i) /\ entry_alloc_idx + i \in Pool
    BY <1>4
  <2>2. \A j \in 0..(n - 1) : P(j) => j = i
    BY <1>1, <1>2, <1>4
  <2>3. c \in 0..(n - 1) /\ P(c)
    BY <2>1
  <2>4. c = i
    BY <2>2, <2>3
  <2>5. pool'[entry_alloc_idx + i] = <<list_alloc_idx, c>>
    BY <1>5, <2>1
  <2>6. QED
    BY <2>4, <2>5
<1>7. ASSUME NEW e \in Pool, e < entry_alloc_idx PROVE pool'[e] = pool[e]
  <2>1. ~(\E i \in 0..(n - 1) : PoolSlot(entry_alloc_idx, i) = e)
    BY <1>1, <1>2, <1>4, <1>7 DEF Pool
  <2>2. QED
    BY <1>5, <2>1
<1>8. /\ lists' = [lists EXCEPT ![list_alloc_idx] = Header(entry_alloc_idx, n, list_alloc_idx)]
      /\ list_alloc_idx \in Ring /\ lists \in [Ring -> Headers] /\ ListIds \subseteq Ring
  BY <1>1, ListSlots DEF HostSubmit, QueueInv, QueueTypes
<1>9. lists'[list_alloc_idx] = Header(entry_alloc_idx, n, list_alloc_idx)
  BY <1>8
<1>10. lists'[list_alloc_idx].pool_offset = entry_alloc_idx /\ lists'[list_alloc_idx].count = n
  <2>1. entry_alloc_idx % MAX_SG_POOL_ENTRIES = entry_alloc_idx
    BY <1>1, <1>2, <1>3, PoolOffset
  <2>2. QED
    BY <1>1, <1>9, <2>1, HeaderType
<1>11. \A l \in ListIds : l < list_alloc_idx => lists'[l] = lists[l]
  <2> TAKE l \in ListIds
  <2>1. l \in Ring /\ (l < list_alloc_idx => l # list_alloc_idx)
    BY <1>1, <1>8 DEF ListIds
  <2>2. QED
    BY <1>8, <2>1
<1>12. QED
  BY <1>1, <1>6, <1>7, <1>10, <1>11 DEF HostSubmit, PoolTaken
\* Steps that submit nothing leave the lists and the pool alone.
LEMMA PoolFrame ==
  ASSUME [Next]_vars, ~Reset, ~(\E n \in Counts : HostSubmit(n))
  PROVE  UNCHANGED <<lists, pool, list_alloc_idx, entry_alloc_idx>>
<1>1. CASE \E b \in Blocks : TransferWarp(b) \/ ComputeWarp(b)
  BY <1>1 DEF TransferWarp, ClaimList, ReadList, NotCommitted, CheckTerminate,
     WriteDescriptors, CommitSlot, ClearList, WaitListDone, WaitCompute,
     ComputeWarp, StartCompute, FinishCompute, ClearReady
<1>2. CASE Poller
  BY <1>2, PollerFrame
<1>3. CASE SignalCompletes \/ (\E c \in ChanIds : CopyCompletes(c))
  BY <1>3 DEF SignalCompletes, CopyCompletes
<1>4. CASE Session
  BY <1>4 DEF Session, Launch, StartSync, Terminate, DeviceSynchronize, StopPoller
<1>5. CASE UNCHANGED vars
  BY <1>5 DEF vars
<1>6. QED
  BY <1>1, <1>2, <1>3, <1>4, <1>5 DEF Next, Running

\* The entries of a list there is lie in the pool.
LEMMA ListInPool ==
  ASSUME ListsFitPool, QueueInv, PoolInv, NEW l \in ListIds, l < list_alloc_idx
  PROVE  /\ lists[l].pool_offset \in Nat /\ lists[l].count \in Nat \ {0}
         /\ \A i \in 0..(lists[l].count - 1) :
              /\ lists[l].pool_offset + i \in Pool
              /\ lists[l].pool_offset + i < entry_alloc_idx
              /\ PoolSlot(lists[l].pool_offset, i) = lists[l].pool_offset + i
<1>1. lists[l] \in Headers /\ lists[l].count \in Counts
  BY ListSlots DEF QueueInv, QueueTypes, HeadersInv
<1>2. lists[l].pool_offset \in Nat
  <2>1. lists[l].pool_offset \in 0..(MaxLists * MAX_SG_POOL_ENTRIES)
    BY <1>1 DEF Headers
  <2>2. QED
    BY <2>1
<1>3. lists[l].count \in Nat \ {0}
  BY <1>1, SGAssumption
<1>4. lists[l].pool_offset + lists[l].count <= entry_alloc_idx
  BY DEF PoolInv
<1>5. /\ entry_alloc_idx \in Nat /\ entry_alloc_idx <= MAX_SG_POOL_ENTRIES
      /\ MAX_SG_POOL_ENTRIES \in Nat \ {0}
  BY PoolRoom, ListSlots
<1>6. ASSUME NEW i \in 0..(lists[l].count - 1)
      PROVE  /\ lists[l].pool_offset + i \in Pool
             /\ lists[l].pool_offset + i < entry_alloc_idx
             /\ PoolSlot(lists[l].pool_offset, i) = lists[l].pool_offset + i
  <2>1. /\ lists[l].pool_offset + i \in Nat
        /\ lists[l].pool_offset + i < entry_alloc_idx
        /\ lists[l].pool_offset + i < MAX_SG_POOL_ENTRIES
    BY <1>2, <1>3, <1>4, <1>5
  <2>2. QED
    BY <2>1, <1>5, PoolOffset DEF PoolSlot, Pool
<1>7. QED
  BY <1>2, <1>3, <1>6

\* Every step keeps the lists in the pool where their headers say.
LEMMA PoolStep ==
  ASSUME ListsFitPool, QueueInv, PoolInv, [Next]_vars
  PROVE  PoolInv'
<1>1. CASE Reset
  <2>1. list_alloc_idx' = 0 /\ entry_alloc_idx' = 0
    BY <1>1 DEF Reset
  <2>2. 0 \in Nat /\ 0 = 0 * MAX_SG_POOL_ENTRIES /\ MaxLists * 0 <= 0
    BY ListSlots
  <2>3. \A l \in ListIds : ~(l < 0)
    BY SGAssumption DEF ListIds
  <2>4. QED
    BY <2>1, <2>2, <2>3 DEF PoolInv
<1>2. CASE \E n \in Counts : HostSubmit(n)
  <2>1. PICK n \in Counts : HostSubmit(n)
    BY <1>2
  <2>2. /\ list_alloc_idx \in ListIds /\ list_alloc_idx' = list_alloc_idx + 1
        /\ entry_alloc_idx' = entry_alloc_idx + n
        /\ lists'[list_alloc_idx].pool_offset = entry_alloc_idx
        /\ lists'[list_alloc_idx].count = n
        /\ \A l \in ListIds : l < list_alloc_idx => lists'[l] = lists[l]
        /\ \A i \in 0..(n - 1) : pool'[entry_alloc_idx + i] = <<list_alloc_idx, i>>
        /\ \A e \in Pool : e < entry_alloc_idx => pool'[e] = pool[e]
    BY <2>1, SubmitPool
  <2>3. /\ list_alloc_idx \in Nat /\ list_alloc_idx < MaxLists /\ entry_alloc_idx \in Nat
    BY <2>1 DEF HostSubmit, QueueInv, QueueTypes
  <2>4. /\ n \in Nat \ {0}
        /\ MaxLists * (entry_alloc_idx + n) <= (list_alloc_idx + 1) * MAX_SG_POOL_ENTRIES
    BY <2>3, PoolRoom
  <2>5. \E p \in Nat : /\ p = list_alloc_idx' * MAX_SG_POOL_ENTRIES
                       /\ MaxLists * entry_alloc_idx' <= p
    <3>1. (list_alloc_idx + 1) * MAX_SG_POOL_ENTRIES \in Nat
      BY <2>3, ListSlots
    <3>2. QED
      BY <2>2, <2>4, <3>1
  <2>6. ASSUME NEW l \in ListIds, l < list_alloc_idx'
        PROVE  /\ lists'[l].pool_offset + lists'[l].count <= entry_alloc_idx'
               /\ \A i \in 0..(lists'[l].count - 1) :
                    pool'[lists'[l].pool_offset + i] = <<l, i>>
    <3>1. CASE l = list_alloc_idx
      BY <2>2, <2>3, <2>4, <3>1
    <3>2. CASE l # list_alloc_idx
      <4>1. l < list_alloc_idx
        BY <2>2, <2>3, <2>6, <3>2 DEF ListIds
      <4>2. lists'[l] = lists[l]
        BY <2>2, <4>1
      <4>3. lists[l].pool_offset \in Nat /\ lists[l].count \in Nat
        BY <4>1, ListInPool
      <4>4. /\ lists[l].pool_offset + lists[l].count <= entry_alloc_idx
            /\ \A i \in 0..(lists[l].count - 1) : pool[lists[l].pool_offset + i] = <<l, i>>
        BY <4>1 DEF PoolInv
      <4>5. \A i \in 0..(lists[l].count - 1) :
              pool'[lists[l].pool_offset + i] = pool[lists[l].pool_offset + i]
        BY <2>2, <4>1, ListInPool
      <4>6. QED
        BY <2>2, <2>3, <2>4, <4>2, <4>3, <4>4, <4>5
    <3>3. QED
      BY <3>1, <3>2
  <2>7. QED
    BY <2>5, <2>6 DEF PoolInv
<1>3. CASE ~Reset /\ ~(\E n \in Counts : HostSubmit(n))
  BY <1>3, PoolFrame DEF PoolInv
<1>4. QED
  BY <1>1, <1>2, <1>3

\* Lists that fit into the pool stay as they were submitted (PoolInv).
LEMMA PoolHolds ==
  ASSUME ListsFitPool
  PROVE  Spec => []PoolInv
<1>1. Init => PoolInv
  <2> SUFFICES ASSUME Init PROVE PoolInv
    OBVIOUS
  <2>1. list_alloc_idx = 0 /\ entry_alloc_idx = 0
    BY DEF Init
  <2>2. 0 \in Nat /\ 0 = 0 * MAX_SG_POOL_ENTRIES /\ MaxLists * 0 <= 0
    BY ListSlots
  <2>3. \A l \in ListIds : ~(l < 0)
    BY SGAssumption DEF ListIds
  <2>4. QED
    BY <2>1, <2>2, <2>3 DEF PoolInv
<1>2. QueueInv /\ PoolInv /\ [Next]_vars => PoolInv'
  BY PoolStep
<1>3. QED
  BY <1>1, <1>2, QueueHolds, PTL DEF Spec
\* The conversion copies the list's entries in order.
LEMMA WrittenContent ==
  ASSUME ListsFitPool, QueueInv, DescInv, PoolInv, NEW b \in Blocks, WriteDescriptors(b)
  PROVE  /\ list_idx[b] \in ListIds /\ lists[list_idx[b]].count = state[b].count
         /\ \A i \in 1..state[b].count :
              entries'[Len(entries) + i].entry = <<list_idx[b], i - 1>>
<1>1. pc[b] = "acquire"
  BY DEF WriteDescriptors
<1>2. /\ list_idx[b] \in ListIds /\ list_idx[b] < list_alloc_idx
      /\ state[b] = lists[list_idx[b]] /\ state[b].count \in Nat \ {0}
  BY <1>1, ListInHand DEF HasList
<1>3. ASSUME NEW i \in 1..state[b].count
      PROVE  entries'[Len(entries) + i].entry = <<list_idx[b], i - 1>>
  <2>1. i - 1 \in 0..(lists[list_idx[b]].count - 1)
    BY <1>2
  <2>2. entries'[Len(entries) + i].entry = pool[PoolSlot(state[b].pool_offset, i - 1)]
    BY WriteFacts DEF DescInv
  <2>3. PoolSlot(state[b].pool_offset, i - 1) = lists[list_idx[b]].pool_offset + (i - 1)
    BY <1>2, <2>1, ListInPool
  <2>4. pool[lists[list_idx[b]].pool_offset + (i - 1)] = <<list_idx[b], i - 1>>
    BY <1>2, <2>1 DEF PoolInv
  <2>5. QED
    BY <2>2, <2>3, <2>4
<1>4. QED
  BY <1>2, <1>3

\* A conversion keeps what the descriptors carry.
LEMMA ContentWrite ==
  ASSUME ListsFitPool, QueueInv, DescInv, PoolInv, ContentInv,
         NEW b \in Blocks, WriteDescriptors(b)
  PROVE  ContentInv'
<1> DEFINE L == Len(entries)
           c == state[b].count
           x == list_idx[b]
<1>1. /\ L \in Nat /\ c \in Nat \ {0} /\ Len(entries') = L + c
      /\ \A n \in 1..L : entries'[n] = entries[n]
      /\ \A i \in 1..c : /\ entries'[L + i].list_id = x
                         /\ entries'[L + i].last = (i = c)
  BY WriteFacts DEF DescInv
<1>2. /\ x \in ListIds /\ lists[x].count = c
      /\ \A i \in 1..c : entries'[L + i].entry = <<x, i - 1>>
  BY WrittenContent
<1>3. lists' = lists
  BY DEF WriteDescriptors
<1>4. L > 0 => entries[L].last
  <2> SUFFICES ASSUME L > 0 PROVE entries[L].last
    OBVIOUS
  <2>1. L \in 1..Len(entries)
    BY <1>1
  <2>2. PICK e \in L..Len(entries) : entries[e].last
    BY <2>1 DEF DescInv, ListsConsecutive
  <2>3. e = L
    BY <1>1, <2>2
  <2>4. QED
    BY <2>2, <2>3
<1>5. \A l : Described(l)' <=> (Described(l) \/ l = x)
  BY DescribedAfter
<1> HIDE DEF L, c, x
<1>6. ASSUME NEW n \in 1..(L + c)
      PROVE  /\ entries'[n].entry[1] = entries'[n].list_id
             /\ n > 1 /\ ~entries'[n - 1].last =>
                  entries'[n].entry[2] = entries'[n - 1].entry[2] + 1
  <2>1. CASE n \in 1..L
    <3>1. n > 1 => n - 1 \in 1..L
      BY <1>1, <2>1
    <3>2. entries'[n] = entries[n] /\ (n > 1 => entries'[n - 1] = entries[n - 1])
      BY <1>1, <2>1, <3>1
    <3>3. QED
      BY <2>1, <3>2 DEF ContentInv, L
  <2>2. CASE n \notin 1..L
    <3>1. PICK i \in 1..c : n = L + i
      <4>1. n - L \in 1..c /\ n = L + (n - L)
        BY <1>1, <1>6, <2>2
      <4>2. QED
        BY <4>1
    <3>2. entries'[n].entry = <<x, i - 1>> /\ entries'[n].list_id = x
      BY <1>1, <1>2, <3>1
    <3>3. CASE i = 1
      <4>1. n > 1 => L > 0 /\ n - 1 = L /\ L \in 1..L
        BY <1>1, <3>1, <3>3
      <4>2. n > 1 => entries'[n - 1].last
        BY <1>1, <1>4, <4>1
      <4>3. QED
        BY <3>2, <4>2
    <3>4. CASE i # 1
      <4>1. i - 1 \in 1..c /\ n - 1 = L + (i - 1)
        BY <1>1, <3>1, <3>4
      <4>2. entries'[n - 1].entry = <<x, (i - 1) - 1>>
        BY <1>2, <4>1
      <4>3. entries'[n].entry[2] = i - 1 /\ entries'[n - 1].entry[2] = (i - 1) - 1
        BY <3>2, <4>2
      <4>4. QED
        BY <3>2, <4>3
    <3>5. QED
      BY <3>3, <3>4
  <2>3. QED
    BY <2>1, <2>2
<1>7. ASSUME NEW l \in ListIds, Described(l)', NEW i \in 0..(lists[l].count - 1)
      PROVE  \E n \in 1..(L + c) : entries'[n].list_id = l /\ entries'[n].entry = <<l, i>>
  <2>1. CASE l = x
    <3>1. i + 1 \in 1..c /\ L + (i + 1) \in 1..(L + c) /\ (i + 1) - 1 = i
      BY <1>1, <1>2, <1>7, <2>1
    <3>2. QED
      BY <1>1, <1>2, <2>1, <3>1
  <2>2. CASE l # x
    <3>1. Described(l)
      BY <1>5, <1>7, <2>2
    <3>2. PICK n \in 1..L : entries[n].list_id = l /\ entries[n].entry = <<l, i>>
      BY <1>7, <3>1 DEF ContentInv, L
    <3>3. n \in 1..(L + c) /\ entries'[n] = entries[n]
      BY <1>1, <3>2
    <3>4. QED
      BY <3>2, <3>3
  <2>3. QED
    BY <2>1, <2>2
<1>8. Len(entries') = L + c
  BY <1>1
<1>9. \A n \in 1..Len(entries') :
        /\ entries'[n].entry[1] = entries'[n].list_id
        /\ n > 1 /\ ~entries'[n - 1].last =>
             entries'[n].entry[2] = entries'[n - 1].entry[2] + 1
  BY <1>6, <1>8
<1>10. \A l \in ListIds : Described(l)' =>
         \A i \in 0..(lists'[l].count - 1) : \E n \in 1..Len(entries') :
           entries'[n].list_id = l /\ entries'[n].entry = <<l, i>>
  BY <1>3, <1>7, <1>8, Zenon
<1>11. QED
  BY <1>9, <1>10, Zenon DEF ContentInv

\* Every step keeps what the descriptors carry.
LEMMA ContentStep ==
  ASSUME ListsFitPool, QueueInv, DescInv, PoolInv, ContentInv, [Next]_vars
  PROVE  ContentInv'
<1>1. CASE Launch \/ Reset
  <2>1. entries' = <<>>
    BY <1>1 DEF Launch, Reset
  <2>2. Len(entries') = 0
    BY <2>1, EmptySeq
  <2>3. QED
    BY <2>2 DEF ContentInv, Described
<1>2. CASE \E b \in Blocks : WriteDescriptors(b)
  BY <1>2, ContentWrite
<1>3. CASE ~Launch /\ ~Reset /\ ~(\E b \in Blocks : WriteDescriptors(b))
  <2>1. entries' = entries
    BY <1>3, EntriesFrame
  <2>2. ASSUME NEW l \in ListIds, Described(l) PROVE lists'[l] = lists[l]
    <3>1. l < list_alloc_idx
      BY <2>2 DEF Described, DescInv, ListsOwned
    <3>2. CASE \E n \in Counts : HostSubmit(n)
      BY <3>1, <3>2, SubmitPool
    <3>3. CASE ~(\E n \in Counts : HostSubmit(n))
      BY <1>3, <3>3, PoolFrame
    <3>4. QED
      BY <3>2, <3>3
  <2>3. QED
    BY <2>1, <2>2 DEF ContentInv, Described
<1>4. QED
  BY <1>1, <1>2, <1>3

\* Descriptors carry the entries of their lists, all of them (ContentInv).
LEMMA ContentHolds ==
  ASSUME ListsFitPool
  PROVE  Spec => []ContentInv
<1>1. Init => ContentInv
  <2> SUFFICES ASSUME Init PROVE ContentInv
    OBVIOUS
  <2>1. Len(entries) = 0
    BY EmptySeq DEF Init
  <2>2. QED
    BY <2>1 DEF ContentInv, Described
<1>2. QueueInv /\ DescInv /\ PoolInv /\ ContentInv /\ [Next]_vars => ContentInv'
  BY ContentStep
<1>3. QED
  BY <1>1, <1>2, QueueHolds, DescHolds, PoolHolds, PTL DEF Spec
-----------------------------------------------------------------------------
(* The theorems *)

\* The types follow from what each part keeps.
LEMMA TypesFollow ==
  QueueInv /\ HandInv /\ DescInv /\ BatchInv /\ CountInv /\ ChanInv => TypeOK
<1> SUFFICES ASSUME QueueInv, HandInv, DescInv, BatchInv, CountInv, ChanInv PROVE TypeOK
  OBVIOUS
<1>1. list_read_idx \in 0..(MaxLists + since_reset * Cardinality(grid))
  <2>1. /\ MaxLists \in Nat /\ since_reset \in Nat /\ list_read_idx \in Nat
        /\ grid \in SUBSET Blocks /\ Idle \subseteq grid
    BY ListSlots DEF QueueInv, QueueTypes, Idle
  <2>2. IsFiniteSet(grid) /\ Cardinality(grid) \in Nat /\ Cardinality(Idle) \in Nat
    BY <2>1, GridFinite
  <2>3. Cardinality(Idle) <= Cardinality(grid)
    BY <2>1, <2>2, FS_Subset
  <2>4. CASE since_reset = 0
    <3>1. list_read_idx = 0 /\ since_reset * Cardinality(grid) = 0
      BY <2>2, <2>4 DEF QueueInv, ClaimsBounded
    <3>2. QED
      BY <2>1, <3>1
  <2>5. CASE since_reset # 0
    <3>1. PICK y \in Nat : y = (since_reset - 1) * Cardinality(grid)
      <4>1. since_reset - 1 \in Nat
        BY <2>1, <2>5
      <4>2. QED
        BY <2>2, <4>1
    <3>2. list_read_idx <= MaxLists + y + Cardinality(Idle)
      BY <2>5, <3>1 DEF QueueInv, ClaimsBounded
    <3>3. since_reset * Cardinality(grid) = y + Cardinality(grid)
      BY <2>1, <2>2, <2>5, <3>1
    <3>4. QED
      BY <2>1, <2>2, <2>3, <3>2, <3>3
  <2>6. QED
    BY <2>4, <2>5
<1>2. lists_completed \in 0..MaxLists
  <2>1. MaxLists \in Nat \ {0}
    BY ListSlots
  <2>2. 0 \in Int /\ MaxLists - 1 \in Int
    BY <2>1
  <2>3. IsFiniteSet(ListIds) /\ Cardinality(ListIds) = IF 0 > MaxLists - 1 THEN 0
                                                        ELSE MaxLists - 1 - 0 + 1
    BY <2>2, FS_Interval, Zenon DEF ListIds
  <2>4. Finished \subseteq ListIds
    BY DEF Finished
  <2>5. Cardinality(Finished) <= Cardinality(ListIds) /\ Cardinality(Finished) \in Nat
    BY <2>3, <2>4, FS_Subset, ListsFinite
  <2>6. QED
    BY <2>1, <2>3, <2>5 DEF CountInv
<1>3. /\ config \in Sessions /\ grid \subseteq Blocks
      /\ lists \in [Ring -> Headers] /\ sequence \in [Ring -> 0..MaxLists]
      /\ pc \in [Blocks -> PlaceSet] /\ warp \in [Blocks -> WarpSet]
      /\ state \in [Blocks -> Headers] /\ host \in HostSet
  BY DEF QueueInv, QueueTypes
<1>4. view \in [Blocks -> Headers]
  BY DEF HandInv, HandTypes
<1>5. read_idx \in 0..Len(entries) /\ poll_pc \in {"poll", "flush", "signal", "idle"}
  BY DEF BatchInv
<1>6. list_done \in [ListIds -> BOOLEAN] /\ dirty \subseteq ChanIds
  BY DEF ChanInv
<1>7. QED
  BY <1>1, <1>2, <1>3, <1>4, <1>5, <1>6 DEF TypeOK, PlaceSet, WarpSet, HostSet

\* Every variable keeps its type: among others, lists_completed never exceeds the
\* lists there may be, and of the indices that claims take beyond the lists there
\* are at most one for each block and launch.
THEOREM SGTypesCorrect == Spec => []TypeOK
<1>1. QED
  BY QueueHolds, HandHolds, DescHolds, BatchHolds, CountHolds, ChanHolds, TypesFollow, PTL

\* The entries of a list are those its descriptors carry.
LEMMA ListCarried ==
  ASSUME QueueInv, ContentInv, NEW l \in ListIds, l < list_alloc_idx, Described(l),
         NEW x \in EntriesOf(lists[l])
  PROVE  \E n \in 1..Len(entries) : entries[n].list_id = l /\ entries[n].entry = x
<1>1. lists[l].list_id = l
  BY DEF QueueInv, HeadersInv
<1>2. PICK i \in 0..(lists[l].count - 1) : x = <<l, i>>
  BY <1>1 DEF EntriesOf, Entries
<1>3. QED
  BY <1>2 DEF ContentInv

\* A list that is finished has been submitted as a whole.
LEMMA FinishedSent ==
  ASSUME DescInv, BatchInv, SentInv, NEW l \in Finished
  PROVE  /\ l \in ListIds /\ Described(l)
         /\ \A n \in 1..Len(entries) : entries[n].list_id = l => Handed(entries[n].entry)
<1>1. PICK m \in 1..Flushed : entries[m].last /\ entries[m].list_id = l
  BY DEF Finished
<1>2. /\ Flushed \in Nat /\ Sent \in Nat /\ Flushed <= Sent /\ Sent <= Len(entries)
      /\ Len(entries) \in Nat
  BY FlushedRange, SentRange
<1>3. m \in 1..Len(entries) /\ l \in ListIds
  BY <1>2 DEF Finished
<1>4. \A n \in 1..Len(entries) : entries[n].list_id = l => n <= m
  BY <1>1, <1>3, EndIsLast
<1>5. \A n \in 1..Len(entries) : entries[n].list_id = l => n <= Sent
  BY <1>2, <1>4
<1>6. QED
  BY <1>1, <1>3, <1>5 DEF SentInv, Described

\* What the compute warp looks at is what its block was told of.
LEMMA AvailableFollows ==
  QueueInv /\ HandInv /\ DescInv /\ ToldInv /\ ContentInv => ListDataAvailable
<1> SUFFICES ASSUME QueueInv, HandInv, DescInv, ToldInv, ContentInv,
                    config.path = "coarse" => config.blocks = 1,
                    NEW b \in Blocks, warp[b] = "compute",
                    NEW x \in EntriesOf(view[b])
             PROVE  x \in landed
  BY DEF ListDataAvailable
<1>1. pc[b] = "wait_compute" /\ view[b] = state[b]
  BY DEF HandInv, HandOver
<1>2. /\ list_idx[b] \in ListIds /\ list_idx[b] < list_alloc_idx
      /\ state[b] = lists[list_idx[b]]
  BY <1>1, ListInHand DEF HasList
<1>3. Described(list_idx[b])
  BY <1>1 DEF DescInv, ListsOwned, HasClaim, HasSlots
<1>4. PICK n \in 1..Len(entries) : entries[n].list_id = list_idx[b] /\ entries[n].entry = x
  <2>1. PICK l \in ListIds : l = list_idx[b]
    BY <1>2
  <2>2. l < list_alloc_idx /\ Described(l) /\ x \in EntriesOf(lists[l])
    BY <1>1, <1>2, <1>3, <2>1
  <2>3. QED
    BY <2>1, <2>2, ListCarried
<1>5. ListLanded(list_idx[b])
  BY <1>1 DEF ToldInv
<1>6. QED
  BY <1>4, <1>5 DEF ListLanded

\* For all lists that fit into the pool: while compute_fn runs on a list each of its
\* entries is on the GPU, however the list was split into batches and over channels
\* (without d_list_done: for a single block).
THEOREM ListDataAlwaysAvailable ==
  ASSUME ListsFitPool
  PROVE  Spec => []ListDataAvailable
<1>1. QED
  BY QueueHolds, HandHolds, DescHolds, ToldHolds, ContentHolds, AvailableFollows, PTL

\* It is half of what the descriptors carry.
LEMMA IntactFollows == ContentInv => EntriesIntact
BY DEF ContentInv, EntriesIntact

\* For all lists that fit into the pool: each descriptor carries the entry of its
\* list that it stands for, in order.
THEOREM EntriesStayIntact ==
  ASSUME ListsFitPool
  PROVE  Spec => []EntriesIntact
<1>1. QED
  BY ContentHolds, IntactFollows, PTL

\* What was handed over is in Submitted.
LEMMA HandedSubmitted ==
  ASSUME NEW x, Handed(x)
  PROVE  x \in Submitted
<1>1. CASE x \in landed
  BY <1>1 DEF Submitted
<1>2. CASE x \notin landed
  <2>1. PICK c \in ChanIds : \E k \in 1..Len(chan[c]) : x \in chan[c][k]
    BY <1>2 DEF Handed
  <2>2. x \in UNION {chan[c][k] : k \in 1..Len(chan[c])}
    BY <2>1
  <2>3. QED
    BY <2>1, <2>2 DEF Submitted
<1>3. QED
  BY <1>1, <1>2

\* The count is bounded by the finished lists, and those are submitted.
LEMMA CompletedFollows ==
  QueueInv /\ DescInv /\ BatchInv /\ CountInv /\ FlightInv /\ ContentInv
    => CompletedListsSubmitted
<1> SUFFICES ASSUME QueueInv, DescInv, BatchInv, CountInv, FlightInv, ContentInv
             PROVE  CompletedListsSubmitted
  OBVIOUS
<1> DEFINE S == {l \in 0..(list_alloc_idx - 1) :
                   EntriesOf(lists[l % MAX_SG_LISTS]) \subseteq Submitted}
<1>1. list_alloc_idx \in Nat /\ list_alloc_idx <= MaxLists /\ MaxLists \in Nat
  BY ListSlots DEF QueueInv, QueueTypes
<1>2. ASSUME NEW l \in Finished PROVE l \in S
  <2>1. /\ l \in ListIds /\ Described(l)
        /\ \A n \in 1..Len(entries) : entries[n].list_id = l => Handed(entries[n].entry)
    BY FinishedSent DEF FlightInv
  <2>2. l < list_alloc_idx /\ l \in Nat
    BY <1>1, <2>1 DEF Described, DescInv, ListsOwned, ListIds
  <2>3. ASSUME NEW x \in EntriesOf(lists[l]) PROVE x \in Submitted
    <3>1. PICK n \in 1..Len(entries) : entries[n].list_id = l /\ entries[n].entry = x
      BY <2>1, <2>2, <2>3, ListCarried
    <3>2. QED
      BY <2>1, <3>1, HandedSubmitted
  <2>4. l % MAX_SG_LISTS = l
    BY <2>1, ListSlots
  <2>5. QED
    BY <1>1, <2>2, <2>3, <2>4
<1>3. S \in SUBSET ListIds
  BY <1>1 DEF ListIds
<1>4. Finished \in SUBSET ListIds
  BY DEF Finished
<1>5. IsFiniteSet(S) /\ Cardinality(S) \in Nat /\ Cardinality(Finished) \in Nat
  BY <1>3, <1>4, ListsFinite
<1>6. Cardinality(Finished) <= Cardinality(S)
  <2>1. Finished \subseteq S
    BY <1>2
  <2>2. QED
    BY <1>5, <2>1, FS_Subset
<1> HIDE DEF S
<1>7. lists_completed <= Cardinality(S)
  BY <1>5, <1>6 DEF CountInv
<1>8. QED
  BY <1>7 DEF CompletedListsSubmitted, S

\* For all lists that fit into the pool: lists_completed, which synchronize waits
\* for, counts no list before the whole of it is submitted, and none twice.
THEOREM CompletedAreSubmitted ==
  ASSUME ListsFitPool
  PROVE  Spec => []CompletedListsSubmitted
<1>1. QED
  BY QueueHolds, DescHolds, BatchHolds, CountHolds, FlightHolds, ContentHolds,
     CompletedFollows, PTL

\* What the session has waited for is computed and on the GPU.
LEMMA DoneFollows ==
  QueueInv /\ HandInv /\ DescInv /\ ListsKept /\ BatchInv /\ SessionInv /\ FlightInv
    /\ ContentInv => SynchronizeMeansDone
<1> SUFFICES ASSUME QueueInv, HandInv, DescInv, ListsKept, BatchInv, SessionInv, FlightInv,
                    ContentInv
             PROVE  SynchronizeMeansDone
  OBVIOUS
<1>1. \A l \in ListIds : computed[l] <= 1
  BY DEF HandInv, ComputedInv
<1>2. ASSUME host = "stopping" PROVE read_idx = Len(entries) /\ batch = <<>>
  <2>1. read_idx = Len(entries) /\ Len(batch) = 0
    BY <1>2, AllFlushed DEF SessionInv, SyncInv
  <2>2. batch \in Seq(Desc)
    BY DEF BatchInv
  <2>3. QED
    BY <2>1, <2>2, EmptySeq
<1>3. ASSUME host = "stopped", NEW l \in 0..(expected - 1)
      PROVE  computed[l] = 1 /\ EntriesOf(lists[l % MAX_SG_LISTS]) \subseteq landed
  <2>1. /\ expected \in Nat /\ expected <= list_alloc_idx
        /\ list_alloc_idx \in Nat /\ list_alloc_idx <= MaxLists /\ MaxLists \in Nat
    BY <1>3, ListSlots DEF SessionInv, SyncInv, QueueInv, QueueTypes
  <2>2. l \in ListIds /\ l < expected /\ l < list_alloc_idx
    BY <1>3, <2>1 DEF ListIds
  <2>3. l \in Finished
    BY <1>3, <2>2 DEF SessionInv, SyncInv
  <2>4. /\ Described(l)
        /\ \A n \in 1..Len(entries) : entries[n].list_id = l => Handed(entries[n].entry)
    BY <2>3, FinishedSent DEF FlightInv
  <2>5. computed[l] = 1
    <3>1. \A b \in Blocks : pc[b] = "exit"
      BY <1>3 DEF QueueInv, KernelInv
    <3>2. QED
      BY <2>2, <2>4, <3>1 DEF ListsKept, HasSlots
  <2>6. \A c \in ChanIds : chan[c] = <<>>
    BY <1>3 DEF SessionInv, QuietInv
  <2>7. ASSUME NEW x \in EntriesOf(lists[l]) PROVE x \in landed
    <3>1. PICK n \in 1..Len(entries) : entries[n].list_id = l /\ entries[n].entry = x
      BY <2>2, <2>4, <2>7, ListCarried
    <3>2. QED
      BY <2>4, <2>6, <3>1, EmptyLanded
  <2>8. l % MAX_SG_LISTS = l
    BY <2>2, ListSlots
  <2>9. QED
    BY <2>5, <2>7, <2>8
<1>4. QED
  BY <1>1, <1>2, <1>3 DEF SynchronizeMeansDone

\* For all lists that fit into the pool: no list is computed twice; when synchronize
\* returns each list submitted before is computed once and on the GPU, on every path
\* and with the queue reset or not; and stop() has nothing to drain.
THEOREM SynchronizeIsComplete ==
  ASSUME ListsFitPool
  PROVE  Spec => []SynchronizeMeansDone
<1>1. QED
  BY QueueHolds, HandHolds, DescHolds, KeptHolds, BatchHolds, SessionHolds, FlightHolds,
     ContentHolds, DoneFollows, PTL
===============================================================================
