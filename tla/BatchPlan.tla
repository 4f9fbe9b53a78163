------------------------------ MODULE BatchPlan ------------------------------
(***************************************************************************)
(* How process_batch (batch_processor.cpp) and submit_direct               *)
(* (direct_submit.cpp) turn the entries of a batch into copies: contiguous *)
(* entries become one copy, others are sorted and coalesced, gathered into *)
(* a staging buffer, or handed over as they are.  Pure operators; an entry *)
(* is [src, dst, size] with addresses as numbers.                          *)
(***************************************************************************)
EXTENDS Integers, Sequences, SequencesExt

CONSTANTS NumBufs,               \* num_staging_bufs_
          StagingSize,           \* staging_buffer_size_
          SORT_SMALL,            \* up to this many entries std::sort is used
          KEY_RANGE,             \* radix_sort_sg looks at keys modulo this
          STAGING_THRESHOLD,     \* more copies than this are staged
          PIPELINE_MIN_ENTRIES,  \* submit_direct pipelines this many entries
          PIPELINE_CHUNKS        \* in so many chunks

ASSUME PlanAssumption ==
  /\ \A n \in {NumBufs, StagingSize, SORT_SMALL, STAGING_THRESHOLD,
               PIPELINE_MIN_ENTRIES} : n \in Nat
  /\ KEY_RANGE \in Nat \ {0} /\ PIPELINE_CHUNKS \in Nat \ {0}

-----------------------------------------------------------------------------
(* Contiguity, sorting and coalescing *)

DstAfter(e, f) == f.dst = e.dst + e.size
SrcAfter(e, f) == f.src = e.src + e.size

DstContiguous(es) == \A i \in 2..Len(es) : DstAfter(es[i - 1], es[i])
SrcContiguous(es) == \A i \in 2..Len(es) : SrcAfter(es[i - 1], es[i])
SameSize(es)      == \A i \in 2..Len(es) : es[i].size = es[1].size

TotalSize(es) == FoldLeft(LAMBDA n, e : n + e.size, 0, es)

\* Contiguous entries as one.
Whole(es) == [src |-> es[1].src, dst |-> es[1].dst, size |-> TotalSize(es)]

\* radix_sort_sg: the four passes see the low 32 bits of the key only.
SortedBy(es, field) ==
  LET SortKey(e) == IF Len(es) <= SORT_SMALL THEN e[field] ELSE e[field] % KEY_RANGE
  IN SortSeq(es, LAMBDA e, f : SortKey(e) < SortKey(f))

\* Coalescing: an entry that continues the last copy on both sides extends it.
Joined(acc, e) ==
  IF DstAfter(Last(acc), e) /\ SrcAfter(Last(acc), e)
    THEN [acc EXCEPT ![Len(acc)].size = @ + e.size] ELSE Append(acc, e)

Coalesced(es) == FoldLeft(Joined, <<Head(es)>>, Tail(es))

MinDst(es) == Min({es[i].dst : i \in 1..Len(es)})
MaxEnd(es) == Max({es[i].dst + es[i].size : i \in 1..Len(es)})

\* The runs of a staging buffer the entries were gathered into: src is the
\* offset in the buffer.
RunOf(e, min) == [src |-> e.dst - min, dst |-> e.dst, size |-> e.size]
Runs(es) ==
  LET sorted == SortedBy(es, "dst")
      rs     == [i \in 1..Len(es) |-> RunOf(sorted[i], MinDst(es))]
  IN Coalesced(rs)

-----------------------------------------------------------------------------
(* Plans: what is gathered into a staging buffer (nothing, when the copies    *)
(* read user memory) and the copies submitted                                *)

FromUser(copies) == [gathered |-> <<>>, copies |-> copies]
InRuns(es)       == [gathered |-> es, copies |-> Runs(es)]
InOneRun(es)     == [gathered |-> es, copies |-> <<RunOf(Whole(es), es[1].dst)>>]
Staged(plan)     == plan.gathered # <<>>

\* process_batch tries these in turn: entries in place on both sides; a
\* destination in place; sorted entries, staged if many and close together.
Contiguous(es)  == NumBufs > 0 /\ Len(es) > 1 /\ DstContiguous(es) /\ SameSize(es)
FitsStaging(es) == NumBufs > 0 /\ MaxEnd(es) - MinDst(es) <= StagingSize
SortedPlan(es)  ==
  LET copies == Coalesced(SortedBy(es, "src"))
  IN IF Len(copies) > STAGING_THRESHOLD /\ FitsStaging(copies)
       THEN InRuns(copies) ELSE FromUser(copies)

Plan(es) ==
  CASE Len(es) = 1                             -> FromUser(es)
    [] Contiguous(es) /\ SrcContiguous(es)     -> FromUser(<<Whole(es)>>)
    [] Contiguous(es) /\ ~SrcContiguous(es) /\ FitsStaging(es)
                                               -> InOneRun(es)
    [] OTHER                                   -> SortedPlan(es)

\* Mutant: the entries per chunk are rounded down, so the remainder is lost.
ChunksRoundedDown(es) ==
  LET n   == Min({PIPELINE_CHUNKS, NumBufs})
      per == Len(es) \div n
  IN [c \in 1..n |-> SubSeq(es, (c - 1) * per + 1, c * per)]

\* The chunks of the pipeline, one staging buffer each.
PipelineChunks(es) ==
  LET n   == Min({PIPELINE_CHUNKS, NumBufs})
      per == (Len(es) + n - 1) \div n
  IN SelectSeq([c \in 1..n |->
                 SubSeq(es, (c - 1) * per + 1, Min({c * per, Len(es)}))],
               LAMBDA chunk : chunk # <<>>)

Pipelined(es) == Len(es) >= PIPELINE_MIN_ENTRIES /\ NumBufs >= 2

\* submit_direct: the plans it carries out one after the other.
DirectPlans(es) ==
  CASE Len(es) > 1 /\ DstContiguous(es) /\ SrcContiguous(es)
         -> <<FromUser(<<Whole(es)>>)>>
    [] DstContiguous(es) /\ ~SrcContiguous(es) /\ FitsStaging(es)
         -> LET chunks == IF Pipelined(es) THEN PipelineChunks(es) ELSE <<es>>
            IN [c \in 1..Len(chunks) |-> InOneRun(chunks[c])]
    [] OTHER -> <<FromUser(es)>>

-----------------------------------------------------------------------------
(* Reference: the bytes a sequence of entries moves, as <<to, from>> pairs *)

Moved(es) ==
  UNION {{<<es[n].dst + i, es[n].src + i>> : i \in 0..(es[n].size - 1)} :
           n \in 1..Len(es)}

\* Destinations of a batch are distinct bytes.
Disjoint(es) == \A p, q \in Moved(es) : p[1] = q[1] => p = q

\* What is in the staging buffer after the gather.
Gathered(es) == {<<p[1] - MinDst(es), p[2]>> : p \in Moved(es)}

\* The bytes a plan moves, through the staging buffer if it has one.
Delivered(plan) ==
  IF Staged(plan)
    THEN {<<pq[1][1], pq[2][2]>> : pq \in
            {pq \in Moved(plan.copies) \X Gathered(plan.gathered) :
               pq[1][2] = pq[2][1]}}
    ELSE Moved(plan.copies)

\* No plan reads or writes outside its staging buffer.
InBuffer(plan) == Staged(plan) =>
  \A p \in Gathered(plan.gathered) \cup {<<m[2], 0>> : m \in Moved(plan.copies)} :
    p[1] \in 0..(StagingSize - 1)
=============================================================================
