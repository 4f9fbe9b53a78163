----------------------------- MODULE MCStagingDma -----------------------------
(* Instances of queue mode and direct submission for TLC.  Keys of the radix  *)
(* sort wrap at multiples of 8, and a staging buffer holds four bytes.        *)
EXTENDS StagingDma

Entry(src, dst, size) == [src |-> src, dst |-> dst, size |-> size]

\* Destinations in a row: sources in a row, in reverse (short, and too long
\* for a buffer), apart across the wrap.
Rows == {<<Entry(20, 1, 1), Entry(21, 2, 1)>>,
         [i \in 1..3 |-> Entry(20 - i, i, 1)],
         [i \in 1..5 |-> Entry(20 - i, i, 1)],
         [i \in 1..4 |-> Entry(20 + 2 * i, 5 + i, 1)]}

\* Calls of submit_direct: one copy, pieces of two and one entries through the
\* staging buffers, and entries that do not fit.
MCCalls == {<<Entry(20, 1, 1), Entry(21, 2, 1)>>,
            [i \in 1..3 |-> Entry(20 - i, i, 1)],
            [i \in 1..5 |-> Entry(20 - i, i, 1)]}

\* Sizes that differ, and destinations out of order with sources across the
\* wrap.
Others == {<<Entry(20, 1, 2)>>,
           <<Entry(20, 1, 1), Entry(23, 2, 2)>>,
           <<Entry(7, 2, 1), Entry(8, 1, 1), Entry(9, 3, 1)>>}

\* Staged batches of several runs: holes, merged entries beside a hole, and
\* a hole-free range that the wrap of the sort keys cuts in two.
Holes == {[i \in 1..3 |-> Entry(20 + 2 * i, <<4, 1, 2>>[i], 1)],
          <<Entry(20, 1, 1), Entry(24, 3, 1), Entry(25, 4, 1)>>,
          [i \in 1..3 |-> Entry(20 + 2 * i, <<8, 7, 9>>[i], 1)]}

MCOneRun  == Rows \cup Others
MCBatches == MCOneRun \cup Holes

ASSUME PlansFitHere == PlansFit
\* Batches not in Holes are staged as one run.
ASSUME OneRunOnly ==
  \A p \in Prepared : Staged(p.plan) /\ Len(p.plan.copies) > 1 => p.entries \in Holes
\* What CopiesMoveEntries says of a batch, for those with holes.
ASSUME HolesMoved ==
  \A es \in Holes : Delivered(Plan(es)) = Moved(es) /\ InBuffer(Plan(es))
=============================================================================
