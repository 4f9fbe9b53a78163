------------------------------ MODULE SlotQueue ------------------------------
(***************************************************************************)
(* What the descriptor ring promises its users, with the ring left out:    *)
(* a producer reserves slots, publishes the descriptor of a slot it holds, *)
(* and the poller is handed every published descriptor exactly once, whole *)
(* and in slot order, stopping at the first slot not published yet.        *)
(***************************************************************************)
EXTENDS Integers, Sequences

CONSTANT Fields        \* the parts of a descriptor that are stored separately

VARIABLES reserved,    \* number of slots handed out so far
          published,   \* the slots whose descriptor has been published
          delivered    \* the descriptors the poller has been given, in order

absvars == <<reserved, published, delivered>>

\* The descriptor its producer stores for a slot, every field of it.
DescOf(slot) == [f \in Fields |-> slot]

Init == /\ reserved = 0
        /\ published = {}
        /\ delivered = <<>>

Reserve == /\ reserved' \in Nat /\ reserved' > reserved
           /\ UNCHANGED <<published, delivered>>

Publish == /\ \E slot \in 0..(reserved - 1) :
                /\ slot \notin published
                /\ published' = published \cup {slot}
           /\ UNCHANGED <<reserved, delivered>>

Deliver == /\ Len(delivered) \in published
           /\ delivered' = Append(delivered, DescOf(Len(delivered)))
           /\ UNCHANGED <<reserved, published>>

Next == Reserve \/ Publish \/ Deliver

Spec == Init /\ [][Next]_absvars
=============================================================================
