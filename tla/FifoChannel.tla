---------------------------- MODULE FifoChannel ----------------------------
(***************************************************************************)
(* What an AsyncQueue promises the two sides that share it: the values it  *)
(* accepts come out in the order they went in, each of them once, and a    *)
(* reader is told that the channel has ended only when it is closed and    *)
(* nothing accepted is still inside.  How values are parked, and how a     *)
(* reader that finds nothing is woken, is left to the implementation.      *)
(***************************************************************************)
EXTENDS Sequences, Naturals

CONSTANTS Values, Readers

VARIABLES
    accepted,   \* the values the channel took in, in order
    delivered,  \* the values it has given out, in order
    closed,     \* no value is accepted any more
    ended       \* the readers that were told of the end

vars == <<accepted, delivered, closed, ended>>

TypeOK ==
    /\ accepted \in Seq(Values)
    /\ delivered \in Seq(Values)
    /\ closed \in BOOLEAN
    /\ ended \subseteq Readers

Init ==
    /\ accepted = <<>>
    /\ delivered = <<>>
    /\ closed = FALSE
    /\ ended = {}

\* A value enters; a reader that was waiting may receive it in the same step.
Accept(v) ==
    /\ ~closed
    /\ accepted' = Append(accepted, v)
    /\ \/ delivered' = delivered
       \/ delivered = accepted /\ delivered' = accepted'
    /\ UNCHANGED <<closed, ended>>

\* The oldest value inside leaves.
Deliver ==
    /\ Len(delivered) < Len(accepted)
    /\ delivered' = Append(delivered, accepted[Len(delivered) + 1])
    /\ UNCHANGED <<accepted, closed, ended>>

Close ==
    /\ closed' = TRUE
    /\ UNCHANGED <<accepted, delivered, ended>>

End(r) ==
    /\ closed
    /\ delivered = accepted
    /\ ended' = ended \union {r}
    /\ UNCHANGED <<accepted, delivered, closed>>

Next ==
    \/ \E v \in Values : Accept(v)
    \/ Deliver
    \/ Close
    \/ \E r \in Readers : End(r)

Spec == Init /\ [][Next]_vars
=============================================================================
