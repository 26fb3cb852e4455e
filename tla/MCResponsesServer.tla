--------------------------- MODULE MCResponsesServer ---------------------------
EXTENDS ResponsesServer, TLC

CONSTANTS r1, r2, o1, o2

\* An earlier process has stored o1 and, continuing it, o2: a chain as long as
\* the limit, so that a response that continues o2 cannot be continued.
MCInit ==
    LET oldRows == (o1 :> [status |-> "completed", prev |-> NoId])
                      @@ (o2 :> [status |-> "completed", prev |-> o1])
        oldLineage == (o1 :> <<o1>>) @@ (o2 :> <<o1, o2>>)
    IN  Inherited(oldRows, oldLineage) /\ InitWith(oldRows, oldLineage)

MCSpec == MCInit /\ [][Next]_vars

Symmetry == Permutations(Requests)
=============================================================================
