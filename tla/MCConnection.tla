---------------------------- MODULE MCConnection ----------------------------
(* Three processes hooked at once by a service that may restart.              *)
EXTENDS Connection

CONSTANTS p1, p2, p3, e1, e2, e3

\* When the service restarts, only two of the processes are hooked.
MCTwoWithRestart == restarts > 0 => attempt[p3] = "none" /\ dll[p3] = "absent"

\* Events are interchangeable, and so are p2 and p3: it is enough to create the
\* events, and to begin with those processes, in order.
MCInOrder ==
    LET Created == Owned \cup ToSet(free_events)
    IN  /\ e3 \in Created => e2 \in Created
        /\ e2 \in Created => e1 \in Created
        /\ attempt[p3] # "none" => attempt[p2] # "none"

MCConstraint == MCTwoWithRestart /\ MCInOrder
=============================================================================
