-------------------------- MODULE MCProcessTracking --------------------------
(* One process at the start, and three that share an id one after the other,    *)
(* one of which cannot be opened.                                            *)
EXTENDS ProcessTracking

CONSTANTS p1, p2, p3, p4, pid1, pid2

MCPidOf == [i \in Process |-> IF i = p3 THEN pid2 ELSE pid1]
=============================================================================
