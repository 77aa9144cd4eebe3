--------------------------- MODULE MCWorkflowStore ---------------------------
(* WorkflowStore on a few requests, each of any kind.  Requests differ only *)
(* in what they ask for: the run with liveness asks of one of two what      *)
(* comes first.                                                             *)
EXTENDS WorkflowStore

Rank == [get |-> 1, edit |-> 2, set |-> 3, run |-> 4, start |-> 5]
One == CHOOSE c \in Clients : TRUE
MCInit == Init /\ \A c \in Clients : Rank[op[One]] <= Rank[op[c]]

MCFairSpec == MCInit /\ [][Next]_vars /\ Fairness
=============================================================================
