------------------------------ MODULE StateLog ------------------------------
(***************************************************************************)
(* What the store of a workflow's state promises, apart from the database  *)
(* and the cache in front of it: saved states are kept in the order of     *)
(* their commits, and every answer, and every state a save builds on, was  *)
(* saved before - the latest one as long as the store is left in peace,    *)
(* else any.                                                               *)
(*                                                                         *)
(* A state is abstracted to the clients whose work it contains.            *)
(***************************************************************************)
EXTENDS Sequences, SequencesExt

CONSTANTS
    Clients,
    None,      \* no state: nothing is stored
    NoAnswer   \* a request that has not been answered

VARIABLES
    calm,      \* nothing has disturbed the store so far
    log,       \* the saved states, oldest first
    answers    \* client -> what its request has last been told

lvars == <<calm, log, answers>>

Readable ==
    IF log = << >> THEN {None}
    ELSE IF calm THEN {Last(log)} ELSE Range(log) \cup {None}

LogInit ==
    /\ calm = TRUE
    /\ log = << >>
    /\ answers = [c \in Clients |-> NoAnswer]

Answer(c) ==
    /\ \E told \in Readable : answers' = [answers EXCEPT ![c] = told]
    /\ UNCHANGED <<calm, log>>

(* A state with or without the client's own work, built on one that could  *)
(* be read, or on none                                                     *)
Save(c) ==
    /\ \E base \in (Readable \cup {{}}) \ {None}, work \in SUBSET {c} :
           log' = Append(log, base \cup work)
    /\ UNCHANGED <<calm, answers>>

Disturb ==
    /\ calm /\ calm' = FALSE
    /\ UNCHANGED <<log, answers>>

LogNext == Disturb \/ \E c \in Clients : Answer(c) \/ Save(c)

LogSpec == LogInit /\ [][LogNext]_lvars
=============================================================================
