------------------------------ MODULE TaskMutex ------------------------------
(***************************************************************************)
(* What the decorator single_instance_task promises, without its           *)
(* mechanism: at most one process at a time is inside the decorated        *)
(* function.  A run ends when the function returns, raises, or when its    *)
(* process dies.                                                           *)
(***************************************************************************)

CONSTANT Pids               \* the process identifiers of the host

VARIABLE holders            \* the processes inside the decorated function

Init == holders = {}

\* A process enters the function only when nobody is inside.
Enter(p) == /\ holders = {}
            /\ holders' = {p}

\* The process inside leaves: it returned, it raised, or it died.
Leave(p) == /\ p \in holders
            /\ holders' = holders \ {p}

Next == \E p \in Pids : Enter(p) \/ Leave(p)

Spec == Init /\ [][Next]_holders

=============================================================================
