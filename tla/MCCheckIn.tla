------------------------------ MODULE MCCheckIn -------------------------------
(* Small instances of CheckIn for TLC: one consumer makes two requests. *)
EXTENDS CheckIn, TLC

CONSTANTS c1, c2, q1, q2, q3

MCConsumers == {c1, c2}
MCRequests == {q1, q2, q3}
MCConsumerOf == q1 :> c1 @@ q2 :> c2 @@ q3 :> c1

\* The threads all do the same, and so does the pair of requests of c1.
ThreadSymmetry == Permutations(Threads) \cup {q1 :> q3 @@ q3 :> q1 @@ q2 :> q2}
=============================================================================
