--------------------------- MODULE MCResourceImport ---------------------------
(* Small instances of ResourceImport for TLC. *)
EXTENDS ResourceImport, FiniteSets, TLC

CONSTANTS t1, t2, p1

\* Two of the threads of one process, as httpd is configured
OneProcess == t1 :> p1 @@ t2 :> p1

\* One object, or two in versions of the same time
SmallRequests == {I \in SUBSET Items :
  \/ Cardinality(I) = 1
  \/ Cardinality(I) = 2 /\ Cardinality(Names(I)) = 2 /\ Cardinality({Version(i) : i \in I}) = 1}

\* Keys and threads are only compared for equality.
KeyThreadSymmetry == Permutations(Keys) \cup Permutations(Threads)
=============================================================================
