------------------------------ MODULE NewestWins ------------------------------
(***************************************************************************)
(* What the POST of a collection (BaseResource.post_list) promises to the  *)
(* servers that send it their objects, without its mechanism: the database *)
(* moves only to newer versions of an object, only to versions that are    *)
(* under way, and what a request was answered for is in the database, or   *)
(* something newer is.  An object is excepted while requests under way     *)
(* name it in two versions: it is contested, until they have all ended.    *)
(***************************************************************************)
EXTENDS Naturals

CONSTANTS
  Keys, Versions,    \* identities and "updated" stamps of the objects
  Senders

VARIABLES
  current,     \* current[k]: the version of k in the database, 0 for none
  underway,    \* underway[s]: the objects of the request of s
  contested,   \* the objects that two requests have named in different versions
  answered     \* the objects of the request answered last, until another is sent

Init == /\ current = [k \in Keys |-> 0] /\ answered = {}
        /\ underway = [s \in Senders |-> {}] /\ contested = {}

\* The objects of which two sets of items have different versions, or any
Clash(I, J) == {k \in Keys : \E i \in I, j \in J : i[1] = k /\ j[1] = k /\ i[2] # j[2]}
Names(I) == {i[1] : i \in I}

\* A request is sent.
Send(s, I) == /\ underway[s] = {}
              /\ underway' = [underway EXCEPT ![s] = I]
              /\ contested' = contested \cup UNION {Clash(I, underway[r]) : r \in Senders}
              /\ answered' = {}
              /\ UNCHANGED current

\* A newer version of an object gets into the database.
Accept(k, v) == /\ \E s \in Senders : <<k, v>> \in underway[s]
                /\ v > current[k] \/ k \in contested
                /\ current' = [current EXCEPT ![k] = v]
                /\ UNCHANGED <<underway, contested, answered>>

End(s) == /\ underway' = [underway EXCEPT ![s] = {}]
          /\ contested' = contested \cap UNION {Names(underway[r]) : r \in Senders \ {s}}

\* A request whose objects are all in the database is answered.
Answer(s) == /\ \A i \in underway[s] : current[i[1]] >= i[2] \/ i[1] \in contested
             /\ answered' = underway[s]
             /\ End(s) /\ UNCHANGED current

\* A request ends with an error, or nobody knows how.
Fail(s) == End(s) /\ UNCHANGED <<current, answered>>

Next == \/ \E s \in Senders :
             (\E I \in SUBSET (Keys \X Versions) : Send(s, I)) \/ Answer(s) \/ Fail(s)
        \/ \E k \in Keys, v \in Versions : Accept(k, v)

Spec == Init /\ [][Next]_<<current, underway, contested, answered>>

=============================================================================
