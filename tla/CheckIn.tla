------------------------------- MODULE CheckIn --------------------------------
(***************************************************************************)
(* The check-in of a consumer: EntitlementResource of entitlement/apis.py  *)
(* and the class CheckIn of entitlement/checkin.py.                        *)
(*                                                                         *)
(* The resource is one object that all threads of the WSGI process share;  *)
(* it keeps the request at work in current_request and the duration of the *)
(* last call of candlepin in last_entitlement_call_length.  From the       *)
(* request's certificate a check-in finds the consumer's identity, checks  *)
(* it, asks candlepin for a certificate over the identity's products and   *)
(* records the usage.  Between these steps the other threads work, and the *)
(* synchronisation with the parent changes identities (IdentitySync).      *)
(* A duration is named by the request it was measured for.                 *)
(***************************************************************************)
EXTENDS Naturals

CONSTANTS
  Consumers,
  Requests, ConsumerOf,   \* the requests, and the consumer that makes each
  Threads,                \* threads of the WSGI process
  MaxVersion,             \* bound: versions of an identity
  MaxFaults,              \* bound: failing calls, killed threads
  None

ASSUME RequestsAssumption == ConsumerOf \in [Requests -> Consumers] /\ None \notin Requests
ASSUME BoundsAssumption == MaxVersion \in Nat /\ MaxFaults \in Nat

VARIABLES
  identity,                       \* identity[c]: the ConsumerIdentity of c
  current_request,                \* the attributes of the resource
  last_entitlement_call_length,
  received,                       \* requests that have arrived
  pc, request,                    \* of each thread: its next step, its request,
  consumer, products,             \* whose certificate it has read, which version
                                  \* of the identity it has loaded
  issued,                         \* what candlepin has issued
  usage,                          \* the ProductUsage documents
  unrecorded,                     \* history: requests whose record_usage failed
  answers,                        \* the certificates that were sent back
  gone,                           \* history: gone[q], the consumers that were
                                  \* deleted before q arrived
  faults

resource == <<current_request, last_entitlement_call_length>>
locals == <<pc, request, consumer, products>>
history == <<unrecorded, gone>>
vars == <<identity, resource, received, locals, issued, usage, history, answers, faults>>

\* An identity: which version of its engineering_ids, 0 when it is not known here
Identities == [version : 0..MaxVersion, deleted : BOOLEAN]
Versions == 1..MaxVersion

\* A certificate, and what it was issued for
Certificates == [request : Requests, consumer : Consumers, version : Versions]

TypeOK ==
  /\ identity \in [Consumers -> Identities]
  /\ current_request \in Requests \cup {None}
  /\ last_entitlement_call_length \in Requests \cup {None}
  /\ received \subseteq Requests
  /\ pc \in [Threads -> {"idle", "read", "find", "issue", "record", "length", "answer"}]
  /\ request \in [Threads -> Requests \cup {None}]
  /\ consumer \in [Threads -> Consumers \cup {None}]
  /\ products \in [Threads -> 0..MaxVersion]
  /\ issued \subseteq Certificates /\ usage \subseteq Certificates
  /\ answers \subseteq [certificate : Certificates, length : Requests]
  /\ unrecorded \subseteq Requests
  /\ gone \in [Requests -> SUBSET Consumers]
  /\ faults \in 0..MaxFaults

Init ==
  /\ identity = [c \in Consumers |-> [version |-> 0, deleted |-> FALSE]]
  /\ current_request = None /\ last_entitlement_call_length = None
  /\ received = {}
  /\ pc = [t \in Threads |-> "idle"]
  /\ request = [t \in Threads |-> None]
  /\ consumer = [t \in Threads |-> None]
  /\ products = [t \in Threads |-> 0]
  /\ issued = {} /\ usage = {} /\ answers = {}
  /\ unrecorded = {} /\ gone = [q \in Requests |-> {}]
  /\ faults = 0

Goto(t, from, to) == pc[t] = from /\ pc' = [pc EXCEPT ![t] = to]
Fault == faults < MaxFaults /\ faults' = faults + 1

\* The request of t is over.
Done(t) == /\ pc' = [pc EXCEPT ![t] = "idle"]
           /\ request' = [request EXCEPT ![t] = None]
           /\ consumer' = [consumer EXCEPT ![t] = None]
           /\ products' = [products EXCEPT ![t] = 0]

Certificate(t) ==
  [request |-> request[t], consumer |-> consumer[t], version |-> products[t]]

-------------------------------------------------------------------------------
\* The synchronisation learns of an identity, changes its products, or marks it
\* as deleted.  The parent takes no deletion back.
Synced(c) ==
  /\ identity[c].version < MaxVersion
  /\ \E d \in BOOLEAN :
       /\ identity[c].deleted => d
       /\ identity' = [identity EXCEPT ![c] = [version |-> @.version + 1, deleted |-> d]]
  /\ UNCHANGED <<resource, received, locals, issued, usage, history, answers, faults>>

\* post_detail, put_detail: the request becomes that of the resource.
Receive(t, q) ==
  /\ q \notin received
  /\ Goto(t, "idle", "read")
  /\ received' = received \cup {q}
  /\ request' = [request EXCEPT ![t] = q]
  /\ current_request' = q
  /\ gone' = [gone EXCEPT ![q] = {c \in Consumers : identity[c].deleted}]
  /\ UNCHANGED <<identity, last_entitlement_call_length, consumer, products,
                 issued, usage, unrecorded, answers, faults>>

\* process_checkin: something is missing in the body, BadRequest
RefuseBody(t) ==
  /\ pc[t] = "read"
  /\ Done(t)
  /\ UNCHANGED <<identity, resource, received, issued, usage, history, answers, faults>>

\* process_checkin: the certificate of current_request
ReadCertificate(t) ==
  /\ Goto(t, "read", "find")
  /\ consumer' = [consumer EXCEPT ![t] = ConsumerOf[current_request]]
  /\ UNCHANGED <<identity, resource, received, request, products, issued, usage,
                 history, answers, faults>>

\* Mutant: a deleted identity gets on
AdmittedDeleted(i) == i.version > 0

\* get_identity_object and check_access: known, and not marked as deleted
Admitted(i) == i.version > 0 /\ ~i.deleted

\* get_identity, check_access: the identity is loaded once.
FindIdentity(t) ==
  /\ Goto(t, "find", "issue")
  /\ Admitted(identity[consumer[t]])
  /\ products' = [products EXCEPT ![t] = identity[consumer[t]].version]
  /\ UNCHANGED <<identity, resource, received, request, consumer, issued, usage,
                 history, answers, faults>>

\* UnknownConsumerIdentity and what a cached lookup raises (RhicLookup), or
\* DeletedConsumerIdentityException
RefuseIdentity(t) ==
  /\ pc[t] = "find"
  /\ ~Admitted(identity[consumer[t]])
  /\ Done(t)
  /\ UNCHANGED <<identity, resource, received, issued, usage, history, answers, faults>>

\* Mutant: the identity is read again for its products
RequestReloaded(t) ==
  /\ Goto(t, "issue", "record")
  /\ issued' = issued \cup {[Certificate(t) EXCEPT !.version = identity[consumer[t]].version]}
  /\ UNCHANGED <<identity, resource, received, request, consumer, products, usage,
                 history, answers, faults>>

\* request_entitlement: candlepin issues a certificate over the products of the
\* identity as it was loaded.
RequestEntitlement(t) ==
  /\ Goto(t, "issue", "record")
  /\ issued' = issued \cup {Certificate(t)}
  /\ UNCHANGED <<identity, resource, received, request, consumer, products, usage,
                 history, answers, faults>>

\* get_entitlement raises, with or without a certificate issued.
EntitlementFails(t) ==
  /\ pc[t] = "issue"
  /\ Fault
  /\ \E lost \in SUBSET {Certificate(t)} : issued' = issued \cup lost
  /\ Done(t)
  /\ UNCHANGED <<identity, resource, received, usage, history, answers>>

\* Mutant: prod_usage.save(safe=False), a failure is not noticed
RecordUnsafe(t) ==
  /\ Goto(t, "record", "length")
  /\ \E saved \in SUBSET {Certificate(t)} : usage' = usage \cup saved
  /\ UNCHANGED <<identity, resource, received, request, consumer, products, issued,
                 history, answers, faults>>

\* record_usage: the installed products, sorted by what the identity allows
RecordUsage(t) ==
  /\ Goto(t, "record", "length")
  /\ usage' = usage \cup {Certificate(t)}
  /\ UNCHANGED <<identity, resource, received, request, consumer, products, issued,
                 history, answers, faults>>

\* record_usage: an exception is logged, and the check-in goes on.
RecordFails(t) ==
  /\ Fault
  /\ Goto(t, "record", "length")
  /\ unrecorded' = unrecorded \cup {request[t]}
  /\ UNCHANGED <<identity, resource, received, request, consumer, products, issued,
                 usage, gone, answers>>

\* process_checkin: the duration, for the header
KeepLength(t) ==
  /\ Goto(t, "length", "answer")
  /\ last_entitlement_call_length' = request[t]
  /\ UNCHANGED <<identity, current_request, received, request, consumer, products,
                 issued, usage, history, answers, faults>>

\* put_detail, modify_response: the thread's certificate and the resource's duration
Answer(t) ==
  /\ pc[t] = "answer"
  /\ answers' = answers \cup {[certificate |-> Certificate(t),
                               length |-> last_entitlement_call_length]}
  /\ Done(t)
  /\ UNCHANGED <<identity, resource, received, issued, usage, history, faults>>

\* A call of MongoDB raises, and the exception ends the request.
Interrupted(t) ==
  /\ pc[t] # "idle"
  /\ Fault
  /\ Done(t)
  /\ UNCHANGED <<identity, resource, received, issued, usage, history, answers>>

\* The process is killed and started again, with a new resource.
Restart ==
  /\ Fault
  /\ pc' = [t \in Threads |-> "idle"]
  /\ request' = [t \in Threads |-> None]
  /\ consumer' = [t \in Threads |-> None]
  /\ products' = [t \in Threads |-> 0]
  /\ current_request' = None /\ last_entitlement_call_length' = None
  /\ UNCHANGED <<identity, received, issued, usage, history, answers>>

Next == \/ \E c \in Consumers : Synced(c)
        \/ \E t \in Threads :
             \/ \E q \in Requests : Receive(t, q)
             \/ RefuseBody(t) \/ ReadCertificate(t) \/ FindIdentity(t) \/ RefuseIdentity(t)
             \/ RequestEntitlement(t) \/ EntitlementFails(t)
             \/ RecordUsage(t) \/ RecordFails(t)
             \/ KeepLength(t) \/ Answer(t) \/ Interrupted(t)
        \/ Restart

Spec == Init /\ [][Next]_vars

-------------------------------------------------------------------------------
\* What is counted as used has been certified: usage is recorded after the
\* certificate was issued, for its consumer, and against the products it covers,
\* though the identity may have changed in between.
UsageIsCertified == usage \subseteq issued

\* A consumer that gets its certificate has been counted, unless recording failed.
AnsweredIsCounted ==
  \A a \in answers : a.certificate \in usage \/ a.certificate.request \in unrecorded

\* Nobody whose deletion is known here when a request arrives gets a certificate
\* out of that request, whichever certificate the request was taken to carry.
NoneForTheDeleted == \A x \in issued : x.consumer \notin gone[x.request]

\* The inductive strengthening of the three.  What a thread at work has of its
\* own: a request that has arrived; a consumer once it has read a certificate;
\* once it has loaded the identity, one that was not deleted when the request
\* arrived; a certificate that was issued; and usage that was recorded or failed.
Bound == {"find", "issue", "record", "length", "answer"}
Loaded == {"issue", "record", "length", "answer"}
ThreadInv(t) ==
  /\ pc[t] # "idle" => request[t] \in received
  /\ pc[t] = "read" => current_request \in Requests
  /\ pc[t] \in Bound => consumer[t] \in Consumers
  /\ pc[t] \in Loaded => products[t] \in Versions /\ consumer[t] \notin gone[request[t]]
  /\ pc[t] = "record" => Certificate(t) \in issued
  /\ pc[t] \in {"length", "answer"} =>
       Certificate(t) \in usage \/ request[t] \in unrecorded
  /\ pc[t] = "answer" => last_entitlement_call_length \in Requests
GoneAreDeleted == \A q \in Requests : \A c \in gone[q] : identity[c].deleted
IssuedAreReceived == \A x \in issued : x.request \in received
CheckInInv ==
  /\ TypeOK /\ GoneAreDeleted /\ IssuedAreReceived
  /\ UsageIsCertified /\ AnsweredIsCounted /\ NoneForTheDeleted
  /\ \A t \in Threads : ThreadInv(t)

\* The certificate is for the consumer that has made the request.
CertificateIsOwn == \A x \in issued : x.consumer = ConsumerOf[x.request]

\* The duration in the answer is that of the request's own call of candlepin.
LengthIsOwn == \A a \in answers : a.length = a.certificate.request

=============================================================================
