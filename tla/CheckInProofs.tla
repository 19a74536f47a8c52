----------------------------- MODULE CheckInProofs -----------------------------
(***************************************************************************)
(* Proofs about CheckIn, for every set of requests, consumers and threads  *)
(* and every number of changes and faults.                                 *)
(*                                                                         *)
(* The argument: once a thread has read a certificate it works with        *)
(* locals that no other thread changes (ThreadInv).  A request marks the   *)
(* consumers that are deleted when it arrives, and they stay deleted       *)
(* (GoneAreDeleted), so an identity that is admitted later is none of      *)
(* them.  Whose certificate it was plays no part.                          *)
(***************************************************************************)
EXTENDS CheckIn, TLAPS

LEMMA InitCheckInInv == Init => CheckInInv
  BY RequestsAssumption, BoundsAssumption
  DEF Init, CheckInInv, TypeOK, GoneAreDeleted, IssuedAreReceived, UsageIsCertified,
      AnsweredIsCounted, NoneForTheDeleted, ThreadInv, Identities, Bound, Loaded

\* What a thread in a late step holds makes a certificate.
LEMMA CertificateType ==
  ASSUME CheckInInv, NEW t \in Threads, pc[t] \in Loaded
  PROVE  /\ Certificate(t) \in Certificates
         /\ Certificate(t).request = request[t] /\ Certificate(t).consumer = consumer[t]
         /\ Certificate(t).version = products[t]
         /\ request[t] \in received
         /\ consumer[t] \notin gone[request[t]]
  BY DEF CheckInInv, TypeOK, ThreadInv, Certificate, Certificates, Loaded, Bound

\* A thread that goes idle needs nothing more.
LEMMA IdleThread ==
  ASSUME NEW t \in Threads, pc'[t] = "idle"
  PROVE  ThreadInv(t)'
  BY DEF ThreadInv, Bound, Loaded

\* Steps that end a request and touch nothing but the history of certificates.
LEMMA DoneKeeps ==
  ASSUME CheckInInv, NEW t \in Threads, Done(t),
         issued \subseteq issued', issued' \subseteq Certificates,
         \A x \in issued' : x.request \in received /\ x.consumer \notin gone[x.request],
         answers' \subseteq [certificate : Certificates, length : Requests],
         \A a \in answers' : a.certificate \in usage \/ a.certificate.request \in unrecorded,
         faults' \in 0..MaxFaults,
         UNCHANGED <<identity, resource, received, usage, history>>
  PROVE  CheckInInv'
  <1>1. TypeOK'
    BY BoundsAssumption DEF CheckInInv, TypeOK, Done, resource, history
  <1>2. GoneAreDeleted' /\ IssuedAreReceived' /\ UsageIsCertified'
        /\ AnsweredIsCounted' /\ NoneForTheDeleted'
    BY DEF CheckInInv, GoneAreDeleted, IssuedAreReceived, UsageIsCertified,
           AnsweredIsCounted, NoneForTheDeleted, resource, history
  <1>3. ASSUME NEW u \in Threads PROVE ThreadInv(u)'
    <2>1. CASE u = t
      BY <2>1, IdleThread DEF Done, CheckInInv, TypeOK
    <2>2. CASE u # t
      <3>1. /\ pc'[u] = pc[u] /\ request'[u] = request[u]
            /\ consumer'[u] = consumer[u] /\ products'[u] = products[u]
        BY <2>2 DEF Done, CheckInInv, TypeOK
      <3> QED
        BY <3>1 DEF CheckInInv, ThreadInv, Certificate, resource, history
    <2> QED
      BY <2>1, <2>2
  <1> QED
    BY <1>1, <1>2, <1>3 DEF CheckInInv

\* A step of t leaves the other threads as they were, if it leaves what they
\* refer to: the databases only grow, and last_entitlement_call_length holds a
\* request if it changes.
LEMMA OthersKeep ==
  ASSUME CheckInInv, NEW t \in Threads, NEW u \in Threads, u # t,
         NEW to, pc' = [pc EXCEPT ![t] = to],
         request'[u] = request[u], consumer'[u] = consumer[u], products'[u] = products[u],
         received \subseteq received',
         current_request' \in Requests \/ current_request' = current_request,
         last_entitlement_call_length' \in Requests
           \/ last_entitlement_call_length' = last_entitlement_call_length,
         issued \subseteq issued', usage \subseteq usage', unrecorded \subseteq unrecorded',
         \A q \in received : gone'[q] = gone[q]
  PROVE  ThreadInv(u)'
  <1>1. pc'[u] = pc[u]
    BY DEF CheckInInv, TypeOK
  <1>2. ThreadInv(u) /\ pc[u] # "idle" => request[u] \in received
    BY DEF CheckInInv, ThreadInv
  <1> QED
    BY <1>1, <1>2 DEF CheckInInv, ThreadInv, Certificate, Loaded, Bound

LEMMA SyncedStep ==
  ASSUME CheckInInv, NEW c \in Consumers, Synced(c)
  PROVE  CheckInInv'
  <1>1. PICK d \in BOOLEAN :
          /\ identity[c].deleted => d
          /\ identity' = [identity EXCEPT ![c] = [version |-> identity[c].version + 1, deleted |-> d]]
    BY DEF Synced
  <1>2. TypeOK'
    <2>1. identity[c] \in Identities /\ identity[c].version + 1 \in 0..MaxVersion
      BY BoundsAssumption DEF Synced, CheckInInv, TypeOK, Identities
    <2>2. [version |-> identity[c].version + 1, deleted |-> d] \in Identities
      BY <2>1 DEF Identities
    <2> QED
      BY <1>1, <2>2 DEF Synced, CheckInInv, TypeOK, resource, locals, history
  <1>3. GoneAreDeleted'
    <2>1. ASSUME NEW x \in Consumers, identity[x].deleted PROVE identity'[x].deleted
      BY <1>1, <2>1 DEF CheckInInv, TypeOK
    <2> QED
      BY <2>1 DEF Synced, CheckInInv, TypeOK, GoneAreDeleted, history
  <1>4. \A t \in Threads : ThreadInv(t)'
    BY DEF Synced, CheckInInv, ThreadInv, Certificate, resource, locals, history
  <1> QED
    BY <1>2, <1>3, <1>4
    DEF Synced, CheckInInv, IssuedAreReceived, UsageIsCertified, AnsweredIsCounted,
        NoneForTheDeleted, history

LEMMA ReceiveStep ==
  ASSUME CheckInInv, NEW t \in Threads, NEW q \in Requests, Receive(t, q)
  PROVE  CheckInInv'
  <1> DEFINE now == {c \in Consumers : identity[c].deleted}
  <1>1. /\ q \notin received /\ received' = received \cup {q}
        /\ pc[t] = "idle" /\ pc' = [pc EXCEPT ![t] = "read"]
        /\ request' = [request EXCEPT ![t] = q]
        /\ current_request' = q /\ gone' = [gone EXCEPT ![q] = now]
        /\ UNCHANGED <<identity, last_entitlement_call_length, consumer, products,
                       issued, usage, unrecorded, answers, faults>>
    BY DEF Receive, Goto
  <1>2. TypeOK'
    BY <1>1 DEF CheckInInv, TypeOK
  <1>3. \A r \in received : gone'[r] = gone[r]
    BY <1>1 DEF CheckInInv, TypeOK
  <1>4. GoneAreDeleted' /\ IssuedAreReceived' /\ NoneForTheDeleted'
    <2>1. GoneAreDeleted'
      BY <1>1 DEF CheckInInv, TypeOK, GoneAreDeleted
    <2> QED
      BY <1>1, <1>3, <2>1 DEF CheckInInv, IssuedAreReceived, NoneForTheDeleted
  <1>5. ASSUME NEW u \in Threads PROVE ThreadInv(u)'
    <2>1. CASE u = t
      BY <1>1, <2>1 DEF ThreadInv, CheckInInv, TypeOK, Bound, Loaded
    <2>2. CASE u # t
      <3>1. request'[u] = request[u]
        BY <1>1, <2>2 DEF CheckInInv, TypeOK
      <3> QED
        BY <1>1, <1>3, <2>2, <3>1, OthersKeep
    <2> QED
      BY <2>1, <2>2
  <1> QED
    BY <1>1, <1>2, <1>4, <1>5 DEF CheckInInv, UsageIsCertified, AnsweredIsCounted

LEMMA ReadCertificateStep ==
  ASSUME CheckInInv, NEW t \in Threads, ReadCertificate(t)
  PROVE  CheckInInv'
  <1>1. current_request \in Requests
    BY DEF ReadCertificate, Goto, CheckInInv, ThreadInv
  <1>2. ConsumerOf[current_request] \in Consumers
    BY <1>1, RequestsAssumption
  <1>3. TypeOK'
    BY <1>2 DEF ReadCertificate, Goto, CheckInInv, TypeOK, resource, history
  <1>4. ASSUME NEW u \in Threads PROVE ThreadInv(u)'
    <2>1. CASE u = t
      BY <1>2, <2>1 DEF ReadCertificate, Goto, ThreadInv, CheckInInv, TypeOK, Bound, Loaded
    <2>2. CASE u # t
      <3>1. consumer'[u] = consumer[u] /\ pc' = [pc EXCEPT ![t] = "find"]
        BY <2>2 DEF ReadCertificate, Goto, CheckInInv, TypeOK
      <3> QED
        BY <2>2, <3>1, OthersKeep DEF ReadCertificate, resource, history
    <2> QED
      BY <2>1, <2>2
  <1> QED
    BY <1>3, <1>4
    DEF ReadCertificate, CheckInInv, GoneAreDeleted, IssuedAreReceived, UsageIsCertified,
        AnsweredIsCounted, NoneForTheDeleted, resource, history

LEMMA FindIdentityStep ==
  ASSUME CheckInInv, NEW t \in Threads, FindIdentity(t)
  PROVE  CheckInInv'
  <1>1. consumer[t] \in Consumers /\ request[t] \in received /\ request[t] \in Requests
    BY DEF FindIdentity, Goto, CheckInInv, TypeOK, ThreadInv, Bound
  <1>2. identity[consumer[t]].version \in Versions
    BY <1>1, BoundsAssumption
    DEF FindIdentity, Admitted, CheckInInv, TypeOK, Identities, Versions
  <1>3. consumer[t] \notin gone[request[t]]
    BY <1>1 DEF FindIdentity, Admitted, CheckInInv, GoneAreDeleted
  <1>4. TypeOK'
    BY <1>2, BoundsAssumption
    DEF FindIdentity, Goto, CheckInInv, TypeOK, Versions, resource, history
  <1>5. ASSUME NEW u \in Threads PROVE ThreadInv(u)'
    <2>1. CASE u = t
      BY <1>1, <1>2, <1>3, <2>1
      DEF FindIdentity, Goto, ThreadInv, CheckInInv, TypeOK, Bound, Loaded, history
    <2>2. CASE u # t
      <3>1. products'[u] = products[u] /\ pc' = [pc EXCEPT ![t] = "issue"]
        BY <2>2 DEF FindIdentity, Goto, CheckInInv, TypeOK
      <3> QED
        BY <2>2, <3>1, OthersKeep DEF FindIdentity, resource, history
    <2> QED
      BY <2>1, <2>2
  <1> QED
    BY <1>4, <1>5
    DEF FindIdentity, CheckInInv, GoneAreDeleted, IssuedAreReceived, UsageIsCertified,
        AnsweredIsCounted, NoneForTheDeleted, resource, history

LEMMA RequestEntitlementStep ==
  ASSUME CheckInInv, NEW t \in Threads, RequestEntitlement(t)
  PROVE  CheckInInv'
  <1>1. pc[t] \in Loaded
    BY DEF RequestEntitlement, Goto, Loaded
  <1>2. TypeOK'
    BY <1>1, CertificateType
    DEF RequestEntitlement, Goto, CheckInInv, TypeOK, resource, history
  <1>3. IssuedAreReceived' /\ NoneForTheDeleted'
    BY <1>1, CertificateType
    DEF RequestEntitlement, CheckInInv, IssuedAreReceived, NoneForTheDeleted, history
  <1>4. ASSUME NEW u \in Threads PROVE ThreadInv(u)'
    <2>1. CASE u = t
      BY <2>1
      DEF RequestEntitlement, Goto, ThreadInv, Certificate, CheckInInv, TypeOK, Bound, Loaded, history
    <2>2. CASE u # t
      BY <2>2, OthersKeep DEF RequestEntitlement, Goto, resource, history
    <2> QED
      BY <2>1, <2>2
  <1> QED
    BY <1>2, <1>3, <1>4
    DEF RequestEntitlement, CheckInInv, GoneAreDeleted, UsageIsCertified,
        AnsweredIsCounted, history

LEMMA RecordStep ==
  ASSUME CheckInInv, NEW t \in Threads, RecordUsage(t) \/ RecordFails(t)
  PROVE  CheckInInv'
  <1>1. /\ pc[t] = "record" /\ pc' = [pc EXCEPT ![t] = "length"]
        /\ \/ usage' = usage \cup {Certificate(t)} /\ unrecorded' = unrecorded
           \/ usage' = usage /\ unrecorded' = unrecorded \cup {request[t]}
        /\ faults' \in 0..MaxFaults
        /\ UNCHANGED <<identity, resource, received, request, consumer, products,
                       issued, gone, answers>>
    BY BoundsAssumption
    DEF RecordUsage, RecordFails, Goto, Fault, CheckInInv, TypeOK, history
  <1>2. Certificate(t) \in Certificates /\ request[t] \in Requests
    BY <1>1, CertificateType DEF Loaded, CheckInInv, TypeOK
  <1>3. Certificate(t) \in issued
    BY <1>1 DEF CheckInInv, ThreadInv
  <1>4. TypeOK'
    BY <1>1, <1>2 DEF CheckInInv, TypeOK, resource
  <1>5. UsageIsCertified' /\ AnsweredIsCounted'
    BY <1>1, <1>3 DEF CheckInInv, UsageIsCertified, AnsweredIsCounted
  <1>6. ASSUME NEW u \in Threads PROVE ThreadInv(u)'
    <2>1. CASE u = t
      <3>1. ThreadInv(t) /\ pc[t] \in Loaded /\ pc'[t] = "length"
        BY <1>1 DEF CheckInInv, TypeOK, Loaded
      <3>2. Certificate(t)' \in usage' \/ request'[t] \in unrecorded'
        BY <1>1 DEF Certificate
      <3> QED
        BY <1>1, <2>1, <3>1, <3>2 DEF ThreadInv, Bound, Loaded
    <2>2. CASE u # t
      BY <1>1, <2>2, OthersKeep DEF resource
    <2> QED
      BY <2>1, <2>2
  <1> QED
    BY <1>1, <1>4, <1>5, <1>6
    DEF CheckInInv, GoneAreDeleted, IssuedAreReceived, NoneForTheDeleted

LEMMA KeepLengthStep ==
  ASSUME CheckInInv, NEW t \in Threads, KeepLength(t)
  PROVE  CheckInInv'
  <1>1. request[t] \in Requests /\ pc[t] = "length" /\ ThreadInv(t)
    BY DEF KeepLength, Goto, CheckInInv, TypeOK, ThreadInv
  <1>2. TypeOK'
    BY <1>1 DEF KeepLength, Goto, CheckInInv, TypeOK, history
  <1>3. ASSUME NEW u \in Threads PROVE ThreadInv(u)'
    <2>1. CASE u = t
      BY <1>1, <2>1
      DEF KeepLength, Goto, ThreadInv, Certificate, CheckInInv, TypeOK, Bound, Loaded, history
    <2>2. CASE u # t
      BY <1>1, <2>2, OthersKeep DEF KeepLength, Goto, history
    <2> QED
      BY <2>1, <2>2
  <1> QED
    BY <1>2, <1>3
    DEF KeepLength, CheckInInv, GoneAreDeleted, IssuedAreReceived, UsageIsCertified,
        AnsweredIsCounted, NoneForTheDeleted, history

\* The five ways in which a request of t ends
LEMMA EndStep ==
  ASSUME CheckInInv, NEW t \in Threads,
         \/ RefuseBody(t) \/ RefuseIdentity(t) \/ EntitlementFails(t)
         \/ Answer(t) \/ Interrupted(t)
  PROVE  CheckInInv'
  <1>0. TypeOK /\ IssuedAreReceived /\ NoneForTheDeleted /\ AnsweredIsCounted
    BY DEF CheckInInv
  <1>1. CASE RefuseBody(t) \/ RefuseIdentity(t) \/ Interrupted(t)
    <2>1. /\ Done(t) /\ faults' \in 0..MaxFaults
          /\ UNCHANGED <<identity, resource, received, issued, usage, history, answers>>
      BY <1>0, <1>1, BoundsAssumption
      DEF RefuseBody, RefuseIdentity, Interrupted, Fault, TypeOK
    <2> QED
      BY <1>0, <2>1, DoneKeeps
      DEF TypeOK, IssuedAreReceived, NoneForTheDeleted, AnsweredIsCounted
  <1>2. CASE EntitlementFails(t)
    <2>1. pc[t] \in Loaded
      BY <1>2 DEF EntitlementFails, Loaded
    <2>2. PICK lost \in SUBSET {Certificate(t)} : issued' = issued \cup lost
      BY <1>2 DEF EntitlementFails
    <2>3. /\ issued' \subseteq Certificates
          /\ \A x \in issued' : x.request \in received /\ x.consumer \notin gone[x.request]
      BY <1>0, <2>1, <2>2, CertificateType DEF TypeOK, IssuedAreReceived, NoneForTheDeleted
    <2>4. faults' \in 0..MaxFaults
      BY <1>0, <1>2, BoundsAssumption DEF EntitlementFails, Fault, TypeOK
    <2> QED
      BY <1>0, <1>2, <2>2, <2>3, <2>4, DoneKeeps
      DEF EntitlementFails, TypeOK, AnsweredIsCounted
  <1>3. CASE Answer(t)
    <2> DEFINE new == [certificate |-> Certificate(t), length |-> last_entitlement_call_length]
    <2>1. pc[t] \in Loaded /\ pc[t] = "answer"
      BY <1>3 DEF Answer, Loaded
    <2>2. /\ last_entitlement_call_length \in Requests
          /\ Certificate(t) \in usage \/ request[t] \in unrecorded
      BY <2>1 DEF CheckInInv, ThreadInv
    <2>3. new \in [certificate : Certificates, length : Requests]
      BY <2>1, <2>2, CertificateType
    <2>4. new.certificate \in usage \/ new.certificate.request \in unrecorded
      BY <2>1, <2>2, CertificateType
    <2>5. answers' = answers \cup {new}
      BY <1>3 DEF Answer
    <2>6. \A a \in answers' : a.certificate \in usage \/ a.certificate.request \in unrecorded
      BY <1>0, <2>4, <2>5 DEF AnsweredIsCounted
    <2>7. answers' \subseteq [certificate : Certificates, length : Requests]
      BY <1>0, <2>3, <2>5 DEF TypeOK
    <2> HIDE DEF new
    <2> QED
      BY <1>0, <1>3, <2>6, <2>7, DoneKeeps
      DEF Answer, TypeOK, IssuedAreReceived, NoneForTheDeleted
  <1> QED
    BY <1>1, <1>2, <1>3

LEMMA RestartStep ==
  ASSUME CheckInInv, Restart
  PROVE  CheckInInv'
  <1>1. TypeOK'
    BY BoundsAssumption DEF Restart, Fault, CheckInInv, TypeOK, history
  <1>2. \A t \in Threads : ThreadInv(t)'
    BY IdleThread DEF Restart
  <1> QED
    BY <1>1, <1>2
    DEF Restart, CheckInInv, GoneAreDeleted, IssuedAreReceived, UsageIsCertified,
        AnsweredIsCounted, NoneForTheDeleted, history

\* CheckInInv is inductive: what a thread holds stays true under the steps of the
\* others, of the synchronisation, and under failures.
THEOREM Strengthening == Spec => []CheckInInv
  <1>1. CheckInInv /\ UNCHANGED vars => CheckInInv'
    BY DEF vars, resource, locals, history, CheckInInv, TypeOK, GoneAreDeleted,
           IssuedAreReceived, UsageIsCertified, AnsweredIsCounted, NoneForTheDeleted,
           ThreadInv, Certificate
  <1>2. CheckInInv /\ Next => CheckInInv'
    BY SyncedStep, ReceiveStep, ReadCertificateStep, FindIdentityStep,
       RequestEntitlementStep, RecordStep, KeepLengthStep, EndStep, RestartStep
    DEF Next
  <1> QED
    BY <1>1, <1>2, InitCheckInInv, PTL DEF Spec

\* Every variable keeps its type.
THEOREM TypeCorrect == Spec => []TypeOK
  <1>1. CheckInInv => TypeOK
    BY DEF CheckInInv
  <1> QED
    BY <1>1, Strengthening, PTL

\* Usage is recorded only for what candlepin has issued, to the same consumer and
\* over the same products.
THEOREM UsageIsCertifiedHolds == Spec => []UsageIsCertified
  <1>1. CheckInInv => UsageIsCertified
    BY DEF CheckInInv
  <1> QED
    BY <1>1, Strengthening, PTL

\* Who was sent a certificate has been counted, unless recording failed.
THEOREM AnsweredIsCountedHolds == Spec => []AnsweredIsCounted
  <1>1. CheckInInv => AnsweredIsCounted
    BY DEF CheckInInv
  <1> QED
    BY <1>1, Strengthening, PTL

\* No request brings a certificate to a consumer whose deletion was known here
\* when it arrived.
THEOREM NoneForTheDeletedHolds == Spec => []NoneForTheDeleted
  <1>1. CheckInInv => NoneForTheDeleted
    BY DEF CheckInInv
  <1> QED
    BY <1>1, Strengthening, PTL

===============================================================================
