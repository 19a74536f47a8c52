--------------------------- MODULE UsageUploadProofs ---------------------------
(***************************************************************************)
(* Proofs about UsageUpload, for every set of records, every number of     *)
(* servers, limit and number of faults, when the servers have distinct     *)
(* addresses.                                                              *)
(*                                                                         *)
(* The argument: the uploader marks only what is left of its batch in step *)
(* "mark" (AckedIsStored), and it gets there only through an answer        *)
(* without error to its one live request (LiveIsAwaited, OneIsLive), of    *)
(* which every item was saved or was a duplicate.  Abandoned requests may  *)
(* go on in any order: they only add to a receiver's database.             *)
(***************************************************************************)
EXTENDS UsageUpload, TLAPS

\* Two servers never share an address.
DistinctAddrs == \A s, t \in Servers : Addr[s] = Addr[t] => s = t

LEMMA InitUploadInv == Init => UploadInv
  BY RecordsAssumption, ServersAssumption, LimitAssumption
  DEF Init, UploadInv, TypeOK, MarkedIsStored, AckedIsStored, LiveIsAwaited, OneIsLive

\* Going on with the next server: the uploader is in no step that matters.
LEMMA NextServerTypes ==
  ASSUME UploadInv, pc # "idle", NextServer
  PROVE  /\ pc' \in {"idle", "query"} /\ srv' \in Servers \cup {0} /\ batch' = {}
         /\ pc' # "idle" => srv' \in Servers
  BY ServersAssumption DEF NextServer, UploadInv, TypeOK, Servers

\* Abandoning leaves requests, none of them live.
LEMMA AbandonedTypes ==
  ASSUME NEW Q \in SUBSET Requests
  PROVE  Abandoned(Q) \subseteq Requests /\ \A q \in Abandoned(Q) : ~q.live
  BY DEF Abandoned, Requests

\* Outside "wait" no request is live.
LEMMA NoneLive ==
  ASSUME UploadInv, pc # "wait"
  PROVE  \A q \in requests : ~q.live
  BY DEF UploadInv, LiveIsAwaited

\* A step after which the uploader is in neither "wait" nor "mark" with no
\* request live, and that keeps the databases, keeps the invariant.
LEMMA QuietStep ==
  ASSUME UploadInv, UNCHANGED <<recorded, tracker, stored, exposed>>,
         pc' \in {"idle", "query"}, srv' \in Servers \cup {0}, batch' = {},
         pc' # "idle" => srv' \in Servers,
         requests' \subseteq Requests, \A q \in requests' : ~q.live,
         faults' \in 0..MaxFaults
  PROVE  UploadInv'
  BY DEF UploadInv, TypeOK, MarkedIsStored, AckedIsStored, LiveIsAwaited, OneIsLive

LEMMA SenderSteps ==
  ASSUME UploadInv, DistinctAddrs,
         \/ Start \/ Uploader \/ SendFails \/ AnswerLost \/ MarkFails \/ Kill
  PROVE  UploadInv'
  <1>0. TypeOK /\ (pc # "idle" => srv \in Servers) /\ requests \subseteq Requests
    BY DEF UploadInv, TypeOK
  <1>1. CASE Start
    <2>1. srv' \in Servers
      BY <1>1, ServersAssumption DEF Start, Servers
    <2> QED
      BY <1>0, <1>1, <2>1, NoneLive, QuietStep DEF Start, TypeOK
  <1>2. CASE Query
    <2>1. PICK b \in SUBSET Unsent(srv) :
                 \/ b = {} /\ NextServer
                 \/ b # {} /\ pc' = "send" /\ srv' = srv /\ batch' = b
      BY <1>2 DEF Query
    <2>2. CASE NextServer
      BY <1>0, <1>2, <2>2, NextServerTypes, NoneLive, QuietStep DEF Query, TypeOK
    <2>3. CASE pc' = "send" /\ srv' = srv /\ batch' = b
      <3>1. b \subseteq Records
        BY <1>0 DEF Unsent, TypeOK
      <3> QED
        BY <1>2, <2>3, <3>1, NoneLive
        DEF Query, UploadInv, TypeOK, MarkedIsStored, AckedIsStored, LiveIsAwaited, OneIsLive
    <2> QED
      BY <2>1, <2>2, <2>3
  <1>3. CASE Send
    <2> DEFINE new == [to |-> srv, todo |-> batch, ok |-> TRUE, live |-> TRUE,
                       tracked |-> {r \in batch : tracker[r] # {}}]
    <2>1. new \in Requests
      BY <1>0, <1>3 DEF Send, Requests, TypeOK
    <2>2. requests' = requests \cup {new} /\ pc' = "wait" /\ srv' = srv /\ batch' = batch
      BY <1>3 DEF Send
    <2>3. \A q \in requests : ~q.live
      BY <1>3, NoneLive DEF Send
    <2>4. TypeOK'
      BY <1>0, <1>3, <2>1, <2>2 DEF Send, TypeOK
    <2>5. LiveIsAwaited' /\ OneIsLive'
      <3>1. new.to = srv /\ new.todo = batch
        OBVIOUS
      <3>2. \A q \in requests' : q.live => q = new
        BY <2>2, <2>3
      <3> HIDE DEF new
      <3>3. OneIsLive'
        BY <3>2 DEF OneIsLive
      <3>4. ASSUME NEW q \in requests', q.live
            PROVE  pc' = "wait" /\ q.to = srv' /\ batch' \subseteq q.todo
        BY <2>2, <3>1, <3>2, <3>4
      <3> QED
        BY <3>3, <3>4 DEF LiveIsAwaited
    <2> QED
      BY <1>0, <1>3, <2>2, <2>4, <2>5
      DEF Send, UploadInv, MarkedIsStored, AckedIsStored
  <1>4. ASSUME NEW q \in requests, Answer(q)
        PROVE  UploadInv'
    <2>1. q.live /\ q.todo = {} /\ pc = "wait" /\ requests' = requests \ {q}
      BY <1>4 DEF Answer, Answered
    <2>2. \A p \in requests' : ~p.live
      BY <2>1 DEF UploadInv, OneIsLive
    <2>3. CASE NextServer
      BY <1>0, <1>4, <2>1, <2>2, <2>3, NextServerTypes, QuietStep DEF Answer, TypeOK
    <2>4. CASE q.ok /\ pc' = "mark" /\ UNCHANGED <<srv, batch>>
      <3>1. batch \subseteq stored[srv]
        BY <2>1, <2>4 DEF UploadInv, LiveIsAwaited
      <3> QED
        BY <1>0, <1>4, <2>1, <2>2, <2>4, <3>1
        DEF Answer, UploadInv, TypeOK, MarkedIsStored, AckedIsStored, LiveIsAwaited, OneIsLive
    <2> QED
      BY <1>4, <2>3, <2>4 DEF Answer
  <1>5. ASSUME NEW r \in batch, Mark(r)
        PROVE  UploadInv'
    <2>1. pc = "mark" /\ r \in stored[srv] /\ srv \in Servers /\ r \in Records
      BY <1>0, <1>5 DEF Mark, UploadInv, AckedIsStored, TypeOK
    <2>2. tracker' = [tracker EXCEPT ![r] = @ \cup {Addr[srv]}] /\ stored' = stored
      BY <1>5 DEF Mark
    <2>3. tracker' \in [Records -> SUBSET Addrs]
      BY <1>0, <2>1, <2>2, ServersAssumption DEF TypeOK
    <2>4. MarkedIsStored'
      <3> SUFFICES ASSUME NEW x \in Records, NEW s \in Servers, Addr[s] \in tracker'[x]
                   PROVE  x \in stored[s]
        BY <2>2 DEF MarkedIsStored
      <3>1. CASE Addr[s] \in tracker[x]
        BY <3>1 DEF UploadInv, MarkedIsStored
      <3>2. CASE Addr[s] \notin tracker[x]
        <4>1. x = r /\ Addr[s] = Addr[srv]
          BY <1>0, <2>2, <3>2 DEF TypeOK
        <4> QED
          BY <2>1, <4>1 DEF DistinctAddrs
      <3> QED
        BY <3>1, <3>2
    <2>5. \A q \in requests' : ~q.live
      BY <1>5, <2>1, NoneLive DEF Mark
    <2>6. CASE NextServer
      BY <1>0, <1>5, <2>1, <2>2, <2>3, <2>4, <2>5, <2>6, NextServerTypes
      DEF Mark, UploadInv, TypeOK, AckedIsStored, LiveIsAwaited, OneIsLive
    <2>7. CASE batch' = batch \ {r} /\ UNCHANGED <<pc, srv>>
      BY <1>0, <1>5, <2>2, <2>3, <2>4, <2>5, <2>7
      DEF Mark, UploadInv, TypeOK, AckedIsStored, LiveIsAwaited, OneIsLive
    <2> QED
      BY <1>5, <2>6, <2>7 DEF Mark
  <1>6. CASE SendFails \/ MarkFails
    BY <1>0, <1>6, NextServerTypes, NoneLive, QuietStep, LimitAssumption
    DEF SendFails, MarkFails, Fault, TypeOK
  <1>7. CASE AnswerLost
    BY <1>0, <1>7, NextServerTypes, AbandonedTypes, QuietStep, LimitAssumption
    DEF AnswerLost, Fault, TypeOK
  <1>8. CASE Kill
    BY <1>0, <1>8, AbandonedTypes, QuietStep, LimitAssumption DEF Kill, Fault, TypeOK
  <1> QED
    BY <1>1, <1>2, <1>3, <1>4, <1>5, <1>6, <1>7, <1>8 DEF Uploader

-------------------------------------------------------------------------------
\* The receivers only add to their databases, and an item leaves the "todo" of a
\* request without error only when it is stored.
LEMMA ProgressOnRequest ==
  ASSUME UploadInv, UNCHANGED <<recorded, tracker, senderVars>>,
         NEW q \in requests, NEW t \in SUBSET q.todo, NEW k \in BOOLEAN,
         Remains(q, t, k),
         stored' \in [Servers -> SUBSET Records],
         \A s \in Servers : stored[s] \subseteq stored'[s],
         k => q.ok /\ q.todo \subseteq stored'[q.to] \cup t,
         exposed' \in [Servers -> SUBSET Records], faults' \in 0..MaxFaults
  PROVE  UploadInv'
  <1> DEFINE new == [q EXCEPT !.todo = t, !.ok = k]
  <1>0. TypeOK /\ q \in Requests /\ (pc # "idle" => srv \in Servers)
    BY DEF UploadInv, TypeOK
  <1>1. /\ new \in Requests
        /\ new.to = q.to /\ new.todo = t /\ new.ok = k /\ new.live = q.live
    BY <1>0 DEF Requests
  <1>2. requests' = (requests \ {q}) \cup {new}
    BY DEF Remains
  <1> HIDE DEF new
  <1>3. TypeOK'
    BY <1>0, <1>1, <1>2 DEF TypeOK, senderVars
  <1>4. MarkedIsStored' /\ AckedIsStored'
    BY <1>0 DEF UploadInv, MarkedIsStored, AckedIsStored, senderVars
  <1>5. LiveIsAwaited'
    <2> SUFFICES ASSUME NEW p \in requests', p.live
                 PROVE  /\ pc = "wait" /\ p.to = srv
                        /\ p.ok => batch \subseteq stored'[srv] \cup p.todo
      BY DEF LiveIsAwaited, senderVars
    <2>1. CASE p \in requests
      BY <1>0, <2>1 DEF UploadInv, LiveIsAwaited
    <2>2. CASE p = new
      <3>1. pc = "wait" /\ q.to = srv /\ (q.ok => batch \subseteq stored[srv] \cup q.todo)
        BY <1>1, <2>2 DEF UploadInv, LiveIsAwaited
      <3> QED
        BY <1>0, <1>1, <2>2, <3>1
    <2> QED
      BY <1>2, <2>1, <2>2
  <1>6. OneIsLive'
    BY <1>1, <1>2 DEF UploadInv, OneIsLive
  <1> QED
    BY <1>0, <1>3, <1>4, <1>5, <1>6 DEF UploadInv, senderVars

LEMMA ReceiverSteps ==
  ASSUME UploadInv, NEW q \in requests,
         \/ Discard(q) \/ ImportAborts(q)
         \/ \E r \in q.todo : Import(q, r) \/ ImportFails(q, r)
  PROVE  UploadInv'
  <1>0. TypeOK /\ q \in Requests
    BY DEF UploadInv, TypeOK
  <1>1. ASSUME NEW r \in q.todo, Import(q, r)
        PROVE  UploadInv'
    <2>1. r \in Records /\ q.to \in Servers
      BY <1>0 DEF Requests
    <2>2. Remains(q, q.todo \ {r}, q.ok) /\ q.ok \in BOOLEAN
      BY <1>0, <1>1 DEF Import, Requests
    <2>3. /\ stored' \in [Servers -> SUBSET Records]
          /\ exposed' \in [Servers -> SUBSET Records]
          /\ \A s \in Servers : stored[s] \subseteq stored'[s]
          /\ r \in stored'[q.to]
      BY <1>0, <1>1, <2>1 DEF Import, TypeOK
    <2> QED
      BY <1>0, <1>1, <2>2, <2>3, ProgressOnRequest DEF Import, TypeOK
  <1>2. ASSUME NEW r \in q.todo, ImportFails(q, r)
        PROVE  UploadInv'
    <2>1. Remains(q, q.todo \ {r}, FALSE)
      BY <1>2 DEF ImportFails
    <2>3. faults' \in 0..MaxFaults
      BY <1>0, <1>2, LimitAssumption DEF ImportFails, Fault, TypeOK
    <2>2. /\ UNCHANGED <<recorded, tracker, senderVars>>
          /\ stored' \in [Servers -> SUBSET Records]
          /\ exposed' \in [Servers -> SUBSET Records]
          /\ \A s \in Servers : stored[s] \subseteq stored'[s]
      BY <1>0, <1>2 DEF ImportFails, TypeOK
    <2> QED
      BY <2>1, <2>2, <2>3, ProgressOnRequest
  <1>3. CASE ImportAborts(q)
    <2>1. Remains(q, {}, FALSE)
      BY <1>3 DEF ImportAborts
    <2>3. faults' \in 0..MaxFaults
      BY <1>0, <1>3, LimitAssumption DEF ImportAborts, Fault, TypeOK
    <2>2. /\ UNCHANGED <<recorded, tracker, senderVars>>
          /\ stored' \in [Servers -> SUBSET Records]
          /\ exposed' \in [Servers -> SUBSET Records]
          /\ \A s \in Servers : stored[s] \subseteq stored'[s]
      BY <1>0, <1>3 DEF ImportAborts, TypeOK
    <2> QED
      BY <2>1, <2>2, <2>3, ProgressOnRequest
  <1>4. CASE Discard(q)
    BY <1>0, <1>4 DEF Discard, senderVars, UploadInv, TypeOK, MarkedIsStored, AckedIsStored,
                      LiveIsAwaited, OneIsLive
  <1> QED
    BY <1>1, <1>2, <1>3, <1>4

LEMMA NextUploadInv ==
  ASSUME DistinctAddrs
  PROVE  UploadInv /\ [Next]_vars => UploadInv'
  <1> SUFFICES ASSUME UploadInv, [Next]_vars PROVE UploadInv'
    OBVIOUS
  <1>1. ASSUME NEW r \in Records, RecordUsage(r) PROVE UploadInv'
    BY <1>1 DEF RecordUsage, senderVars, UploadInv, TypeOK, MarkedIsStored, AckedIsStored,
                LiveIsAwaited, OneIsLive
  <1>2. CASE UNCHANGED vars
    BY <1>2 DEF vars, senderVars, UploadInv, TypeOK, MarkedIsStored, AckedIsStored,
                LiveIsAwaited, OneIsLive
  <1> QED
    BY <1>1, <1>2, SenderSteps, ReceiverSteps DEF Next, Receiver, Faulty

\* The strengthening holds in every reachable state: what is about to be marked has
\* been stored, and at most one request is one that the uploader waits for.
THEOREM Strengthening ==
  ASSUME DistinctAddrs
  PROVE  Spec => []UploadInv
  <1> QED
    BY InitUploadInv, NextUploadInv, PTL DEF Spec

\* Every variable keeps its type: part of the invariant.
THEOREM TypeCorrect ==
  ASSUME DistinctAddrs
  PROVE  Spec => []TypeOK
  <1>1. UploadInv => TypeOK
    BY DEF UploadInv
  <1> QED
    BY <1>1, InitUploadInv, NextUploadInv, PTL DEF Spec

\* No record is ever marked as sent to a server that does not have it: kills,
\* lost answers and partial imports lead to a repeated upload, not to a loss.
THEOREM MarkedIsStoredHolds ==
  ASSUME DistinctAddrs
  PROVE  Spec => []MarkedIsStored
  <1>1. UploadInv => MarkedIsStored
    BY DEF UploadInv
  <1> QED
    BY <1>1, InitUploadInv, NextUploadInv, PTL DEF Spec

=============================================================================
