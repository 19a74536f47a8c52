------------------------------ MODULE UsageUpload ------------------------------
(***************************************************************************)
(* Delivery of product usage: managers/upload.py on the sending server,    *)
(* ModifiedProductUsageResource.import_hook on each receiving server.      *)
(*                                                                         *)
(* A check-in stores a ProductUsage record.  The celery task               *)
(* upload_product_usage goes through the configured servers: it fetches    *)
(* the oldest records whose tracker does not name the server's address,    *)
(* posts them, and on success adds the address to the tracker of each      *)
(* record, one at a time.  A receiver saves the items one at a time and    *)
(* ignores those its unique index already holds.                           *)
(*                                                                         *)
(* The task is a single_instance_task: SingleTask shows that there is one  *)
(* uploader at a time.  It may be killed at any step; a receiver goes on   *)
(* with a request whose sender is gone.                                    *)
(***************************************************************************)
EXTENDS Naturals, FiniteSets

CONSTANTS
  Records,        \* ProductUsage records, in the order of their date
  NumServers,     \* configured reporting servers
  Addrs, Addr,    \* the address of each server: address:port:url, without port and url
  Limit,          \* upload_product_usage_limit_per_call, 0 for none
  MaxFaults       \* bound: kills, lost messages, failed database calls

Servers == 1..NumServers

ASSUME RecordsAssumption == Records \subseteq Nat
ASSUME ServersAssumption == NumServers \in Nat /\ Addr \in [Servers -> Addrs]
ASSUME LimitAssumption == Limit \in Nat /\ MaxFaults \in Nat

VARIABLES
  recorded,   \* records in the sender's database
  tracker,    \* tracker[r]: the addresses record r is marked as sent to
  stored,     \* stored[s]: records in the database of server s
  exposed,    \* exposed[s]: records server s received with a tracker in them
  requests,   \* POSTs the receivers are working on
  pc,         \* the uploader: idle, or its step for server srv
  srv,
  batch,      \* pu_data: the records it fetched, then those still to be marked
  faults

senderVars == <<pc, srv, batch>>
vars == <<recorded, tracker, stored, exposed, requests, senderVars, faults>>

\* A POST to server "to": the records not yet looked at, those that carry a
\* tracker, whether an item failed, and whether the uploader still waits for
\* the answer.
Requests == [to : Servers, todo : SUBSET Records, tracked : SUBSET Records,
             ok : BOOLEAN, live : BOOLEAN]

TypeOK ==
  /\ recorded \subseteq Records
  /\ tracker \in [Records -> SUBSET Addrs]
  /\ stored \in [Servers -> SUBSET Records]
  /\ exposed \in [Servers -> SUBSET Records]
  /\ requests \subseteq Requests
  /\ pc \in {"idle", "query", "send", "wait", "mark"}
  /\ srv \in Servers \cup {0}
  /\ batch \subseteq Records
  /\ faults \in 0..MaxFaults

Init ==
  /\ recorded = {}
  /\ tracker = [r \in Records |-> {}]
  /\ stored = [s \in Servers |-> {}]
  /\ exposed = [s \in Servers |-> {}]
  /\ requests = {}
  /\ pc = "idle" /\ srv = 0 /\ batch = {}
  /\ faults = 0

Fault == faults < MaxFaults /\ faults' = faults + 1

-------------------------------------------------------------------------------
(* The sender *)

\* record_usage: a check-in saves a record.  Records need not arrive in the
\* order of their dates: the date is taken before the save.
RecordUsage(r) == /\ r \notin recorded
                  /\ recorded' = recorded \cup {r}
                  /\ UNCHANGED <<tracker, stored, exposed, requests, senderVars, faults>>

\* The uploader goes on with the next server, or is done.
NextServer == IF srv < NumServers
                THEN pc' = "query" /\ srv' = srv + 1 /\ batch' = {}
                ELSE pc' = "idle" /\ srv' = 0 /\ batch' = {}

\* Nobody waits any more for the answer to any request.
Abandoned(Q) == {[q EXCEPT !.live = FALSE] : q \in Q}

\* upload_product_usage_data: started by celery beat
Start == /\ pc = "idle" /\ NumServers > 0
         /\ pc' = "query" /\ srv' = 1 /\ batch' = {}
         /\ UNCHANGED <<recorded, tracker, stored, exposed, requests, faults>>

\* _get_product_usage_data: tracker__nin=[addr], oldest first, at most limit
Unsent(s) == {r \in recorded : Addr[s] \notin tracker[r]}
Oldest(b, S) == \A x \in b, y \in S \ b : x < y
Fetched(b, S) == /\ b \subseteq S /\ Oldest(b, S)
                 /\ Limit = 0 \/ Cardinality(S) <= Limit => b = S
                 /\ Limit > 0 /\ Cardinality(S) > Limit => Cardinality(b) = Limit

\* Mutant: the query ignores the tracker, so the oldest records go out forever
QueryAll ==
  /\ pc = "query"
  /\ \E b \in SUBSET recorded :
       /\ Fetched(b, recorded)
       /\ \/ b = {} /\ NextServer
          \/ b # {} /\ pc' = "send" /\ srv' = srv /\ batch' = b
  /\ UNCHANGED <<recorded, tracker, stored, exposed, requests, faults>>

\* _process_product_usage_upload: fetch; nothing new ends this server
Query ==
  /\ pc = "query"
  /\ \E b \in SUBSET Unsent(srv) :
       /\ Fetched(b, Unsent(srv))
       /\ \/ b = {} /\ NextServer
          \/ b # {} /\ pc' = "send" /\ srv' = srv /\ batch' = b
  /\ UNCHANGED <<recorded, tracker, stored, exposed, requests, faults>>

\* splice_server_client.upload_product_usage_data: POST the batch.  The loop
\* that empties pu.tracker works on other copies than those sent, so a record
\* already marked for another address goes out with its tracker.
Send ==
  /\ pc = "send"
  /\ requests' = requests \cup
       {[to |-> srv, todo |-> batch, ok |-> TRUE, live |-> TRUE,
         tracked |-> {r \in batch : tracker[r] # {}}]}
  /\ pc' = "wait"
  /\ UNCHANGED <<recorded, tracker, stored, exposed, srv, batch, faults>>

\* The POST does not get through: the exception ends this server.
SendFails == /\ pc = "send"
             /\ Fault /\ NextServer
             /\ UNCHANGED <<recorded, tracker, stored, exposed, requests>>

Answered(q) == q \in requests /\ q.live /\ q.todo = {}

\* Mutant: the status of the answer is not looked at
AnswerUnchecked(q) ==
  /\ Answered(q) /\ pc = "wait"
  /\ requests' = requests \ {q}
  /\ pc' = "mark" /\ UNCHANGED <<srv, batch>>
  /\ UNCHANGED <<recorded, tracker, stored, exposed, faults>>

\* The answer arrives: 202 when every item was saved or a duplicate, else 409
\* or 400, which becomes a RequestException and leaves the batch unmarked.
Answer(q) ==
  /\ Answered(q) /\ pc = "wait"
  /\ requests' = requests \ {q}
  /\ \/ q.ok /\ pc' = "mark" /\ UNCHANGED <<srv, batch>>
     \/ ~q.ok /\ NextServer
  /\ UNCHANGED <<recorded, tracker, stored, exposed, faults>>

\* The connection breaks: the receiver may go on, the uploader does not wait.
AnswerLost == /\ pc = "wait"
              /\ Fault /\ NextServer
              /\ requests' = Abandoned(requests)
              /\ UNCHANGED <<recorded, tracker, stored, exposed>>

\* _mark_sent: update(add_to_set__tracker=addr), record by record
Mark(r) ==
  /\ pc = "mark" /\ r \in batch
  /\ tracker' = [tracker EXCEPT ![r] = @ \cup {Addr[srv]}]
  /\ IF batch = {r} THEN NextServer
                    ELSE batch' = batch \ {r} /\ UNCHANGED <<pc, srv>>
  /\ UNCHANGED <<recorded, stored, exposed, requests, faults>>

\* _mark_sent: a database error ends this server with the rest unmarked.
MarkFails == /\ pc = "mark"
             /\ Fault /\ NextServer
             /\ UNCHANGED <<recorded, tracker, stored, exposed, requests>>

\* The pool process of the uploader is killed.
Kill == /\ pc # "idle"
        /\ Fault
        /\ pc' = "idle" /\ srv' = 0 /\ batch' = {}
        /\ requests' = Abandoned(requests)
        /\ UNCHANGED <<recorded, tracker, stored, exposed>>

-------------------------------------------------------------------------------
(* The receivers *)

\* What is left of request q: items to look at, and whether it went well so far.
Remains(q, todo, ok) ==
  requests' = (requests \ {q}) \cup {[q EXCEPT !.todo = todo, !.ok = ok]}

\* import_hook: pu.save() inserts the item, or finds it there (NotUniqueError)
Import(q, r) ==
  /\ q \in requests /\ r \in q.todo
  /\ stored' = [stored EXCEPT ![q.to] = @ \cup {r}]
  /\ exposed' = [exposed EXCEPT ![q.to] =
                   IF r \in q.tracked /\ r \notin stored[q.to] THEN @ \cup {r} ELSE @]
  /\ Remains(q, q.todo \ {r}, q.ok)
  /\ UNCHANGED <<recorded, tracker, senderVars, faults>>

\* import_hook: OperationError on one item; the others are still saved
ImportFails(q, r) ==
  /\ q \in requests /\ r \in q.todo
  /\ Fault
  /\ Remains(q, q.todo \ {r}, FALSE)
  /\ UNCHANGED <<recorded, tracker, stored, exposed, senderVars>>

\* post_list: any other exception answers 400; the rest of the items is dropped
ImportAborts(q) ==
  /\ q \in requests /\ q.todo # {}
  /\ Fault
  /\ Remains(q, {}, FALSE)
  /\ UNCHANGED <<recorded, tracker, stored, exposed, senderVars>>

\* The answer of an abandoned request goes nowhere.
Discard(q) == /\ q \in requests /\ q.todo = {} /\ ~q.live
              /\ requests' = requests \ {q}
              /\ UNCHANGED <<recorded, tracker, stored, exposed, senderVars, faults>>

-------------------------------------------------------------------------------
Uploader == \/ Query \/ Send
            \/ \E q \in requests : Answer(q)
            \/ \E r \in batch : Mark(r)

Receiver == \E q \in requests : Discard(q) \/ \E r \in q.todo : Import(q, r)

Faulty == \/ SendFails \/ AnswerLost \/ MarkFails \/ Kill
          \/ \E q \in requests : ImportAborts(q) \/ \E r \in q.todo : ImportFails(q, r)

Next == \/ \E r \in Records : RecordUsage(r)
        \/ Start \/ Uploader \/ Receiver \/ Faulty

Spec == Init /\ [][Next]_vars

\* Celery beat starts the task again and again, a running task and the
\* receivers make progress.  Nothing obliges a check-in to happen.
FairSpec == Spec /\ WF_vars(Start) /\ WF_vars(Uploader) /\ WF_vars(Receiver)

-------------------------------------------------------------------------------
\* A record marked as sent to the address of a server is in that server's
\* database: marking is what stops the uploader from sending it ever again.
MarkedIsStored == \A r \in Records, s \in Servers : Addr[s] \in tracker[r] => r \in stored[s]

\* The inductive strengthening of MarkedIsStored.  What is about to be marked has
\* been acknowledged; at most one request is live, and then the uploader waits
\* for it; while it is without error, what it need not look at any more is stored.
AckedIsStored == pc = "mark" => batch \subseteq stored[srv]
LiveIsAwaited == \A q \in requests : q.live =>
                   /\ pc = "wait" /\ q.to = srv
                   /\ q.ok => batch \subseteq stored[srv] \cup q.todo
OneIsLive == \A p, q \in requests : p.live /\ q.live => p = q
UploadInv == /\ TypeOK /\ MarkedIsStored
             /\ AckedIsStored /\ LiveIsAwaited /\ OneIsLive
             /\ pc # "idle" => srv \in Servers

\* Nothing is lost: whatever messages are lost and wherever the uploader or the
\* import breaks, each record reaches each server and is marked there.
Delivered(r, s) == r \in stored[s] /\ Addr[s] \in tracker[r]
EventuallyDelivered ==
  \A r \in Records, s \in Servers : r \in recorded ~> Delivered(r, s)

\* A receiver learns nothing of the other servers a record went to.
TrackerIsPrivate == \A s \in Servers : exposed[s] = {}

=============================================================================
