---------------------------- MODULE ServerMetadata ----------------------------
(***************************************************************************)
(* How the descriptions of the servers (SpliceServer documents) travel up  *)
(* a chain of splice servers: the metadata half of managers/upload.py on   *)
(* each sender, SpliceServerResource on each receiver.                     *)
(*                                                                         *)
(* A server describes itself at its first check-in and stamps the document *)
(* with the time.  Its uploader sends the documents whose stamp is above   *)
(* the last one acknowledged by the next server, its own and those that    *)
(* servers further down have sent it.  A stamp never changes on its way.   *)
(*                                                                         *)
(* There is one uploader per server (SingleTask), and the receiver imports *)
(* an object once however often it is sent (ResourceImport).               *)
(*                                                                         *)
(* Names are chosen not to be those of WireFormat, so that ChainProofs     *)
(* extends the two.                                                        *)
(***************************************************************************)
EXTENDS Naturals

CONSTANTS
  NumServers,   \* servers of the chain; server n sends to n + 1
  MaxTime,      \* bound: the clock
  MaxFailures   \* bound: lost messages, failed calls, killed uploaders

ASSUME ChainAssumption == NumServers \in Nat \ {0, 1}
ASSUME BoundsAssumption == MaxTime \in Nat \ {0} /\ MaxFailures \in Nat

VARIABLES
  now,      \* the time
  stamp,    \* stamp[n]: "updated" of the document that describes server n
  docs,     \* docs[n]: the servers whose document is in the database of n
  last,     \* last[n]: last_timestamp of what n has sent to n + 1, 0 for none
  pc,       \* pc[n]: the uploader of n
  batch,    \* batch[n]: the documents it has fetched
  todo,     \* todo[n]: those of its request that n + 1 has not looked at
  late,     \* late[n]: those of requests it does not wait for any more
  failures

uploader == <<pc, batch, todo, late>>
chain == <<now, stamp, docs, last, uploader, failures>>

Chain == 1..NumServers
Senders == 1..(NumServers - 1)
Times == 0..MaxTime

TypeOK ==
  /\ now \in 1..MaxTime
  /\ stamp \in [Chain -> Times]
  /\ docs \in [Chain -> SUBSET Chain]
  /\ last \in [Senders -> Times]
  /\ pc \in [Senders -> {"idle", "send", "wait", "mark"}]
  /\ batch \in [Senders -> SUBSET Chain]
  /\ todo \in [Senders -> SUBSET Chain]
  /\ late \in [Senders -> SUBSET Chain]
  /\ failures \in 0..MaxFailures

ChainInit ==
  /\ now = 1
  /\ stamp = [n \in Chain |-> 0]
  /\ docs = [n \in Chain |-> {}]
  /\ last = [n \in Senders |-> 0]
  /\ pc = [n \in Senders |-> "idle"]
  /\ batch = [n \in Senders |-> {}]
  /\ todo = [n \in Senders |-> {}]
  /\ late = [n \in Senders |-> {}]
  /\ failures = 0

Goto(n, from, to) == pc[n] = from /\ pc' = [pc EXCEPT ![n] = to]
Failure == failures < MaxFailures /\ failures' = failures + 1

-------------------------------------------------------------------------------
Tick == /\ now < MaxTime
        /\ now' = now + 1
        /\ UNCHANGED <<stamp, docs, last, uploader, failures>>

\* get_this_server: the first check-in saves the server's own document.  The
\* stamp is taken first, so that time may pass before the document is there.
GetThisServer(n) ==
  /\ n \notin docs[n]
  /\ \E t \in {now - 1, now} \ {0} : stamp' = [stamp EXCEPT ![n] = t]
  /\ docs' = [docs EXCEPT ![n] = @ \cup {n}]
  /\ UNCHANGED <<now, last, uploader, failures>>

\* _get_splice_server_metadata: updated__gt=last_timestamp.  Nobody else writes
\* last_timestamp between its read and the query.
NotYetUploaded(n) == {u \in docs[n] : stamp[u] > last[n]}

Fetch(n) == /\ NotYetUploaded(n) # {}
            /\ Goto(n, "idle", "send")
            /\ batch' = [batch EXCEPT ![n] = NotYetUploaded(n)]
            /\ UNCHANGED <<now, stamp, docs, last, todo, late, failures>>

\* upload_splice_server_metadata: POST
Send(n) == /\ Goto(n, "send", "wait")
           /\ todo' = [todo EXCEPT ![n] = batch[n]]
           /\ UNCHANGED <<now, stamp, docs, last, batch, late, failures>>

\* The receiver's create_hook, in the order of the request: oldest first
ImportNext(n) ==
  /\ pc[n] = "wait"
  /\ \E u \in todo[n] :
       /\ \A v \in todo[n] : stamp[u] <= stamp[v]
       /\ docs' = [docs EXCEPT ![n + 1] = @ \cup {u}]
       /\ todo' = [todo EXCEPT ![n] = @ \ {u}]
  /\ UNCHANGED <<now, stamp, last, pc, batch, late, failures>>

\* ... and of a request whose sender is gone
ImportLate(n, u) ==
  /\ u \in late[n]
  /\ docs' = [docs EXCEPT ![n + 1] = @ \cup {u}]
  /\ late' = [late EXCEPT ![n] = @ \ {u}]
  /\ UNCHANGED <<now, stamp, last, pc, batch, todo, failures>>

\* Mutant: the answer is not awaited
AcknowledgeEarly(n) == /\ Goto(n, "wait", "mark")
                       /\ late' = [late EXCEPT ![n] = @ \cup todo[n]]
                       /\ todo' = [todo EXCEPT ![n] = {}]
                       /\ UNCHANGED <<now, stamp, docs, last, batch, failures>>

\* All objects are imported: the answer is 204.
Acknowledge(n) == /\ todo[n] = {}
                  /\ Goto(n, "wait", "mark")
                  /\ UNCHANGED <<now, stamp, docs, last, batch, todo, late, failures>>

Idle(n) == /\ pc' = [pc EXCEPT ![n] = "idle"]
           /\ batch' = [batch EXCEPT ![n] = {}]
           /\ todo' = [todo EXCEPT ![n] = {}]

\* Mutant: the time of the upload, not the stamp of the last document sent
MarkNow(n) == /\ pc[n] = "mark"
              /\ last' = [last EXCEPT ![n] = now]
              /\ Idle(n)
              /\ UNCHANGED <<now, stamp, docs, late, failures>>

\* _update_last_timestamp: the stamp of the last document of the list, which is
\* ordered by stamps
Mark(n) == /\ pc[n] = "mark"
           /\ \E u \in batch[n] :
                /\ \A v \in batch[n] : stamp[v] <= stamp[u]
                /\ last' = [last EXCEPT ![n] = stamp[u]]
           /\ Idle(n)
           /\ UNCHANGED <<now, stamp, docs, late, failures>>

\* The message is lost, the receiver fails, the answer is an error or lost, or
\* the uploader is killed.  The receiver may go on with what it has received.
Fails(n) == /\ pc[n] # "idle"
            /\ Failure
            /\ \E rest \in {{}, todo[n]} : late' = [late EXCEPT ![n] = @ \cup rest]
            /\ Idle(n)
            /\ UNCHANGED <<now, stamp, docs, last>>

Upload(n) == Fetch(n) \/ Send(n) \/ ImportNext(n) \/ Acknowledge(n) \/ Mark(n)

ChainNext == \/ Tick
             \/ \E n \in Chain : GetThisServer(n)
             \/ \E n \in Senders : Upload(n) \/ Fails(n) \/ \E u \in Chain : ImportLate(n, u)

ChainSpec == ChainInit /\ [][ChainNext]_chain

\* Celery beat starts the uploaders again and again.
FairChain == ChainSpec /\ \A n \in Senders : WF_chain(Upload(n))

-------------------------------------------------------------------------------
\* last_timestamp is the stamp of a document that the next server has.  A
\* document is thus only ever held back by one at least as new that went ahead.
LastIsDelivered ==
  \A n \in Senders : last[n] > 0 => \E u \in docs[n + 1] : stamp[u] = last[n]

\* The inductive strengthening.  A document anywhere is still at its own server, so
\* that its stamp no longer changes; an uploader handles documents that its server
\* has, and what it has sent and need not send any more has been imported.
OriginKeeps == \A n \in Chain : \A u \in docs[n] : u \in docs[u]
UploaderHas == \A n \in Senders : batch[n] \cup todo[n] \cup late[n] \subseteq docs[n]
SentIsImported ==
  \A n \in Senders :
    /\ pc[n] # "idle" => batch[n] # {}
    /\ pc[n] = "wait" => batch[n] \ todo[n] \subseteq docs[n + 1]
    /\ pc[n] = "mark" => batch[n] \subseteq docs[n + 1]
ChainInv == TypeOK /\ OriginKeeps /\ UploaderHas /\ SentIsImported /\ LastIsDelivered

\* A server's description reaches the top of the chain, in spite of lost messages
\* and killed uploaders, unless another server's is at least as new.
Overtaken(u) == \E v \in Chain \ {u} : stamp[v] >= stamp[u]
DeliveredOrOvertaken ==
  \A u \in Chain : u \in docs[u] ~> u \in docs[NumServers] \/ Overtaken(u)

\* What the next server does not have is still to be sent.
NothingSkipped ==
  \A n \in Senders : \A u \in docs[n] \ docs[n + 1] : u \in NotYetUploaded(n)

=============================================================================
