------------------------------ MODULE RhicLookup ------------------------------
(***************************************************************************)
(* The asynchronous lookup of a RHIC (a consumer identity) that this       *)
(* server does not know: managers/identity_lookup.py, the lookup half of   *)
(* common/identity.py, the celery tasks sync_single_rhic and               *)
(* process_running_rhic_lookup_tasks, and the two requests that start a    *)
(* lookup: a consumer's check-in (entitlement/checkin.py) and a child      *)
(* server's query (RHICRCSModifiedResource in entitlement/apis.py).        *)
(*                                                                         *)
(* For each uuid MongoDB holds at most one RHICLookupTask record (unique   *)
(* index).  Web threads, celery jobs and the retry task read it, decide,   *)
(* and write it, each database call being one step; a write to a record    *)
(* that somebody deleted in between changes nothing.                       *)
(*                                                                         *)
(* The retry task is a single_instance_task, hence one process Beat; so is *)
(* sync_single_rhic, hence at most one running job whatever its uuid       *)
(* (SingleTask).                                                           *)
(***************************************************************************)
EXTENDS Naturals, FiniteSets

CONSTANTS
  Uuids,        \* uuids of RHICs
  Web,          \* threads of the WSGI process
  Jobs,         \* celery task ids of sync_single_rhic; bound on jobs at a time
  Kinds,        \* the requests made: "checkin", "rcs" (a child server's)
  Beat,         \* the process running process_running_rhic_lookup_tasks
  None,
  MaxFaults,    \* bound: lost or failed jobs, killed processes, error answers
  QuickWorkers  \* may a job start before its submitter has saved the record?

ASSUME ConstantsAssumption == /\ MaxFaults \in Nat /\ QuickWorkers \in BOOLEAN
                              /\ Kinds \subseteq {"checkin", "rcs"}

VARIABLES
  task,         \* task[u]: the RHICLookupTask of u, or NoTask
  known,        \* uuids with a ConsumerIdentity in our database
  parentKnows,  \* uuids the parent server knows
  proc,         \* proc[p]: the local state of a thread, a job, or Beat
  purging,      \* Beat: expired records it has read, not yet deleted
  retrying,     \* Beat: in-progress records it has read, not yet looked at
  faults

beatVars == <<purging, retrying>>
vars == <<task, known, parentKnows, proc, beatVars, faults>>

Procs == Web \cup {Beat} \cup Jobs

\* The fields of a record.  initOld: initiated + timeout < now.  modOld: a
\* completed record with modified < now - valid_hours.
NoTask == None
Tasks == [task_id : Jobs \cup {None}, completed : BOOLEAN,
          status_code : {None, 202, 404}, initOld : BOOLEAN, modOld : BOOLEAN]
ASSUME NoneAssumption == None \notin Uuids \cup Jobs \cup Tasks \cup {"there"}
Exists(u) == task[u] # NoTask
InProgress(u) == Exists(u) /\ ~task[u].completed

\* Local state: where the process is, the uuid it deals with, the record it has
\* read, the job it has submitted, the kind of request, the answer it has got.
\* The object id of the record read is only compared with that of the record in
\* the database: "there" says they are equal, "gone" that it has been deleted.
JobPcs == {"queued", "ask", "store", "complete", "drop", "set", "unset",
           "delete", "end", "done", "lost"}
InRun == {"ask", "store", "complete", "drop", "set", "unset", "delete", "end"}
CallerPcs == {"idle", "identity", "cached", "cachedDrop", "submit",
              "update", "updateDrop", "save"}
BeatPcs == {"purge", "retry"}
Answers == {200, 202, 404, 500}
Locals == [pc : JobPcs \cup CallerPcs \cup BeatPcs, uuid : Uuids \cup {None},
           held : {None, "there", "gone"}, job : Jobs \cup {None},
           kind : Kinds \cup {None}, ans : Answers \cup {None}]
At(pc) == [pc |-> pc, uuid |-> None, held |-> None, job |-> None,
           kind |-> None, ans |-> None]

TypeOK ==
  /\ task \in [Uuids -> Tasks \cup {NoTask}]
  /\ known \subseteq Uuids /\ parentKnows \subseteq Uuids
  /\ proc \in [Procs -> Locals]
  /\ purging \subseteq Uuids
  /\ retrying \subseteq Uuids \X (Jobs \cup {None})
  /\ faults \in 0..MaxFaults

Init ==
  /\ task = [u \in Uuids |-> NoTask]
  /\ known = {} /\ parentKnows = {}
  /\ proc = [p \in Procs |-> At(IF p \in Jobs THEN "done" ELSE "idle")]
  /\ purging = {} /\ retrying = {}
  /\ faults = 0

Fault == faults < MaxFaults /\ faults' = faults + 1
NoFault == UNCHANGED faults

Become(p, l) == proc' = [proc EXCEPT ![p] = l]
Goto(p, pc) == Become(p, [proc[p] EXCEPT !.pc = pc])

-------------------------------------------------------------------------------
(* The record: common/identity.py and mongoengine *)

\* Mutants of Expired: the timeout counts from the last modification; what was
\* once not found is cached for ever.
ExpiredByModified(t) == t.modOld
ExpiredNeverCached(t) == ~t.completed /\ t.initOld

\* is_rhic_lookup_task_expired
Expired(t) == IF t.completed THEN t.modOld ELSE t.initOld

\* delete_rhic_lookup by process p, which then becomes l.  The record is deleted
\* by its object id; one already gone is no error.
Delete(p, u, held, l) ==
  IF held # "there" THEN Become(p, l) /\ UNCHANGED <<task, purging>>
  ELSE /\ task' = [task EXCEPT ![u] = NoTask]
       /\ purging' = purging \ {u}
       /\ proc' = [q \in Procs |->
            IF q = p THEN l
            ELSE IF proc[q].uuid = u /\ proc[q].held = "there"
                   THEN [proc[q] EXCEPT !.held = "gone"] ELSE proc[q]]

\* save() of a record read earlier: $set of the assigned fields, no upsert
Set(p, f) == task' = IF proc[p].held = "there" THEN [task EXCEPT ![proc[p].uuid] = f]
                                               ELSE task

\* get_current_rhic_lookup_tasks: the read.  An expired record is deleted next,
\* a live one is returned to the caller, who goes on with it at "live".
Read(p, none, expired, live) ==
  LET u == proc[p].uuid IN
    IF ~Exists(u) THEN Goto(p, none)
    ELSE Become(p, [proc[p] EXCEPT !.held = "there",
                                   !.pc = IF Expired(task[u]) THEN expired ELSE live])

\* get_current_rhic_lookup_tasks: the delete, after which it returns None
Drop(p, next) == Delete(p, proc[p].uuid, proc[p].held,
                        [proc[p] EXCEPT !.held = None, !.pc = next])

-------------------------------------------------------------------------------
(* Starting a lookup: a request of a web thread, or Beat's retry *)

\* A task id is used again only when nothing refers to it any more.
Referenced(j) == \/ \E u \in Uuids : Exists(u) /\ task[u].task_id = j
                 \/ \E p \in Procs : proc[p].job = j
                 \/ \E x \in retrying : x[2] = j
FreeJobs == {j \in Jobs : proc[j].pc \in {"done", "lost"} /\ ~Referenced(j)}

\* A consumer checks in, or a child server asks.
Request(w, u, k) ==
  /\ proc[w].pc = "idle"
  /\ Become(w, [At("identity") EXCEPT !.uuid = u, !.kind = k])
  /\ UNCHANGED <<task, known, parentKnows, beatVars, faults>>

\* get_identity_object and RHICRcsResource.get_detail: is the identity known?
FindIdentity(w) ==
  /\ proc[w].pc = "identity"
  /\ IF proc[w].uuid \in known THEN Become(w, At("idle")) ELSE Goto(w, "cached")
  /\ UNCHANGED <<task, known, parentKnows, beatVars, faults>>

\* get_cached_status_code and handle_rhic_lookup.  A completed record answers
\* its code.  A record in progress answers 202 to a child server; a check-in
\* submits another lookup.
ReadCached(w) ==
  /\ proc[w].pc = "cached"
  /\ LET u == proc[w].uuid
         live == Exists(u) /\ ~Expired(task[u])
         to == [At("submit") EXCEPT !.uuid = u]
     IN Become(w, IF live /\ (task[u].completed \/ proc[w].kind = "rcs") THEN At("idle")
                  ELSE IF live \/ ~Exists(u) THEN to
                  ELSE [to EXCEPT !.pc = "cachedDrop", !.held = "there"])
  /\ UNCHANGED <<task, known, parentKnows, beatVars, faults>>

DropCached(w) == /\ proc[w].pc = "cachedDrop"
                 /\ Drop(w, "submit")
                 /\ UNCHANGED <<known, parentKnows, retrying, faults>>

\* create_rhic_lookup_task, or Beat's loop: sync_single_rhic.apply_async
Submit(p) ==
  /\ proc[p].pc = "submit" /\ FreeJobs # {}
  /\ LET j == CHOOSE x \in FreeJobs : TRUE
     IN proc' = [proc EXCEPT ![j] = [At("queued") EXCEPT !.uuid = proc[p].uuid],
                             ![p] = [@ EXCEPT !.pc = "update", !.job = j]]
  /\ UNCHANGED <<task, known, parentKnows, beatVars, faults>>

\* update_rhic_lookup_task: read the record, drop it if it has expired
ReadForUpdate(p) == /\ proc[p].pc = "update"
                    /\ Read(p, "save", "updateDrop", "save")
                    /\ UNCHANGED <<task, known, parentKnows, beatVars, faults>>
DropForUpdate(p) == /\ proc[p].pc = "updateDrop"
                    /\ Drop(p, "save")
                    /\ UNCHANGED <<known, parentKnows, retrying, faults>>

\* After its update a thread has answered 202; Beat goes on with its loop.
Updated(p) == Become(p, At(IF p = Beat THEN "retry" ELSE "idle"))

\* update_rhic_lookup_task: save a new record, or set task_id, modified and
\* completed of the one it has read
Save(p) ==
  /\ proc[p].pc = "save"
  /\ LET u == proc[p].uuid IN
       \/ /\ proc[p].held = None /\ ~Exists(u)
          /\ task' = [task EXCEPT ![u] =
               [task_id |-> proc[p].job, completed |-> FALSE, status_code |-> None,
                initOld |-> FALSE, modOld |-> FALSE]]
       \/ /\ proc[p].held # None
          /\ Set(p, [task[u] EXCEPT !.task_id = proc[p].job, !.completed = FALSE,
                                    !.modOld = FALSE])
  /\ Updated(p)
  /\ UNCHANGED <<known, parentKnows, beatVars, faults>>

\* save() of a new record when another process has inserted one meanwhile
\* raises NotUniqueError: HTTP 500 for a request, the end of the task for Beat.
SaveNotUnique(p) ==
  /\ proc[p].pc = "save" /\ proc[p].held = None /\ Exists(proc[p].uuid)
  /\ Become(p, At("idle"))
  /\ IF p = Beat THEN purging' = {} /\ retrying' = {} ELSE UNCHANGED beatVars
  /\ UNCHANGED <<task, known, parentKnows, faults>>

-------------------------------------------------------------------------------
(* The celery task sync_single_rhic *)

\* Its submitter has not saved the job's id in the record yet.
Unrecorded(j) == \E p \in Web \cup {Beat} : proc[p].job = j
MayStart(j) == proc[j].pc = "queued" /\ (Unrecorded(j) => QuickWorkers)
Running == {j \in Jobs : proc[j].pc \in InRun}

Enter(j) == /\ MayStart(j) /\ Running = {}
            /\ Goto(j, "ask")
            /\ UNCHANGED <<task, known, parentKnows, beatVars, faults>>

\* single_instance_task skips the job: another one runs, for whatever uuid, or
\* a lock was left behind.
Skip(j) == /\ MayStart(j)
           /\ IF Running # {} THEN NoFault ELSE Fault
           /\ Become(j, At("done"))
           /\ UNCHANGED <<task, known, parentKnows, beatVars>>

\* sync_single_rhic_blocking: the parent's answer
Ask(j, a) ==
  /\ proc[j].pc = "ask"
  /\ IF proc[j].uuid \in parentKnows THEN a \in {200, 500} ELSE a \in {202, 404, 500}
  /\ IF a = 500 THEN Fault ELSE NoFault
  /\ Become(j, [proc[j] EXCEPT !.ans = a, !.pc = IF a = 200 THEN "store" ELSE "complete"])
  /\ UNCHANGED <<task, known, parentKnows, beatVars>>

\* create_or_update_consumer_identity
Store(j) == /\ proc[j].pc = "store"
            /\ known' = known \cup {proc[j].uuid}
            /\ Goto(j, "complete")
            /\ UNCHANGED <<task, parentKnows, beatVars, faults>>

\* complete_rhic_lookup_task: read the record; without one the answer is dropped
Complete(j) ==
  /\ proc[j].pc = "complete"
  /\ Read(j, "end", "drop", IF proc[j].ans \in {202, 404} THEN "set" ELSE "delete")
  /\ UNCHANGED <<task, known, parentKnows, beatVars, faults>>
DropCompleted(j) == /\ proc[j].pc = "drop"
                    /\ Drop(j, "end")
                    /\ UNCHANGED <<known, parentKnows, retrying, faults>>

\* Mutants of SetStatus: a 202 completes the record, too; save() is an upsert.
SetStatusCompletes(j) ==
  /\ proc[j].pc = "set"
  /\ LET u == proc[j].uuid
     IN Set(j, [task[u] EXCEPT !.status_code = proc[j].ans, !.completed = TRUE,
                               !.modOld = FALSE])
  /\ Goto(j, "unset")
  /\ UNCHANGED <<known, parentKnows, beatVars, faults>>
SetStatusUpserts(j) ==
  /\ proc[j].pc = "set"
  /\ task' = [task EXCEPT ![proc[j].uuid] =
       [task_id |-> None, completed |-> proc[j].ans = 404, status_code |-> proc[j].ans,
        initOld |-> IF @ = NoTask THEN FALSE ELSE @.initOld, modOld |-> FALSE]]
  /\ Goto(j, "unset")
  /\ UNCHANGED <<known, parentKnows, beatVars, faults>>

\* A 404 completes the record, a 202 leaves it in progress.
WithAnswer(t, code) == [t EXCEPT !.status_code = code, !.completed = (code = 404), !.modOld = FALSE]

\* complete_rhic_lookup_task: save() is two updates, $set and then $unset
SetStatus(j) ==
  /\ proc[j].pc = "set"
  /\ Set(j, WithAnswer(task[proc[j].uuid], proc[j].ans))
  /\ Goto(j, "unset")
  /\ UNCHANGED <<known, parentKnows, beatVars, faults>>
UnsetTaskId(j) ==
  /\ proc[j].pc = "unset"
  /\ LET u == proc[j].uuid IN Set(j, [task[u] EXCEPT !.task_id = None])
  /\ Goto(j, "end")
  /\ UNCHANGED <<known, parentKnows, beatVars, faults>>

\* complete_rhic_lookup_task: found, or an unexpected status
DeleteTask(j) == /\ proc[j].pc = "delete"
                 /\ Drop(j, "end")
                 /\ UNCHANGED <<known, parentKnows, retrying, faults>>

\* The job ends and its lock is released.
End(j) == /\ proc[j].pc = "end"
          /\ Become(j, At("done"))
          /\ UNCHANGED <<task, known, parentKnows, beatVars, faults>>

\* The connection to the parent or to MongoDB fails, or the hard limit strikes:
\* the result backend knows of the failure.
JobFails(j) == /\ proc[j].pc \in InRun
               /\ Fault
               /\ Become(j, At("done"))
               /\ UNCHANGED <<task, known, parentKnows, beatVars>>

\* The message or the whole worker is lost: the job stays PENDING for ever.
JobLost(j) == /\ proc[j].pc \in InRun \cup {"queued"}
              /\ Fault
              /\ Become(j, At("lost"))
              /\ UNCHANGED <<task, known, parentKnows, beatVars>>

-------------------------------------------------------------------------------
(* The celery task process_running_rhic_lookup_tasks *)

\* purge_expired_rhic_lookups: read all records
BeatStart == /\ proc[Beat].pc = "idle"
             /\ Goto(Beat, "purge")
             /\ purging' = {u \in Uuids : Exists(u) /\ Expired(task[u])}
             /\ UNCHANGED <<task, known, parentKnows, retrying, faults>>

\* purge_expired_rhic_lookups: delete those that have expired
Purge == /\ proc[Beat].pc = "purge"
         /\ \E u \in purging : Delete(Beat, u, "there", proc[Beat])
         /\ UNCHANGED <<known, parentKnows, retrying, faults>>

\* get_in_progress_rhic_lookups
List == /\ proc[Beat].pc = "purge" /\ purging = {}
        /\ retrying' = {<<u, task[u].task_id>> :
                          u \in {v \in Uuids : InProgress(v) /\ ~Expired(task[v])}}
        /\ Goto(Beat, "retry")
        /\ UNCHANGED <<task, known, parentKnows, purging, faults>>

\* AsyncResult(task_id).state: PENDING unless the job is known to have ended
Pending(j) == j # None /\ proc[j].pc # "done"

Retry == /\ proc[Beat].pc = "retry"
         /\ \/ \E x \in retrying :
                 /\ retrying' = retrying \ {x}
                 /\ IF Pending(x[2]) THEN UNCHANGED proc
                                     ELSE Become(Beat, [At("submit") EXCEPT !.uuid = x[1]])
            \/ retrying = {} /\ Become(Beat, At("idle")) /\ UNCHANGED retrying
         /\ UNCHANGED <<task, known, parentKnows, purging, faults>>

\* A web process or the retry task is killed.
Killed(p) == /\ proc[p].pc # "idle"
             /\ Fault
             /\ Become(p, At("idle"))
             /\ IF p = Beat THEN purging' = {} /\ retrying' = {} ELSE UNCHANGED beatVars
             /\ UNCHANGED <<task, known, parentKnows>>

-------------------------------------------------------------------------------
(* The environment *)

\* The lookup timeout of a record in progress, the cache time of a completed one
TimesOut(u) == /\ Exists(u)
               /\ \/ ~task[u].initOld /\ task' = [task EXCEPT ![u].initOld = TRUE]
                  \/ /\ task[u].completed /\ ~task[u].modOld
                     /\ task' = [task EXCEPT ![u].modOld = TRUE, ![u].initOld = TRUE]
               /\ UNCHANGED <<known, parentKnows, proc, beatVars, faults>>

\* The RHIC is registered at the parent.
Register(u) == /\ u \notin parentKnows
               /\ parentKnows' = parentKnows \cup {u}
               /\ UNCHANGED <<task, known, proc, beatVars, faults>>

\* sync_rhics brings the identity meanwhile.
SyncedMeanwhile(u) == /\ u \in parentKnows /\ u \notin known
                      /\ known' = known \cup {u}
                      /\ UNCHANGED <<task, parentKnows, proc, beatVars, faults>>

UpdateStep(p) == Submit(p) \/ ReadForUpdate(p) \/ DropForUpdate(p) \/ Save(p) \/ SaveNotUnique(p)
WebStep(w) == FindIdentity(w) \/ ReadCached(w) \/ DropCached(w) \/ UpdateStep(w)
BeatStep == BeatStart \/ Purge \/ List \/ Retry \/ UpdateStep(Beat)
JobStart(j) == Enter(j) \/ Skip(j)
JobStep(j) == \/ \E a \in Answers : Ask(j, a)
              \/ Store(j) \/ Complete(j) \/ DropCompleted(j) \/ SetStatus(j)
              \/ UnsetTaskId(j) \/ DeleteTask(j) \/ End(j)

Next == \/ \E w \in Web : WebStep(w) \/ \E u \in Uuids, k \in Kinds : Request(w, u, k)
        \/ BeatStep
        \/ \E j \in Jobs : JobStart(j) \/ JobStep(j) \/ JobFails(j) \/ JobLost(j)
        \/ \E p \in Web \cup {Beat} : Killed(p)
        \/ \E u \in Uuids : TimesOut(u) \/ Register(u) \/ SyncedMeanwhile(u)

Spec == Init /\ [][Next]_vars

\* Threads and jobs proceed, beat keeps submitting the retry task, queued jobs
\* are delivered, time passes, and consumers keep checking in.
Fairness == /\ \A w \in Web : WF_vars(WebStep(w))
            /\ WF_vars(BeatStep)
            /\ \A j \in Jobs : WF_vars(JobStart(j)) /\ WF_vars(JobStep(j))
            /\ \A u \in Uuids : /\ WF_vars(TimesOut(u))
                                /\ WF_vars(\E w \in Web : Request(w, u, "checkin"))
FairSpec == Spec /\ Fairness

-------------------------------------------------------------------------------
\* A completed record always holds the parent's definitive "does not exist":
\* get_identity_object never has an unexpected code to report, and a child is
\* never told "in progress" by a record nobody works on any more.
CompletedIsNotFound == \A u \in Uuids : Exists(u) /\ task[u].completed => task[u].status_code = 404

\* What a process at work knows: the uuid it deals with, the job it has submitted, the
\* answer it is to store; and the record it holds is in the database unless it is "gone".
Holding == {"cachedDrop", "updateDrop", "save", "drop", "set", "unset", "delete", "end"}
Fits(l) ==
  /\ l.pc \notin {"idle", "purge", "retry", "done", "lost"} => l.uuid \in Uuids
  /\ l.pc \in {"update", "updateDrop", "save"} => l.job \in Jobs
  /\ l.pc \in {"set", "unset"} => l.ans \in {202, 404}
  /\ l.held # None => l.pc \in Holding
  /\ l.held = "there" => Exists(l.uuid)

\* Nobody works on a record that another process has deleted as if it were there: the
\* reads that the requests, the jobs and Beat base their writes on stay true or are known
\* to be stale.
LookupInv ==
  /\ TypeOK /\ CompletedIsNotFound
  /\ \A p \in Procs : Fits(proc[p])
  /\ \A u \in purging : Exists(u)

\* A record that was deleted, because the RHIC was found or the lookup timed
\* out, is never written back by a process that still holds it: what comes into
\* being is a new lookup that carries the job working on it.
DeletedStaysDeleted ==
  [][\A u \in Uuids : ~Exists(u) /\ Exists(u)' =>
       /\ ~task'[u].completed /\ ~task'[u].initOld /\ task'[u].task_id # None]_vars

\* No lookup stays in progress for ever: jobs may be lost, skipped or fail, the
\* parent may answer 202 for ever, yet the record is settled or purged.
LookupsEnd == \A u \in Uuids : InProgress(u) ~> ~InProgress(u)

\* A RHIC the parent knows becomes known here, as its consumer keeps asking.
FoundAtLast == \A u \in Uuids : u \in parentKnows ~> u \in known

\* A lookup that found its RHIC is over: when its job ends, no record in progress
\* refers to it.
FoundIsOver ==
  [][\A j \in Jobs : End(j) /\ proc[j].ans = 200 =>
       ~ \E u \in Uuids : InProgress(u) /\ task[u].task_id = j]_vars

\* A request for an unknown RHIC is answered with a cached code or 202, never
\* with an error.
RequestsAreAnswered == [][\A w \in Web : ~SaveNotUnique(w)]_vars

=============================================================================
