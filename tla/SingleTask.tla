------------------------------ MODULE SingleTask ------------------------------
(***************************************************************************)
(* The MongoDB lock of common/enforce_single_tasks.py that keeps a celery  *)
(* task from running twice at the same time, seen from the pool processes  *)
(* of one celery worker host.                                              *)
(*                                                                         *)
(* The collection SingleTaskInfo has a unique index on task_id, so the     *)
(* entry of one task is a single document or none.  Every MongoDB call of  *)
(* lock() is one step: other processes run in between.  A process may die  *)
(* at any step, and the operating system may give its pid to another       *)
(* process.                                                                *)
(*                                                                         *)
(* Time is kept as ages: the age of an entry is now - created, the age of  *)
(* a run is the time since the worker accepted the task.                   *)
(***************************************************************************)
EXTENDS Naturals, FiniteSets

CONSTANTS
  Pids,               \* pids of the host
  PoolSize,           \* celeryd --concurrency
  TimeLimit,          \* celeryd --time-limit: the hard limit of a task
  SecondsExpire,      \* the decorator's seconds_expire
  MaxFaults,          \* bound: crashes and lost MongoDB answers
  RecycleRacingPids   \* may the OS reuse a pid that a process has just found dead?

ASSUME PoolAssumption == PoolSize \in Nat \ {0}
ASSUME TimeAssumption == /\ TimeLimit \in Nat /\ SecondsExpire \in Nat
                         /\ TimeLimit < SecondsExpire
ASSUME FaultAssumption == MaxFaults \in Nat /\ RecycleRacingPids \in BOOLEAN

VARIABLES
  entry,      \* the SingleTaskInfo document of the task, or NoEntry
  pc,         \* what the process with this pid is doing
  runAge,     \* age of the celery task it is executing
  seen,       \* local of remove_not_running: existing_task.owner_pid
  stamp,      \* age of the document lock() has built and not yet saved
  faults      \* faults so far

vars == <<entry, pc, runAge, seen, stamp, faults>>

NoEntry == [exists |-> FALSE]
Entry(p, a) == [exists |-> TRUE, owner |-> p, age |-> a]
Entries == {Entry(p, a) : p \in Pids, a \in 0..SecondsExpire}

\* "read" to "insert" are the steps of lock(); "running" is the decorated
\* function together with the release that follows it.
InLock == {"read", "check", "evict", "expire", "stamp", "insert"}
Busy == InLock \cup {"running"}
Pool == Busy \cup {"idle"}

InPool(p) == pc[p] \in Pool
Running == {p \in Pids : pc[p] = "running"}
OwnedBy(p) == entry.exists /\ entry.owner = p

TypeOK ==
  /\ entry \in Entries \cup {NoEntry}
  /\ pc \in [Pids -> Pool \cup {"foreign", "dead"}]
  /\ runAge \in [Pids -> 0..TimeLimit]
  /\ seen \in [Pids -> Pids]
  /\ stamp \in [Pids -> 0..TimeLimit]
  /\ faults \in 0..MaxFaults

\* The worker starts with its pool idle.  Whatever an earlier worker left in
\* the database is still there, owned by a pid that may by now be anyone's.
Init ==
  /\ entry \in Entries \cup {NoEntry}
  /\ pc \in {f \in [Pids -> {"idle", "dead"}] :
               Cardinality({p \in Pids : f[p] = "idle"}) = PoolSize}
  /\ runAge = [p \in Pids |-> 0]
  /\ seen = [p \in Pids |-> p]
  /\ stamp = [p \in Pids |-> 0]
  /\ faults = 0

-------------------------------------------------------------------------------
Goto(p, from, to) == pc[p] = from /\ pc' = [pc EXCEPT ![p] = to]

Fault == faults < MaxFaults /\ faults' = faults + 1

\* The locals of a process go back to their initial values when its task ends.
Forget(p) == /\ runAge' = [runAge EXCEPT ![p] = 0]
             /\ seen' = [seen EXCEPT ![p] = p]
             /\ stamp' = [stamp EXCEPT ![p] = 0]

\* A message of the queue reaches an idle pool process.
Start(p) == /\ Goto(p, "idle", "read")
            /\ UNCHANGED <<entry, runAge, seen, stamp, faults>>

\* remove_not_running: SingleTaskInfo.objects(task_id=task_id).first()
ReadEntry(p) ==
  /\ \/ entry.exists /\ Goto(p, "read", "check")
                     /\ seen' = [seen EXCEPT ![p] = entry.owner]
     \/ ~entry.exists /\ Goto(p, "read", "expire") /\ UNCHANGED seen
  /\ UNCHANGED <<entry, runAge, stamp, faults>>

\* Mutant: the test of check_pid the wrong way round
CheckPidInverted(p) ==
  /\ \/ InPool(seen[p]) /\ Goto(p, "check", "evict") /\ UNCHANGED seen
     \/ ~InPool(seen[p]) /\ Goto(p, "check", "expire")
                        /\ seen' = [seen EXCEPT ![p] = p]
  /\ UNCHANGED <<entry, runAge, stamp, faults>>

\* remove_not_running: check_pid, which is os.kill(pid, 0).  It raises OSError
\* when there is no such process, and also when it belongs to another user.
CheckPid(p) ==
  /\ \/ /\ InPool(seen[p]) \/ pc[seen[p]] = "foreign"
        /\ Goto(p, "check", "expire")
        /\ seen' = [seen EXCEPT ![p] = p]
     \/ /\ ~InPool(seen[p])
        /\ Goto(p, "check", "evict")
        /\ UNCHANGED seen
  /\ UNCHANGED <<entry, runAge, stamp, faults>>

\* remove_by_owner: findAndModify on task_id and owner_pid
RemoveByOwner(o) == entry' = IF OwnedBy(o) THEN NoEntry ELSE entry

\* Mutant: the dead owner's entry is removed by task_id alone
EvictByTaskId(p) == /\ Goto(p, "evict", "expire")
                    /\ entry' = NoEntry
                    /\ seen' = [seen EXCEPT ![p] = p]
                    /\ UNCHANGED <<runAge, stamp, faults>>

\* remove_not_running: remove_by_owner of the pid found dead
EvictDead(p) == /\ Goto(p, "evict", "expire")
                /\ RemoveByOwner(seen[p])
                /\ seen' = [seen EXCEPT ![p] = p]
                /\ UNCHANGED <<runAge, stamp, faults>>

\* Mutant: nothing ever expires
RemoveNothing(p) == /\ Goto(p, "expire", "stamp")
                    /\ UNCHANGED <<entry, runAge, seen, stamp, faults>>

\* remove_expired: findAndModify on created <= now - seconds_expire
RemoveExpired(p) ==
  /\ Goto(p, "expire", "stamp")
  /\ entry' = IF entry.exists /\ entry.age >= SecondsExpire THEN NoEntry ELSE entry
  /\ UNCHANGED <<runAge, seen, stamp, faults>>

\* Mutant: created is stamped once for the process, not for each document
BuildOldEntry(p) == /\ Goto(p, "stamp", "insert")
                    /\ stamp' = [stamp EXCEPT ![p] = TimeLimit]
                    /\ UNCHANGED <<entry, runAge, seen, faults>>

\* lock: the constructor of SingleTaskInfo stamps created with the time
BuildEntry(p) == /\ Goto(p, "stamp", "insert")
                 /\ stamp' = [stamp EXCEPT ![p] = 0]
                 /\ UNCHANGED <<entry, runAge, seen, faults>>

\* Mutant: task_id is not unique, save() always succeeds
InsertAlways(p) == /\ Goto(p, "insert", "running")
                   /\ entry' = Entry(p, stamp[p])
                   /\ stamp' = [stamp EXCEPT ![p] = 0]
                   /\ UNCHANGED <<runAge, seen, faults>>

\* lock: obj.save() inserts, or raises NotUniqueError and the task is skipped
Insert(p) ==
  /\ \/ /\ ~entry.exists
        /\ Goto(p, "insert", "running")
        /\ entry' = Entry(p, stamp[p])
        /\ stamp' = [stamp EXCEPT ![p] = 0]
        /\ UNCHANGED <<runAge, seen>>
     \/ /\ entry.exists
        /\ Goto(p, "insert", "idle")
        /\ Forget(p)
        /\ UNCHANGED entry
  /\ UNCHANGED faults

\* lock: the connection breaks after MongoDB applied the insert.  save() raises
\* something else than NotUniqueError, so lock() raises: no run, no release.
InsertAnswerLost(p) ==
  /\ Fault
  /\ Goto(p, "insert", "idle")
  /\ entry' = IF entry.exists THEN entry ELSE Entry(p, stamp[p])
  /\ Forget(p)

\* wrapper: the function returns or raises, and finally releases the entry
Release(p) == /\ Goto(p, "running", "idle")
              /\ RemoveByOwner(p)
              /\ Forget(p)
              /\ UNCHANGED faults

\* wrapper: release() itself raises and the entry stays
ReleaseFails(p) == /\ Fault
                   /\ Goto(p, "running", "idle")
                   /\ Forget(p)
                   /\ UNCHANGED entry

\* The process dies at any step: killed by hand, by the kernel, by a bug, or by
\* the hard limit before it got through lock().
Crash(p) == /\ Fault
            /\ pc[p] \in Pool
            /\ pc' = [pc EXCEPT ![p] = "dead"]
            /\ Forget(p)
            /\ UNCHANGED entry

\* The worker kills the process of a task that reached the hard time limit.
LimitKill(p) == /\ Goto(p, "running", "dead")
                /\ runAge[p] = TimeLimit
                /\ Forget(p)
                /\ UNCHANGED <<entry, faults>>

-------------------------------------------------------------------------------
\* A process is between finding this pid dead and removing its entry.
Racing(p) == \E q \in Pids : pc[q] = "evict" /\ seen[q] = p
MayReuse(p) == pc[p] = "dead" /\ (Racing(p) => RecycleRacingPids)

\* The worker replaces a dead pool process.
Spawn(p) == /\ MayReuse(p)
            /\ Cardinality({q \in Pids : pc[q] \in Pool}) < PoolSize
            /\ pc' = [pc EXCEPT ![p] = "idle"]
            /\ UNCHANGED <<entry, runAge, seen, stamp, faults>>

\* A process that has nothing to do with the pool gets the pid, or exits.  The
\* host keeps enough pids for the pool.
ForeignSpawn(p) == /\ MayReuse(p)
                   /\ Cardinality({q \in Pids : pc[q] # "foreign"}) > PoolSize
                   /\ pc' = [pc EXCEPT ![p] = "foreign"]
                   /\ UNCHANGED <<entry, runAge, seen, stamp, faults>>
ForeignExit(p) == /\ Goto(p, "foreign", "dead")
                  /\ UNCHANGED <<entry, runAge, seen, stamp, faults>>

\* Time passes, but never over the hard limit of a task: the worker kills it
\* first.  An entry older than seconds_expire is expired however old it is.
Tick ==
  /\ \A p \in Pids : pc[p] \in Busy => runAge[p] < TimeLimit
  /\ runAge' = [p \in Pids |-> IF pc[p] \in Busy THEN runAge[p] + 1 ELSE 0]
  /\ stamp' = [p \in Pids |-> IF pc[p] = "insert" THEN stamp[p] + 1 ELSE 0]
  /\ entry' = IF entry.exists /\ entry.age < SecondsExpire
                THEN [entry EXCEPT !.age = @ + 1] ELSE entry
  /\ UNCHANGED <<pc, seen, faults>>

LockStep(p) == \/ ReadEntry(p) \/ CheckPid(p) \/ EvictDead(p)
               \/ RemoveExpired(p) \/ BuildEntry(p) \/ Insert(p)

Next == \/ \E p \in Pids :
             \/ Start(p) \/ LockStep(p) \/ InsertAnswerLost(p)
             \/ Release(p) \/ ReleaseFails(p)
             \/ Crash(p) \/ LimitKill(p)
             \/ Spawn(p) \/ ForeignSpawn(p) \/ ForeignExit(p)
        \/ Tick

Spec == Init /\ [][Next]_vars

\* Celery beat keeps submitting the task to whichever process is idle, the
\* worker kills overdue tasks and refills its pool, and time passes.  Nothing
\* makes the decorated function end: it may hang until it is killed.
Fairness == /\ WF_vars(\E p \in Pids : Start(p))
            /\ WF_vars(\E p \in Pids : Spawn(p))
            /\ \A p \in Pids : WF_vars(LockStep(p)) /\ WF_vars(LimitKill(p))
            /\ WF_vars(Tick)

FairSpec == Spec /\ Fairness

-------------------------------------------------------------------------------
\* The inductive strengthening of the three properties that follow.  A runner's
\* entry is never older than its run, an unsaved document never older than the
\* task that built it, and a pid about to be evicted is still not in the pool.
RunnersEntryIsYoung == \A p \in Running : OwnedBy(p) /\ entry.age <= runAge[p]
StampIsYoung == \A p \in Pids : pc[p] = "insert" => stamp[p] <= runAge[p]
EvictedIsOut == RecycleRacingPids \/ \A p \in Pids : Racing(p) => ~InPool(p)
LockInv == TypeOK /\ RunnersEntryIsYoung /\ StampIsYoung /\ EvictedIsOut

\* At most one process is inside the decorated function: what the decorator
\* single_instance_task exists for.
MutualExclusion == \A p, q \in Running : p = q

\* While the function runs, the entry in the database is the runner's own and
\* has not expired: nobody evicted it and put another in its place.
RunnerOwnsEntry == \A p \in Running : OwnedBy(p) /\ entry.age < SecondsExpire

\* An entry disappears only because its owner released it, its owner is no pool
\* process any more, or it has expired: lock() of a third process never frees a lock that is in use.
EvictionJustified ==
  [][entry.exists /\ ~entry'.exists =>
       \/ entry.age >= SecondsExpire
       \/ ~InPool(entry.owner)
       \/ pc[entry.owner] = "running" /\ pc'[entry.owner] = "idle"]_vars

\* However a run ended, and whatever was left in the database, the task runs
\* again and again: no dead owner, lost answer or reused pid blocks it for good.
RunsAgain == []<>(Running # {})

\* Seen from outside, the lock is the abstract mutex: processes enter and leave
\* the function one after the other, whatever the lock does in between.
Mutex == INSTANCE TaskMutex WITH holders <- Running
ImplementsMutex == Mutex!Spec

=============================================================================
