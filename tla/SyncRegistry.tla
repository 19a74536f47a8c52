----------------------------- MODULE SyncRegistry -----------------------------
(***************************************************************************)
(* The registry of sync threads: JOBS, JOB_LOCK, sync_from_rhic_serve and  *)
(* SyncRHICServeThread of common/identity.py.                              *)
(*                                                                         *)
(* A caller starts a thread unless the registered one still runs, all      *)
(* under JOB_LOCK.  A thread that is done sets its flag finished without   *)
(* the lock, then takes the lock and deletes the entry under the name of   *)
(* its class: whatever thread is registered there by then.  All threads    *)
(* share the one name, so JOBS is one entry.                               *)
(*                                                                         *)
(* Names are chosen not to be those of IdentitySync and CandlepinSync, so  *)
(* that SyncProofs extends the three.                                      *)
(***************************************************************************)
EXTENDS Naturals, FiniteSets

CONSTANTS
  Callers,     \* threads that call sync_from_rhic_serve
  Threads,     \* the SyncRHICServeThread objects: bounds how many are made
  None

ASSUME RegistryAssumption == Callers \cap Threads = {} /\ None \notin Callers \cup Threads

VARIABLES
  JOBS,        \* the registered thread, or None
  JOB_LOCK,    \* who holds the lock, or None
  state,       \* of each sync thread
  caller,      \* the step of each caller
  thread,      \* the local t of each caller
  forgotten    \* history: the threads whose entry another one has deleted

registry == <<JOBS, JOB_LOCK, state, caller, thread, forgotten>>

\* finished is the flag of a thread; it is set before the entry is removed
Finished(t) == state[t] \in {"finished", "removing", "done"}
InProgress == IF JOBS = None THEN FALSE ELSE ~Finished(JOBS)
Running == {t \in Threads : state[t] = "running"}

RegistryTypes ==
  /\ JOBS \in Threads \cup {None}
  /\ JOB_LOCK \in Callers \cup Threads \cup {None}
  /\ state \in [Threads -> {"new", "running", "finished", "removing", "done"}]
  /\ caller \in [Callers -> {"idle", "check", "register", "release"}]
  /\ thread \in [Callers -> Threads \cup {None}]
  /\ forgotten \subseteq Threads

RegistryInit ==
  /\ JOBS = None /\ JOB_LOCK = None
  /\ state = [t \in Threads |-> "new"]
  /\ caller = [c \in Callers |-> "idle"]
  /\ thread = [c \in Callers |-> None]
  /\ forgotten = {}

Acquire(x) == JOB_LOCK = None /\ JOB_LOCK' = x
Proceed(c, from, to) == caller[c] = from /\ caller' = [caller EXCEPT ![c] = to]

-----------------------------------------------------------------------------
(* sync_from_rhic_serve *)

Call(c) ==
  /\ Proceed(c, "idle", "check")
  /\ Acquire(c)
  /\ UNCHANGED <<JOBS, state, thread, forgotten>>

\* A sync job is on-going: nothing is started.
Decline(c) ==
  /\ Proceed(c, "check", "release")
  /\ InProgress
  /\ UNCHANGED <<JOBS, JOB_LOCK, state, thread, forgotten>>

\* A new thread runs from here on, before it is registered.
NewThread(c) ==
  /\ Proceed(c, "check", "register")
  /\ \E t \in Threads :
       /\ state[t] = "new"
       /\ state' = [state EXCEPT ![t] = "running"]
       /\ thread' = [thread EXCEPT ![c] = t]
  /\ UNCHANGED <<JOBS, forgotten>>

\* Mutants: the registered thread is not looked at; the lock is released too early, so
\* that the new thread may be gone before it is registered
StartAnyway(c) == NewThread(c) /\ UNCHANGED JOB_LOCK
StartUnlocked(c) == ~InProgress /\ NewThread(c) /\ JOB_LOCK' = None

StartThread(c) ==
  /\ ~InProgress
  /\ NewThread(c)
  /\ UNCHANGED JOB_LOCK

\* Mutant: start() is called again until it works
StartAgain(c) == caller[c] = "check" /\ ~InProgress /\ UNCHANGED registry

\* start() raises: there is no thread to be had.
StartFails(c) ==
  /\ Proceed(c, "check", "release")
  /\ ~InProgress
  /\ UNCHANGED <<JOBS, JOB_LOCK, state, thread, forgotten>>

Register(c) ==
  /\ Proceed(c, "register", "release")
  /\ JOBS' = thread[c]
  /\ UNCHANGED <<JOB_LOCK, state, thread, forgotten>>

Release(c) ==
  /\ Proceed(c, "release", "idle")
  /\ JOB_LOCK' = None
  /\ thread' = [thread EXCEPT ![c] = None]
  /\ UNCHANGED <<JOBS, state, forgotten>>

-----------------------------------------------------------------------------
(* SyncRHICServeThread.run *)

\* The sync returns or raises; either way the flag is set.
Finish(t) ==
  /\ state[t] = "running"
  /\ state' = [state EXCEPT ![t] = "finished"]
  /\ UNCHANGED <<JOBS, JOB_LOCK, caller, thread, forgotten>>

\* Mutant: the entry is left when the sync has raised
RemoveAfterSuccess(t) ==
  /\ state[t] = "finished"
  /\ Acquire(t)
  /\ state' = [state EXCEPT ![t] = "removing"]
  /\ \/ JOBS' = None /\ forgotten' = forgotten \cup ({JOBS} \ {t, None})
     \/ UNCHANGED <<JOBS, forgotten>>
  /\ UNCHANGED <<caller, thread>>

\* remove_reference deletes the entry, whosever it is ...
RemoveReference(t) ==
  /\ state[t] = "finished"
  /\ Acquire(t)
  /\ state' = [state EXCEPT ![t] = "removing"]
  /\ JOBS' = None
  /\ forgotten' = forgotten \cup ({JOBS} \ {t, None})
  /\ UNCHANGED <<caller, thread>>

\* ... and releases the lock.
ReleaseReference(t) ==
  /\ state[t] = "removing"
  /\ JOB_LOCK' = None
  /\ state' = [state EXCEPT ![t] = "done"]
  /\ UNCHANGED <<JOBS, caller, thread, forgotten>>

-----------------------------------------------------------------------------

CallerStep(c) == Decline(c) \/ StartThread(c) \/ StartFails(c) \/ Register(c) \/ Release(c)
ThreadStep(t) == Finish(t) \/ RemoveReference(t) \/ ReleaseReference(t)

RegistryNext == \/ \E c \in Callers : Call(c) \/ CallerStep(c)
                \/ \E t \in Threads : ThreadStep(t)

RegistrySpec == RegistryInit /\ [][RegistryNext]_registry

\* A caller that has the lock goes on, a sync ends, and a thread that waits for the
\* lock gets it in the end: Python hands it on without an order, but callers come
\* seldom, so that it is free again and again and not always taken by another one.
FairRegistry == /\ RegistrySpec
                /\ \A c \in Callers : WF_registry(CallerStep(c))
                /\ \A t \in Threads : SF_registry(ThreadStep(t))

-----------------------------------------------------------------------------
(* Properties *)

\* The lock is held by whoever is between its acquire and its release: no path of
\* sync_from_rhic_serve or of remove_reference leaves it taken.
LockIsHeld ==
  /\ \A c \in Callers : (JOB_LOCK = c) <=> (caller[c] # "idle")
  /\ \A t \in Threads : (JOB_LOCK = t) <=> (state[t] = "removing")

\* A caller keeps a thread of its own from its start to the release, and has registered
\* it by then.
ThreadIsHeld ==
  \A c \in Callers :
    /\ caller[c] \in {"idle", "check"} => thread[c] = None
    /\ caller[c] = "register" => /\ thread[c] # None
                                 /\ state[thread[c]] \in {"running", "finished"}
                                 /\ ~InProgress
    /\ caller[c] = "release" /\ thread[c] # None => JOBS = thread[c]

\* A thread never ends before it is registered: the caller that starts it holds the
\* lock until it has put it into JOBS, and remove_reference waits for the lock.
NoStaleEntry == JOBS # None => state[JOBS] \in {"running", "finished"}

\* A thread that runs is the registered one, or is about to be registered, or its entry
\* has been deleted by a thread that had finished before it started.
RunningIsKnown ==
  \A t \in Running : t = JOBS \/ t \in forgotten \/ \E c \in Callers : thread[c] = t

\* The registry of sync threads as a whole: the types, the lock, what a caller holds, no entry of a
\* thread that is gone, and none of a running thread missing but those deleted by another.
RegistryInv == RegistryTypes /\ LockIsHeld /\ ThreadIsHeld /\ NoStaleEntry /\ RunningIsKnown

\* Of the sync threads whose entry no other thread has deleted at most one runs: a second
\* sync never starts but after such a deletion.
OneSyncUnlessForgotten == \A t1, t2 \in Running \ forgotten : t1 = t2

\* sync_from_rhic_serve starts nothing while a sync is in progress.
AtMostOneSync == \A t1, t2 \in Running : t1 = t2

\* A thread leaves the registry when its sync has ended, however it ended: a later call
\* can start the next one.
EntriesGo == \A t \in Threads : (JOBS = t) ~> (JOBS # t)

\* JOB_LOCK comes free again and again, whatever is raised under it: calls are not shut
\* out, nor threads kept from removing their entry.
LockComesFree == []<>(JOB_LOCK = None)

=============================================================================
