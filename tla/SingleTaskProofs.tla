--------------------------- MODULE SingleTaskProofs ---------------------------
(***************************************************************************)
(* Proofs about SingleTask, for every set of pids, pool size, time limit,  *)
(* expiry and number of faults.                                            *)
(*                                                                         *)
(* The argument: LockInv is inductive.  A runner's entry is at most as old *)
(* as its run, the hard limit bounds the age of a run, and the limit is    *)
(* below the expiry, so remove_expired never takes a runner's entry.  A    *)
(* pid about to be evicted is not in the pool as long as the operating     *)
(* system does not reuse it at that very moment, so remove_by_owner never  *)
(* takes it either.  What is left is the unique index: insert only when    *)
(* there is no entry.                                                      *)
(***************************************************************************)
EXTENDS SingleTask, TLAPS

LEMMA InitTypeOK == Init => TypeOK
  <1> SUFFICES ASSUME Init PROVE TypeOK
    OBVIOUS
  <1>1. entry \in Entries \cup {NoEntry} /\ faults \in 0..MaxFaults
    BY FaultAssumption DEF Init
  <1>2. pc \in [Pids -> Pool \cup {"foreign", "dead"}]
    BY DEF Init, Pool, Busy, InLock
  <1>3. /\ runAge \in [Pids -> 0..TimeLimit]
        /\ seen \in [Pids -> Pids]
        /\ stamp \in [Pids -> 0..TimeLimit]
    BY TimeAssumption DEF Init
  <1> QED
    BY <1>1, <1>2, <1>3 DEF TypeOK

\* What ending a task does to the locals keeps their types.
LEMMA ForgetTypes ==
  ASSUME TypeOK, NEW p \in Pids, Forget(p)
  PROVE  /\ runAge' \in [Pids -> 0..TimeLimit]
         /\ seen' \in [Pids -> Pids]
         /\ stamp' \in [Pids -> 0..TimeLimit]
  BY TimeAssumption DEF TypeOK, Forget

\* findAndModify leaves the document or no document.
LEMMA RemoveTypes ==
  ASSUME TypeOK, NEW o \in Pids, RemoveByOwner(o)
  PROVE  entry' \in Entries \cup {NoEntry}
  BY DEF TypeOK, RemoveByOwner

\* A new document of a process in lock() is an entry.
LEMMA EntryTypes ==
  ASSUME TypeOK, NEW p \in Pids
  PROVE  Entry(p, stamp[p]) \in Entries
  <1>1. stamp[p] \in 0..SecondsExpire
    BY TimeAssumption DEF TypeOK
  <1> QED
    BY <1>1 DEF Entries

\* The one step that changes all the ages at once.
LEMMA TickTypes ==
  ASSUME LockInv, Tick
  PROVE  TypeOK'
  <1>1. entry' \in Entries \cup {NoEntry}
    <2>1. CASE entry.exists /\ entry.age < SecondsExpire
      <3>1. PICK q \in Pids, a \in 0..SecondsExpire : entry = Entry(q, a)
        BY <2>1 DEF LockInv, TypeOK, Entries, NoEntry
      <3>2. entry' = Entry(q, a + 1)
        BY <2>1, <3>1 DEF Tick, Entry
      <3>3. a + 1 \in 0..SecondsExpire
        BY <2>1, <3>1, TimeAssumption DEF Entry
      <3> QED
        BY <3>2, <3>3 DEF Entries
    <2>2. CASE ~(entry.exists /\ entry.age < SecondsExpire)
      BY <2>2 DEF Tick, LockInv, TypeOK
    <2> QED
      BY <2>1, <2>2
  <1>2. runAge' \in [Pids -> 0..TimeLimit]
    BY TimeAssumption DEF Tick, LockInv, TypeOK
  <1>3. stamp' \in [Pids -> 0..TimeLimit]
    <2>1. ASSUME NEW p \in Pids, pc[p] = "insert"
          PROVE  stamp[p] + 1 \in 0..TimeLimit
      <3>1. pc[p] \in Busy
        BY <2>1 DEF Busy, InLock
      <3>2. runAge[p] < TimeLimit
        BY <3>1 DEF Tick
      <3>3. stamp[p] <= runAge[p]
        BY <2>1 DEF LockInv, StampIsYoung
      <3> QED
        BY <3>2, <3>3, TimeAssumption DEF LockInv, TypeOK
    <2> QED
      BY <2>1, TimeAssumption DEF Tick
  <1> QED
    BY <1>1, <1>2, <1>3 DEF Tick, LockInv, TypeOK

LEMMA NextTypeOK == LockInv /\ [Next]_vars => TypeOK'
  <1> SUFFICES ASSUME LockInv, [Next]_vars
               PROVE  TypeOK'
    OBVIOUS
  <1> USE DEF Pool, Busy, InLock
  <1>0. TypeOK
    BY DEF LockInv
  <1>1. ASSUME NEW p \in Pids, Start(p) PROVE TypeOK'
    BY <1>0, <1>1 DEF TypeOK, Start, Goto
  <1>2. ASSUME NEW p \in Pids, LockStep(p) PROVE TypeOK'
    <2>1. CASE ReadEntry(p)
      <3>1. entry.exists => entry.owner \in Pids
        BY <1>0 DEF TypeOK, Entries, Entry, NoEntry
      <3> QED
        BY <1>0, <2>1, <3>1 DEF TypeOK, ReadEntry, Goto
    <2>2. CASE CheckPid(p)
      BY <1>0, <2>2 DEF TypeOK, CheckPid, Goto
    <2>3. CASE EvictDead(p)
      <3>1. entry' \in Entries \cup {NoEntry}
        BY <1>0, <2>3, RemoveTypes DEF EvictDead, TypeOK
      <3> QED
        BY <1>0, <2>3, <3>1 DEF TypeOK, EvictDead, Goto
    <2>4. CASE RemoveExpired(p)
      BY <1>0, <2>4 DEF TypeOK, RemoveExpired, Goto
    <2>5. CASE BuildEntry(p)
      BY <1>0, <2>5, TimeAssumption DEF TypeOK, BuildEntry, Goto
    <2>6. CASE Insert(p)
      <3>1. CASE ~entry.exists
        <4>1. entry' \in Entries
          BY <1>0, <2>6, <3>1, EntryTypes DEF Insert
        <4> QED
          BY <1>0, <2>6, <3>1, <4>1, TimeAssumption DEF TypeOK, Insert, Goto
      <3>2. CASE entry.exists
        BY <1>0, <2>6, <3>2, ForgetTypes DEF TypeOK, Insert, Goto
      <3> QED
        BY <3>1, <3>2
    <2> QED
      BY <1>2, <2>1, <2>2, <2>3, <2>4, <2>5, <2>6 DEF LockStep
  <1>3. ASSUME NEW p \in Pids, InsertAnswerLost(p) PROVE TypeOK'
    <2>1. entry' \in Entries \cup {NoEntry}
      BY <1>0, <1>3, EntryTypes DEF InsertAnswerLost, TypeOK
    <2> QED
      BY <1>0, <1>3, <2>1, ForgetTypes, FaultAssumption
      DEF TypeOK, InsertAnswerLost, Goto, Fault
  <1>4. ASSUME NEW p \in Pids, Release(p) PROVE TypeOK'
    <2>1. entry' \in Entries \cup {NoEntry}
      BY <1>0, <1>4, RemoveTypes DEF Release
    <2> QED
      BY <1>0, <1>4, <2>1, ForgetTypes DEF TypeOK, Release, Goto
  <1>5. ASSUME NEW p \in Pids, ReleaseFails(p) PROVE TypeOK'
    BY <1>0, <1>5, ForgetTypes, FaultAssumption DEF TypeOK, ReleaseFails, Goto, Fault
  <1>6. ASSUME NEW p \in Pids, Crash(p) PROVE TypeOK'
    BY <1>0, <1>6, ForgetTypes, FaultAssumption DEF TypeOK, Crash, Fault
  <1>7. ASSUME NEW p \in Pids, LimitKill(p) PROVE TypeOK'
    BY <1>0, <1>7, ForgetTypes DEF TypeOK, LimitKill, Goto
  <1>8. ASSUME NEW p \in Pids, Spawn(p) \/ ForeignSpawn(p) \/ ForeignExit(p) PROVE TypeOK'
    BY <1>0, <1>8 DEF TypeOK, Spawn, ForeignSpawn, ForeignExit, Goto
  <1>9. CASE Tick
    BY <1>9, TickTypes
  <1>10. CASE UNCHANGED vars
    BY <1>0, <1>10 DEF TypeOK, vars
  <1> QED
    BY <1>1, <1>2, <1>3, <1>4, <1>5, <1>6, <1>7, <1>8, <1>9, <1>10 DEF Next

-------------------------------------------------------------------------------
\* Nobody but its owner's end frees the entry of a runner: not the eviction of
\* a pid found dead, not the removal of expired entries.
LEMMA RunnerKeepsEntry ==
  ASSUME LockInv, ~RecycleRacingPids,
         NEW p \in Pids, NEW q \in Running, EvictDead(p) \/ RemoveExpired(p)
  PROVE  entry' = entry
  <1>1. entry.exists /\ entry.owner = q /\ entry.age <= runAge[q]
    BY DEF LockInv, RunnersEntryIsYoung, OwnedBy
  <1>2. CASE EvictDead(p)
    <2>1. Racing(seen[p]) /\ seen[p] \in Pids
      BY <1>2 DEF EvictDead, Goto, Racing, LockInv, TypeOK
    <2>2. ~InPool(seen[p])
      BY <2>1 DEF LockInv, EvictedIsOut
    <2>3. seen[p] # q
      BY <2>2 DEF Running, InPool, Pool, Busy
    <2> QED
      BY <1>1, <1>2, <2>3 DEF EvictDead, RemoveByOwner, OwnedBy
  <1>3. CASE RemoveExpired(p)
    <2>1. runAge[q] \in 0..TimeLimit
      BY DEF LockInv, TypeOK, Running
    <2>2. entry.age \in 0..SecondsExpire
      BY <1>1 DEF LockInv, TypeOK, Entries, Entry, NoEntry
    <2>3. ~(entry.age >= SecondsExpire)
      BY <1>1, <2>1, <2>2, TimeAssumption
    <2> QED
      BY <1>3, <2>3 DEF RemoveExpired
  <1> QED
    BY <1>2, <1>3

\* The three facts about ages and pids survive every step.
LEMMA NextRunners ==
  ASSUME LockInv, ~RecycleRacingPids, [Next]_vars
  PROVE  RunnersEntryIsYoung'
  <1> SUFFICES ASSUME NEW r \in Pids, pc'[r] = "running"
               PROVE  (OwnedBy(r) /\ entry.age <= runAge[r])'
    BY DEF RunnersEntryIsYoung, Running
  <1> USE DEF Goto
  <1>0. /\ pc \in [Pids -> Pool \cup {"foreign", "dead"}]
        /\ runAge \in [Pids -> 0..TimeLimit]
        /\ stamp \in [Pids -> 0..TimeLimit]
        /\ pc[r] = "running" => r \in Running /\ OwnedBy(r) /\ entry.age <= runAge[r]
    BY DEF LockInv, TypeOK, RunnersEntryIsYoung, Running
  <1>1. ASSUME NEW p \in Pids, Start(p) PROVE (OwnedBy(r) /\ entry.age <= runAge[r])'
    BY <1>0, <1>1 DEF Start, OwnedBy
  <1>2. ASSUME NEW p \in Pids, ReadEntry(p) \/ CheckPid(p) \/ BuildEntry(p)
        PROVE (OwnedBy(r) /\ entry.age <= runAge[r])'
    BY <1>0, <1>2 DEF ReadEntry, CheckPid, BuildEntry, OwnedBy
  <1>3. ASSUME NEW p \in Pids, EvictDead(p) \/ RemoveExpired(p)
        PROVE (OwnedBy(r) /\ entry.age <= runAge[r])'
    <2>1. pc[r] = "running" /\ runAge' = runAge
      BY <1>0, <1>3 DEF EvictDead, RemoveExpired
    <2>2. entry' = entry
      BY <1>0, <1>3, <2>1, RunnerKeepsEntry
    <2> QED
      BY <1>0, <2>1, <2>2 DEF OwnedBy
  <1>4. ASSUME NEW p \in Pids, Insert(p)
        PROVE (OwnedBy(r) /\ entry.age <= runAge[r])'
    <2>1. CASE entry.exists
      BY <1>0, <1>4, <2>1 DEF Insert, Forget, OwnedBy
    <2>2. CASE ~entry.exists
      <3>1. r = p
        BY <1>0, <1>4, <2>2 DEF Insert, OwnedBy
      <3>2. stamp[p] <= runAge[p]
        BY <1>4 DEF Insert, LockInv, StampIsYoung
      <3> QED
        BY <1>0, <1>4, <2>2, <3>1, <3>2 DEF Insert, OwnedBy, Entry
    <2> QED
      BY <2>1, <2>2
  <1>5. ASSUME NEW p \in Pids, InsertAnswerLost(p)
        PROVE (OwnedBy(r) /\ entry.age <= runAge[r])'
    BY <1>0, <1>5 DEF InsertAnswerLost, Forget, OwnedBy
  <1>6. ASSUME NEW p \in Pids, Release(p) PROVE (OwnedBy(r) /\ entry.age <= runAge[r])'
    BY <1>0, <1>6 DEF Release, RemoveByOwner, Forget, OwnedBy
  <1>7. ASSUME NEW p \in Pids, ReleaseFails(p) \/ Crash(p) \/ LimitKill(p)
        PROVE (OwnedBy(r) /\ entry.age <= runAge[r])'
    BY <1>0, <1>7 DEF ReleaseFails, Crash, LimitKill, Forget, OwnedBy
  <1>8. ASSUME NEW p \in Pids, Spawn(p) \/ ForeignSpawn(p) \/ ForeignExit(p)
        PROVE (OwnedBy(r) /\ entry.age <= runAge[r])'
    BY <1>0, <1>8 DEF Spawn, ForeignSpawn, ForeignExit, MayReuse, OwnedBy
  <1>9. CASE Tick
    <2>1. pc[r] = "running" /\ r \in Running /\ OwnedBy(r) /\ entry.age <= runAge[r]
      BY <1>0, <1>9 DEF Tick
    <2>2. runAge'[r] = runAge[r] + 1
      BY <2>1, <1>9 DEF Tick, Busy
    <2>3. PICK q \in Pids, a \in 0..SecondsExpire : entry = Entry(q, a)
      BY <2>1 DEF LockInv, TypeOK, Entries, NoEntry, OwnedBy
    <2>4. entry' \in {entry, Entry(q, a + 1)}
      BY <1>9, <2>3 DEF Tick, Entry
    <2>5. runAge[r] \in Nat
      BY <1>0
    <2> QED
      BY <2>1, <2>2, <2>3, <2>4, <2>5 DEF Entry, OwnedBy
  <1>10. CASE UNCHANGED vars
    BY <1>0, <1>10 DEF vars, OwnedBy
  <1> QED
    BY <1>1, <1>2, <1>3, <1>4, <1>5, <1>6, <1>7, <1>8, <1>9, <1>10 DEF Next, LockStep

LEMMA NextStamp ==
  ASSUME LockInv, [Next]_vars
  PROVE  StampIsYoung'
  <1> SUFFICES ASSUME NEW r \in Pids, pc'[r] = "insert"
               PROVE  stamp'[r] <= runAge'[r]
    BY DEF StampIsYoung
  <1> USE DEF Goto
  <1>0. /\ pc \in [Pids -> Pool \cup {"foreign", "dead"}]
        /\ runAge \in [Pids -> 0..TimeLimit]
        /\ stamp \in [Pids -> 0..TimeLimit]
        /\ pc[r] = "insert" => stamp[r] <= runAge[r]
        /\ 0 <= runAge[r]
    BY DEF LockInv, TypeOK, StampIsYoung
  <1>1. ASSUME NEW p \in Pids, Start(p) \/ ReadEntry(p) \/ CheckPid(p)
                               \/ EvictDead(p) \/ RemoveExpired(p) \/ BuildEntry(p)
        PROVE stamp'[r] <= runAge'[r]
    BY <1>0, <1>1 DEF Start, ReadEntry, CheckPid, EvictDead, RemoveExpired, BuildEntry
  <1>2. ASSUME NEW p \in Pids, Insert(p) \/ InsertAnswerLost(p) \/ Release(p)
        PROVE stamp'[r] <= runAge'[r]
    BY <1>0, <1>2 DEF Insert, InsertAnswerLost, Release, Forget
  <1>3. ASSUME NEW p \in Pids, ReleaseFails(p) \/ Crash(p) \/ LimitKill(p)
        PROVE stamp'[r] <= runAge'[r]
    BY <1>0, <1>3 DEF ReleaseFails, Crash, LimitKill, Forget
  <1>4. ASSUME NEW p \in Pids, Spawn(p) \/ ForeignSpawn(p) \/ ForeignExit(p)
        PROVE stamp'[r] <= runAge'[r]
    BY <1>0, <1>4 DEF Spawn, ForeignSpawn, ForeignExit, MayReuse
  <1>5. CASE Tick
    BY <1>0, <1>5 DEF Tick, Busy, InLock
  <1>6. CASE UNCHANGED vars
    BY <1>0, <1>6 DEF vars
  <1> QED
    BY <1>1, <1>2, <1>3, <1>4, <1>5, <1>6 DEF Next, LockStep

\* A pid found outside the pool stays outside until its entry has been dealt
\* with: only Spawn brings a pid into the pool, and it waits.
LEMMA NextEvicted ==
  ASSUME LockInv, ~RecycleRacingPids, [Next]_vars
  PROVE  EvictedIsOut'
  <1> SUFFICES ASSUME NEW d \in Pids, NEW q \in Pids, pc'[q] = "evict", seen'[q] = d
               PROVE  ~InPool(d)'
    BY DEF EvictedIsOut, Racing
  <1> USE DEF Goto, InPool, Pool, Busy, InLock
  <1>0. /\ pc \in [Pids -> Pool \cup {"foreign", "dead"}]
        /\ seen \in [Pids -> Pids]
        /\ \A x, y \in Pids : pc[x] = "evict" /\ seen[x] = y => Racing(y) /\ ~InPool(y)
    BY DEF LockInv, TypeOK, EvictedIsOut, Racing
  <1>1. ASSUME NEW p \in Pids, Start(p) \/ ReadEntry(p)
        PROVE  ~InPool(d)'
    BY <1>0, <1>1 DEF Start, ReadEntry
  <1>2. ASSUME NEW p \in Pids, CheckPid(p)
        PROVE  ~InPool(d)'
    <2>1. CASE q = p
      <3>1. ~InPool(seen[p]) /\ seen' = seen
        BY <1>0, <1>2, <2>1 DEF CheckPid
      <3>2. d = seen[p] /\ ~InPool(d) /\ d # p
        BY <1>0, <1>2, <2>1, <3>1 DEF CheckPid, InPool
      <3> QED
        BY <1>0, <1>2, <3>2 DEF CheckPid
    <2>2. CASE q # p
      BY <1>0, <1>2, <2>2 DEF CheckPid
    <2> QED
      BY <2>1, <2>2
  <1>3. ASSUME NEW p \in Pids, EvictDead(p) \/ RemoveExpired(p) \/ BuildEntry(p)
        PROVE  ~InPool(d)'
    BY <1>0, <1>3 DEF EvictDead, RemoveExpired, BuildEntry
  <1>4. ASSUME NEW p \in Pids, Insert(p) \/ InsertAnswerLost(p) \/ Release(p)
        PROVE  ~InPool(d)'
    BY <1>0, <1>4 DEF Insert, InsertAnswerLost, Release, Forget
  <1>5. ASSUME NEW p \in Pids, ReleaseFails(p) \/ Crash(p) \/ LimitKill(p)
        PROVE  ~InPool(d)'
    BY <1>0, <1>5 DEF ReleaseFails, Crash, LimitKill, Forget
  <1>6. ASSUME NEW p \in Pids, Spawn(p) \/ ForeignSpawn(p)
        PROVE  ~InPool(d)'
    <2>1. pc[q] = "evict" /\ seen[q] = d
      BY <1>0, <1>6 DEF Spawn, ForeignSpawn
    <2>2. d # p
      BY <1>0, <1>6, <2>1 DEF Spawn, ForeignSpawn, MayReuse
    <2> QED
      BY <1>0, <1>6, <2>1, <2>2 DEF Spawn, ForeignSpawn
  <1>7. ASSUME NEW p \in Pids, ForeignExit(p)
        PROVE  ~InPool(d)'
    BY <1>0, <1>7 DEF ForeignExit
  <1>8. CASE Tick \/ UNCHANGED vars
    BY <1>0, <1>8 DEF Tick, vars
  <1> QED
    BY <1>1, <1>2, <1>3, <1>4, <1>5, <1>6, <1>7, <1>8 DEF Next, LockStep

-------------------------------------------------------------------------------
LEMMA InitLockInv == Init => LockInv
  <1> SUFFICES ASSUME Init PROVE LockInv
    OBVIOUS
  <1>1. \A p \in Pids : pc[p] \in {"idle", "dead"}
    BY DEF Init
  <1> QED
    BY <1>1, InitTypeOK
    DEF LockInv, RunnersEntryIsYoung, StampIsYoung, EvictedIsOut, Running, Racing

LEMMA NextLockInv ==
  ASSUME ~RecycleRacingPids
  PROVE  LockInv /\ [Next]_vars => LockInv'
  BY NextTypeOK, NextRunners, NextStamp, NextEvicted DEF LockInv

\* The strengthening holds in every reachable state, so the lock's state has its
\* type and a runner's entry is never older than its run.
THEOREM Strengthening ==
  ASSUME ~RecycleRacingPids
  PROVE  Spec => []LockInv
  <1> QED
    BY InitLockInv, NextLockInv, PTL DEF Spec

\* Every variable keeps its type.
THEOREM TypeCorrect ==
  ASSUME ~RecycleRacingPids
  PROVE  Spec => []TypeOK
  <1>1. LockInv => TypeOK
    BY DEF LockInv
  <1> QED
    BY <1>1, Strengthening, PTL

LEMMA InvMutex == LockInv => MutualExclusion
  BY DEF LockInv, RunnersEntryIsYoung, MutualExclusion, OwnedBy

\* single_instance_task keeps its promise: for any number of processes, limits,
\* crashes and lost answers, at most one process is inside the function.
THEOREM MutualExclusionHolds ==
  ASSUME ~RecycleRacingPids
  PROVE  Spec => []MutualExclusion
  <1> QED
    BY InvMutex, Strengthening, PTL

\* The runner's entry stays in the database, unexpired, for the whole run.
THEOREM RunnerOwnsEntryHolds ==
  ASSUME ~RecycleRacingPids
  PROVE  Spec => []RunnerOwnsEntry
  <1>1. ASSUME LockInv, NEW p \in Running
        PROVE  OwnedBy(p) /\ entry.age < SecondsExpire
    <2>1. OwnedBy(p) /\ entry.age <= runAge[p]
      BY <1>1 DEF LockInv, RunnersEntryIsYoung
    <2>2. entry.age \in Nat
      BY <1>1, <2>1 DEF LockInv, TypeOK, Entries, Entry, NoEntry, OwnedBy
    <2>3. runAge[p] \in 0..TimeLimit
      BY <1>1 DEF LockInv, TypeOK, Running
    <2> QED
      BY <2>1, <2>2, <2>3, TimeAssumption
  <1>2. LockInv => RunnerOwnsEntry
    BY <1>1 DEF RunnerOwnsEntry
  <1> QED
    BY <1>2, Strengthening, PTL

\* lock() frees an entry only when its owner left the pool or it has expired; any
\* other disappearance is the release of its own runner.
THEOREM EvictionJustifiedHolds ==
  ASSUME ~RecycleRacingPids
  PROVE  Spec => EvictionJustified
  <1> DEFINE Justified == entry.exists /\ ~entry'.exists =>
               \/ entry.age >= SecondsExpire
               \/ ~InPool(entry.owner)
               \/ pc[entry.owner] = "running" /\ pc'[entry.owner] = "idle"
  <1>1. ASSUME LockInv, Next, entry.exists, ~entry'.exists
        PROVE  \/ entry.age >= SecondsExpire
               \/ ~InPool(entry.owner)
               \/ pc[entry.owner] = "running" /\ pc'[entry.owner] = "idle"
    <2>0. pc \in [Pids -> Pool \cup {"foreign", "dead"}] /\ seen \in [Pids -> Pids]
      BY <1>1 DEF LockInv, TypeOK
    <2>1. ASSUME NEW p \in Pids, EvictDead(p)
          PROVE  ~InPool(entry.owner)
      <3>1. entry.owner = seen[p]
        BY <1>1, <2>1 DEF EvictDead, RemoveByOwner, OwnedBy
      <3>2. ~InPool(seen[p])
        BY <1>1, <2>0, <2>1 DEF EvictDead, Goto, LockInv, EvictedIsOut, Racing
      <3> QED
        BY <3>1, <3>2
    <2>2. ASSUME NEW p \in Pids, RemoveExpired(p)
          PROVE  entry.age >= SecondsExpire
      BY <1>1, <2>2 DEF RemoveExpired
    <2>3. ASSUME NEW p \in Pids, Release(p)
          PROVE  pc[entry.owner] = "running" /\ pc'[entry.owner] = "idle"
      BY <1>1, <2>0, <2>3 DEF Release, RemoveByOwner, OwnedBy, Goto
    <2>4. ASSUME NEW p \in Pids,
                 \/ Start(p) \/ ReadEntry(p) \/ CheckPid(p) \/ BuildEntry(p)
                 \/ ReleaseFails(p) \/ Crash(p) \/ LimitKill(p)
                 \/ Spawn(p) \/ ForeignSpawn(p) \/ ForeignExit(p)
          PROVE  FALSE
      BY <1>1, <2>4 DEF Start, ReadEntry, CheckPid, BuildEntry, ReleaseFails, Crash,
                        LimitKill, Spawn, ForeignSpawn, ForeignExit
    <2>5. ASSUME NEW p \in Pids, Insert(p) \/ InsertAnswerLost(p)
          PROVE  FALSE
      BY <1>1, <2>5 DEF Insert, InsertAnswerLost
    <2>6. ~Tick
      <3>1. PICK q \in Pids, a \in 0..SecondsExpire : entry = Entry(q, a)
        BY <1>1 DEF LockInv, TypeOK, Entries, NoEntry
      <3>2. Tick => entry' \in {entry, Entry(q, a + 1)}
        BY <3>1 DEF Tick, Entry
      <3> QED
        BY <1>1, <3>1, <3>2 DEF Entry
    <2> QED
      BY <1>1, <2>1, <2>2, <2>3, <2>4, <2>5, <2>6 DEF Next, LockStep
  <1>2. LockInv /\ [Next]_vars => [Justified]_vars
    BY <1>1
  <1> QED
    BY <1>2, Strengthening, PTL DEF Spec, EvictionJustified

-------------------------------------------------------------------------------
\* The set of runners changes by one process at a time, and one process enters
\* only when nobody is inside.
LEMMA StepMapsToMutex ==
  ASSUME LockInv, LockInv', [Next]_vars
  PROVE  [Mutex!Next]_Running
  <1> USE DEF Goto
  <1>0. pc \in [Pids -> Pool \cup {"foreign", "dead"}]
    BY DEF LockInv, TypeOK
  <1>1. ASSUME NEW p \in Pids, Insert(p)
        PROVE  [Mutex!Next]_Running
    <2>1. CASE entry.exists
      <3>1. Running' = Running
        BY <1>0, <1>1, <2>1 DEF Insert, Running
      <3> QED
        BY <3>1
    <2>2. CASE ~entry.exists
      <3>1. Running = {}
        BY <2>2 DEF LockInv, RunnersEntryIsYoung, OwnedBy
      <3>2. Running' = {p}
        BY <1>0, <1>1, <2>2, <3>1 DEF Insert, Running
      <3> QED
        BY <3>1, <3>2 DEF Mutex!Next, Mutex!Enter
    <2> QED
      BY <2>1, <2>2
  <1>2. ASSUME NEW p \in Pids,
               Release(p) \/ ReleaseFails(p) \/ Crash(p) \/ LimitKill(p)
        PROVE  [Mutex!Next]_Running
    <2>1. Running' = Running \ {p}
      BY <1>0, <1>2 DEF Release, ReleaseFails, Crash, LimitKill, Running
    <2>2. CASE p \in Running
      BY <2>1, <2>2 DEF Mutex!Next, Mutex!Leave
    <2>3. CASE p \notin Running
      BY <2>1, <2>3
    <2> QED
      BY <2>2, <2>3
  <1>3. ASSUME NEW p \in Pids,
               \/ Start(p) \/ ReadEntry(p) \/ CheckPid(p) \/ EvictDead(p)
               \/ RemoveExpired(p) \/ BuildEntry(p) \/ InsertAnswerLost(p)
               \/ Spawn(p) \/ ForeignSpawn(p) \/ ForeignExit(p)
        PROVE  Running' = Running
    BY <1>0, <1>3 DEF Start, ReadEntry, CheckPid, EvictDead, RemoveExpired, BuildEntry,
                      InsertAnswerLost, Spawn, ForeignSpawn, ForeignExit, MayReuse, Running
  <1>4. ASSUME Tick \/ UNCHANGED vars
        PROVE  Running' = Running
    BY <1>4 DEF Tick, vars, Running
  <1> QED
    BY <1>1, <1>2, <1>3, <1>4 DEF Next, LockStep

\* The MongoDB lock implements the abstract mutex: every behaviour of the lock,
\* seen as the set of runners, is one of TaskMutex.
THEOREM MutexImplemented ==
  ASSUME ~RecycleRacingPids
  PROVE  Spec => ImplementsMutex
  <1>1. Init => Mutex!Init
    BY DEF Init, Mutex!Init, Running
  <1>2. LockInv /\ LockInv' /\ [Next]_vars => [Mutex!Next]_Running
    BY StepMapsToMutex
  <1> QED
    BY <1>1, <1>2, Strengthening, PTL DEF Spec, ImplementsMutex, Mutex!Spec

=============================================================================
