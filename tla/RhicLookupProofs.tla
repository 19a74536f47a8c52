--------------------------- MODULE RhicLookupProofs ---------------------------
(***************************************************************************)
(* For any uuids, web threads, jobs, kinds of request and number of        *)
(* faults, and whether or not a job may start before its submitter has     *)
(* saved the record: what the processes hold of a record, LookupInv, is    *)
(* inductive, and no race ever completes a record wrongly or writes a      *)
(* deleted one back.                                                       *)
(***************************************************************************)
EXTENDS RhicLookup, TLAPS

\* Every process not at p stays as it is; p becomes l, which fits the records.
LEMMA BecomeKeeps ==
  ASSUME LookupInv, NEW p \in Procs, NEW l \in Locals, Fits(l), Become(p, l),
         task' = task, known' \subseteq Uuids, parentKnows' \subseteq Uuids,
         purging' \subseteq Uuids, \A u \in purging' : Exists(u),
         retrying' \subseteq Uuids \X (Jobs \cup {None}), faults' \in 0..MaxFaults
  PROVE  LookupInv'
<1>1. TypeOK'
  BY DEF LookupInv, TypeOK, Become
<1>2. \A q \in Procs : Fits(proc[q])'
  BY DEF LookupInv, TypeOK, Become, Fits, Exists
<1> QED BY <1>1, <1>2 DEF LookupInv, CompletedIsNotFound, Exists

\* A record is deleted, and whoever else holds it holds a stale one.
LEMMA DeleteKeeps ==
  ASSUME LookupInv, NEW p \in Procs, NEW u \in Uuids, NEW held, NEW l \in Locals,
         Delete(p, u, held, l), Fits(l), l.held # "there",
         UNCHANGED <<known, parentKnows, retrying, faults>>
  PROVE  LookupInv'
<1>1. CASE held # "there"
  BY <1>1, BecomeKeeps DEF Delete, LookupInv, TypeOK
<1>2. CASE held = "there"
  <2>1. /\ task' = [task EXCEPT ![u] = NoTask] /\ purging' = purging \ {u}
        /\ \A q \in Procs : proc'[q] = IF q = p THEN l
             ELSE IF proc[q].uuid = u /\ proc[q].held = "there"
                    THEN [proc[q] EXCEPT !.held = "gone"] ELSE proc[q]
    BY <1>2 DEF Delete
  <2>2. TypeOK'
    <3>1. proc' \in [Procs -> Locals]
      BY <1>2 DEF Delete, LookupInv, TypeOK, Locals
    <3> QED BY <2>1, <3>1 DEF LookupInv, TypeOK, Tasks
  <2>3. CompletedIsNotFound' /\ \A v \in purging' : Exists(v)'
    BY <2>1 DEF LookupInv, TypeOK, CompletedIsNotFound, Exists
  <2>4. ASSUME NEW q \in Procs PROVE Fits(proc[q])'
    <3>1. CASE q = p
      BY <2>1, <3>1 DEF Fits
    <3>2. CASE q # p /\ proc[q].uuid = u /\ proc[q].held = "there"
      <4>1. proc'[q] = [proc[q] EXCEPT !.held = "gone"] /\ proc[q] \in Locals
        BY <2>1, <3>2 DEF LookupInv, TypeOK
      <4> QED BY <4>1, <3>2, NoneAssumption DEF Fits, LookupInv, Locals, Holding
    <3>3. CASE q # p /\ ~(proc[q].uuid = u /\ proc[q].held = "there")
      <4>1. proc'[q] = proc[q] /\ Fits(proc[q])
        BY <2>1, <3>3 DEF LookupInv
      <4>2. proc[q].held = "there" => Exists(proc[q].uuid)'
        BY <4>1, <2>1, <3>3, NoneAssumption DEF Fits, LookupInv, TypeOK, Exists, Holding
      <4> QED BY <4>1, <4>2 DEF Fits
    <3> QED BY <3>1, <3>2, <3>3
  <2> QED BY <2>2, <2>3, <2>4 DEF LookupInv
<1> QED BY <1>1, <1>2

\* A record is written that was there, or a new one is inserted.
LEMMA WriteKeeps ==
  ASSUME LookupInv, NEW p \in Procs, NEW l \in Locals, Fits(l), Become(p, l),
         NEW u \in Uuids, NEW f \in Tasks, task' = [task EXCEPT ![u] = f],
         f.completed => f.status_code = 404,
         UNCHANGED <<known, parentKnows, beatVars, faults>>
  PROVE  LookupInv'
<1>1. f # NoTask /\ \A v \in Uuids : Exists(v) => Exists(v)'
  BY NoneAssumption DEF LookupInv, TypeOK, Exists, NoTask
<1>2. TypeOK'
  BY DEF LookupInv, TypeOK, Become, beatVars
<1>3. CompletedIsNotFound' /\ \A v \in purging' : Exists(v)'
  BY <1>1 DEF LookupInv, TypeOK, CompletedIsNotFound, beatVars, Exists
<1>4. ASSUME NEW q \in Procs PROVE Fits(proc[q])'
  <2>1. Fits(proc'[q]) /\ proc'[q] \in Locals
    BY DEF LookupInv, TypeOK, Become
  <2>2. proc'[q].held = "there" => proc'[q].uuid \in Uuids
    BY <2>1, NoneAssumption DEF Fits, Holding
  <2> QED BY <2>1, <2>2, <1>1 DEF Fits
<1> QED BY <1>2, <1>3, <1>4 DEF LookupInv

-------------------------------------------------------------------------------
\* What a process that starts afresh knows always fits.
LEMMA FreshFits ==
  ASSUME NEW pc \in {"idle", "purge", "retry", "done", "lost"}
  PROVE  Fits(At(pc)) /\ At(pc) \in Locals
BY NoneAssumption DEF Fits, At, Locals, JobPcs, CallerPcs, BeatPcs

-------------------------------------------------------------------------------

LEMMA LookupInit == Init => LookupInv
<1> SUFFICES ASSUME Init PROVE LookupInv
  OBVIOUS
<1>1. \A p \in Procs : proc[p] \in Locals /\ Fits(proc[p])
  BY FreshFits DEF Init
<1>2. TypeOK
  BY <1>1, ConstantsAssumption DEF Init, TypeOK
<1> QED BY <1>1, <1>2 DEF LookupInv, CompletedIsNotFound, Exists, Init, NoTask

\* After a read the process has no record, or one that is there.
LEMMA ReadFinds ==
  ASSUME LookupInv, NEW p \in Procs, proc[p].pc \in {"update", "complete"},
         NEW none \in CallerPcs \cup JobPcs, NEW expired \in Holding, NEW live \in Holding,
         Read(p, none, expired, live)
  PROVE  \E l \in Locals :
           /\ Become(p, l)
           /\ l.uuid = proc[p].uuid /\ l.job = proc[p].job /\ l.ans = proc[p].ans
           /\ \/ l.pc = none /\ l.held = None
              \/ l.pc \in {expired, live} /\ l.held = "there" /\ Exists(l.uuid)
<1> DEFINE u == proc[p].uuid
<1>1. proc[p] \in Locals /\ proc[p].held = None
  BY DEF LookupInv, TypeOK, Fits, Holding
<1>2. CASE ~Exists(u)
  <2> DEFINE l == [proc[p] EXCEPT !.pc = none]
  <2>1. Become(p, l)
    BY <1>2 DEF Read, Goto
  <2>2. /\ l \in Locals
        /\ l.uuid = u /\ l.job = proc[p].job /\ l.ans = proc[p].ans /\ l.pc = none /\ l.held = None
    BY <1>1 DEF Locals
  <2> QED BY <2>1, <2>2
<1>3. CASE Exists(u)
  <2>1. PICK pc \in {expired, live} : Become(p, [proc[p] EXCEPT !.held = "there", !.pc = pc])
    BY <1>3 DEF Read
  <2>2. pc \in JobPcs \cup CallerPcs
    BY DEF Holding, JobPcs, CallerPcs
  <2> DEFINE l == [proc[p] EXCEPT !.held = "there", !.pc = pc]
  <2>3. l \in Locals
    BY <1>1, <2>2 DEF Locals
  <2>4. /\ l.uuid = u /\ l.job = proc[p].job /\ l.ans = proc[p].ans
        /\ l.pc \in {expired, live} /\ l.held = "there"
    BY <1>1 DEF Locals
  <2> QED BY <1>3, <2>1, <2>3, <2>4
<1> QED BY <1>2, <1>3

LEMMA ReadForUpdateKeeps ==
  ASSUME LookupInv, NEW p \in Procs, ReadForUpdate(p)
  PROVE  LookupInv'
<1>1. PICK l \in Locals :
        /\ Become(p, l) /\ l.uuid = proc[p].uuid /\ l.job = proc[p].job
        /\ \/ l.pc = "save" /\ l.held = None
           \/ l.pc \in {"updateDrop", "save"} /\ l.held = "there" /\ Exists(l.uuid)
  BY ReadFinds DEF ReadForUpdate, CallerPcs, Holding
<1>2. Fits(proc[p]) /\ proc[p].pc = "update"
  BY DEF LookupInv, ReadForUpdate
<1>3. Fits(l)
  BY <1>1, <1>2, NoneAssumption DEF Fits, Holding
<1> QED BY <1>1, <1>3, BecomeKeeps DEF ReadForUpdate, LookupInv, TypeOK, beatVars

LEMMA CompleteKeeps ==
  ASSUME LookupInv, NEW p \in Procs, Complete(p)
  PROVE  LookupInv'
<1> DEFINE live == IF proc[p].ans \in {202, 404} THEN "set" ELSE "delete"
<1>1. PICK l \in Locals :
        /\ Become(p, l) /\ l.uuid = proc[p].uuid /\ l.ans = proc[p].ans
        /\ \/ l.pc = "end" /\ l.held = None
           \/ l.pc \in {"drop", live} /\ l.held = "there" /\ Exists(l.uuid)
  BY ReadFinds DEF Complete, JobPcs, Holding
<1>2. Fits(proc[p]) /\ proc[p].pc = "complete"
  BY DEF LookupInv, Complete
<1>3. Fits(l)
  BY <1>1, <1>2, NoneAssumption DEF Fits, Holding
<1> QED BY <1>1, <1>3, BecomeKeeps DEF Complete, LookupInv, TypeOK, beatVars

\* Drop is Delete of the record that is held.
LEMMA DropKeeps ==
  ASSUME LookupInv, NEW p \in Procs, NEW next \in {"submit", "save", "end"}, Drop(p, next),
         proc[p].pc \in Holding, next = "save" => proc[p].pc = "updateDrop",
         UNCHANGED <<known, parentKnows, retrying, faults>>
  PROVE  LookupInv'
<1> DEFINE l == [proc[p] EXCEPT !.held = None, !.pc = next]
<1>1. proc[p] \in Locals /\ Fits(proc[p]) /\ proc[p].uuid \in Uuids
  BY DEF LookupInv, TypeOK, Fits, Holding
<1>2. l \in Locals
  BY <1>1 DEF Locals, JobPcs, CallerPcs
<1>3. Fits(l) /\ l.held # "there"
  BY <1>1, NoneAssumption DEF Fits, Locals
<1> QED BY <1>1, <1>2, <1>3, DeleteKeeps DEF Drop

-------------------------------------------------------------------------------
(* The requests *)

LEMMA WebKeeps ==
  ASSUME LookupInv, NEW w \in Procs,
         \/ \E u \in Uuids, k \in Kinds : Request(w, u, k)
         \/ FindIdentity(w) \/ ReadCached(w) \/ DropCached(w)
  PROVE  LookupInv'
<1>1. ASSUME NEW u \in Uuids, NEW k \in Kinds, Request(w, u, k) PROVE LookupInv'
  <2> DEFINE l == [At("identity") EXCEPT !.uuid = u, !.kind = k]
  <2>1. l \in Locals /\ Fits(l)
    BY NoneAssumption DEF At, Locals, Fits, JobPcs, CallerPcs
  <2> QED BY <1>1, <2>1, BecomeKeeps DEF Request, LookupInv, TypeOK, beatVars
<1>2. CASE FindIdentity(w)
  <2> DEFINE l == [proc[w] EXCEPT !.pc = "cached"]
  <2>1. proc[w] \in Locals /\ Fits(proc[w]) /\ proc[w].pc = "identity"
    BY <1>2 DEF FindIdentity, LookupInv, TypeOK
  <2>2. l \in Locals /\ Fits(l)
    BY <2>1 DEF Locals, Fits, Holding, CallerPcs
  <2> QED BY <1>2, <2>2, FreshFits, BecomeKeeps DEF FindIdentity, Goto, LookupInv, TypeOK, beatVars
<1>3. CASE ReadCached(w)
  <2> DEFINE u == proc[w].uuid
             to == [At("submit") EXCEPT !.uuid = u]
             drop == [to EXCEPT !.pc = "cachedDrop", !.held = "there"]
  <2>1. u \in Uuids
    BY <1>3 DEF ReadCached, LookupInv, Fits
  <2>2. to \in Locals /\ Fits(to)
    BY <2>1, NoneAssumption DEF At, Locals, Fits, JobPcs, CallerPcs
  <2>3. drop \in Locals /\ (Exists(u) => Fits(drop))
    BY <2>1 DEF At, Locals, Fits, JobPcs, CallerPcs, Holding
  <2>4. \/ Become(w, At("idle")) \/ Become(w, to)
        \/ Exists(u) /\ Become(w, drop)
    BY <1>3 DEF ReadCached
  <2> QED BY <1>3, <2>2, <2>3, <2>4, FreshFits, BecomeKeeps DEF ReadCached, LookupInv, TypeOK, beatVars
<1>4. CASE DropCached(w)
  BY <1>4, DropKeeps DEF DropCached, Holding
<1> QED BY <1>1, <1>2, <1>3, <1>4

LEMMA SubmitKeeps == ASSUME LookupInv, NEW p \in Procs, Submit(p)
                     PROVE  LookupInv'
<1>1. PICK j \in Jobs : /\ proc[j].pc \in {"done", "lost"}
                        /\ proc' = [proc EXCEPT ![j] = [At("queued") EXCEPT !.uuid = proc[p].uuid],
                                                ![p] = [@ EXCEPT !.pc = "update", !.job = j]]
  BY DEF Submit, FreeJobs
<1>2. j # p /\ j \in Procs /\ proc[p].pc = "submit"
  BY <1>1 DEF Submit, Procs
<1>3. proc[p] \in Locals /\ Fits(proc[p]) /\ proc[p].uuid \in Uuids
  BY <1>2 DEF LookupInv, TypeOK, Fits
<1> DEFINE q1 == [At("queued") EXCEPT !.uuid = proc[p].uuid]
           p1 == [proc[p] EXCEPT !.pc = "update", !.job = j]
<1>4. q1 \in Locals /\ Fits(q1) /\ p1 \in Locals /\ Fits(p1)
  <2>1. q1 \in Locals /\ Fits(q1)
    BY <1>3, NoneAssumption DEF At, Locals, Fits, JobPcs
  <2>2. proc[p].held = None
    BY <1>2, <1>3 DEF Fits, Holding
  <2>3. p1 \in Locals /\ p1.pc = "update" /\ p1.uuid = proc[p].uuid /\ p1.job = j /\ p1.held = None
    BY <1>3, <2>2 DEF Locals, CallerPcs
  <2>4. Fits(p1)
    BY <1>3, <2>3, NoneAssumption DEF Fits
  <2> QED BY <2>1, <2>3, <2>4
<1>5. \A q \in Procs : proc'[q] = IF q = p THEN p1 ELSE IF q = j THEN q1 ELSE proc[q]
  BY <1>1, <1>2 DEF LookupInv, TypeOK
<1>6. proc' \in [Procs -> Locals]
  BY <1>1, <1>4, <1>2 DEF LookupInv, TypeOK
<1>7. ASSUME NEW q \in Procs PROVE Fits(proc[q])'
  <2>1. Fits(proc'[q])
    BY <1>4, <1>5 DEF LookupInv
  <2> QED BY <2>1 DEF Fits, Exists, Submit
<1> QED BY <1>6, <1>7 DEF LookupInv, TypeOK, CompletedIsNotFound, Exists, Submit, beatVars

LEMMA SaveKeeps == ASSUME LookupInv, NEW p \in Procs, Save(p) \/ SaveNotUnique(p)
                   PROVE  LookupInv'
<1>1. CASE Save(p)
  <2> DEFINE u == proc[p].uuid
             l == At(IF p = Beat THEN "retry" ELSE "idle")
             new == [task_id |-> proc[p].job, completed |-> FALSE, status_code |-> None,
                     initOld |-> FALSE, modOld |-> FALSE]
             f == [task[u] EXCEPT !.task_id = proc[p].job, !.completed = FALSE, !.modOld = FALSE]
  <2>1. u \in Uuids /\ proc[p].job \in Jobs /\ (proc[p].held = "there" => Exists(u))
    BY <1>1 DEF Save, LookupInv, Fits
  <2>2. l \in Locals /\ Fits(l) /\ Become(p, l)
    BY <1>1, FreshFits DEF Save, Updated
  <2>3. new \in Tasks /\ ~new.completed
    BY <2>1 DEF Tasks
  <2>4. Exists(u) => f \in Tasks /\ ~f.completed
    <3>1. Exists(u) => task[u] \in Tasks
      BY <2>1 DEF LookupInv, TypeOK, Exists
    <3> SUFFICES ASSUME Exists(u) PROVE f \in Tasks /\ ~f.completed
      OBVIOUS
    <3> DEFINE f1 == [task[u] EXCEPT !.task_id = proc[p].job]
               f2 == [f1 EXCEPT !.completed = FALSE]
    <3>2. f1 \in Tasks
      BY <2>1, <3>1 DEF Tasks
    <3>3. f2 \in Tasks /\ ~f2.completed
      BY <3>2 DEF Tasks
    <3>4. f = [f2 EXCEPT !.modOld = FALSE]
      OBVIOUS
    <3> HIDE DEF f1, f2, f
    <3> QED BY <3>3, <3>4 DEF Tasks
  <2>5. \/ task' = [task EXCEPT ![u] = new]
        \/ Exists(u) /\ task' = [task EXCEPT ![u] = f]
        \/ task' = task
    BY <1>1, <2>1 DEF Save, Set
  <2> QED BY <1>1, <2>1, <2>2, <2>3, <2>4, <2>5, WriteKeeps, BecomeKeeps
          DEF Save, LookupInv, TypeOK, beatVars
<1>2. CASE SaveNotUnique(p)
  BY <1>2, FreshFits, BecomeKeeps DEF SaveNotUnique, LookupInv, TypeOK, beatVars
<1> QED BY <1>1, <1>2

LEMMA UpdateKeeps == ASSUME LookupInv, NEW p \in Procs, UpdateStep(p)
                     PROVE  LookupInv'
<1>1. CASE DropForUpdate(p)
  BY <1>1, DropKeeps DEF DropForUpdate, Holding
<1> QED BY <1>1, SubmitKeeps, ReadForUpdateKeeps, SaveKeeps DEF UpdateStep

-------------------------------------------------------------------------------
(* The jobs *)

\* A job goes on without touching a record.
LEMMA MoveKeeps ==
  ASSUME LookupInv, NEW j \in Procs, NEW a \in Answers, Enter(j) \/ Skip(j) \/ Ask(j, a) \/ Store(j)
         \/ End(j) \/ JobFails(j) \/ JobLost(j)
  PROVE  LookupInv'
<1>0. proc[j] \in Locals /\ Fits(proc[j])
  BY DEF LookupInv, TypeOK
<1>1. CASE Enter(j)
  <2> DEFINE l == [proc[j] EXCEPT !.pc = "ask"]
  <2>1. l \in Locals /\ Fits(l)
    BY <1>0, <1>1 DEF Enter, MayStart, Locals, Fits, Holding, JobPcs
  <2> QED BY <1>1, <2>1, BecomeKeeps DEF Enter, Goto, LookupInv, TypeOK, beatVars
<1>2. CASE Ask(j, a)
  <2> DEFINE l == [proc[j] EXCEPT !.ans = a, !.pc = IF a = 200 THEN "store" ELSE "complete"]
         at(pc) == [[proc[j] EXCEPT !.ans = a] EXCEPT !.pc = pc]
  <2>1. proc[j].uuid \in Uuids /\ proc[j].held = None
    BY <1>0, <1>2 DEF Ask, Fits, Holding
  <2>3. ASSUME NEW pc \in {"store", "complete"} PROVE at(pc) \in Locals /\ Fits(at(pc))
    <3> DEFINE k == [proc[j] EXCEPT !.ans = a]
    <3>1. k \in Locals /\ k.uuid = proc[j].uuid /\ k.held = None
      BY <1>0, <2>1 DEF Locals
    <3> HIDE DEF k
    <3>2. /\ [k EXCEPT !.pc = pc] \in Locals /\ [k EXCEPT !.pc = pc].pc = pc
          /\ [k EXCEPT !.pc = pc].uuid = proc[j].uuid /\ [k EXCEPT !.pc = pc].held = None
      BY <3>1 DEF Locals, JobPcs
    <3>3. at(pc) = [k EXCEPT !.pc = pc]
      BY DEF k
    <3> HIDE DEF at
    <3> QED BY <2>1, <3>2, <3>3, NoneAssumption DEF Fits
  <2>4. l \in {at("store"), at("complete")}
    OBVIOUS
  <2>5. l \in Locals /\ Fits(l)
    <3> HIDE DEF l, at
    <3> QED BY <2>3, <2>4
  <2>2. faults' \in 0..MaxFaults
    BY <1>2, ConstantsAssumption DEF Ask, Fault, NoFault, LookupInv, TypeOK
  <2> QED BY <1>2, <2>2, <2>5, BecomeKeeps DEF Ask, LookupInv, TypeOK, beatVars
<1>3. CASE Store(j)
  <2> DEFINE l == [proc[j] EXCEPT !.pc = "complete"]
  <2>1. l \in Locals /\ Fits(l) /\ proc[j].uuid \in Uuids
    BY <1>0, <1>3 DEF Store, Locals, Fits, Holding, JobPcs
  <2> QED BY <1>3, <2>1, BecomeKeeps DEF Store, Goto, LookupInv, TypeOK, beatVars
<1>4. CASE Skip(j) \/ End(j) \/ JobFails(j) \/ JobLost(j)
  <2>1. faults' \in 0..MaxFaults
    BY <1>4, ConstantsAssumption DEF Skip, End, JobFails, JobLost, Fault, NoFault, LookupInv, TypeOK
  <2> QED BY <1>4, <2>1, FreshFits, BecomeKeeps
          DEF Skip, End, JobFails, JobLost, LookupInv, TypeOK, beatVars
<1> QED BY <1>1, <1>2, <1>3, <1>4

\* What a record is after an update of one of its fields.
LEMMA WithCompleted ==
  ASSUME NEW t \in Tasks, NEW b \in BOOLEAN
  PROVE  /\ [t EXCEPT !.completed = b] \in Tasks
         /\ [t EXCEPT !.completed = b].status_code = t.status_code
         /\ [t EXCEPT !.completed = b].completed <=> b
<1>1. [t EXCEPT !.completed = b] \in Tasks
  BY DEF Tasks
<1>2. [t EXCEPT !.completed = b].status_code = t.status_code
  BY DEF Tasks
<1>3. [t EXCEPT !.completed = b].completed <=> b
  BY DEF Tasks
<1> QED BY <1>1, <1>2, <1>3

LEMMA WithModOld ==
  ASSUME NEW t \in Tasks
  PROVE  /\ [t EXCEPT !.modOld = FALSE] \in Tasks
         /\ [t EXCEPT !.modOld = FALSE].status_code = t.status_code
         /\ [t EXCEPT !.modOld = FALSE].completed <=> t.completed
<1>1. [t EXCEPT !.modOld = FALSE] \in Tasks
  BY DEF Tasks
<1>2. [t EXCEPT !.modOld = FALSE].status_code = t.status_code
  BY DEF Tasks
<1>3. [t EXCEPT !.modOld = FALSE].completed <=> t.completed
  BY DEF Tasks
<1> QED BY <1>1, <1>2, <1>3

\* A record with an answer in it is a record, and complete only with a 404.
LEMMA AnswerFits ==
  ASSUME NEW t \in Tasks, NEW code \in {202, 404}
  PROVE  /\ WithAnswer(t, code) \in Tasks
         /\ WithAnswer(t, code).completed => WithAnswer(t, code).status_code = 404
<1> DEFINE f1 == [t EXCEPT !.status_code = code]
           b == code = 404
           f2 == [f1 EXCEPT !.completed = b]
           f3 == [f2 EXCEPT !.modOld = FALSE]
<1>1. f1 \in Tasks /\ f1.status_code = code
  BY DEF Tasks
<1>2. WithAnswer(t, code) = f3
  BY DEF WithAnswer
<1> HIDE DEF f1
<1>3. f2 \in Tasks /\ f2.status_code = f1.status_code /\ (f2.completed <=> b)
  <2>1. b \in BOOLEAN
    OBVIOUS
  <2> HIDE DEF b
  <2> QED BY <1>1, <2>1, WithCompleted
<1> HIDE DEF f2
<1>4. f3 \in Tasks /\ f3.status_code = f2.status_code /\ (f3.completed <=> f2.completed)
  BY <1>3, WithModOld
<1> HIDE DEF f3
<1>5. f3.completed => f3.status_code = 404
  BY <1>1, <1>3, <1>4
<1> QED BY <1>2, <1>4, <1>5

LEMMA SetKeeps == ASSUME LookupInv, NEW j \in Procs, SetStatus(j) \/ UnsetTaskId(j)
                  PROVE  LookupInv'
<1> DEFINE u == proc[j].uuid
           l(pc) == [proc[j] EXCEPT !.pc = pc]
           f == WithAnswer(task[u], proc[j].ans)
           g == [task[u] EXCEPT !.task_id = None]
<1>1. /\ proc[j] \in Locals /\ Fits(proc[j]) /\ proc[j].pc \in {"set", "unset"}
      /\ u \in Uuids /\ proc[j].ans \in {202, 404} /\ (proc[j].held = "there" => Exists(u))
  BY DEF SetStatus, UnsetTaskId, LookupInv, TypeOK, Fits
<1>2. l("unset") \in Locals /\ Fits(l("unset")) /\ l("end") \in Locals /\ Fits(l("end"))
  BY <1>1 DEF Locals, Fits, Holding, JobPcs
<1>3. Exists(u) => /\ f \in Tasks /\ (f.completed => f.status_code = 404)
                   /\ g \in Tasks /\ (g.completed => g.status_code = 404)
  <2>1. Exists(u) => task[u] \in Tasks /\ (task[u].completed => task[u].status_code = 404)
    BY <1>1 DEF LookupInv, TypeOK, Exists, CompletedIsNotFound
  <2>2. Exists(u) => f \in Tasks /\ (f.completed => f.status_code = 404)
    BY <1>1, <2>1, AnswerFits
  <2>3. Exists(u) => g \in Tasks /\ (g.completed => g.status_code = 404)
    BY <2>1 DEF Tasks
  <2> QED BY <2>2, <2>3
<1>4. CASE SetStatus(j)
  <2>1. Become(j, l("unset")) /\ (task' = task \/ (Exists(u) /\ task' = [task EXCEPT ![u] = f]))
    BY <1>1, <1>4 DEF SetStatus, Goto, Set
  <2>2. UNCHANGED <<known, parentKnows, beatVars, faults>>
    BY <1>4 DEF SetStatus
  <2>3. CASE task' = task
    BY <1>2, <2>1, <2>2, <2>3, BecomeKeeps DEF LookupInv, TypeOK, beatVars
  <2>4. CASE Exists(u) /\ task' = [task EXCEPT ![u] = f]
    <3> HIDE DEF u, l, f, g
    <3> QED BY <1>1, <1>2, <1>3, <2>1, <2>2, <2>4, WriteKeeps
  <2> QED BY <2>1, <2>3, <2>4
<1>5. CASE UnsetTaskId(j)
  <2>1. Become(j, l("end")) /\ (task' = task \/ (Exists(u) /\ task' = [task EXCEPT ![u] = g]))
    BY <1>1, <1>5 DEF UnsetTaskId, Goto, Set
  <2>2. UNCHANGED <<known, parentKnows, beatVars, faults>>
    BY <1>5 DEF UnsetTaskId
  <2>3. CASE task' = task
    BY <1>2, <2>1, <2>2, <2>3, BecomeKeeps DEF LookupInv, TypeOK, beatVars
  <2>4. CASE Exists(u) /\ task' = [task EXCEPT ![u] = g]
    <3> HIDE DEF u, l, f, g
    <3> QED BY <1>1, <1>2, <1>3, <2>1, <2>2, <2>4, WriteKeeps
  <2> QED BY <2>1, <2>3, <2>4
<1> QED BY <1>4, <1>5

LEMMA JobKeeps ==
  ASSUME LookupInv, NEW j \in Jobs, JobStart(j) \/ JobStep(j) \/ JobFails(j) \/ JobLost(j)
  PROVE  LookupInv'
<1>1. j \in Procs
  BY DEF Procs
<1>2. CASE DropCompleted(j) \/ DeleteTask(j)
  BY <1>1, <1>2, DropKeeps DEF DropCompleted, DeleteTask, Holding
<1>3. 200 \in Answers
  BY DEF Answers
<1> QED BY <1>1, <1>2, <1>3, MoveKeeps, SetKeeps, CompleteKeeps DEF JobStart, JobStep

-------------------------------------------------------------------------------
(* The retry task, and the environment *)

LEMMA BeatKeeps == ASSUME LookupInv, BeatStart \/ Purge \/ List \/ Retry
                   PROVE  LookupInv'
<1>0. Beat \in Procs /\ proc[Beat] \in Locals /\ Fits(proc[Beat])
  BY DEF Procs, LookupInv, TypeOK
<1>1. CASE BeatStart
  <2> DEFINE l == [proc[Beat] EXCEPT !.pc = "purge"]
  <2>1. l \in Locals /\ Fits(l)
    BY <1>0, <1>1, NoneAssumption DEF BeatStart, Locals, Fits, Holding, BeatPcs
  <2> QED BY <1>0, <1>1, <2>1, BecomeKeeps DEF BeatStart, Goto, LookupInv, TypeOK
<1>2. CASE Purge
  <2>1. PICK u \in purging : Delete(Beat, u, "there", proc[Beat])
    BY <1>2 DEF Purge
  <2>2. u \in Uuids /\ proc[Beat].held # "there"
    BY <1>0, <1>2, NoneAssumption DEF Purge, LookupInv, TypeOK, Fits, Holding
  <2> QED BY <1>0, <1>2, <2>1, <2>2, DeleteKeeps DEF Purge
<1>3. CASE List
  <2> DEFINE l == [proc[Beat] EXCEPT !.pc = "retry"]
  <2>1. l \in Locals /\ Fits(l)
    BY <1>0, <1>3, NoneAssumption DEF List, Locals, Fits, Holding, BeatPcs
  <2>2. retrying' \subseteq Uuids \X (Jobs \cup {None})
    BY <1>3 DEF List, InProgress, Exists, NoTask, LookupInv, TypeOK, Tasks
  <2> QED BY <1>0, <1>3, <2>1, <2>2, BecomeKeeps DEF List, Goto, LookupInv, TypeOK
<1>4. CASE Retry
  <2>1. CASE UNCHANGED proc
    <3>1. UNCHANGED <<task, known, parentKnows, proc, purging, faults>> /\ retrying' \subseteq retrying
      BY <1>4, <2>1 DEF Retry
    <3>2. TypeOK' /\ CompletedIsNotFound'
      BY <3>1 DEF LookupInv, TypeOK, CompletedIsNotFound, Exists
    <3> QED BY <3>1, <3>2 DEF LookupInv, Fits, Exists
  <2>2. ASSUME NEW x \in retrying, Become(Beat, [At("submit") EXCEPT !.uuid = x[1]])
        PROVE  LookupInv'
    <3> DEFINE l == [At("submit") EXCEPT !.uuid = x[1]]
    <3>1. x[1] \in Uuids
      BY DEF LookupInv, TypeOK
    <3>2. l \in Locals /\ Fits(l)
      BY <3>1, NoneAssumption DEF At, Locals, Fits, CallerPcs
    <3>3. retrying' \subseteq Uuids \X (Jobs \cup {None})
      BY <1>4 DEF Retry, LookupInv, TypeOK
    <3> QED BY <1>0, <1>4, <2>2, <3>2, <3>3, BecomeKeeps DEF Retry, LookupInv, TypeOK
  <2>3. CASE Become(Beat, At("idle")) /\ UNCHANGED retrying
    BY <1>0, <1>4, <2>3, FreshFits, BecomeKeeps DEF Retry, LookupInv, TypeOK
  <2> QED BY <1>4, <2>1, <2>2, <2>3 DEF Retry
<1> QED BY <1>1, <1>2, <1>3, <1>4

LEMMA KilledKeeps == ASSUME LookupInv, NEW p \in Procs, Killed(p)
                     PROVE  LookupInv'
<1>1. faults' \in 0..MaxFaults
  BY ConstantsAssumption DEF Killed, Fault, LookupInv, TypeOK
<1> QED BY <1>1, FreshFits, BecomeKeeps DEF Killed, LookupInv, TypeOK, beatVars

LEMMA EnvironmentKeeps ==
  ASSUME LookupInv, NEW u \in Uuids, TimesOut(u) \/ Register(u) \/ SyncedMeanwhile(u)
  PROVE  LookupInv'
<1>1. CASE TimesOut(u)
  <2>1. PICK f \in Tasks : /\ task' = [task EXCEPT ![u] = f] /\ f.completed = task[u].completed
                           /\ f.status_code = task[u].status_code
    <3>1. task[u] \in Tasks
      BY <1>1 DEF TimesOut, Exists, NoTask, LookupInv, TypeOK
    <3>2. CASE task' = [task EXCEPT ![u].initOld = TRUE]
      <4> DEFINE f == [task[u] EXCEPT !.initOld = TRUE]
      <4>1. f \in Tasks /\ f.completed = task[u].completed /\ f.status_code = task[u].status_code
        BY <3>1 DEF Tasks
      <4> QED BY <3>2, <4>1
    <3>3. CASE task' = [task EXCEPT ![u].modOld = TRUE, ![u].initOld = TRUE]
      <4> DEFINE f == [[task[u] EXCEPT !.modOld = TRUE] EXCEPT !.initOld = TRUE]
      <4>1. task' = [task EXCEPT ![u] = f]
        BY <3>1, <3>3 DEF LookupInv, TypeOK
      <4>2. f \in Tasks /\ f.completed = task[u].completed /\ f.status_code = task[u].status_code
        BY <3>1 DEF Tasks
      <4> QED BY <4>1, <4>2
    <3> QED BY <1>1, <3>2, <3>3 DEF TimesOut
  <2>2. Exists(u) /\ \A v \in Uuids : Exists(v)' <=> Exists(v)
    BY <1>1, <2>1, NoneAssumption DEF TimesOut, Exists, NoTask, LookupInv, TypeOK
  <2>3. TypeOK' /\ \A v \in purging' : Exists(v)'
    BY <1>1, <2>1, <2>2 DEF TimesOut, LookupInv, TypeOK, beatVars
  <2>4. CompletedIsNotFound'
    BY <2>1, <2>2 DEF CompletedIsNotFound, LookupInv, TypeOK
  <2>5. ASSUME NEW p \in Procs PROVE Fits(proc[p])'
    <3>1. proc'[p] = proc[p] /\ Fits(proc[p])
      BY <1>1 DEF TimesOut, LookupInv
    <3>2. proc[p].held = "there" => proc[p].uuid \in Uuids
      BY <3>1, NoneAssumption DEF Fits, Holding
    <3> QED BY <3>1, <3>2, <2>2 DEF Fits
  <2> QED BY <2>3, <2>4, <2>5 DEF LookupInv
<1>2. CASE Register(u) \/ SyncedMeanwhile(u)
  BY <1>2 DEF Register, SyncedMeanwhile, LookupInv, TypeOK, CompletedIsNotFound, Fits, Exists, beatVars
<1> QED BY <1>1, <1>2

LEMMA LookupStep == LookupInv /\ [Next]_vars => LookupInv'
<1> SUFFICES ASSUME LookupInv, [Next]_vars PROVE LookupInv'
  OBVIOUS
<1>1. CASE \E w \in Web : WebStep(w) \/ \E u \in Uuids, k \in Kinds : Request(w, u, k)
  BY <1>1, WebKeeps, UpdateKeeps DEF WebStep, Procs
<1>2. CASE BeatStep
  BY <1>2, BeatKeeps, UpdateKeeps DEF BeatStep, Procs
<1>3. CASE \E j \in Jobs : JobStart(j) \/ JobStep(j) \/ JobFails(j) \/ JobLost(j)
  BY <1>3, JobKeeps
<1>4. CASE \E p \in Web \cup {Beat} : Killed(p)
  BY <1>4, KilledKeeps DEF Procs
<1>5. CASE \E u \in Uuids : TimesOut(u) \/ Register(u) \/ SyncedMeanwhile(u)
  BY <1>5, EnvironmentKeeps
<1>6. CASE UNCHANGED vars
  BY <1>6 DEF vars, beatVars, LookupInv, TypeOK, CompletedIsNotFound, Fits, Exists
<1> QED BY <1>1, <1>2, <1>3, <1>4, <1>5, <1>6 DEF Next

\* What the processes hold of a record is true or known to be stale, whatever the race.
THEOREM LookupIsSound == Spec => []LookupInv
BY LookupInit, LookupStep, PTL DEF Spec

\* Every variable of the lookup keeps its type.
THEOREM TypeCorrect == Spec => []TypeOK
<1>1. LookupInv => TypeOK
  BY DEF LookupInv
<1> QED BY <1>1, LookupIsSound, PTL

\* A completed record always says that the parent does not know the RHIC.
THEOREM CompletedIsNotFoundHolds == Spec => []CompletedIsNotFound
<1>1. LookupInv => CompletedIsNotFound
  BY DEF LookupInv
<1> QED BY <1>1, LookupIsSound, PTL

-------------------------------------------------------------------------------
\* Of all writes only the insert of save() brings a record into being.
LEMMA OnlySaveCreates ==
  ASSUME LookupInv, [Next]_vars, NEW u \in Uuids, ~Exists(u), Exists(u)'
  PROVE  \E p \in Procs : Save(p) /\ proc[p].held = None
<1>1. \A p \in Procs : /\ Fits(proc[p])
                       /\ proc[p].held = "there" => Exists(proc[p].uuid)
  BY DEF LookupInv, Fits
<1>2. task \in [Uuids -> Tasks \cup {NoTask}] /\ task'[u] # task[u]
  BY DEF LookupInv, TypeOK, Exists
<1>3. ASSUME NEW p, NEW v, NEW held, NEW l, Delete(p, v, held, l) PROVE FALSE
  BY <1>2, <1>3 DEF Delete, Exists
<1>4. ASSUME NEW p \in Procs, NEW f, Set(p, f) PROVE FALSE
  BY <1>1, <1>2, <1>4 DEF Set
<1>5. ASSUME NEW p \in Procs, UpdateStep(p) PROVE Save(p) /\ proc[p].held = None
  <2>1. CASE Save(p)
    BY <2>1, <1>4 DEF Save
  <2>2. CASE DropForUpdate(p)
    BY <2>2, <1>3 DEF DropForUpdate, Drop
  <2> QED BY <1>2, <1>5, <2>1, <2>2 DEF UpdateStep, Submit, ReadForUpdate, SaveNotUnique
<1>6. ASSUME NEW w \in Web, WebStep(w) PROVE Save(w) /\ proc[w].held = None
  <2>1. ~DropCached(w)
    BY <1>3 DEF DropCached, Drop
  <2> QED BY <1>2, <1>5, <1>6, <2>1 DEF WebStep, FindIdentity, ReadCached, Procs
<1>7. CASE BeatStep
  <2>1. ~Purge
    BY <1>3 DEF Purge
  <2> QED BY <1>2, <1>5, <1>7, <2>1 DEF BeatStep, BeatStart, List, Retry, Procs
<1>8. ASSUME NEW j \in Jobs PROVE ~(JobStart(j) \/ JobStep(j) \/ JobFails(j) \/ JobLost(j))
  <2>1. ~(SetStatus(j) \/ UnsetTaskId(j))
    BY <1>4 DEF SetStatus, UnsetTaskId, Procs
  <2>2. ~(DropCompleted(j) \/ DeleteTask(j))
    BY <1>3 DEF DropCompleted, DeleteTask, Drop
  <2> QED BY <1>2, <2>1, <2>2
          DEF JobStart, JobStep, JobFails, JobLost, Enter, Skip, Ask, Store, Complete, End
<1>9. ASSUME NEW v \in Uuids PROVE ~TimesOut(v)
  BY <1>2 DEF TimesOut, Exists
<1> QED BY <1>2, <1>6, <1>7, <1>8, <1>9
        DEF Next, vars, Request, Killed, Register, SyncedMeanwhile, Procs

\* A record that was deleted never comes back from a process that still holds it.
THEOREM DeletedStaysDeletedHolds == Spec => DeletedStaysDeleted
<1>1. LookupInv /\ [Next]_vars =>
        [\A u \in Uuids : ~Exists(u) /\ Exists(u)' =>
           /\ ~task'[u].completed /\ ~task'[u].initOld /\ task'[u].task_id # None]_vars
  <2> SUFFICES ASSUME LookupInv, [Next]_vars, NEW u \in Uuids, ~Exists(u), Exists(u)'
               PROVE  ~task'[u].completed /\ ~task'[u].initOld /\ task'[u].task_id # None
    OBVIOUS
  <2>1. PICK p \in Procs : Save(p) /\ proc[p].held = None
    BY OnlySaveCreates
  <2>2. proc[p].job \in Jobs /\ proc[p].uuid \in Uuids /\ task \in [Uuids -> Tasks \cup {NoTask}]
    BY <2>1 DEF LookupInv, TypeOK, Fits, Save
  <2> QED BY <2>1, <2>2, NoneAssumption DEF Save, Exists
<1> QED BY <1>1, LookupIsSound, PTL DEF Spec, DeletedStaysDeleted

===============================================================================
