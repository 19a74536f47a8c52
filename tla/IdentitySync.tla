----------------------------- MODULE IdentitySync -----------------------------
(***************************************************************************)
(* The periodic synchronisation of consumer identities (RHICs) from the    *)
(* parent server: sync_from_rhic_serve_blocking and process_data of        *)
(* common/identity.py, run by the celery task sync_rhics, next to          *)
(* sync_single_rhic, which fetches and stores one identity.                *)
(*                                                                         *)
(* The task asks the parent, page by page, for the RHICs modified after    *)
(* the last sync, inserts those it does not have in one bulk insert,       *)
(* updates the others one by one, and in the end saves the time at which   *)
(* it started as the time of the last sync.  ConsumerIdentity has no       *)
(* unique index: whether an identity is new is decided by a read.          *)
(*                                                                         *)
(* Each task is a single_instance_task, so that there is one job of each   *)
(* kind (SingleTask), but the two kinds work side by side.  The clocks of  *)
(* the two servers agree.  In which order the parent lists RHICs, and      *)
(* whether a change moves one, is left open.                               *)
(***************************************************************************)
EXTENDS Naturals, SequencesExt

CONSTANTS
  Uuids,            \* uuids of RHICs
  Limit,            \* sync_all_rhics_pagination_limit_per_call
  MaxTime,          \* bound: changes at the parent
  MaxFaults         \* bound: failures

ASSUME UuidsAssumption == IsFiniteSet(Uuids)
ASSUME LimitAssumption == Limit \in Nat \ {0} /\ MaxTime \in Nat /\ MaxFaults \in Nat

VARIABLES
  now,        \* the time of the last change at the parent
  listed,     \* listed[u]: when the parent has put u at the end of its list, 0 for never
  modified,   \* modified[u]: modified_date at the parent, 0 for no such RHIC
  copies,     \* copies[u]: the versions of our ConsumerIdentity documents of u
  last_sync,  \* IdentitySyncInfo of the parent, 0 for none
  pc,         \* pc[j]: the next step of job j
  item,       \* item[j]: the RHIC it creates or updates
  found,      \* found[j]: has it found a document of that RHIC?
  sync,       \* locals of the sync: current_time, current_offset, total_count,
              \* the RHICs of the page still to be stored, those of them to insert
  astray,     \* history: RHICs that went astray (Settle, Passed) and whose present
              \* version has not got here since
  raced,      \* history: RHICs that both jobs were about to insert at one time
  faults

parent == <<now, listed, modified>>
job == <<pc, item, found>>
history == <<astray, raced>>
vars == <<parent, copies, history, last_sync, job, sync, faults>>

Jobs == {"all", "single"}
Times == 0..MaxTime

\* A RHIC as the parent sends it: its uuid and its version
Rhics == Uuids \X Times
Uuid(x) == x[1]
Version(x) == x[2]
NoRhic == <<>>

Syncs == [start : Times, offset : Nat, total : Nat,
          data : SUBSET Rhics, fresh : SUBSET Rhics]
NoSync == [start |-> 0, offset |-> 0, total |-> 0, data |-> {}, fresh |-> {}]

TypeOK ==
  /\ now \in Times /\ last_sync \in 0..now
  /\ listed \in [Uuids -> 0..now] /\ modified \in [Uuids -> 0..now]
  /\ copies \in [Uuids -> Seq(Times \ {0})]
  /\ pc \in [Jobs -> {"idle", "page", "sort", "insert", "update", "read", "write"}]
  /\ item \in [Jobs -> Rhics \cup {NoRhic}]
  /\ found \in [Jobs -> BOOLEAN]
  /\ sync \in Syncs /\ sync.start <= now
  /\ astray \subseteq Uuids /\ raced \subseteq Uuids
  /\ faults \in 0..MaxFaults

Init ==
  /\ now = 0 /\ listed = [u \in Uuids |-> 0] /\ modified = [u \in Uuids |-> 0]
  /\ copies = [u \in Uuids |-> <<>>] /\ last_sync = 0
  /\ pc = [j \in Jobs |-> "idle"]
  /\ item = [j \in Jobs |-> NoRhic] /\ found = [j \in Jobs |-> FALSE]
  /\ sync = NoSync /\ astray = {} /\ raced = {}
  /\ faults = 0

Goto(j, from, to) == pc[j] = from /\ pc' = [pc EXCEPT ![j] = to]
Fault == faults < MaxFaults /\ faults' = faults + 1
Known(u) == copies[u] # <<>>

\* The document that is found is the first: is it of version t or later?
First(docs, u, t) == docs[u] # <<>> /\ Head(docs[u]) >= t
Here(u, t) == First(copies, u, t)

Stop(j) == /\ pc' = [pc EXCEPT ![j] = "idle"]
           /\ item' = [item EXCEPT ![j] = NoRhic]
           /\ found' = [found EXCEPT ![j] = FALSE]
           /\ sync' = IF j = "all" THEN NoSync ELSE sync

-------------------------------------------------------------------------------
(* The parent *)

\* Its answer to modified_date__gt=last_sync, offset and limit, in the order of its list
Newer == {u \in Uuids : modified[u] > last_sync}
Before(u) == Cardinality({w \in Newer : listed[w] < listed[u]})
Page == {<<u, modified[u]>> :
           u \in {w \in Newer : sync.offset <= Before(w) /\ Before(w) < sync.offset + Limit}}

\* How far down the list the sync has asked, and the RHICs it is to bring of those that
\* a change moves up past this mark: no page of this sync has them.
Asked == sync.offset + (IF pc["all"] = "sort" THEN Cardinality(sync.data) ELSE 0)
ToBring(u) == last_sync < modified[u] /\ modified[u] <= sync.start
Passed == {u \in Uuids : ToBring(u) /\ Asked <= Before(u) /\ Before(u)' < Asked}

\* A RHIC is registered, changed or marked as deleted.  The parent may list it last then.
Change(u) ==
  /\ now < MaxTime
  /\ now' = now + 1
  /\ modified' = [modified EXCEPT ![u] = now + 1]
  /\ \/ listed' = [listed EXCEPT ![u] = now + 1]
     \/ modified[u] > 0 /\ listed' = listed
  /\ UNCHANGED <<copies, last_sync, job, sync, raced, faults>>
  /\ astray' = (astray \cup Passed) \ {u}

-------------------------------------------------------------------------------
(* History *)

\* After an attempt to write X: a RHIC goes astray if the document that is found is
\* then older than what was to be written, since the write has failed or has made a
\* second document; or older than it was, since what was written was older.
Settle(X) ==
  LET lost == {x \in X : LET u == Uuid(x) IN
                 \/ ~First(copies', u, Version(x))
                 \/ Known(u) /\ ~First(copies', u, Head(copies[u]))}
  IN  astray' = {u \in astray \cup {Uuid(x) : x \in lost} : ~First(copies', u, modified[u])}

\* What job j has found not to be here and is about to insert.
ToInsert(j) == {Uuid(x) : x \in CASE j = "all" /\ pc[j] = "insert" -> sync.fresh
                                   [] pc[j] = "write" /\ ~found[j] -> {item[j]}
                                   [] OTHER -> {}}
Look == raced' = raced \cup (ToInsert("all") \cap ToInsert("single"))'

-------------------------------------------------------------------------------
(* sync_from_rhic_serve_blocking *)

\* current_time is taken before anything is fetched.
Start == /\ Goto("all", "idle", "page")
         /\ sync' = [sync EXCEPT !.start = now]
         /\ UNCHANGED <<parent, copies, history, last_sync, item, found, faults>>

\* get_all_rhics.  When there is nothing, the sync is over and last_sync stays.
FetchPage ==
  /\ pc["all"] = "page"
  /\ \/ /\ Page # {}
        /\ Goto("all", "page", "sort")
        /\ sync' = [sync EXCEPT !.data = Page, !.total = Cardinality(Newer)]
        /\ UNCHANGED <<item, found>>
     \/ /\ Page = {}
        /\ Stop("all")
  /\ UNCHANGED <<parent, copies, history, last_sync, faults>>

\* process_data: which of them do we have?
SortOut == /\ Goto("all", "sort", "insert")
           /\ sync' = [sync EXCEPT !.fresh = {x \in sync.data : ~Known(Uuid(x))},
                                   !.offset = @ + Cardinality(sync.data)]
           /\ UNCHANGED <<parent, copies, astray, last_sync, item, found, faults>>
           /\ Look

\* bulk_insert of those we do not have.  It is not acknowledged: when it fails,
\* the job goes on.
InsertNew ==
  /\ Goto("all", "insert", "update")
  /\ \/ /\ copies' = [u \in Uuids |->
             copies[u] \o SetToSeq({Version(x) : x \in {y \in sync.fresh : Uuid(y) = u}})]
        /\ UNCHANGED faults
     \/ /\ sync.fresh # {} /\ Fault
        /\ UNCHANGED copies
  /\ Settle(sync.fresh)
  /\ sync' = [sync EXCEPT !.data = @ \ sync.fresh, !.fresh = {}]
  /\ UNCHANGED <<parent, last_sync, item, found, raced>>

\* create_or_update_consumer_identity for the others: the read
UpdateNext(x) ==
  /\ x \in sync.data
  /\ Goto("all", "update", "write")
  /\ item' = [item EXCEPT !["all"] = x]
  /\ found' = [found EXCEPT !["all"] = Known(Uuid(x))]
  /\ sync' = [sync EXCEPT !.data = @ \ {x}]
  /\ UNCHANGED <<parent, copies, astray, last_sync, faults>>
  /\ Look

\* create_or_update_consumer_identity: identity.save() of a new document, or of
\* the one it has read.  An exception is logged and the job goes on.
Write(j) ==
  /\ pc[j] = "write"
  /\ LET u == Uuid(item[j])
         v == Version(item[j])
     IN \/ /\ copies' = [copies EXCEPT ![u] =
                           IF found[j] THEN [@ EXCEPT ![1] = v] ELSE Append(@, v)]
           /\ UNCHANGED faults
        \/ Fault /\ UNCHANGED copies
  /\ Settle({item[j]})
  /\ \/ j = "single" /\ Stop(j)
     \/ /\ j = "all" /\ Goto(j, "write", "update")
        /\ item' = [item EXCEPT ![j] = NoRhic]
        /\ found' = [found EXCEPT ![j] = FALSE]
        /\ UNCHANGED sync
  /\ UNCHANGED <<parent, last_sync, raced>>

\* The page is done and there are others.
NextPage == /\ sync.data = {} /\ sync.offset < sync.total
            /\ Goto("all", "update", "page")
            /\ UNCHANGED <<parent, copies, history, last_sync, item, found, sync, faults>>

\* Mutants of SaveLastSync: the time of the end of the sync is saved; the sync is
\* over after its first page.
SaveEndOfSync ==
  /\ pc["all"] = "update" /\ sync.data = {} /\ sync.offset >= sync.total
  /\ last_sync' = now
  /\ Stop("all")
  /\ UNCHANGED <<parent, copies, history, faults>>
SaveAfterPage ==
  /\ pc["all"] = "update" /\ sync.data = {}
  /\ last_sync' = sync.start
  /\ Stop("all")
  /\ UNCHANGED <<parent, copies, history, faults>>

\* save_last_sync: the last page is done.
SaveLastSync ==
  /\ pc["all"] = "update" /\ sync.data = {} /\ sync.offset >= sync.total
  /\ last_sync' = sync.start
  /\ Stop("all")
  /\ UNCHANGED <<parent, copies, history, faults>>

\* The parent cannot be reached, the database fails, or the job is killed.
Fails(j) == /\ pc[j] # "idle"
            /\ Fault
            /\ Stop(j)
            /\ UNCHANGED <<parent, copies, history, last_sync>>

-------------------------------------------------------------------------------
(* sync_single_rhic_blocking *)

\* The parent answers 200 with the RHIC.
FetchSingle(u) ==
  /\ modified[u] > 0
  /\ Goto("single", "idle", "read")
  /\ item' = [item EXCEPT !["single"] = <<u, modified[u]>>]
  /\ UNCHANGED <<parent, copies, history, last_sync, found, sync, faults>>

\* Mutant: never looks for a document to update
ReadNothing == /\ Goto("single", "read", "write")
               /\ UNCHANGED <<parent, copies, astray, last_sync, item, found, sync, faults>>
               /\ Look

\* create_or_update_consumer_identity: the read
ReadSingle == /\ Goto("single", "read", "write")
              /\ found' = [found EXCEPT !["single"] = Known(Uuid(item["single"]))]
              /\ UNCHANGED <<parent, copies, astray, last_sync, item, sync, faults>>
              /\ Look

-------------------------------------------------------------------------------
SyncStep == \/ Start \/ FetchPage \/ SortOut \/ InsertNew
            \/ \E x \in Rhics : UpdateNext(x)
            \/ Write("all") \/ NextPage \/ SaveLastSync
SingleStep == ReadSingle \/ Write("single")

Next == \/ \E u \in Uuids : Change(u) \/ FetchSingle(u)
        \/ SyncStep \/ SingleStep
        \/ \E j \in Jobs : Fails(j)

Spec == Init /\ [][Next]_vars

\* Celery beat keeps starting the sync.
FairSpec == Spec /\ WF_vars(SyncStep) /\ WF_vars(SingleStep)

-------------------------------------------------------------------------------
\* What the parent knew at the time of the last sync is here, in that version or a
\* later one: it is not asked for again until it changes.  Only what went astray is
\* left out: its write failed without notice, the other job wrote older data over it
\* or inserted older data before it, or a change of another RHIC moved it up the
\* parent's list past the page that the sync had come to.
NothingMissed ==
  \A u \in Uuids : 0 < modified[u] /\ modified[u] <= last_sync =>
    Here(u, modified[u]) \/ u \in astray

\* There is one document per RHIC, so that every check-in sees the same one.  The two
\* jobs may make a second one when each has looked before the other had inserted;
\* they never make a third.
OneIdentityUnlessRaced ==
  \A u \in Uuids : Len(copies[u]) <= 1 \/ (Len(copies[u]) = 2 /\ u \in raced)

\* Why: a page holds a RHIC once, a document that was found stays, and documents and jobs
\* about to insert one are two together at most, and after a race only.
Weight(u) == Len(copies[u]) + (IF u \in ToInsert("all") THEN 1 ELSE 0)
                            + (IF u \in ToInsert("single") THEN 1 ELSE 0)
JobsFit ==
  /\ pc["all"] = "idle" => sync = NoSync
  /\ pc["all"] = "page" => sync.data = {}
  /\ \A x, y \in sync.data : Version(x) > 0 /\ (Uuid(x) = Uuid(y) => x = y)
  /\ pc["all"] = "insert" => sync.fresh \subseteq sync.data
  /\ \A j \in Jobs : pc[j] \in {"read", "write"} => item[j] # NoRhic /\ Version(item[j]) > 0
  /\ \A j \in Jobs : pc[j] = "write" /\ found[j] => Known(Uuid(item[j]))
FewWriters == \A u \in Uuids : Weight(u) <= 2 /\ (Weight(u) = 2 => u \in raced)
OneInv == TypeOK /\ JobsFit /\ FewWriters

\* Why nothing is missed: no two RHICs have the same place in the parent's list; what the
\* sync holds is the parent's version, unless that has changed since the sync started; ...
ListedOnce ==
  \A u, w \in Uuids : /\ modified[u] > 0 => listed[u] > 0
                      /\ listed[u] > 0 /\ listed[u] = listed[w] => u = w
InHand == sync.data \cup {x \in {item["all"]} : pc["all"] = "write"}
VersionsFit ==
  \A x \in InHand :
    /\ last_sync < Version(x) /\ Version(x) <= modified[Uuid(x)]
    /\ modified[Uuid(x)] <= sync.start => Version(x) = modified[Uuid(x)]

\* ... and what the sync is to bring has been stored, is in hand, comes after the offset on
\* a page that is still to be fetched, or is known to have gone astray.
Stored(u) == Here(u, modified[u]) \/ u \in astray
StillToCome(u) == Asked <= Before(u) /\ (pc["all"] # "page" => Asked < sync.total)
NothingSkipped ==
  \A u \in Uuids : ToBring(u) => Stored(u) \/ <<u, modified[u]>> \in InHand \/ StillToCome(u)
SyncInv == OneInv /\ ListedOnce /\ NothingMissed /\ VersionsFit /\ NothingSkipped

\* Everything that changed at the parent, a deletion for one, arrives here, unless
\* it changes again or goes astray.
ChangesArrive ==
  \A t \in Times \ {0} : now = t ~>
    \A u \in Uuids : 0 < modified[u] /\ modified[u] <= t =>
      Here(u, modified[u]) \/ u \in astray

=============================================================================
