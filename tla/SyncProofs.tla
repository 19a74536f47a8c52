------------------------------ MODULE SyncProofs ------------------------------
(***************************************************************************)
(* Proofs about the synchronisations with other systems, for any           *)
(* identities, pools, products, threads, page limit and bounds:            *)
(* IdentitySync, SyncRegistry and CandlepinSync, in this order.  Each is a *)
(* specification of its own; the theorems about one use nothing of the     *)
(* others.                                                                 *)
(***************************************************************************)
EXTENDS IdentitySync, SyncRegistry, CandlepinSync, FiniteSetTheorems, SequenceTheorems, TLAPS

-------------------------------------------------------------------------------
(* IdentitySync: one document per RHIC, unless both jobs were about to      *)
(* insert it.  OneInv is inductive.                                        *)

\* A set of one becomes a sequence of one, the empty set the empty sequence.
LEMMA SetToSeqOfFew ==
  /\ SetToSeq({}) = <<>>
  /\ \A v : SetToSeq({v}) = <<v>>
<1>1. SetToSeq({}) = <<>>
  <2>1. Cardinality({}) = 0
    BY FS_EmptySet
  <2>2. \A f \in [1..0 -> {}] : f = <<>>
    OBVIOUS
  <2>3. <<>> \in [1..0 -> {}] /\ IsInjective(<<>>)
    BY DEF IsInjective
  <2> QED BY <2>1, <2>2, <2>3 DEF SetToSeq
<1>2. ASSUME NEW v PROVE SetToSeq({v}) = <<v>>
  <2>1. Cardinality({v}) = 1
    BY FS_Singleton
  <2>2. \A f \in [1..1 -> {v}] : f = <<v>>
    OBVIOUS
  <2>3. <<v>> \in [1..1 -> {v}] /\ IsInjective(<<v>>)
    BY DEF IsInjective
  <2> QED BY <2>1, <2>2, <2>3 DEF SetToSeq
<1> QED BY <1>1, <1>2

\* What is counted is finite: the answer of the parent, ...
LEMMA NewerIsFinite == IsFiniteSet(Newer) /\ Cardinality(Newer) \in Nat
BY UuidsAssumption, FS_Subset, FS_CardinalityType DEF Newer

\* ... and the page in hand.
LEMMA DataIsFinite ==
  ASSUME TypeOK
  PROVE  IsFiniteSet(sync.data) /\ Cardinality(sync.data) \in Nat
<1>1. IsFiniteSet(Times)
  BY LimitAssumption, FS_Interval DEF Times
<1>2. IsFiniteSet(Rhics)
  BY <1>1, UuidsAssumption, FS_Product DEF Rhics
<1>3. sync.data \in SUBSET Rhics
  BY DEF TypeOK, Syncs
<1> QED BY <1>2, <1>3, FS_Subset, FS_CardinalityType

\* How many RHICs of an answer come before one of them
LEMMA BeforeIsNat ==
  ASSUME NEW u \in Uuids
  PROVE  Before(u) \in Nat /\ Before(u) <= Cardinality(Newer)
<1>1. IsFiniteSet(Newer) /\ Cardinality(Newer) \in Nat
  BY NewerIsFinite
<1>2. {w \in Newer : listed[w] < listed[u]} \in SUBSET Newer
  OBVIOUS
<1> QED BY <1>1, <1>2, FS_Subset, FS_CardinalityType DEF Before

\* One that comes after the other has more before it.
LEMMA BeforeIsOrder ==
  ASSUME TypeOK, NEW u \in Newer, NEW w \in Uuids, listed[u] < listed[w]
  PROVE  Before(u) < Before(w)
<1> DEFINE A == {x \in Newer : listed[x] < listed[u]}
           B == {x \in Newer : listed[x] < listed[w]}
<1>0. u \in Uuids
  BY DEF Newer
<1>1. IsFiniteSet(B)
  BY UuidsAssumption, FS_Subset DEF Newer
<1>2. A \in SUBSET B /\ u \in B \ A
  BY <1>0 DEF TypeOK, Newer
<1>3. Cardinality(A) <= Cardinality(B) /\ Cardinality(A) # Cardinality(B)
  BY <1>1, <1>2, FS_Subset
<1>4. Cardinality(A) \in Nat /\ Cardinality(B) \in Nat
  BY <1>1, <1>2, FS_Subset, FS_CardinalityType
<1> QED BY <1>3, <1>4 DEF Before

\* A page holds a RHIC once, in the version it has, ...
LEMMA PageIsNewer ==
  ASSUME TypeOK
  PROVE  /\ Page \subseteq Rhics
         /\ \A x \in Page : /\ Uuid(x) \in Newer
                           /\ Version(x) = modified[Uuid(x)] /\ Version(x) > last_sync
         /\ \A x, y \in Page : Uuid(x) = Uuid(y) => x = y
<1> SUFFICES ASSUME NEW u \in Newer PROVE u \in Uuids /\ modified[u] \in Times /\ modified[u] > last_sync
  BY DEF Page, Rhics, Uuid, Version
<1> QED BY LimitAssumption DEF TypeOK, Times, Newer

\* ... and no more than the limit.
LEMMA PageFits ==
  ASSUME TypeOK, ListedOnce
  PROVE  IsFiniteSet(Page) /\ Cardinality(Page) <= Limit
<1>1. \A x \in Page : Uuid(x) \in Newer
  BY PageIsNewer
<1> DEFINE Places == sync.offset .. (sync.offset + Limit - 1)
           f == [x \in Page |-> Before(Uuid(x))]
<1>2. sync.offset \in Nat /\ Limit \in Nat
  BY LimitAssumption DEF TypeOK, Syncs
<1>3. f \in [Page -> Places]
  <2> SUFFICES ASSUME NEW x \in Page PROVE Before(Uuid(x)) \in Places
    OBVIOUS
  <2>1. sync.offset <= Before(Uuid(x)) /\ Before(Uuid(x)) < sync.offset + Limit /\ Uuid(x) \in Uuids
    BY DEF Page, Uuid, Newer
  <2> QED BY <2>1, <1>2, BeforeIsNat
<1>4. ASSUME NEW x \in Page, NEW y \in Page, f[x] = f[y] PROVE x = y
  <2> DEFINE u == Uuid(x)
             w == Uuid(y)
  <2>1. u \in Newer /\ w \in Newer /\ u \in Uuids /\ w \in Uuids /\ x = <<u, modified[u]>> /\ y = <<w, modified[w]>>
    BY <1>1 DEF Page, Uuid, Newer
  <2>2. listed[u] \in Nat /\ listed[w] \in Nat /\ modified[u] > 0 /\ modified[w] > 0
    BY <2>1 DEF TypeOK, Newer, Times
  <2>3. Before(u) = Before(w)
    BY <1>4
  <2>4. ~(listed[u] < listed[w]) /\ ~(listed[w] < listed[u])
    BY <2>1, <2>3, BeforeIsOrder, BeforeIsNat
  <2>5. u = w
    BY <2>1, <2>2, <2>4 DEF ListedOnce
  <2> QED BY <2>1, <2>5
<1>5. f \in Injection(Page, Places)
  BY <1>3, <1>4 DEF Injection, IsInjective
<1>6. IsFiniteSet(Places) /\ Cardinality(Places) = Limit
  <2>1. sync.offset \in Int /\ sync.offset + Limit - 1 \in Int
    BY <1>2
  <2>2. IsFiniteSet(Places) /\ Cardinality(Places) = IF sync.offset > sync.offset + Limit - 1 THEN 0
                                                     ELSE (sync.offset + Limit - 1) - sync.offset + 1
    BY <2>1, FS_Interval
  <2> QED BY <2>2, <1>2, LimitAssumption
<1>7. IsFiniteSet(Page) /\ Cardinality(Page) <= Limit
  BY <1>5, <1>6, FS_Injection
<1> QED BY <1>7


\* What the jobs are about to insert, by the step they are at
LEMMA Inserters ==
  /\ \A j \in Jobs : pc[j] \notin {"insert", "write"} => ToInsert(j) = {}
  /\ pc["all"] = "insert" => ToInsert("all") = {Uuid(x) : x \in sync.fresh}
  /\ \A j \in Jobs : pc[j] = "write" => ToInsert(j) = IF found[j] THEN {} ELSE {Uuid(item[j])}
BY DEF ToInsert, Jobs

LEMMA InsertersNext ==
  /\ \A j \in Jobs : pc'[j] \notin {"insert", "write"} => ToInsert(j)' = {}
  /\ pc'["all"] = "insert" => ToInsert("all")' = {Uuid(x) : x \in sync'.fresh}
  /\ \A j \in Jobs : pc'[j] = "write" => ToInsert(j)' = IF found'[j] THEN {} ELSE {Uuid(item'[j])}
BY DEF ToInsert, Jobs

\* A job that stays where it is, and the sync while only a number of it changes
LEMMA SameInserters ==
  ASSUME NEW j \in Jobs, pc'[j] = pc[j], item'[j] = item[j], found'[j] = found[j],
         j = "all" => sync'.fresh = sync.fresh
  PROVE  ToInsert(j)' = ToInsert(j)
BY DEF ToInsert, Jobs

\* Documents have a number.
LEMMA LenIsNat ==
  ASSUME TypeOK
  PROVE  \A u \in Uuids : Len(copies[u]) \in Nat
BY DEF TypeOK

\* A step that writes nothing and after which a job inserts no more than before
LEMMA NoMoreWriters ==
  ASSUME OneInv, UNCHANGED <<copies, raced>>, \A j \in Jobs : ToInsert(j)' \subseteq ToInsert(j)
  PROVE  FewWriters'
<1> SUFFICES ASSUME NEW u \in Uuids PROVE Weight(u)' <= 2 /\ (Weight(u)' = 2 => u \in raced)
  BY DEF FewWriters
<1> DEFINE n == Len(copies[u])
           all == u \in ToInsert("all")
           single == u \in ToInsert("single")
           allNext == u \in ToInsert("all")'
           singleNext == u \in ToInsert("single")'
<1>1. (allNext => all) /\ (singleNext => single)
  BY DEF Jobs
<1>2. n \in Nat
  BY LenIsNat DEF OneInv
<1>3. Weight(u) <= 2 /\ (Weight(u) = 2 => u \in raced)
  BY DEF OneInv, FewWriters
<1>4. /\ Weight(u) = n + (IF all THEN 1 ELSE 0) + (IF single THEN 1 ELSE 0)
      /\ Weight(u)' = n + (IF allNext THEN 1 ELSE 0) + (IF singleNext THEN 1 ELSE 0)
  BY DEF Weight
<1> HIDE DEF n, all, single, allNext, singleNext
<1> QED BY <1>1, <1>2, <1>3, <1>4

\* A job looks and finds nothing: there is no document, and the other may be about to
\* insert one as well.
LEMMA LooksOnce ==
  ASSUME OneInv, UNCHANGED copies, Look, NEW j \in Jobs, ToInsert(j) = {},
         \A u \in ToInsert(j)' : copies[u] = <<>>,
         \A k \in Jobs \ {j} : ToInsert(k)' = ToInsert(k)
  PROVE  FewWriters'
<1> SUFFICES ASSUME NEW u \in Uuids PROVE Weight(u)' <= 2 /\ (Weight(u)' = 2 => u \in raced')
  BY DEF FewWriters
<1> DEFINE n == Len(copies[u])
           all == u \in ToInsert("all")
           single == u \in ToInsert("single")
           allNext == u \in ToInsert("all")'
           singleNext == u \in ToInsert("single")'
<1>1. n \in Nat /\ Weight(u) <= 2 /\ (Weight(u) = 2 => u \in raced)
  BY LenIsNat DEF OneInv, FewWriters
<1>2. raced \subseteq raced' /\ (allNext /\ singleNext => u \in raced')
  BY DEF Look
<1>3. u \in ToInsert(j)' => n = 0
  BY EmptySeq
<1>4. /\ Weight(u) = n + (IF all THEN 1 ELSE 0) + (IF single THEN 1 ELSE 0)
      /\ Weight(u)' = n + (IF allNext THEN 1 ELSE 0) + (IF singleNext THEN 1 ELSE 0)
  BY DEF Weight
<1>5. \/ ~all /\ (single <=> singleNext) /\ (allNext => n = 0)
      \/ ~single /\ (all <=> allNext) /\ (singleNext => n = 0)
  BY <1>3 DEF Jobs
<1> HIDE DEF n, all, single, allNext, singleNext
<1> QED BY <1>1, <1>2, <1>4, <1>5

\* A job inserts what it was about to insert: a document instead of an insert.
LEMMA InsertsOnce ==
  ASSUME OneInv, UNCHANGED raced, NEW j \in Jobs, ToInsert(j)' = {},
         \A u \in Uuids : /\ Len(copies'[u]) \in Nat
                          /\ \/ Len(copies'[u]) = Len(copies[u])
                             \/ u \in ToInsert(j) /\ Len(copies'[u]) = Len(copies[u]) + 1,
         \A k \in Jobs \ {j} : ToInsert(k)' = ToInsert(k)
  PROVE  FewWriters'
<1> SUFFICES ASSUME NEW u \in Uuids PROVE Weight(u)' <= 2 /\ (Weight(u)' = 2 => u \in raced)
  BY DEF FewWriters
<1> DEFINE n == Len(copies[u])
           m == Len(copies'[u])
           all == u \in ToInsert("all")
           single == u \in ToInsert("single")
           allNext == u \in ToInsert("all")'
           singleNext == u \in ToInsert("single")'
<1>1. n \in Nat /\ Weight(u) <= 2 /\ (Weight(u) = 2 => u \in raced)
  BY LenIsNat DEF OneInv, FewWriters
<1>2. m = n \/ (u \in ToInsert(j) /\ m = n + 1)
  OBVIOUS
<1>3. /\ Weight(u) = n + (IF all THEN 1 ELSE 0) + (IF single THEN 1 ELSE 0)
      /\ Weight(u)' = m + (IF allNext THEN 1 ELSE 0) + (IF singleNext THEN 1 ELSE 0)
  BY DEF Weight
<1>4. \/ ~allNext /\ (single <=> singleNext) /\ (m = n \/ (all /\ m = n + 1))
      \/ ~singleNext /\ (all <=> allNext) /\ (m = n \/ (single /\ m = n + 1))
  <2>1. CASE j = "all"
    <3>1. ~allNext /\ (single <=> singleNext)
      BY <2>1 DEF Jobs
    <3> QED BY <1>2, <2>1, <3>1
  <2>2. CASE j = "single"
    <3>1. ~singleNext /\ (all <=> allNext)
      BY <2>2 DEF Jobs
    <3> QED BY <1>2, <2>2, <3>1
  <2> QED BY <2>1, <2>2 DEF Jobs
<1> HIDE DEF n, m, all, single, allNext, singleNext
<1> QED BY <1>1, <1>2, <1>3, <1>4

\* Nothing is stored or in hand at first.
LEMMA InitOne == Init => OneInv
<1> SUFFICES ASSUME Init PROVE OneInv
  OBVIOUS
<1>1. TypeOK /\ JobsFit
  BY LimitAssumption DEF Init, TypeOK, JobsFit, Jobs, Syncs, NoSync, Rhics, Times
<1>2. ToInsert("all") = {} /\ ToInsert("single") = {}
  BY Inserters DEF Init, Jobs
<1>3. \A u \in Uuids : Weight(u) = 0
  BY <1>2 DEF Init, Weight
<1> QED BY <1>1, <1>3 DEF OneInv, FewWriters

\* The parent changes: the jobs are where they were.
LEMMA ChangeKeepsOne ==
  ASSUME OneInv, NEW u \in Uuids, Change(u)
  PROVE  OneInv'
<1>1. TypeOK'
  <2>1. now' \in Times /\ now' = now + 1 /\ 0..now \subseteq 0..now'
    <3>1. now \in Nat /\ now < MaxTime /\ now' = now + 1 /\ MaxTime \in Nat
      BY LimitAssumption DEF OneInv, TypeOK, Change, Times
    <3> QED BY <3>1 DEF Times
  <2>2. listed' \in [Uuids -> 0..now'] /\ modified' \in [Uuids -> 0..now']
    <3>1. now + 1 \in 0..now' /\ listed \in [Uuids -> 0..now'] /\ modified \in [Uuids -> 0..now']
      <4>1. now \in Nat
        BY LimitAssumption DEF OneInv, TypeOK, Times
      <4> QED BY <2>1, <4>1 DEF OneInv, TypeOK
    <3>2. /\ modified' = [modified EXCEPT ![u] = now + 1]
          /\ listed' = [listed EXCEPT ![u] = now + 1] \/ listed' = listed
      BY DEF Change
    <3> QED BY <3>1, <3>2
  <2>3. sync.start <= now'
    BY <2>1, LimitAssumption DEF OneInv, TypeOK, Syncs, Times
  <2>4. astray' \subseteq Uuids
    BY DEF OneInv, TypeOK, Change, Passed
  <2> QED BY <2>1, <2>2, <2>3, <2>4 DEF OneInv, TypeOK, Change, job
<1>2. JobsFit'
  BY DEF OneInv, JobsFit, Change, job, Known
<1>3. FewWriters'
  BY SameInserters, NoMoreWriters DEF Change, job
<1> QED BY <1>1, <1>2, <1>3 DEF OneInv

\* A job that ends leaves nothing in hand.
LEMMA StopKeepsOne ==
  ASSUME OneInv, NEW j \in Jobs, Stop(j), UNCHANGED <<parent, copies, history>>,
         last_sync' \in 0..now, faults' \in 0..MaxFaults
  PROVE  OneInv'
<1>1. TypeOK'
  <2>1. NoSync \in Syncs /\ NoSync.start <= now
    BY LimitAssumption DEF NoSync, Syncs, Times, OneInv, TypeOK
  <2>2. sync' \in Syncs /\ sync'.start <= now
    BY <2>1 DEF OneInv, TypeOK, Stop
  <2> QED BY <2>2 DEF OneInv, TypeOK, Stop, parent, history, Jobs
<1>2. JobsFit'
  <2>1. sync' = NoSync \/ (j = "single" /\ sync' = sync)
    BY DEF Stop, Jobs
  <2>2. NoSync.data = {} /\ NoSync.fresh = {}
    BY DEF NoSync
  <2> QED BY <2>1, <2>2 DEF OneInv, TypeOK, JobsFit, Stop, Jobs, Known
<1>3. FewWriters'
  <2>1. ToInsert(j)' = {}
    BY InsertersNext DEF OneInv, TypeOK, Stop
  <2>2. ASSUME NEW k \in Jobs \ {j} PROVE ToInsert(k)' = ToInsert(k)
    <3>1. /\ pc'[k] = pc[k] /\ item'[k] = item[k] /\ found'[k] = found[k]
          /\ k = "all" => sync'.fresh = sync.fresh
      BY DEF OneInv, TypeOK, Stop, Jobs
    <3> QED BY <3>1, SameInserters
  <2> QED BY <2>1, <2>2, NoMoreWriters DEF history
<1> QED BY <1>1, <1>2, <1>3 DEF OneInv

\* A job starts with nothing to insert.
LEMMA StartKeepsOne ==
  ASSUME OneInv, Start \/ \E u \in Uuids : FetchSingle(u)
  PROVE  OneInv'
<1>1. CASE Start
  <2>1. sync' \in Syncs /\ sync'.start <= now /\ sync'.data = sync.data /\ sync'.fresh = sync.fresh
    <3>1. sync \in Syncs /\ now \in Times /\ now <= now /\ sync' = [sync EXCEPT !.start = now]
      BY <1>1, LimitAssumption DEF OneInv, TypeOK, Start, Times
    <3> QED BY <3>1 DEF Syncs
  <2>2. /\ pc["all"] = "idle" /\ pc' = [pc EXCEPT !["all"] = "page"]
        /\ UNCHANGED <<parent, copies, history, last_sync, item, found, faults>>
    BY <1>1 DEF Start, Goto
  <2>3. TypeOK'
    BY <2>1, <2>2 DEF OneInv, TypeOK, parent, history, Jobs
  <2>4. JobsFit'
    <3>1. sync.data = {}
      BY <2>2 DEF OneInv, JobsFit, NoSync
    <3> QED BY <2>1, <2>2, <3>1 DEF OneInv, TypeOK, JobsFit, Jobs, Known
  <2>5. FewWriters'
    <3>1. ToInsert("all")' = {} /\ ToInsert("single")' = ToInsert("single")
      BY <2>2, InsertersNext, SameInserters DEF OneInv, TypeOK, Jobs
    <3> QED BY <2>2, <3>1, NoMoreWriters DEF history, Jobs
  <2> QED BY <2>3, <2>4, <2>5 DEF OneInv
<1>2. ASSUME NEW u \in Uuids, FetchSingle(u) PROVE OneInv'
  <2>1. /\ pc["single"] = "idle" /\ pc' = [pc EXCEPT !["single"] = "read"]
        /\ item' = [item EXCEPT !["single"] = <<u, modified[u]>>]
        /\ UNCHANGED <<parent, copies, history, last_sync, found, sync, faults>>
    BY <1>2 DEF FetchSingle, Goto
  <2>2. TypeOK'
    BY <2>1, LimitAssumption DEF OneInv, TypeOK, parent, history, Jobs, Times, Rhics
  <2>3. <<u, modified[u]>> # NoRhic /\ Version(<<u, modified[u]>>) > 0
    BY <1>2 DEF FetchSingle, NoRhic, Version
  <2>4. JobsFit'
    BY <2>1, <2>3 DEF OneInv, TypeOK, JobsFit, Jobs, Known
  <2>5. FewWriters'
    <3>1. ToInsert("single")' = {} /\ ToInsert("all")' = ToInsert("all")
      BY <2>1, InsertersNext, SameInserters DEF OneInv, TypeOK, Jobs
    <3> QED BY <2>1, <3>1, NoMoreWriters DEF history, Jobs
  <2> QED BY <2>2, <2>4, <2>5 DEF OneInv
<1> QED BY <1>1, <1>2

\* The steps of the sync up to the insert
LEMMA FetchKeepsOne ==
  ASSUME OneInv, FetchPage
  PROVE  OneInv'
<1>1. CASE Stop("all")
  BY <1>1, StopKeepsOne DEF FetchPage, Jobs, OneInv, TypeOK, parent
<1>2. CASE /\ Goto("all", "page", "sort")
           /\ sync' = [sync EXCEPT !.data = Page, !.total = Cardinality(Newer)]
           /\ UNCHANGED <<item, found>>
  <2>1. Page \subseteq Rhics /\ Cardinality(Newer) \in Nat
    BY PageIsNewer, NewerIsFinite DEF OneInv
  <2>2. sync' \in Syncs /\ sync'.data = Page
    BY <1>2, <2>1 DEF OneInv, TypeOK, Syncs
  <2>3. TypeOK'
    BY <1>2, <2>2 DEF OneInv, TypeOK, FetchPage, Goto, parent, history, Jobs, Syncs
  <2>4. \A x, y \in Page : Version(x) > 0 /\ (Uuid(x) = Uuid(y) => x = y)
    <3>1. last_sync \in Nat /\ \A x \in Page : Version(x) \in Nat
      BY PageIsNewer, LimitAssumption DEF OneInv, TypeOK, Rhics, Version, Times
    <3> QED BY <3>1, PageIsNewer DEF OneInv
  <2>5. JobsFit'
    BY <1>2, <2>2, <2>4 DEF OneInv, TypeOK, JobsFit, FetchPage, Goto, Jobs, Known
  <2>6. FewWriters'
    <3>1. pc'["all"] = "sort" /\ pc'["single"] = pc["single"] /\ UNCHANGED <<item, found>>
      BY <1>2 DEF OneInv, TypeOK, Goto, Jobs
    <3>2. ToInsert("all")' = {} /\ ToInsert("single")' = ToInsert("single")
      BY <3>1, InsertersNext, SameInserters DEF Jobs
    <3> QED BY <3>2, NoMoreWriters DEF FetchPage, history, Jobs
  <2> QED BY <2>3, <2>5, <2>6 DEF OneInv
<1> QED BY <1>1, <1>2 DEF FetchPage

\* What is new is not here when it is sorted out.
LEMMA SortKeepsOne ==
  ASSUME OneInv, SortOut
  PROVE  OneInv'
<1>1. /\ sync' \in Syncs /\ sync'.start = sync.start
      /\ sync'.data = sync.data /\ sync'.fresh = {x \in sync.data : ~Known(Uuid(x))}
  <2>1. sync \in Syncs /\ Cardinality(sync.data) \in Nat
    BY DataIsFinite DEF OneInv, TypeOK
  <2>2. sync.offset + Cardinality(sync.data) \in Nat /\ {x \in sync.data : ~Known(Uuid(x))} \in SUBSET Rhics
    BY <2>1 DEF Syncs
  <2> QED BY <2>1, <2>2 DEF SortOut, Syncs
<1>2. /\ pc["all"] = "sort" /\ pc'["all"] = "insert" /\ pc'["single"] = pc["single"]
      /\ pc' = [pc EXCEPT !["all"] = "insert"]
      /\ UNCHANGED <<parent, copies, astray, last_sync, item, found, faults>> /\ Look
  BY DEF OneInv, TypeOK, SortOut, Goto, Jobs
<1>3. JobsFit'
  BY <1>1, <1>2 DEF OneInv, TypeOK, JobsFit, Jobs, Known
<1>4. /\ ToInsert("all") = {} /\ ToInsert("all")' = {Uuid(x) : x \in sync'.fresh}
      /\ ToInsert("single")' = ToInsert("single")
  BY <1>2, Inserters, InsertersNext, SameInserters DEF Jobs
<1>5. TypeOK'
  <2>1. raced' \subseteq Uuids
    BY <1>1, <1>2, <1>4 DEF OneInv, TypeOK, Look, Syncs, Rhics, Uuid
  <2> QED BY <1>1, <1>2, <2>1 DEF OneInv, TypeOK, parent, Jobs
<1>6. FewWriters'
  <2>1. \A u \in ToInsert("all")' : copies[u] = <<>>
    BY <1>1, <1>4 DEF Known
  <2> QED BY <1>2, <1>4, <2>1, LooksOnce DEF Jobs
<1> QED BY <1>3, <1>5, <1>6 DEF OneInv

\* The next page is fetched with nothing in hand.
LEMMA NextPageKeepsOne ==
  ASSUME OneInv, NextPage
  PROVE  OneInv'
<1>1. /\ pc["all"] = "update" /\ pc' = [pc EXCEPT !["all"] = "page"]
      /\ UNCHANGED <<parent, copies, history, last_sync, item, found, sync, faults>>
  BY DEF NextPage, Goto
<1>2. TypeOK'
  BY <1>1 DEF OneInv, TypeOK, parent, history, Jobs
<1>3. JobsFit'
  BY <1>1 DEF OneInv, TypeOK, JobsFit, NextPage, Jobs, Known
<1>4. FewWriters'
  <2>1. ToInsert("all")' = {} /\ ToInsert("single")' = ToInsert("single")
    BY <1>1, InsertersNext, SameInserters DEF OneInv, TypeOK, Jobs
  <2> QED BY <1>1, <2>1, NoMoreWriters DEF history, Jobs
<1> QED BY <1>2, <1>3, <1>4 DEF OneInv

\* A history of RHICs stays one.
LEMMA SettleFits ==
  ASSUME TypeOK, NEW X \in SUBSET Rhics, Settle(X)
  PROVE  astray' \subseteq Uuids
BY DEF TypeOK, Settle, Rhics, Uuid

\* What is inserted of one RHIC: its one new document, or nothing.
LEMMA InsertedOnce ==
  ASSUME OneInv, pc["all"] = "insert", NEW u \in Uuids
  PROVE  LET new == SetToSeq({Version(x) : x \in {y \in sync.fresh : Uuid(y) = u}})
         IN  \/ u \notin {Uuid(x) : x \in sync.fresh} /\ new = <<>>
             \/ \E x \in sync.fresh : Uuid(x) = u /\ new = <<Version(x)>>
<1>1. CASE \A x \in sync.fresh : Uuid(x) # u
  <2>1. {Version(x) : x \in {y \in sync.fresh : Uuid(y) = u}} = {}
    BY <1>1
  <2> QED BY <1>1, <2>1, SetToSeqOfFew
<1>2. ASSUME NEW x \in sync.fresh, Uuid(x) = u
      PROVE  SetToSeq({Version(z) : z \in {y \in sync.fresh : Uuid(y) = u}}) = <<Version(x)>>
  <2>1. \A y \in sync.fresh : Uuid(y) = u => y = x
    BY <1>2 DEF OneInv, JobsFit
  <2>2. {Version(z) : z \in {y \in sync.fresh : Uuid(y) = u}} = {Version(x)}
    BY <1>2, <2>1
  <2> QED BY <2>2, SetToSeqOfFew
<1> QED BY <1>1, <1>2

\* The bulk insert makes one document of each RHIC.
LEMMA InsertKeepsOne ==
  ASSUME OneInv, InsertNew
  PROVE  OneInv'
<1> DEFINE new(u) == SetToSeq({Version(x) : x \in {y \in sync.fresh : Uuid(y) = u}})
<1>1. /\ pc["all"] = "insert" /\ pc' = [pc EXCEPT !["all"] = "update"]
      /\ UNCHANGED <<parent, last_sync, item, found, raced>>
  BY DEF InsertNew, Goto
<1>2. sync' \in Syncs /\ sync'.data \subseteq sync.data /\ sync'.start <= now
  BY DEF OneInv, TypeOK, InsertNew, Syncs
<1>3. /\ ToInsert("all") = {Uuid(x) : x \in sync.fresh} /\ ToInsert("all")' = {}
      /\ ToInsert("single")' = ToInsert("single")
  BY <1>1, Inserters, InsertersNext, SameInserters DEF OneInv, TypeOK, Jobs
<1>4. \A u \in Uuids : /\ copies'[u] \in Seq(Times \ {0})
                       /\ \/ Len(copies'[u]) = Len(copies[u])
                          \/ u \in ToInsert("all") /\ Len(copies'[u]) = Len(copies[u]) + 1
  <2>1. CASE UNCHANGED copies
    <3>1. \A u \in Uuids : copies[u] \in Seq(Times \ {0}) /\ Len(copies[u]) \in Nat
      BY DEF OneInv, TypeOK
    <3> QED BY <2>1, <3>1
  <2>2. CASE copies' = [u \in Uuids |-> copies[u] \o new(u)]
    <3> SUFFICES ASSUME NEW u \in Uuids
                 PROVE  /\ copies'[u] \in Seq(Times \ {0})
                        /\ \/ Len(copies'[u]) = Len(copies[u])
                           \/ u \in ToInsert("all") /\ Len(copies'[u]) = Len(copies[u]) + 1
      OBVIOUS
    <3>1. copies[u] \in Seq(Times \ {0}) /\ Len(copies[u]) \in Nat /\ copies'[u] = copies[u] \o new(u)
      BY <2>2 DEF OneInv, TypeOK
    <3>2. CASE new(u) = <<>>
      BY <3>1, <3>2
    <3>3. CASE \E x \in sync.fresh : Uuid(x) = u /\ new(u) = <<Version(x)>>
      <4>1. PICK x \in sync.fresh : Uuid(x) = u /\ new(u) = <<Version(x)>>
        BY <3>3
      <4>2. Version(x) \in Times \ {0} /\ u \in ToInsert("all")
        BY <1>1, <1>3, <4>1, LimitAssumption DEF OneInv, JobsFit, TypeOK, Syncs, Rhics, Version, Times
      <4> DEFINE v == Version(x)
      <4>3. copies'[u] = copies[u] \o <<v>> /\ v \in Times \ {0}
        BY <3>1, <4>1, <4>2
      <4> HIDE DEF v, new
      <4>4. <<v>> \in Seq(Times \ {0}) /\ Len(<<v>>) = 1
        BY <4>3
      <4>5. copies'[u] \in Seq(Times \ {0}) /\ Len(copies'[u]) = Len(copies[u]) + Len(<<v>>)
        BY <3>1, <4>3, <4>4, ConcatProperties
      <4> QED BY <4>2, <4>4, <4>5
    <3> QED BY <1>1, <3>2, <3>3, InsertedOnce
  <2> QED BY <2>1, <2>2 DEF InsertNew
<1>5. copies' = [u \in Uuids |-> copies'[u]] /\ astray' \subseteq Uuids /\ faults' \in 0..MaxFaults
  <2>1. astray' \subseteq Uuids
    BY SettleFits DEF InsertNew, OneInv, TypeOK, Syncs
  <2> QED BY <2>1, LimitAssumption DEF InsertNew, OneInv, TypeOK, Fault
<1>6. TypeOK'
  BY <1>1, <1>2, <1>4, <1>5 DEF OneInv, TypeOK, parent, Jobs
<1>7. JobsFit'
  <2>1. ASSUME NEW w \in Uuids, copies[w] # <<>> PROVE copies'[w] # <<>>
    <3>1. Len(copies[w]) \in Nat \ {0}
      BY <2>1, EmptySeq DEF OneInv, TypeOK
    <3>2. Len(copies'[w]) # 0
      BY <1>4, <3>1
    <3> QED BY <3>2, EmptySeq
  <2> QED BY <1>1, <1>2, <2>1 DEF OneInv, TypeOK, JobsFit, Known, Jobs, Rhics, Uuid, NoRhic
<1>8. FewWriters'
  <2>1. \A u \in Uuids : Len(copies'[u]) \in Nat
    BY <1>4
  <2> QED BY <1>1, <1>3, <1>4, <2>1, InsertsOnce DEF Jobs
<1> QED BY <1>6, <1>7, <1>8 DEF OneInv

\* A job looks before it updates or inserts.
LEMMA ReadKeepsOne ==
  ASSUME OneInv, (\E x \in Rhics : UpdateNext(x)) \/ ReadSingle
  PROVE  OneInv'
<1>1. ASSUME NEW x \in Rhics, UpdateNext(x) PROVE OneInv'
  <2>1. sync' \in Syncs /\ sync'.data = sync.data \ {x} /\ sync'.start = sync.start
    BY <1>1 DEF OneInv, TypeOK, UpdateNext, Syncs
  <2>2. /\ pc["all"] = "update" /\ pc' = [pc EXCEPT !["all"] = "write"]
        /\ item' = [item EXCEPT !["all"] = x] /\ found' = [found EXCEPT !["all"] = Known(Uuid(x))]
        /\ UNCHANGED <<parent, copies, astray, last_sync, faults>> /\ Look /\ x \in sync.data
    BY <1>1 DEF UpdateNext, Goto
  <2>3. /\ ToInsert("all") = {}
        /\ ToInsert("all")' = IF Known(Uuid(x)) THEN {} ELSE {Uuid(x)}
        /\ ToInsert("single")' = ToInsert("single")
    BY <2>2, Inserters, InsertersNext, SameInserters DEF OneInv, TypeOK, Jobs
  <2>4. TypeOK'
    <3>1. raced' \subseteq Uuids
      BY <2>2, <2>3 DEF OneInv, TypeOK, Look, Rhics, Uuid
    <3>2. found' \in [Jobs -> BOOLEAN]
      BY <2>2 DEF OneInv, TypeOK, Known
    <3> QED BY <2>1, <2>2, <3>1, <3>2 DEF OneInv, TypeOK, parent, Jobs
  <2>5. JobsFit'
    <3>1. x # NoRhic /\ Version(x) > 0
      BY <2>2 DEF Rhics, NoRhic, OneInv, JobsFit
    <3> QED BY <2>1, <2>2, <3>1 DEF OneInv, TypeOK, JobsFit, Jobs, Known
  <2>6. FewWriters'
    BY <2>2, <2>3, LooksOnce DEF Jobs, Known
  <2> QED BY <2>4, <2>5, <2>6 DEF OneInv
<1>2. CASE ReadSingle
  <2>1. /\ pc["single"] = "read" /\ pc' = [pc EXCEPT !["single"] = "write"]
        /\ found' = [found EXCEPT !["single"] = Known(Uuid(item["single"]))]
        /\ UNCHANGED <<parent, copies, astray, last_sync, item, sync, faults>> /\ Look
    BY <1>2 DEF ReadSingle, Goto
  <2>2. /\ ToInsert("single") = {}
        /\ ToInsert("single")' = IF Known(Uuid(item["single"])) THEN {} ELSE {Uuid(item["single"])}
        /\ ToInsert("all")' = ToInsert("all")
    BY <2>1, Inserters, InsertersNext, SameInserters DEF OneInv, TypeOK, Jobs
  <2>3. TypeOK'
    <3>1. Uuid(item["single"]) \in Uuids
      BY <2>1 DEF OneInv, TypeOK, JobsFit, Jobs, Rhics, Uuid
    <3>2. raced' \subseteq Uuids
      BY <2>1, <2>2, <3>1 DEF OneInv, TypeOK, Look
    <3>3. found' \in [Jobs -> BOOLEAN]
      BY <2>1 DEF OneInv, TypeOK, Known
    <3> QED BY <2>1, <3>2, <3>3 DEF OneInv, TypeOK, parent, Jobs
  <2>4. JobsFit'
    BY <2>1 DEF OneInv, TypeOK, JobsFit, Jobs, Known
  <2>5. FewWriters'
    BY <2>1, <2>2, LooksOnce DEF Jobs, Known
  <2> QED BY <2>3, <2>4, <2>5 DEF OneInv
<1> QED BY <1>1, <1>2

\* A write updates the document that is found first, or makes another one.
LEMMA Written ==
  ASSUME OneInv, NEW j \in Jobs, pc[j] = "write"
  PROVE  LET u == Uuid(item[j])
             v == Version(item[j])
             c == IF found[j] THEN [copies[u] EXCEPT ![1] = v] ELSE Append(copies[u], v)
         IN  /\ u \in Uuids /\ v \in Times \ {0} /\ item[j] \in Rhics
             /\ c \in Seq(Times \ {0}) /\ c # <<>>
             /\ Len(c) = Len(copies[u]) \/ (u \in ToInsert(j) /\ Len(c) = Len(copies[u]) + 1)
<1> DEFINE u == Uuid(item[j])
           v == Version(item[j])
<1>1. u \in Uuids /\ v \in Times \ {0} /\ item[j] \in Rhics /\ (found[j] => copies[u] # <<>>)
  BY LimitAssumption DEF OneInv, TypeOK, JobsFit, Rhics, Uuid, Version, Times, Known
<1>2. copies[u] \in Seq(Times \ {0}) /\ Len(copies[u]) \in Nat
  BY <1>1 DEF OneInv, TypeOK
<1>3. ToInsert(j) = IF found[j] THEN {} ELSE {u}
  BY Inserters
<1> HIDE DEF u, v
<1>4. CASE found[j]
  <2>1. 1 \in 1..Len(copies[u])
    <3>1. Len(copies[u]) # 0
      BY <1>1, <1>2, <1>4, EmptySeq
    <3> QED BY <1>2, <3>1
  <2>2. [copies[u] EXCEPT ![1] = v] \in Seq(Times \ {0}) /\ Len([copies[u] EXCEPT ![1] = v]) = Len(copies[u])
    BY <1>1, <1>2, <2>1, ExceptSeq
  <2>3. [copies[u] EXCEPT ![1] = v] # <<>>
    BY <1>2, <2>1, <2>2, EmptySeq
  <2> QED BY <1>1, <1>4, <2>2, <2>3 DEF u, v
<1>5. CASE ~found[j]
  <2>1. /\ Append(copies[u], v) \in Seq(Times \ {0}) /\ Append(copies[u], v) # <<>>
        /\ Len(Append(copies[u], v)) = Len(copies[u]) + 1
    BY <1>1, <1>2, AppendProperties
  <2>2. u \in ToInsert(j)
    BY <1>3, <1>5
  <2> QED BY <1>1, <1>5, <2>1, <2>2 DEF u, v
<1> QED BY <1>4, <1>5

\* A write makes a document only if its job was about to insert one.
LEMMA WriteKeepsOne ==
  ASSUME OneInv, NEW j \in Jobs, Write(j)
  PROVE  OneInv'
<1> DEFINE u == Uuid(item[j])
           v == Version(item[j])
           c == IF found[j] THEN [copies[u] EXCEPT ![1] = v] ELSE Append(copies[u], v)
<1>1. /\ u \in Uuids /\ item[j] \in Rhics /\ pc[j] = "write"
      /\ c \in Seq(Times \ {0}) /\ c # <<>>
      /\ Len(c) = Len(copies[u]) \/ (u \in ToInsert(j) /\ Len(c) = Len(copies[u]) + 1)
  BY Written DEF Write
<1>2. copies' = [copies EXCEPT ![u] = c] \/ UNCHANGED copies
  BY DEF Write
<1>3. astray' \subseteq Uuids /\ faults' \in 0..MaxFaults /\ UNCHANGED <<parent, last_sync, raced>>
  <2>1. astray' \subseteq Uuids
    BY <1>1, SettleFits DEF Write, OneInv
  <2> QED BY <2>1, LimitAssumption DEF OneInv, TypeOK, Write, Fault
<1>4. /\ pc' = [pc EXCEPT ![j] = IF j = "all" THEN "update" ELSE "idle"]
      /\ item' = [item EXCEPT ![j] = NoRhic] /\ found' = [found EXCEPT ![j] = FALSE]
      /\ UNCHANGED sync
  BY DEF Write, Stop, Goto
<1>5. ToInsert(j)' = {} /\ \A k \in Jobs \ {j} : ToInsert(k)' = ToInsert(k)
  <2>1. pc'[j] \in {"update", "idle"}
    BY <1>4 DEF OneInv, TypeOK
  <2>2. \A k \in Jobs \ {j} : pc'[k] = pc[k] /\ item'[k] = item[k] /\ found'[k] = found[k]
    BY <1>4 DEF OneInv, TypeOK
  <2> QED BY <1>4, <2>1, <2>2, InsertersNext, SameInserters
<1> HIDE DEF u, v, c
<1>6. /\ copies' \in [Uuids -> Seq(Times \ {0})]
      /\ \A w \in Uuids : /\ copies[w] # <<>> => copies'[w] # <<>>
                          /\ \/ Len(copies'[w]) = Len(copies[w])
                             \/ w \in ToInsert(j) /\ Len(copies'[w]) = Len(copies[w]) + 1
  <2>1. copies \in [Uuids -> Seq(Times \ {0})] /\ \A w \in Uuids : Len(copies[w]) \in Nat
    BY DEF OneInv, TypeOK
  <2>2. CASE copies' = [copies EXCEPT ![u] = c]
    <3>1. copies' \in [Uuids -> Seq(Times \ {0})]
      BY <1>1, <2>1, <2>2
    <3>2. \A w \in Uuids : copies'[w] = IF w = u THEN c ELSE copies[w]
      BY <2>1, <2>2
    <3>3. ASSUME NEW w \in Uuids
          PROVE  /\ copies[w] # <<>> => copies'[w] # <<>>
                 /\ \/ Len(copies'[w]) = Len(copies[w])
                    \/ w \in ToInsert(j) /\ Len(copies'[w]) = Len(copies[w]) + 1
      <4>1. CASE w = u
        <5>1. copies'[w] = c
          BY <3>2, <4>1
        <5> QED BY <1>1, <4>1, <5>1
      <4>2. CASE w # u
        BY <2>1, <3>2, <4>2
      <4> QED BY <4>1, <4>2
    <3> QED BY <3>1, <3>3
  <2> QED BY <1>2, <2>1, <2>2
<1>7. TypeOK'
  <2>1. pc' \in [Jobs -> {"idle", "page", "sort", "insert", "update", "read", "write"}]
    BY <1>4 DEF OneInv, TypeOK
  <2>2. item' \in [Jobs -> Rhics \cup {NoRhic}] /\ found' \in [Jobs -> BOOLEAN]
    BY <1>4 DEF OneInv, TypeOK
  <2> QED BY <1>3, <1>4, <1>6, <2>1, <2>2 DEF OneInv, TypeOK, parent
<1>8. JobsFit'
  <2>1. \A k \in Jobs : pc[k] = "write" => Uuid(item[k]) \in Uuids
    BY Written
  <2> QED BY <1>1, <1>4, <1>6, <2>1 DEF OneInv, TypeOK, JobsFit, Jobs, Known
<1>9. FewWriters'
  <2>1. \A w \in Uuids : Len(copies'[w]) \in Nat
    BY <1>6
  <2> QED BY <1>3, <1>5, <1>6, <2>1, InsertsOnce
<1> QED BY <1>7, <1>8, <1>9 DEF OneInv

\* OneInv is inductive.
LEMMA StepKeepsOne ==
  ASSUME OneInv, [Next]_vars
  PROVE  OneInv'
<1>1. ASSUME NEW u \in Uuids, Change(u) PROVE OneInv'
  BY <1>1, ChangeKeepsOne
<1>2. CASE Start \/ \E u \in Uuids : FetchSingle(u)
  BY <1>2, StartKeepsOne
<1>3. CASE FetchPage \/ SortOut \/ InsertNew \/ NextPage
  BY <1>3, FetchKeepsOne, SortKeepsOne, InsertKeepsOne, NextPageKeepsOne
<1>4. CASE (\E x \in Rhics : UpdateNext(x)) \/ ReadSingle
  BY <1>4, ReadKeepsOne
<1>5. ASSUME NEW j \in Jobs, Write(j) PROVE OneInv'
  BY <1>5, WriteKeepsOne
<1>6. CASE SaveLastSync
  <2>1. sync.start \in 0..now
    BY LimitAssumption DEF OneInv, TypeOK, Syncs, Times
  <2> QED BY <1>6, <2>1, StopKeepsOne DEF SaveLastSync, Jobs, OneInv, TypeOK
<1>7. ASSUME NEW j \in Jobs, Fails(j) PROVE OneInv'
  BY <1>7, StopKeepsOne, LimitAssumption DEF Fails, Fault, OneInv, TypeOK
<1>8. CASE UNCHANGED vars
  <2>1. TypeOK' /\ JobsFit'
    BY <1>8 DEF vars, parent, job, history, OneInv, TypeOK, JobsFit, Known
  <2>2. FewWriters'
    BY <1>8, SameInserters, NoMoreWriters DEF vars, job, history
  <2> QED BY <2>1, <2>2 DEF OneInv
<1> QED BY <1>1, <1>2, <1>3, <1>4, <1>5, <1>6, <1>7, <1>8 DEF Next, SyncStep, SingleStep, Jobs

\* The state keeps its types, and a RHIC has one document, or two when both jobs were
\* about to insert it at one time; never three, whatever the failures and the kills.
THEOREM OneIdentityUnlessRacedHolds == Spec => [](TypeOK /\ OneIdentityUnlessRaced)
<1>1. Init => OneInv
  BY InitOne
<1>2. OneInv /\ [Next]_vars => OneInv'
  BY StepKeepsOne
<1>3. ASSUME OneInv, NEW u \in Uuids
      PROVE  Len(copies[u]) <= 1 \/ (Len(copies[u]) = 2 /\ u \in raced)
  <2> DEFINE n == Len(copies[u])
             all == u \in ToInsert("all")
             single == u \in ToInsert("single")
  <2>1. n \in Nat /\ Weight(u) <= 2 /\ (Weight(u) = 2 => u \in raced)
    BY <1>3, LenIsNat DEF OneInv, FewWriters
  <2>2. Weight(u) = n + (IF all THEN 1 ELSE 0) + (IF single THEN 1 ELSE 0)
    BY DEF Weight
  <2> HIDE DEF n, all, single
  <2>3. n <= 1 \/ (n = 2 /\ u \in raced)
    BY <2>1, <2>2
  <2> QED BY <2>1, <2>3 DEF n
<1>4. OneInv => TypeOK /\ OneIdentityUnlessRaced
  BY <1>3 DEF OneInv, OneIdentityUnlessRaced
<1> QED BY <1>1, <1>2, <1>4, PTL DEF Spec

-------------------------------------------------------------------------------
(* IdentitySync: nothing is missed but what went astray.  SyncInv is        *)
(* inductive.                                                              *)

\* The ranges of what is compared
LEMMA Ranges ==
  ASSUME OneInv
  PROVE  /\ now \in Nat /\ last_sync \in Nat /\ last_sync <= now
         /\ sync.start \in Nat /\ sync.start <= now /\ sync.offset \in Nat /\ sync.total \in Nat
         /\ \A u \in Uuids : /\ modified[u] \in Nat /\ modified[u] <= now
                            /\ listed[u] \in Nat /\ listed[u] <= now
         /\ \A x \in InHand : Uuid(x) \in Uuids /\ Version(x) \in Nat /\ x = <<Uuid(x), Version(x)>>
         /\ pc["single"] \in {"read", "write"} =>
              Uuid(item["single"]) \in Uuids /\ Version(item["single"]) \in Nat
<1>1. InHand \subseteq Rhics
  BY DEF InHand, OneInv, TypeOK, JobsFit, Syncs, Jobs
<1>2. pc["single"] \in {"read", "write"} => item["single"] \in Rhics
  BY DEF OneInv, TypeOK, JobsFit, Jobs
<1>3. \A x \in Rhics : Uuid(x) \in Uuids /\ Version(x) \in Nat /\ x = <<Uuid(x), Version(x)>>
  BY LimitAssumption DEF Rhics, Uuid, Version, Times
<1> QED BY <1>1, <1>2, <1>3, LimitAssumption DEF OneInv, TypeOK, Syncs, Times

\* The parent lists a RHIC once, whatever it does.
LEMMA StepListsOnce ==
  ASSUME OneInv, ListedOnce, [Next]_vars
  PROVE  ListedOnce'
<1>1. CASE UNCHANGED parent
  BY <1>1 DEF ListedOnce, parent
<1>2. ASSUME NEW u \in Uuids, Change(u) PROVE ListedOnce'
  <2>1. /\ modified' = [modified EXCEPT ![u] = now + 1]
        /\ listed' = [listed EXCEPT ![u] = now + 1] \/ (modified[u] # 0 /\ listed' = listed)
    BY <1>2 DEF Change
  <2>2. /\ listed \in [Uuids -> Nat] /\ modified \in [Uuids -> Nat] /\ now \in Nat
        /\ \A w \in Uuids : listed[w] <= now
    BY Ranges DEF OneInv, TypeOK
  <2> QED BY <2>1, <2>2 DEF ListedOnce
<1>3. UNCHANGED parent \/ \E u \in Uuids : Change(u)
  BY DEF Next, SyncStep, SingleStep, Start, FetchPage, SortOut, InsertNew, UpdateNext, Write, NextPage,
         SaveLastSync, ReadSingle, FetchSingle, Fails, vars, parent
<1> QED BY <1>1, <1>2, <1>3

\* The parts of SyncInv about what is brought here
Brought == NothingMissed /\ VersionsFit /\ NothingSkipped

\* What changes at the parent is for the next sync, and what it moves up past the page
\* that the sync has come to has gone astray.
LEMMA ChangeBrings ==
  ASSUME SyncInv, NEW u \in Uuids, Change(u)
  PROVE  Brought'
<1>1. /\ modified' = [modified EXCEPT ![u] = now + 1] /\ astray' = (astray \cup Passed) \ {u}
      /\ UNCHANGED <<copies, last_sync, pc, item, sync>>
  BY DEF Change, job
<1>2. \A w \in Uuids \ {u} : modified'[w] = modified[w] /\ (Stored(w) => Stored(w)')
  BY <1>1 DEF SyncInv, OneInv, TypeOK, Stored, Here, First
<1>3. modified'[u] = now + 1
  BY <1>1 DEF SyncInv, OneInv, TypeOK
<1>4. InHand' = InHand
  BY <1>1 DEF InHand
<1>5. NothingMissed'
  <2> SUFFICES ASSUME NEW w \in Uuids, 0 < modified'[w], modified'[w] <= last_sync
               PROVE  Stored(w)'
    BY <1>1 DEF NothingMissed, Stored
  <2>1. w # u
    BY <1>3, Ranges DEF SyncInv
  <2> QED BY <2>1, <1>2 DEF SyncInv, NothingMissed, Stored
<1>6. VersionsFit'
  <2>1. \A x \in InHand : Uuid(x) = u => last_sync < Version(x) /\ Version(x) <= now + 1 /\ ~(now + 1 <= sync.start)
    BY Ranges DEF SyncInv, VersionsFit
  <2>2. ~(now + 1 <= last_sync)
    BY Ranges DEF SyncInv
  <2> QED BY <1>1, <1>2, <1>3, <1>4, <2>1, <2>2, Ranges DEF SyncInv, VersionsFit
<1>7. NothingSkipped'
  <2> SUFFICES ASSUME NEW w \in Uuids, ToBring(w)'
               PROVE  Stored(w)' \/ <<w, modified'[w]>> \in InHand' \/ StillToCome(w)'
    BY DEF NothingSkipped
  <2>1. w # u
    BY <1>1, <1>3, Ranges DEF ToBring, SyncInv
  <2>2. ToBring(w) /\ modified'[w] = modified[w]
    BY <1>1, <1>2, <2>1 DEF ToBring
  <2>3. Stored(w) \/ <<w, modified[w]>> \in InHand \/ StillToCome(w)
    BY <2>2 DEF SyncInv, NothingSkipped
  <2>4. CASE StillToCome(w)
    <3>1. Asked \in Nat /\ Asked' = Asked
      <4>1. Cardinality(sync.data) \in Nat
        BY DataIsFinite DEF SyncInv, OneInv
      <4> QED BY <1>1, <4>1, Ranges DEF Asked, SyncInv
    <3>2. Before(w)' \in Nat
      <4>1. {v \in Newer' : listed'[v] < listed'[w]} \in SUBSET Uuids
        BY DEF Newer
      <4> QED BY <4>1, UuidsAssumption, FS_Subset, FS_CardinalityType DEF Before
    <3>3. CASE Before(w)' < Asked
      BY <1>1, <2>1, <2>2, <2>4, <3>3 DEF Passed, StillToCome, Stored
    <3>4. CASE Asked <= Before(w)'
      BY <1>1, <2>4, <3>1, <3>4 DEF StillToCome
    <3> QED BY <3>1, <3>2, <3>3, <3>4
  <2> QED BY <1>2, <1>4, <2>1, <2>2, <2>3, <2>4
<1> QED BY <1>5, <1>6, <1>7 DEF Brought

\* While the parent and the time of the last sync stay, so does its answer.
LEMMA SameAnswer ==
  ASSUME UNCHANGED <<parent, last_sync>>
  PROVE  Newer' = Newer /\ \A u \in Uuids : Before(u)' = Before(u)
<1>1. Newer' = Newer
  BY DEF Newer, parent
<1> QED BY <1>1 DEF Before, parent

\* One of an answer has fewer before it than the answer has.
LEMMA BeforeIsLess ==
  ASSUME TypeOK, NEW u \in Newer
  PROVE  Before(u) < Cardinality(Newer)
<1> DEFINE A == {w \in Newer : listed[w] < listed[u]}
<1>1. u \in Newer \ A
  BY LimitAssumption DEF TypeOK, Newer, Times
<1>2. IsFiniteSet(Newer) /\ Cardinality(Newer) \in Nat
  BY NewerIsFinite
<1>3. A \in SUBSET Newer
  OBVIOUS
<1>4. Cardinality(A) \in Nat /\ Cardinality(A) <= Cardinality(Newer) /\ Cardinality(A) # Cardinality(Newer)
  BY <1>1, <1>2, <1>3, FS_Subset, FS_CardinalityType
<1> QED BY <1>2, <1>4 DEF Before

\* While it and the mark of the sync stay, so does what is still to come.
LEMMA SameToCome ==
  ASSUME UNCHANGED <<parent, last_sync>>, sync'.offset = sync.offset, sync'.total = sync.total,
         pc["all"] \notin {"page", "sort"}, pc'["all"] # "sort"
  PROVE  \A u \in Uuids : StillToCome(u) => StillToCome(u)'
BY SameAnswer DEF StillToCome, Asked

\* An attempt to write X: what is the version to be stored, is stored or goes astray,
\* and what was stored before stays so or goes astray.
LEMMA SettleStores ==
  ASSUME SyncInv, NEW X \in SUBSET Rhics, Settle(X), UNCHANGED parent,
         \A u \in Uuids : copies'[u] \in Seq(Times \ {0}),
         \A u \in Uuids : u \notin {Uuid(x) : x \in X} => copies'[u] = copies[u]
  PROVE  \A u \in Uuids : /\ Stored(u) => Stored(u)'
                          /\ \A x \in X : Uuid(x) = u /\ Version(x) = modified[u] => Stored(u)'
<1> SUFFICES ASSUME NEW u \in Uuids
             PROVE  /\ Stored(u) => Stored(u)'
                    /\ \A x \in X : Uuid(x) = u /\ Version(x) = modified[u] => Stored(u)'
  OBVIOUS
<1>1. modified' = modified /\ modified[u] \in Nat
  BY Ranges DEF parent, SyncInv
<1>2. Stored(u)' <=> First(copies', u, modified[u]) \/ u \in astray'
  BY <1>1 DEF Stored, Here, First
<1>3. Stored(u) <=> First(copies, u, modified[u]) \/ u \in astray
  BY DEF Stored, Here
<1>4. u \in astray => Stored(u)'
  BY <1>2 DEF Settle
<1>5. ASSUME NEW x \in X, Uuid(x) = u, ~First(copies', u, Version(x)) \/
                                        (Known(u) /\ ~First(copies', u, Head(copies[u])))
      PROVE  Stored(u)'
  BY <1>2, <1>5 DEF Settle
<1>6. ASSUME NEW x \in X, Uuid(x) = u, Version(x) = modified[u] PROVE Stored(u)'
  BY <1>2, <1>5, <1>6
<1>7. ASSUME First(copies, u, modified[u]) PROVE Stored(u)'
  <2>1. CASE u \notin {Uuid(x) : x \in X}
    <3>1. copies'[u] = copies[u]
      BY <2>1
    <3> QED BY <1>2, <1>7, <3>1 DEF First
  <2>2. CASE u \in {Uuid(x) : x \in X}
    <3>1. PICK x \in X : Uuid(x) = u
      BY <2>2
    <3>2. Known(u) /\ Head(copies[u]) >= modified[u]
      BY <1>7 DEF First, Known
    <3>3. CASE First(copies', u, Head(copies[u]))
      <4>1. copies'[u] # <<>> /\ Head(copies'[u]) >= Head(copies[u])
        BY <3>3 DEF First
      <4>2. Head(copies'[u]) \in Nat /\ Head(copies[u]) \in Nat
        <5>1. copies[u] \in Seq(Times \ {0}) /\ copies[u] # <<>> /\ copies'[u] \in Seq(Times \ {0})
          BY <3>2 DEF SyncInv, OneInv, TypeOK, Known
        <5>2. Times \ {0} \subseteq Nat
          BY LimitAssumption DEF Times
        <5> QED BY <4>1, <5>1, <5>2, HeadTailProperties
      <4>3. Head(copies'[u]) >= modified[u]
        BY <1>1, <3>2, <4>1, <4>2
      <4> QED BY <1>2, <4>1, <4>3 DEF First
    <3> QED BY <1>5, <3>1, <3>2, <3>3
  <2> QED BY <2>1, <2>2
<1> QED BY <1>3, <1>4, <1>6, <1>7

\* A job that ends before it has stored anything
LEMMA StopBrings ==
  ASSUME SyncInv, NEW j \in Jobs, Stop(j), UNCHANGED <<parent, copies, history, last_sync>>
  PROVE  Brought'
<1>1. \A u \in Uuids : modified'[u] = modified[u] /\ Stored(u)' = Stored(u)
  BY DEF Stored, Here, First, parent, history
<1>2. NothingMissed'
  BY <1>1 DEF SyncInv, NothingMissed, Stored, parent
<1>3. CASE j = "all"
  <2>1. InHand' = {} /\ sync'.start = 0
    BY <1>3 DEF SyncInv, OneInv, TypeOK, InHand, Stop, NoSync, Jobs
  <2>2. VersionsFit'
    BY <1>3, <2>1 DEF SyncInv, OneInv, TypeOK, VersionsFit, Stop, Jobs, parent
  <2>3. NothingSkipped'
    BY <1>1, <2>1, Ranges DEF SyncInv, NothingSkipped, ToBring
  <2> QED BY <1>2, <2>2, <2>3 DEF Brought
<1>4. CASE j = "single"
  <2>1. sync' = sync /\ pc'["all"] = pc["all"] /\ item'["all"] = item["all"] /\ pc'["single"] = "idle"
    BY <1>4 DEF SyncInv, OneInv, TypeOK, Stop, Jobs
  <2>2. InHand' = InHand
    BY <2>1 DEF InHand
  <2>3. VersionsFit'
    BY <2>1, <2>2 DEF SyncInv, VersionsFit, parent
  <2>4. NothingSkipped'
    <3>1. \A u \in Uuids : StillToCome(u)' = StillToCome(u) /\ ToBring(u)' = ToBring(u)
      BY <2>1, SameAnswer DEF StillToCome, Asked, ToBring, parent
    <3> QED BY <1>1, <2>2, <3>1 DEF SyncInv, NothingSkipped
  <2> QED BY <1>2, <2>3, <2>4 DEF Brought
<1> QED BY <1>3, <1>4 DEF Jobs

\* The sync starts: whatever it is to bring is still to come.
LEMMA StartBrings ==
  ASSUME SyncInv, Start
  PROVE  Brought'
<1>1. /\ UNCHANGED <<parent, copies, history, last_sync, item>>
      /\ pc["all"] = "idle" /\ sync = NoSync
      /\ pc' = [pc EXCEPT !["all"] = "page"] /\ sync' = [sync EXCEPT !.start = now]
  BY DEF Start, Goto, SyncInv, OneInv, JobsFit
<1>2. sync'.offset = 0 /\ sync'.data = {} /\ pc'["all"] = "page"
  BY <1>1 DEF NoSync, SyncInv, OneInv, TypeOK, Jobs
<1>3. NothingMissed'
  BY <1>1 DEF SyncInv, NothingMissed, Here, First, parent, history
<1>4. VersionsFit'
  BY <1>2 DEF VersionsFit, InHand
<1>5. NothingSkipped'
  BY <1>1, <1>2, SameAnswer, BeforeIsNat DEF NothingSkipped, StillToCome, Asked
<1> QED BY <1>3, <1>4, <1>5 DEF Brought

\* A page is fetched: of what was still to come, the page, or what comes after it.
LEMMA FetchBrings ==
  ASSUME SyncInv, FetchPage
  PROVE  Brought'
<1>1. CASE Stop("all")
  BY <1>1, StopBrings DEF FetchPage, Jobs
<1>2. CASE /\ Goto("all", "page", "sort")
           /\ sync' = [sync EXCEPT !.data = Page, !.total = Cardinality(Newer)]
           /\ UNCHANGED <<item, found>>
  <2>1. /\ UNCHANGED <<parent, copies, history, last_sync, item>>
        /\ pc["all"] = "page" /\ pc'["all"] = "sort" /\ pc'["single"] = pc["single"]
        /\ sync'.data = Page /\ sync'.start = sync.start /\ sync'.offset = sync.offset
        /\ sync'.total = Cardinality(Newer)
    BY <1>2 DEF FetchPage, Goto, SyncInv, OneInv, TypeOK, Syncs, Jobs
  <2>2. InHand' = Page
    BY <2>1 DEF InHand
  <2>3. NothingMissed'
    BY <2>1 DEF SyncInv, NothingMissed, Here, First, parent, history
  <2>4. VersionsFit'
    <3>1. \A x \in Page : /\ last_sync < Version(x) /\ Version(x) = modified[Uuid(x)]
                          /\ Version(x) \in Nat
      BY PageIsNewer, Ranges DEF SyncInv, OneInv, Newer
    <3> QED BY <2>1, <2>2, <3>1, Ranges DEF SyncInv, VersionsFit, parent
  <2>5. NothingSkipped'
    <3> SUFFICES ASSUME NEW u \in Uuids, ToBring(u)
                 PROVE  Stored(u) \/ <<u, modified[u]>> \in Page \/ StillToCome(u)'
      BY <2>1, <2>2 DEF NothingSkipped, ToBring, Stored, Here, First, parent, history
    <3>1. u \in Newer
      BY DEF ToBring, Newer
    <3>2. CASE StillToCome(u)
      <4>1. sync.offset <= Before(u) /\ Before(u) \in Nat /\ sync.offset \in Nat /\ Limit \in Nat
        BY <2>1, <3>2, BeforeIsNat, Ranges, LimitAssumption DEF StillToCome, Asked, SyncInv
      <4>2. CASE Before(u) < sync.offset + Limit
        BY <3>1, <4>1, <4>2 DEF Page
      <4>3. CASE Before(u) >= sync.offset + Limit
        <5>1. Cardinality(Page) \in Nat /\ Cardinality(Page) <= Limit
          BY PageFits, FS_CardinalityType DEF SyncInv, OneInv
        <5>2. Before(u) < Cardinality(Newer) /\ Cardinality(Newer) \in Nat
          BY <3>1, BeforeIsLess, NewerIsFinite DEF SyncInv, OneInv
        <5>3. Before(u)' = Before(u)
          BY <2>1, SameAnswer
        <5>4. sync.offset + Cardinality(Page) <= Before(u) /\ sync.offset + Cardinality(Page) < Cardinality(Newer)
          BY <4>1, <4>3, <5>1, <5>2
        <5> QED BY <2>1, <5>3, <5>4 DEF StillToCome, Asked
      <4> QED BY <4>1, <4>2, <4>3
    <3>3. <<u, modified[u]>> \notin InHand
      BY <2>1 DEF InHand, SyncInv, OneInv, JobsFit
    <3> QED BY <3>2, <3>3 DEF SyncInv, NothingSkipped
  <2> QED BY <2>3, <2>4, <2>5 DEF Brought
<1> QED BY <1>1, <1>2 DEF FetchPage

\* The page is sorted out: the offset moves behind it.
LEMMA SortBrings ==
  ASSUME SyncInv, SortOut
  PROVE  Brought'
<1>1. /\ UNCHANGED <<parent, copies, astray, last_sync, item>>
      /\ pc["all"] = "sort" /\ pc'["all"] = "insert" /\ pc'["single"] = pc["single"]
      /\ sync'.data = sync.data /\ sync'.start = sync.start /\ sync'.total = sync.total
      /\ sync'.offset = sync.offset + Cardinality(sync.data)
  BY DEF SortOut, Goto, SyncInv, OneInv, TypeOK, Syncs, Jobs
<1>2. InHand' = InHand
  BY <1>1 DEF InHand
<1>3. NothingMissed' /\ VersionsFit'
  BY <1>1, <1>2 DEF SyncInv, NothingMissed, VersionsFit, Here, First, parent, history
<1>4. \A u \in Uuids : StillToCome(u) => StillToCome(u)'
  <2>1. Asked' = Asked
    <3>1. sync.offset \in Nat /\ Cardinality(sync.data) \in Nat
      BY Ranges, DataIsFinite DEF SyncInv, OneInv
    <3> QED BY <1>1, <3>1 DEF Asked
  <2> QED BY <1>1, <2>1, SameAnswer DEF StillToCome
<1>5. NothingSkipped'
  BY <1>1, <1>2, <1>4 DEF SyncInv, NothingSkipped, ToBring, Stored, Here, First, parent, history
<1> QED BY <1>3, <1>5 DEF Brought

\* The bulk insert stores what was new, or that goes astray.
LEMMA InsertBrings ==
  ASSUME SyncInv, InsertNew
  PROVE  Brought'
<1> DEFINE new(u) == SetToSeq({Version(x) : x \in {y \in sync.fresh : Uuid(y) = u}})
           Inserted == {Uuid(x) : x \in sync.fresh}
<1>1. /\ UNCHANGED <<parent, last_sync, item>> /\ Settle(sync.fresh)
      /\ pc["all"] = "insert" /\ pc'["all"] = "update" /\ pc'["single"] = pc["single"]
      /\ sync'.data = sync.data \ sync.fresh /\ sync'.start = sync.start
      /\ sync'.total = sync.total /\ sync'.offset = sync.offset
  BY DEF InsertNew, Goto, SyncInv, OneInv, TypeOK, Syncs, Jobs
<1>2. sync.fresh \subseteq InHand /\ InHand' = InHand \ sync.fresh /\ sync.fresh \in SUBSET Rhics
  BY <1>1 DEF SyncInv, OneInv, TypeOK, Syncs, JobsFit, InHand
<1>3. ASSUME NEW u \in Uuids, u \notin Inserted PROVE copies'[u] = copies[u]
  <2>1. CASE copies' = [w \in Uuids |-> copies[w] \o new(w)]
    <3>1. new(u) = <<>>
      BY <1>1, <1>3, InsertedOnce DEF SyncInv
    <3>2. copies'[u] = copies[u] \o new(u) /\ copies[u] \in Seq(Times \ {0})
      BY <2>1 DEF SyncInv, OneInv, TypeOK
    <3> HIDE DEF new
    <3> QED BY <3>1, <3>2
  <2> QED BY <2>1 DEF InsertNew
<1>4. \A u \in Uuids : copies'[u] \in Seq(Times \ {0})
  BY InsertKeepsOne DEF SyncInv, OneInv, TypeOK
<1>5. \A u \in Uuids : /\ Stored(u) => Stored(u)'
                       /\ \A x \in sync.fresh : Uuid(x) = u /\ Version(x) = modified[u] => Stored(u)'
  BY <1>1, <1>2, <1>3, <1>4, SettleStores
<1>6. NothingMissed'
  BY <1>1, <1>5 DEF SyncInv, NothingMissed, Stored, parent
<1>7. VersionsFit'
  BY <1>1, <1>2 DEF SyncInv, VersionsFit, parent
<1>8. NothingSkipped'
  <2> SUFFICES ASSUME NEW u \in Uuids, ToBring(u)
               PROVE  Stored(u)' \/ <<u, modified[u]>> \in InHand' \/ StillToCome(u)'
    BY <1>1 DEF NothingSkipped, ToBring, parent
  <2>1. CASE <<u, modified[u]>> \in sync.fresh
    BY <1>5, <2>1 DEF Uuid, Version
  <2>2. StillToCome(u) => StillToCome(u)'
    BY <1>1, SameToCome
  <2> QED BY <1>2, <1>5, <2>1, <2>2 DEF SyncInv, NothingSkipped
<1> QED BY <1>6, <1>7, <1>8 DEF Brought

\* What is read to be updated stays in hand.
LEMMA UpdateBrings ==
  ASSUME SyncInv, NEW x \in Rhics, UpdateNext(x)
  PROVE  Brought'
<1>1. /\ UNCHANGED <<parent, copies, astray, last_sync>>
      /\ pc["all"] = "update" /\ pc'["all"] = "write" /\ pc'["single"] = pc["single"]
      /\ item'["all"] = x /\ item'["single"] = item["single"] /\ x \in sync.data
      /\ sync'.data = sync.data \ {x} /\ sync'.start = sync.start
      /\ sync'.total = sync.total /\ sync'.offset = sync.offset
  BY DEF UpdateNext, Goto, SyncInv, OneInv, TypeOK, Syncs, Jobs
<1>2. InHand' = InHand
  BY <1>1 DEF InHand
<1>3. NothingMissed' /\ VersionsFit'
  BY <1>1, <1>2 DEF SyncInv, NothingMissed, VersionsFit, Here, First, parent, history
<1>4. \A u \in Uuids : StillToCome(u) => StillToCome(u)'
  BY <1>1, SameAnswer DEF StillToCome, Asked
<1>5. NothingSkipped'
  BY <1>1, <1>2, <1>4 DEF SyncInv, NothingSkipped, ToBring, Stored, Here, First, parent, history
<1> QED BY <1>3, <1>5 DEF Brought

\* A write stores what was in hand, or that goes astray; the other job does no worse.
LEMMA WriteBrings ==
  ASSUME SyncInv, NEW j \in Jobs, Write(j)
  PROVE  Brought'
<1> DEFINE u == Uuid(item[j])
<1>1. u \in Uuids /\ item[j] \in Rhics /\ pc[j] = "write"
  BY Written DEF Write, SyncInv
<1>2. /\ UNCHANGED <<parent, last_sync, sync>> /\ Settle({item[j]})
      /\ pc' = [pc EXCEPT ![j] = IF j = "all" THEN "update" ELSE "idle"]
      /\ item' = [item EXCEPT ![j] = NoRhic]
  BY DEF Write, Stop, Goto
<1>3. \A w \in Uuids : w \notin {Uuid(x) : x \in {item[j]}} => copies'[w] = copies[w]
  <2>1. \/ UNCHANGED copies
        \/ \E c : copies' = [copies EXCEPT ![u] = c]
    BY DEF Write
  <2> QED BY <2>1 DEF SyncInv, OneInv, TypeOK
<1>4. \A w \in Uuids : copies'[w] \in Seq(Times \ {0})
  BY WriteKeepsOne DEF SyncInv, OneInv, TypeOK
<1>5. \A w \in Uuids : /\ Stored(w) => Stored(w)'
                       /\ \A x \in {item[j]} : Uuid(x) = w /\ Version(x) = modified[w] => Stored(w)'
  BY <1>1, <1>2, <1>3, <1>4, SettleStores
<1>6. NothingMissed'
  BY <1>2, <1>5 DEF SyncInv, NothingMissed, Stored, parent
<1>7. \A x \in InHand : x \in InHand' \/ x = item[j]
  BY <1>1, <1>2 DEF InHand, SyncInv, OneInv, TypeOK, Jobs
<1>8. VersionsFit'
  <2>1. InHand' \subseteq InHand
    BY <1>1, <1>2 DEF InHand, SyncInv, OneInv, TypeOK, Jobs
  <2> QED BY <1>2, <2>1 DEF SyncInv, VersionsFit, parent
<1>9. NothingSkipped'
  <2> SUFFICES ASSUME NEW w \in Uuids, ToBring(w)
               PROVE  Stored(w)' \/ <<w, modified[w]>> \in InHand' \/ StillToCome(w)'
    BY <1>2 DEF NothingSkipped, ToBring, parent
  <2>1. <<w, modified[w]>> = item[j] => Stored(w)'
    BY <1>5 DEF Uuid, Version
  <2>2. StillToCome(w) => StillToCome(w)'
    <3>1. CASE j = "all"
      BY <1>1, <1>2, <3>1, SameToCome DEF SyncInv, OneInv, TypeOK, Jobs
    <3>2. CASE j = "single"
      <4>1. pc'["all"] = pc["all"]
        BY <1>2, <3>2 DEF SyncInv, OneInv, TypeOK, Jobs
      <4> QED BY <1>2, <4>1, SameAnswer DEF StillToCome, Asked
    <3> QED BY <3>1, <3>2 DEF Jobs
  <2> QED BY <1>5, <1>7, <2>1, <2>2 DEF SyncInv, NothingSkipped
<1> QED BY <1>6, <1>8, <1>9 DEF Brought

\* The next page begins where this one ended.
LEMMA NextPageBrings ==
  ASSUME SyncInv, NextPage
  PROVE  Brought'
<1>1. /\ UNCHANGED <<parent, copies, history, last_sync, item, sync>> /\ sync.data = {}
      /\ pc["all"] = "update" /\ pc'["all"] = "page" /\ pc'["single"] = pc["single"]
  BY DEF NextPage, Goto, SyncInv, OneInv, TypeOK, Jobs
<1>2. InHand = {} /\ InHand' = {}
  BY <1>1 DEF InHand
<1>3. NothingMissed' /\ VersionsFit'
  BY <1>1, <1>2 DEF SyncInv, NothingMissed, VersionsFit, Here, First, parent, history
<1>4. \A u \in Uuids : StillToCome(u) => StillToCome(u)'
  BY <1>1, SameAnswer DEF StillToCome, Asked
<1>5. NothingSkipped'
  BY <1>1, <1>2, <1>4 DEF SyncInv, NothingSkipped, ToBring, Stored, Here, First, parent, history
<1> QED BY <1>3, <1>5 DEF Brought

\* The last page is done: nothing is in hand and nothing still to come, so that all the
\* sync was to bring is stored.
LEMMA SaveBrings ==
  ASSUME SyncInv, SaveLastSync
  PROVE  Brought'
<1>1. /\ UNCHANGED <<parent, copies, history>> /\ last_sync' = sync.start /\ Stop("all")
      /\ pc["all"] = "update" /\ sync.data = {} /\ sync.offset >= sync.total
  BY DEF SaveLastSync
<1>2. pc'["all"] = "idle" /\ sync' = NoSync
  BY <1>1 DEF Stop, SyncInv, OneInv, TypeOK, Jobs
<1>3. InHand' = {} /\ sync'.start = 0
  BY <1>2 DEF InHand, NoSync
<1>4. \A u \in Uuids : ToBring(u) => Stored(u)
  <2>1. InHand = {}
    BY <1>1 DEF InHand
  <2>2. \A u \in Uuids : ~StillToCome(u)
    BY <1>1, Ranges DEF StillToCome, Asked, SyncInv
  <2> QED BY <2>1, <2>2 DEF SyncInv, NothingSkipped
<1>5. NothingMissed'
  <2> SUFFICES ASSUME NEW u \in Uuids, 0 < modified[u], modified[u] <= sync.start
               PROVE  Stored(u)
    BY <1>1 DEF NothingMissed, Stored, Here, First, parent, history
  <2>1. modified[u] <= last_sync \/ ToBring(u)
    BY Ranges DEF SyncInv, ToBring
  <2> QED BY <1>4, <2>1 DEF SyncInv, NothingMissed, Stored
<1>6. VersionsFit'
  BY <1>2, <1>3 DEF VersionsFit
<1>7. NothingSkipped'
  BY <1>1, <1>3, Ranges DEF NothingSkipped, ToBring, SyncInv, parent
<1> QED BY <1>5, <1>6, <1>7 DEF Brought

\* The single lookup fetches and looks: the sync is where it was.
LEMMA SingleBrings ==
  ASSUME SyncInv, (\E u \in Uuids : FetchSingle(u)) \/ ReadSingle
  PROVE  Brought'
<1>1. /\ UNCHANGED <<parent, copies, astray, last_sync, sync>>
      /\ pc'["all"] = pc["all"] /\ item'["all"] = item["all"]
  BY DEF FetchSingle, ReadSingle, Goto, history, SyncInv, OneInv, TypeOK, Jobs
<1>2. InHand' = InHand
  BY <1>1 DEF InHand
<1>3. NothingMissed' /\ VersionsFit'
  BY <1>1, <1>2 DEF SyncInv, NothingMissed, VersionsFit, Here, First, parent, history
<1>4. \A u \in Uuids : StillToCome(u) => StillToCome(u)'
  BY <1>1, SameAnswer DEF StillToCome, Asked
<1>5. NothingSkipped'
  BY <1>1, <1>2, <1>4 DEF SyncInv, NothingSkipped, ToBring, Stored, Here, First, parent, history
<1> QED BY <1>3, <1>5 DEF Brought

\* SyncInv is inductive.
LEMMA StepBrings ==
  ASSUME SyncInv, [Next]_vars
  PROVE  Brought'
<1>1. ASSUME NEW u \in Uuids, Change(u) PROVE Brought'
  BY <1>1, ChangeBrings
<1>2. CASE (\E u \in Uuids : FetchSingle(u)) \/ ReadSingle
  BY <1>2, SingleBrings
<1>3. CASE Start \/ FetchPage \/ SortOut \/ InsertNew \/ NextPage \/ SaveLastSync
  BY <1>3, StartBrings, FetchBrings, SortBrings, InsertBrings, NextPageBrings, SaveBrings
<1>4. ASSUME NEW x \in Rhics, UpdateNext(x) PROVE Brought'
  BY <1>4, UpdateBrings
<1>5. ASSUME NEW j \in Jobs, Write(j) PROVE Brought'
  BY <1>5, WriteBrings
<1>6. ASSUME NEW j \in Jobs, Fails(j) PROVE Brought'
  BY <1>6, StopBrings DEF Fails
<1>7. CASE UNCHANGED vars
  <2>1. InHand' = InHand
    BY <1>7 DEF vars, job, InHand
  <2>2. \A u \in Uuids : StillToCome(u) => StillToCome(u)'
    BY <1>7, SameAnswer DEF StillToCome, Asked, vars, job
  <2> QED BY <1>7, <2>1, <2>2 DEF vars, parent, job, SyncInv, Brought, NothingMissed, VersionsFit,
                                NothingSkipped, ToBring, Stored, Here, First, history
<1> QED BY <1>1, <1>2, <1>3, <1>4, <1>5, <1>6, <1>7 DEF Next, SyncStep, SingleStep, Jobs

\* What the parent knew at the time of the last sync is here, unless it went astray:
\* its write failed without notice, the other job crossed it, or a change of another
\* RHIC moved it up the parent's list past the page that the sync had come to.
THEOREM NothingMissedHolds == Spec => []NothingMissed
<1>1. Init => SyncInv
  <2> SUFFICES ASSUME Init PROVE SyncInv
    OBVIOUS
  <2>1. OneInv
    BY InitOne
  <2>2. InHand = {} /\ sync.start = 0
    BY DEF Init, InHand, Jobs, NoSync
  <2> QED BY <2>1, <2>2 DEF Init, SyncInv, ListedOnce, NothingMissed, VersionsFit, NothingSkipped, ToBring, Jobs
<1>2. SyncInv /\ [Next]_vars => SyncInv'
  BY StepKeepsOne, StepListsOnce, StepBrings DEF SyncInv, Brought
<1>3. SyncInv => NothingMissed
  BY DEF SyncInv
<1> QED BY <1>1, <1>2, <1>3, PTL DEF Spec

-------------------------------------------------------------------------------
(* SyncRegistry: RegistryInv is inductive. *)

USE RegistryAssumption
USE DEF Finished, InProgress, Running, Proceed, Acquire

\* No thread, no entry, nobody at the lock
LEMMA RegistryStarts == RegistryInit => RegistryInv
BY DEF RegistryInit, RegistryInv, RegistryTypes, LockIsHeld,
   ThreadIsHeld, NoStaleEntry, RunningIsKnown

\* Whoever has the lock is the only caller between its acquire and its release, and the only one
\* that holds a thread of its own.
LEMMA LockExcludes ==
  ASSUME RegistryInv, NEW c \in Callers, caller[c] # "idle"
  PROVE  /\ JOB_LOCK = c
         /\ \A d \in Callers \ {c} : caller[d] = "idle" /\ thread[d] = None
         /\ \A t \in Threads : state[t] # "removing"
BY DEF RegistryInv, LockIsHeld, ThreadIsHeld

\* The steps of a caller, ...
LEMMA RegistryCallerKeeps ==
  ASSUME RegistryInv, NEW c \in Callers, Call(c) \/ CallerStep(c)
  PROVE  RegistryInv'
<1> USE DEF RegistryInv, RegistryTypes, LockIsHeld,
            ThreadIsHeld, NoStaleEntry, RunningIsKnown
<1>1. CASE Call(c)
  BY <1>1 DEF Call
<1>2. CASE Decline(c)
  BY <1>2, LockExcludes DEF Decline
<1>3. CASE StartThread(c)
  BY <1>3, LockExcludes DEF StartThread, NewThread
<1>4. CASE StartFails(c)
  BY <1>4, LockExcludes DEF StartFails
<1>5. CASE Register(c)
  BY <1>5, LockExcludes DEF Register
<1>6. CASE Release(c)
  BY <1>6, LockExcludes DEF Release
<1> QED BY <1>1, <1>2, <1>3, <1>4, <1>5, <1>6 DEF CallerStep

\* ... and of a synchronisation thread
LEMMA RegistrySyncKeeps ==
  ASSUME RegistryInv, NEW t \in Threads, ThreadStep(t)
  PROVE  RegistryInv'
<1> USE DEF RegistryInv, RegistryTypes, LockIsHeld,
            ThreadIsHeld, NoStaleEntry, RunningIsKnown
<1>1. CASE Finish(t)
  BY <1>1 DEF Finish
<1>2. CASE RemoveReference(t)
  BY <1>2 DEF RemoveReference
<1>3. CASE ReleaseReference(t)
  BY <1>3 DEF ReleaseReference
<1> QED BY <1>1, <1>2, <1>3 DEF ThreadStep

\* At every step under the lock one caller knows the thread it has started, and an entry of a
\* finished thread is about to go (sync_from_rhic_serve, remove_reference).
THEOREM RegistryIsSound == RegistrySpec => []RegistryInv
<1>1. RegistryInv /\ [RegistryNext]_registry => RegistryInv'
  <2>1. RegistryInv /\ UNCHANGED registry => RegistryInv'
    BY DEF registry, RegistryInv, RegistryTypes, LockIsHeld,
       ThreadIsHeld, NoStaleEntry, RunningIsKnown
  <2> QED BY <2>1, RegistryCallerKeeps, RegistrySyncKeeps DEF RegistryNext
<1> QED BY <1>1, RegistryStarts, PTL DEF RegistrySpec

\* Two threads synchronise at once only when the entry of one has been deleted by another one
\* that was done.
THEOREM OneSyncUnlessForgottenHolds == RegistrySpec => []OneSyncUnlessForgotten
<1>1. RegistryInv => OneSyncUnlessForgotten
  <2> SUFFICES ASSUME RegistryInv,
                      NEW t1 \in Running \ forgotten, NEW t2 \in Running \ forgotten
               PROVE  t1 = t2
    BY DEF OneSyncUnlessForgotten
  <2>1. ASSUME NEW c \in Callers, NEW t \in Running, thread[c] = t
        PROVE  JOBS = t \/ ~InProgress
    BY <2>1 DEF RegistryInv, ThreadIsHeld, RegistryTypes
  <2>2. ASSUME NEW c \in Callers, NEW t \in Running, thread[c] = t,
               NEW d \in Callers, thread[d] # None
        PROVE  c = d
    BY <2>2, LockExcludes DEF RegistryInv, ThreadIsHeld, RegistryTypes
  <2> QED
    BY <2>1, <2>2 DEF RegistryInv, RunningIsKnown
<1> QED BY <1>1, RegistryIsSound, PTL

-------------------------------------------------------------------------------
(* CandlepinSync: MirrorInv is inductive, and what sync_pools and sync_all *)
(* have achieved when they return follows from it.                         *)

USE ItemsAssumption, BoundsAssumption
USE DEF Items, Stamps, Documents, ProductId, IsHere, Fetched

LEMMA MirrorStarts == MirrorInit => MirrorInv
BY DEF MirrorInit, MirrorInv, MirrorTypes, OnePoolPerProduct, PoolsMirrored

LEMMA ChangeKeeps ==
  ASSUME MirrorInv, NEW i \in Items, NEW v \in Stamps, CandlepinChanges(i, v)
  PROVE  MirrorInv'
BY DEF CandlepinChanges, progress, MirrorInv, MirrorTypes, OnePoolPerProduct, PoolsMirrored,
       StoredOf, LookedAt, UnsentAreDoomed, ListedPoolsAreHere

LEMMA BeginKeeps ==
  ASSUME MirrorInv, SyncAll \/ PoolsDone
  PROVE  MirrorInv'
BY DEF SyncAll, PoolsDone, Begin, MirrorInv, MirrorTypes, OnePoolPerProduct,
       PoolsMirrored, StoredOf, LookedAt, UnsentAreDoomed

LEMMA AbortKeeps ==
  ASSUME MirrorInv, Abort, db' = db, failures' \in 0..MaxFailures
  PROVE  MirrorInv'
BY DEF Abort, MirrorInv, MirrorTypes, OnePoolPerProduct, PoolsMirrored

LEMMA FetchKeeps ==
  ASSUME MirrorInv, NEW answer \in [Items -> Stamps], Fetch(answer),
    failures' \in 0..MaxFailures
  PROVE  MirrorInv'
<1>1. MirrorTypes'
  BY DEF MirrorInv, MirrorTypes, Fetch
<1>2. OnePoolPerProduct' /\ PoolsMirrored'
  BY DEF MirrorInv, OnePoolPerProduct, PoolsMirrored, Fetch
<1>3. StoredOf(Documents)'
  BY DEF StoredOf, LookedAt, Fetch
<1>4. (at = "store" /\ col = "Product" => StoredOf(Pools))'
  <2> SUFFICES ASSUME col = "Product" PROVE StoredOf(Pools)'
    BY DEF Fetch
  <2>1. todo = {} /\ StoredOf(Pools)
    BY DEF MirrorInv, PoolsMirrored, Fetch
  <2>2. \A i \in Pools : fetched'[i] = fetched[i] /\ i \notin todo'
    BY DEF Fetch, MirrorInv, MirrorTypes
  <2> QED BY <2>1, <2>2 DEF StoredOf, LookedAt, Fetch
<1> QED BY <1>1, <1>2, <1>3, <1>4 DEF MirrorInv, Fetch

\* A document that is stored is the only one of its product, and what was stored stays.
LEMMA InsertKeeps ==
  ASSUME MirrorInv, NEW i \in Items, Insert(i)
  PROVE  MirrorInv'
<1>1. MirrorTypes'
  BY DEF MirrorInv, MirrorTypes, Insert
<1>2. i \in Documents /\ db' = [db EXCEPT ![i] = fetched[i]] /\ todo' = todo \ {i} /\ db \in [Items -> Stamps]
  BY DEF MirrorInv, MirrorTypes, Insert
<1>3. \A d \in Documents : IsHere(d) => ProductId(d) # ProductId(i)
  BY DEF Insert, SameProduct
<1>4. OnePoolPerProduct'
  BY <1>2, <1>3 DEF MirrorInv, MirrorTypes, OnePoolPerProduct, Insert
<1>5. StoredOf(Documents)'
  <2> SUFFICES ASSUME NEW j \in LookedAt(Documents)'
               PROVE  \E d \in Documents : ProductId(d) = ProductId(j) /\ IsHere(d)' /\ db'[d] >= fetched[j]
    BY DEF Insert, StoredOf
  <2>1. CASE j = i
    BY <2>1, <1>2 DEF LookedAt, Insert, MirrorInv, MirrorTypes
  <2>2. CASE j # i
    <3>1. j \in LookedAt(Documents)
      BY <2>2, <1>2 DEF LookedAt, Insert
    <3>2. PICK d \in Documents : ProductId(d) = ProductId(j) /\ IsHere(d) /\ db[d] >= fetched[j]
      BY <3>1 DEF MirrorInv, StoredOf, Insert
    <3>3. db'[d] = db[d]
      BY <3>2, <1>2, <1>3
    <3> QED BY <3>2, <3>3
  <2> QED BY <2>1, <2>2
<1>6. (at = "store" /\ col = "Product" => StoredOf(Pools))'
  <2> SUFFICES ASSUME col = "Product" PROVE StoredOf(Pools)'
    BY DEF Insert
  <2>1. \A j \in Pools : db'[j] = db[j] /\ j \notin todo
    BY <1>2 DEF MirrorInv, MirrorTypes
  <2>2. LookedAt(Pools)' = LookedAt(Pools)
    BY <2>1, <1>2 DEF LookedAt, Insert
  <2> QED BY <2>1, <2>2 DEF StoredOf, MirrorInv, Insert
<1> QED BY <1>1, <1>4, <1>5, <1>6 DEF MirrorInv, PoolsMirrored, Insert

LEMMA IgnoreKeeps ==
  ASSUME MirrorInv, NEW i \in Items, Ignore(i)
  PROVE  MirrorInv'
<1>1. MirrorTypes' /\ OnePoolPerProduct'
  BY DEF MirrorInv, MirrorTypes, OnePoolPerProduct, Ignore
<1>2. StoredOf(Documents)'
  <2> SUFFICES ASSUME NEW j \in LookedAt(Documents)'
               PROVE  \E d \in Documents : ProductId(d) = ProductId(j) /\ IsHere(d) /\ db[d] >= fetched[j]
    BY DEF Ignore, StoredOf
  <2>1. CASE j = i
    BY <2>1 DEF Ignore, SameProduct
  <2>2. CASE j # i
    <3>1. j \in LookedAt(Documents)
      BY <2>2 DEF LookedAt, Ignore
    <3> QED BY <3>1 DEF MirrorInv, StoredOf, Ignore
  <2> QED BY <2>1, <2>2
<1>3. (at = "store" /\ col = "Product" => StoredOf(Pools))'
  <2> SUFFICES ASSUME col = "Product" PROVE StoredOf(Pools)'
    BY DEF Ignore
  <2>1. \A j \in Pools : j \notin todo
    BY DEF MirrorInv, MirrorTypes
  <2>2. LookedAt(Pools)' = LookedAt(Pools)
    BY <2>1 DEF LookedAt, Ignore
  <2> QED BY <2>2 DEF StoredOf, MirrorInv, Ignore
<1> QED BY <1>1, <1>2, <1>3 DEF MirrorInv, PoolsMirrored, Ignore

\* What was sent is here, and what is here and was not sent is to go.
LEMMA ListKeeps ==
  ASSUME MirrorInv, ListStale
  PROVE  MirrorInv'
<1>1. MirrorTypes'
  BY DEF MirrorInv, MirrorTypes, ListStale, UnlistedProducts
<1>2. OnePoolPerProduct' /\ StoredOf(Documents)'
  BY DEF MirrorInv, OnePoolPerProduct, StoredOf, LookedAt, ListStale
<1>3. \A q \in doomed', i \in Documents : Fetched(i) => ProductId(i) # q
  BY DEF ListStale, UnlistedProducts
<1>4. (at = "delete" /\ col = "Pool" => UnsentAreDoomed)'
  BY DEF ListStale, UnlistedProducts, UnsentAreDoomed
<1>5. (at = "delete" /\ col = "Product" => ListedPoolsAreHere)'
  BY DEF ListStale, MirrorInv, ListedPoolsAreHere, StoredOf, LookedAt
<1> QED BY <1>1, <1>2, <1>3, <1>4, <1>5 DEF MirrorInv, PoolsMirrored, ListStale

\* What goes is of no product that was sent.
LEMMA DeleteKeeps ==
  ASSUME MirrorInv, NEW q \in Products, Delete(q)
  PROVE  MirrorInv'
<1>1. PICK p \in Pools : /\ IsHere(p) /\ ProductOf[p] = q
                         /\ db' = [db EXCEPT ![p] = 0]
  BY DEF Delete, PoolsOf
<1>2. MirrorTypes'
  BY <1>1 DEF MirrorInv, MirrorTypes, Delete
<1>3. db \in [Items -> Stamps] /\ q \in doomed /\ \A i \in Documents : Fetched(i) => ProductId(i) # q
  BY DEF MirrorInv, MirrorTypes, Delete
<1>4. \A d \in Items : db'[d] # db[d] => d = p /\ db'[d] = 0
  BY <1>1, <1>3
<1>5. OnePoolPerProduct'
  BY <1>4 DEF OnePoolPerProduct, MirrorInv
<1>6. StoredOf(Documents)'
  BY <1>1, <1>3, <1>4 DEF MirrorInv, StoredOf, LookedAt, Delete
<1>7. (at = "delete" /\ col = "Pool" => UnsentAreDoomed)'
  <2> SUFFICES ASSUME col = "Pool" PROVE UnsentAreDoomed'
    BY DEF Delete
  <2> SUFFICES ASSUME NEW d \in Pools, IsHere(d)', ProductOf[d] \notin doomed'
               PROVE  \E i \in Pools : Fetched(i) /\ ProductOf[i] = ProductOf[d]
    BY DEF UnsentAreDoomed, Delete
  <2>1. d # p /\ IsHere(d)
    BY <1>1, <1>3
  <2>2. ProductOf[d] # q
    BY <2>1, <1>1 DEF MirrorInv, OnePoolPerProduct
  <2> QED BY <2>1, <2>2 DEF Delete, MirrorInv, UnsentAreDoomed
<1>8. (at = "delete" /\ col = "Product" => ListedPoolsAreHere)'
  <2> SUFFICES ASSUME col = "Product", NEW i \in Pools, Fetched(i), Fetched(ProductOf[i])
               PROVE  \E d \in Pools : ProductOf[d] = ProductOf[i] /\ IsHere(d)' /\ db'[d] >= fetched[i]
    BY DEF Delete, ListedPoolsAreHere
  <2>1. PICK d \in Pools : ProductOf[d] = ProductOf[i] /\ IsHere(d) /\ db[d] >= fetched[i]
    BY DEF Delete, MirrorInv, ListedPoolsAreHere
  <2>2. ProductOf[i] \in Products \ Pools
    OBVIOUS
  <2>3. ProductOf[i] # q
    BY <2>2, <1>3
  <2>4. db'[d] = db[d]
    BY <2>1, <2>3, <1>1, <1>4
  <2> QED BY <2>1, <2>4
<1>9. \A r \in doomed', i \in Documents : Fetched(i) => ProductId(i) # r
  BY DEF Delete, MirrorInv
<1> QED BY <1>2, <1>5, <1>6, <1>7, <1>8, <1>9 DEF MirrorInv, PoolsMirrored, Delete

LEMMA MirrorStepKeeps ==
  MirrorInv /\ [MirrorNext]_mirror => MirrorInv'
<1> SUFFICES ASSUME MirrorInv, [MirrorNext]_mirror PROVE MirrorInv'
  OBVIOUS
<1>1. ASSUME NEW i \in Items, NEW v \in Stamps, CandlepinChanges(i, v) PROVE MirrorInv'
  BY <1>1, ChangeKeeps
<1>2. CASE SyncAll \/ PoolsDone
  BY <1>2, BeginKeeps
<1>3. CASE FetchAll \/ FetchNothing
  <2>1. PICK answer \in [Items -> Stamps] : Fetch(answer)
    BY <1>3 DEF FetchAll, FetchNothing, MirrorInv, MirrorTypes
  <2>2. failures' \in 0..MaxFailures
    BY <1>3 DEF FetchAll, FetchNothing, Failure, MirrorInv, MirrorTypes
  <2> QED BY <2>1, <2>2, FetchKeeps
<1>4. ASSUME NEW i \in Items, Insert(i) \/ Ignore(i) PROVE MirrorInv'
  BY <1>4, InsertKeeps, IgnoreKeeps
<1>5. ASSUME NEW i \in Items, UpdateRaises(i) PROVE MirrorInv'
  BY <1>5, AbortKeeps DEF UpdateRaises, MirrorInv, MirrorTypes
<1>6. CASE ListStale
  BY <1>6, ListKeeps
<1>7. ASSUME NEW q \in Products, Delete(q) PROVE MirrorInv'
  BY <1>7, DeleteKeeps
<1>8. ASSUME NEW q \in Products, DeleteRaises(q) PROVE MirrorInv'
  BY <1>8, AbortKeeps DEF DeleteRaises, MirrorInv, MirrorTypes
<1>9. CASE Complete
  BY <1>9, AbortKeeps DEF Complete, MirrorInv, MirrorTypes
<1>10. CASE SyncFails
  BY <1>10, AbortKeeps DEF SyncFails, Failure, MirrorInv, MirrorTypes
<1>11. CASE UNCHANGED mirror
  BY <1>11 DEF mirror, progress, MirrorInv, MirrorTypes, OnePoolPerProduct, PoolsMirrored,
               StoredOf, LookedAt, UnsentAreDoomed, ListedPoolsAreHere
<1> QED
  BY <1>1, <1>2, <1>3, <1>4, <1>5, <1>6, <1>7, <1>8, <1>9, <1>10, <1>11
     DEF MirrorNext, MirrorStep, ItemStep, DeleteStep

\* What a sync has achieved at each of its points, for any documents, whatever changes at
\* candlepin meanwhile and wherever it fails.
THEOREM MirrorIsSound == MirrorSpec => []MirrorInv
BY MirrorStarts, MirrorStepKeeps, PTL DEF MirrorSpec

\* However many pools of a product candlepin has, sync_pools keeps one of them.
THEOREM OneOfEachProduct == MirrorSpec => []OnePoolPerProduct
<1>1. MirrorInv => OnePoolPerProduct
  BY DEF MirrorInv
<1> QED BY <1>1, MirrorIsSound, PTL

\* When sync_pools returns, the pools here are those candlepin has listed the products of.
THEOREM PoolsAreMirrored == MirrorSpec => []PoolsMirrored
<1>1. MirrorInv => PoolsMirrored
  BY DEF MirrorInv
<1> QED BY <1>1, MirrorIsSound, PTL

\* When sync_all returns, nothing that was sent is missing or old but the pools of products
\* that were not sent.
THEOREM ListedIsKept == MirrorSpec => NothingListedIsLost
<1>1. MirrorInv /\ [MirrorNext]_mirror => [Complete => StoredOf(Products) /\ ListedPoolsAreHere]_mirror
  <2> SUFFICES ASSUME MirrorInv, Complete PROVE StoredOf(Products) /\ ListedPoolsAreHere
    OBVIOUS
  <2> QED BY DEF MirrorInv, Complete
<1> QED BY <1>1, MirrorIsSound, PTL DEF MirrorSpec, NothingListedIsLost

=============================================================================
