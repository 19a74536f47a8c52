-------------------------- MODULE ResourceImportProofs --------------------------
(***************************************************************************)
(* Proofs about ResourceImport, for any objects, versions, requests,       *)
(* threads, processes and faults.                                          *)
(*                                                                         *)
(* The argument: between the lookup of an item and its last write, other   *)
(* threads write nothing but the same version of it (Apart), so that what  *)
(* the lookup found is still not newer than the item.  Versions then only  *)
(* grow, and what a thread has finished with stays stored.  All this is    *)
(* said of keys that are not contested, and no key stops to be contested   *)
(* while a request that names it is in progress.                           *)
(***************************************************************************)
EXTENDS ResourceImport, TLAPS

LEMMA ItemsTyped ==
  ASSUME NEW i \in Items
  PROVE  /\ Key(i) \in Keys
         /\ Version(i) \in Versions /\ Version(i) \in Nat /\ Version(i) > 0
         /\ i = <<Key(i), Version(i)>>
  <1>1. Key(i) \in Keys /\ Version(i) \in Versions /\ i = <<Key(i), Version(i)>>
    BY DEF Items, Key, Version
  <1>2. \A v \in Versions : v \in Nat /\ v > 0
    BY VersionsAssumption
  <1> QED
    BY <1>1, <1>2

LEMMA UpdatedTyped ==
  ASSUME TypeOK, NEW k \in Keys
  PROVE  stored[k] \in Documents /\ stored[k].updated \in Nat
  <1>1. stored[k] \in Documents
    BY DEF TypeOK
  <1>2. stored[k].updated \in Versions \cup {0}
    BY <1>1 DEF Documents
  <1>3. Versions \cup {0} \subseteq Nat
    BY VersionsAssumption
  <1> QED
    BY <1>1, <1>2, <1>3

LEMMA DocumentsTyped ==
  ASSUME NEW v \in Versions
  PROVE  Document(v) \in Documents /\ Document(v).updated = v
         /\ Document(v).optional = Optional(v)
  BY DEF Document, Documents, Optional

LEMMA InitImportInv == Init => ImportInv
  <1> SUFFICES ASSUME Init PROVE ImportInv
    OBVIOUS
  <1>1. TypeOK
    BY BoundsAssumption, VersionsAssumption, ThreadsAssumption
    DEF Init, TypeOK, Documents, NoDocument
  <1>2. Apart /\ \A t \in Threads : ThreadInv(t)
    BY DEF Init, Apart, ThreadInv
  <1>3. Whole
    BY DEF Init, Whole
  <1> QED
    BY <1>1, <1>2, <1>3 DEF ImportInv

-------------------------------------------------------------------------------
(* What the other threads know when thread t writes to the database. *)

\* The state of thread u itself does not change.
Rests(u) == pc'[u] = pc[u] /\ items'[u] = items[u] /\ todo'[u] = todo[u] /\ item'[u] = item[u]

\* The item t works on is one of its request.
LEMMA ItemOfRequest ==
  ASSUME TypeOK, NEW t \in Threads, ThreadInv(t), pc[t] \in {"insert", "set", "unset", "append"}
  PROVE  item[t] \in items[t] /\ item[t] \in todo[t] /\ item[t] \in Items
  BY DEF TypeOK, ThreadInv

\* What u has under way stays contested if it was.
StaysContested(u) == \A j \in items[u] : Key(j) \in contested => Key(j) \in contested'

\* A write that gives one item its version, where the database had none newer,
\* is one that the other threads do not mind.
LEMMA OthersKeepInv ==
  ASSUME TypeOK, Apart, NEW t \in Threads, NEW u \in Threads, u # t, ThreadInv(u), Rests(u),
         contested' = contested,
         item[t] \in items[t], item[t] \in Items,
         \A k \in Keys : k # Key(item[t]) => stored'[k].updated = stored[k].updated,
         stored'[Key(item[t])].updated = Version(item[t]),
         stored[Key(item[t])].updated <= Version(item[t]) \/ Key(item[t]) \in contested
  PROVE  ThreadInv(u)'
  <1> DEFINE i == item[t]
  <1>1. \A j \in Items : Stored(j) => Stored(j)'
    <2>1. ASSUME NEW j \in Items, Stored(j), Key(j) \notin contested
          PROVE  stored'[Key(j)].updated >= Version(j)
      <3>1. stored[Key(j)].updated >= Version(j)
        BY <2>1 DEF Stored
      <3>2. CASE Key(j) = Key(i)
        BY <2>1, <3>1, <3>2, ItemsTyped, UpdatedTyped
      <3>3. CASE Key(j) # Key(i)
        BY <3>1, <3>3, ItemsTyped
      <3> QED
        BY <3>2, <3>3
    <2> QED
      BY <2>1 DEF Stored
  <1>2. items[u] \subseteq Items /\ todo[u] \subseteq Items
    BY DEF TypeOK
  <1>3. ASSUME pc[u] \in {"insert", "set", "unset", "append"}
        PROVE  /\ item[u] \in Items /\ item[u] \in todo[u]
               /\ Key(item[u]) = Key(i) =>
                    Version(item[u]) = Version(i) \/ Key(item[u]) \in contested
    BY <1>3, ItemOfRequest DEF Apart
  <1>4. pc[u] = "set" => stored'[Key(item[u])].updated <= Version(item[u])
                         \/ Key(item[u]) \in contested
    BY <1>3, ItemsTyped DEF ThreadInv
  <1>5. pc[u] = "unset" => stored'[Key(item[u])].updated = Version(item[u])
                           \/ Key(item[u]) \in contested
    BY <1>3, ItemsTyped DEF ThreadInv
  <1>6. pc[u] = "append" => Stored(item[u])'
    <2> SUFFICES ASSUME pc[u] = "append" PROVE Stored(item[u])'
      OBVIOUS
    <2>1. item'[u] = item[u] /\ Stored(item[u])
      BY DEF Rests, ThreadInv
    <2> QED
      BY <1>1, <1>3, <2>1 DEF Stored
  <1>7. \A j \in items[u] \ todo[u] : Stored(j)'
    BY <1>1, <1>2 DEF ThreadInv
  <1> QED
    BY <1>3, <1>4, <1>5, <1>6, <1>7 DEF ThreadInv, Rests, Stored

\* Nor does a step mind that leaves the stamps in the database alone.
LEMMA StampsKeptKeepInv ==
  ASSUME TypeOK, NEW u \in Threads, ThreadInv(u), Rests(u), StaysContested(u),
         \A k \in Keys : stored'[k].updated = stored[k].updated
  PROVE  ThreadInv(u)'
  <1>1. items[u] \subseteq Items /\ todo[u] \subseteq items[u]
    BY DEF TypeOK, ThreadInv
  <1>2. \A j \in items[u] : Stored(j) =>
          stored'[Key(j)].updated >= Version(j) \/ Key(j) \in contested'
    BY <1>1, ItemsTyped DEF Stored, StaysContested
  <1>3. pc[u] \in {"insert", "set", "unset", "append"} =>
          /\ stored'[Key(item[u])].updated = stored[Key(item[u])].updated
          /\ item[u] \in items[u]
          /\ Key(item[u]) \in contested => Key(item[u]) \in contested'
    BY ItemOfRequest, ItemsTyped DEF StaysContested
  <1>4. \A j \in items[u] \ todo[u] :
          stored'[Key(j)].updated >= Version(j) \/ Key(j) \in contested'
    BY <1>1, <1>2 DEF ThreadInv
  <1>5. pc[u] = "append" =>
          stored'[Key(item[u])].updated >= Version(item[u]) \/ Key(item[u]) \in contested'
    BY <1>2, <1>3 DEF ThreadInv
  <1> QED
    BY <1>3, <1>4, <1>5 DEF ThreadInv, Rests, Stored

\* A thread that is idle has no claims.
LEMMA IdleInv ==
  ASSUME NEW t \in Threads, pc'[t] = "idle", items'[t] = {}, todo'[t] = {}
  PROVE  ThreadInv(t)'
  BY DEF ThreadInv

\* Steps after which no thread has more items than before keep requests apart.
LEMMA ApartKept ==
  ASSUME Apart, \A t \in Threads : items'[t] \subseteq items[t],
         \A t \in Threads : \A j \in items'[t] : Key(j) \in contested => Key(j) \in contested'
  PROVE  Apart'
  BY DEF Apart

-------------------------------------------------------------------------------
(* One lemma for each action. *)

LEMMA PostStep ==
  ASSUME ImportInv, NEW t \in Threads, NEW I \in Requests, Post(t, I)
  PROVE  ImportInv'
  <1>0. TypeOK /\ Apart /\ (\A u \in Threads : ThreadInv(u)) /\ Whole
    BY DEF ImportInv
  <1>1. I \subseteq Items
    BY RequestsAssumption DEF Items
  <1>2. /\ pc[t] = "idle" /\ pc' = [pc EXCEPT ![t] = "lookup"]
        /\ items' = [items EXCEPT ![t] = I] /\ todo' = [todo EXCEPT ![t] = I]
        /\ all_objects' = [all_objects EXCEPT ![ProcessOf[t]] = {}]
        /\ contested' = contested \cup UNION {Clash(I, items[u]) : u \in Threads}
        /\ shared' \subseteq Threads /\ overtaken' \subseteq Threads /\ answered' = {}
        /\ UNCHANGED <<stored, item, torn, faults>>
    BY <1>0 DEF Post, Arrive, Goto, Beside, TypeOK
  <1>3. TypeOK'
    <2>1. contested' \subseteq Keys
      BY <1>0, <1>2 DEF Clash, TypeOK
    <2> QED
      BY <1>0, <1>1, <1>2, <2>1, ThreadsAssumption DEF TypeOK
  <1>4. \A u \in Threads : ThreadInv(u)'
    <2>1. ThreadInv(t)'
      BY <1>0, <1>2 DEF TypeOK, ThreadInv
    <2>2. ASSUME NEW u \in Threads, u # t PROVE ThreadInv(u)'
      <3>1. Rests(u) /\ stored' = stored /\ StaysContested(u)
        BY <1>0, <1>2, <2>2 DEF TypeOK, Rests, StaysContested
      <3> QED
        BY <1>0, <3>1, StampsKeptKeepInv
    <2> QED
      BY <2>1, <2>2
  <1>5. Apart'
    <2>1. \A u \in Threads : items'[u] = IF u = t THEN I ELSE items[u]
      BY <1>0, <1>2 DEF TypeOK
    <2>2. ASSUME NEW u \in Threads, NEW i \in I, NEW k \in items[u], Key(i) = Key(k)
          PROVE  Version(i) = Version(k) \/ Key(i) \in contested'
      <3>1. Key(i) \in Keys
        BY <1>1, ItemsTyped
      <3>2. Version(i) # Version(k) => Key(i) \in Clash(I, items[u])
        BY <2>2, <3>1 DEF Clash
      <3> QED
        BY <1>2, <3>2
    <2>3. contested \subseteq contested'
      BY <1>2
    <2> QED
      BY <1>0, <2>1, <2>2, <2>3 DEF Apart
  <1>6. Whole'
    BY <1>0, <1>2 DEF TypeOK, Whole
  <1> QED
    BY <1>3, <1>4, <1>5, <1>6 DEF ImportInv

LEMMA LookupStep ==
  ASSUME ImportInv, NEW t \in Threads, NEW i \in Items, Lookup(t, i)
  PROVE  ImportInv'
  <1>0. TypeOK /\ Apart /\ (\A u \in Threads : ThreadInv(u)) /\ Whole
    BY DEF ImportInv
  <1> DEFINE found == stored[Key(i)].updated
             next == IF found = 0 THEN "insert"
                     ELSE IF Version(i) > found THEN "set" ELSE "append"
  <1>1. /\ pc[t] = "lookup" /\ i \in todo[t]
        /\ pc' = [pc EXCEPT ![t] = next]
        /\ item' = [item EXCEPT ![t] = i]
        /\ UNCHANGED <<stored, all_objects, items, todo, answered, contested, torn, met, faults>>
    BY DEF Lookup, Goto
  <1>2. TypeOK'
    BY <1>0, <1>1 DEF TypeOK, met
  <1>3. \A u \in Threads : ThreadInv(u)'
    <2>1. ThreadInv(t)'
      <3>1. pc'[t] = next /\ item'[t] = i
        BY <1>0, <1>1 DEF TypeOK
      <3>2. found \in Nat /\ Version(i) \in Nat
        BY <1>0, ItemsTyped, UpdatedTyped
      <3>3. next = "set" => found <= Version(i)
        BY <3>2
      <3>4. next = "append" => found >= Version(i)
        BY <3>2
      <3> QED
        BY <1>0, <1>1, <3>1, <3>3, <3>4 DEF ThreadInv, Stored
    <2>2. ASSUME NEW u \in Threads, u # t PROVE ThreadInv(u)'
      <3>1. Rests(u) /\ stored' = stored /\ StaysContested(u)
        BY <1>0, <1>1, <2>2 DEF TypeOK, Rests, StaysContested
      <3> QED
        BY <1>0, <3>1, StampsKeptKeepInv
    <2> QED
      BY <2>1, <2>2
  <1>4. Apart'
    BY <1>0, <1>1 DEF Apart
  <1>5. Whole'
    BY <1>0, <1>1 DEF TypeOK, Whole
  <1> QED
    BY <1>2, <1>3, <1>4, <1>5 DEF ImportInv

LEMMA InsertStep ==
  ASSUME ImportInv, NEW t \in Threads, Insert(t)
  PROVE  ImportInv'
  <1>0. TypeOK /\ Apart /\ (\A u \in Threads : ThreadInv(u)) /\ Whole
    BY DEF ImportInv
  <1> DEFINE k == Key(item[t])
             v == Version(item[t])
  <1>1. pc[t] = "insert" /\ pc' = [pc EXCEPT ![t] = "append"]
        /\ UNCHANGED <<all_objects, items, todo, item, answered, contested, torn, met, faults>>
    BY DEF Insert, Goto
  <1>2. item[t] \in items[t] /\ item[t] \in todo[t] /\ item[t] \in Items
    BY <1>0, <1>1, ItemOfRequest
  <1>3. k \in Keys /\ v \in Versions /\ v \in Nat
    BY <1>2, ItemsTyped
  <1>4. stored' = [stored EXCEPT ![k] = Document(v)] /\ stored[k].updated = 0
    BY DEF Insert, NoDocument
  <1>5. stored'[k] = Document(v) /\ \A j \in Keys : j # k => stored'[j] = stored[j]
    BY <1>0, <1>3, <1>4 DEF TypeOK
  <1>6. TypeOK'
    BY <1>0, <1>1, <1>3, <1>4, DocumentsTyped DEF TypeOK, met
  <1>7. \A u \in Threads : ThreadInv(u)'
    <2>1. ThreadInv(t)'
      <3>1. \A i \in Items : Stored(i) =>
              stored'[Key(i)].updated >= Version(i) \/ Key(i) \in contested
        BY <1>3, <1>4, <1>5, ItemsTyped DEF Stored
      <3>2. items[t] \subseteq Items
        BY <1>0 DEF TypeOK
      <3>3. \A i \in items[t] \ todo[t] :
              stored'[Key(i)].updated >= Version(i) \/ Key(i) \in contested
        BY <1>0, <3>1, <3>2 DEF ThreadInv
      <3>4. stored'[k].updated >= v
        BY <1>3, <1>5, DocumentsTyped
      <3>5. pc'[t] = "append" /\ item'[t] = item[t] /\ items'[t] = items[t] /\ todo'[t] = todo[t]
        BY <1>0, <1>1 DEF TypeOK
      <3> QED
        BY <1>0, <1>1, <1>2, <3>3, <3>4, <3>5 DEF ThreadInv, Stored
    <2>2. ASSUME NEW u \in Threads, u # t PROVE ThreadInv(u)'
      <3>1. Rests(u)
        BY <1>0, <1>1, <2>2 DEF TypeOK, Rests
      <3>2. stored'[k].updated = v /\ stored[k].updated <= v
        BY <1>3, <1>4, <1>5, DocumentsTyped
      <3> QED
        BY <1>0, <1>1, <1>2, <1>5, <2>2, <3>1, <3>2, OthersKeepInv
    <2> QED
      BY <2>1, <2>2
  <1>8. Apart'
    BY <1>0, <1>1 DEF Apart
  <1>9. Whole'
    <2>1. stored'[k].optional = Optional(stored'[k].updated)
      BY <1>3, <1>5, DocumentsTyped
    <2>2. \A u \in Threads : pc[u] = "unset" => pc'[u] = "unset" /\ item'[u] = item[u]
      BY <1>0, <1>1 DEF TypeOK
    <2> QED
      BY <1>0, <1>1, <1>5, <2>1, <2>2 DEF Whole
  <1> QED
    BY <1>6, <1>7, <1>8, <1>9 DEF ImportInv

\* The steps that end a request: they do not touch the database.
LEMMA DoneStep ==
  ASSUME ImportInv, NEW t \in Threads, Done(t),
         UNCHANGED <<stored, all_objects>>, answered' \subseteq Items, faults' \in 0..MaxFaults,
         torn \subseteq torn', torn' \subseteq Keys,
         pc[t] = "unset" => Key(item[t]) \in torn'
  PROVE  ImportInv'
  <1>0. TypeOK /\ Apart /\ (\A u \in Threads : ThreadInv(u)) /\ Whole
    BY DEF ImportInv
  <1>1. TypeOK'
    BY <1>0 DEF Done, TypeOK
  <1>2. \A u \in Threads : u # t => StaysContested(u)
    BY DEF Done, StaysContested, Names
  <1>3. \A u \in Threads : ThreadInv(u)'
    <2>1. ThreadInv(t)'
      BY <1>0, IdleInv DEF Done, TypeOK
    <2>2. ASSUME NEW u \in Threads, u # t PROVE ThreadInv(u)'
      <3>1. Rests(u)
        BY <1>0, <2>2 DEF Done, TypeOK, Rests
      <3> QED
        BY <1>0, <1>2, <2>2, <3>1, StampsKeptKeepInv
    <2> QED
      BY <2>1, <2>2
  <1>4. Apart'
    <2>1. \A u \in Threads : items'[u] = IF u = t THEN {} ELSE items[u]
      BY <1>0 DEF Done, TypeOK
    <2> QED
      BY <1>0, <1>2, <2>1, ApartKept DEF StaysContested
  <1>5. Whole'
    <2>1. \A u \in Threads : u # t => pc'[u] = pc[u] /\ item'[u] = item[u]
      BY <1>0 DEF Done, TypeOK
    <2>2. \A k \in Keys : pc[t] = "unset" /\ item[t] = <<k, stored[k].updated>> => k \in torn'
      BY DEF Key
    <2> QED
      BY <1>0, <2>1, <2>2 DEF Whole
  <1> QED
    BY <1>1, <1>3, <1>4, <1>5 DEF ImportInv

LEMMA SetFieldsStep ==
  ASSUME ImportInv, NEW t \in Threads, SetFields(t)
  PROVE  ImportInv'
  <1>0. TypeOK /\ Apart /\ (\A u \in Threads : ThreadInv(u)) /\ Whole
    BY DEF ImportInv
  <1> DEFINE k == Key(item[t])
             v == Version(item[t])
             next == IF v \in Sparse THEN "unset" ELSE "append"
             d == [updated |-> v, optional |-> IF v \in Sparse THEN stored[k].optional ELSE v]
  <1>1. pc[t] = "set" /\ pc' = [pc EXCEPT ![t] = next] /\ torn' = torn \ {k}
        /\ UNCHANGED <<all_objects, items, todo, item, answered, contested, met, faults>>
    BY DEF SetFields, Goto
  <1>2. item[t] \in items[t] /\ item[t] \in todo[t] /\ item[t] \in Items
    BY <1>0, <1>1, ItemOfRequest
  <1>3. k \in Keys /\ v \in Versions /\ v \in Nat /\ item[t] = <<k, v>>
    BY <1>2, ItemsTyped
  <1>4. stored' = [stored EXCEPT ![k] = d]
    BY DEF SetFields
  <1>5. stored'[k] = d /\ \A j \in Keys : j # k => stored'[j] = stored[j]
    BY <1>0, <1>3, <1>4 DEF TypeOK
  <1>6. d \in Documents /\ d.updated = v /\ (stored[k].updated <= v \/ k \in contested)
        /\ (v \notin Sparse => d.optional = v)
    BY <1>0, <1>1, <1>3, UpdatedTyped DEF Documents, ThreadInv
  <1> HIDE DEF d
  <1>7. TypeOK'
    BY <1>0, <1>1, <1>3, <1>4, <1>6 DEF TypeOK, met
  <1>8. pc'[t] = next /\ item'[t] = item[t] /\ items'[t] = items[t] /\ todo'[t] = todo[t]
    BY <1>0, <1>1 DEF TypeOK
  <1>9. \A u \in Threads : ThreadInv(u)'
    <2>1. ThreadInv(t)'
      <3>1. \A i \in Items : Stored(i) =>
              stored'[Key(i)].updated >= Version(i) \/ Key(i) \in contested
        BY <1>0, <1>3, <1>5, <1>6, ItemsTyped, UpdatedTyped DEF Stored
      <3>2. items[t] \subseteq Items
        BY <1>0 DEF TypeOK
      <3>3. \A i \in items[t] \ todo[t] :
              stored'[Key(i)].updated >= Version(i) \/ Key(i) \in contested
        BY <1>0, <3>1, <3>2 DEF ThreadInv
      <3>4. stored'[k].updated = v /\ stored'[k].updated >= v
        BY <1>3, <1>5, <1>6
      <3> QED
        BY <1>0, <1>1, <1>2, <1>8, <3>3, <3>4 DEF ThreadInv, Stored
    <2>2. ASSUME NEW u \in Threads, u # t PROVE ThreadInv(u)'
      <3>1. Rests(u)
        BY <1>0, <1>1, <2>2 DEF TypeOK, Rests
      <3> QED
        BY <1>0, <1>1, <1>2, <1>5, <1>6, <2>2, <3>1, OthersKeepInv
    <2> QED
      BY <2>1, <2>2
  <1>10. Apart'
    BY <1>0, <1>1 DEF Apart
  <1>11. Whole'
    <2>1. v \in Sparse => pc'[t] = "unset" /\ item'[t] = <<k, stored'[k].updated>>
      BY <1>3, <1>5, <1>6, <1>8
    <2>2. v \notin Sparse => stored'[k].optional = Optional(stored'[k].updated)
      BY <1>5, <1>6 DEF Optional
    <2>3. \A u \in Threads : pc[u] = "unset" => pc'[u] = "unset" /\ item'[u] = item[u]
      BY <1>0, <1>1 DEF TypeOK
    <2> QED
      BY <1>0, <1>1, <1>5, <2>1, <2>2, <2>3 DEF Whole
  <1> QED
    BY <1>7, <1>9, <1>10, <1>11 DEF ImportInv

LEMMA UnsetFieldsStep ==
  ASSUME ImportInv, NEW t \in Threads, UnsetFields(t)
  PROVE  ImportInv'
  <1>0. TypeOK /\ Apart /\ (\A u \in Threads : ThreadInv(u)) /\ Whole
    BY DEF ImportInv
  <1> DEFINE k == Key(item[t])
             v == Version(item[t])
             d == [updated |-> stored[k].updated, optional |-> 0]
  <1>1. pc[t] = "unset" /\ pc' = [pc EXCEPT ![t] = "append"]
        /\ torn' = (IF stored[k].updated = v THEN torn \ {k} ELSE torn \cup {k})
        /\ UNCHANGED <<all_objects, items, todo, item, answered, contested, met, faults>>
    BY DEF UnsetFields, Goto
  <1>2. item[t] \in items[t] /\ item[t] \in todo[t] /\ item[t] \in Items
    BY <1>0, <1>1, ItemOfRequest
  <1>3. k \in Keys /\ v \in Versions /\ v \in Nat /\ item[t] = <<k, v>>
    BY <1>2, ItemsTyped
  <1>4. v \in Sparse /\ (stored[k].updated = v \/ k \in contested)
    BY <1>0, <1>1 DEF ThreadInv
  <1>5. stored' = [stored EXCEPT ![k] = d]
    BY DEF UnsetFields
  <1>6. stored'[k] = d /\ \A j \in Keys : j # k => stored'[j] = stored[j]
    BY <1>0, <1>3, <1>5 DEF TypeOK
  <1>7. d \in Documents /\ d.updated = stored[k].updated
        /\ (stored[k].updated = v => d.optional = Optional(d.updated))
    BY <1>0, <1>3, <1>4, UpdatedTyped DEF Documents, Optional
  <1> HIDE DEF d
  <1>8. TypeOK'
    BY <1>0, <1>1, <1>3, <1>5, <1>7 DEF TypeOK, met
  <1>9. \A j \in Keys : stored'[j].updated = stored[j].updated
    BY <1>6, <1>7
  <1>10. \A u \in Threads : ThreadInv(u)'
    <2>1. ThreadInv(t)'
      <3>1. items[t] \subseteq Items
        BY <1>0 DEF TypeOK
      <3>2. \A i \in items[t] \ todo[t] :
              stored'[Key(i)].updated >= Version(i) \/ Key(i) \in contested
        BY <1>0, <1>9, <3>1, ItemsTyped DEF ThreadInv, Stored
      <3>3. stored'[k].updated >= v \/ k \in contested
        BY <1>3, <1>4, <1>6, <1>7
      <3>4. pc'[t] = "append" /\ item'[t] = item[t] /\ items'[t] = items[t] /\ todo'[t] = todo[t]
        BY <1>0, <1>1 DEF TypeOK
      <3> QED
        BY <1>0, <1>1, <1>2, <3>2, <3>3, <3>4 DEF ThreadInv, Stored
    <2>2. ASSUME NEW u \in Threads, u # t PROVE ThreadInv(u)'
      <3>1. Rests(u) /\ StaysContested(u)
        BY <1>0, <1>1, <2>2 DEF TypeOK, Rests, StaysContested
      <3> QED
        BY <1>0, <1>9, <3>1, StampsKeptKeepInv
    <2> QED
      BY <2>1, <2>2
  <1>11. Apart'
    BY <1>0, <1>1 DEF Apart
  <1>12. Whole'
    <2>1. stored'[k].optional = Optional(stored'[k].updated) \/ k \in torn'
      BY <1>1, <1>6, <1>7
    <2>2. \A u \in Threads : pc[u] = "unset" /\ u # t => pc'[u] = "unset" /\ item'[u] = item[u]
      BY <1>0, <1>1 DEF TypeOK
    <2>3. \A j \in Keys : j # k => item[t] # <<j, stored[j].updated>>
      BY <1>3
    <2> QED
      BY <1>0, <1>1, <1>6, <2>1, <2>2, <2>3 DEF Whole
  <1> QED
    BY <1>8, <1>10, <1>11, <1>12 DEF ImportInv

LEMMA AppendStep ==
  ASSUME ImportInv, NEW t \in Threads, Append(t)
  PROVE  ImportInv'
  <1>0. TypeOK /\ Apart /\ (\A u \in Threads : ThreadInv(u)) /\ Whole
    BY DEF ImportInv
  <1>1. item[t] \in items[t] /\ item[t] \in Items /\ Stored(item[t])
    BY <1>0, ItemOfRequest DEF Append, Goto, ThreadInv
  <1>2. TypeOK'
    BY <1>0, <1>1, ThreadsAssumption DEF Append, Goto, TypeOK, met
  <1>3. \A u \in Threads : ThreadInv(u)'
    <2>1. ThreadInv(t)'
      <3>1. pc'[t] = "lookup" /\ items'[t] = items[t] /\ todo'[t] = todo[t] \ {item[t]}
            /\ stored' = stored /\ contested' = contested
        BY <1>0 DEF Append, Goto, TypeOK
      <3> QED
        BY <1>0, <1>1, <3>1 DEF ThreadInv, Stored
    <2>2. ASSUME NEW u \in Threads, u # t PROVE ThreadInv(u)'
      <3>1. Rests(u) /\ stored' = stored /\ StaysContested(u)
        BY <1>0, <2>2 DEF Append, Goto, TypeOK, Rests, StaysContested
      <3> QED
        BY <1>0, <3>1, StampsKeptKeepInv
    <2> QED
      BY <2>1, <2>2
  <1>4. Apart'
    BY <1>0 DEF Append, Apart
  <1>5. Whole'
    <2>1. /\ \A u \in Threads : pc[u] = "unset" => pc'[u] = "unset" /\ item'[u] = item[u]
          /\ stored' = stored /\ torn' = torn
      BY <1>0 DEF Append, Goto, TypeOK
    <2> QED
      BY <1>0, <2>1 DEF Whole
  <1> QED
    BY <1>2, <1>3, <1>4, <1>5 DEF ImportInv

-------------------------------------------------------------------------------
LEMMA NextImportInv == ImportInv /\ [Next]_vars => ImportInv'
  <1> SUFFICES ASSUME ImportInv, [Next]_vars PROVE ImportInv'
    OBVIOUS
  <1>0. TypeOK /\ \A t \in Threads : ThreadInv(t)
    BY DEF ImportInv
  <1>1. ASSUME NEW t \in Threads, NEW I \in Requests, Post(t, I) PROVE ImportInv'
    BY <1>1, PostStep
  <1>2. ASSUME NEW t \in Threads, CreateHook(t) PROVE ImportInv'
    <2>1. CASE InsertNotUnique(t)
      BY <1>0, <2>1, DoneStep DEF InsertNotUnique, TypeOK
    <2> QED
      BY <1>2, <2>1, LookupStep, InsertStep, SetFieldsStep, UnsetFieldsStep DEF CreateHook
  <1>3. ASSUME NEW t \in Threads, Append(t) PROVE ImportInv'
    BY <1>3, AppendStep
  <1>4. ASSUME NEW t \in Threads, Complete(t) PROVE ImportInv'
    BY <1>0, <1>4, DoneStep DEF Complete, TypeOK
  <1>5. ASSUME NEW t \in Threads, Interrupted(t) PROVE ImportInv'
    <2>1. faults' \in 0..MaxFaults /\ Done(t) /\ UNCHANGED <<stored, all_objects, answered>>
      BY <1>0, <1>5, BoundsAssumption DEF Interrupted, TypeOK
    <2>2. pc[t] = "unset" => Key(item[t]) \in Keys
      BY <1>0, ItemOfRequest, ItemsTyped
    <2>3. torn' = torn \cup {Key(item[u]) : u \in {w \in {t} : pc[w] = "unset"}}
      BY <1>5 DEF Interrupted
    <2>4. torn \subseteq torn' /\ torn' \subseteq Keys /\ (pc[t] = "unset" => Key(item[t]) \in torn')
      BY <1>0, <2>2, <2>3 DEF TypeOK
    <2>5. answered' \subseteq Items
      BY <1>0, <2>1 DEF TypeOK
    <2> QED
      BY <2>1, <2>4, <2>5, DoneStep
  <1>6. CASE UNCHANGED vars
    BY <1>6 DEF vars, locals, met, ImportInv, TypeOK, Apart, ThreadInv, Stored, Whole
  <1> QED
    BY <1>1, <1>2, <1>3, <1>4, <1>5, <1>6 DEF Next

\* The strengthening holds in every reachable state.
THEOREM Strengthening == Spec => []ImportInv
  <1> QED
    BY InitImportInv, NextImportInv, PTL DEF Spec

\* Every variable of the import keeps its type.
THEOREM TypeCorrect == Spec => []TypeOK
  <1>1. ImportInv => TypeOK
    BY DEF ImportInv
  <1> QED
    BY <1>1, Strengthening, PTL

\* No document is a mix of two versions, except between the two updates of
\* existing.save(), and where an interruption or another version has come between
\* the two, until it is written again.
THEOREM WholeHolds == Spec => []Whole
  <1>1. ImportInv => Whole
    BY DEF ImportInv
  <1> QED
    BY <1>1, Strengthening, PTL

-------------------------------------------------------------------------------
(* The import implements NewestWins. *)

LEMMA InitMaps == Init => Promise!Init
  BY DEF Init, Promise!Init, NoDocument

\* What the senders see.
current == [k \in Keys |-> stored[k].updated]
seen == <<current, items, contested, answered>>

\* A write of t, if it changes the stamp at all, moves it to a newer version.
LEMMA WriteMaps ==
  ASSUME NEW t \in Threads, NEW k \in Keys, NEW v \in Versions, <<k, v>> \in items[t],
         current[k] \in Nat, v \in Nat, current[k] <= v \/ k \in contested,
         current' = [current EXCEPT ![k] = v], UNCHANGED <<items, contested, answered>>
  PROVE  Promise!Next \/ UNCHANGED seen
  <1>1. CASE current[k] = v
    <2>1. [current EXCEPT ![k] = v] = current
      BY <1>1 DEF current
    <2> QED
      BY <2>1 DEF seen
  <1>2. CASE v > current[k] \/ k \in contested
    BY <1>2 DEF Promise!Next, Promise!Accept, current
  <1> QED
    BY <1>1, <1>2

\* The end of a request is one for its sender.
LEMMA EndMaps ==
  ASSUME NEW t \in Threads, Done(t)
  PROVE  Promise!End(t)
  BY DEF Done, Promise!End, Promise!Names, Names, Key

LEMMA StepMaps ==
  ImportInv /\ [Next]_vars => [Promise!Next]_seen
  <1> SUFFICES ASSUME ImportInv, [Next]_vars
               PROVE  Promise!Next \/ UNCHANGED seen
    OBVIOUS
  <1>0. TypeOK /\ \A t \in Threads : ThreadInv(t)
    BY DEF ImportInv
  <1>1. stored' = stored => current' = current
    BY DEF current
  <1>2. ASSUME NEW t \in Threads, Insert(t) \/ SetFields(t)
        PROVE  Promise!Next \/ UNCHANGED seen
    <2> DEFINE k == Key(item[t])
               v == Version(item[t])
    <2>1. pc[t] \in {"insert", "set"} /\ UNCHANGED <<items, contested, answered>>
      BY <1>2 DEF Insert, SetFields, Goto
    <2>2. item[t] \in Items /\ k \in Keys /\ v \in Versions /\ v \in Nat
          /\ <<k, v>> \in items[t]
      BY <1>0, <2>1, ItemOfRequest, ItemsTyped
    <2>3. stored[k].updated \in Nat /\ (stored[k].updated <= v \/ k \in contested)
      <3>1. stored[k].updated \in Nat
        BY <1>0, <2>2, UpdatedTyped
      <3>2. CASE Insert(t)
        BY <2>2, <3>2 DEF Insert, NoDocument
      <3>3. CASE SetFields(t)
        BY <1>0, <3>1, <3>3 DEF SetFields, Goto, ThreadInv
      <3> QED
        BY <1>2, <3>1, <3>2, <3>3
    <2>4. \A j \in Keys : stored'[j].updated = IF j = k THEN v ELSE stored[j].updated
      <3>1. CASE Insert(t)
        BY <1>0, <2>2, <3>1, DocumentsTyped DEF Insert, TypeOK
      <3>2. CASE SetFields(t)
        BY <1>0, <2>2, <3>2 DEF SetFields, TypeOK, Documents
      <3> QED
        BY <1>2, <3>1, <3>2
    <2>5. current' = [current EXCEPT ![k] = v]
      BY <2>4 DEF current
    <2>6. current[k] \in Nat /\ (current[k] <= v \/ k \in contested)
      BY <2>2, <2>3 DEF current
    <2> HIDE DEF k, v
    <2> QED
      BY <2>1, <2>2, <2>5, <2>6, WriteMaps
  <1>3. ASSUME NEW t \in Threads, UnsetFields(t)
        PROVE  UNCHANGED seen
    <2>1. \A j \in Keys : stored'[j].updated = stored[j].updated
      BY <1>0, <1>3 DEF UnsetFields, TypeOK, Documents
    <2> QED
      BY <1>3, <2>1 DEF current, seen, UnsetFields
  <1>4. ASSUME NEW t \in Threads, Complete(t)
        PROVE  Promise!Next
    <2>1. items[t] \subseteq Items /\ stored' = stored /\ answered' = items[t] /\ Done(t)
      BY <1>0, <1>4 DEF TypeOK, Complete
    <2>2. \A i \in items[t] : stored[i[1]].updated >= i[2] \/ i[1] \in contested
      BY <1>0, <1>4 DEF Complete, ThreadInv, Stored, Key, Version
    <2>3. \A i \in items[t] : current[i[1]] >= i[2] \/ i[1] \in contested
      BY <2>1, <2>2, ItemsTyped DEF current, Key
    <2> QED
      BY <1>1, <2>1, <2>3, EndMaps DEF Promise!Next, Promise!Answer, current
  <1>5. ASSUME NEW t \in Threads, InsertNotUnique(t) \/ Interrupted(t)
        PROVE  Promise!Next
    BY <1>1, <1>5, EndMaps
    DEF InsertNotUnique, Interrupted, Promise!Next, Promise!Fail, current
  <1>6. ASSUME NEW t \in Threads, NEW I \in Requests, Post(t, I)
        PROVE  Promise!Next
    <2>1. I \in SUBSET (Keys \X Versions)
      BY RequestsAssumption
    <2>2. /\ items[t] = {} /\ items' = [items EXCEPT ![t] = I]
          /\ answered' = {} /\ stored' = stored
          /\ contested' = contested \cup UNION {Clash(I, items[u]) : u \in Threads}
      BY <1>0, <1>6 DEF Post, Arrive, Goto, ThreadInv
    <2>3. \A u \in Threads : Clash(I, items[u]) = Promise!Clash(I, items[u])
      BY DEF Clash, Promise!Clash, Key, Version
    <2>4. {Clash(I, items[u]) : u \in Threads} = {Promise!Clash(I, items[u]) : u \in Threads}
      BY <2>3
    <2>5. Promise!Send(t, I)
      BY <1>1, <2>2, <2>4 DEF Promise!Send, current
    <2> QED
      BY <2>1, <2>5 DEF Promise!Next
  <1>7. ASSUME NEW t \in Threads, (\E i \in Items : Lookup(t, i)) \/ Append(t)
        PROVE  UNCHANGED seen
    BY <1>1, <1>7 DEF Lookup, Append, seen
  <1>8. CASE UNCHANGED vars
    BY <1>1, <1>8 DEF vars, locals, seen
  <1> QED
    BY <1>2, <1>3, <1>4, <1>5, <1>6, <1>7, <1>8 DEF Next, CreateHook

\* post_list keeps its promise to the senders: whatever the interleaving of the
\* requests and wherever one is interrupted, only newer versions get in, and an
\* answer means that the objects, or newer ones, are in the database; of objects of
\* which requests in progress have only one version.
THEOREM NewestWinsImplemented == Spec => ImplementsNewestWins
  <1>1. ImportInv /\ [Next]_vars =>
          [Promise!Next]_<<[k \in Keys |-> stored[k].updated], items, contested, answered>>
    BY StepMaps DEF current, seen
  <1> QED
    BY InitMaps, <1>1, Strengthening, PTL DEF Spec, ImplementsNewestWins, Promise!Spec

-------------------------------------------------------------------------------
(* What complete_hook gets. *)

LEMMA StepListInv == ImportInv /\ ListInv /\ [Next]_vars => ListInv'
  <1> SUFFICES ASSUME ImportInv, ListInv, [Next]_vars PROVE ListInv'
    OBVIOUS
  <1>0. TypeOK /\ \A t \in Threads : ThreadInv(t)
    BY DEF ImportInv
  <1>1. ASSUME NEW t \in Threads, NEW I \in Requests, Post(t, I)
        PROVE  ListInv'
    <2>1. /\ pc[t] = "idle" /\ pc' = [pc EXCEPT ![t] = "lookup"]
          /\ all_objects' = [all_objects EXCEPT ![ProcessOf[t]] = {}]
          /\ items' = [items EXCEPT ![t] = I] /\ todo' = [todo EXCEPT ![t] = I]
          /\ shared' = shared \cup Beside(t) \cup {u \in {t} : Beside(t) # {}}
          /\ overtaken' = overtaken \cup Beside(t)
      BY <1>1 DEF Post, Arrive, Goto
    <2>2. all_objects'[ProcessOf[t]] = {} /\ items'[t] \ todo'[t] = {}
      BY <1>0, <2>1, ThreadsAssumption DEF TypeOK
    <2>3. t \notin shared' => (Beside(t) = {})'
      BY <1>0, <2>1 DEF Beside, TypeOK
    <2>4. ASSUME NEW u \in Threads, u # t, pc'[u] # "idle",
                 ProcessOf[u] = ProcessOf[t]
          PROVE  u \in shared' /\ u \in overtaken'
      BY <1>0, <2>1, <2>4 DEF Beside, TypeOK
    <2>5. ASSUME NEW u \in Threads, u # t, pc'[u] # "idle",
                 ProcessOf[u] # ProcessOf[t]
          PROVE  /\ pc[u] # "idle" /\ items'[u] = items[u] /\ todo'[u] = todo[u]
                 /\ all_objects'[ProcessOf[u]] = all_objects[ProcessOf[u]]
                 /\ (u \in shared' <=> u \in shared) /\ (u \in overtaken' <=> u \in overtaken)
                 /\ Beside(u)' = Beside(u)
      BY <1>0, <2>1, <2>5, ThreadsAssumption DEF Beside, TypeOK
    <2> QED
      BY <2>2, <2>3, <2>4, <2>5 DEF ListInv
  <1>2. ASSUME NEW t \in Threads, Append(t)
        PROVE  ListInv'
    <2>1. /\ item[t] \in todo[t] /\ todo[t] \subseteq items[t] /\ pc[t] = "append"
          /\ pc' = [pc EXCEPT ![t] = "lookup"]
          /\ all_objects' = [all_objects EXCEPT ![ProcessOf[t]] = @ \cup {item[t]}]
          /\ todo' = [todo EXCEPT ![t] = @ \ {item[t]}]
          /\ UNCHANGED <<items, shared, overtaken>>
      BY <1>0, <1>2 DEF Append, Goto, ThreadInv, met
    <2>2. /\ all_objects'[ProcessOf[t]] = all_objects[ProcessOf[t]] \cup {item[t]}
          /\ todo'[t] = todo[t] \ {item[t]}
      BY <1>0, <2>1, ThreadsAssumption DEF TypeOK
    <2>3. \A u \in Threads : (pc'[u] # "idle" <=> pc[u] # "idle") /\ Beside(u)' = Beside(u)
      BY <1>0, <2>1 DEF Beside, TypeOK
    <2>4. ASSUME NEW u \in Threads, u # t
          PROVE  /\ todo'[u] = todo[u]
                 /\ all_objects[ProcessOf[u]] \subseteq all_objects'[ProcessOf[u]]
                 /\ pc[u] # "idle" /\ Beside(u) = {} =>
                      all_objects'[ProcessOf[u]] = all_objects[ProcessOf[u]]
      BY <1>0, <2>1, <2>4, ThreadsAssumption DEF Beside, TypeOK
    <2> QED
      BY <2>1, <2>2, <2>3, <2>4 DEF ListInv
  <1>3. ASSUME NEW t \in Threads, Complete(t) \/ InsertNotUnique(t) \/ Interrupted(t)
        PROVE  ListInv'
    <2>1. Done(t) /\ all_objects' = all_objects
      BY <1>3 DEF Complete, InsertNotUnique, Interrupted
    <2>2. pc'[t] = "idle"
      BY <1>0, <2>1 DEF Done, TypeOK
    <2>3. ASSUME NEW u \in Threads, u # t
          PROVE  /\ pc'[u] = pc[u] /\ items'[u] = items[u] /\ todo'[u] = todo[u]
                 /\ (u \in shared' <=> u \in shared) /\ (u \in overtaken' <=> u \in overtaken)
                 /\ Beside(u)' \subseteq Beside(u)
      BY <1>0, <2>1, <2>3 DEF Done, Beside, TypeOK
    <2> QED
      BY <2>1, <2>2, <2>3 DEF ListInv
  <1>4. ASSUME NEW t \in Threads,
               (\E i \in Items : Lookup(t, i)) \/ Insert(t) \/ SetFields(t) \/ UnsetFields(t)
        PROVE  ListInv'
    <2>1. /\ pc[t] # "idle" /\ pc'[t] # "idle" /\ \A u \in Threads \ {t} : pc'[u] = pc[u]
          /\ UNCHANGED <<all_objects, items, todo, shared, overtaken>>
      BY <1>0, <1>4 DEF Lookup, Insert, SetFields, UnsetFields, Goto, TypeOK, met
    <2>2. \A u \in Threads : Beside(u)' = Beside(u)
      BY <2>1 DEF Beside
    <2> QED
      BY <2>1, <2>2 DEF ListInv
  <1>5. CASE UNCHANGED vars
    BY <1>5 DEF vars, locals, met, ListInv, Beside
  <1> QED
    BY <1>1, <1>2, <1>3, <1>4, <1>5 DEF Next, CreateHook

\* Whatever threads of a process share the list of objects, and whatever was interrupted
\* before: complete_hook gets all objects of its own request unless another request has
\* begun since, and no others unless another one was in progress.
THEOREM HookSeesRequestHolds == Spec => HookSeesRequest
  <1>1. Init => ListInv
    BY DEF Init, ListInv
  <1>2. ListInv /\ [Next]_vars =>
          [\A t \in Threads : Complete(t) =>
             /\ t \notin overtaken => items[t] \subseteq all_objects[ProcessOf[t]]
             /\ t \notin shared => all_objects[ProcessOf[t]] \subseteq items[t]]_vars
    BY DEF ListInv, Complete
  <1> QED
    BY <1>1, <1>2, StepListInv, Strengthening, PTL DEF Spec, HookSeesRequest

=============================================================================
