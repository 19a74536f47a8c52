--------------------------- MODULE ResourceImport ---------------------------
(***************************************************************************)
(* The POST of a collection of objects to a BaseResource of common/api.py  *)
(* (SpliceServer, MarketingProductUsage, Pool and Product objects).        *)
(*                                                                         *)
(* Each item is looked up by its key: an unknown one is inserted, a newer  *)
(* one overwrites the document it was compared with, an older one is       *)
(* ignored.  mongoengine saves a loaded document in two updates: $set of   *)
(* the fields that have a value, $unset of those that have none.  Every    *)
(* database call is one step; the threads of the WSGI process work on      *)
(* other requests in between, and they share the resource object, so       *)
(* that its list all_objects is one for the whole process.                 *)
(***************************************************************************)
EXTENDS Naturals

CONSTANTS
  Keys,          \* what get_existing looks an object up by
  Versions,      \* "updated" of the objects
  Sparse,        \* versions without a value in an optional field
  Threads,       \* threads that serve requests
  Processes, ProcessOf,   \* and the process of each
  Requests,      \* bound: the sets of objects that are sent
  MaxFaults,     \* bound: killed processes, failed database calls
  None

ASSUME VersionsAssumption == Versions \subseteq Nat \ {0} /\ Sparse \subseteq Versions
ASSUME RequestsAssumption == Requests \subseteq SUBSET (Keys \X Versions)
ASSUME ThreadsAssumption == ProcessOf \in [Threads -> Processes]
ASSUME BoundsAssumption == MaxFaults \in Nat

VARIABLES
  stored,        \* stored[k]: the document of key k
  all_objects,   \* all_objects[p]: the attribute of the resource of process p
  pc,            \* pc[t]: the next step of thread t
  items,         \* items[t]: the objects of its request
  todo,          \* todo[t]: those it has not finished with
  item,          \* item[t]: the object create_hook works on
  \* History, which no step depends on:
  answered,      \* the objects of the request answered last, until another comes
  contested,     \* keys that requests in progress have named in two versions
  torn,          \* keys whose document was left between its two updates
  shared,        \* requests that met another one of their process
  overtaken,     \* those of them that the other one began after
  faults

locals == <<pc, items, todo, item>>
met == <<shared, overtaken>>
vars == <<stored, all_objects, locals, answered, contested, torn, met, faults>>

Items == Keys \X Versions
Key(i) == i[1]
Version(i) == i[2]

\* A document: its stamp, 0 when there is none, and the version its optional
\* field comes from.  Optional(v) is that of an object in itself.
Documents == [updated : Versions \cup {0}, optional : Versions \cup {0}]
NoDocument == [updated |-> 0, optional |-> 0]
Optional(v) == IF v \in Sparse THEN 0 ELSE v
Document(v) == [updated |-> v, optional |-> Optional(v)]

TypeOK ==
  /\ stored \in [Keys -> Documents]
  /\ all_objects \in [Processes -> SUBSET Items]
  /\ pc \in [Threads -> {"idle", "lookup", "insert", "set", "unset", "append"}]
  /\ items \in [Threads -> SUBSET Items]
  /\ todo \in [Threads -> SUBSET Items]
  /\ item \in [Threads -> Items \cup {None}]
  /\ answered \subseteq Items
  /\ contested \subseteq Keys /\ torn \subseteq Keys
  /\ shared \subseteq Threads /\ overtaken \subseteq Threads
  /\ faults \in 0..MaxFaults

Init ==
  /\ stored = [k \in Keys |-> NoDocument]
  /\ all_objects = [p \in Processes |-> {}]
  /\ pc = [t \in Threads |-> "idle"]
  /\ items = [t \in Threads |-> {}]
  /\ todo = [t \in Threads |-> {}]
  /\ item = [t \in Threads |-> None]
  /\ answered = {} /\ contested = {} /\ torn = {}
  /\ shared = {} /\ overtaken = {}
  /\ faults = 0

Goto(t, from, to) == pc[t] = from /\ pc' = [pc EXCEPT ![t] = to]

\* The keys that two sets of items name in different versions, or in any
Clash(I, J) == {k \in Keys : \E i \in I, j \in J :
                  Key(i) = k /\ Key(j) = k /\ Version(i) # Version(j)}
Names(I) == {Key(i) : i \in I}

\* The request of t is over.
Done(t) == /\ pc' = [pc EXCEPT ![t] = "idle"]
           /\ items' = [items EXCEPT ![t] = {}]
           /\ todo' = [todo EXCEPT ![t] = {}]
           /\ item' = [item EXCEPT ![t] = None]
           /\ contested' = contested \cap UNION {Names(items[u]) : u \in Threads \ {t}}
           /\ shared' = shared \ {t} /\ overtaken' = overtaken \ {t}

-------------------------------------------------------------------------------
\* The other requests in progress in the process of t
Beside(t) == {u \in Threads \ {t} : ProcessOf[u] = ProcessOf[t] /\ pc[u] # "idle"}

\* What t is sent, and what it meets
Arrive(t, I) ==
  /\ Goto(t, "idle", "lookup")
  /\ items' = [items EXCEPT ![t] = I] /\ todo' = [todo EXCEPT ![t] = I]
  /\ contested' = contested \cup UNION {Clash(I, items[u]) : u \in Threads}
  /\ shared' = shared \cup Beside(t) \cup {u \in {t} : Beside(t) # {}}
  /\ overtaken' = overtaken \cup Beside(t)
  /\ answered' = {}
  /\ UNCHANGED <<stored, item, torn, faults>>

\* Mutant: the list is not reset
PostKeepsList(t, I) == Arrive(t, I) /\ UNCHANGED all_objects

\* post_list: a request arrives, and the list of the resource is reset.
Post(t, I) == Arrive(t, I) /\ all_objects' = [all_objects EXCEPT ![ProcessOf[t]] = {}]

\* Mutant: whatever is there is overwritten
LookupOverwrites(t, i) ==
  /\ i \in todo[t]
  /\ Goto(t, "lookup", IF stored[Key(i)] = NoDocument THEN "insert" ELSE "set")
  /\ item' = [item EXCEPT ![t] = i]
  /\ UNCHANGED <<stored, all_objects, items, todo, answered, contested, torn, met, faults>>

\* create_hook: get_existing, and the comparison with what it found.  The order
\* of the items is the sender's choice.
Lookup(t, i) ==
  /\ i \in todo[t]
  /\ LET found == stored[Key(i)].updated IN
       Goto(t, "lookup", IF found = 0 THEN "insert"
                         ELSE IF Version(i) > found THEN "set" ELSE "append")
  /\ item' = [item EXCEPT ![t] = i]
  /\ UNCHANGED <<stored, all_objects, items, todo, answered, contested, torn, met, faults>>

\* create_hook: obj.save() of an unknown object inserts it
Insert(t) ==
  /\ Goto(t, "insert", "append")
  /\ stored[Key(item[t])] = NoDocument
  /\ stored' = [stored EXCEPT ![Key(item[t])] = Document(Version(item[t]))]
  /\ UNCHANGED <<all_objects, items, todo, item, answered, contested, torn, met, faults>>

\* create_hook: another thread has inserted it meanwhile.  NotUniqueError ends
\* the request with an error; what it has saved so far stays.
InsertNotUnique(t) ==
  /\ pc[t] = "insert"
  /\ stored[Key(item[t])] # NoDocument
  /\ Done(t)
  /\ UNCHANGED <<stored, all_objects, answered, torn, faults>>

\* create_hook: existing.save(), first the fields that have a value.  No test of
\* what is in the database by now.
SetFields(t) ==
  /\ LET k == Key(item[t])
         v == Version(item[t])
     IN /\ Goto(t, "set", IF v \in Sparse THEN "unset" ELSE "append")
        /\ stored' = [stored EXCEPT ![k] =
                       [updated |-> v, optional |-> IF v \in Sparse THEN @.optional ELSE v]]
        /\ torn' = torn \ {k}
  /\ UNCHANGED <<all_objects, items, todo, item, answered, contested, met, faults>>

\* Mutant: fields without a value are left as they are
UnsetNothing(t) ==
  /\ Goto(t, "unset", "append")
  /\ UNCHANGED <<stored, all_objects, items, todo, item, answered, contested, torn, met, faults>>

\* create_hook: existing.save(), then the fields that have none, of whatever version
\* the document is by now
UnsetFields(t) ==
  /\ Goto(t, "unset", "append")
  /\ LET k == Key(item[t])
         v == Version(item[t])
     IN /\ stored' = [stored EXCEPT ![k] = [updated |-> @.updated, optional |-> 0]]
        /\ torn' = IF stored[k].updated = v THEN torn \ {k} ELSE torn \cup {k}
  /\ UNCHANGED <<all_objects, items, todo, item, answered, contested, met, faults>>

\* obj_create: self.all_objects.append(obj), and put_list goes on
Append(t) ==
  /\ Goto(t, "append", "lookup")
  /\ all_objects' = [all_objects EXCEPT ![ProcessOf[t]] = @ \cup {item[t]}]
  /\ todo' = [todo EXCEPT ![t] = @ \ {item[t]}]
  /\ item' = [item EXCEPT ![t] = None]
  /\ UNCHANGED <<stored, items, answered, contested, torn, met, faults>>

\* post_list: complete_hook(self.all_objects), and the answer
Complete(t) ==
  /\ pc[t] = "lookup" /\ todo[t] = {}
  /\ answered' = items[t]
  /\ Done(t)
  /\ UNCHANGED <<stored, all_objects, torn, faults>>

\* The process is killed, one thread after the other, or the database fails, at any
\* step: the sender sees an error and what has been saved stays.
Interrupted(t) ==
  /\ pc[t] # "idle"
  /\ faults < MaxFaults /\ faults' = faults + 1
  /\ Done(t)
  /\ torn' = torn \cup {Key(item[u]) : u \in {w \in {t} : pc[w] = "unset"}}
  /\ UNCHANGED <<stored, all_objects, answered>>

CreateHook(t) == \/ \E i \in Items : Lookup(t, i)
                 \/ Insert(t) \/ InsertNotUnique(t) \/ SetFields(t) \/ UnsetFields(t)

Next == \E t \in Threads :
          \/ \E I \in Requests : Post(t, I)
          \/ CreateHook(t) \/ Append(t) \/ Complete(t) \/ Interrupted(t)

Spec == Init /\ [][Next]_vars

-------------------------------------------------------------------------------
\* Seen from the senders, the import is the abstract NewestWins: no request, in
\* whatever order versions arrive, moves an object back, and an answer means that
\* every object of the request, or a newer one, is in the database; except for
\* objects of which two versions are on their way at once.
Promise == INSTANCE NewestWins
  WITH Senders <- Threads, current <- [k \in Keys |-> stored[k].updated], underway <- items
ImplementsNewestWins == Promise!Spec

\* An object is never a mix of two versions, except while the thread that writes the
\* newer one is between its two updates, after it was interrupted there, or after
\* another version was written between the two; and then until it is written again.
\* Such a mix has the stamp of the newer version, so that sending it again does not
\* heal it.
Whole == \A k \in Keys :
  \/ stored[k] = NoDocument
  \/ stored[k].optional = Optional(stored[k].updated)
  \/ \E t \in Threads : pc[t] = "unset" /\ item[t] = <<k, stored[k].updated>>
  \/ k \in torn

\* The inductive strengthening of the two: what a thread has finished with is stored,
\* what it is about to write is not older than what is there, and no other thread
\* writes another version of it; all that of keys that are not contested.
Stored(i) == stored[Key(i)].updated >= Version(i) \/ Key(i) \in contested
ThreadInv(t) ==
  /\ pc[t] = "idle" => items[t] = {}
  /\ todo[t] \subseteq items[t]
  /\ \A i \in items[t] \ todo[t] : Stored(i)
  /\ pc[t] \in {"insert", "set", "unset", "append"} => item[t] \in todo[t]
  /\ pc[t] = "set" => \/ stored[Key(item[t])].updated <= Version(item[t])
                      \/ Key(item[t]) \in contested
  /\ pc[t] = "unset" => /\ Version(item[t]) \in Sparse
                        /\ \/ stored[Key(item[t])].updated = Version(item[t])
                           \/ Key(item[t]) \in contested
  /\ pc[t] = "append" => Stored(item[t])
Apart == \A t, u \in Threads : t # u =>
           \A i \in items[t], k \in items[u] :
             Key(i) = Key(k) => Version(i) = Version(k) \/ Key(i) \in contested
ImportInv == TypeOK /\ Apart /\ (\A t \in Threads : ThreadInv(t)) /\ Whole

\* complete_hook gets the objects of its own request, all of them and no others, of
\* earlier requests that ended half way either: BaseResource.all_objects is shared by
\* the threads of the process, and yet of the requests that it serves at one time
\* the one that began last loses no object, and one that met no other is given no
\* object of another.
HookSeesRequest ==
  [][\A t \in Threads : Complete(t) =>
       /\ t \notin overtaken => items[t] \subseteq all_objects[ProcessOf[t]]
       /\ t \notin shared => all_objects[ProcessOf[t]] \subseteq items[t]]_vars

\* Why: the list has what the request is through with, unless another one has reset
\* it since, and nothing else, unless another one was there.
ListInv ==
  \A t \in Threads : pc[t] # "idle" =>
    /\ t \notin overtaken => items[t] \ todo[t] \subseteq all_objects[ProcessOf[t]]
    /\ t \notin shared => /\ all_objects[ProcessOf[t]] \subseteq items[t] \ todo[t]
                          /\ Beside(t) = {}

=============================================================================
