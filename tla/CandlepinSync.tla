---------------------------- MODULE CandlepinSync -----------------------------
(***************************************************************************)
(* The synchronisation of pools and products with candlepin:               *)
(* common/candlepin.py with common/candlepin_client.py.                    *)
(*                                                                         *)
(* sync_all fetches the pools, stores those whose product id is not here   *)
(* yet, removes a pool of every product id candlepin does not list; then   *)
(* it does the same with the products.  It is started by hand, one at a    *)
(* time.  An exception anywhere ends it and leaves what it has done.       *)
(*                                                                         *)
(* Two lines of it do not do what their neighbours suggest, and are        *)
(* modelled as they are: update() without arguments raises in mongoengine  *)
(* 0.7 (there is nothing to update, the fields set by update_to are not    *)
(* looked at), and sync_products removes from Pool, not from Product.      *)
(*                                                                         *)
(* A document is its updated stamp, 0 when it is not there.  A product's   *)
(* key is its product id, a pool's its uuid; ProductOf gives the product.  *)
(*                                                                         *)
(* Names are chosen not to be those of IdentitySync and SyncRegistry, so   *)
(* that SyncProofs extends the three.                                      *)
(***************************************************************************)
EXTENDS Naturals

CONSTANTS
  Pools,        \* uuids of pools
  Products,     \* product ids
  ProductOf,    \* the product id of each pool
  MaxStamp,     \* bound: updated stamps
  MaxChanges,   \* bound: changes at candlepin
  MaxFailures   \* bound: failing calls, empty answers, a killed process

ASSUME ItemsAssumption == Pools \cap Products = {} /\ ProductOf \in [Pools -> Products]
ASSUME BoundsAssumption == MaxStamp \in Nat /\ MaxChanges \in Nat /\ MaxFailures \in Nat

VARIABLES
  candlepin,    \* candlepin's documents
  db,           \* ours
  at,           \* the step of sync_all
  col,          \* the collection it is at
  fetched,      \* the stamps candlepin sent, of both kinds
  todo,         \* fetched documents not looked at yet
  doomed,       \* to_delete_ids that are left
  changes, failures

progress == <<at, col, fetched, todo, doomed>>
mirror == <<candlepin, db, progress, changes, failures>>

Items == Pools \cup Products
Stamps == 0..MaxStamp
ProductId(i) == IF i \in Pools THEN ProductOf[i] ELSE i
Documents == IF col = "Pool" THEN Pools ELSE Products
IsHere(i) == db[i] > 0
Fetched(i) == fetched[i] > 0

MirrorTypes ==
  /\ candlepin \in [Items -> Stamps] /\ db \in [Items -> Stamps]
  /\ at \in {"idle", "fetch", "store", "delete"}
  /\ col \in {"Pool", "Product"}
  /\ fetched \in [Items -> Stamps]
  /\ todo \subseteq Documents /\ doomed \subseteq Products
  /\ changes \in 0..MaxChanges /\ failures \in 0..MaxFailures

MirrorInit ==
  /\ candlepin = [i \in Items |-> 0] /\ db = [i \in Items |-> 0]
  /\ at = "idle" /\ col = "Pool"
  /\ fetched = [i \in Items |-> 0]
  /\ todo = {} /\ doomed = {}
  /\ changes = 0 /\ failures = 0

Failure == failures < MaxFailures /\ failures' = failures + 1

-----------------------------------------------------------------------------

\* At candlepin a document is created, changed or removed.
CandlepinChanges(i, v) ==
  /\ changes < MaxChanges /\ changes' = changes + 1
  /\ v = 0 \/ v > candlepin[i]
  /\ candlepin' = [candlepin EXCEPT ![i] = v]
  /\ UNCHANGED <<db, progress, failures>>

\* sync_pools or sync_products begins.
Begin(collection) ==
  /\ at' = "fetch" /\ col' = collection
  /\ todo' = {} /\ doomed' = {}
  /\ UNCHANGED fetched

SyncAll == /\ at = "idle"
           /\ Begin("Pool")
           /\ UNCHANGED <<candlepin, db, changes, failures>>

\* The synchronisation ends, by an exception or because the process is killed.
Abort == /\ at' = "idle" /\ todo' = {} /\ doomed' = {}
         /\ UNCHANGED <<candlepin, col, fetched, changes>>

\* get_pools, get_products: the answer is translated as a whole before anything is
\* stored.  An empty body with status 200 is a list without items.
Fetch(answer) ==
  /\ at = "fetch" /\ at' = "store"
  /\ fetched' = [i \in Items |-> IF i \in Documents THEN answer[i] ELSE fetched[i]]
  /\ todo' = {i \in Documents : answer[i] > 0}
  /\ UNCHANGED <<candlepin, db, col, doomed, changes>>
FetchAll == Fetch(candlepin) /\ UNCHANGED failures
FetchNothing == Fetch([i \in Items |-> 0]) /\ Failure

\* A status other than 200, an item that cannot be translated, a lost connection; or
\* the process is killed.
SyncFails == /\ at # "idle"
             /\ Failure /\ Abort
             /\ UNCHANGED db

\* Mutant: a document is looked up by its own key
SameKey(i) == {d \in {i} : IsHere(d)}

\* The document .first() finds: of the same product id
SameProduct(i) == {d \in Documents : IsHere(d) /\ ProductId(d) = ProductId(i)}

Insert(i) == /\ at = "store" /\ i \in todo
             /\ SameProduct(i) = {}
             /\ db' = [db EXCEPT ![i] = fetched[i]]
             /\ todo' = todo \ {i}
             /\ UNCHANGED <<candlepin, at, col, fetched, doomed, changes, failures>>

\* What is here is as new: nothing to do.
Ignore(i) == /\ at = "store" /\ i \in todo
             /\ \E d \in SameProduct(i) : db[d] >= fetched[i]
             /\ todo' = todo \ {i}
             /\ UNCHANGED <<candlepin, db, at, col, fetched, doomed, changes, failures>>

\* Mutant: update() without arguments passes without effect
UpdateNothing(i) ==
  /\ at = "store" /\ i \in todo
  /\ \E d \in SameProduct(i) : db[d] < fetched[i]
  /\ todo' = todo \ {i}
  /\ UNCHANGED <<candlepin, db, at, col, fetched, doomed, changes, failures>>

\* What is here is older: update_to sets the fields and update() raises.
UpdateRaises(i) == /\ at = "store" /\ i \in todo
                   /\ \E d \in SameProduct(i) : db[d] < fetched[i]
                   /\ Abort
                   /\ UNCHANGED <<db, failures>>

\* db_product_ids - source_product_ids
UnlistedProducts ==
  {ProductId(d) : d \in {i \in Documents : IsHere(i)}} \ {ProductId(i) : i \in {j \in Documents : Fetched(j)}}

ListStale == /\ at = "store" /\ todo = {}
             /\ at' = "delete" /\ doomed' = UnlistedProducts
             /\ UNCHANGED <<candlepin, db, col, fetched, todo, changes, failures>>

\* The pool of a product id to delete, in sync_products, too.
PoolsOf(q) == {d \in Pools : IsHere(d) /\ ProductOf[d] = q}

Delete(q) == /\ at = "delete" /\ q \in doomed
             /\ \E d \in PoolsOf(q) : db' = [db EXCEPT ![d] = 0]
             /\ doomed' = doomed \ {q}
             /\ UNCHANGED <<candlepin, at, col, fetched, todo, changes, failures>>

\* Mutant: a product without a pool is tried again
DeleteAgain(q) == at = "delete" /\ q \in doomed /\ PoolsOf(q) = {} /\ UNCHANGED mirror

\* There is no such pool: first() is None, which has no delete().
DeleteRaises(q) == /\ at = "delete" /\ q \in doomed
                   /\ PoolsOf(q) = {}
                   /\ Abort
                   /\ UNCHANGED <<db, failures>>

\* sync_pools returns, and sync_products begins.
PoolsDone == /\ at = "delete" /\ doomed = {} /\ col = "Pool"
             /\ Begin("Product")
             /\ UNCHANGED <<candlepin, db, changes, failures>>

\* sync_all returns.
Complete == /\ at = "delete" /\ doomed = {} /\ col = "Product"
            /\ Abort
            /\ UNCHANGED <<db, failures>>

ItemStep == \E i \in Items : Insert(i) \/ Ignore(i) \/ UpdateRaises(i)
DeleteStep == \E q \in Products : Delete(q) \/ DeleteRaises(q)
MirrorStep == \/ FetchAll \/ ItemStep \/ ListStale \/ DeleteStep \/ PoolsDone \/ Complete

MirrorNext == \/ \E i \in Items, v \in Stamps : CandlepinChanges(i, v)
              \/ SyncAll \/ MirrorStep \/ FetchNothing \/ SyncFails

MirrorSpec == MirrorInit /\ [][MirrorNext]_mirror

\* A sync that was started goes on.  Nothing in the code starts one.
FairMirror == MirrorSpec /\ WF_mirror(MirrorStep)

-----------------------------------------------------------------------------
(* Properties *)

\* However many pools of a product candlepin has, one of them is here: the lookup by
\* product id keeps out the others, and removing the first of a product removes all.
OnePoolPerProduct ==
  \A d, e \in Pools : IsHere(d) /\ IsHere(e) /\ ProductOf[d] = ProductOf[e] => d = e

\* Of every document looked at so far there is one here as new, of the same product id.
LookedAt(documents) == {i \in documents : Fetched(i)} \ todo
StoredOf(documents) ==
  \A i \in LookedAt(documents) :
    \E d \in documents : ProductId(d) = ProductId(i) /\ IsHere(d) /\ db[d] >= fetched[i]

\* A pool here that candlepin did not send has its product id among those to delete.
UnsentAreDoomed ==
  \A d \in Pools : IsHere(d) => \/ ProductOf[d] \in doomed
                              \/ \E i \in Pools : Fetched(i) /\ ProductOf[i] = ProductOf[d]

\* A pool that was sent is here, as new, if its product was sent, too.
ListedPoolsAreHere ==
  \A i \in Pools : Fetched(i) /\ Fetched(ProductOf[i]) =>
    \E d \in Pools : ProductOf[d] = ProductOf[i] /\ IsHere(d) /\ db[d] >= fetched[i]

\* When sync_pools returns, the pools here are those of the products that candlepin listed
\* pools of, each as new as all of them: with an older one here it does not return.
PoolsMirrored == at = "fetch" /\ col = "Product" => StoredOf(Pools) /\ UnsentAreDoomed

\* What the steps of a sync have achieved at each point; the pools of sync_pools hold out
\* until sync_products deletes, which takes none of a product that was sent.
MirrorInv ==
  /\ MirrorTypes /\ OnePoolPerProduct /\ PoolsMirrored
  /\ at # "store" => todo = {}
  /\ at # "delete" => doomed = {}
  /\ at \in {"store", "delete"} => StoredOf(Documents)
  /\ at = "delete" => \A q \in doomed, i \in Documents : Fetched(i) => ProductId(i) # q
  /\ at = "delete" /\ col = "Pool" => UnsentAreDoomed
  /\ at = "store" /\ col = "Product" => StoredOf(Pools)
  /\ at = "delete" /\ col = "Product" => ListedPoolsAreHere

\* When sync_all returns, no product that was sent is missing or old, and no pool of a
\* product that was sent as well: what sync_products removes from Pool is never that of a
\* listed product.
NothingListedIsLost == [][Complete => StoredOf(Products) /\ ListedPoolsAreHere]_mirror

\* A sync ends, whatever it finds here and at candlepin.
SyncEnds == at # "idle" ~> at = "idle"

=============================================================================
