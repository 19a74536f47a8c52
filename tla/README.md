# A formal model of splice-server

splice-server hands out entitlement certificates to consumers (RHICs) and counts what they
use. It is a Django/tastypie web application under httpd, a celery worker with celery beat, and
a MongoDB database that all of them share. Servers form a tree: a splice server asks its parent
for consumer identities and sends product usage and descriptions of servers upwards.

What is hard about it is not computation. Eight web threads, five pool processes and the other
servers read a document, decide, and write it back, with no transaction around it; every process
may be killed at any step; every message may be lost or repeated. The models are about that.

All paths below are relative to `src/src/splice/` unless they begin with `src/`.

## 1. Inventory

| Part | State | Operations | Talks to |
|---|---|---|---|
| Single-instance tasks, `common/enforce_single_tasks.py` | `SingleTaskInfo`: one document per task, unique `task_id`, owner pid, creation time | `lock` (evict a dead owner, evict an expired entry, insert), `release`, the decorator `single_instance_task` | every periodic celery task |
| Product usage upload, `managers/upload.py` | `ProductUsage` with its `tracker` | fetch what the tracker does not name, POST, mark | `import_hook` of the next server |
| Product usage import, `entitlement/apis.py`, `common/api.py` | `ProductUsage` of the receiver, unique by instance, consumer, server and date | save each item, ignore duplicates, collect errors | the uploader |
| Server metadata upload, `managers/upload.py`, `get_this_server` | `SpliceServer`, `SpliceServerTransferInfo.last_timestamp` | describe this server at its first check-in; send what is newer than the last timestamp | object import of the next server |
| Object import, `common/api.py` `BaseResource` | any collection with an `updated` stamp; the list `all_objects` of the resource | POST of a list: look up, insert or overwrite if newer, ignore otherwise; `complete_hook` | other servers |
| RHIC lookup, `managers/identity_lookup.py`, `common/identity.py`, `entitlement/tasks.py` | `RHICLookupTask`: one record per uuid with task id, completion, cached status, two times | start a lookup from a check-in or a child's query, complete it, retry it, purge it | the parent server; celery |
| Identity sync, `common/identity.py` | `ConsumerIdentity` (no unique index), `IdentitySyncInfo.last_sync` | page through what the parent changed since the last sync, insert, update, save the time | the parent server |
| Sync thread registry, `common/identity.py` | `JOBS`, `JOB_LOCK` | start a sync thread unless one runs; remove the reference | identity sync |
| Check-in, `entitlement/checkin.py`, `EntitlementResource` | attributes of the shared resource object | identify, check access, ask candlepin for a certificate, record usage | RHIC lookup, usage upload, candlepin |
| Candlepin synchronisation, `common/candlepin.py` | `Pool`, `Product` | store the pools and products that candlepin lists and are not here, remove those it no longer lists | candlepin |
| Serialisation, `common/utils.py`, `common/fields.py`, `common/deserializer.py`, `common/connect.py` | none: dates, keys and bodies are converted on the way | read and write dates, clean keys for MongoDB, compress and decompress bodies | every resource and client |
| Configuration, `common/config.py`, both `settings.py` | `CONFIG`, the Django settings, the celery schedule | read the files at the first request, answer for options | everything |
| Start-up check, `entitlement/on_startup.py`, `entitlement/views.py`, `checkin_service/urls.py` | `SERVER_IDENTITY_VALID`, the URL table | check the identity of this server, choose between the API and a view that refuses everything | configuration, authentication |
| Authentication, `common/auth.py`, `common/certs.py` | the CA and the OAuth secret, read when the resources are imported | accept a client certificate or an OAuth signature | every resource |
| Middleware, `common/middleware.py` | `prof` and `tmpfile` of the one `ProfileMiddleware`, `sys.stdout` | profile a view, turn exceptions into responses | every request |

`PROJECT.json` lists the same parts with their sources, what is left out of each and why.
At this commit `checkin_service/urls.py` registers the resources of marketing product usage,
splice servers and ping; those of check-in, RHIC and product usage are written, tested and
commented out there. They are modelled as the code has them.

Hard behaviours, and where they are looked at:

- a lock whose holder dies, hangs, or loses its pid to another process: `SingleTask`;
- a batch sent, stored in part, acknowledged or not, marked in part: `UsageUpload`;
- a document compared with what was read some calls ago: `ResourceImport`, `IdentitySync`;
- a record deleted by one process while another still holds it: `RhicLookup`;
- jobs that run before their submitter has recorded them, jobs that never run: `RhicLookup`;
- pages fetched by offset from a list that changes: `IdentitySync`;
- data that arrives in another order than that of its stamps: `ServerMetadata`;
- objects shared by the threads of a process: `CheckIn`, `ResourceImport`, `WebService`;
- a registry that each thread cleans up for whoever is registered: `SyncRegistry`;
- a synchronisation that stops half way by the code's own exceptions: `CandlepinSync`;
- dates and keys that are written by one server and read by the next: `WireFormat`;
- imports that fail at the first request, are tried again by the next, and leave things
  behind: `WebService`.

## 2. Modules

| Module | What it is |
|---|---|
| `TaskMutex` | abstract specification: processes enter and leave one at a time |
| `SingleTask` | the MongoDB lock; implements `TaskMutex` |
| `SingleTaskProofs` | proofs about it |
| `UsageUpload` | usage upload and import for a list of servers |
| `UsageUploadProofs` | proofs about it |
| `NewestWins` | abstract specification: a store that moves only to newer versions, and answers only for what it holds, of every object that is not contested |
| `ResourceImport` | the POST of a list of objects; implements `NewestWins` |
| `ResourceImportProofs` | proofs about it |
| `ServerMetadata` | server descriptions along a chain of servers |
| `RhicLookup` | lookups of unknown RHICs |
| `RhicLookupProofs` | proofs about it |
| `CheckIn` | check-ins on the threads of one process |
| `CheckInProofs` | proofs about it |
| `IdentitySync` | the periodic sync of identities, next to a single lookup |
| `SyncRegistry` | the threads that `sync_from_rhic_serve` starts, and `JOBS` |
| `CandlepinSync` | pools and products against candlepin |
| `SyncProofs` | proofs about `IdentitySync`, `SyncRegistry` and `CandlepinSync` |
| `WireFormat` | dates, keys and bodies along a chain of servers |
| `ChainProofs` | proofs about `ServerMetadata` and `WireFormat` |
| `WebService` | the WSGI process: configuration, settings, start-up check, URL table, authentication, profiles |
| `WebServiceProofs` | proofs about it |
| `MC...` | instances for TLC: model values for servers and processes, symmetry |

The names in `SyncRegistry` and `CandlepinSync` (`RegistrySpec`, `MirrorSpec`, ...) and in `ServerMetadata` (`ChainSpec`, ...)
keep clear of those in the modules that are proved about next to them, so that one proof module extends several
components. `SyncProofs` and `ChainProofs` are such collections: nothing in them combines the components.

How they compose: `SingleTask` justifies that `UsageUpload` and `ServerMetadata` have one uploader
per server, that `RhicLookup` has one retry task and at most one running job, and that
`IdentitySync` has one job of each kind. `ResourceImport` justifies the atomic import of an object
in `ServerMetadata`. `WireFormat` justifies that the models above it take a stamp or a key that was sent
for the one that arrives. `WebService` says which requests reach the handlers of the other models at
all, and decides which periodic tasks are scheduled. A model uses what the other one shows, not its state, so each stays small
enough to be checked.

**SingleTask.** `entry` is the document of one task; `pc`, `seen` and `stamp` are the program
counter and the locals of `lock()` in each process; `runAge` is the time since the worker accepted the
task. Each MongoDB call of `lock()` is an action: `ReadEntry`, `CheckPid`, `EvictDead`, `RemoveExpired`,
`BuildEntry`, `Insert`; `Release` is the `finally` of the wrapper. Time is kept as ages, so that no
clock has to be bounded. `Crash`, `InsertAnswerLost`, `ReleaseFails` are faults; `LimitKill` is celery's
hard limit (`src/etc/splice/celery/celeryd`, 300 s, five processes); `Spawn`, `ForeignSpawn` and
`ForeignExit` give pids out again. `remove_expired` computes the threshold and sends the query in one
step: the threshold can only be too early. The processes are those of one host, as the pid check
of the code presumes. A skipped task logs with a malformed format (`enforce_single_tasks.py:141`),
which fails the task after its decision is taken and changes no state.

**UsageUpload.** `tracker` is the field of each record, `stored` what the receivers have, `requests` the
POSTs they work on. `Query`, `Send`, `Answer`, `Mark` are the uploader for server `srv`; `Import`,
`ImportFails`, `ImportAborts` are the receiver's `import_hook`; an abandoned request is still imported.
`exposed` remembers which records arrived with a tracker.

**ResourceImport.** A document is its stamp and the version its optional field comes from, which
is enough to see a mix of two versions. `Post` resets the list of the resource, `Lookup` is
`get_existing` and the comparison, `Insert`, `SetFields` and `UnsetFields` are the database calls of
`save()` in mongoengine 0.7, `Append` and `Complete` end an item and the request. Any requests may be under way at one
time, and `ProcessOf` says which threads share a resource object. Nothing in the code protects a document
between comparison and write, or the shared list, so what the properties promise stops where another request gets in the way.
History variables, set at the very step that breaks the promise, say where that is: `contested` are the keys that
requests under way have named in two versions, until these have ended; `torn` the keys whose document an
interruption or another write has left between its two updates; `shared` the requests that have met another one of their
process, and `overtaken` those after which another one has begun. `answered` is history, too.
`RulesResource` has a `create_hook` of its own that looks a document up by the version it
then compares, so it inserts and never updates; it is not modelled.

**ServerMetadata.** `stamp` is the `updated` field of each server's document, `docs` who has it, `last` the
timestamp saved per sender. `GetThisServer` takes the stamp up to one tick before the document is
there. `late` holds what a receiver still imports for a sender that has gone.

**RhicLookup.** `task[u]` is the record of a uuid; `proc[p]` the local state of each web thread, job and of
the retry task. The two ages of a record are booleans, old or not. `Read`/`Drop` are
`get_current_rhic_lookup_tasks`, `Save` and `SaveNotUnique` are `update_rhic_lookup_task`, `Complete` to
`DeleteTask` are `complete_rhic_lookup_task`, in two updates where mongoengine makes two. `held` says
whether the record a process has read is still the one in the database.

**CheckIn.** `current_request` and `last_entitlement_call_length` are the attributes of the one
`EntitlementResource`; `request`, `consumer` and `products` are what a thread has of its own. `Receive`
to `Answer` follow `put_detail`, `process_checkin` and `get_entitlement_certificate`; `post_detail` sets the
attribute once more before, which lets nothing happen that `put_detail` does not. `issued` is what
candlepin has handed out, `usage` the `ProductUsage` documents that `UsageUpload` sends. The sorting of
installed products is abstracted to the version of the identity it was done against.

**IdentitySync.** `listed` and `modified` are the parent: when it put a RHIC at the end of its list, and when the
RHIC changed last. A page is the RHICs with `offset` to `offset + limit - 1` others `Before` them; their order on the page
matters to nothing. `copies[u]` are our documents of a uuid (a sequence, since nothing keeps it to one), `sync` the
locals of the sync. There is one job of each kind, as `SingleTask` has it, and the two kinds work side by side, since
nothing in the code keeps them apart. Whether a change moves a RHIC to the end of the parent's list is left open, change by change. A
write may fail and the job go on, as `identity.py:151` and `identity.py:239` have it. Two history variables
say what may go wrong then. `raced` has the RHICs that both jobs were about to insert in one state. `astray` has those
lost in one of three ways: a write that failed, or that made a second document which no later read finds (`Settle`);
an older version written over a newer one by the job that had fetched it before (`Settle`); and a change that moves
a RHIC up the parent's list past the pages that the sync has fetched (`Passed`). A RHIC leaves `astray` when it changes or
its present version is stored.

**SyncRegistry.** All sync threads register under the name of their class, so `JOBS` is one entry.
`Call` to `Release` are the statements of `sync_from_rhic_serve` under `JOB_LOCK`, `Finish`, `RemoveReference`
and `ReleaseReference` those of the thread. The flag `finished` is set before the lock is taken, so a second
thread may be registered by the time the first deletes the entry; the history variable `forgotten` keeps
whom this happened to.

**CandlepinSync.** `db` and `candlepin` hold the `updated` stamp of each document, 0 when it is not there.
`FetchAll` translates the whole answer before anything is stored, `Insert`, `Ignore` and `UpdateRaises` are the
loop of `sync_pools` and `sync_products`, `ListStale`, `Delete` and `DeleteRaises` the removal. Two lines are modelled as they
are: `update()` after `update_to()` is called without arguments, which mongoengine 0.7 refuses, and
`sync_products` removes from `Pool`.

**WireFormat.** One document is followed, of either kind: a usage record, whose date is part of
its unique key, or an object, whose `updated` decides which version stays. A written date is
its form, its local time in parts of a millisecond, and its zone; `Converted`, `InMongo` and `Written` are
`convert_to_datetime`, the field and `MongoEncoder`. `Sanitized` gives the facts that may come of cleaning
the keys: of two keys that become one either may win, as the order of a dict has it. The author of a date has a clock
that shows the time of its own zone, its `home`, and writes that time with its zone or without; `meant`, kept for
comparison, is the instant its clock showed and whether the date tells it, which a date without a zone does for an author
at UTC only. The program never looks at `meant`. `Record` is the usage record of a check-in at a server: `checkin.py:189` takes
`datetime.now()`, the naive time of the server's own zone, which MongoDB takes as UTC.

**WebService.** `UseSettings`, `InitConfig`, `FinishSettings` and `FailSettings` are the import of the settings by the first
request, `UseUrls`, `StartupCheck`, `UrlTable` and `FailTable` that of `urls.py`, both under the interpreter's import lock. An
import that raises is undone; `CONFIG` and `SERVER_IDENTITY_VALID`, which live in modules already imported, stay.
`ProcessRequest`, `Resolve`, `ProcessResponse`, `Load`, `LoadFails` and `Restore` are `ProfileMiddleware` around a view; `Authenticate` is the
decision of `auth.py` with the CA that was read at the import. `Edit` and `Restart` are the operator. The
history variables `sound` and `held` say which identities have been valid, and which CAs configured,
since the process started; `disturbed` says that profiles have overlapped or one had no calls.

## 3. Runs

Passing runs:

| Run | Question | Bounds |
|---|---|---|
| `single_task` | Does at most one process run the task, whatever dies, expires or is left over, and is what each step of the lock relies on (`LockInv`) true? Does the lock implement `TaskMutex`? Does the task run again and again? | 2 processes on 3 pids, limit 2, expiry 3, 2 faults |
| `usage_upload` | Is a record marked as sent stored at the server? Does every record reach every server and get marked? | 3 records, 2 servers, batches of 2, 1 fault |
| `resource_import` | Do only newer versions get in and is what was answered stored, unless two versions are on their way? Are documents whole, unless left between two updates? Does the hook see the objects of its own request, unless another one reset the list? | 2 objects, 3 versions, one without the optional field, requests of up to 2, 2 threads of 1 process, 2 faults |
| `server_metadata_chain` | Is the last timestamp always that of a delivered document? Does a description reach the top unless overtaken? | 3 servers, 3 ticks, 2 faults |
| `rhic_lookup` | Is a completed record always a definitive 404? Is a deleted record never written back? Does no lookup stay in progress for ever? Does a RHIC the parent knows become known while its consumer keeps asking? | 1 uuid, 1 web thread, 2 jobs, the retry task, check-ins, 1 fault; a job waits for its submitter to save the record |
| `check_in` | Do usage and certificates agree? Does nobody known to be deleted get one? | 3 requests of 2 consumers, 2 threads of 1 process, identities in 2 versions, 2 faults |
| `identity_sync_complete` | With sync and single lookup side by side: is everything the parent knew at the time of the last sync here, or known to be astray? Is there one document of each, unless both jobs were about to insert? Does every change arrive? | 2 RHICs, pages of 1, 3 changes, each of which may reorder the list, 1 failure |
| `sync_registry` | When do two syncs run at once? Does every entry go, and the lock come free, whatever is raised? | 2 callers, 3 sync threads |
| `candlepin_sync` | What have `sync_pools` and `sync_products` achieved when they return? Do they end? | 2 pools of one product, a product without a pool, 2 stamps, 4 changes, 1 fault |
| `wire_format` | Is what is stored what its author meant, if the date tells it? Does the next server accept a forwarded document, and store the same? | 3 servers, 2 messages or check-ins by clocks of 2 zones, a millisecond of 2 ticks, 3 sets of fact keys, 1 fault |
| `web_service` | Does the service work only under an identity that was valid, for clients of a configured CA? Is every request answered, and a failed start made good? Are profiles kept apart? | 2 threads, 2 requests, 7 states of the disk, 1 edit, 1 restart |

The bounds are the smallest at which the cases of interest happen. Two processes race
on a lock, a third pid stands for a dead owner or a foreign process and can be given out again;
larger pools are covered by the proofs. Two servers tell trackers apart; three records with batches of
two make a second batch. Two threads of one process are what every race of an
import needs, on the database and on the shared list; three versions give an older and a newer one than the stored. A chain of three has a
server in the middle that both makes and forwards documents. Two RHICs in pages of one give
a first and a last page, and one RHIC that a change of the other can move; it is that small because liveness is checked on it:
the inductive `SyncInv` was checked, too, on three RHICs in pages of two (1.55 million states), and is proved for all. A lookup concerns one uuid and its records are independent of each other;
what jobs of different uuids share is only the lock, which `Skip` lets fail at any time. Three sync
threads are one that is done, one that is forgotten and one that runs with it. Two pools of one
product and a product without a pool are what the lookups by product id and the removal from the
wrong collection need. Of a chain of three servers the second both receives what was forwarded and forwards
it, and a millisecond of two ticks has a stamp that MongoDB rounds. The disks of `MCWebService` are one
that is right and one for each thing an import can fail for; two of them have a valid identity under
different CAs. A fault
budget of one lets a fault hit every step; where a second one may hit the recovery from the first
(`SingleTask`, `ServerMetadata`) there are two.

The run that shows where the code and what is written of it part:

| Run | Property | What happens |
|---|---|---|
| `check_in_own` | `CertificateIsOwn` | a thread reads the certificate of the request that arrived last, and asks for another consumer |

More limits that TLC shows when one constant of an instance is changed; no run keeps them:

| Module, constant | Property that fails | What happens |
|---|---|---|
| `SingleTask`, `RecycleRacingPids = TRUE` | `MutualExclusion` | a dead owner's pid is given to a new pool process between `check_pid` and `remove_by_owner`, and that process has taken the lock: its live lock is removed |
| `ServerMetadata`, none | `NothingSkipped` | a description that arrives after a newer one was uploaded is never uploaded |
| `RhicLookup`, `QuickWorkers = TRUE` | `FoundIsOver` | a job is done before its record is saved: the record stays in progress, until its timeout, for a RHIC that was found |
| `SyncRegistry`, none | `AtMostOneSync` | a finished thread deletes the entry of the one that was started since, and a third starts next to that |
| `UsageUpload`, `Addr <- OneHost` | `MarkedIsStored` | two servers on one host share a tracker entry: what went to one is never sent to the other |
| `UsageUpload`, none | `TrackerIsPrivate` | the tracker is removed from copies, and sent |
| `CheckIn`, none | `LengthIsOwn` | the header shows the duration of another check-in |
| `RhicLookup`, `Web = {w1, w2}` | `RequestsAreAnswered` | two first requests insert the same record; one ends with an error |
| `RhicLookup`, none | "no lookup for a known RHIC" | the retry task may list a record just before its job deletes it and find the job finished just after, again and again |

Six properties make exceptions for what the code does not prevent. Each exception is a history variable that is set at the step that
breaks the promise, not a restriction of what may happen: the steps are in the model, and without the exception TLC finds
them, in the instance of the run:

| Property, without | What happens |
|---|---|
| `ImplementsNewestWins`, `contested` | of two requests for an object the older version is saved last; and one is answered for a version that the other one writes over |
| `Whole`, `torn` | a request is interrupted after `$set` and before `$unset`, or the other one writes its version between the two |
| `HookSeesRequest`, `overtaken` | a second request resets the list while the first still fills it: the hook of the first misses objects |
| `HookSeesRequest`, `shared` | a second request appends its objects to the list: the hook of the first gets them, too |
| `OneIdentityUnlessRaced`, `raced` | sync and single lookup both find a RHIC unknown, and insert one document each |
| `NothingMissed`, `astray` (first part of `Settle`) | a bulk insert or a save fails, which is not noticed or only logged, and the time of the sync is saved |
| `NothingMissed`, `astray` (second part of `Settle`) | a single lookup saves older data over that of the sync, for good |
| `NothingMissed`, `astray` (`Passed`) | a RHIC that changes while the pages are fetched moves the others up, and one is skipped |
| `Faithful`, `meant.told` | a check-in at a server east of UTC: the record has the local time, stored as if it were UTC. `tests/productusage.py:152` says of an imported usage record "TODO: Fix timezone issue, we are doing something wrong and not handling timezones correctly", and compares no hours |

## 4. Assumptions

*Fairness.* Celery beat submits the periodic tasks for ever (`checkin_service/settings.py`,
`set_celerybeat_schedule`), so starting one is weakly fair; a process or thread that can take a
step takes it, unless it is killed, and kills are bounded. In `SingleTask` nothing makes the
decorated function end: it ends by the hard limit at the latest, and time passes. In `RhicLookup`
consumers keep checking in, which is what retries a lookup that ended without an answer. In
`IdentitySync` a step of the sync that can be taken is taken in the end, and so is one of a single lookup that has begun; the jobs
are separate processes, and neither waits for the other, so weak fairness of each is enough. In `SyncRegistry` a sync that runs ends,
and a thread that waits for `JOB_LOCK` gets it in the end (strong fairness): Python hands a lock on in no order,
but callers come seldom. In `CandlepinSync` a sync that was started goes on; that one is started nothing
says, since an operator does it. In `WebService` a thread that can take a step takes it.

*What the passing runs rest on.* `single_task`: `TimeLimit < SecondsExpire` (300 s against 30 and 60
minutes; `test_task` with 5 s is a sample), and pids are not reused within the two steps named
above. `usage_upload`: servers on hosts of their own. `rhic_lookup`: a job does not start before its
submitter has saved the record; the theorems about `RhicLookup` do without this. `identity_sync_complete`: the clocks of parent
and child agree, and no two RHICs have the same place in the parent's list. `wire_format`: dates are of two zones, UTC and one east
of it. `resource_import` assumes nothing of what overlaps: it has two threads of one process, and the shipped
`splice.conf` has eight. Where an assumption is a named constant, a run or
a table above says what happens without it.

*What is outside `src/`*, and is modelled from how the code uses it: mongoengine 0.7 saves a loaded document in
two updates and refuses `update()` without arguments; MongoDB keeps whole milliseconds; certutils' reading of a
certificate raises when the file is not there; Django 1.4 calls no response middleware when the settings
cannot be imported, and does when the URL table cannot; Python 2 holds one lock around an import and removes
a module whose import raised; a hotshot profile cannot be run again once closed, nor loaded without
calls in it; httpd restarts with nothing of the old process.

## 5. Proofs

TLAPS proves, for every value of the constants that satisfies the assumptions:

- `SingleTaskProofs`: type correctness; `MutualExclusion`, `RunnerOwnsEntry`, `EvictionJustified` when racing
  pids are not reused; the lock implements `TaskMutex`. The inductive invariant `LockInv` says that
  a runner owns an entry no older than its run, that an unsaved document is no older than the task
  that built it, and that a pid about to be evicted is not in the pool. The first two with
  `TimeLimit < SecondsExpire` make sure that `RemoveExpired` never hits a runner's entry, the third that
  `EvictDead` does not. Mutual exclusion follows since an entry has one owner; neither it nor
  ownership alone is inductive.
- `UsageUploadProofs`: type correctness and `MarkedIsStored` when the servers have addresses of their
  own. The inductive invariant `UploadInv` adds that what is about to be marked was acknowledged and is
  stored, that at most one request is live and the uploader waits for it, and that a live request
  without errors has stored what it need not look at any more.
- `ResourceImportProofs`: type correctness, `Whole`, and that the import implements `NewestWins`, for any requests on any
  threads. The inductive invariant `ImportInv` says what a thread relies on at each step, of every key that is not
  contested: what it has finished with is stored, and what it is about to write is not older than what is there. The other
  threads keep that true because of `Apart`: what they write under such a key is the same version. `Whole` is inductive with what
  `ImportInv` says of the threads, since the step that leaves a mix is the step that puts its key into `torn`.
  `HookSeesRequest` is proved for any layout of threads in processes, from `ListInv`: the list has what a request is through with until
  another one of its process begins, and nothing else until it meets another one. The second part needs to say that a
  request not in `shared` is alone in its process, or an `Append` of a neighbour would break it.
- `ChainProofs`, on `ServerMetadata`: type correctness and `LastIsDelivered`, for a chain of any length. The inductive
  invariant `ChainInv` adds that a document anyone has is one that its origin has, so that its stamp is
  fixed, that an uploader only sends what it has, and that what has been acknowledged is imported.
- `ChainProofs`, on `WireFormat`: all its properties, `Faithful`, `ForwardedIsAccepted`, `ForwardedIsSame` and `DeliveredIsThere`,
  for a chain of any length, any sets of fact keys, any length of a millisecond, any number of messages, check-ins and
  faults. The inductive invariant `WireInv` says what is true of every document and every message: a
  stored stamp is in whole milliseconds of UTC and the keys are clean; a message whose date tells what its author meant
  parses to that instant up to the rounding; a forwarded one is in the form of `str(datetime)`, whole and clean
  already. `Faithful` is not inductive, since it says nothing of the message that is about to be stored.
  The lemmas `Rounding` and `Cleaning` are the heart: rounding twice is rounding once, and clean facts have
  one way of being cleaned, to themselves, so that only the first server changes anything.
- `CheckInProofs`: type correctness, `UsageIsCertified`, `AnsweredIsCounted` and `NoneForTheDeleted`, for
  any number of threads, consumers and requests. The inductive invariant `CheckInInv` says what a thread
  that has come past each step holds of its own: the consumer it was admitted for, and the
  certificate that was issued to it. Of the attributes the threads share it says only that
  some request has set them, which is why these properties hold and `CertificateIsOwn` does not.
- `RhicLookupProofs`: type correctness, `CompletedIsNotFound` and `DeletedStaysDeleted`, for any uuids, threads, jobs and
  faults, whether or not jobs may overtake their submitters. The inductive invariant `LookupInv`
  says what each process knows of the record it deals with: whoever holds it as "there" deals with a
  uuid whose record exists, since a deletion tells every holder. Of all writes only the insert of `save()` then
  brings a record into being (`OnlySaveCreates`), and that one is fresh.
- `SyncProofs`, on `IdentitySync`: type correctness, `OneIdentityUnlessRaced` and `NothingMissed`, for any RHICs, page limit,
  changes and failures, with the two jobs side by side and whatever a change does to the parent's list. For the first the
  invariant `OneInv` weighs each RHIC: its documents and the jobs about to insert it are two together at most, and two only
  if it was raced. A job adds to the weight when it reads that there is no document, and only the other job's intention
  can make it two then; an insert turns an intention into a document and leaves the weight as it is. That a page holds a RHIC once, and that a document
  that was found stays, is what else it takes. For the second `SyncInv` adds that a
  job holds the parent's version or an older one of a RHIC that changed after the start, and `NothingSkipped`: what
  changed between the last sync and the start of this one is stored, or in hand, or comes after the offset
  on a page still to be fetched, or has gone astray. A change cannot take a RHIC out of the last kind but through `Passed`
  (`ChangeBrings`), and a write cannot leave another document to be found than the parent's but through `Settle` (`SettleStores`).
  That `last_sync` is the time of the start and not of the end is used where `SaveLastSync` turns `NothingSkipped` into
  `NothingMissed`. Without the exceptions TLC refutes both (table in section 3).
- `SyncProofs`, on `SyncRegistry`: `RegistryInv`, which is inductive as it stands, and `OneSyncUnlessForgotten`, for any
  number of callers and threads. A thread that runs and was not forgotten is the registered one, or that of a
  caller that is about to register it; that caller has the lock and is the only one past its acquire
  (`LockExcludes`), and it started the thread because the registered one had finished. So there is one.
- `SyncProofs`, on `CandlepinSync`: `OnePoolPerProduct`, `PoolsMirrored` and `NothingListedIsLost`, for any pools and products. The
  inductive invariant `MirrorInv` says at each step what has been stored of what was fetched, that nothing
  listed is to be deleted, and that what `sync_products` may still take from `Pool` is not of a product that was listed.
- `WebServiceProofs`: `ServiceInv`, which is inductive as it stands, `OnlyIfSound` and `OnlyTrusted`, for any states of
  the disk, any number of threads and edits. One thread imports at a time, so nobody sets the flag between the
  check and the table; what failed attempts leave behind is true of something the disk has held.
  And `ProfilesAreClean`, from `ProfileInv`: as long as nothing has disturbed the profiles, at most one request is
  profiled, the attributes of the middleware and the temporary file are that request's, and `sys.stdout` is
  replaced only while its thread prints. Without the first part a second request could take the attributes over.

The theorems need no assumptions on the constants beyond those named in the modules, which every run evaluates, and the
hypotheses named here, which only `SingleTaskProofs` (racing pids) and `UsageUploadProofs` (addresses) have. The table in section 3 shows what TLC
finds without each.

The inductive invariants `UploadInv`, `ImportInv`, `ChainInv`, `CheckInInv`, `LookupInv`, `OneInv`, `SyncInv`, `MirrorInv`, `WireInv`, `ProfileInv` and
the `TypeOK` of the modules were checked with TLC before they were proved, and are not in the runs any more, since
the theorems say more than a run would. Every safety property and both refinements that a passing run checks are theorems; checked by TLC
only are the liveness properties (`RunsAgain`, `EventuallyDelivered`, `LookupsEnd`, `FoundAtLast`, `DeliveredOrOvertaken`, `ChangesArrive`,
`EntriesGo`, `LockComesFree`, `SyncEnds`, `EveryRequestIsAnswered`, `HealsAtNextRequest`), which rest on fairness and `ENABLED` and are out of
reach of the prover.

## 6. State and next steps

Modelled: every component of the inventory, with what is left out of each listed in `PROJECT.json`.

What would come next:

1. Product usage and metadata in one uploader (`upload_product_usage_data`) over several tiers, on top of
   `UsageUpload` and `ServerMetadata`.
2. Theorems that connect components: what `SingleTask` proves as the reason for one uploader and one sync, what
   `ResourceImport` proves as the reason for the atomic import of `ServerMetadata`.
3. `RhicLookup` with two uuids and jobs that overtake their submitters in a run that checks liveness, too: at 1.6
   million states it is beyond the time a run is meant to take.

## 7. Not modelled, and why

The arithmetic of certificates, signatures and OAuth (decisions of libraries on one request; what is
decided with them is in `WebService`), the create hook of `RulesResource` (it never updates), the mapping of
exceptions to the wording of responses, logging (no state that is read), the contents of documents beyond what
tells versions apart, sample celery tasks, packaging, deployment and playpen scripts. mongoengine, MongoDB, celery,
candlepin and the parent server are modelled from how the code uses them and marked external in
`PROJECT.json`. Every hazard listed there names the properties that would catch it going wrong; where a property
holds only under an assumption or with an exception, the hazard's note says what TLC finds without it.
