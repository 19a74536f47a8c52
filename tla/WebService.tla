------------------------------ MODULE WebService -------------------------------
(***************************************************************************)
(* The WSGI process that serves the API: configuration, settings, start-up *)
(* check, URL table, authentication and the profile middleware.            *)
(* Sources: common/config.py, common/settings.py, common/certs.py,         *)
(* common/auth.py, common/middleware.py, checkin_service/settings.py,      *)
(* checkin_service/urls.py, entitlement/on_startup.py, entitlement/        *)
(* views.py and the class bodies of common/api.py.                         *)
(*                                                                         *)
(* Nothing is read when the process starts: the first request imports the  *)
(* settings, then the URL table, under the interpreter's import lock.  An  *)
(* import that raises is undone and the next request tries it again, but   *)
(* what it has left in other modules stays: CONFIG, SERVER_IDENTITY_VALID. *)
(* The operator may change the files on the disk at any time.              *)
(*                                                                         *)
(* An option is set or not.  "security" names the place of the identity's  *)
(* certificate, key and CA; "servers" is the list of [reporting].          *)
(***************************************************************************)
EXTENDS Integers, Sequences, FiniteSetsExt, SequencesExt

CONSTANTS
  Threads,        \* threads of the process
  CAs, Places,    \* certificate authorities; places of an identity on the disk
  DefaultPlace,   \* the place that the defaults of config.py name
  Disks,          \* what the operator may put on the disk
  MaxEdits, MaxRestarts, MaxRequests,   \* bounds
  None

ASSUME NoneAssumption == None \notin CAs \cup Threads \cup {"api", "halted", "oauth"}
ASSUME BoundsAssumption == MaxEdits \in Nat /\ MaxRestarts \in Nat /\ MaxRequests \in Nat

VARIABLES
  disk,           \* the configuration files, and the identity at each place
  CONFIG,         \* config.CONFIG: None, or the options
  settings,       \* are the settings imported?
  schedule,       \* CELERYBEAT_SCHEDULE
  SERVER_IDENTITY_VALID,
  urls,           \* urlpatterns: None, "api" or "halted"
  verification_ca, oauth,   \* of the resources' authentication
  lock,           \* the thread that holds the import lock
  pc, request,    \* of each thread: its next step, its request,
  prof, client,   \* does it ask for a profile, the credentials it has accepted,
  running,        \* the profile it runs a view under,
  old_stdout,     \* and its local variable in process_response
  self,           \* prof and tmpfile of the middleware object: whose profile
  called, closed, \* profiles that have recorded calls, and those that are closed
  tmpfiles,       \* the files that this process's profiles have on the disk
  stdout,         \* sys.stdout: None, or the thread whose buffer it is
  sound, held,    \* history of the process: the places whose identity has been
                  \* valid, and the CAs that have been at each place
  disturbed,      \* history: profiles have overlapped, or one has had no calls
  arrived, edits, restarts

started == <<CONFIG, settings, schedule, SERVER_IDENTITY_VALID, urls, verification_ca, oauth>>
locals == <<request, prof, client, running, old_stdout>>
profiler == <<self, called, closed, tmpfiles, stdout, disturbed>>
seen == <<sound, held>>
environment == <<disk, seen, edits, restarts>>
vars == <<environment, started, lock, pc, locals, profiler, arrived>>

Options == {"security", "port", "celery", "servers", "sync", "oauth", "key", "secret"}
Tasks == {"process_running_rhic_lookup_tasks", "sync_all_rhics", "upload_product_usage"}
Importing == {"config", "finish", "check", "table"}
Responding == {"urls", "check", "table", "view", "auth", "handle", "respond", "load", "restore"}

\* The requests, and their profiles; 0 is none.
Profiles == 0..MaxRequests

StartTypes ==
  /\ disk \in Disks
  /\ CONFIG # None => DOMAIN CONFIG \subseteq Options /\ CONFIG["security"] \in Places
  /\ schedule \subseteq Tasks /\ urls \in {None, "api", "halted"}
  /\ verification_ca \in CAs \cup {None}
  /\ sound \subseteq Places /\ held \in [Places -> SUBSET CAs]
  /\ edits \in 0..MaxEdits /\ restarts \in 0..MaxRestarts

RequestTypes ==
  /\ lock \in Threads \cup {None} /\ arrived \in Profiles
  /\ pc \in [Threads -> {"idle", "settings", "request"} \cup Importing \cup Responding]
  /\ request \in [Threads -> Profiles] /\ prof \in [Threads -> BOOLEAN]
  /\ client \in [Threads -> CAs \cup {None, "oauth"}]
  /\ running \in [Threads -> Profiles]
  /\ old_stdout \in [Threads -> Threads \cup {None}]

ProfileTypes ==
  /\ self \in Profiles /\ called \subseteq Profiles /\ closed \subseteq Profiles
  /\ tmpfiles \subseteq Profiles
  /\ stdout \in Threads \cup {None}

FlagTypes == /\ settings \in BOOLEAN /\ SERVER_IDENTITY_VALID \in BOOLEAN
             /\ oauth \in BOOLEAN /\ disturbed \in BOOLEAN

TypeOK == StartTypes /\ RequestTypes /\ ProfileTypes /\ FlagTypes

\* Mutant of Valid: the key is not checked
ValidSigned(i) == i.ca = i.signer

\* on_startup.check_valid_identity: the certificate is signed by the CA, and the
\* key is the certificate's.
Valid(i) == i.ca = i.signer /\ i.fits

\* history: what is on the disk now
SoundOn(d) == {p \in Places : d.identities[p].ca = d.identities[p].signer /\ d.identities[p].fits}
HeldOn(d) == [p \in Places |-> {d.identities[p].ca} \cap CAs]

Init ==
  /\ disk \in Disks
  /\ CONFIG = None /\ settings = FALSE /\ schedule = {} /\ SERVER_IDENTITY_VALID = FALSE
  /\ urls = None /\ verification_ca = None /\ oauth = FALSE
  /\ lock = None
  /\ pc = [t \in Threads |-> "idle"]
  /\ request = [t \in Threads |-> 0] /\ prof = [t \in Threads |-> FALSE]
  /\ client = [t \in Threads |-> None] /\ running = [t \in Threads |-> 0]
  /\ old_stdout = [t \in Threads |-> None]
  /\ self = 0 /\ called = {} /\ closed = {} /\ tmpfiles = {} /\ stdout = None
  /\ sound = SoundOn(disk) /\ held = HeldOn(disk) /\ disturbed = FALSE
  /\ arrived = 0 /\ edits = 0 /\ restarts = 0

Goto(t, from, to) == pc[t] = from /\ pc' = [pc EXCEPT ![t] = to]

\* The answer of t is sent.
Done(t) == /\ pc' = [pc EXCEPT ![t] = "idle"]
           /\ request' = [request EXCEPT ![t] = 0]
           /\ prof' = [prof EXCEPT ![t] = FALSE]
           /\ client' = [client EXCEPT ![t] = None]
           /\ running' = [running EXCEPT ![t] = 0]
           /\ old_stdout' = [old_stdout EXCEPT ![t] = None]

-------------------------------------------------------------------------------
\* The environment: the operator changes the files, or restarts the process and
\* what it was doing is lost.
Edit ==
  /\ edits < MaxEdits /\ edits' = edits + 1
  /\ disk' \in Disks \ {disk}
  /\ sound' = sound \cup SoundOn(disk')
  /\ held' = [p \in Places |-> held[p] \cup HeldOn(disk')[p]]
  /\ UNCHANGED <<restarts, started, lock, pc, locals, profiler, arrived>>

Restart ==
  /\ restarts < MaxRestarts /\ restarts' = restarts + 1
  /\ UNCHANGED <<disk, edits, arrived>>
  /\ CONFIG' = None /\ settings' = FALSE /\ schedule' = {} /\ SERVER_IDENTITY_VALID' = FALSE
  /\ urls' = None /\ verification_ca' = None /\ oauth' = FALSE
  /\ lock' = None
  /\ pc' = [t \in Threads |-> "idle"]
  /\ request' = [t \in Threads |-> 0] /\ prof' = [t \in Threads |-> FALSE]
  /\ client' = [t \in Threads |-> None] /\ running' = [t \in Threads |-> 0]
  /\ old_stdout' = [t \in Threads |-> None]
  /\ self' = 0 /\ called' = {} /\ closed' = {} /\ tmpfiles' = {} /\ stdout' = None
  /\ sound' = SoundOn(disk) /\ held' = HeldOn(disk) /\ disturbed' = FALSE

\* A request arrives on a thread, with or without ?prof.
Arrive(t, p) ==
  /\ arrived < MaxRequests /\ arrived' = arrived + 1
  /\ Goto(t, "idle", "settings")
  /\ request' = [request EXCEPT ![t] = arrived']
  /\ prof' = [prof EXCEPT ![t] = p]
  /\ UNCHANGED <<environment, started, lock, client, running, old_stdout, profiler>>

-------------------------------------------------------------------------------
\* The settings are used: they are imported, or t imports them.
UseSettings(t) ==
  /\ \/ settings /\ Goto(t, "settings", "request") /\ UNCHANGED lock
     \/ ~settings /\ lock = None /\ lock' = t /\ Goto(t, "settings", "config")
  /\ UNCHANGED <<environment, started, locals, profiler, arrived>>

\* config.py, defaults: none for the database's port and for celery, and none for
\* oauth_secret, which the table calls oauth_secert.
Defaults == [o \in {"security", "sync", "oauth", "key"} |->
               CASE o = "security" -> DefaultPlace [] o = "sync" -> "on" [] OTHER -> "off"]

\* CONFIG after the first n files: the last one that sets an option counts.  Of a
\* broken file these are the options that parse.
Reading(files, n) ==
  LET Setting(o) == {i \in 1..n : o \in DOMAIN files[i].set}
  IN  [o \in DOMAIN Defaults \cup UNION {DOMAIN files[i].set : i \in 1..n} |->
         IF Setting(o) = {} THEN Defaults[o] ELSE files[Max(Setting(o))].set[o]]

\* The main file, then those of config_dir in the order os.listdir gives
Readings(d) == {<<d.main>> \o s : s \in SetToSeqs(d.confd)}
Broken(files) == {i \in 1..Len(files) : files[i].broken}

\* What the disk says is about the options and the places of this model.
ASSUME DisksAssumption ==
  \A d \in Disks : \A files \in Readings(d) : \A n \in Broken(files) \cup {Len(files)} :
    /\ Reading(files, n) # None
    /\ DOMAIN Reading(files, n) \subseteq Options
    /\ Reading(files, n)["security"] \in Places

\* init: CONFIG is there before the files are read, and stays when one of them
\* does not parse; a second call returns what is there.
InitConfig(t) ==
  /\ pc[t] = "config"
  /\ \/ /\ CONFIG # None
        /\ Goto(t, "config", "finish") /\ UNCHANGED <<CONFIG, lock, locals>>
     \/ /\ CONFIG = None
        /\ \E files \in Readings(disk) :
             \/ /\ Broken(files) = {}
                /\ CONFIG' = Reading(files, Len(files))
                /\ Goto(t, "config", "finish") /\ UNCHANGED <<lock, locals>>
             \/ \E n \in Broken(files) :
                  /\ \A i \in Broken(files) : n <= i
                  /\ CONFIG' = Reading(files, n)
                  /\ lock' = None /\ Done(t)
  /\ UNCHANGED <<environment, settings, schedule, SERVER_IDENTITY_VALID, urls,
                 verification_ca, oauth, profiler, arrived>>

\* the identity that is configured, as it is on the disk now
Identity == disk.identities[CONFIG["security"]]

\* set_celerybeat_schedule
Schedule == {"process_running_rhic_lookup_tasks"}
  \cup {x \in {"sync_all_rhics"} : CONFIG["sync"] = "on"}
  \cup {x \in {"upload_product_usage"} : "servers" \in DOMAIN CONFIG}

\* get_reporting_config_info: three fields, the second a number
Malformed == "servers" \in DOMAIN CONFIG /\ CONFIG["servers"] = "malformed"

\* settings: the rest of the settings can be evaluated.
Complete == {"port", "celery"} \subseteq DOMAIN CONFIG
CeleryOn == Complete /\ CONFIG["celery"] = "on"
SettingsRaise == \/ ~Complete
                 \/ CeleryOn /\ Identity.ca = "unreadable"
                 \/ CeleryOn /\ Valid(Identity) /\ Malformed

\* settings: with celery, the schedule is set up if the identity is valid.
FinishSettings(t) ==
  /\ Goto(t, "finish", "request")
  /\ ~SettingsRaise
  /\ settings' = TRUE /\ lock' = None
  /\ SERVER_IDENTITY_VALID' = (SERVER_IDENTITY_VALID \/ (CeleryOn /\ Valid(Identity)))
  /\ schedule' = IF CeleryOn /\ Valid(Identity) THEN Schedule ELSE {}
  /\ UNCHANGED <<environment, CONFIG, urls, verification_ca, oauth, locals, profiler, arrived>>

\* Mutant: the import lock is kept
FailKeepsLock(t) ==
  /\ pc[t] = "finish" /\ SettingsRaise
  /\ SERVER_IDENTITY_VALID' = (SERVER_IDENTITY_VALID \/ (CeleryOn /\ Valid(Identity)))
  /\ Done(t)
  /\ UNCHANGED <<environment, CONFIG, settings, schedule, urls, verification_ca, oauth,
                 lock, profiler, arrived>>

\* settings raise: the request fails before any middleware, and the module goes.
FailSettings(t) ==
  /\ pc[t] = "finish" /\ SettingsRaise
  /\ SERVER_IDENTITY_VALID' = (SERVER_IDENTITY_VALID \/ (CeleryOn /\ Valid(Identity)))
  /\ lock' = None /\ Done(t)
  /\ UNCHANGED <<environment, CONFIG, settings, schedule, urls, verification_ca, oauth,
                 profiler, arrived>>

-------------------------------------------------------------------------------
Overlaps(t) == \E u \in Threads \ {t} : prof[u] /\ pc[u] \in Responding

\* ProfileMiddleware.process_request; DEBUG is on.
ProcessRequest(t) ==
  /\ Goto(t, "request", "urls")
  /\ \/ ~prof[t] /\ UNCHANGED profiler
     \/ /\ prof[t]
        /\ self' = request[t]
        /\ tmpfiles' = tmpfiles \cup {request[t]}
        /\ disturbed' = (disturbed \/ Overlaps(t))
        /\ UNCHANGED <<called, closed, stdout>>
  /\ UNCHANGED <<environment, started, lock, locals, arrived>>

\* The URL table is used: it is imported, or t imports it.
UseUrls(t) ==
  /\ \/ urls # None /\ Goto(t, "urls", "view") /\ UNCHANGED lock
     \/ urls = None /\ lock = None /\ lock' = t /\ Goto(t, "urls", "check")
  /\ UNCHANGED <<environment, started, locals, profiler, arrived>>

\* on_startup.run: what is missing is logged; a file that cannot be opened raises.
StartupCheck(t) ==
  /\ pc[t] = "check"
  /\ \/ Identity.ca # "unreadable" /\ Goto(t, "check", "table") /\ UNCHANGED lock
     \/ Identity.ca = "unreadable" /\ lock' = None /\ Goto(t, "check", "respond")
  /\ SERVER_IDENTITY_VALID' = (SERVER_IDENTITY_VALID \/ Valid(Identity))
  /\ UNCHANGED <<environment, CONFIG, settings, schedule, urls, verification_ca, oauth,
                 locals, profiler, arrived>>

\* The resources need the CA, and get_oauth_params the secret, OAuth or not.
TableRaises == Identity.ca \notin CAs \/ "secret" \notin DOMAIN CONFIG

\* Mutant: the flag is not asked
UrlTableUnchecked(t) ==
  /\ Goto(t, "table", "view")
  /\ ~TableRaises
  /\ lock' = None
  /\ verification_ca' = Identity.ca
  /\ oauth' = (CONFIG["oauth"] = "on" /\ CONFIG["key"] = "on" /\ CONFIG["secret"] = "on")
  /\ urls' = "api"
  /\ UNCHANGED <<environment, CONFIG, settings, schedule, SERVER_IDENTITY_VALID, locals,
                 profiler, arrived>>

\* urls: the API, or bad_identity_certificate in its place
UrlTable(t) ==
  /\ Goto(t, "table", "view")
  /\ ~TableRaises
  /\ lock' = None
  /\ verification_ca' = Identity.ca
  /\ oauth' = (CONFIG["oauth"] = "on" /\ CONFIG["key"] = "on" /\ CONFIG["secret"] = "on")
  /\ urls' = IF SERVER_IDENTITY_VALID THEN "api" ELSE "halted"
  /\ UNCHANGED <<environment, CONFIG, settings, schedule, SERVER_IDENTITY_VALID, locals,
                 profiler, arrived>>

\* Mutant: the import lock is kept
FailKeepsTable(t) ==
  /\ Goto(t, "table", "respond")
  /\ TableRaises
  /\ UNCHANGED <<environment, started, lock, locals, profiler, arrived>>

\* The resources raise: the request is answered with 500, and the modules go.
FailTable(t) ==
  /\ Goto(t, "table", "respond")
  /\ TableRaises
  /\ lock' = None
  /\ UNCHANGED <<environment, started, locals, profiler, arrived>>

-------------------------------------------------------------------------------
\* process_view: a profiled view runs in self.prof, or the profiler raises because
\* that is closed or at work.
Starts(t) == prof[t] => self \notin closed /\ \A u \in Threads : running[u] # self

Resolve(t) ==
  /\ urls = "api" /\ Starts(t)
  /\ Goto(t, "view", "auth")
  /\ running' = [running EXCEPT ![t] = IF prof[t] THEN self ELSE 0]
  /\ UNCHANGED <<environment, started, lock, request, prof, client, old_stdout, profiler, arrived>>

\* views.bad_identity_certificate: 500
Halted(t) ==
  /\ urls = "halted" /\ Starts(t)
  /\ Goto(t, "view", "respond")
  /\ called' = called \cup (IF prof[t] THEN {self} ELSE {})
  /\ UNCHANGED <<environment, started, lock, locals, self, closed, tmpfiles, stdout, disturbed, arrived>>

\* No URL of the API matches (404), or the profiler raises (500): no view runs.
NoView(t) ==
  /\ urls = "api" \/ ~Starts(t)
  /\ Goto(t, "view", "respond")
  /\ disturbed' = (disturbed \/ prof[t])
  /\ UNCHANGED <<environment, started, lock, locals, self, called, closed, tmpfiles, stdout, arrived>>

\* Mutant: OAuth is always a backend
AcceptedOAuth(resource) ==
  {c \in CAs : c = verification_ca} \cup {c \in {"oauth"} : resource = "ping"}

\* SpliceAuth of the ping, X509CertificateAuthentication of the others: the
\* certificate is signed by the CA, or the request with the secret.
Accepted(resource) ==
  {c \in CAs : c = verification_ca} \cup {c \in {"oauth"} : resource = "ping" /\ oauth}

Authenticate(t) ==
  /\ Goto(t, "auth", "handle")
  /\ \E resource \in {"ping", "import"}, c \in CAs \cup {"oauth"} :
       c \in Accepted(resource) /\ client' = [client EXCEPT ![t] = c]
  /\ UNCHANGED <<environment, started, lock, request, prof, running, old_stdout, profiler, arrived>>

\* The view returns or raises (401, what the handler answers, or 500), and runcall
\* stops the profile.
Return(t) ==
  /\ pc[t] \in {"auth", "handle"}
  /\ pc' = [pc EXCEPT ![t] = "respond"]
  /\ called' = called \cup ({running[t]} \ {0})
  /\ running' = [running EXCEPT ![t] = 0]
  /\ UNCHANGED <<environment, started, lock, request, prof, client, old_stdout, self, closed,
                 tmpfiles, stdout, disturbed, arrived>>

\* process_response: nothing to do, or the profile is closed and stdout redirected.
ProcessResponse(t) ==
  /\ pc[t] = "respond"
  /\ \/ ~prof[t] /\ Done(t) /\ UNCHANGED profiler
     \/ /\ prof[t]
        /\ Goto(t, "respond", "load")
        /\ closed' = closed \cup {self}
        /\ old_stdout' = [old_stdout EXCEPT ![t] = stdout]
        /\ stdout' = t
        /\ UNCHANGED <<request, prof, client, running, self, called, tmpfiles, disturbed>>
  /\ UNCHANGED <<environment, started, lock, arrived>>

\* hotshot.stats.load: there are statistics in the file.
Load(t) ==
  /\ self \in tmpfiles \cap (called \cup {running[u] : u \in Threads})
  /\ Goto(t, "load", "restore")
  /\ UNCHANGED <<environment, started, lock, locals, profiler, arrived>>

\* It raises: the file is gone, or has no calls in it.  stdout stays as it is.
LoadFails(t) ==
  /\ pc[t] = "load"
  /\ self \notin tmpfiles \cap called
  /\ disturbed' = TRUE
  /\ Done(t)
  /\ UNCHANGED <<environment, started, lock, self, called, closed, tmpfiles, stdout, arrived>>

\* Mutant: stdout is restored after the file is deleted, which may raise
RestoreNothing(t) ==
  /\ pc[t] = "restore"
  /\ tmpfiles' = tmpfiles \ {self}
  /\ Done(t)
  /\ UNCHANGED <<environment, started, lock, self, called, closed, stdout, disturbed, arrived>>

\* process_response: stdout is restored, the file deleted, the answer sent.
Restore(t) ==
  /\ pc[t] = "restore"
  /\ stdout' = old_stdout[t]
  /\ tmpfiles' = tmpfiles \ {self}
  /\ Done(t)
  /\ UNCHANGED <<environment, started, lock, self, called, closed, disturbed, arrived>>

-------------------------------------------------------------------------------
Step(t) ==
  \/ UseSettings(t) \/ InitConfig(t) \/ FinishSettings(t) \/ FailSettings(t)
  \/ ProcessRequest(t) \/ UseUrls(t) \/ StartupCheck(t) \/ UrlTable(t) \/ FailTable(t)
  \/ Resolve(t) \/ Halted(t) \/ NoView(t) \/ Authenticate(t) \/ Return(t)
  \/ ProcessResponse(t) \/ Load(t) \/ LoadFails(t) \/ Restore(t)

Next ==
  \/ Edit \/ Restart
  \/ \E t \in Threads : (\E p \in BOOLEAN : Arrive(t, p)) \/ Step(t)

Spec == Init /\ [][Next]_vars
FairSpec == Spec /\ \A t \in Threads : WF_vars(Step(t))
-------------------------------------------------------------------------------
\* The service works and tasks are scheduled only under an identity that has been
\* valid while this process ran: the flag is kept over failed imports, and the
\* files may have changed between the check and what relies on it (on_startup.py,
\* urls.py, settings.py).
OnlyIfSound ==
  urls = "api" \/ schedule # {} => CONFIG # None /\ CONFIG["security"] \in sound

\* A handler works for a client whose certificate is signed by a CA that has been
\* the configured one since the process started, or, with OAuth switched on, that
\* knows the secret (auth.py, api.py:47,72).
OnlyTrusted ==
  \A t \in Threads : pc[t] = "handle" =>
    \/ client[t] \in CAs /\ client[t] \in held[CONFIG["security"]]
    \/ client[t] = "oauth" /\ CONFIG["oauth"] = "on"

\* Both hold because of what the attempts to start leave behind: one thread imports
\* at a time; CONFIG, once there, stays; the flag is set for an identity that was
\* valid on the disk then; and what the resources have read is from that place.
ServiceInv ==
  /\ TypeOK
  /\ SoundOn(disk) \subseteq sound
  /\ \A p \in Places : HeldOn(disk)[p] \subseteq held[p]
  /\ \A t \in Threads :
       /\ pc[t] \in Importing => lock = t
       /\ pc[t] \notin {"idle", "settings", "config"} => CONFIG # None
       /\ pc[t] = "handle" => client[t] = verification_ca \/ (client[t] = "oauth" /\ oauth)
       /\ pc[t] = "handle" => client[t] # None
       /\ pc[t] \in {"check", "table"} => urls = None
       /\ pc[t] \in {"view", "auth", "handle"} => urls # None
  /\ settings => CONFIG # None
  /\ SERVER_IDENTITY_VALID => CONFIG # None /\ CONFIG["security"] \in sound
  /\ urls = "api" \/ schedule # {} => SERVER_IDENTITY_VALID
  /\ verification_ca # None => CONFIG # None /\ verification_ca \in held[CONFIG["security"]]
  /\ oauth => CONFIG # None /\ CONFIG["oauth"] = "on"

\* As long as profiled requests come one at a time, and each of them reaches a view,
\* each sees its own profile, stdout is redirected only while its statistics are
\* printed, and no temporary file stays (ProfileMiddleware, which all threads share).
ProfilesAreClean ==
  ~disturbed =>
    /\ \A t \in Threads : prof[t] /\ pc[t] \in Responding => self = request[t]
    /\ stdout # None => pc[stdout] \in {"load", "restore"} /\ old_stdout[stdout] = None
    /\ \A q \in tmpfiles : \E t \in Threads : request[t] = q

\* Why: at most one request is then profiled, it owns what the middleware keeps, and it
\* is the one that has redirected stdout.
Profiled(t) == prof[t] /\ pc[t] \in Responding
Printing(t) == pc[t] \in {"load", "restore"}
ProfileInv ==
  /\ \A t \in Threads : Printing(t) => prof[t]
  /\ ~disturbed =>
       /\ \A t, u \in Threads : Profiled(t) /\ Profiled(u) => t = u
       /\ \A t \in Threads : Profiled(t) => self = request[t]
       /\ \A t \in Threads : Printing(t) => old_stdout[t] = None
       /\ stdout # None => Printing(stdout)
       /\ \A q \in tmpfiles : \E t \in Threads : Profiled(t) /\ request[t] = q

\* Every request is answered, whichever import raises and whoever else is waiting
\* for the import lock.
EveryRequestIsAnswered == \A t \in Threads : pc[t] # "idle" ~> pc[t] = "idle"

\* What is there lets the imports succeed, with a valid identity.
Startable(c) ==
  /\ {"port", "celery", "secret"} \subseteq DOMAIN c
  /\ "servers" \in DOMAIN c => c["servers"] # "malformed"
  /\ disk.identities[c["security"]].ca \in CAs /\ Valid(disk.identities[c["security"]])
CanStart ==
  IF CONFIG # None THEN Startable(CONFIG)
  ELSE \A files \in Readings(disk) : Broken(files) = {} /\ Startable(Reading(files, Len(files)))

\* A start that has failed for want of a file is made good by the next request once
\* the files are there, whatever the failed attempts have left: only what CONFIG has
\* kept and a table that is there already need a restart (urls.py, on_startup.py).
HealsAtNextRequest ==
  \A t \in Threads :
    (/\ CanStart /\ edits = MaxEdits /\ restarts = MaxRestarts
     /\ urls = None /\ pc[t] = "settings" /\ \A u \in Threads : pc[u] # "table")
      ~> (urls = "api")
================================================================================
