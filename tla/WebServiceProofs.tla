--------------------------- MODULE WebServiceProofs ---------------------------
(***************************************************************************)
(* Proofs about the WSGI process, for any threads, disks and bounds.       *)
(* ServiceInv is inductive; it says what the failed attempts to start      *)
(* leave behind.  The steps of a request that import nothing keep it for   *)
(* a common reason, KeepsStart.                                            *)
(***************************************************************************)
EXTENDS WebService, TLAPS

\* The parts of ServiceInv about what has been imported
StartInv ==
  /\ SoundOn(disk) \subseteq sound
  /\ \A p \in Places : HeldOn(disk)[p] \subseteq held[p]
  /\ settings => CONFIG # None
  /\ SERVER_IDENTITY_VALID => CONFIG # None /\ CONFIG["security"] \in sound
  /\ urls = "api" \/ schedule # {} => SERVER_IDENTITY_VALID
  /\ verification_ca # None => CONFIG # None /\ verification_ca \in held[CONFIG["security"]]
  /\ oauth => CONFIG # None /\ CONFIG["oauth"] = "on"

\* The parts about a thread
ThreadInv(t) ==
  /\ pc[t] \in Importing => lock = t
  /\ pc[t] \notin {"idle", "settings", "config"} => CONFIG # None
  /\ pc[t] = "handle" => client[t] = verification_ca \/ (client[t] = "oauth" /\ oauth)
  /\ pc[t] = "handle" => client[t] # None
  /\ pc[t] \in {"check", "table"} => urls = None
  /\ pc[t] \in {"view", "auth", "handle"} => urls # None

LEMMA Parts == ServiceInv <=> TypeOK /\ StartInv /\ \A t \in Threads : ThreadInv(t)
  BY DEF ServiceInv, StartInv, ThreadInv

\* The types of what is on the disk
LEMMA OnDisk ==
  ASSUME NEW d
  PROVE  SoundOn(d) \subseteq Places /\ HeldOn(d) \in [Places -> SUBSET CAs]
  BY DEF SoundOn, HeldOn

\* A process that has not started has read nothing.
LEMMA InitService == Init => ServiceInv
<1> SUFFICES ASSUME Init PROVE ServiceInv
  OBVIOUS
<1>1. TypeOK
  <2>1. StartTypes
    BY BoundsAssumption, OnDisk DEF Init, StartTypes
  <2>2. RequestTypes
    BY BoundsAssumption DEF Init, RequestTypes, Profiles
  <2>3. ProfileTypes
    BY BoundsAssumption DEF Init, ProfileTypes, Profiles
  <2>4. FlagTypes
    BY DEF Init, FlagTypes
  <2> QED BY <2>1, <2>2, <2>3, <2>4 DEF TypeOK
<1>2. StartInv /\ \A t \in Threads : ThreadInv(t)
  BY NoneAssumption DEF Init, StartInv, ThreadInv, Importing
<1> QED BY <1>1, <1>2, Parts

\* The operator's edit adds to what has been on the disk.
LEMMA EditKeeps == ASSUME ServiceInv, Edit PROVE ServiceInv'
<1> USE Parts DEF Edit, started, locals, profiler
<1>1. TypeOK'
  BY BoundsAssumption, OnDisk DEF TypeOK, StartTypes, RequestTypes, ProfileTypes, FlagTypes
<1>2. StartInv'
  BY DEF StartInv, TypeOK, StartTypes, HeldOn
<1>3. \A t \in Threads : ThreadInv(t)'
  BY DEF ThreadInv
<1> QED BY <1>1, <1>2, <1>3 DEF ServiceInv, StartInv, ThreadInv

\* A restart forgets all but the disk.
LEMMA RestartKeeps == ASSUME ServiceInv, Restart PROVE ServiceInv'
<1>1. TypeOK'
  <2>1. StartTypes'
    BY Parts, BoundsAssumption, OnDisk DEF Restart, StartTypes, TypeOK
  <2>2. RequestTypes'
    BY Parts, BoundsAssumption DEF Restart, RequestTypes, Profiles, TypeOK
  <2>3. ProfileTypes'
    BY BoundsAssumption DEF Restart, ProfileTypes, Profiles
  <2>4. FlagTypes'
    BY DEF Restart, FlagTypes
  <2> QED BY <2>1, <2>2, <2>3, <2>4 DEF TypeOK
<1>2. StartInv' /\ \A t \in Threads : ThreadInv(t)'
  BY NoneAssumption DEF Restart, StartInv, ThreadInv, Importing
<1> QED BY <1>1, <1>2 DEF ServiceInv, StartInv, ThreadInv

\* The types of what a thread changes besides the imports
LEMMA ThreadTypes ==
  ASSUME TypeOK, NEW t \in Threads,
         \/ \E p \in BOOLEAN : Arrive(t, p)
         \/ UseSettings(t) \/ ProcessRequest(t) \/ UseUrls(t) \/ FailTable(t) \/ Resolve(t)
         \/ Halted(t) \/ NoView(t) \/ Authenticate(t) \/ Return(t) \/ ProcessResponse(t)
         \/ Load(t) \/ LoadFails(t) \/ Restore(t)
  PROVE  TypeOK'
<1> USE DEF Goto, Done, started, locals, profiler, environment, seen
<1>1. StartTypes'
  BY DEF StartTypes, TypeOK, Arrive, UseSettings, ProcessRequest, UseUrls, FailTable, Resolve, Halted, NoView,
         Authenticate, Return, ProcessResponse, Load, LoadFails, Restore
<1>2. RequestTypes'
  <2> USE DEF TypeOK, RequestTypes, Importing, Responding
  <2>1. CASE \E p \in BOOLEAN : Arrive(t, p)
    BY <2>1, BoundsAssumption, NoneAssumption DEF Arrive, Profiles
  <2>2. CASE UseSettings(t)
    BY <2>2, NoneAssumption DEF UseSettings
  <2>3. CASE ProcessRequest(t)
    BY <2>3, NoneAssumption DEF ProcessRequest
  <2>4. CASE UseUrls(t)
    BY <2>4, NoneAssumption DEF UseUrls
  <2>5. CASE FailTable(t)
    BY <2>5, NoneAssumption DEF FailTable
  <2>6. CASE Resolve(t)
    BY <2>6, BoundsAssumption, NoneAssumption DEF Resolve, ProfileTypes, Profiles
  <2>7. CASE Halted(t)
    BY <2>7, NoneAssumption DEF Halted
  <2>8. CASE NoView(t)
    BY <2>8, NoneAssumption DEF NoView
  <2>9. CASE Authenticate(t)
    BY <2>9, NoneAssumption DEF Authenticate
  <2>10. CASE Return(t)
    BY <2>10, BoundsAssumption, NoneAssumption DEF Return, Profiles
  <2>11. CASE ProcessResponse(t)
    <3>1. CASE prof[t]
      <4>1. old_stdout' \in [Threads -> Threads \cup {None}]
        BY <2>11, <3>1 DEF ProcessResponse, ProfileTypes
      <4>2. pc' = [pc EXCEPT ![t] = "load"] /\ UNCHANGED <<lock, arrived, request, prof, client, running>>
        BY <2>11, <3>1 DEF ProcessResponse
      <4> QED BY <4>1, <4>2
    <3>2. CASE ~prof[t]
      <4>1. Done(t) /\ UNCHANGED <<lock, arrived>>
        BY <2>11, <3>2 DEF ProcessResponse
      <4> QED BY <4>1, BoundsAssumption, NoneAssumption DEF Profiles
    <3> QED BY <3>1, <3>2
  <2>12. CASE Load(t)
    BY <2>12, NoneAssumption DEF Load
  <2>13. CASE LoadFails(t)
    BY <2>13, BoundsAssumption, NoneAssumption DEF LoadFails, Profiles
  <2>14. CASE Restore(t)
    BY <2>14, BoundsAssumption, NoneAssumption DEF Restore, Profiles
  <2> QED BY <2>1, <2>2, <2>3, <2>4, <2>5, <2>6, <2>7, <2>8, <2>9, <2>10, <2>11, <2>12, <2>13, <2>14
<1>3. ProfileTypes'
  <2> USE DEF ProfileTypes, TypeOK, RequestTypes
  <2>1. CASE UNCHANGED profiler
    BY <2>1
  <2>2. CASE ProcessRequest(t)
    BY <2>2 DEF ProcessRequest
  <2>3. CASE Halted(t) \/ NoView(t)
    BY <2>3 DEF Halted, NoView
  <2>4. CASE Return(t)
    BY <2>4 DEF Return
  <2>5. CASE ProcessResponse(t)
    BY <2>5 DEF ProcessResponse
  <2>6. CASE LoadFails(t) \/ Restore(t)
    BY <2>6 DEF LoadFails, Restore
  <2> QED BY <2>1, <2>2, <2>3, <2>4, <2>5, <2>6
          DEF Arrive, UseSettings, UseUrls, FailTable, Resolve, Authenticate, Load
<1>4. FlagTypes'
  BY DEF FlagTypes, TypeOK, Arrive, UseSettings, ProcessRequest, UseUrls, FailTable, Resolve,
         Halted, NoView, Authenticate, Return, ProcessResponse, Load, LoadFails, Restore
<1> QED BY <1>1, <1>2, <1>3, <1>4 DEF TypeOK

\* These steps import nothing.
LEMMA KeepsStart ==
  ASSUME StartInv, UNCHANGED <<environment, started>>
  PROVE  StartInv'
  BY DEF StartInv, environment, seen, started, SoundOn, HeldOn

\* A step of t without an import keeps what holds of the other threads, ...
LEMMA OthersKeep ==
  ASSUME TypeOK, NEW t \in Threads, NEW u \in Threads, u # t, ThreadInv(u),
         pc'[u] = pc[u], client'[u] = client[u], UNCHANGED started,
         lock' = lock \/ lock = t \/ lock = None
  PROVE  ThreadInv(u)'
  BY NoneAssumption DEF ThreadInv, started

\* ... and what holds of t.
LEMMA RequestKeeps ==
  ASSUME ServiceInv, NEW t \in Threads,
         \/ \E p \in BOOLEAN : Arrive(t, p)
         \/ UseSettings(t) \/ ProcessRequest(t) \/ UseUrls(t) \/ FailTable(t) \/ Resolve(t)
         \/ Halted(t) \/ NoView(t) \/ Authenticate(t) \/ Return(t) \/ ProcessResponse(t)
         \/ Load(t) \/ LoadFails(t) \/ Restore(t)
  PROVE  ServiceInv'
<1> TypeOK /\ StartInv /\ \A u \in Threads : ThreadInv(u)
  BY Parts
<1> USE DEF Arrive, UseSettings, ProcessRequest, UseUrls, FailTable, Resolve, Halted, NoView,
        Authenticate, Return, ProcessResponse, Load, LoadFails, Restore
<1>1. TypeOK'
  BY ThreadTypes
<1>2. UNCHANGED <<environment, started>>
  BY DEF environment
<1>3. StartInv'
  BY <1>2, KeepsStart
<1>4. ASSUME NEW u \in Threads, u # t PROVE ThreadInv(u)'
  <2>1. pc'[u] = pc[u] /\ client'[u] = client[u]
    BY <1>4 DEF Goto, Done, locals, TypeOK, RequestTypes
  <2>2. lock' = lock \/ lock = t \/ lock = None
    BY DEF ThreadInv, Goto, Importing
  <2> QED BY <2>1, <2>2, <1>2, <1>4, OthersKeep
<1>5. ThreadInv(t)'
  BY NoneAssumption DEF ThreadInv, StartInv, Goto, Done, started, locals, TypeOK, RequestTypes, Importing, Accepted
<1> QED BY <1>1, <1>3, <1>4, <1>5 DEF ServiceInv, StartInv, ThreadInv

\* The steps that import.  t holds the lock, so no other thread imports.
LEMMA InitConfigKeeps ==
  ASSUME ServiceInv, NEW t \in Threads, InitConfig(t)
  PROVE  ServiceInv'
<1> TypeOK /\ StartInv /\ \A u \in Threads : ThreadInv(u)
  BY Parts
<1> USE DEF InitConfig
<1>1. /\ CONFIG # None => CONFIG' = CONFIG
      /\ CONFIG' # None /\ DOMAIN CONFIG' \subseteq Options /\ CONFIG'["security"] \in Places
  <2>1. CASE CONFIG # None
    BY <2>1 DEF TypeOK, StartTypes
  <2>2. CASE CONFIG = None
    <3>1. PICK files \in Readings(disk) :
            \E n \in Broken(files) \cup {Len(files)} : CONFIG' = Reading(files, n)
      BY <2>2
    <3>2. disk \in Disks
      BY DEF TypeOK, StartTypes
    <3> QED BY <3>1, <3>2, <2>2, DisksAssumption
  <2> QED BY <2>1, <2>2
<1>2. TypeOK'
  <2>1. StartTypes'
    BY <1>1 DEF TypeOK, StartTypes, environment, seen
  <2>2. RequestTypes'
    <3>1. CASE UNCHANGED <<lock, locals>> /\ Goto(t, "config", "finish")
      BY <3>1 DEF TypeOK, RequestTypes, locals, Goto, Importing
    <3>2. CASE lock' = None /\ Done(t)
      BY <3>2, BoundsAssumption, NoneAssumption DEF TypeOK, RequestTypes, Done, Profiles
    <3> QED BY <3>1, <3>2
  <2>3. ProfileTypes'
    BY DEF TypeOK, ProfileTypes, profiler
  <2>4. FlagTypes'
    BY DEF TypeOK, FlagTypes, profiler
  <2> QED BY <2>1, <2>2, <2>3, <2>4 DEF TypeOK
<1>3. StartInv'
  BY <1>1, NoneAssumption DEF StartInv, environment, seen
<1>4. \A u \in Threads : ThreadInv(u)'
  <2> SUFFICES ASSUME NEW u \in Threads PROVE ThreadInv(u)'
    OBVIOUS
  <2>1. CASE UNCHANGED <<lock, locals>> /\ Goto(t, "config", "finish")
    BY <2>1, <1>1 DEF ThreadInv, locals, Goto, TypeOK, RequestTypes, Importing
  <2>2. CASE lock' = None /\ Done(t)
    BY <2>2, <1>1 DEF ThreadInv, Done, TypeOK, RequestTypes, Importing
  <2> QED BY <2>1, <2>2
<1> QED BY <1>2, <1>3, <1>4 DEF ServiceInv, StartInv, ThreadInv

\* A valid identity is one of those that have been sound.
LEMMA ValidIsSound ==
  ASSUME ServiceInv, CONFIG # None, Valid(Identity)
  PROVE  CONFIG["security"] \in sound
  BY DEF ServiceInv, TypeOK, StartTypes, Valid, Identity, SoundOn

\* The check of the identity, in the settings and at start-up
LEMMA CheckKeeps ==
  ASSUME ServiceInv, NEW t \in Threads,
         FinishSettings(t) \/ FailSettings(t) \/ StartupCheck(t)
  PROVE  ServiceInv'
<1> TypeOK /\ StartInv /\ \A u \in Threads : ThreadInv(u)
  BY Parts
<1> USE DEF FinishSettings, FailSettings, StartupCheck, Goto
<1>1. CONFIG # None /\ lock = t /\ UNCHANGED CONFIG
  BY DEF ThreadInv, Importing
<1>2. TypeOK'
  <2>1. StartTypes'
    <3>1. schedule' \subseteq Tasks
      BY DEF TypeOK, StartTypes, Schedule, Tasks
    <3> QED BY <3>1 DEF TypeOK, StartTypes, environment, seen
  <2>2. RequestTypes'
    <3>1. CASE FailSettings(t)
      BY <3>1, BoundsAssumption, NoneAssumption DEF TypeOK, RequestTypes, Done, Profiles
    <3>2. CASE FinishSettings(t) \/ StartupCheck(t)
      BY <3>2 DEF TypeOK, RequestTypes, locals, Importing, Responding
    <3> QED BY <3>1, <3>2
  <2>3. ProfileTypes'
    BY DEF TypeOK, ProfileTypes, profiler
  <2>4. FlagTypes'
    BY DEF TypeOK, FlagTypes, profiler
  <2> QED BY <2>1, <2>2, <2>3, <2>4 DEF TypeOK
<1>3. StartInv'
  <2>1. SERVER_IDENTITY_VALID' => CONFIG["security"] \in sound
    BY <1>1, ValidIsSound DEF StartInv
  <2>2. SERVER_IDENTITY_VALID => SERVER_IDENTITY_VALID'
    OBVIOUS
  <2>3. schedule' # {} => SERVER_IDENTITY_VALID'
    BY DEF StartInv
  <2>4. UNCHANGED <<disk, sound, held, urls, verification_ca, oauth>>
    BY DEF environment, seen
  <2> QED BY <1>1, <2>1, <2>2, <2>3, <2>4 DEF StartInv, SoundOn, HeldOn
<1>4. \A u \in Threads : ThreadInv(u)'
  <2> SUFFICES ASSUME NEW u \in Threads PROVE ThreadInv(u)'
    OBVIOUS
  <2>1. CASE FailSettings(t)
    BY <2>1, <1>1 DEF ThreadInv, Done, TypeOK, RequestTypes, Importing
  <2>2. CASE FinishSettings(t) \/ StartupCheck(t)
    BY <2>2, <1>1 DEF ThreadInv, locals, TypeOK, RequestTypes, Importing
  <2> QED BY <2>1, <2>2
<1> QED BY <1>2, <1>3, <1>4 DEF ServiceInv, StartInv, ThreadInv

\* The URL table: the CA is read from the configured place.
LEMMA TableKeeps == ASSUME ServiceInv, NEW t \in Threads, UrlTable(t) PROVE ServiceInv'
<1> TypeOK /\ StartInv /\ \A u \in Threads : ThreadInv(u)
  BY Parts
<1> USE DEF UrlTable, Goto
<1>1. CONFIG # None /\ lock = t
  BY DEF ThreadInv, Importing
<1>2. verification_ca' \in CAs /\ verification_ca' \in held[CONFIG["security"]]
  BY <1>1 DEF TableRaises, Identity, StartInv, HeldOn, TypeOK, StartTypes
<1>3. TypeOK'
  <2>1. StartTypes'
    BY <1>2 DEF TypeOK, StartTypes, environment, seen
  <2>2. RequestTypes'
    BY DEF TypeOK, RequestTypes, locals, Responding
  <2>3. ProfileTypes'
    BY DEF TypeOK, ProfileTypes, profiler
  <2>4. FlagTypes'
    BY DEF TypeOK, FlagTypes, profiler
  <2> QED BY <2>1, <2>2, <2>3, <2>4 DEF TypeOK
<1>4. StartInv'
  BY <1>1, <1>2 DEF StartInv, environment, seen, SoundOn, HeldOn
<1>5. \A u \in Threads : ThreadInv(u)'
  BY <1>1, NoneAssumption DEF ThreadInv, locals, TypeOK, RequestTypes, Importing
<1> QED BY <1>3, <1>4, <1>5 DEF ServiceInv, StartInv, ThreadInv

LEMMA StepService == ASSUME ServiceInv, [Next]_vars PROVE ServiceInv'
<1>1. CASE UNCHANGED vars
  BY <1>1 DEF vars, environment, seen, started, locals, profiler, ServiceInv, TypeOK, StartTypes,
              RequestTypes, ProfileTypes, FlagTypes
<1>2. CASE Edit \/ Restart
  BY <1>2, EditKeeps, RestartKeeps
<1>3. ASSUME NEW t \in Threads, (\E p \in BOOLEAN : Arrive(t, p)) \/ Step(t)
      PROVE  ServiceInv'
  BY <1>3, RequestKeeps, InitConfigKeeps, CheckKeeps, TableKeeps DEF Step
<1> QED BY <1>1, <1>2, <1>3 DEF Next

\* ServiceInv holds in every state: what attempts to start leave behind is in order.
THEOREM ServiceIsSound == Spec => []ServiceInv
  BY InitService, StepService, PTL DEF Spec

\* The service works only under an identity that has been valid while it ran.
THEOREM OnlyIfSoundHolds == Spec => []OnlyIfSound
<1>1. ServiceInv => OnlyIfSound
  BY DEF ServiceInv, OnlyIfSound
<1> QED BY <1>1, ServiceIsSound, PTL

\* A handler works only for clients the configured CA or the secret vouches for.
THEOREM OnlyTrustedHolds == Spec => []OnlyTrusted
<1>1. ServiceInv => OnlyTrusted
  BY NoneAssumption DEF ServiceInv, OnlyTrusted, TypeOK, StartTypes
<1> QED BY <1>1, ServiceIsSound, PTL

-------------------------------------------------------------------------------
\* A step that does not profile: t is not profiled, or stays where it is.
LEMMA NotProfiling ==
  ASSUME ServiceInv, ProfileInv, NEW t \in Threads,
         UNCHANGED <<self, tmpfiles, stdout>>, disturbed => disturbed',
         \A u \in Threads \ {t} : /\ pc'[u] = pc[u] /\ prof'[u] = prof[u]
                                  /\ request'[u] = request[u] /\ old_stdout'[u] = old_stdout[u],
         \/ ~Profiled(t) /\ ~Profiled(t)' /\ ~Printing(t)'
         \/ /\ prof[t] /\ prof'[t] /\ {pc[t], pc'[t]} \subseteq Responding /\ Printing(t)' = Printing(t)
            /\ request'[t] = request[t] /\ old_stdout'[t] = old_stdout[t]
  PROVE  ProfileInv'
<1>1. Printing(t) => Profiled(t)
  BY DEF ProfileInv, Profiled, Printing, Responding
<1>2. \A u \in Threads : Profiled(u)' => Profiled(u) /\ request'[u] = request[u]
  BY DEF Profiled
<1>3. \A u \in Threads : Printing(u)' = Printing(u) /\ (Printing(u) => old_stdout'[u] = old_stdout[u])
  BY <1>1 DEF Printing
<1>4. \A u \in Threads : Profiled(u) => Profiled(u)' /\ request'[u] = request[u]
  BY DEF Profiled
<1>5. \A u \in Threads : Printing(u)' => prof'[u]
  BY <1>1, <1>3 DEF ProfileInv, Profiled
<1>6. stdout # None /\ ~disturbed => stdout \in Threads
  BY DEF ServiceInv, TypeOK, ProfileTypes
<1>7. stdout # None /\ ~disturbed' => Printing(stdout)'
  BY <1>3, <1>6 DEF ProfileInv, Printing
<1> QED BY <1>2, <1>3, <1>4, <1>5, <1>7 DEF ProfileInv

LEMMA ProfileStep == ASSUME ServiceInv, ProfileInv, [Next]_vars PROVE ProfileInv'
<1> USE DEF Goto
<1>0. /\ pc \in [Threads -> {"idle", "settings", "request"} \cup Importing \cup Responding]
      /\ request \in [Threads -> Profiles] /\ prof \in [Threads -> BOOLEAN]
      /\ old_stdout \in [Threads -> Threads \cup {None}]
      /\ stdout \in Threads \cup {None} /\ None \notin Threads
  BY NoneAssumption DEF ServiceInv, TypeOK, RequestTypes, ProfileTypes
<1>1. CASE UNCHANGED vars \/ Edit
  BY <1>1 DEF vars, Edit, locals, profiler, ProfileInv, Profiled, Printing
<1>2. CASE Restart
  BY <1>2 DEF Restart, ProfileInv, Profiled, Printing, Responding
<1>3. ASSUME NEW t \in Threads,
             \/ UseSettings(t) \/ FinishSettings(t) \/ UseUrls(t) \/ StartupCheck(t) \/ UrlTable(t)
             \/ FailTable(t) \/ Resolve(t) \/ Halted(t) \/ NoView(t) \/ Authenticate(t) \/ Return(t) \/ Load(t)
      PROVE  ProfileInv'
  <2> USE <1>3 DEF UseSettings, FinishSettings, UseUrls, StartupCheck, UrlTable, FailTable, Resolve, Halted,
         NoView, Authenticate, Return, Load
  <2>1. /\ UNCHANGED <<self, tmpfiles, stdout>> /\ (disturbed => disturbed')
        /\ UNCHANGED <<prof, request, old_stdout>>
        /\ \A u \in Threads \ {t} : pc'[u] = pc[u]
    <3>1. UNCHANGED <<self, tmpfiles, stdout>>
      BY DEF profiler
    <3>4. disturbed => disturbed'
      <4>1. CASE NoView(t)
        BY <4>1, Zenon
      <4>2. CASE ~NoView(t)
        BY <4>2 DEF profiler
      <4> QED BY <4>1, <4>2
    <3>2. UNCHANGED <<prof, request, old_stdout>>
      BY DEF locals
    <3>3. \A u \in Threads \ {t} : pc'[u] = pc[u]
      BY <1>0
    <3> QED BY <3>1, <3>2, <3>3, <3>4
  <2>2. \/ pc[t] \notin Responding /\ pc'[t] \notin Responding
        \/ {pc[t], pc'[t]} \subseteq Responding /\ Printing(t)' = Printing(t)
    BY <1>0 DEF Responding, Printing
  <2>3. pc'[t] \notin Responding => ~Printing(t)'
    BY DEF Responding, Printing
  <2>4. Printing(t)' /\ Printing(t) => prof[t]
    BY DEF ProfileInv
  <2> QED BY <1>0, <2>1, <2>2, <2>3, <2>4, NotProfiling DEF Profiled
<1>4. ASSUME NEW t \in Threads, (\E p \in BOOLEAN : Arrive(t, p)) \/ InitConfig(t) \/ FailSettings(t)
      PROVE  ProfileInv'
  <2>1. /\ UNCHANGED <<self, tmpfiles, stdout, disturbed>>
        /\ \A u \in Threads \ {t} : /\ pc'[u] = pc[u] /\ prof'[u] = prof[u]
                                    /\ request'[u] = request[u] /\ old_stdout'[u] = old_stdout[u]
        /\ pc[t] \notin Responding /\ pc'[t] \notin Responding
    BY <1>0, <1>4 DEF Arrive, InitConfig, FailSettings, Done, locals, profiler, Responding
  <2> QED BY <2>1, NotProfiling DEF Profiled, Printing, Responding
<1>5. ASSUME NEW t \in Threads, ProcessRequest(t) PROVE ProfileInv'
  <2>1. /\ UNCHANGED <<stdout, prof, request, old_stdout>> /\ pc[t] = "request" /\ pc' = [pc EXCEPT ![t] = "urls"]
    BY <1>5 DEF ProcessRequest, locals, profiler
  <2>2. CASE ~prof[t]
    <3>1. UNCHANGED <<self, tmpfiles, disturbed>> /\ ~Printing(t)' /\ \A u \in Threads \ {t} : pc'[u] = pc[u]
      BY <1>0, <1>5, <2>1, <2>2 DEF ProcessRequest, profiler, Printing
    <3> QED BY <2>1, <2>2, <3>1, NotProfiling DEF Profiled
  <2>3. CASE prof[t]
    <3>1. self' = request[t] /\ tmpfiles' = tmpfiles \cup {request[t]} /\ disturbed' = (disturbed \/ Overlaps(t))
      BY <1>5, <2>3 DEF ProcessRequest
    <3>2. \A u \in Threads : Printing(u)' => Printing(u) /\ prof'[u]
      BY <1>0, <2>1 DEF Printing, ProfileInv
    <3> SUFFICES ASSUME ~disturbed' PROVE ProfileInv'
      BY <3>2 DEF ProfileInv
    <3>3. ~disturbed /\ \A u \in Threads : ~Profiled(u)
      BY <2>1, <3>1 DEF Overlaps, Profiled, Responding
    <3>4. \A u \in Threads : ~Printing(u)
      BY <3>3 DEF ProfileInv, Profiled, Printing, Responding
    <3>5. stdout = None /\ tmpfiles = {}
      BY <1>0, <3>3, <3>4 DEF ProfileInv
    <3>6. \A u \in Threads : Profiled(u)' <=> u = t
      BY <1>0, <2>1, <2>3, <3>3 DEF Profiled, Responding
    <3> QED BY <2>1, <3>1, <3>2, <3>4, <3>5, <3>6 DEF ProfileInv
  <2> QED BY <2>2, <2>3
<1>6. ASSUME NEW t \in Threads, ProcessResponse(t) PROVE ProfileInv'
  <2>1. CASE ~prof[t]
    <3>1. Done(t) /\ UNCHANGED profiler
      BY <1>6, <2>1 DEF ProcessResponse
    <3>2. pc'[t] = "idle" /\ ~Printing(t)' /\ ~Profiled(t)'
      BY <1>0, <3>1 DEF Done, Printing, Profiled, Responding
    <3> QED BY <1>0, <2>1, <3>1, <3>2, NotProfiling DEF Profiled, Done, profiler
  <2>2. CASE prof[t]
    <3>1. /\ UNCHANGED <<self, tmpfiles, disturbed, prof, request>> /\ pc[t] = "respond"
          /\ pc' = [pc EXCEPT ![t] = "load"] /\ stdout' = t /\ old_stdout' = [old_stdout EXCEPT ![t] = stdout]
      BY <1>6, <2>2 DEF ProcessResponse
    <3>2. \A u \in Threads : (Printing(u)' <=> Printing(u) \/ u = t) /\ Profiled(u)' = Profiled(u)
      BY <1>0, <3>1 DEF Printing, Profiled, Responding
    <3>3. Profiled(t) /\ ~Printing(t) /\ \A u \in Threads : Printing(u) => Profiled(u)
      BY <2>2, <3>1 DEF ProfileInv, Profiled, Printing, Responding
    <3>4. ~disturbed => \A u \in Threads : ~Printing(u)
      BY <3>3 DEF ProfileInv
    <3>5. ~disturbed => stdout = None
      BY <1>0, <3>4 DEF ProfileInv
    <3>6. Printing(stdout)'
      BY <1>0, <3>1 DEF Printing
    <3> QED BY <1>0, <2>2, <3>1, <3>2, <3>4, <3>5, <3>6 DEF ProfileInv
  <2> QED BY <2>1, <2>2
<1>7. ASSUME NEW t \in Threads, LoadFails(t) PROVE ProfileInv'
  BY <1>0, <1>7 DEF LoadFails, Done, ProfileInv, Printing
<1>8. ASSUME NEW t \in Threads, Restore(t) PROVE ProfileInv'
  <2>1. /\ stdout' = old_stdout[t] /\ tmpfiles' = tmpfiles \ {self} /\ UNCHANGED <<self, disturbed>>
        /\ pc[t] = "restore" /\ Done(t)
    BY <1>8 DEF Restore
  <2>2. Profiled(t) /\ Printing(t)
    BY <2>1 DEF ProfileInv, Profiled, Printing, Responding
  <2>3. /\ ~Profiled(t)' /\ ~Printing(t)'
        /\ \A u \in Threads \ {t} : /\ Profiled(u)' = Profiled(u) /\ Printing(u)' = Printing(u)
                                    /\ prof'[u] = prof[u] /\ request'[u] = request[u]
    BY <1>0, <2>1 DEF Done, Profiled, Printing, Responding
  <2>4. \A u \in Threads : Printing(u)' => prof'[u]
    BY <2>3 DEF ProfileInv
  <2>5. ~disturbed => /\ stdout' = None /\ tmpfiles' = {}
                      /\ \A u \in Threads : ~Profiled(u)'
    BY <2>1, <2>2, <2>3 DEF ProfileInv
  <2>6. \A u \in Threads : Printing(u)' => Profiled(u)'
    BY <2>4 DEF Profiled, Printing, Responding
  <2> QED BY <2>1, <2>4, <2>5, <2>6 DEF ProfileInv
<1> QED BY <1>1, <1>2, <1>3, <1>4, <1>5, <1>6, <1>7, <1>8 DEF Next, Step

\* Profiled requests that come one at a time do not disturb each other: each sees its own
\* profile, and stdout and the files on the disk are as they were before it.
THEOREM ProfilesAreCleanHolds == Spec => []ProfilesAreClean
<1>1. Init => ProfileInv
  BY DEF Init, ProfileInv, Profiled, Printing, Responding
<1>2. ServiceInv /\ ProfileInv /\ [Next]_vars => ProfileInv'
  BY ProfileStep
<1>3. ServiceInv /\ ProfileInv => ProfilesAreClean
  BY DEF ServiceInv, TypeOK, ProfileTypes, ProfileInv, ProfilesAreClean, Profiled, Printing
<1> QED BY <1>1, <1>2, <1>3, ServiceIsSound, PTL DEF Spec
===============================================================================
