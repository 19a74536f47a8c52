---------------------------- MODULE MCWebService -----------------------------
(***************************************************************************)
(* WebService on a small instance: two places of an identity, two CAs, and *)
(* a disk that is right, lacks what an import needs, has a broken file, or *)
(* another CA.                                                             *)
(***************************************************************************)
EXTENDS WebService, TLC

Complete1 == "port" :> "on" @@ "celery" :> "off" @@ "oauth" :> "on" @@ "key" :> "on" @@ "secret" :> "on"
File(set) == [broken |-> FALSE, set |-> set]
Own == File("security" :> "own")
Identities(own) == "default" :> [ca |-> "ca1", signer |-> "ca2", fits |-> TRUE] @@ "own" :> own
Good == [ca |-> "ca1", signer |-> "ca1", fits |-> TRUE]

MCDisks == {
  [main |-> File(Complete1), confd |-> {Own}, identities |-> Identities(Good)],
  [main |-> File(Complete1), confd |-> {Own}, identities |-> Identities([Good EXCEPT !.ca = "ca2"])],
  [main |-> File(Complete1), confd |-> {Own}, identities |-> Identities([Good EXCEPT !.ca = "missing"])],
  [main |-> File("celery" :> "on" @@ "oauth" :> "off" @@ Complete1), confd |-> {Own, File("servers" :> "listed")},
   identities |-> Identities([Good EXCEPT !.fits = FALSE])],
  [main |-> File(Complete1), confd |-> {Own, [broken |-> TRUE, set |-> "celery" :> "on"]},
   identities |-> Identities([Good EXCEPT !.ca = "unreadable"])],
  [main |-> File("celery" :> "on" @@ Complete1), confd |-> {Own, File("servers" :> "malformed")},
   identities |-> Identities(Good)],
  [main |-> File("port" :> "on" @@ "celery" :> "on"), confd |-> {Own}, identities |-> Identities(Good)]
}
==============================================================================
