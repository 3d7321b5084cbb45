-------------------------------- MODULE WgWeb -------------------------------
(***************************************************************************)
(* The application: any number of requests of both services run at the     *)
(* same time over one database and the WireGuard interfaces of the host.   *)
(***************************************************************************)
EXTENDS ClientService, ServerService

CONSTANT Crashes   \* whether threads are killed and the host reboots

ASSUME CrashesAssumption == Crashes \in BOOLEAN

vars == <<profile, client, server, wg, req>>

Init == DatabaseInit /\ WireGuardInit /\ RequestsInit

\* The connection is lost or the thread killed: what was not committed is undone.
Crash(r) ==
  /\ Crashes
  /\ req[r].op # "none"
  /\ Fail(r)

\* wg-quick units are not enabled: after a reboot every interface is down.
Reboot ==
  /\ Crashes
  /\ wg' = << >>
  /\ req' = [r \in Request |-> Idle]
  /\ UNCHANGED db

Start(r) == ClientServiceStart(r) \/ ServerServiceStart(r)

Progress(r) == ClientServiceStep(r) \/ ServerServiceStep(r) \/ LockWaitTimeout(r)

Next ==
  \/ \E r \in Request : Start(r) \/ Progress(r) \/ Crash(r)
  \/ CreateNewServer
  \/ CreateUser
  \/ Reboot

Spec == Init /\ [][Next]_vars

-----------------------------------------------------------------------------
\* Safety

TypeOK ==
  /\ DatabaseTypeOK
  /\ WireGuardTypeOK
  /\ RequestsTypeOK

\* What interface s should serve: the clients of its verified users.
Served(s) ==
  LET Clients == {k \in DOMAIN client : /\ client[k].server = s
                                        /\ profile[client[k].user].verified}
  IN  [k \in Clients |-> client[k].ip_address]

(* Whatever the requests in flight, a client row refers to a user and to a
   server interface that have rows, unless its Peer went with its server: the
   cascades of models.py and saveClient leave no dangling reference. *)
ReferentialIntegrity ==
  \A k \in DOMAIN client :
    /\ client[k].user \in DOMAIN profile
    /\ client[k].server \in server \cup {None}

\* The local variables a handler has set by the time it uses them.
LocalsOK(t) ==
  /\ t.at \in {"allocateIpAddress", "saveClient", "commitClient", "addWGPeer",
               "setPeer"} => t.key \in Key /\ t.server \in Server
  /\ t.at \in {"saveClient", "commitClient", "addWGPeer", "setPeer"}
       => t.address \in HostAddress
  /\ t.at \in {"allocateIpAddress", "saveClient", "commitClient", "deleteKey",
               "decrementCount", "updateVerified", "saveProfile", "getPeers",
               "loadPeer", "setPeer", "deleteUser"} => t.user \in User
  /\ t.at \in {"deleteKey", "decrementCount", "removeWGPeer"} => t.key \in Key
  /\ t.at \in {"generateConf", "wgStart"} => t.server \in Server

\* A transaction that inserted a client holds the rows the client refers to.
ReferencesHeld(t) ==
  t.at = "commitClient" => t.user \in DOMAIN profile /\ t.server \in server

(* A handler never runs a statement or a script on a client, user or server it
   has not loaded, and the user and server of a client that saveClient inserted
   stay until it commits, whoever deletes them. *)
RequestsOK == \A r \in Request : LocalsOK(req[r]) /\ ReferencesHeld(req[r])

\* Inductive: the proofs rest on it.
IInv == TypeOK /\ ReferentialIntegrity /\ RequestsOK

(* key_count, which saveClient and deleteClient keep by reading it and writing
   it back, is the number of keys a user has. *)
KeyCountExact ==
  AtRest => \A u \in DOMAIN profile : profile[u].key_count = Cardinality(KeysOf(u))

(* Clients of one server interface have distinct addresses, none of them its
   own: allocateIpAddress gives an address that is free. *)
AddressesDistinct ==
  \A j, k \in DOMAIN client :
    client[k].server # None =>
      /\ client[k].ip_address # ServerAddress
      /\ j # k /\ client[j].server = client[k].server
           => client[j].ip_address # client[k].ip_address

(* "Client need a Key, its Interface and Peer": no client is left without the
   Peer that connects it to a server. *)
EveryClientHasPeer == \A k \in DOMAIN client : client[k].server # None

(* Once the requests are answered, no client of a verified user is missing from
   an interface that is up, even when requests raced for its address. *)
NoClientLeftOut ==
  AtRest => \A s \in server \cap DOMAIN wg :
              DOMAIN Served(s) \subseteq DOMAIN wg[s]

(* Once the requests are answered, the peers of an interface are clients that
   exist: deleting a client "removes the connection from Wireguard". *)
NoPeerWithoutClient ==
  AtRest => \A s \in DOMAIN wg : DOMAIN wg[s] \subseteq DOMAIN client

-----------------------------------------------------------------------------
\* Action properties

(* An interface that comes up serves exactly the verified clients its server has
   then, whatever was lost or left behind before: a restart repairs the peers. *)
StartLoadsVerified ==
  [][\A s \in DOMAIN wg' \ DOMAIN wg : wg'[s] = Served(s)]_vars

\* Peers that are not what the rows say: missing, left over or at another address.
Wrong ==
  LET Right(s) == {k \in DOMAIN wg[s] \cap DOMAIN Served(s) : wg[s][k] = Served(s)[k]}
  IN  UNION {{s} \X ((DOMAIN wg[s] \cup DOMAIN Served(s)) \ Right(s)) : s \in DOMAIN wg}

\* Clients whose peers request t still has to set, or their rows to delete.
Unfinished(t) ==
  CASE t.op = "deleteuser" \/ t.at = "getPeers" -> KeysOf(t.user)
    [] t.op # "deleteuser" /\ t.at \in {"loadPeer", "setPeer"} -> t.todo \cup {t.key}
    [] t.op # "deleteuser" /\ t.at \in {"addWGPeer", "removeWGPeer"} -> {t.key}
    [] OTHER -> {}

LeftBehind == {d \in Wrong : \A r \in Request : d[2] \notin Unfinished(req[r])}

(* A request that is not killed leaves no peer wrong behind it, and no interface up
   without its server, whatever killed requests have left: what toggleServer,
   verifyUser, newkey, deletekey, removeUser and the settings form do to WireGuard
   adds up to what they do to the database, as long as requests do not overlap. *)
WgMirrorsDatabase ==
  [][(\E r \in Request : Progress(r)) =>
       LeftBehind' \subseteq LeftBehind /\ (DOMAIN wg \subseteq server)']_vars

\* Request t has still to connect client k, or to delete it with its user.
Awaits(t, k) ==
  \/ t.at = "addWGPeer" /\ k = t.key
  \/ t.at = "getPeers" /\ t.verified /\ client[k].user = t.user
  \/ t.at \in {"loadPeer", "setPeer"} /\ t.verified /\ k \in t.todo
  \/ t.at = "setPeer" /\ t.verified /\ k = t.key
  \/ t.op = "deleteuser" /\ client[k].user = t.user

\* Clients an interface should serve and does not, and no request will see to.
LeftOut ==
  {k \in DOMAIN client :
     LET s == client[k].server IN
     /\ s \in DOMAIN wg
     /\ k \in DOMAIN Served(s) \ DOMAIN wg[s]
     /\ \A r \in Request : ~Awaits(req[r], k)}

(* The steps of request r that may leave out client k of a verified user: it
   disconnects a user whom another request has verified meanwhile, it starts an
   interface with a configuration generated before the client was to be served,
   the DELETE of a user it has disconnected times out, or its thread is killed. *)
Drops(r, k) ==
  LET t == req[r] IN
  \/ /\ profile[client[k].user].verified
     /\ \/ SetPeer(r) /\ ~t.verified /\ t.op # "deleteuser" /\ k = t.key
        \/ /\ WgStart(r) /\ ~isWGserverUp(t.server)
           /\ client[k].server = t.server /\ k \notin {c[1] : c \in t.conf}
  \/ LockWaitTimeout(r) /\ t.op = "deleteuser" /\ client[k].user = t.user
  \/ Crash(r) /\ Awaits(t, k)

(* However many requests overlap, these are the only steps by which a client of a
   verified user comes to miss its peer: no other handler leaves out a client it has
   created or verified, nor takes away the peer of another's. *)
LeftOutOnlyByRace ==
  [][\A k \in LeftOut' \ LeftOut : \E r \in Request : Drops(r, k)]_vars

-----------------------------------------------------------------------------
\* Refinement

Registry == INSTANCE ClientRegistry WITH
  Address <- HostAddress \ {ServerAddress},
  account <- [u \in DOMAIN profile |-> [verified |-> profile[u].verified,
                                       key_limit |-> profile[u].key_limit]],
  up <- DOMAIN wg

(* Requests that come one at a time are what the registry says, as a whole or not
   at all: whatever is killed between two statements, createNewClient keeps the
   limit by a count that is exact and gives a free address, deletekey takes one
   client, and deleteServer every client of a server that is down. *)
ImplementsRegistry == Registry!Spec

-----------------------------------------------------------------------------
\* Liveness

(* A thread keeps running its handler, and InnoDB ends every wait for a lock;
   users need not send requests. *)
Fairness == \A r \in Request : WF_vars(Progress(r))

FairSpec == Spec /\ Fairness

(* Every request is answered: the loops over peers and clients end, and requests
   whose transactions wait for each other do not wait forever. *)
EveryRequestEnds == \A r \in Request : req[r].op # "none" ~> req[r].op = "none"

=============================================================================
