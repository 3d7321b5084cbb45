-------------------------------- MODULE Pages -------------------------------
(***************************************************************************)
(* The pages that show clients: mykeys and userkeys those of a user,       *)
(* filterPeers those of a server, getpeerstate the peers WireGuard has.    *)
(* Each gathers its answer from several statements and scripts, and the    *)
(* rows and interfaces change in between.  The requests that change them   *)
(* are the environment: one action per commit or script of WgWeb.  A page  *)
(* changes nothing, so one page at a time is enough.                       *)
(***************************************************************************)
EXTENDS WireGuard

VARIABLES
  online,    \* peers whose last handshake is less than 120 seconds ago
  page,      \* the page that is gathered or was answered last
  changed    \* users, servers and clients that changed since the page began

rows == <<db, wg, online>>
vars == <<profile, client, server, wg, online, page, changed>>

\* What a page is filtered by: nothing, a user's name, or an address.
Filter == {None} \cup User \cup HostAddress

NoPage ==
  [op |-> "none", at |-> "idle", user |-> None, server |-> None, key |-> None,
   field |-> None, state |-> BOOLEAN, lines |-> {}, counted |-> {}, todo |-> {},
   listed |-> {}, owner |-> << >>, address |-> << >>, peers |-> {}]

Init ==
  /\ DatabaseInit /\ WireGuardInit
  /\ online = {}
  /\ page = NoPage
  /\ changed = {}

Matches(field, u, a) == field \in {None, u, a}

-----------------------------------------------------------------------------
\* The environment

Answered == page.at \in {"idle", "done", "failed"}

\* What happens after a page was answered is nothing to it.
Change(ids) ==
  IF Answered THEN page' = NoPage /\ changed' = {}
              ELSE changed' = changed \cup ids /\ UNCHANGED page

PeersOf(s) == IF s \in DOMAIN wg THEN DOMAIN wg[s] ELSE {}

\* Ids and keys are never given again: not those the page has or saw change.
Taken ==
  IF Answered THEN {}
              ELSE {page.user, page.server} \cup page.todo \cup page.lines \cup page.listed
                     \cup changed

CreateUser ==
  /\ \E u \in User \ (DOMAIN profile \cup Taken) :
       profile' = Put(profile, u, [verified |-> TRUE, key_limit |-> DefaultKeyLimit,
                                   key_count |-> 0])
  /\ Change({})
  /\ UNCHANGED <<client, server, wg, online>>

DeleteUser ==
  /\ \E u \in DOMAIN profile : deleteUser(u) /\ Change(KeysOf(u) \cup {u})
  /\ UNCHANGED <<wg, online>>

\* wg genkey never returns a key that a row or a peer has.
NewClient ==
  /\ \E u \in DOMAIN profile, s \in server, a \in HostAddress,
        k \in Key \ (DOMAIN client \cup (UNION {PeersOf(t) : t \in Server}) \cup Taken) :
       /\ allocateIpAddress(s, a)
       /\ saveClient(k, [user |-> u, ip_address |-> a, server |-> s], 0)
       /\ Change({k})
  /\ UNCHANGED <<wg, online>>

DeleteClient ==
  /\ \E k \in DOMAIN client : deleteClient(k, client[k].user, 0) /\ Change({k})
  /\ UNCHANGED <<wg, online>>

\* wg set connects or disconnects a client; a deleted one is a peer for a while.
SetPeer ==
  /\ \E s \in DOMAIN wg : \E k \in getClientInterfacesFromServer(s) \ PeersOf(s) :
       addWGPeer(s, k, client[k].ip_address) /\ Change({k})
  /\ UNCHANGED <<db, online>>

RemovePeer ==
  /\ \E s \in DOMAIN wg : \E k \in DOMAIN wg[s] :
       removeWGPeer(s, k) /\ Change({k}) /\ online' = online \ {k}
  /\ UNCHANGED db

Handshake ==
  /\ \E s \in DOMAIN wg : \E k \in DOMAIN wg[s] :
       /\ online' = IF k \in online THEN online \ {k} ELSE online \cup {k}
       /\ Change({k})
  /\ UNCHANGED <<db, wg>>

StartServer ==
  /\ \E s \in server \ DOMAIN wg :
       /\ wg' = Put(wg, s, [k \in getClientInterfacesFromServer(s) |-> client[k].ip_address])
       /\ Change(getClientInterfacesFromServer(s))
  /\ UNCHANGED <<db, online>>

StopServer ==
  /\ \E s \in DOMAIN wg :
       /\ stopWGserver(s)
       /\ Change(PeersOf(s))
       /\ online' = online \ PeersOf(s)
  /\ UNCHANGED db

CreateServer ==
  /\ \E s \in Server \ (server \cup DOMAIN wg \cup Taken) :
       server' = server \cup {s}
  /\ Change({})
  /\ UNCHANGED <<profile, client, wg, online>>

\* A client that deleteServer did not list loses its peer and stays.
DeleteServer ==
  /\ \E s \in server \ DOMAIN wg :
       \E gone \in SUBSET getClientInterfacesFromServer(s) :
         /\ deleteServer(s, gone, [u \in DOMAIN profile |-> Unwritten])
         /\ Change(getClientInterfacesFromServer(s) \cup {s})
  /\ UNCHANGED <<wg, online>>

Environment ==
  \/ CreateUser \/ DeleteUser \/ NewClient \/ DeleteClient
  \/ SetPeer \/ RemovePeer \/ Handshake
  \/ StartServer \/ StopServer \/ CreateServer \/ DeleteServer

-----------------------------------------------------------------------------
\* The pages

Begin(p) == Answered /\ page' = p /\ changed' = {} /\ UNCHANGED rows

Go(p) == page' = p /\ UNCHANGED <<rows, changed>>

Raise == Go([page EXCEPT !.at = "failed"])

\* The list of a query that has been gone through.
Listed == page.todo = {} /\ Go([page EXCEPT !.at = "done"])

Show(k) == Go([page EXCEPT !.todo = @ \ {k}, !.listed = @ \cup {k}])

Skip(k) == Go([page EXCEPT !.todo = @ \ {k}])

-----------------------------------------------------------------------------
\* mykeys and userkeys

UserPage ==
  \E u \in DOMAIN profile, op \in {"mykeys", "userkeys"} :
    Begin([NoPage EXCEPT !.op = op, !.at = "getKeys", !.user = u])

\* The keys, after mykeys got the profile or failed to create one.
GetKeys ==
  /\ page.at = "getKeys"
  /\ IF page.op = "mykeys" /\ page.user \notin DOMAIN profile
     THEN Raise
     ELSE Go([page EXCEPT !.at = "loadPeer", !.todo = KeysOf(page.user)])

rowOnly(k) == k \in DOMAIN client                                      \* mutant

HasPeer(k) == k \in DOMAIN client /\ client[k].server # None

serverNeeded == FALSE                                                  \* mutant

ShownWithoutServer == page.op = "userkeys"

\* getClientsServerInterface: the Peer of the key, then its server.  A key without
\* one is shown by userkeys, and mykeys raises.
LoadPeer ==
  /\ page.at = "loadPeer"
  /\ \/ Listed
     \/ \E k \in page.todo :
          IF HasPeer(k)
          THEN Go([page EXCEPT !.at = "loadServer", !.todo = @ \ {k}, !.key = k,
                               !.server = client[k].server])
          ELSE IF ShownWithoutServer THEN Show(k) ELSE Raise

LoadServer ==
  /\ page.at = "loadServer"
  /\ IF page.server \in server
     THEN Go([page EXCEPT !.at = "loadPeer", !.listed = @ \cup {page.key}, !.key = None,
                          !.server = None])
     ELSE Raise

-----------------------------------------------------------------------------
\* filterPeers

FilterPeers ==
  \E s \in server :
    Begin([NoPage EXCEPT !.op = "filterPeers", !.at = "getPeers", !.server = s])

allPeers(s, field) == getClientInterfacesFromServer(s)                 \* mutant

getServerInterfacePeersFiltered(s, field) ==
  {k \in getClientInterfacesFromServer(s) :
     Matches(field, client[k].user, client[k].ip_address)}

\* The parameters of a request are chosen where the handler first uses them.
GetPeers ==
  /\ page.at = "getPeers"
  /\ \E field \in Filter :
       Go([page EXCEPT !.at = "loadInterface", !.field = field,
                       !.todo = getServerInterfacePeersFiltered(page.server, field)])

\* The interface, key and user of the peer are read when it is its turn.
LoadInterface ==
  /\ page.at = "loadInterface"
  /\ \/ Listed
     \/ \E k \in page.todo :
          IF k \in DOMAIN client THEN Show(k) ELSE Raise

-----------------------------------------------------------------------------
\* getpeerstate: getWGPeersState

GetPeerState ==
  \E s \in server :
    Begin([NoPage EXCEPT !.op = "getpeerstate", !.at = "getWgDump", !.server = s])

\* The list is empty when the interface is down.
GetWgDump ==
  /\ page.at = "getWgDump"
  /\ Go([page EXCEPT !.at = IF isWGserverUp(page.server) THEN "getAllKeys" ELSE "done",
                     !.lines = PeersOf(page.server),
                     !.counted = PeersOf(page.server) \cap online])

\* The maps are looked up for the lines of the dump only.
GetAllKeys ==
  /\ page.at = "getAllKeys"
  /\ Go([page EXCEPT !.at = "getAllInterfaces",
                     !.owner = [k \in page.lines \cap DOMAIN client |-> client[k].user]])

GetAllInterfaces ==
  /\ page.at = "getAllInterfaces"
  /\ Go([page EXCEPT !.at = "loadKeys", !.todo = DOMAIN client \cup server,
                     !.address = [k \in page.lines \cap DOMAIN client |-> client[k].ip_address]])

\* The key of every interface, of servers as well, is read one by one.
LoadKeys ==
  /\ page.at = "loadKeys"
  /\ \/ page.todo = {} /\ Go([page EXCEPT !.at = "getAllPeers"])
     \/ \E i \in page.todo : IF i \in DOMAIN client \cup server THEN Skip(i) ELSE Raise

GetAllPeers ==
  /\ page.at = "getAllPeers"
  /\ LET peers == {k \in DOMAIN client : client[k].server # None}
     IN  Go([page EXCEPT !.at = "loadPeers", !.todo = peers, !.peers = peers \cap page.lines])

LoadPeers ==
  /\ page.at = "loadPeers"
  /\ \/ page.todo = {} /\ Go([page EXCEPT !.at = "filter"])
     \/ \E k \in page.todo : IF k \in DOMAIN client THEN Skip(k) ELSE Raise

\* Peers without a key are skipped.
Known == DOMAIN page.owner

\* A filter needs the user of the key, or the interface, which was read later.
FilterRaises(field) ==
  \E k \in Known :
    \/ field \in User /\ page.owner[k] \notin DOMAIN profile
    \/ field \in HostAddress /\ k \notin DOMAIN page.address

Filtered(field, state) ==
  {k \in Known : /\ \/ field \in {None, page.owner[k]}
                    \/ k \in DOMAIN page.address /\ field = page.address[k]
                 /\ (k \in page.counted) \in state}

\* The name of a peer is that of its server and of its key's user, read only now.
NameRaises(k) ==
  k \in page.peers /\ (page.server \notin server \/ page.owner[k] \notin DOMAIN profile)

FilterLines ==
  /\ page.at = "filter"
  /\ \E field \in Filter, state \in {BOOLEAN, {TRUE}, {FALSE}} :
       IF FilterRaises(field) \/ \E k \in Filtered(field, state) : NameRaises(k)
       THEN Raise
       ELSE Go([page EXCEPT !.at = "done", !.field = field, !.state = state,
                            !.listed = Filtered(field, state)])

Next ==
  \/ Environment
  \/ UserPage \/ GetKeys \/ LoadPeer \/ LoadServer
  \/ FilterPeers \/ GetPeers \/ LoadInterface
  \/ GetPeerState \/ GetWgDump \/ GetAllKeys \/ GetAllInterfaces \/ LoadKeys
  \/ GetAllPeers \/ LoadPeers \/ FilterLines

Spec == Init /\ [][Next]_vars

-----------------------------------------------------------------------------
\* Properties

\* What a page holds; a server is at hand only while its row is being read.
TypeOK ==
  /\ DatabaseTypeOK /\ WireGuardTypeOK
  /\ online \subseteq UNION {PeersOf(s) : s \in Server}
  /\ page.field \in Filter /\ page.state \subseteq BOOLEAN
  /\ page.todo \subseteq Key \cup Server
  /\ page.counted \subseteq page.lines /\ page.lines \subseteq Key
  /\ page.op = "getpeerstate" => page.listed \subseteq page.lines
  /\ page.at = "loadServer" => page.key \in Key /\ page.server \in Server
  /\ changed \subseteq User \cup Server \cup Key

\* Should the page show client k, by the rows and peers as they are now?
Expected(k) ==
  /\ k \in DOMAIN client
  /\ CASE page.op \in {"mykeys", "userkeys"} -> client[k].user = page.user
       [] page.op = "filterPeers" ->
            /\ client[k].server = page.server
            /\ Matches(page.field, client[k].user, client[k].ip_address)
       [] page.op = "getpeerstate" ->
            /\ k \in PeersOf(page.server)
            /\ Matches(page.field, client[k].user, client[k].ip_address)
            /\ (k \in online) \in page.state

(* However the rows and interfaces changed while a page was gathered, what it
   says about a client that did not change is right: the client is shown exactly
   when it should be, and counted as online exactly when it is. *)
PageTruthful ==
  page.at = "done" =>
    \A k \in Key \ changed :
      /\ k \in page.listed <=> Expected(k)
      /\ page.op = "getpeerstate" =>
           (k \in page.counted <=> k \in PeersOf(page.server) \cap online)

\* Ids that changed since the page began and have no row in table.
Lost(table) == changed \ table

\* A row was deleted that the page had read of and still needed: the user of mykeys,
\* the server at hand or asked for, a client that is still to load, a client of the
\* dump or its user.
Raced ==
  \/ page.op = "mykeys" /\ page.user \in Lost(DOMAIN profile)
  \/ page.op # "filterPeers" /\ page.server \in Lost(server)
  \/ page.todo \cap Lost(DOMAIN client) # {}
  \/ \E k \in Known : k \in Lost(DOMAIN client) \/ page.owner[k] \in Lost(DOMAIN profile)

\* A key that mykeys has still to load lost its peer with its server.
KeyWithoutPeer ==
  page.op = "mykeys" /\ \E k \in page.todo \cap DOMAIN client : client[k].server = None

(* A page fails only when a row it had read of and still needed was deleted since it
   began, and mykeys on a key without a peer.  Nothing else that changes, on the same
   client or another, takes a page away. *)
PageFailsOnlyRaced == page.at = "failed" => Raced \/ KeyWithoutPeer

=============================================================================
