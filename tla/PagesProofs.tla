----------------------------- MODULE PagesProofs -----------------------------
(***************************************************************************)
(* Proofs about Pages for any users, keys, servers and addresses: what a   *)
(* page that is gathered over several statements may say.                  *)
(***************************************************************************)
EXTENDS Pages, TLAPS

\* A map of the page, with a line for some keys.
MapTo(V) == UNION {[K -> V] : K \in SUBSET Key}

KeysSteps == {"getKeys", "loadPeer", "loadServer", "done", "failed"}
FilterSteps == {"getPeers", "loadInterface", "done", "failed"}
StateSteps ==
  {"getWgDump", "getAllKeys", "getAllInterfaces", "loadKeys", "getAllPeers", "loadPeers",
   "filter", "done", "failed"}

PageRecord ==
  [op : {"none", "mykeys", "userkeys", "filterPeers", "getpeerstate"},
   at : {"idle"} \cup KeysSteps \cup FilterSteps \cup StateSteps,
   user : User \cup {None}, server : Server \cup {None}, key : Key \cup {None},
   field : Filter, state : SUBSET BOOLEAN, lines : SUBSET Key, counted : SUBSET Key,
   todo : SUBSET (Key \cup Server), listed : SUBSET (Key \cup Server),
   owner : MapTo(User), address : MapTo(HostAddress), peers : SUBSET Key]

\* Which handler is where, and for which user or server.
PlaceOK ==
  /\ page.op = "none" => page.at = "idle"
  /\ page.op \in {"mykeys", "userkeys"} => page.at \in KeysSteps /\ page.user \in User
  /\ page.op = "filterPeers" => page.at \in FilterSteps /\ page.server \in Server
  /\ page.op = "getpeerstate" => page.at \in StateSteps /\ page.server \in Server

\* What a row refers to has a row.
RowsOK ==
  \A k \in DOMAIN client :
    client[k].user \in DOMAIN profile /\ client[k].server \in server \cup {None}

Unchanged == Key \ changed

\* mykeys and userkeys: the keys that are through, at hand or to come.
KeysGathered ==
  page.todo \cup page.listed \cup (IF page.at = "loadServer" THEN {page.key} ELSE {})

KeysPageOK ==
  page.op \in {"mykeys", "userkeys"} =>
    /\ page.at = "getKeys" => /\ page.listed = {}
                              /\ page.user \in DOMAIN profile \cup changed
    /\ page.at \in {"loadPeer", "loadServer", "done"}
         => \A k \in Unchanged : k \in KeysGathered <=> k \in KeysOf(page.user)
    /\ page.at = "loadServer" /\ page.key \notin changed
         => client[page.key].server = page.server
    /\ page.at = "loadServer" => page.server \in server \cup changed
    /\ page.at \in {"loadPeer", "loadServer"} => page.todo \subseteq Key
    /\ page.at = "done" => page.todo = {}

\* filterPeers: the clients that match are shown or to come.
Matching(k) ==
  k \in DOMAIN client /\ k \in getServerInterfacePeersFiltered(page.server, page.field)

FilterPageOK ==
  page.op = "filterPeers" =>
    /\ page.at = "getPeers" => page.listed = {}
    /\ page.at \in {"loadInterface", "done"}
         => \A k \in Unchanged : k \in page.todo \cup page.listed <=> Matching(k)
    /\ page.at = "loadInterface" => page.todo \subseteq Key
    /\ page.at = "done" => page.todo = {}

\* getpeerstate: what the page knows of client k.
DumpOK(k) ==
  /\ k \in page.lines <=> k \in PeersOf(page.server)
  /\ k \in page.counted <=> k \in PeersOf(page.server) /\ k \in online

OwnerOK(k) ==
  /\ k \in DOMAIN page.owner <=> k \in page.lines /\ k \in DOMAIN client
  /\ k \in DOMAIN page.owner => page.owner[k] = client[k].user

AddressOK(k) ==
  /\ k \in DOMAIN page.address <=> k \in page.lines /\ k \in DOMAIN client
  /\ k \in DOMAIN page.address => page.address[k] = client[k].ip_address

\* What the page has still to read of client k has its row, or lost it.
KnownOK(k) ==
  /\ page.owner[k] \in DOMAIN profile \cup changed
  /\ page.at \in {"loadKeys", "getAllPeers", "loadPeers", "filter"}
       => k \in DOMAIN page.address \cup Lost(DOMAIN client)

StatePageOK ==
  page.op = "getpeerstate" =>
    /\ page.at = "getWgDump" => page.listed = {}
    /\ page.server \in server \cup changed
    /\ page.at \notin {"getWgDump", "failed"} => \A k \in Unchanged : DumpOK(k)
    /\ page.at \in {"getAllInterfaces", "loadKeys", "getAllPeers", "loadPeers", "filter"}
         => /\ Known \subseteq page.lines
            /\ \A k \in Unchanged : OwnerOK(k)
            /\ \A k \in Known : KnownOK(k)
    /\ page.at \in {"loadKeys", "getAllPeers", "loadPeers", "filter"}
         => \A k \in Unchanged : AddressOK(k)
    /\ page.at = "loadKeys" => page.todo \subseteq DOMAIN client \cup server \cup changed
    /\ page.at = "loadPeers" => page.todo \subseteq DOMAIN client \cup changed
    /\ page.at = "done" => \A k \in Unchanged : k \in page.listed <=> Expected(k)

\* Inductive: a fact about a client was right when it was read, and stays until
\* the client changes.
PInv ==
  /\ TypeOK /\ PageFailsOnlyRaced
  /\ page \in PageRecord /\ PlaceOK
  /\ RowsOK
  /\ KeysPageOK /\ FilterPageOK /\ StatePageOK

-----------------------------------------------------------------------------
\* What the environment may change

\* Nothing a page says about client k.
Same(k) ==
  /\ k \in DOMAIN client' <=> k \in DOMAIN client
  /\ k \in DOMAIN client => client'[k] = client[k]
  /\ \A s \in Server : k \in PeersOf(s)' <=> k \in PeersOf(s)
  /\ k \in online' <=> k \in online

OnlineOK == online \subseteq UNION {PeersOf(s) : s \in Server}

EnvironmentOK == DatabaseTypeOK /\ WireGuardTypeOK /\ RowsOK /\ OnlineOK

\* A change of what is in ids, and of nothing else that a page reads.
Framed(ids) ==
  /\ Change(ids) /\ ids \subseteq User \cup Server \cup Key
  /\ EnvironmentOK'
  /\ \A k \in Key \ ids : Same(k)
  /\ DOMAIN profile \ ids \subseteq DOMAIN profile'
  /\ server \ ids \subseteq server'
  /\ ~Answered => DOMAIN client' \cap changed \subseteq DOMAIN client

\* The interfaces stay, and with them their peers.
LEMMA SamePeers ==
  ASSUME WireGuardTypeOK, OnlineOK, UNCHANGED <<wg, online>>
  PROVE  /\ WireGuardTypeOK' /\ OnlineOK'
         /\ \A s : PeersOf(s)' = PeersOf(s)
BY DEF WireGuardTypeOK, OnlineOK, PeersOf

LEMMA SameTables ==
  ASSUME DatabaseTypeOK, RowsOK, UNCHANGED db
  PROVE  DatabaseTypeOK' /\ RowsOK'
BY DEF DatabaseTypeOK, RowsOK, db

LEMMA CreateUserFramed ==
  ASSUME EnvironmentOK, CreateUser PROVE \E ids : Framed(ids)
<1> DEFINE row == [verified |-> TRUE, key_limit |-> DefaultKeyLimit, key_count |-> 0]
<1>1. PICK u \in User : profile' = Put(profile, u, row)
  BY DEF CreateUser
<1>2. /\ Change({}) /\ UNCHANGED <<client, server, wg, online>>
      /\ row \in ProfileRow
  BY DatabaseAssumption DEF CreateUser, ProfileRow
<1> HIDE DEF row
<1>3. DatabaseTypeOK' /\ DOMAIN profile \subseteq DOMAIN profile'
  BY <1>1, <1>2 DEF EnvironmentOK, DatabaseTypeOK, IsTable, Put
<1>4. RowsOK'
  BY <1>2, <1>3 DEF EnvironmentOK, RowsOK
<1>5. Framed({})
  BY <1>2, <1>3, <1>4, SamePeers DEF Framed, EnvironmentOK, Same
<1> QED
  BY <1>5

LEMMA DeleteUserFramed ==
  ASSUME EnvironmentOK, DeleteUser PROVE \E ids : Framed(ids)
<1>1. PICK u \in DOMAIN profile : deleteUser(u) /\ Change(KeysOf(u) \cup {u})
  BY DEF DeleteUser
<1>2. UNCHANGED <<server, wg, online>>
  BY <1>1 DEF DeleteUser, deleteUser
<1>3. /\ DOMAIN client' = DOMAIN client \ KeysOf(u)
      /\ \A k \in DOMAIN client' : client'[k] = client[k]
      /\ DOMAIN profile' = DOMAIN profile \ {u}
      /\ \A v \in DOMAIN profile' : profile'[v] = profile[v]
  BY <1>1 DEF deleteUser, Delete, Restrict
<1>4. DatabaseTypeOK'
  BY <1>2, <1>3 DEF EnvironmentOK, DatabaseTypeOK, IsTable
<1>5. RowsOK'
  BY <1>2, <1>3 DEF EnvironmentOK, RowsOK, KeysOf
<1>6. KeysOf(u) \cup {u} \subseteq User \cup Server \cup Key
  BY DEF EnvironmentOK, DatabaseTypeOK, IsTable, KeysOf
<1>7. \A k \in Key \ (KeysOf(u) \cup {u}) : Same(k)
  BY <1>2, <1>3, SamePeers DEF Same, EnvironmentOK
<1>8. Framed(KeysOf(u) \cup {u})
  BY <1>1, <1>2, <1>3, <1>4, <1>5, <1>6, <1>7, SamePeers DEF Framed, EnvironmentOK
<1> QED
  BY <1>8

LEMMA NewClientFramed ==
  ASSUME EnvironmentOK, NewClient PROVE \E ids : Framed(ids)
<1>1. PICK u \in DOMAIN profile, s \in server, a \in HostAddress,
           k \in Key \ (DOMAIN client \cup Taken) :
        /\ saveClient(k, [user |-> u, ip_address |-> a, server |-> s], 0)
        /\ Change({k})
  BY DEF NewClient
<1> DEFINE row == [user |-> u, ip_address |-> a, server |-> s]
<1>2. row \in ClientRow
  BY DEF EnvironmentOK, DatabaseTypeOK, IsTable, ClientRow
<1>3. row.user = u /\ row.server = s
  OBVIOUS
<1>4. /\ client' = Put(client, k, row) /\ UNCHANGED <<server, wg, online>>
      /\ profile' = [profile EXCEPT ![u].key_count = 0]
  BY <1>1 DEF NewClient, saveClient
<1> HIDE DEF row
<1>5. /\ DOMAIN client' = DOMAIN client \cup {k} /\ client'[k] = row
      /\ \A j \in DOMAIN client : client'[j] = client[j]
  BY <1>1, <1>4 DEF Put
<1>6. DOMAIN profile' = DOMAIN profile /\ IsTable(profile', User, ProfileRow)
  BY <1>4 DEF EnvironmentOK, DatabaseTypeOK, IsTable, ProfileRow
<1>7. DatabaseTypeOK'
  BY <1>2, <1>4, <1>5, <1>6 DEF EnvironmentOK, DatabaseTypeOK, IsTable
<1>8. RowsOK'
  BY <1>3, <1>4, <1>5, <1>6 DEF EnvironmentOK, RowsOK
<1>9. \A j \in Key \ {k} : Same(j)
  BY <1>4, <1>5, SamePeers DEF Same, EnvironmentOK
<1>10. ~Answered => DOMAIN client' \cap changed \subseteq DOMAIN client
  BY <1>1, <1>5 DEF Taken
<1>11. Framed({k})
  BY <1>1, <1>4, <1>6, <1>7, <1>8, <1>9, <1>10, SamePeers DEF Framed, EnvironmentOK
<1> QED
  BY <1>11

LEMMA DeleteClientFramed ==
  ASSUME EnvironmentOK, DeleteClient PROVE \E ids : Framed(ids)
<1>1. PICK k \in DOMAIN client : deleteClient(k, client[k].user, 0) /\ Change({k})
  BY DEF DeleteClient
<1>2. /\ client' = Delete(client, {k}) /\ UNCHANGED <<server, wg, online>>
      /\ profile' = [profile EXCEPT ![client[k].user].key_count = 0]
  BY <1>1 DEF DeleteClient, deleteClient
<1>3. /\ DOMAIN client' = DOMAIN client \ {k}
      /\ \A j \in DOMAIN client' : client'[j] = client[j]
  BY <1>2 DEF Delete, Restrict
<1>4. DOMAIN profile' = DOMAIN profile /\ IsTable(profile', User, ProfileRow)
  BY <1>2 DEF EnvironmentOK, DatabaseTypeOK, IsTable, ProfileRow
<1>5. DatabaseTypeOK' /\ k \in Key
  BY <1>2, <1>3, <1>4 DEF EnvironmentOK, DatabaseTypeOK, IsTable
<1>6. RowsOK'
  BY <1>2, <1>3, <1>4 DEF EnvironmentOK, RowsOK
<1>7. \A j \in Key \ {k} : Same(j)
  BY <1>2, <1>3, SamePeers DEF Same, EnvironmentOK
<1>8. Framed({k})
  BY <1>1, <1>2, <1>3, <1>4, <1>5, <1>6, <1>7, SamePeers DEF Framed, EnvironmentOK
<1> QED
  BY <1>8

LEMMA SetPeerFramed ==
  ASSUME EnvironmentOK, SetPeer PROVE \E ids : Framed(ids)
<1>0. PICK s \in DOMAIN wg : \E k \in getClientInterfacesFromServer(s) :
        addWGPeer(s, k, client[k].ip_address) /\ Change({k})
  BY DEF SetPeer
<1>1. PICK k \in getClientInterfacesFromServer(s) :
        addWGPeer(s, k, client[k].ip_address) /\ Change({k})
  BY <1>0
<1>2. PICK a \in AllowedIps : a = client[k].ip_address /\ k \in Key
  BY DEF getClientInterfacesFromServer, EnvironmentOK, DatabaseTypeOK, IsTable, ClientRow,
     AllowedIps
<1>3. UNCHANGED <<db, online>> /\ wg' = [wg EXCEPT ![s] = Allow(@, k, a)]
  BY <1>1, <1>2 DEF SetPeer, addWGPeer, isWGserverUp
<1>4. /\ DOMAIN wg' = DOMAIN wg
      /\ \A i \in DOMAIN wg : i # s => wg'[i] = wg[i]
      /\ wg'[s] = Allow(wg[s], k, a)
  BY <1>3
<1>5. IsTable(wg'[s], Key, AllowedIps) /\ DOMAIN wg'[s] = DOMAIN wg[s] \cup {k}
  BY <1>2, <1>4 DEF EnvironmentOK, WireGuardTypeOK, IsTable, Allow, AllowedIps
<1>6. WireGuardTypeOK'
  BY <1>4, <1>5 DEF EnvironmentOK, WireGuardTypeOK
<1>7. /\ \A i : i # s => PeersOf(i)' = PeersOf(i)
      /\ PeersOf(s)' = PeersOf(s) \cup {k}
  BY <1>4, <1>5 DEF PeersOf
<1>8. OnlineOK'
  BY <1>3, <1>7 DEF EnvironmentOK, OnlineOK
<1>9. \A j \in Key \ {k} : Same(j)
  BY <1>3, <1>7 DEF Same, db
<1>10. Framed({k})
  BY <1>1, <1>2, <1>3, <1>6, <1>8, <1>9, SameTables DEF Framed, EnvironmentOK, db
<1> QED
  BY <1>10

LEMMA RemovePeerFramed ==
  ASSUME EnvironmentOK, RemovePeer PROVE \E ids : Framed(ids)
<1>0. PICK s \in DOMAIN wg : \E k \in DOMAIN wg[s] :
        removeWGPeer(s, k) /\ Change({k}) /\ online' = online \ {k}
  BY DEF RemovePeer
<1>1. PICK k \in DOMAIN wg[s] :
        removeWGPeer(s, k) /\ Change({k}) /\ online' = online \ {k}
  BY <1>0
<1>2. /\ UNCHANGED db /\ DOMAIN wg' = DOMAIN wg
      /\ \A i \in DOMAIN wg : i # s => wg'[i] = wg[i]
      /\ wg'[s] = Delete(wg[s], {k})
  BY <1>1 DEF RemovePeer, removeWGPeer, isWGserverUp
<1>3. /\ IsTable(wg'[s], Key, AllowedIps) /\ DOMAIN wg'[s] = DOMAIN wg[s] \ {k}
      /\ k \in Key
  BY <1>2 DEF EnvironmentOK, WireGuardTypeOK, IsTable, Delete, Restrict
<1>4. WireGuardTypeOK'
  BY <1>2, <1>3 DEF EnvironmentOK, WireGuardTypeOK
<1>5. /\ \A i : i # s => PeersOf(i)' = PeersOf(i)
      /\ PeersOf(s)' = PeersOf(s) \ {k}
  BY <1>2, <1>3 DEF PeersOf
<1>6. OnlineOK'
  BY <1>1, <1>5 DEF EnvironmentOK, OnlineOK
<1>7. \A j \in Key \ {k} : Same(j)
  BY <1>1, <1>2, <1>5 DEF Same, db
<1>8. Framed({k})
  BY <1>1, <1>2, <1>3, <1>4, <1>6, <1>7, SameTables DEF Framed, EnvironmentOK, db
<1> QED
  BY <1>8

LEMMA HandshakeFramed ==
  ASSUME EnvironmentOK, Handshake PROVE \E ids : Framed(ids)
<1>0. PICK s \in DOMAIN wg : \E k \in DOMAIN wg[s] :
        /\ online' = IF k \in online THEN online \ {k} ELSE online \cup {k}
        /\ Change({k})
  BY DEF Handshake
<1>1. PICK k \in DOMAIN wg[s] :
        /\ online' = IF k \in online THEN online \ {k} ELSE online \cup {k}
        /\ Change({k})
  BY <1>0
<1>2. UNCHANGED <<db, wg>> /\ k \in Key /\ s \in Server /\ k \in PeersOf(s)
  BY DEF Handshake, EnvironmentOK, WireGuardTypeOK, IsTable, PeersOf
<1>3. \A i : PeersOf(i)' = PeersOf(i)
  BY <1>2 DEF PeersOf
<1>4. OnlineOK' /\ WireGuardTypeOK'
  BY <1>1, <1>2, <1>3 DEF EnvironmentOK, OnlineOK, WireGuardTypeOK
<1>5. \A j \in Key \ {k} : Same(j)
  BY <1>1, <1>2, <1>3 DEF Same, db
<1>6. Framed({k})
  BY <1>1, <1>2, <1>4, <1>5, SameTables DEF Framed, EnvironmentOK, db
<1> QED
  BY <1>6

LEMMA StartServerFramed ==
  ASSUME EnvironmentOK, StartServer PROVE \E ids : Framed(ids)
<1>1. PICK s \in server \ DOMAIN wg :
        /\ wg' = Put(wg, s, [k \in getClientInterfacesFromServer(s) |-> client[k].ip_address])
        /\ Change(getClientInterfacesFromServer(s))
  BY DEF StartServer
<1> DEFINE C == getClientInterfacesFromServer(s)
           peers == [k \in C |-> client[k].ip_address]
<1>2. IsTable(peers, Key, AllowedIps) /\ C \subseteq Key /\ DOMAIN peers = C /\ s \in Server
  BY DEF getClientInterfacesFromServer, EnvironmentOK, DatabaseTypeOK, IsTable, ClientRow,
     AllowedIps
<1>3. UNCHANGED <<db, online>> /\ wg' = Put(wg, s, peers)
  BY <1>1 DEF StartServer
<1> HIDE DEF peers
<1>4. /\ DOMAIN wg' = DOMAIN wg \cup {s} /\ wg'[s] = peers
      /\ \A i \in DOMAIN wg : wg'[i] = wg[i]
  BY <1>1, <1>3 DEF Put
<1>5. WireGuardTypeOK'
  BY <1>2, <1>4 DEF EnvironmentOK, WireGuardTypeOK
<1>6. /\ \A i : i # s => PeersOf(i)' = PeersOf(i)
      /\ PeersOf(s)' = C /\ PeersOf(s) = {}
  BY <1>1, <1>2, <1>4 DEF PeersOf
<1>7. OnlineOK'
  BY <1>3, <1>6 DEF EnvironmentOK, OnlineOK
<1>8. \A j \in Key \ C : Same(j)
  BY <1>3, <1>6 DEF Same, db
<1>9. Framed(C)
  BY <1>1, <1>2, <1>3, <1>5, <1>7, <1>8, SameTables DEF Framed, EnvironmentOK, db
<1> QED
  BY <1>9

LEMMA StopServerFramed ==
  ASSUME EnvironmentOK, StopServer PROVE \E ids : Framed(ids)
<1>1. PICK s \in DOMAIN wg :
        stopWGserver(s) /\ Change(PeersOf(s)) /\ online' = online \ PeersOf(s)
  BY DEF StopServer
<1>2. /\ UNCHANGED db /\ DOMAIN wg' = DOMAIN wg \ {s}
      /\ \A i \in DOMAIN wg' : wg'[i] = wg[i]
  BY <1>1 DEF StopServer, stopWGserver, Delete, Restrict
<1>3. WireGuardTypeOK' /\ PeersOf(s) \subseteq Key
  BY <1>2 DEF EnvironmentOK, WireGuardTypeOK, IsTable, PeersOf
<1>4. (\A i : i # s => PeersOf(i)' = PeersOf(i)) /\ PeersOf(s)' = {}
  BY <1>2 DEF PeersOf
<1>5. OnlineOK'
  BY <1>1, <1>4 DEF EnvironmentOK, OnlineOK
<1>6. \A j \in Key \ PeersOf(s) : Same(j)
  BY <1>1, <1>2, <1>4 DEF Same, db
<1>7. Framed(PeersOf(s))
  BY <1>1, <1>2, <1>3, <1>5, <1>6, SameTables DEF Framed, EnvironmentOK, db
<1> QED
  BY <1>7

LEMMA CreateServerFramed ==
  ASSUME EnvironmentOK, CreateServer PROVE \E ids : Framed(ids)
<1>1. /\ Change({}) /\ UNCHANGED <<profile, client, wg, online>>
      /\ server \subseteq server' /\ server' \subseteq Server
  BY DEF CreateServer, EnvironmentOK, DatabaseTypeOK
<1>2. DatabaseTypeOK' /\ RowsOK'
  BY <1>1 DEF EnvironmentOK, DatabaseTypeOK, RowsOK
<1>3. Framed({})
  BY <1>1, <1>2, SamePeers DEF Framed, EnvironmentOK, Same
<1> QED
  BY <1>3

LEMMA DeleteServerFramed ==
  ASSUME EnvironmentOK, DeleteServer PROVE \E ids : Framed(ids)
<1>0. PICK s \in server : \E gone \in SUBSET getClientInterfacesFromServer(s) :
        /\ deleteServer(s, gone, [u \in DOMAIN profile |-> Unwritten])
        /\ Change(getClientInterfacesFromServer(s) \cup {s})
  BY DEF DeleteServer
<1>1. PICK gone \in SUBSET getClientInterfacesFromServer(s) :
        /\ deleteServer(s, gone, [u \in DOMAIN profile |-> Unwritten])
        /\ Change(getClientInterfacesFromServer(s) \cup {s})
  BY <1>0
<1> DEFINE C == getClientInterfacesFromServer(s)
<1>2. /\ server' = server \ {s} /\ UNCHANGED <<wg, online>>
      /\ DOMAIN profile' = DOMAIN profile
      /\ \A u \in DOMAIN profile : profile'[u] = profile[u]
      /\ client' = [k \in DOMAIN client \ gone |->
                      IF client[k].server = s THEN [client[k] EXCEPT !.server = None]
                                              ELSE client[k]]
  BY <1>1 DEF DeleteServer, deleteServer, EnvironmentOK, DatabaseTypeOK, IsTable
<1>3. C \cup {s} \subseteq User \cup Server \cup Key
  BY DEF getClientInterfacesFromServer, EnvironmentOK, DatabaseTypeOK, IsTable
<1>4. \A k \in Key \ (C \cup {s}) : Same(k)
  BY <1>1, <1>2, SamePeers DEF Same, getClientInterfacesFromServer, EnvironmentOK
<1>5. /\ DOMAIN client' = DOMAIN client \ gone
      /\ \A k \in DOMAIN client' :
           /\ client'[k] \in ClientRow
           /\ client'[k].user = client[k].user
           /\ client'[k].server = IF client[k].server = s THEN None ELSE client[k].server
  BY <1>2 DEF EnvironmentOK, DatabaseTypeOK, IsTable, ClientRow
<1>6. DatabaseTypeOK' /\ RowsOK'
  BY <1>2, <1>5 DEF EnvironmentOK, DatabaseTypeOK, IsTable, RowsOK
<1>7. Framed(C \cup {s})
  BY <1>1, <1>2, <1>3, <1>4, <1>6, SamePeers DEF Framed, EnvironmentOK
<1> QED
  BY <1>7

\* Whatever the environment does, it names what it changes.
LEMMA EnvironmentFramed ==
  ASSUME EnvironmentOK, Environment PROVE \E ids : Framed(ids)
BY CreateUserFramed, DeleteUserFramed, NewClientFramed, DeleteClientFramed, SetPeerFramed,
   RemovePeerFramed, HandshakeFramed, StartServerFramed, StopServerFramed,
   CreateServerFramed, DeleteServerFramed
DEF Environment

-----------------------------------------------------------------------------
\* No page, and a page in an environment that moves

LEMMA NoPageIsRecord == NoPage \in PageRecord
<1>1. << >> \in [{} -> User] /\ << >> \in [{} -> HostAddress]
  OBVIOUS
<1>2. << >> \in MapTo(User) /\ << >> \in MapTo(HostAddress)
  BY <1>1 DEF MapTo
<1>3. BOOLEAN \in SUBSET BOOLEAN /\ None \in Filter
  BY DEF Filter
<1> QED
  BY <1>2, <1>3 DEF NoPage, PageRecord

LEMMA NoPagePInv ==
  EnvironmentOK /\ page = NoPage /\ changed = {} => PInv
<1> SUFFICES ASSUME EnvironmentOK, page = NoPage, changed = {} PROVE PInv
  OBVIOUS
<1>1. /\ page.op = "none" /\ page.at = "idle" /\ page.field = None /\ page.state = BOOLEAN
      /\ page.todo = {} /\ page.counted = {} /\ page.lines = {}
  BY DEF NoPage
<1>2. TypeOK
  BY <1>1 DEF TypeOK, EnvironmentOK, OnlineOK, Filter
<1>3. PageFailsOnlyRaced /\ PlaceOK
  BY <1>1 DEF PageFailsOnlyRaced, PlaceOK
<1>4. KeysPageOK /\ FilterPageOK /\ StatePageOK
  BY <1>1 DEF KeysPageOK, FilterPageOK, StatePageOK
<1> QED
  BY <1>2, <1>3, <1>4, NoPageIsRecord DEF PInv, EnvironmentOK

LEMMA PInvEnvironmentOK == ASSUME PInv PROVE EnvironmentOK
BY DEF PInv, TypeOK, EnvironmentOK, OnlineOK

LEMMA EnvironmentStep ==
  ASSUME PInv, Environment PROVE PInv'
<1>1. EnvironmentOK
  BY PInvEnvironmentOK
<1>2. PICK ids : Framed(ids)
  BY <1>1, EnvironmentFramed
<1>3. CASE Answered
  <2>1. (EnvironmentOK /\ page = NoPage /\ changed = {})'
    BY <1>2, <1>3 DEF Framed, Change, NoPage
  <2> QED
    BY <2>1, NoPagePInv, PTL
<1>4. CASE ~Answered
  <2>1. /\ page' = page /\ changed' = changed \cup ids
        /\ page.at \notin {"idle", "done", "failed"}
    BY <1>2, <1>4 DEF Framed, Change, Answered
  <2>2. \A k \in Unchanged' : k \in Unchanged /\ Same(k)
    BY <1>2, <2>1 DEF Unchanged, Framed
  <2>3. TypeOK' /\ RowsOK'
    BY <1>2, <2>1 DEF Framed, PInv, TypeOK, EnvironmentOK, OnlineOK
  <2>4. PageFailsOnlyRaced' /\ PlaceOK' /\ (page \in PageRecord)'
    BY <2>1 DEF PInv, PageFailsOnlyRaced, PlaceOK
  <2>5. \A k \in Unchanged' : k \in KeysOf(page.user)' <=> k \in KeysOf(page.user)
    BY <2>1, <2>2 DEF Same, KeysOf
  <2>6. KeysPageOK'
    <3> SUFFICES ASSUME page.op \in {"mykeys", "userkeys"} PROVE KeysPageOK'
      BY <2>1 DEF KeysPageOK
    <3>1. page.at = "getKeys" =>
            page.listed = {} /\ page.user \in DOMAIN profile' \cup changed'
      BY <1>2, <2>1 DEF PInv, KeysPageOK, Framed
    <3>2. KeysGathered' = KeysGathered
      BY <2>1 DEF KeysGathered
    <3>3. page.at \in {"loadPeer", "loadServer"} =>
            \A k \in Unchanged' : k \in KeysGathered' <=> k \in KeysOf(page.user)'
      BY <2>2, <2>5, <3>2 DEF PInv, KeysPageOK
    <3>4. ASSUME page.at = "loadServer", page.key \notin changed'
          PROVE  client'[page.key].server = page.server
      <4>1. page.key \in Unchanged'
        BY <2>1, <3>4 DEF PInv, TypeOK, Unchanged
      <4>2. page.key \in Unchanged /\ Same(page.key)
        BY <2>2, <4>1
      <4>3. page.key \in KeysOf(page.user)
        BY <3>4, <4>2 DEF PInv, KeysPageOK, KeysGathered
      <4> QED
        BY <3>4, <4>2, <4>3 DEF PInv, KeysPageOK, KeysOf, Same, Unchanged
    <3>5. page.at = "loadServer" => page.server \in server' \cup changed'
      BY <1>2, <2>1 DEF PInv, KeysPageOK, Framed
    <3> QED
      BY <2>1, <3>1, <3>3, <3>4, <3>5 DEF PInv, KeysPageOK
  <2>7. FilterPageOK'
    <3>1. \A k \in Unchanged' : Matching(k)' <=> Matching(k)
      BY <2>1, <2>2 DEF Same, Matching, getServerInterfacePeersFiltered,
         getClientInterfacesFromServer
    <3> QED
      BY <2>1, <2>2, <3>1 DEF PInv, FilterPageOK
  <2>8. StatePageOK'
    <3> SUFFICES ASSUME page.op = "getpeerstate" PROVE StatePageOK'
      BY <2>1 DEF StatePageOK
    <3>1. page.server \in Server
      BY DEF PInv, PlaceOK
    <3>2. \A k \in Unchanged' : DumpOK(k) => DumpOK(k)'
      BY <2>1, <2>2, <3>1 DEF Same, DumpOK
    <3>3. \A k \in Unchanged' : OwnerOK(k) => OwnerOK(k)'
      BY <2>1, <2>2 DEF Same, OwnerOK
    <3>4. \A k \in Unchanged' : AddressOK(k) => AddressOK(k)'
      BY <2>1, <2>2 DEF Same, AddressOK
    <3>5. /\ DOMAIN client \subseteq DOMAIN client' \cup changed'
          /\ server \subseteq server' \cup changed'
          /\ DOMAIN profile \subseteq DOMAIN profile' \cup changed'
          /\ changed \subseteq changed'
      BY <1>1, <1>2, <2>1 DEF Framed, Same, EnvironmentOK, DatabaseTypeOK, IsTable
    <3>6. Lost(DOMAIN client) \subseteq Lost(DOMAIN client)'
      BY <1>2, <1>4, <3>5 DEF Framed, Lost
    <3>7. \A k : KnownOK(k) => KnownOK(k)'
      BY <2>1, <3>5, <3>6 DEF KnownOK, Lost
    <3>8. Known' = Known
      BY <2>1 DEF Known
    <3> QED
      BY <2>1, <2>2, <3>2, <3>3, <3>4, <3>5, <3>7, <3>8 DEF PInv, StatePageOK
  <2> QED
    BY <2>3, <2>4, <2>6, <2>7, <2>8 DEF PInv
<1> QED
  BY <1>3, <1>4

-----------------------------------------------------------------------------
\* mykeys and userkeys

\* A page action changes no row: what is left to show of the types.
LEMMA PageTypes ==
  ASSUME PInv, UNCHANGED rows, changed' \subseteq changed, page' \in PageRecord,
         page'.counted \subseteq page'.lines,
         page'.op = "getpeerstate" => page'.listed \subseteq page'.lines,
         page'.at = "loadServer" => page'.key \in Key /\ page'.server \in Server
  PROVE  TypeOK' /\ RowsOK'
<1>1. EnvironmentOK'
  BY PInvEnvironmentOK, SamePeers, SameTables DEF EnvironmentOK, rows
<1>2. /\ page'.field \in Filter /\ page'.state \subseteq BOOLEAN
      /\ page'.todo \subseteq Key \cup Server /\ page'.lines \subseteq Key
  BY DEF PageRecord
<1>3. changed' \subseteq User \cup Server \cup Key
  BY DEF PInv, TypeOK
<1> QED
  BY <1>1, <1>2, <1>3 DEF TypeOK, EnvironmentOK, OnlineOK

\* A page that raises: where it stands and what it shows no longer matter.
LEMMA RaiseStep ==
  ASSUME PInv, Raise, page.op # "none",
         Raced \/ KeyWithoutPeer
  PROVE  PInv'
<1>1. page' = [page EXCEPT !.at = "failed"] /\ UNCHANGED <<rows, changed>>
  BY DEF Raise, Go
<1>2. /\ page' \in PageRecord /\ page'.op = page.op /\ page'.user = page.user
      /\ page'.server = page.server /\ page'.listed = page.listed
      /\ page'.at = "failed" /\ page'.counted = page.counted /\ page'.lines = page.lines
  BY <1>1 DEF PInv, PageRecord, KeysSteps
<1>3. TypeOK' /\ RowsOK'
  BY <1>1, <1>2, PageTypes DEF PInv, TypeOK
<1>4. PlaceOK'
  BY <1>2 DEF PInv, PlaceOK, KeysSteps, FilterSteps, StateSteps
<1>5. PageFailsOnlyRaced'
  <2>1. /\ page'.todo = page.todo /\ page'.owner = page.owner
        /\ UNCHANGED <<DOMAIN profile, DOMAIN client, client, server, changed>>
    BY <1>1 DEF PInv, PageRecord, rows, db
  <2>2. Raced' <=> Raced
    BY <1>2, <2>1 DEF Raced, Lost, Known
  <2>3. KeyWithoutPeer' <=> KeyWithoutPeer
    BY <1>2, <2>1 DEF KeyWithoutPeer
  <2> QED
    BY <2>2, <2>3 DEF PageFailsOnlyRaced
<1>6. KeysPageOK' /\ FilterPageOK'
  BY <1>2 DEF KeysPageOK, FilterPageOK
<1>7. StatePageOK'
  BY <1>1, <1>2 DEF PInv, StatePageOK, rows, db
<1> QED
  BY <1>2, <1>3, <1>4, <1>5, <1>6, <1>7 DEF PInv

LEMMA UserPageStep ==
  ASSUME PInv, UserPage PROVE PInv'
<1>1. PICK u \in DOMAIN profile, op \in {"mykeys", "userkeys"} :
        Begin([NoPage EXCEPT !.op = op, !.at = "getKeys", !.user = u])
  BY DEF UserPage
<1>2. /\ page' = [NoPage EXCEPT !.op = op, !.at = "getKeys", !.user = u]
      /\ UNCHANGED rows /\ changed' = {} /\ u \in User
  BY <1>1 DEF Begin, PInv, TypeOK, DatabaseTypeOK, IsTable
<1>3. /\ page' \in PageRecord /\ page'.op = op /\ page'.at = "getKeys" /\ page'.user = u
      /\ page'.listed = {} /\ page'.counted = {}
  BY <1>2, NoPageIsRecord DEF PageRecord, NoPage, KeysSteps
<1>4. TypeOK' /\ RowsOK'
  BY <1>2, <1>3, PageTypes
<1>5. PageFailsOnlyRaced' /\ PlaceOK'
  BY <1>2, <1>3 DEF PageFailsOnlyRaced, PlaceOK, KeysSteps
<1>6. KeysPageOK' /\ FilterPageOK' /\ StatePageOK'
  BY <1>2, <1>3 DEF KeysPageOK, FilterPageOK, StatePageOK, rows, db
<1> QED
  BY <1>3, <1>4, <1>5, <1>6 DEF PInv

LEMMA GetKeysStep ==
  ASSUME PInv, GetKeys PROVE PInv'
<1>1. /\ page \in PageRecord /\ page.at = "getKeys" /\ page.op \in {"mykeys", "userkeys"}
      /\ page.user \in User /\ page.listed = {}
  BY DEF GetKeys, PInv, PlaceOK, KeysPageOK, FilterSteps, StateSteps, PageRecord
<1>2. KeysOf(page.user) \subseteq Key
  BY DEF PInv, TypeOK, DatabaseTypeOK, IsTable, KeysOf
<1>3. ASSUME Raise, page.op = "mykeys", page.user \notin DOMAIN profile
      PROVE  PInv'
  <2>1. Raced
    BY <1>1, <1>3 DEF PInv, KeysPageOK, Raced, Lost
  <2> QED
    BY <1>1, <1>3, <2>1, RaiseStep
<1>4. ASSUME Go([page EXCEPT !.at = "loadPeer", !.todo = KeysOf(page.user)])
      PROVE  PInv'
  <2>1. /\ page' = [page EXCEPT !.at = "loadPeer", !.todo = KeysOf(page.user)]
        /\ UNCHANGED <<rows, changed>>
    BY <1>4 DEF Go
  <2>2. /\ page' \in PageRecord /\ page'.op = page.op /\ page'.user = page.user
        /\ page'.at = "loadPeer" /\ page'.todo = KeysOf(page.user) /\ page'.listed = {}
        /\ page'.counted = page.counted /\ page'.lines = page.lines
    BY <1>1, <1>2, <2>1 DEF PageRecord, KeysSteps
  <2>3. TypeOK' /\ RowsOK'
    BY <1>1, <2>1, <2>2, PageTypes DEF PInv, TypeOK
  <2>4. PageFailsOnlyRaced' /\ PlaceOK'
    BY <1>1, <2>2 DEF PageFailsOnlyRaced, PlaceOK, KeysSteps
  <2>5. KeysOf(page.user)' = KeysOf(page.user)
    BY <2>1, <2>2 DEF KeysOf, rows, db
  <2>6. KeysPageOK'
    BY <1>1, <1>2, <2>2, <2>5 DEF KeysPageOK, KeysGathered
  <2>7. FilterPageOK' /\ StatePageOK'
    BY <1>1, <2>2 DEF FilterPageOK, StatePageOK
  <2> QED
    BY <2>2, <2>3, <2>4, <2>6, <2>7 DEF PInv
<1> QED
  BY <1>3, <1>4 DEF GetKeys

\* Showing, passing over or finishing keys, with the same gathered ones.
LEMMA KeysPageStep ==
  ASSUME PInv, UNCHANGED <<rows, changed>>, page' \in PageRecord,
         page.op \in {"mykeys", "userkeys"}, page.at \in {"loadPeer", "loadServer"},
         page'.at \in {"loadPeer", "loadServer", "done"},
         page'.op = page.op, page'.user = page.user,
         page'.counted = page.counted, page'.lines = page.lines,
         KeysGathered' = KeysGathered, page'.todo \subseteq page.todo,
         page'.at = "done" => page'.todo = {},
         page'.at = "loadServer" => /\ page'.key \in Key /\ page'.server \in Server
                                    /\ client[page'.key].server = page'.server
                                    /\ page'.server \in server
  PROVE  PInv'
<1>1. TypeOK' /\ RowsOK'
  BY PageTypes DEF PInv, TypeOK
<1>2. page.user \in User
  BY DEF PInv, PlaceOK
<1>3. PageFailsOnlyRaced' /\ PlaceOK'
  BY <1>2 DEF PageFailsOnlyRaced, PlaceOK, KeysSteps
<1>4. KeysOf(page.user)' = KeysOf(page.user) /\ Unchanged' = Unchanged
  BY DEF KeysOf, rows, db, Unchanged
<1>5. KeysPageOK'
  BY <1>4 DEF PInv, KeysPageOK, rows, db
<1>6. FilterPageOK' /\ StatePageOK'
  BY DEF FilterPageOK, StatePageOK
<1> QED
  BY <1>1, <1>3, <1>5, <1>6 DEF PInv

LEMMA LoadPeerStep ==
  ASSUME PInv, LoadPeer PROVE PInv'
<1>1. /\ page \in PageRecord /\ page.at = "loadPeer" /\ page.op \in {"mykeys", "userkeys"}
      /\ page.todo \subseteq Key
  BY DEF LoadPeer, PInv, PlaceOK, KeysPageOK, FilterSteps, StateSteps, PageRecord
<1>2. CASE Listed
  <2>1. /\ page.todo = {} /\ page' = [page EXCEPT !.at = "done"]
        /\ UNCHANGED <<rows, changed>>
    BY <1>2 DEF Listed, Go
  <2>2. /\ page' \in PageRecord /\ page'.op = page.op /\ page'.user = page.user
        /\ page'.at = "done" /\ page'.todo = page.todo /\ page'.listed = page.listed
        /\ page'.counted = page.counted /\ page'.lines = page.lines
    BY <1>1, <2>1 DEF PageRecord, KeysSteps
  <2>3. KeysGathered' = KeysGathered
    BY <1>1, <2>2 DEF KeysGathered
  <2> QED
    BY <1>1, <2>1, <2>2, <2>3, KeysPageStep
<1>3. ASSUME NEW k \in page.todo, HasPeer(k),
             Go([page EXCEPT !.at = "loadServer", !.todo = @ \ {k}, !.key = k,
                             !.server = client[k].server])
      PROVE  PInv'
  <2>1. /\ page' = [page EXCEPT !.at = "loadServer", !.todo = @ \ {k}, !.key = k,
                                !.server = client[k].server]
        /\ UNCHANGED <<rows, changed>>
    BY <1>3 DEF Go
  <2>2. k \in Key /\ client[k].server \in Server /\ client[k].server \in server
    BY <1>1, <1>3 DEF HasPeer, PInv, TypeOK, RowsOK, DatabaseTypeOK
  <2>3. /\ page' \in PageRecord /\ page'.op = page.op /\ page'.user = page.user
        /\ page'.at = "loadServer" /\ page'.todo = page.todo \ {k}
        /\ page'.listed = page.listed /\ page'.key = k /\ page'.server = client[k].server
        /\ page'.counted = page.counted /\ page'.lines = page.lines
    BY <1>1, <2>1, <2>2 DEF PageRecord, KeysSteps
  <2>4. KeysGathered' = KeysGathered
    BY <1>1, <1>3, <2>3 DEF KeysGathered
  <2> QED
    BY <1>1, <2>1, <2>2, <2>3, <2>4, KeysPageStep
<1>4. ASSUME NEW k \in page.todo, Show(k) PROVE PInv'
  <2>1. /\ page' = [page EXCEPT !.todo = @ \ {k}, !.listed = @ \cup {k}]
        /\ UNCHANGED <<rows, changed>>
    BY <1>4 DEF Show, Go
  <2>2. k \in Key
    BY <1>1, <1>4
  <2>3. /\ page' \in PageRecord /\ page'.op = page.op /\ page'.user = page.user
        /\ page'.at = page.at /\ page'.todo = page.todo \ {k}
        /\ page'.listed = page.listed \cup {k}
        /\ page'.counted = page.counted /\ page'.lines = page.lines
    BY <1>1, <2>1, <2>2 DEF PageRecord
  <2>4. KeysGathered' = KeysGathered
    BY <1>1, <1>4, <2>3 DEF KeysGathered
  <2> QED
    BY <1>1, <2>1, <2>2, <2>3, <2>4, KeysPageStep
<1>5. ASSUME NEW k \in page.todo, ~HasPeer(k), ~ShownWithoutServer, Raise PROVE PInv'
  <2>1. page.op = "mykeys" /\ k \in Key
    BY <1>1, <1>5 DEF ShownWithoutServer
  <2>2. CASE k \in DOMAIN client
    BY <1>5, <2>1, <2>2, RaiseStep DEF HasPeer, KeyWithoutPeer
  <2>3. CASE k \notin DOMAIN client
    <3>1. k \in changed
      BY <1>1, <1>5, <2>1, <2>3 DEF PInv, KeysPageOK, KeysGathered, Unchanged, KeysOf
    <3> QED
      BY <1>5, <2>1, <2>3, <3>1, RaiseStep DEF Raced, Lost
  <2> QED
    BY <2>2, <2>3
<1> QED
  BY <1>2, <1>3, <1>4, <1>5 DEF LoadPeer

LEMMA LoadServerStep ==
  ASSUME PInv, LoadServer PROVE PInv'
<1>1. /\ page \in PageRecord /\ page.at = "loadServer" /\ page.op \in {"mykeys", "userkeys"}
      /\ page.key \in Key /\ page.server \in Server
  BY DEF LoadServer, PInv, PlaceOK, TypeOK, FilterSteps, StateSteps, PageRecord
<1> DEFINE p == [page EXCEPT !.at = "loadPeer", !.listed = @ \cup {page.key}, !.key = None,
                             !.server = None]
<1>2. ASSUME Go(p) PROVE PInv'
  <2>1. page' = p /\ UNCHANGED <<rows, changed>>
    BY <1>2 DEF Go
  <2>2. /\ page' \in PageRecord /\ page'.op = page.op /\ page'.user = page.user
        /\ page'.at = "loadPeer" /\ page'.todo = page.todo
        /\ page'.listed = page.listed \cup {page.key}
        /\ page'.counted = page.counted /\ page'.lines = page.lines
    BY <1>1, <2>1 DEF PageRecord, KeysSteps
  <2> HIDE DEF p
  <2>3. KeysGathered' = KeysGathered
    BY <1>1, <2>2 DEF KeysGathered
  <2> QED
    BY <1>1, <2>1, <2>2, <2>3, KeysPageStep
<1>3. ASSUME Raise, page.server \notin server PROVE PInv'
  <2>1. page.server \in changed
    BY <1>1, <1>3 DEF PInv, KeysPageOK
  <2>2. Raced
    BY <1>1, <1>3, <2>1 DEF Raced, Lost
  <2> QED
    BY <1>1, <1>3, <2>2, RaiseStep
<1> QED
  BY <1>2, <1>3 DEF LoadServer

-----------------------------------------------------------------------------
\* filterPeers

LEMMA FilterPeersStep ==
  ASSUME PInv, FilterPeers PROVE PInv'
<1>1. PICK s \in server :
        Begin([NoPage EXCEPT !.op = "filterPeers", !.at = "getPeers", !.server = s])
  BY DEF FilterPeers
<1>2. /\ page' = [NoPage EXCEPT !.op = "filterPeers", !.at = "getPeers", !.server = s]
      /\ UNCHANGED rows /\ changed' = {} /\ s \in Server
  BY <1>1 DEF Begin, PInv, TypeOK, DatabaseTypeOK
<1>3. /\ page' \in PageRecord /\ page'.op = "filterPeers" /\ page'.at = "getPeers"
      /\ page'.server = s /\ page'.listed = {} /\ page'.counted = {}
  BY <1>2, NoPageIsRecord DEF PageRecord, NoPage, FilterSteps
<1>4. TypeOK' /\ RowsOK'
  BY <1>2, <1>3, PageTypes
<1>5. PageFailsOnlyRaced' /\ PlaceOK'
  BY <1>2, <1>3 DEF PageFailsOnlyRaced, PlaceOK, FilterSteps
<1>6. KeysPageOK' /\ FilterPageOK' /\ StatePageOK'
  BY <1>2, <1>3 DEF KeysPageOK, FilterPageOK, StatePageOK
<1> QED
  BY <1>3, <1>4, <1>5, <1>6 DEF PInv

\* Steps of filterPeers that keep the clients that match.
LEMMA FilterPageStep ==
  ASSUME PInv, UNCHANGED <<rows, changed>>, page' \in PageRecord,
         page.op = "filterPeers", page'.op = page.op, page'.server = page.server,
         page'.at \in {"loadInterface", "done"},
         page'.counted = page.counted, page'.lines = page.lines,
         page'.todo \subseteq Key, page'.at = "done" => page'.todo = {},
         \A k \in Unchanged : k \in page'.todo \cup page'.listed <=> Matching(k)'
  PROVE  PInv'
<1>1. TypeOK' /\ RowsOK'
  BY PageTypes DEF PInv, TypeOK
<1>2. page.server \in Server
  BY DEF PInv, PlaceOK
<1>3. PageFailsOnlyRaced' /\ PlaceOK'
  BY <1>2 DEF PageFailsOnlyRaced, PlaceOK, FilterSteps
<1>4. FilterPageOK'
  BY DEF FilterPageOK, Unchanged
<1>5. KeysPageOK' /\ StatePageOK'
  BY DEF KeysPageOK, StatePageOK
<1> QED
  BY <1>1, <1>3, <1>4, <1>5 DEF PInv

LEMMA GetPeersStep ==
  ASSUME PInv, GetPeers PROVE PInv'
<1>1. /\ page \in PageRecord /\ page.at = "getPeers" /\ page.op = "filterPeers"
      /\ page.server \in Server /\ page.listed = {}
  BY DEF GetPeers, PInv, PlaceOK, FilterPageOK, KeysSteps, StateSteps, PageRecord
<1>2. PICK field \in Filter :
        Go([page EXCEPT !.at = "loadInterface", !.field = field,
                        !.todo = getServerInterfacePeersFiltered(page.server, field)])
  BY DEF GetPeers
<1> DEFINE peers == getServerInterfacePeersFiltered(page.server, field)
<1>3. peers \subseteq Key /\ peers \subseteq DOMAIN client
  BY DEF PInv, TypeOK, DatabaseTypeOK, IsTable, getServerInterfacePeersFiltered,
     getClientInterfacesFromServer
<1>4. /\ page' = [page EXCEPT !.at = "loadInterface", !.field = field, !.todo = peers]
      /\ UNCHANGED <<rows, changed>>
  BY <1>2 DEF Go
<1>6. \A k \in Key : k \in peers <=> /\ k \in DOMAIN client
                                     /\ client[k].server = page.server
                                     /\ Matches(field, client[k].user, client[k].ip_address)
  BY DEF getServerInterfacePeersFiltered, getClientInterfacesFromServer
<1> HIDE DEF peers
<1>7. /\ page' \in PageRecord /\ page'.op = page.op /\ page'.server = page.server
      /\ page'.at = "loadInterface" /\ page'.todo = peers /\ page'.listed = {}
      /\ page'.field = field /\ page'.counted = page.counted /\ page'.lines = page.lines
  BY <1>1, <1>3, <1>4 DEF PageRecord, FilterSteps
<1>8. \A k \in Key : Matching(k)' <=> k \in peers
  BY <1>4, <1>6, <1>7 DEF Matching, getServerInterfacePeersFiltered,
     getClientInterfacesFromServer, rows, db
<1> QED
  BY <1>1, <1>3, <1>4, <1>7, <1>8, FilterPageStep DEF Unchanged

LEMMA LoadInterfaceStep ==
  ASSUME PInv, LoadInterface PROVE PInv'
<1>1. /\ page \in PageRecord /\ page.at = "loadInterface" /\ page.op = "filterPeers"
      /\ page.todo \subseteq Key
      /\ \A k \in Unchanged : k \in page.todo \cup page.listed <=> Matching(k)
  BY DEF LoadInterface, PInv, PlaceOK, FilterPageOK, KeysSteps, StateSteps, PageRecord
<1>2. ASSUME UNCHANGED rows, page'.server = page.server, page'.field = page.field
      PROVE  \A k : Matching(k)' <=> Matching(k)
  BY <1>2 DEF Matching, getServerInterfacePeersFiltered, getClientInterfacesFromServer,
     rows, db
<1>3. CASE Listed
  <2>1. /\ page.todo = {} /\ page' = [page EXCEPT !.at = "done"]
        /\ UNCHANGED <<rows, changed>>
    BY <1>3 DEF Listed, Go
  <2>2. /\ page' \in PageRecord /\ page'.op = page.op /\ page'.server = page.server
        /\ page'.at = "done" /\ page'.todo = page.todo /\ page'.listed = page.listed
        /\ page'.field = page.field
        /\ page'.counted = page.counted /\ page'.lines = page.lines
    BY <1>1, <2>1 DEF PageRecord, FilterSteps
  <2> QED
    BY <1>1, <1>2, <2>1, <2>2, FilterPageStep
<1>4. ASSUME NEW k \in page.todo, Show(k) PROVE PInv'
  <2>1. /\ page' = [page EXCEPT !.todo = @ \ {k}, !.listed = @ \cup {k}]
        /\ UNCHANGED <<rows, changed>>
    BY <1>4 DEF Show, Go
  <2>2. /\ page' \in PageRecord /\ page'.op = page.op /\ page'.server = page.server
        /\ page'.at = page.at /\ page'.todo = page.todo \ {k}
        /\ page'.listed = page.listed \cup {k} /\ page'.field = page.field
        /\ page'.counted = page.counted /\ page'.lines = page.lines
    BY <1>1, <1>4, <2>1 DEF PageRecord
  <2>3. page'.todo \cup page'.listed = page.todo \cup page.listed
    BY <1>4, <2>2
  <2> QED
    BY <1>1, <1>2, <2>1, <2>2, <2>3, FilterPageStep
<1>5. ASSUME NEW k \in page.todo, k \notin DOMAIN client, Raise PROVE PInv'
  <2>1. k \in changed
    BY <1>1, <1>5 DEF Unchanged, Matching
  <2>2. Raced
    BY <1>5, <2>1 DEF Raced, Lost
  <2> QED
    BY <1>1, <1>5, <2>2, RaiseStep
<1> QED
  BY <1>3, <1>4, <1>5 DEF LoadInterface

-----------------------------------------------------------------------------
\* getpeerstate

LEMMA GetPeerStateStep ==
  ASSUME PInv, GetPeerState PROVE PInv'
<1>1. PICK s \in server :
        Begin([NoPage EXCEPT !.op = "getpeerstate", !.at = "getWgDump", !.server = s])
  BY DEF GetPeerState
<1>2. /\ page' = [NoPage EXCEPT !.op = "getpeerstate", !.at = "getWgDump", !.server = s]
      /\ UNCHANGED rows /\ changed' = {} /\ s \in Server
  BY <1>1 DEF Begin, PInv, TypeOK, DatabaseTypeOK
<1>3. /\ page' \in PageRecord /\ page'.op = "getpeerstate" /\ page'.at = "getWgDump"
      /\ page'.server = s /\ page'.listed = {} /\ page'.counted = {}
  BY <1>2, NoPageIsRecord DEF PageRecord, NoPage, StateSteps
<1>4. TypeOK' /\ RowsOK'
  BY <1>2, <1>3, PageTypes
<1>5. PageFailsOnlyRaced' /\ PlaceOK'
  BY <1>2, <1>3 DEF PageFailsOnlyRaced, PlaceOK, StateSteps
<1>6. StatePageOK'
  BY <1>1, <1>2, <1>3 DEF StatePageOK, rows, db
<1>7. KeysPageOK' /\ FilterPageOK'
  BY <1>3 DEF KeysPageOK, FilterPageOK
<1> QED
  BY <1>3, <1>4, <1>5, <1>6, <1>7 DEF PInv

\* Reading on after the dump, with the lines of the dump and the list empty.
LEMMA StatePageStep ==
  ASSUME PInv, UNCHANGED <<rows, changed>>, page' \in PageRecord,
         page.op = "getpeerstate", page'.op = page.op, page'.server = page.server,
         page'.at \in StateSteps \ {"getWgDump", "failed"},
         page'.counted \subseteq page'.lines, page'.listed \subseteq page'.lines,
         StatePageOK'
  PROVE  PInv'
<1>1. TypeOK' /\ RowsOK'
  BY PageTypes DEF PInv, TypeOK, StateSteps
<1>2. page.server \in Server
  BY DEF PInv, PlaceOK
<1>3. PageFailsOnlyRaced' /\ PlaceOK'
  BY <1>2 DEF PageFailsOnlyRaced, PlaceOK, StateSteps
<1>4. KeysPageOK' /\ FilterPageOK'
  BY DEF KeysPageOK, FilterPageOK
<1> QED
  BY <1>1, <1>3, <1>4 DEF PInv

\* What the page knows stays right while it reads on.
LEMMA KnownStays ==
  ASSUME UNCHANGED <<rows, changed>>, page'.server = page.server
  PROVE  /\ Unchanged' = Unchanged
         /\ page'.lines = page.lines /\ page'.counted = page.counted
              => \A k : DumpOK(k)' <=> DumpOK(k)
         /\ page'.lines = page.lines /\ page'.owner = page.owner
              => \A k : OwnerOK(k)' <=> OwnerOK(k)
         /\ page'.lines = page.lines /\ page'.address = page.address
              => \A k : AddressOK(k)' <=> AddressOK(k)
<1>1. Unchanged' = Unchanged
  BY DEF Unchanged
<1>2. \A s : PeersOf(s)' = PeersOf(s)
  BY DEF PeersOf, rows
<1> QED
  BY <1>1, <1>2 DEF DumpOK, OwnerOK, AddressOK, rows, db, PeersOf

LEMMA KnownOKStays ==
  ASSUME UNCHANGED <<rows, changed>>, page'.owner = page.owner, page'.address = page.address,
         page.at \in {"loadKeys", "getAllPeers", "loadPeers", "filter"}
  PROVE  Known' = Known /\ \A k : KnownOK(k) => KnownOK(k)'
BY DEF Known, KnownOK, Lost, rows, db

LEMMA GetWgDumpStep ==
  ASSUME PInv, GetWgDump PROVE PInv'
<1> DEFINE next == IF isWGserverUp(page.server) THEN "getAllKeys" ELSE "done"
           peers == PeersOf(page.server)
<1>1. /\ page \in PageRecord /\ page.at = "getWgDump" /\ page.op = "getpeerstate"
      /\ page.server \in Server /\ page.listed = {}
  BY DEF GetWgDump, PInv, PlaceOK, StatePageOK, KeysSteps, FilterSteps, PageRecord
<1>2. /\ page' = [page EXCEPT !.at = next, !.lines = peers, !.counted = peers \cap online]
      /\ UNCHANGED <<rows, changed>>
  BY DEF GetWgDump, Go
<1>3. peers \subseteq Key /\ next \in {"getAllKeys", "done"}
  BY DEF PInv, TypeOK, WireGuardTypeOK, IsTable, PeersOf
<1>4. next = "done" => peers = {}
  BY DEF PeersOf, isWGserverUp
<1> HIDE DEF next
<1>6. /\ page' \in PageRecord /\ page'.op = page.op /\ page'.server = page.server
      /\ page'.at = next /\ page'.lines = peers /\ page'.counted = peers \cap online
      /\ page'.listed = {}
  BY <1>1, <1>2, <1>3 DEF PageRecord, StateSteps
<1>7. PeersOf(page.server)' = peers
  BY <1>2, <1>6 DEF PeersOf, rows
<1>8. \A k : DumpOK(k)'
  BY <1>2, <1>6, <1>7 DEF DumpOK, rows
<1>9. next = "done" => \A k : ~Expected(k)'
  BY <1>1, <1>4, <1>6, <1>7 DEF Expected
<1>10. StatePageOK'
  BY <1>1, <1>2, <1>3, <1>6, <1>8, <1>9 DEF PInv, StatePageOK, rows, db
<1> QED
  BY <1>1, <1>2, <1>3, <1>6, <1>10, StatePageStep DEF StateSteps

LEMMA GetAllKeysStep ==
  ASSUME PInv, GetAllKeys PROVE PInv'
<1> DEFINE owner == [k \in page.lines \cap DOMAIN client |-> client[k].user]
<1>1. /\ page \in PageRecord /\ page.at = "getAllKeys" /\ page.op = "getpeerstate"
      /\ page.counted \subseteq page.lines /\ page.listed \subseteq page.lines
      /\ page.lines \subseteq Key
  BY DEF GetAllKeys, PInv, PlaceOK, TypeOK, KeysSteps, FilterSteps, PageRecord
<1>2. /\ page' = [page EXCEPT !.at = "getAllInterfaces", !.owner = owner]
      /\ UNCHANGED <<rows, changed>>
  BY DEF GetAllKeys, Go
<1>3. /\ owner \in MapTo(User)
      /\ DOMAIN owner = page.lines \cap DOMAIN client
      /\ \A k \in DOMAIN owner : owner[k] = client[k].user
  <2>1. owner \in [page.lines \cap DOMAIN client -> User]
    BY DEF PInv, TypeOK, DatabaseTypeOK, IsTable, ClientRow
  <2>2. page.lines \cap DOMAIN client \in SUBSET Key
    BY <1>1
  <2> HIDE DEF owner
  <2>3. owner \in MapTo(User)
    BY <2>1, <2>2 DEF MapTo
  <2> QED
    BY <2>3 DEF owner
<1> HIDE DEF owner
<1>4. /\ page' \in PageRecord /\ page'.op = page.op /\ page'.server = page.server
      /\ page'.at = "getAllInterfaces" /\ page'.owner = owner /\ page'.lines = page.lines
      /\ page'.counted = page.counted /\ page'.listed = page.listed
  BY <1>1, <1>2, <1>3 DEF PageRecord, StateSteps
<1>5. \A k : OwnerOK(k)'
  BY <1>2, <1>3, <1>4 DEF OwnerOK, rows, db
<1>6. Known' = DOMAIN owner /\ \A k \in Known' : KnownOK(k)'
  BY <1>2, <1>3, <1>4 DEF Known, KnownOK, PInv, RowsOK, rows, db
<1>7. StatePageOK'
  BY <1>1, <1>2, <1>3, <1>4, <1>5, <1>6, KnownStays DEF PInv, StatePageOK, rows, db
<1> QED
  BY <1>1, <1>2, <1>4, <1>7, StatePageStep DEF StateSteps

LEMMA GetAllInterfacesStep ==
  ASSUME PInv, GetAllInterfaces PROVE PInv'
<1> DEFINE address == [k \in page.lines \cap DOMAIN client |-> client[k].ip_address]
           todo == DOMAIN client \cup server
<1>1. /\ page \in PageRecord /\ page.at = "getAllInterfaces" /\ page.op = "getpeerstate"
      /\ page.counted \subseteq page.lines /\ page.listed \subseteq page.lines
      /\ page.lines \subseteq Key
  BY DEF GetAllInterfaces, PInv, PlaceOK, TypeOK, KeysSteps, FilterSteps, PageRecord
<1>2. /\ page' = [page EXCEPT !.at = "loadKeys", !.todo = todo, !.address = address]
      /\ UNCHANGED <<rows, changed>>
  BY DEF GetAllInterfaces, Go
<1>3. /\ address \in MapTo(HostAddress)
      /\ DOMAIN address = page.lines \cap DOMAIN client
      /\ \A k \in DOMAIN address : address[k] = client[k].ip_address
  <2>1. address \in [page.lines \cap DOMAIN client -> HostAddress]
    BY DEF PInv, TypeOK, DatabaseTypeOK, IsTable, ClientRow
  <2>2. page.lines \cap DOMAIN client \in SUBSET Key
    BY <1>1
  <2> HIDE DEF address
  <2>3. address \in MapTo(HostAddress)
    BY <2>1, <2>2 DEF MapTo
  <2> QED
    BY <2>3 DEF address
<1>4. todo \in SUBSET (Key \cup Server)
  BY DEF PInv, TypeOK, DatabaseTypeOK, IsTable
<1> HIDE DEF address
<1>5. /\ page' \in PageRecord /\ page'.op = page.op /\ page'.server = page.server
      /\ page'.at = "loadKeys" /\ page'.todo = todo /\ page'.address = address
      /\ page'.owner = page.owner /\ page'.lines = page.lines
      /\ page'.counted = page.counted /\ page'.listed = page.listed
  BY <1>1, <1>2, <1>3, <1>4 DEF PageRecord, StateSteps
<1>6. \A k : AddressOK(k)'
  BY <1>2, <1>3, <1>5 DEF AddressOK, rows, db
<1>7. Known' = Known /\ \A k \in Known' : KnownOK(k)'
  <2>1. Known' = Known
    BY <1>5 DEF Known
  <2>2. ASSUME NEW k \in Known PROVE KnownOK(k)'
    <3>1. k \in page.lines /\ k \in Key /\ page.owner[k] \in DOMAIN profile \cup changed
      BY <1>1 DEF PInv, StatePageOK, KnownOK
    <3>2. k \in Unchanged => k \in DOMAIN client
      BY <1>1 DEF PInv, StatePageOK, OwnerOK, Known
    <3>3. k \in DOMAIN address \cup Lost(DOMAIN client)
      BY <1>3, <3>1, <3>2 DEF Unchanged, Lost
    <3> QED
      BY <1>2, <1>5, <3>1, <3>3 DEF KnownOK, Lost, rows, db
  <2> QED
    BY <2>1, <2>2
<1>8. StatePageOK'
  BY <1>1, <1>2, <1>5, <1>6, <1>7, KnownStays DEF PInv, StatePageOK, rows, db
<1> QED
  BY <1>1, <1>2, <1>5, <1>8, StatePageStep DEF StateSteps

\* Reading the rows of the keys and the peers, once the maps are made.
LEMMA RowsReadStep ==
  ASSUME PInv, UNCHANGED <<rows, changed>>, page' \in PageRecord,
         page.op = "getpeerstate", page'.op = page.op, page'.server = page.server,
         page.at \in {"loadKeys", "getAllPeers", "loadPeers"},
         page'.at \in {"loadKeys", "getAllPeers", "loadPeers", "filter"},
         page'.lines = page.lines, page'.counted = page.counted,
         page'.owner = page.owner, page'.address = page.address,
         page'.listed = page.listed,
         page'.at = "loadKeys" => page'.todo \subseteq DOMAIN client \cup server \cup changed,
         page'.at = "loadPeers" => page'.todo \subseteq DOMAIN client \cup changed
  PROVE  PInv'
<1>1. page'.counted \subseteq page'.lines /\ page'.listed \subseteq page'.lines
  BY DEF PInv, TypeOK
<1>2. Known' = Known /\ \A k \in Known : KnownOK(k) => KnownOK(k)'
  BY KnownOKStays
<1>3. Known \subseteq page.lines /\ \A k \in Known : KnownOK(k)
  BY DEF PInv, StatePageOK
<1>4. StatePageOK'
  BY <1>2, <1>3, KnownStays DEF PInv, StatePageOK, rows, db
<1> QED
  BY <1>1, <1>4, StatePageStep DEF StateSteps

LEMMA LoadKeysStep ==
  ASSUME PInv, LoadKeys PROVE PInv'
<1>1. /\ page \in PageRecord /\ page.at = "loadKeys" /\ page.op = "getpeerstate"
      /\ page.todo \subseteq DOMAIN client \cup server \cup changed
  BY DEF LoadKeys, PInv, PlaceOK, StatePageOK, KeysSteps, FilterSteps, PageRecord
<1>2. ASSUME Go([page EXCEPT !.at = "getAllPeers"]) PROVE PInv'
  <2>1. page' = [page EXCEPT !.at = "getAllPeers"] /\ UNCHANGED <<rows, changed>>
    BY <1>2 DEF Go
  <2>2. page' \in PageRecord
    BY <1>1, <2>1 DEF PageRecord, StateSteps
  <2> QED
    BY <1>1, <2>1, <2>2, RowsReadStep DEF PageRecord
<1>3. ASSUME NEW i \in page.todo, Skip(i) PROVE PInv'
  <2>1. page' = [page EXCEPT !.todo = @ \ {i}] /\ UNCHANGED <<rows, changed>>
    BY <1>3 DEF Skip, Go
  <2>2. page' \in PageRecord /\ page'.todo = page.todo \ {i}
    BY <1>1, <2>1 DEF PageRecord
  <2> QED
    BY <1>1, <2>1, <2>2, RowsReadStep DEF PageRecord
<1>4. ASSUME NEW i \in page.todo, i \notin DOMAIN client \cup server, Raise PROVE PInv'
  <2>1. Raced
    BY <1>1, <1>4 DEF Raced, Lost
  <2> QED
    BY <1>1, <1>4, <2>1, RaiseStep
<1> QED
  BY <1>2, <1>3, <1>4 DEF LoadKeys

LEMMA GetAllPeersStep ==
  ASSUME PInv, GetAllPeers PROVE PInv'
<1> DEFINE peers == {k \in DOMAIN client : client[k].server # None}
<1>1. /\ page \in PageRecord /\ page.at = "getAllPeers" /\ page.op = "getpeerstate"
      /\ page.lines \subseteq Key
  BY DEF GetAllPeers, PInv, PlaceOK, TypeOK, KeysSteps, FilterSteps, PageRecord
<1>2. /\ page' = [page EXCEPT !.at = "loadPeers", !.todo = peers,
                              !.peers = peers \cap page.lines]
      /\ UNCHANGED <<rows, changed>>
  BY DEF GetAllPeers, Go
<1>3. peers \subseteq DOMAIN client /\ peers \subseteq Key
  BY DEF PInv, TypeOK, DatabaseTypeOK, IsTable
<1> HIDE DEF peers
<1>4. page' \in PageRecord /\ page'.todo = peers
  BY <1>1, <1>2, <1>3 DEF PageRecord, StateSteps
<1> QED
  BY <1>1, <1>2, <1>3, <1>4, RowsReadStep DEF PageRecord

LEMMA LoadPeersStep ==
  ASSUME PInv, LoadPeers PROVE PInv'
<1>1. /\ page \in PageRecord /\ page.at = "loadPeers" /\ page.op = "getpeerstate"
      /\ page.todo \subseteq DOMAIN client \cup changed
  BY DEF LoadPeers, PInv, PlaceOK, StatePageOK, KeysSteps, FilterSteps, PageRecord
<1>2. ASSUME Go([page EXCEPT !.at = "filter"]) PROVE PInv'
  <2>1. page' = [page EXCEPT !.at = "filter"] /\ UNCHANGED <<rows, changed>>
    BY <1>2 DEF Go
  <2>2. page' \in PageRecord
    BY <1>1, <2>1 DEF PageRecord, StateSteps
  <2> QED
    BY <1>1, <2>1, <2>2, RowsReadStep DEF PageRecord
<1>3. ASSUME NEW k \in page.todo, Skip(k) PROVE PInv'
  <2>1. page' = [page EXCEPT !.todo = @ \ {k}] /\ UNCHANGED <<rows, changed>>
    BY <1>3 DEF Skip, Go
  <2>2. page' \in PageRecord /\ page'.todo = page.todo \ {k}
    BY <1>1, <2>1 DEF PageRecord
  <2> QED
    BY <1>1, <2>1, <2>2, RowsReadStep DEF PageRecord
<1>4. ASSUME NEW k \in page.todo, k \notin DOMAIN client, Raise PROVE PInv'
  <2>1. Raced
    BY <1>1, <1>4 DEF Raced, Lost
  <2> QED
    BY <1>1, <1>4, <2>1, RaiseStep
<1> QED
  BY <1>2, <1>3, <1>4 DEF LoadPeers

\* Every user and server the filter and the names ask for has its row, or lost it.
LEMMA FilterRaisesOnlyRaced ==
  ASSUME PInv, page.at = "filter", page.op = "getpeerstate", NEW field \in Filter,
         NEW state, FilterRaises(field) \/ \E k \in Filtered(field, state) : NameRaises(k)
  PROVE  Raced
<1>1. /\ \A k \in Known : KnownOK(k)
      /\ page.server \in server \cup changed
  BY DEF PInv, StatePageOK
<1>2. ASSUME FilterRaises(field) PROVE Raced
  <2>1. PICK k \in Known : \/ page.owner[k] \notin DOMAIN profile
                          \/ k \notin DOMAIN page.address
    BY <1>2 DEF FilterRaises
  <2> QED
    BY <1>1, <2>1 DEF KnownOK, Raced, Lost
<1>3. ASSUME NEW k \in Filtered(field, state), NameRaises(k) PROVE Raced
  <2>1. k \in Known
    BY DEF Filtered
  <2> QED
    BY <1>1, <1>3, <2>1 DEF NameRaises, KnownOK, Raced, Lost
<1> QED
  BY <1>2, <1>3

\* A client that did not change passes the filter exactly when it should be shown.
LEMMA FilteredIsExpected ==
  ASSUME PInv, page.at = "filter", page.op = "getpeerstate", NEW field, NEW state,
         NEW k \in Unchanged
  PROVE  k \in Filtered(field, state) <=>
           /\ k \in DOMAIN client /\ k \in PeersOf(page.server)
           /\ Matches(field, client[k].user, client[k].ip_address)
           /\ (k \in online) \in state
<1>1. DumpOK(k) /\ OwnerOK(k) /\ AddressOK(k)
  BY DEF PInv, StatePageOK
<1>2. k \in Known <=> k \in DOMAIN client /\ k \in PeersOf(page.server)
  BY <1>1 DEF DumpOK, OwnerOK, Known
<1>3. CASE k \in Known
  <2>1. /\ k \in DOMAIN client /\ k \in PeersOf(page.server)
        /\ page.owner[k] = client[k].user
        /\ k \in DOMAIN page.address /\ page.address[k] = client[k].ip_address
        /\ k \in page.counted <=> k \in online
    BY <1>1, <1>2, <1>3 DEF DumpOK, OwnerOK, AddressOK, Known
  <2>2. (k \in page.counted) \in state <=> (k \in online) \in state
    <3>1. (k \in page.counted) = (k \in online)
      BY <2>1
    <3> QED
      BY <3>1, Zenon
  <2>3. k \in Filtered(field, state) <=>
          Matches(field, client[k].user, client[k].ip_address) /\ (k \in page.counted) \in state
    <3> DEFINE c == (k \in page.counted) \in state
    <3>1. k \in Filtered(field, state) <=>
            /\ \/ field \in {None, page.owner[k]}
               \/ k \in DOMAIN page.address /\ field = page.address[k]
            /\ c
      BY <1>3, Zenon DEF Filtered
    <3> HIDE DEF c
    <3>2. k \in Filtered(field, state) <=>
            Matches(field, client[k].user, client[k].ip_address) /\ c
      BY <2>1, <3>1 DEF Matches
    <3> QED
      BY <3>2, Zenon DEF c
  <2> QED
    BY <2>1, <2>2, <2>3, Zenon
<1>4. CASE k \notin Known
  BY <1>2, <1>4, Zenon DEF Filtered
<1> QED
  BY <1>3, <1>4

LEMMA FilterLinesStep ==
  ASSUME PInv, FilterLines PROVE PInv'
<1>1. /\ page \in PageRecord /\ page.at = "filter" /\ page.op = "getpeerstate"
      /\ page.counted \subseteq page.lines /\ page.lines \subseteq Key
      /\ Known \subseteq page.lines
  BY DEF FilterLines, PInv, PlaceOK, TypeOK, StatePageOK, Known, KeysSteps, FilterSteps,
     PageRecord
<1>2. PICK field \in Filter, state \in {BOOLEAN, {TRUE}, {FALSE}} :
        IF FilterRaises(field) \/ \E k \in Filtered(field, state) : NameRaises(k)
        THEN Raise
        ELSE Go([page EXCEPT !.at = "done", !.field = field, !.state = state,
                             !.listed = Filtered(field, state)])
  BY DEF FilterLines
<1>3. ASSUME FilterRaises(field) \/ \E k \in Filtered(field, state) : NameRaises(k), Raise
      PROVE  PInv'
  <2>1. Raced
    BY <1>1, <1>3, FilterRaisesOnlyRaced
  <2> QED
    BY <1>1, <1>3, <2>1, RaiseStep
<1> DEFINE shown == Filtered(field, state)
<1>4. ASSUME Go([page EXCEPT !.at = "done", !.field = field, !.state = state,
                             !.listed = shown])
      PROVE  PInv'
  <2>1. /\ page' = [page EXCEPT !.at = "done", !.field = field, !.state = state,
                                !.listed = shown]
        /\ UNCHANGED <<rows, changed>>
    BY <1>4 DEF Go
  <2>2. shown \subseteq page.lines /\ state \in SUBSET BOOLEAN
    BY <1>1 DEF Filtered
  <2>3. \A k \in Unchanged :
          k \in shown <=> /\ k \in DOMAIN client /\ k \in PeersOf(page.server)
                         /\ Matches(field, client[k].user, client[k].ip_address)
                         /\ (k \in online) \in state
    BY <1>1, FilteredIsExpected
  <2> HIDE DEF shown
  <2>4. /\ page' \in PageRecord /\ page'.op = page.op /\ page'.server = page.server
        /\ page'.at = "done" /\ page'.lines = page.lines /\ page'.counted = page.counted
        /\ page'.listed = shown /\ page'.field = field /\ page'.state = state
    BY <1>1, <2>1, <2>2 DEF PageRecord, StateSteps
  <2>5. PeersOf(page.server)' = PeersOf(page.server)
    BY <2>1, <2>4 DEF PeersOf, rows
  <2>6. \A k \in Unchanged : k \in page'.listed <=> Expected(k)'
    BY <1>1, <2>1, <2>3, <2>4, <2>5 DEF Expected, rows, db
  <2>7. StatePageOK'
    BY <1>1, <2>1, <2>4, <2>6, KnownStays DEF PInv, StatePageOK, rows, db
  <2> QED
    BY <1>1, <2>1, <2>2, <2>4, <2>7, StatePageStep DEF StateSteps
<1> QED
  BY <1>2, <1>3, <1>4

-----------------------------------------------------------------------------
\* The theorems

LEMMA InitPInv == Init => PInv
<1> SUFFICES ASSUME Init PROVE PInv
  OBVIOUS
<1>1. EnvironmentOK
  BY DEF Init, DatabaseInit, WireGuardInit, EnvironmentOK, DatabaseTypeOK, WireGuardTypeOK,
     IsTable, RowsOK, OnlineOK
<1> QED
  BY <1>1, NoPagePInv DEF Init

LEMMA NextPInv == PInv /\ [Next]_vars => PInv'
<1> SUFFICES ASSUME PInv, [Next]_vars PROVE PInv'
  OBVIOUS
<1>1. CASE Next
  BY <1>1, EnvironmentStep, UserPageStep, GetKeysStep, LoadPeerStep, LoadServerStep,
     FilterPeersStep, GetPeersStep, LoadInterfaceStep, GetPeerStateStep, GetWgDumpStep,
     GetAllKeysStep, GetAllInterfacesStep, LoadKeysStep, GetAllPeersStep, LoadPeersStep,
     FilterLinesStep
  DEF Next
<1>2. CASE UNCHANGED vars
  <2>1. UNCHANGED <<rows, page, changed>>
    BY <1>2 DEF vars, rows, db
  <2>2. /\ \A s : PeersOf(s)' = PeersOf(s)
        /\ KeysOf(page.user)' = KeysOf(page.user)
        /\ Unchanged' = Unchanged /\ KeysGathered' = KeysGathered
    BY <2>1 DEF PeersOf, KeysOf, Unchanged, KeysGathered, rows, db
  <2>3. TypeOK' /\ RowsOK'
    BY <2>1, PageTypes DEF PInv, TypeOK
  <2>4. PageFailsOnlyRaced' /\ PlaceOK' /\ (page \in PageRecord)'
    BY <2>1, <2>2 DEF PInv, PageFailsOnlyRaced, Raced, KeyWithoutPeer, Known, Lost, PlaceOK,
       rows, db
  <2>5. KeysPageOK'
    BY <2>1, <2>2 DEF PInv, KeysPageOK, rows, db
  <2>6. FilterPageOK'
    <3>1. \A k : Matching(k)' <=> Matching(k)
      BY <2>1 DEF Matching, getServerInterfacePeersFiltered, getClientInterfacesFromServer,
         rows, db
    <3> QED
      BY <2>1, <2>2, <3>1 DEF PInv, FilterPageOK
  <2>7. StatePageOK'
    <3>1. \A k : Expected(k)' <=> Expected(k)
      BY <2>1, <2>2 DEF Expected, rows, db
    <3> QED
      BY <2>1, <2>2, <3>1, KnownStays DEF PInv, StatePageOK, KnownOK, Known, Lost, rows, db
  <2> QED
    BY <2>3, <2>4, <2>5, <2>6, <2>7 DEF PInv
<1> QED
  BY <1>1, <1>2

\* The inductive invariant: all that a page has read of a client that did not change
\* since the page began is still so, and what it has yet to read has its row.
THEOREM PagesInvariance == Spec => []PInv
BY InitPInv, NextPInv, PTL DEF Spec

\* Rows, interfaces and the page that is gathered have their types.
THEOREM PagesTypeCorrect == Spec => []TypeOK
<1>1. PInv => TypeOK
  BY DEF PInv
<1> QED
  BY <1>1, PagesInvariance, PTL

\* Whatever changes between the statements and scripts of a page, what it says of a
\* client that did not change is right.
THEOREM PagesAreTruthful == Spec => []PageTruthful
<1>1. PInv => PageTruthful
  <2> SUFFICES ASSUME PInv, page.at = "done", NEW k \in Key \ changed
               PROVE  /\ k \in page.listed <=> Expected(k)
                      /\ page.op = "getpeerstate" =>
                           (k \in page.counted <=> k \in PeersOf(page.server) \cap online)
    BY DEF PageTruthful
  <2>1. k \in Unchanged /\ page.op \in {"mykeys", "userkeys", "filterPeers", "getpeerstate"}
    BY DEF PInv, PageRecord, PlaceOK, Unchanged
  <2>2. CASE page.op \in {"mykeys", "userkeys"}
    BY <2>1, <2>2 DEF PInv, KeysPageOK, KeysGathered, Expected, KeysOf
  <2>3. CASE page.op = "filterPeers"
    BY <2>1, <2>3 DEF PInv, FilterPageOK, Matching, Expected,
       getServerInterfacePeersFiltered, getClientInterfacesFromServer
  <2>4. CASE page.op = "getpeerstate"
    BY <2>1, <2>4 DEF PInv, StatePageOK, DumpOK
  <2> QED
    BY <2>1, <2>2, <2>3, <2>4
<1> QED
  BY <1>1, PagesInvariance, PTL

\* A page fails only when a row it had read of and still needed was deleted meanwhile,
\* or, in mykeys, on a key without a peer; no other change takes a page away.
THEOREM PagesFailOnlyRaced == Spec => []PageFailsOnlyRaced
<1>1. PInv => PageFailsOnlyRaced
  BY DEF PInv
<1> QED
  BY <1>1, PagesInvariance, PTL

=============================================================================
