---------------------------- MODULE RegistryProofs ---------------------------
(***************************************************************************)
(* Requests that do not overlap implement ClientRegistry: for any users,    *)
(* keys, servers and threads, with killed threads and reboots, every step   *)
(* of WgWeb is a step of the registry or leaves it as it is.                *)
(***************************************************************************)
EXTENDS SerialProofs

\* The registry's accounts, as WgWeb maps them.
Account == [u \in DOMAIN profile |-> [verified |-> profile[u].verified,
                                      key_limit |-> profile[u].key_limit]]

RegistryStep == [Registry!Next]_(Registry!vars)

\* The operators of FiniteSets and Functions are those the registry extends.
LEMMA SameCardinality == ASSUME NEW S PROVE Registry!Cardinality(S) = Cardinality(S)
BY DEF Cardinality, Registry!Cardinality

LEMMA SameRestrict == ASSUME NEW f, NEW S PROVE Registry!Restrict(f, S) = Restrict(f, S)
BY DEF Restrict, Registry!Restrict

-----------------------------------------------------------------------------
\* Steps that leave the tables alone

\* Neither a row nor an interface: the registry does not see it.
LEMMA StutterOfRegistry ==
  ASSUME UNCHANGED db, DOMAIN wg' = DOMAIN wg PROVE RegistryStep
BY DEF RegistryStep, Registry!vars, db

LEMMA AccountSame ==
  ASSUME DOMAIN profile' = DOMAIN profile,
         \A u \in DOMAIN profile : /\ profile'[u].verified = profile[u].verified
                                   /\ profile'[u].key_limit = profile[u].key_limit
  PROVE  Account' = Account
BY DEF Account

\* An interface goes down, if it was up.
LEMMA ToggleDown ==
  ASSUME UNCHANGED db, NEW s, DOMAIN wg' = DOMAIN wg \ {s} PROVE RegistryStep
<1>1. CASE s \notin DOMAIN wg
  BY <1>1, StutterOfRegistry
<1>2. CASE s \in DOMAIN wg
  BY <1>2 DEF RegistryStep, Registry!Next, Registry!Toggle, db
<1> QED
  BY <1>1, <1>2

\* The interface of a server goes up, if it was down.
LEMMA ToggleUp ==
  ASSUME UNCHANGED db, NEW s \in server, DOMAIN wg' = DOMAIN wg \cup {s} PROVE RegistryStep
<1>1. CASE s \in DOMAIN wg
  BY <1>1, StutterOfRegistry
<1>2. CASE s \notin DOMAIN wg
  BY <1>2 DEF RegistryStep, Registry!Next, Registry!Toggle, db
<1> QED
  BY <1>1, <1>2

\* Setting or removing a peer starts and stops nothing.
LEMMA PeersOnly ==
  ASSUME NEW s, NEW k, NEW a, addWGPeer(s, k, a) \/ removeWGPeer(s, k)
  PROVE  DOMAIN wg' = DOMAIN wg
BY DEF addWGPeer, removeWGPeer

-----------------------------------------------------------------------------
\* Steps that commit

\* CommitClient is CreateClient: the count it read is below the limit and exact.
LEMMA CommitClientRefines ==
  ASSUME IInv, SInv, NEW r \in Request, CommitClient(r) PROVE RegistryStep
<1>1. /\ req[r] \in Task /\ CreatingOK(req[r]) /\ LocalsOK(req[r])
      /\ req[r].at = "commitClient"
  BY HandlerOfRequest DEF CommitClient, HandlerOK
<1>2. PICK u \in User, k \in Key, s \in Server, a \in HostAddress :
        u = req[r].user /\ k = req[r].key /\ s = req[r].server /\ a = req[r].address
  BY <1>1 DEF LocalsOK
<1>3. /\ u \in DOMAIN profile /\ s \in server /\ k \in Key \ DOMAIN client
      /\ a # ServerAddress /\ MayCreateKey(u)
      /\ \A j \in DOMAIN client : client[j].server = s => client[j].ip_address # a
  BY <1>1, <1>2 DEF CreatingOK
<1>4. /\ client' = Put(client, k, [user |-> u, ip_address |-> a, server |-> s])
      /\ profile' = [profile EXCEPT ![u].key_count = req[r].count + 1]
      /\ server' = server /\ wg' = wg
  BY <1>2 DEF CommitClient, saveClient
<1>5. Account' = Account
  BY <1>4, AccountSame DEF IInv, TypeOK, DatabaseTypeOK, IsTable, ProfileRow
<1>6. u \in DOMAIN Account /\ Account[u].verified /\ Cardinality(KeysOf(u)) < Account[u].key_limit
  <2>1. profile[u].key_count = Cardinality(KeysOf(u)) /\ Cardinality(KeysOf(u)) \in Nat
    BY <1>3, KeysFinite DEF SInv, TablesOK, CountsExact
  <2>2. profile[u].key_limit \in Nat
    BY <1>3 DEF IInv, TypeOK, DatabaseTypeOK, IsTable, ProfileRow
  <2> QED
    BY <1>3, <2>1, <2>2 DEF MayCreateKey, Account
<1>7. a \in (HostAddress \ {ServerAddress}) \ {client[j].ip_address : j \in Registry!ClientsOf(s)}
  BY <1>3 DEF Registry!ClientsOf
<1>8. client' = [j \in DOMAIN client \cup {k} |->
                  IF j = k THEN [user |-> u, ip_address |-> a, server |-> s] ELSE client[j]]
  BY <1>4 DEF Put
<1>9. Registry!Cardinality(Registry!KeysOf(u)) < Account[u].key_limit
  BY <1>6, SameCardinality DEF Registry!KeysOf, KeysOf
<1>10. UNCHANGED <<Account, server, DOMAIN wg>>
  BY <1>4, <1>5
<1>11. Registry!CreateClient
  BY <1>3, <1>6, <1>7, <1>8, <1>9, <1>10 DEF Registry!CreateClient, Account
<1> QED
  BY <1>11 DEF RegistryStep, Registry!Next

\* CommitDeleteClient is DeleteClient, or the handler raises.
LEMMA CommitDeleteClientRefines ==
  ASSUME IInv, SInv, NEW r \in Request, CommitDeleteClient(r) PROVE RegistryStep
<1>1. /\ req[r] \in Task /\ DeletingKeyOK(req[r]) /\ LocalsOK(req[r])
      /\ req[r].at = "decrementCount" /\ req[r].op = "deletekey"
  BY HandlerOfRequest DEF CommitDeleteClient, HandlerOK
<1>2. CASE ~CanDecrement(r)
  BY <1>2, StutterOfRegistry DEF CommitDeleteClient, Fail
<1>3. CASE CanDecrement(r)
  <2>1. PICK u \in User, k \in Key : u = req[r].user /\ k = req[r].key
    BY <1>1 DEF LocalsOK
  <2>2. u \in DOMAIN profile /\ k \in KeysOf(u) /\ profile[u].verified
    BY <1>1, <1>3, <2>1 DEF CanDecrement, DeletingKeyOK
  <2>3. /\ client' = Restrict(client, DOMAIN client \ {k})
        /\ profile' = [profile EXCEPT ![u].key_count = req[r].count - 1]
        /\ server' = server /\ wg' = wg
    BY <1>3, <2>1 DEF CommitDeleteClient, deleteClient, Delete
  <2>4. Account' = Account
    BY <2>3, AccountSame DEF IInv, TypeOK, DatabaseTypeOK, IsTable, ProfileRow
  <2>5. k \in DOMAIN client /\ Account[client[k].user].verified
    BY <2>2 DEF KeysOf, Account
  <2>6. Registry!DeleteClient
    BY <2>3, <2>4, <2>5, SameRestrict DEF Registry!DeleteClient, Registry!Keep, Account
  <2> QED
    BY <2>6 DEF RegistryStep, Registry!Next
<1> QED
  BY <1>2, <1>3

\* UpdateVerified and SaveProfile are SetAccount.
LEMMA SetAccountRefines ==
  ASSUME NEW u \in DOMAIN profile, NEW v \in BOOLEAN,
         NEW l \in KeyLimit \cup {profile[u].key_limit},
         Account' = [Account EXCEPT ![u] = [verified |-> v, key_limit |-> l]],
         UNCHANGED <<client, server, wg>>
  PROVE  RegistryStep
<1>1. Registry!SetAccount
  BY DEF Registry!SetAccount, Account
<1> QED
  BY <1>1 DEF RegistryStep, Registry!Next

LEMMA UpdateVerifiedRefines ==
  ASSUME IInv, SInv, NEW r \in Request, UpdateVerified(r) PROVE RegistryStep
<1>1. CASE req[r].user \notin DOMAIN profile
  BY <1>1, StutterOfRegistry DEF UpdateVerified, Fail
<1>2. CASE req[r].user \in DOMAIN profile
  <2>1. PICK u \in DOMAIN profile, v \in BOOLEAN : u = req[r].user /\ v = req[r].verified
    BY <1>2 DEF IInv, TypeOK, RequestsTypeOK, Task
  <2>2. /\ profile' = [profile EXCEPT ![u].verified = v]
        /\ UNCHANGED <<client, server, wg>>
    BY <1>2, <2>1 DEF UpdateVerified
  <2>3. \A w \in DOMAIN profile : profile[w] \in ProfileRow
    BY DEF IInv, TypeOK, DatabaseTypeOK, IsTable
  <2>4. Account' = [Account EXCEPT ![u] = [verified |-> v, key_limit |-> profile[u].key_limit]]
    BY <2>2, <2>3 DEF Account, ProfileRow
  <2> QED
    BY <2>2, <2>4, SetAccountRefines
<1> QED
  BY <1>1, <1>2

LEMMA SaveProfileRefines ==
  ASSUME IInv, SInv, NEW r \in Request, SaveProfile(r) PROVE RegistryStep
<1>1. /\ req[r] \in Task /\ req[r].user \in DOMAIN profile /\ req[r].limit \in KeyLimit
  BY HandlerOfRequest DEF SaveProfile, HandlerOK, AdministratingOK
<1>2. PICK u \in DOMAIN profile, v \in BOOLEAN, l \in KeyLimit :
        u = req[r].user /\ v = req[r].verified /\ l = req[r].limit
  BY <1>1 DEF Task
<1>3. /\ profile' = Put(profile, u, [verified |-> v, key_limit |-> l, key_count |-> req[r].count])
      /\ UNCHANGED <<client, server, wg>>
  BY <1>2 DEF SaveProfile
<1>4. Account' = [Account EXCEPT ![u] = [verified |-> v, key_limit |-> l]]
  BY <1>3 DEF Account, Put
<1> QED
  BY <1>3, <1>4, SetAccountRefines

\* DeleteUser is DeleteAccount.
LEMMA DeleteUserRefines ==
  ASSUME IInv, SInv, NEW r \in Request, DeleteUser(r) PROVE RegistryStep
<1>1. PICK u \in DOMAIN profile : u = req[r].user
  BY HandlerOfRequest DEF DeleteUser, HandlerOK, OpOK, AdministratingOK
<1>2. /\ profile' = Delete(profile, {u}) /\ client' = Delete(client, KeysOf(u))
      /\ server' = server /\ wg' = wg
  BY <1>1 DEF DeleteUser, deleteUser
<1>3. Account' = Restrict(Account, DOMAIN Account \ {u})
  BY <1>2 DEF Account, Delete, Restrict
<1>4. Registry!DeleteAccount
  BY <1>2, <1>3, SameRestrict DEF Registry!DeleteAccount, Registry!Keep, Registry!KeysOf,
     KeysOf, Delete, Account
<1> QED
  BY <1>4 DEF RegistryStep, Registry!Next

\* DeleteServerKey is DeleteServer: every client of the server is among the deleted.
LEMMA DeleteServerKeyRefines ==
  ASSUME IInv, SInv, NEW r \in Request, DeleteServerKey(r) PROVE RegistryStep
<1>1. /\ req[r] \in Task /\ DeletingServerOK(req[r])
      /\ req[r].at = "deleteServerKey" /\ req[r].op = "deleteserver"
  BY HandlerOfRequest DEF DeleteServerKey, HandlerOK, OpOK
<1>2. PICK s \in server \ DOMAIN wg : s = req[r].server /\ req[r].gone = ClientsOf(s)
  <2>1. /\ req[r].server \in server \ DOMAIN wg /\ req[r].todo = {}
        /\ req[r].gone \cup req[r].todo \subseteq ClientsOf(req[r].server)
        /\ ClientsOf(req[r].server) \subseteq req[r].gone \cup req[r].todo \cup {}
    BY <1>1 DEF DeletingServerOK
  <2>2. req[r].gone = ClientsOf(req[r].server)
    BY <2>1
  <2> QED
    BY <2>1, <2>2
<1>3. deleteServer(s, ClientsOf(s), req[r].counts) /\ wg' = wg
  BY <1>2 DEF DeleteServerKey
<1>4. client' = Restrict(client, DOMAIN client \ ClientsOf(s)) /\ server' = server \ {s}
  BY <1>3 DEF deleteServer, ClientsOf, getClientInterfacesFromServer, Restrict
<1>5. Account' = Account
  BY <1>3, AccountSame DEF deleteServer, IInv, TypeOK, DatabaseTypeOK, IsTable, ProfileRow
<1>6. Registry!DeleteServer
  BY <1>3, <1>4, <1>5, SameRestrict DEF Registry!DeleteServer, Registry!Keep,
     Registry!ClientsOf, ClientsOf, getClientInterfacesFromServer, Account
<1> QED
  BY <1>6 DEF RegistryStep, Registry!Next

\* CreateNewServer is CreateServer, CreateUser Register and Reboot Reboot.
LEMMA CreateNewServerRefines == ASSUME CreateNewServer PROVE RegistryStep
<1>1. Registry!CreateServer
  BY DEF CreateNewServer, Registry!CreateServer
<1> QED
  BY <1>1 DEF RegistryStep, Registry!Next

LEMMA CreateUserRefines == ASSUME CreateUser PROVE RegistryStep
<1>1. PICK u \in User \ DOMAIN profile :
        profile' = Put(profile, u, [verified |-> FALSE, key_limit |-> DefaultKeyLimit,
                                    key_count |-> 0])
  BY DEF CreateUser
<1>2. UNCHANGED <<client, server, wg>>
  BY DEF CreateUser
<1>3. Account' = [v \in DOMAIN Account \cup {u} |->
                    IF v = u THEN [verified |-> FALSE, key_limit |-> DefaultKeyLimit]
                             ELSE Account[v]]
  BY <1>1 DEF Account, Put
<1>4. u \notin DOMAIN Account
  BY DEF Account
<1>5. Registry!Register
  BY <1>2, <1>3, <1>4 DEF Registry!Register, Account
<1> QED
  BY <1>5 DEF RegistryStep, Registry!Next

LEMMA RebootRefines == ASSUME Reboot PROVE RegistryStep
<1>1. Registry!Reboot
  BY DEF Reboot, Registry!Reboot, db
<1> QED
  BY <1>1 DEF RegistryStep, Registry!Next

-----------------------------------------------------------------------------
\* Every step

LEMMA ClientServiceRefines ==
  ASSUME IInv, SInv, NEW r \in Request, ClientServiceStart(r) \/ ClientServiceStep(r)
  PROVE  RegistryStep
<1>1. CASE \/ NewKey(r) \/ DeleteClient(r) \/ AllocateIpAddress(r) \/ SaveClient(r)
           \/ SaveClientFails(r) \/ DeleteKey(r)
  BY <1>1, StutterOfRegistry DEF NewKey, DeleteClient, AllocateIpAddress, SaveClient,
     SaveClientFails, DeleteKey, Fail
<1>2. CASE AddWGPeer(r) \/ RemoveWGPeer(r)
  BY <1>2, PeersOnly, StutterOfRegistry DEF AddWGPeer, RemoveWGPeer
<1> QED
  BY <1>1, <1>2, CommitClientRefines, CommitDeleteClientRefines
  DEF ClientServiceStart, ClientServiceStep

LEMMA ServerServiceRefines ==
  ASSUME IInv, SInv, NEW r \in Request, ServerServiceStart(r) \/ ServerServiceStep(r)
  PROVE  RegistryStep
<1>1. CASE ServerServiceStart(r)
  BY <1>1, StutterOfRegistry DEF ServerServiceStart, SwitchVerifyProfile, UpdateProfile,
     RemoveUser, ToggleServer, RemoveServer
<1>2. CASE \/ GetPeers(r) \/ LoadPeer(r) \/ PeersDone(r) \/ GenerateConf(r)
           \/ LoadKey(r) \/ DecrementCount(r) \/ ClientsDone(r)
  BY <1>2, StutterOfRegistry DEF GetPeers, LoadPeer, PeersDone, GenerateConf, LoadKey,
     DecrementCount, ClientsDone
<1>3. CASE SetPeer(r)
  BY <1>3, PeersOnly, StutterOfRegistry DEF SetPeer
<1>4. CASE StopServer(r) \/ WgStartFails(r) \/ ListClients(r)
  BY <1>4, ToggleDown DEF StopServer, WgStartFails, ListClients, stopWGserver, Delete, Restrict
<1>5. CASE WgStart(r)
  <2>1. req[r].server \in server
    BY <1>5, HandlerOfRequest DEF WgStart, HandlerOK, AdministratingOK
  <2>2. UNCHANGED db /\ DOMAIN wg' = DOMAIN wg \cup {req[r].server}
    BY <1>5 DEF WgStart, restartWGserver, isWGserverUp, Put
  <2> QED
    BY <2>1, <2>2, ToggleUp
<1> QED
  BY <1>1, <1>2, <1>3, <1>4, <1>5, UpdateVerifiedRefines, SaveProfileRefines,
     DeleteUserRefines, DeleteServerKeyRefines
  DEF ServerServiceStep

LEMMA NextRefines == ASSUME IInv, SInv, [Next]_vars PROVE RegistryStep
<1>1. ASSUME NEW r \in Request, LockWaitTimeout(r) \/ Crash(r)
      PROVE  RegistryStep
  BY <1>1, StutterOfRegistry DEF LockWaitTimeout, Crash, Fail
<1>2. CASE UNCHANGED vars
  BY <1>2, StutterOfRegistry DEF vars, db
<1> QED
  BY <1>1, <1>2, ClientServiceRefines, ServerServiceRefines, CreateNewServerRefines,
     CreateUserRefines, RebootRefines
  DEF Next, Start, Progress

LEMMA InitRefines == Init => Registry!Init
BY DEF Init, DatabaseInit, WireGuardInit, Registry!Init

-----------------------------------------------------------------------------
\* Theorem

(* Requests that come one at a time are what the registry says, whatever is killed
   between two statements: createNewClient keeps the limit and gives a free
   address, deletekey takes one client, and deleteServer all of its server's. *)
THEOREM Refinement == Spec /\ []OneRequest => ImplementsRegistry
<1>1. IInv /\ SInv /\ [Next]_vars => [Registry!Next]_(Registry!vars)
  BY NextRefines DEF RegistryStep
<1> QED
  BY <1>1, InitRefines, Invariance, SerialInvariance, PTL
  DEF Spec, ImplementsRegistry, Registry!Spec

=============================================================================
