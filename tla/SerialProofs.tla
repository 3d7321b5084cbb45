----------------------------- MODULE SerialProofs ----------------------------
(***************************************************************************)
(* Proofs about WgWeb for any users, keys, servers and threads, with       *)
(* killed threads and reboots, while no two requests run at the same time. *)
(***************************************************************************)
EXTENDS WgWebProofs, FiniteSetTheorems

\* No two requests run at the same time: what nothing in the code ensures.
OneRequest ==
  \A q, r \in Request : req[q].op # "none" /\ req[r].op # "none" => q = r

ClientsOf(s) == getClientInterfacesFromServer(s)

\* Which handler is where.
OpOK(t) ==
  /\ t.op = "none" => t.at = "idle"
  /\ t.at \in {"allocateIpAddress", "saveClient", "commitClient"} => t.op = "newkey"
  /\ t.at \in {"deleteKey", "decrementCount"} => t.op \in {"deletekey", "deleteserver"}
  /\ t.at \in {"removeServer", "loadKey", "deleteServerKey"} => t.op = "deleteserver"
  /\ t.at \in {"stopServer", "generateConf", "wgStart"} => t.op = "toggle"
  /\ t.at \in {"getPeers", "loadPeer", "setPeer"}
       => t.op \in {"verify", "settings", "deleteuser"}
  /\ t.at = "updateVerified" => t.op = "verify"
  /\ t.at = "saveProfile" => t.op = "settings"
  /\ t.at = "deleteUser" => t.op = "deleteuser"

\* newkey: its user may have another key, and its address stays free.
CreatingOK(t) ==
  /\ t.at \in {"allocateIpAddress", "saveClient", "commitClient"} =>
       /\ t.user \in DOMAIN profile /\ MayCreateKey(t.user)
       /\ t.server \in server
       /\ t.key \notin DOMAIN client
  /\ t.at \in {"saveClient", "commitClient"} =>
       /\ t.address # ServerAddress
       /\ \A k \in DOMAIN client : client[k].server = t.server
                                   => client[k].ip_address # t.address
  /\ t.at = "commitClient" => t.count = profile[t.user].key_count

\* The key a transaction deletes is its user's, and its count the one in the table.
DeletingKeyOK(t) ==
  t.op = "deletekey" =>
    /\ t.at \in {"deleteKey", "decrementCount"} =>
         /\ t.key \in KeysOf(t.user)
         /\ profile[t.user].verified
    /\ t.at = "deleteKey" => t.counts[t.user] = Unwritten
    /\ t.at = "decrementCount" => t.count = profile[t.user].key_count

\* Keys that deleteServer has deleted and counted.
Counted(t) == IF t.at = "decrementCount" THEN t.gone \ {t.key} ELSE t.gone

(* deleteserver: every client of the server is deleted, at hand or to come, and the
   counts are those of the keys that stay. *)
DeletingServerOK(t) ==
  t.op = "deleteserver" /\ t.at # "removeServer" =>
    /\ t.server \in server \ DOMAIN wg
    /\ t.gone \cup t.todo \subseteq ClientsOf(t.server)
    /\ t.gone \cap t.todo = {}
    /\ ClientsOf(t.server) \subseteq
         t.gone \cup t.todo \cup (IF t.at = "deleteKey" THEN {t.key} ELSE {})
    /\ t.at = "deleteServerKey" => t.todo = {}
    /\ t.at = "deleteKey" => t.key \in ClientsOf(t.server) \ (t.gone \cup t.todo)
    /\ t.at = "decrementCount" => t.key \in t.gone
    /\ t.at \in {"deleteKey", "decrementCount"} => client[t.key].user = t.user
    /\ t.at = "decrementCount" => t.count = Cardinality(KeysOf(t.user) \ Counted(t))
    /\ \A u \in User :
         IF t.counts[u] = Unwritten THEN KeysOf(u) \cap Counted(t) = {}
         ELSE t.counts[u] = Cardinality(KeysOf(u) \ Counted(t))

\* The peers that generateServerConfText writes.
ConfOf(s) == {<<k, client[k].ip_address>> : k \in getVerifiedPeersFromServer(s)}

\* The other requests about users and servers.
AdministratingOK(t) ==
  /\ t.op = "deleteuser" => t.user \in DOMAIN profile
  /\ t.at = "removeServer" =>
       /\ t.server \in server \ DOMAIN wg
       /\ t.gone = {} /\ \A u \in User : t.counts[u] = Unwritten
  /\ t.at \in {"generateConf", "wgStart"} => t.server \in server
  /\ t.at = "wgStart" => t.conf = ConfOf(t.server)
  /\ t.at = "saveProfile" =>
       /\ t.user \in DOMAIN profile
       /\ t.count = profile[t.user].key_count /\ t.limit \in KeyLimit

HandlerOK(t) ==
  /\ OpOK(t) /\ CreatingOK(t) /\ DeletingKeyOK(t) /\ DeletingServerOK(t)
  /\ AdministratingOK(t)

\* key_count is the number of keys, at rest or not.
CountsExact == \A u \in DOMAIN profile : profile[u].key_count = Cardinality(KeysOf(u))

TablesOK ==
  IsFiniteSet(DOMAIN client) /\ CountsExact /\ AddressesDistinct /\ EveryClientHasPeer

SInv == TablesOK /\ \A r \in Request : HandlerOK(req[r])

-----------------------------------------------------------------------------
\* What a step has to establish

LEMMA SameTables == ASSUME TablesOK, UNCHANGED db PROVE TablesOK'
BY DEF TablesOK, CountsExact, AddressesDistinct, EveryClientHasPeer, KeysOf, db

\* A step of the only request there is.
LEMMA SerialStep ==
  ASSUME IInv, SInv, OneRequest, OneRequest', NEW r \in Request, NEW t \in Task,
         req' = [req EXCEPT ![r] = t], req[r].op # "none" \/ t.op # "none",
         TablesOK', HandlerOK(req[r])'
  PROVE  SInv'
<1>1. /\ req'[r] = t
      /\ \A q \in Request \ {r} : req'[q] = req[q]
  BY DEF IInv, TypeOK, RequestsTypeOK
<1>2. \A q \in Request \ {r} : req'[q].op = "none" /\ req'[q].at = "idle"
  BY <1>1 DEF OneRequest, SInv, HandlerOK, OpOK
<1>3. ASSUME NEW q \in Request \ {r}
      PROVE  HandlerOK(req[q])'
  BY <1>2 DEF HandlerOK, OpOK, CreatingOK, DeletingKeyOK, DeletingServerOK,
     AdministratingOK
<1> QED
  BY <1>3 DEF SInv

\* What is known of the request that takes a step.
LEMMA HandlerOfRequest ==
  ASSUME IInv, SInv, NEW r \in Request
  PROVE  /\ req[r] \in Task /\ LocalsOK(req[r]) /\ HandlerOK(req[r])
         /\ req[r].at # "idle" => req[r].op # "none"
BY TaskOfRequest DEF SInv, HandlerOK, OpOK, Idle

\* A handler that ends.
LEMMA SerialFinish ==
  ASSUME IInv, SInv, OneRequest, OneRequest', NEW r \in Request, req[r].op # "none",
         Finish(r), TablesOK'
  PROVE  SInv'
<1>1. req' = [req EXCEPT ![r] = Idle] /\ Idle \in Task
  BY IdleTask DEF Finish
<1>2. req'[r].op = "none" /\ req'[r].at = "idle"
  BY <1>1 DEF IInv, TypeOK, RequestsTypeOK, Idle
<1>3. HandlerOK(req[r])'
  BY <1>2 DEF HandlerOK, OpOK, CreatingOK, DeletingKeyOK, DeletingServerOK,
     AdministratingOK
<1> QED
  BY <1>1, <1>3, SerialStep

LEMMA SerialFail ==
  ASSUME IInv, SInv, OneRequest, OneRequest', NEW r \in Request, req[r].op # "none",
         Fail(r)
  PROVE  SInv'
BY SerialFinish, SameTables DEF Fail, SInv

\* verify, settings and deleteuser, but for their forms.
LEMMA PeersStep ==
  ASSUME IInv, SInv, OneRequest, OneRequest', NEW r \in Request, NEW t \in Task,
         req' = [req EXCEPT ![r] = t], TablesOK',
         t.op \in {"verify", "settings", "deleteuser"},
         t.at \in {"updateVerified", "getPeers", "loadPeer", "setPeer", "deleteUser"},
         t.at = "updateVerified" => t.op = "verify",
         t.at = "deleteUser" => t.op = "deleteuser",
         t.op = "deleteuser" => t.user \in DOMAIN profile'
  PROVE  SInv'
<1>1. req'[r] = t
  BY DEF IInv, TypeOK, RequestsTypeOK
<1>2. HandlerOK(req[r])'
  BY <1>1 DEF HandlerOK, OpOK, CreatingOK, DeletingKeyOK, DeletingServerOK,
     AdministratingOK
<1> QED
  BY <1>2, SerialStep

-----------------------------------------------------------------------------
\* newkey

LEMMA SerialNewKey ==
  ASSUME IInv, SInv, OneRequest, OneRequest', NEW r \in Request, NewKey(r)
  PROVE  SInv'
<1>1. PICK u \in DOMAIN profile, s \in server, k \in FreshKeys :
        /\ MayCreateKey(u)
        /\ req' = [req EXCEPT ![r] = [Idle EXCEPT !.op = "newkey",
                     !.at = "allocateIpAddress", !.user = u, !.server = s, !.key = k]]
  BY DEF NewKey
<1> DEFINE t == [Idle EXCEPT !.op = "newkey", !.at = "allocateIpAddress",
                             !.user = u, !.server = s, !.key = k]
<1>2. u \in User /\ s \in Server /\ k \in Key /\ k \notin DOMAIN client
  BY DEF IInv, TypeOK, DatabaseTypeOK, IsTable, FreshKeys
<1>3. t \in Task
  BY <1>2, IdleTask DEF Idle, Task, Step, Operation, AllowedIps, NoAddress
<1>4. /\ t.op = "newkey" /\ t.at = "allocateIpAddress"
      /\ t.user = u /\ t.server = s /\ t.key = k
  BY DEF Idle
<1> HIDE DEF t
<1>5. req' = [req EXCEPT ![r] = t] /\ UNCHANGED db
  BY <1>1 DEF t, NewKey
<1>6. req'[r] = t
  BY <1>5 DEF IInv, TypeOK, RequestsTypeOK
<1>7. HandlerOK(req[r])'
  BY <1>1, <1>2, <1>4, <1>5, <1>6 DEF HandlerOK, OpOK, CreatingOK, DeletingKeyOK,
     DeletingServerOK, AdministratingOK, MayCreateKey, db
<1>8. TablesOK'
  BY <1>5, SameTables DEF SInv
<1> QED
  BY <1>3, <1>4, <1>5, <1>7, <1>8, SerialStep

LEMMA SerialAllocateIpAddress ==
  ASSUME IInv, SInv, OneRequest, OneRequest', NEW r \in Request, AllocateIpAddress(r)
  PROVE  SInv'
<1>1. /\ req[r] \in Task /\ CreatingOK(req[r]) /\ req[r].at = "allocateIpAddress"
      /\ req[r].op = "newkey"
  BY HandlerOfRequest DEF AllocateIpAddress, HandlerOK, OpOK
<1>2. UNCHANGED db /\ TablesOK'
  BY SameTables DEF AllocateIpAddress, SInv
<1>3. CASE Finish(r)
  BY <1>1, <1>2, <1>3, SerialFinish
<1>4. CASE ~Finish(r)
  <2>1. PICK a \in HostAddress :
          /\ a \in FreeAddresses(req[r].server)
          /\ req' = [req EXCEPT ![r].at = "saveClient", ![r].address = a]
    BY <1>4 DEF AllocateIpAddress, allocateIpAddress
  <2> DEFINE t == [req[r] EXCEPT !.at = "saveClient", !.address = a]
  <2>2. t \in Task
    BY <1>1 DEF Task, Step, AllowedIps
  <2>3. /\ t.op = "newkey" /\ t.at = "saveClient" /\ t.address = a
        /\ t.user = req[r].user /\ t.server = req[r].server /\ t.key = req[r].key
    BY <1>1 DEF Task
  <2>4. req' = [req EXCEPT ![r] = t]
    BY <2>1 DEF IInv, TypeOK, RequestsTypeOK, Task
  <2> HIDE DEF t
  <2>5. req'[r] = t
    BY <2>4 DEF IInv, TypeOK, RequestsTypeOK
  <2>6. CreatingOK(req[r])'
    <3>1. /\ a # ServerAddress
          /\ \A k \in DOMAIN client : client[k].server = req[r].server
                                      => client[k].ip_address # a
      BY <2>1 DEF FreeAddresses, getClientInterfacesFromServer
    <3> QED
      BY <1>1, <1>2, <2>3, <2>5, <3>1 DEF CreatingOK, MayCreateKey, db
  <2>7. HandlerOK(req[r])'
    BY <2>3, <2>5, <2>6 DEF HandlerOK, OpOK, DeletingKeyOK, DeletingServerOK,
       AdministratingOK
  <2> QED
    BY <1>2, <2>2, <2>3, <2>4, <2>7, SerialStep
<1> QED
  BY <1>3, <1>4

LEMMA SerialSaveClient ==
  ASSUME IInv, SInv, OneRequest, OneRequest', NEW r \in Request, SaveClient(r)
  PROVE  SInv'
<1> DEFINE n == profile[req[r].user].key_count
           t == [req[r] EXCEPT !.at = "commitClient", !.count = n]
<1>1. /\ req[r] \in Task /\ CreatingOK(req[r]) /\ req[r].at = "saveClient"
      /\ req[r].op = "newkey"
  BY HandlerOfRequest DEF SaveClient, HandlerOK, OpOK
<1>2. UNCHANGED db /\ TablesOK'
  BY SameTables DEF SaveClient, SInv
<1>3. n \in Nat
  BY DEF SaveClient, IInv, TypeOK, DatabaseTypeOK, IsTable, ProfileRow
<1>4. req' = [req EXCEPT ![r] = t]
  BY DEF SaveClient, IInv, TypeOK, RequestsTypeOK, Task
<1>5. t \in Task
  BY <1>1, <1>3 DEF Task, Step
<1>6. /\ t.op = "newkey" /\ t.at = "commitClient" /\ t.count = profile[req[r].user].key_count
      /\ t.user = req[r].user /\ t.server = req[r].server /\ t.key = req[r].key
      /\ t.address = req[r].address
  BY <1>1 DEF Task
<1> HIDE DEF t, n
<1>7. req'[r] = t
  BY <1>4 DEF IInv, TypeOK, RequestsTypeOK
<1>8. CreatingOK(req[r])'
  BY <1>1, <1>2, <1>6, <1>7 DEF CreatingOK, MayCreateKey, db
<1>9. HandlerOK(req[r])'
  BY <1>6, <1>7, <1>8 DEF HandlerOK, OpOK, DeletingKeyOK, DeletingServerOK, AdministratingOK
<1> QED
  BY <1>2, <1>4, <1>5, <1>6, <1>9, SerialStep

-----------------------------------------------------------------------------
\* Counting

LEMMA KeysFinite ==
  ASSUME TablesOK, NEW u
  PROVE  IsFiniteSet(KeysOf(u)) /\ Cardinality(KeysOf(u)) \in Nat
BY FS_Subset, FS_CardinalityType DEF TablesOK, KeysOf

\* One commit writes the count of one user, whose keys it changed.
LEMMA OneCount ==
  ASSUME DatabaseTypeOK, CountsExact, NEW u \in DOMAIN profile, NEW n \in Nat,
         profile' = [profile EXCEPT ![u].key_count = n],
         n = Cardinality(KeysOf(u)'),
         \A v \in User : v # u => KeysOf(v)' = KeysOf(v)
  PROVE  CountsExact'
<1>1. DOMAIN profile' = DOMAIN profile /\ profile'[u].key_count = n
  BY DEF DatabaseTypeOK, IsTable, ProfileRow
<1>2. \A v \in DOMAIN profile : v # u => profile'[v] = profile[v] /\ v \in User
  BY DEF DatabaseTypeOK, IsTable
<1>3. ASSUME NEW v \in DOMAIN profile'
      PROVE  profile'[v].key_count = Cardinality(KeysOf(v)')
  BY <1>1, <1>2 DEF CountsExact
<1> QED
  BY <1>3 DEF CountsExact

-----------------------------------------------------------------------------
\* newkey, continued

LEMMA SerialCommitClient ==
  ASSUME IInv, SInv, OneRequest, OneRequest', NEW r \in Request, CommitClient(r)
  PROVE  SInv'
<1>1. /\ req[r] \in Task /\ CreatingOK(req[r]) /\ LocalsOK(req[r])
      /\ req[r].at = "commitClient" /\ req[r].op = "newkey"
  BY HandlerOfRequest DEF CommitClient, HandlerOK, OpOK
<1>2. PICK u \in User, k \in Key, s \in Server, a \in HostAddress :
        u = req[r].user /\ k = req[r].key /\ s = req[r].server /\ a = req[r].address
  BY <1>1 DEF LocalsOK
<1> DEFINE row == [user |-> u, ip_address |-> a, server |-> s]
           n == profile[u].key_count + 1
           t == [req[r] EXCEPT !.at = "addWGPeer"]
<1>3. /\ u \in DOMAIN profile /\ s \in server /\ k \notin DOMAIN client
      /\ a # ServerAddress /\ req[r].count = profile[u].key_count
      /\ \A j \in DOMAIN client : client[j].server = s => client[j].ip_address # a
  BY <1>1, <1>2 DEF CreatingOK
<1>4. profile[u].key_count = Cardinality(KeysOf(u)) /\ n \in Nat
  BY <1>3, KeysFinite DEF SInv, TablesOK, CountsExact
<1>5. /\ client' = Put(client, k, row)
      /\ profile' = [profile EXCEPT ![u].key_count = n] /\ server' = server
  BY <1>2, <1>3 DEF CommitClient, saveClient
<1>6. /\ DOMAIN client' = DOMAIN client \cup {k}
      /\ client'[k].user = u /\ client'[k].server = s /\ client'[k].ip_address = a
      /\ \A j \in DOMAIN client : client'[j] = client[j]
  BY <1>3, <1>5 DEF Put
<1>7. KeysOf(u)' = KeysOf(u) \cup {k} /\ k \notin KeysOf(u)
  BY <1>3, <1>6 DEF KeysOf
<1>8. \A v \in User : v # u => KeysOf(v)' = KeysOf(v)
  BY <1>3, <1>6 DEF KeysOf
<1>9. Cardinality(KeysOf(u)') = n
  <2>1. IsFiniteSet(KeysOf(u))
    BY KeysFinite DEF SInv
  <2>2. Cardinality(KeysOf(u) \cup {k}) = Cardinality(KeysOf(u)) + 1
    BY <1>7, <2>1, FS_AddElement
  <2> QED
    BY <1>4, <1>7, <2>2
<1>10. IsFiniteSet(DOMAIN client')
  BY <1>6, FS_AddElement DEF SInv, TablesOK
<1>11. CountsExact'
  BY <1>3, <1>4, <1>5, <1>8, <1>9, OneCount DEF SInv, TablesOK, IInv, TypeOK
<1>12. AddressesDistinct' /\ EveryClientHasPeer'
  <2>1. s # None
    BY DatabaseAssumption
  <2> QED
    BY <1>3, <1>6, <2>1 DEF SInv, TablesOK, AddressesDistinct, EveryClientHasPeer,
       ServerAddress
<1>13. TablesOK'
  BY <1>10, <1>11, <1>12 DEF TablesOK
<1>14. req' = [req EXCEPT ![r] = t]
  BY DEF CommitClient, IInv, TypeOK, RequestsTypeOK, Task
<1>15. t \in Task /\ t.op = "newkey" /\ t.at = "addWGPeer"
  BY <1>1 DEF Task, Step
<1> HIDE DEF t, row, n
<1>16. req'[r] = t
  BY <1>14 DEF IInv, TypeOK, RequestsTypeOK
<1>17. HandlerOK(req[r])'
  BY <1>15, <1>16 DEF HandlerOK, OpOK, CreatingOK, DeletingKeyOK, DeletingServerOK,
     AdministratingOK
<1> QED
  BY <1>13, <1>14, <1>15, <1>17, SerialStep

LEMMA SerialAddWGPeer ==
  ASSUME IInv, SInv, OneRequest, OneRequest', NEW r \in Request, AddWGPeer(r)
  PROVE  SInv'
BY HandlerOfRequest, SerialFinish, SameTables DEF AddWGPeer, SInv

-----------------------------------------------------------------------------
\* deletekey

LEMMA SerialDeleteClient ==
  ASSUME IInv, SInv, OneRequest, OneRequest', NEW r \in Request, DeleteClient(r)
  PROVE  SInv'
<1>1. PICK k \in DOMAIN client :
        /\ profile[client[k].user].verified
        /\ req' = [req EXCEPT ![r] = [Idle EXCEPT !.op = "deletekey",
                     !.at = "deleteKey", !.key = k, !.user = client[k].user,
                     !.server = client[k].server]]
  BY DEF DeleteClient
<1>2. k \in Key /\ client[k].user \in User /\ client[k].server \in Server \cup {None}
  BY DEF IInv, TypeOK, DatabaseTypeOK, IsTable, ClientRow
<1>3. PICK u \in User, s \in Server \cup {None} : u = client[k].user /\ s = client[k].server
  BY <1>2
<1> DEFINE t == [Idle EXCEPT !.op = "deletekey", !.at = "deleteKey", !.key = k,
                             !.user = u, !.server = s]
<1>4. t \in Task
  BY <1>2, IdleTask DEF Task, Step, Operation
<1>5. /\ t.op = "deletekey" /\ t.at = "deleteKey" /\ t.key = k /\ t.user = u
      /\ \A v \in User : t.counts[v] = Unwritten
  BY DEF Idle
<1> HIDE DEF t
<1>6. req' = [req EXCEPT ![r] = t] /\ UNCHANGED db
  BY <1>1, <1>3 DEF t, DeleteClient
<1>7. req'[r] = t
  BY <1>6 DEF IInv, TypeOK, RequestsTypeOK
<1>8. DeletingKeyOK(req[r])'
  BY <1>1, <1>2, <1>3, <1>5, <1>6, <1>7 DEF DeletingKeyOK, KeysOf, db
<1>9. HandlerOK(req[r])'
  BY <1>5, <1>7, <1>8 DEF HandlerOK, OpOK, CreatingOK, DeletingServerOK, AdministratingOK
<1>10. TablesOK'
  BY <1>6, SameTables DEF SInv
<1> QED
  BY <1>4, <1>5, <1>6, <1>9, <1>10, SerialStep

\* The count a transaction takes down: that of the keys it has not counted yet.
LEMMA SerialDeleteKey ==
  ASSUME IInv, SInv, OneRequest, OneRequest', NEW r \in Request, DeleteKey(r)
  PROVE  SInv'
<1>1. /\ req[r] \in Task /\ HandlerOK(req[r]) /\ LocalsOK(req[r])
      /\ req[r].at = "deleteKey" /\ req[r].op \in {"deletekey", "deleteserver"}
  BY HandlerOfRequest DEF DeleteKey, HandlerOK, OpOK
<1>2. PICK u \in User, k \in Key : u = req[r].user /\ k = req[r].key
  BY <1>1 DEF LocalsOK
<1>3. UNCHANGED <<db, wg>> /\ TablesOK'
  BY SameTables DEF DeleteKey, SInv
<1>4. CASE u \notin DOMAIN profile
  BY <1>1, <1>2, <1>3, <1>4, SerialFinish DEF DeleteKey
<1>5. CASE u \in DOMAIN profile
  <2> DEFINE n == IF req[r].counts[u] = Unwritten THEN profile[u].key_count
                                                  ELSE req[r].counts[u]
             t == [req[r] EXCEPT !.at = "decrementCount", !.gone = @ \cup {k}, !.count = n]
  <2>1. n \in Nat
    <3>1. profile[u].key_count \in Nat
      BY <1>5 DEF IInv, TypeOK, DatabaseTypeOK, IsTable, ProfileRow
    <3>2. req[r].counts[u] \in Nat \cup {Unwritten}
      BY <1>1 DEF Task
    <3> QED
      BY <3>1, <3>2
  <2>2. req' = [req EXCEPT ![r] = t]
    BY <1>2, <1>5 DEF DeleteKey, IInv, TypeOK, RequestsTypeOK, Task
  <2>3. PICK c \in Nat : c = n
    BY <2>1
  <2> HIDE DEF n
  <2>4. t \in Task
    BY <1>1, <1>2, <2>1 DEF Task, Step
  <2>5. /\ t.op = req[r].op /\ t.at = "decrementCount" /\ t.user = u /\ t.key = k
        /\ t.count = c /\ t.gone = req[r].gone \cup {k} /\ t.todo = req[r].todo
        /\ t.server = req[r].server /\ t.counts = req[r].counts
    BY <1>1, <1>2, <2>3 DEF Task
  <2> HIDE DEF t
  <2>6. req'[r] = t
    BY <2>2 DEF IInv, TypeOK, RequestsTypeOK
  <2>7. DeletingKeyOK(req[r])'
    <3>1. CASE req[r].op = "deleteserver"
      BY <2>5, <2>6, <3>1 DEF DeletingKeyOK
    <3>2. CASE req[r].op = "deletekey"
      <4>1. /\ k \in KeysOf(u) /\ profile[u].verified /\ c = profile[u].key_count
        BY <1>1, <1>2, <2>3, <3>2 DEF HandlerOK, DeletingKeyOK, n
      <4>2. client' = client /\ profile' = profile
        BY <1>3 DEF db
      <4>3. /\ req'[r].key = k /\ req'[r].user = u /\ req'[r].count = c
            /\ req'[r].at = "decrementCount"
        BY <2>5, <2>6
      <4> QED
        BY <4>1, <4>2, <4>3 DEF DeletingKeyOK, KeysOf
    <3> QED
      BY <1>1, <3>1, <3>2
  <2>8. DeletingServerOK(req[r])'
    <3>1. CASE req[r].op = "deletekey"
      BY <2>5, <2>6, <3>1 DEF DeletingServerOK
    <3>2. CASE req[r].op = "deleteserver"
      <4>1. PICK g \in SUBSET Key, td \in SUBSET Key, s \in Server \cup {None},
                 cs \in [User -> Nat \cup {Unwritten}] :
              /\ g = req[r].gone /\ td = req[r].todo /\ s = req[r].server
              /\ cs = req[r].counts
        BY <1>1 DEF Task
      <4>2. /\ s \in server \ DOMAIN wg
            /\ g \cup td \subseteq ClientsOf(s) /\ g \cap td = {}
            /\ ClientsOf(s) \subseteq g \cup td \cup {k}
            /\ k \in ClientsOf(s) \ (g \cup td)
            /\ client[k].user = u
            /\ \A v \in User : IF cs[v] = Unwritten THEN KeysOf(v) \cap g = {}
                               ELSE cs[v] = Cardinality(KeysOf(v) \ g)
        BY <1>1, <1>2, <3>2, <4>1 DEF HandlerOK, DeletingServerOK, Counted
      <4>3. /\ req'[r].op = "deleteserver" /\ req'[r].at = "decrementCount"
            /\ req'[r].key = k /\ req'[r].user = u /\ req'[r].count = c
            /\ req'[r].gone = g \cup {k} /\ req'[r].todo = td /\ req'[r].server = s
            /\ req'[r].counts = cs
        BY <2>5, <2>6, <3>2, <4>1
      <4>4. (g \cup {k}) \ {k} = g
        BY <4>2
      <4>5. Counted(req[r])' = g
        BY <4>3, <4>4 DEF Counted
      <4>6. c = Cardinality(KeysOf(u) \ g)
        <5>1. CASE cs[u] = Unwritten
          <6>1. KeysOf(u) \ g = KeysOf(u)
            BY <4>2, <5>1
          <6>2. c = profile[u].key_count
            BY <2>3, <4>1, <5>1 DEF n
          <6> QED
            BY <1>5, <6>1, <6>2 DEF SInv, TablesOK, CountsExact
        <5>2. CASE cs[u] # Unwritten
          BY <2>3, <4>1, <4>2, <5>2 DEF n
        <5> QED
          BY <5>1, <5>2
      <4>7. /\ \A v \in User : KeysOf(v)' = KeysOf(v)
            /\ ClientsOf(s)' = ClientsOf(s)
        BY <1>3 DEF KeysOf, ClientsOf, getClientInterfacesFromServer, db
      <4>8. (server \ DOMAIN wg)' = server \ DOMAIN wg /\ client' = client
        BY <1>3 DEF db
      <4>9. /\ (g \cup {k}) \cup td \subseteq ClientsOf(s) /\ (g \cup {k}) \cap td = {}
            /\ ClientsOf(s) \subseteq (g \cup {k}) \cup td
        BY <4>2
      <4>10. \A v \in User : IF cs[v] = Unwritten THEN KeysOf(v)' \cap g = {}
                              ELSE cs[v] = Cardinality(KeysOf(v)' \ g)
        BY <4>2, <4>7
      <4>11. c = Cardinality(KeysOf(u)' \ g) /\ client'[k].user = u
        BY <4>2, <4>6, <4>7, <4>8
      <4>12. /\ s \in (server \ DOMAIN wg)'
             /\ (g \cup {k}) \cup td \subseteq ClientsOf(s)'
             /\ ClientsOf(s)' \subseteq (g \cup {k}) \cup td
        BY <4>2, <4>7, <4>8, <4>9
      <4> QED
        BY <4>3, <4>5, <4>9, <4>10, <4>11, <4>12 DEF DeletingServerOK
    <3> QED
      BY <1>1, <3>1, <3>2
  <2>9. HandlerOK(req[r])'
    BY <1>1, <2>5, <2>6, <2>7, <2>8 DEF HandlerOK, OpOK, CreatingOK, AdministratingOK
  <2> QED
    BY <1>1, <1>3, <2>2, <2>4, <2>9, SerialStep
<1> QED
  BY <1>4, <1>5

LEMMA SerialCommitDeleteClient ==
  ASSUME IInv, SInv, OneRequest, OneRequest', NEW r \in Request, CommitDeleteClient(r)
  PROVE  SInv'
<1>1. /\ req[r] \in Task /\ DeletingKeyOK(req[r]) /\ LocalsOK(req[r])
      /\ req[r].at = "decrementCount" /\ req[r].op = "deletekey"
  BY HandlerOfRequest DEF CommitDeleteClient, HandlerOK
<1>2. CASE ~CanDecrement(r)
  BY <1>1, <1>2, SerialFail DEF CommitDeleteClient
<1>3. CASE CanDecrement(r)
  <2>1. PICK u \in User, k \in Key : u = req[r].user /\ k = req[r].key
    BY <1>1 DEF LocalsOK
  <2> DEFINE n == profile[u].key_count - 1
             t == [req[r] EXCEPT !.at = "removeWGPeer", !.gone = {}]
  <2>2. /\ u \in DOMAIN profile /\ k \in KeysOf(u) /\ req[r].count = profile[u].key_count
        /\ req[r].count > 0 /\ req[r].count \in Nat
    BY <1>1, <1>3, <2>1 DEF CanDecrement, DeletingKeyOK, Task
  <2>3. n \in Nat /\ profile[u].key_count = Cardinality(KeysOf(u))
    BY <2>2 DEF SInv, TablesOK, CountsExact
  <2>4. /\ client' = Delete(client, {k})
        /\ profile' = [profile EXCEPT ![u].key_count = n] /\ server' = server
    BY <1>3, <2>1, <2>2 DEF CommitDeleteClient, deleteClient
  <2>5. /\ DOMAIN client' = DOMAIN client \ {k}
        /\ \A j \in DOMAIN client' : client'[j] = client[j]
    BY <2>4 DEF Delete, Restrict
  <2>6. KeysOf(u)' = KeysOf(u) \ {k}
    BY <2>5 DEF KeysOf
  <2>7. \A v \in User : v # u => KeysOf(v)' = KeysOf(v)
    BY <2>2, <2>5 DEF KeysOf
  <2>8. Cardinality(KeysOf(u)') = n
    BY <2>2, <2>3, <2>6, KeysFinite, FS_RemoveElement DEF SInv
  <2>9. CountsExact'
    BY <2>2, <2>3, <2>4, <2>7, <2>8, OneCount DEF SInv, TablesOK, IInv, TypeOK
  <2>10. TablesOK'
    <3>1. IsFiniteSet(DOMAIN client')
      BY <2>5, FS_Subset DEF SInv, TablesOK
    <3>2. AddressesDistinct' /\ EveryClientHasPeer'
      BY <2>5 DEF SInv, TablesOK, AddressesDistinct, EveryClientHasPeer, ServerAddress
    <3> QED
      BY <2>9, <3>1, <3>2 DEF TablesOK
  <2>11. req' = [req EXCEPT ![r] = t]
    BY <1>3 DEF CommitDeleteClient, IInv, TypeOK, RequestsTypeOK, Task
  <2>12. t \in Task /\ t.op = "deletekey" /\ t.at = "removeWGPeer"
    BY <1>1 DEF Task, Step
  <2> HIDE DEF t, n
  <2>13. req'[r] = t
    BY <2>11 DEF IInv, TypeOK, RequestsTypeOK
  <2>14. HandlerOK(req[r])'
    BY <2>12, <2>13 DEF HandlerOK, OpOK, CreatingOK, DeletingKeyOK, DeletingServerOK,
       AdministratingOK
  <2> QED
    BY <2>10, <2>11, <2>12, <2>14, SerialStep
<1> QED
  BY <1>2, <1>3

LEMMA SerialRemoveWGPeer ==
  ASSUME IInv, SInv, OneRequest, OneRequest', NEW r \in Request, RemoveWGPeer(r)
  PROVE  SInv'
BY HandlerOfRequest, SerialFinish, SameTables DEF RemoveWGPeer, SInv

-----------------------------------------------------------------------------
\* verify, settings and deleteuser

LEMMA SerialSwitchVerifyProfile ==
  ASSUME IInv, SInv, OneRequest, OneRequest', NEW r \in Request, SwitchVerifyProfile(r)
  PROVE  SInv'
<1>1. PICK u \in DOMAIN profile :
        req' = [req EXCEPT ![r] = [Idle EXCEPT !.op = "verify",
                  !.at = "updateVerified", !.user = u, !.verified = ~profile[u].verified]]
  BY DEF SwitchVerifyProfile
<1>2. u \in User /\ profile[u].verified \in BOOLEAN
  BY DEF IInv, TypeOK, DatabaseTypeOK, IsTable, ProfileRow
<1> DEFINE t == [Idle EXCEPT !.op = "verify", !.at = "updateVerified", !.user = u,
                             !.verified = ~profile[u].verified]
<1>3. t \in Task
  BY <1>2, IdleTask DEF Task, Step, Operation
<1>4. t.op = "verify" /\ t.at = "updateVerified"
  BY <1>2 DEF Idle
<1>5. TablesOK'
  BY SameTables DEF SwitchVerifyProfile, SInv
<1> HIDE DEF t
<1>6. req' = [req EXCEPT ![r] = t]
  BY <1>1 DEF t
<1> QED
  BY <1>3, <1>4, <1>5, <1>6, PeersStep

LEMMA SerialUpdateVerified ==
  ASSUME IInv, SInv, OneRequest, OneRequest', NEW r \in Request, UpdateVerified(r)
  PROVE  SInv'
<1>1. /\ req[r] \in Task /\ req[r].at = "updateVerified" /\ req[r].op = "verify"
  BY HandlerOfRequest DEF UpdateVerified, HandlerOK, OpOK
<1>2. CASE req[r].user \notin DOMAIN profile
  BY <1>1, <1>2, SerialFail DEF UpdateVerified
<1>3. CASE req[r].user \in DOMAIN profile
  <2> DEFINE t == [req[r] EXCEPT !.at = "getPeers"]
  <2>1. /\ DOMAIN profile' = DOMAIN profile /\ client' = client
        /\ \A v \in DOMAIN profile : profile'[v].key_count = profile[v].key_count
    BY <1>3 DEF UpdateVerified, IInv, TypeOK, DatabaseTypeOK, IsTable, ProfileRow
  <2>2. TablesOK'
    BY <2>1 DEF SInv, TablesOK, CountsExact, AddressesDistinct, EveryClientHasPeer, KeysOf
  <2>3. t \in Task /\ t.op = "verify" /\ t.at = "getPeers"
    BY <1>1 DEF Task, Step
  <2>4. req' = [req EXCEPT ![r] = t]
    BY <1>3 DEF UpdateVerified, IInv, TypeOK, RequestsTypeOK, Task
  <2> HIDE DEF t
  <2> QED
    BY <2>2, <2>3, <2>4, PeersStep
<1> QED
  BY <1>2, <1>3

LEMMA SerialUpdateProfile ==
  ASSUME IInv, SInv, OneRequest, OneRequest', NEW r \in Request, UpdateProfile(r)
  PROVE  SInv'
<1>1. PICK u \in DOMAIN profile, v \in BOOLEAN, l \in KeyLimit :
       req' = [req EXCEPT ![r] = [Idle EXCEPT !.op = "settings",
                 !.at = "saveProfile", !.user = u, !.verified = v, !.limit = l,
                 !.count = profile[u].key_count]]
  BY DEF UpdateProfile
<1>2. u \in User /\ profile[u].key_count \in Nat /\ l \in Nat
  BY DatabaseAssumption DEF IInv, TypeOK, DatabaseTypeOK, IsTable, ProfileRow
<1>3. PICK n \in Nat : n = profile[u].key_count
  BY <1>2
<1> DEFINE t == [Idle EXCEPT !.op = "settings", !.at = "saveProfile", !.user = u,
                             !.verified = v, !.limit = l, !.count = n]
<1>4. t \in Task
  BY <1>2, IdleTask DEF Idle, Task, Step, Operation
<1>5. /\ t.op = "settings" /\ t.at = "saveProfile" /\ t.user = u /\ t.limit = l
      /\ t.count = n
  BY DEF Idle
<1>6. req' = [req EXCEPT ![r] = t] /\ UNCHANGED db /\ TablesOK'
  BY <1>1, <1>3, SameTables DEF UpdateProfile, SInv
<1> HIDE DEF t
<1>7. req'[r] = t
  BY <1>6 DEF IInv, TypeOK, RequestsTypeOK
<1>8. AdministratingOK(req[r])'
  BY <1>3, <1>5, <1>6, <1>7 DEF AdministratingOK, db
<1>9. HandlerOK(req[r])'
  BY <1>5, <1>7, <1>8 DEF HandlerOK, OpOK, CreatingOK, DeletingKeyOK, DeletingServerOK
<1> QED
  BY <1>4, <1>5, <1>6, <1>9, SerialStep

LEMMA SerialSaveProfile ==
  ASSUME IInv, SInv, OneRequest, OneRequest', NEW r \in Request, SaveProfile(r)
  PROVE  SInv'
<1>1. /\ req[r] \in Task /\ AdministratingOK(req[r])
      /\ req[r].at = "saveProfile" /\ req[r].op = "settings"
  BY HandlerOfRequest DEF SaveProfile, HandlerOK, OpOK
<1>2. /\ req[r].user \in DOMAIN profile
      /\ req[r].count = profile[req[r].user].key_count
  BY <1>1 DEF AdministratingOK
<1>3. /\ DOMAIN profile' = DOMAIN profile /\ client' = client
      /\ \A v \in DOMAIN profile : profile'[v].key_count = profile[v].key_count
  BY <1>2 DEF SaveProfile, Put
<1>4. TablesOK'
  BY <1>3 DEF SInv, TablesOK, CountsExact, AddressesDistinct, EveryClientHasPeer, KeysOf
<1> DEFINE t == [req[r] EXCEPT !.at = "getPeers"]
<1>5. t \in Task /\ t.op = "settings" /\ t.at = "getPeers"
  BY <1>1 DEF Task, Step
<1>6. req' = [req EXCEPT ![r] = t]
  BY DEF SaveProfile, IInv, TypeOK, RequestsTypeOK, Task
<1> HIDE DEF t
<1> QED
  BY <1>4, <1>5, <1>6, PeersStep

LEMMA SerialRemoveUser ==
  ASSUME IInv, SInv, OneRequest, OneRequest', NEW r \in Request, RemoveUser(r)
  PROVE  SInv'
<1>1. PICK u \in DOMAIN profile :
        req' = [req EXCEPT ![r] = [Idle EXCEPT !.op = "deleteuser",
                  !.at = "getPeers", !.user = u]]
  BY DEF RemoveUser
<1> DEFINE t == [Idle EXCEPT !.op = "deleteuser", !.at = "getPeers", !.user = u]
<1>2. u \in User
  BY DEF IInv, TypeOK, DatabaseTypeOK, IsTable
<1>3. t \in Task /\ t.op = "deleteuser" /\ t.at = "getPeers" /\ t.user = u
  BY <1>2, IdleTask DEF Idle, Task, Step, Operation
<1>4. req' = [req EXCEPT ![r] = t] /\ TablesOK' /\ profile' = profile
  BY <1>1, SameTables DEF RemoveUser, SInv, db
<1> HIDE DEF t
<1> QED
  BY <1>3, <1>4, PeersStep

LEMMA SerialGetPeers ==
  ASSUME IInv, SInv, OneRequest, OneRequest', NEW r \in Request, GetPeers(r)
  PROVE  SInv'
<1> DEFINE t == [req[r] EXCEPT !.at = "loadPeer", !.todo = getByUser(req[r].user)]
<1>1. /\ req[r] \in Task /\ req[r].op \in {"verify", "settings", "deleteuser"}
      /\ req[r].op = "deleteuser" => req[r].user \in DOMAIN profile
  BY HandlerOfRequest DEF GetPeers, HandlerOK, OpOK, AdministratingOK
<1>2. getByUser(req[r].user) \in SUBSET Key
  BY DEF IInv, TypeOK, DatabaseTypeOK, IsTable, getByUser, KeysOf
<1>3. /\ t \in Task /\ t.op = req[r].op /\ t.at = "loadPeer" /\ t.user = req[r].user
  BY <1>1, <1>2 DEF Task, Step
<1>4. req' = [req EXCEPT ![r] = t]
  BY DEF GetPeers, IInv, TypeOK, RequestsTypeOK, Task
<1>5. TablesOK' /\ profile' = profile
  BY SameTables DEF GetPeers, SInv, db
<1> HIDE DEF t
<1> QED
  BY <1>1, <1>3, <1>4, <1>5, PeersStep

LEMMA SerialLoadPeer ==
  ASSUME IInv, SInv, OneRequest, OneRequest', NEW r \in Request, LoadPeer(r)
  PROVE  SInv'
<1>1. /\ req[r] \in Task /\ req[r].op \in {"verify", "settings", "deleteuser"}
      /\ req[r].op = "deleteuser" => req[r].user \in DOMAIN profile
      /\ req[r].at = "loadPeer"
  BY HandlerOfRequest DEF LoadPeer, HandlerOK, OpOK, AdministratingOK
<1>2. TablesOK' /\ profile' = profile
  BY SameTables DEF LoadPeer, SInv, db
<1>3. PICK k \in req[r].todo :
       req' = IF k \in getByUser(req[r].user)
              THEN [req EXCEPT ![r].at = "setPeer", ![r].todo = RemainingPeers(r, k),
                               ![r].key = k, ![r].server = client[k].server,
                               ![r].address = client[k].ip_address]
              ELSE [req EXCEPT ![r].todo = RemainingPeers(r, k)]
  BY DEF LoadPeer
<1>4. k \in Key /\ RemainingPeers(r, k) \in SUBSET Key
  BY <1>1 DEF Task, RemainingPeers
<1>5. CASE k \in getByUser(req[r].user)
  <2>1. PICK s \in Server \cup {None}, a \in AllowedIps :
          s = client[k].server /\ a = client[k].ip_address
    BY <1>5 DEF IInv, TypeOK, DatabaseTypeOK, IsTable, ClientRow, getByUser, KeysOf,
       AllowedIps
  <2> DEFINE t == [req[r] EXCEPT !.at = "setPeer", !.todo = RemainingPeers(r, k),
                                 !.key = k, !.server = s, !.address = a]
  <2>2. t \in Task /\ t.op = req[r].op /\ t.at = "setPeer" /\ t.user = req[r].user
    BY <1>1, <1>4 DEF Task, Step
  <2>3. req' = [req EXCEPT ![r] = t]
    BY <1>3, <1>5, <2>1 DEF IInv, TypeOK, RequestsTypeOK, Task
  <2> HIDE DEF t
  <2> QED
    BY <1>1, <1>2, <2>2, <2>3, PeersStep
<1>6. CASE k \notin getByUser(req[r].user)
  <2> DEFINE t == [req[r] EXCEPT !.todo = RemainingPeers(r, k)]
  <2>1. t \in Task /\ t.op = req[r].op /\ t.at = "loadPeer" /\ t.user = req[r].user
    BY <1>1, <1>4 DEF Task
  <2>2. req' = [req EXCEPT ![r] = t]
    BY <1>3, <1>6 DEF IInv, TypeOK, RequestsTypeOK, Task
  <2> HIDE DEF t
  <2> QED
    BY <1>1, <1>2, <2>1, <2>2, PeersStep
<1> QED
  BY <1>5, <1>6

LEMMA SerialSetPeer ==
  ASSUME IInv, SInv, OneRequest, OneRequest', NEW r \in Request, SetPeer(r)
  PROVE  SInv'
<1> DEFINE t == [req[r] EXCEPT !.at = "loadPeer", !.key = None, !.server = None,
                               !.address = NoAddress]
<1>1. /\ req[r] \in Task /\ req[r].op \in {"verify", "settings", "deleteuser"}
      /\ req[r].op = "deleteuser" => req[r].user \in DOMAIN profile
  BY HandlerOfRequest DEF SetPeer, HandlerOK, OpOK, AdministratingOK
<1>2. t \in Task /\ t.op = req[r].op /\ t.at = "loadPeer" /\ t.user = req[r].user
  BY <1>1 DEF Task, Step, AllowedIps
<1>3. req' = [req EXCEPT ![r] = t]
  BY DEF SetPeer, IInv, TypeOK, RequestsTypeOK, Task
<1>4. TablesOK' /\ profile' = profile
  BY SameTables DEF SetPeer, SInv, db
<1> HIDE DEF t
<1> QED
  BY <1>1, <1>2, <1>3, <1>4, PeersStep

LEMMA SerialPeersDone ==
  ASSUME IInv, SInv, OneRequest, OneRequest', NEW r \in Request, PeersDone(r)
  PROVE  SInv'
<1>1. /\ req[r] \in Task /\ req[r].op \in {"verify", "settings", "deleteuser"}
      /\ req[r].op = "deleteuser" => req[r].user \in DOMAIN profile
  BY HandlerOfRequest DEF PeersDone, HandlerOK, OpOK, AdministratingOK
<1>2. TablesOK' /\ profile' = profile
  BY SameTables DEF PeersDone, SInv, db
<1>3. CASE req[r].op # "deleteuser"
  BY <1>1, <1>2, <1>3, SerialFinish DEF PeersDone
<1>4. CASE req[r].op = "deleteuser"
  <2> DEFINE t == [req[r] EXCEPT !.at = "deleteUser"]
  <2>1. t \in Task /\ t.op = "deleteuser" /\ t.at = "deleteUser" /\ t.user = req[r].user
    BY <1>1, <1>4 DEF Task, Step
  <2>2. req' = [req EXCEPT ![r] = t]
    BY <1>4 DEF PeersDone, IInv, TypeOK, RequestsTypeOK, Task
  <2> HIDE DEF t
  <2> QED
    BY <1>1, <1>2, <1>4, <2>1, <2>2, PeersStep
<1> QED
  BY <1>3, <1>4

LEMMA SerialDeleteUser ==
  ASSUME IInv, SInv, OneRequest, OneRequest', NEW r \in Request, DeleteUser(r)
  PROVE  SInv'
<1> DEFINE u == req[r].user
<1>1. req[r].op # "none"
  BY HandlerOfRequest DEF DeleteUser
<1>2. /\ DOMAIN profile' = DOMAIN profile \ {u}
      /\ \A v \in DOMAIN profile' : profile'[v] = profile[v]
      /\ DOMAIN client' = DOMAIN client \ KeysOf(u)
      /\ \A k \in DOMAIN client' : client'[k] = client[k]
  BY DEF DeleteUser, deleteUser, Delete, Restrict
<1>3. \A v \in DOMAIN profile' : KeysOf(v)' = KeysOf(v)
  BY <1>2 DEF KeysOf
<1>4. CountsExact'
  BY <1>2, <1>3 DEF SInv, TablesOK, CountsExact
<1>5. IsFiniteSet(DOMAIN client')
  BY <1>2, FS_Subset DEF SInv, TablesOK
<1>6. AddressesDistinct' /\ EveryClientHasPeer'
  BY <1>2 DEF SInv, TablesOK, AddressesDistinct, EveryClientHasPeer, ServerAddress
<1> QED
  BY <1>1, <1>4, <1>5, <1>6, SerialFinish DEF DeleteUser, TablesOK

-----------------------------------------------------------------------------
\* toggle

LEMMA SerialToggleServer ==
  ASSUME IInv, SInv, OneRequest, OneRequest', NEW r \in Request, ToggleServer(r)
  PROVE  SInv'
<1>1. PICK s \in server, at \in {"stopServer", "generateConf"} :
        req' = [req EXCEPT ![r] = [Idle EXCEPT !.op = "toggle", !.server = s, !.at = at]]
  BY DEF ToggleServer
<1> DEFINE t == [Idle EXCEPT !.op = "toggle", !.server = s, !.at = at]
<1>2. s \in Server
  BY DEF IInv, TypeOK, DatabaseTypeOK
<1>3. t \in Task
  BY <1>2, IdleTask DEF Task, Step, Operation
<1>4. t.op = "toggle" /\ t.at \in {"stopServer", "generateConf"} /\ t.server = s
  BY DEF Idle
<1> HIDE DEF t
<1>5. req' = [req EXCEPT ![r] = t] /\ TablesOK' /\ server' = server
  BY <1>1, SameTables DEF ToggleServer, SInv, db, t
<1>6. req'[r] = t
  BY <1>5 DEF IInv, TypeOK, RequestsTypeOK
<1>7. HandlerOK(req[r])'
  BY <1>4, <1>5, <1>6 DEF HandlerOK, OpOK, CreatingOK, DeletingKeyOK, DeletingServerOK,
     AdministratingOK
<1> QED
  BY <1>3, <1>4, <1>5, <1>7, SerialStep

LEMMA SerialStopServer ==
  ASSUME IInv, SInv, OneRequest, OneRequest', NEW r \in Request, StopServer(r)
  PROVE  SInv'
BY HandlerOfRequest, SerialFinish, SameTables DEF StopServer, SInv

LEMMA SerialGenerateConf ==
  ASSUME IInv, SInv, OneRequest, OneRequest', NEW r \in Request, GenerateConf(r)
  PROVE  SInv'
<1>1. /\ req[r] \in Task /\ req[r].op = "toggle" /\ req[r].at = "generateConf"
  BY HandlerOfRequest DEF GenerateConf, HandlerOK, OpOK
<1>2. TablesOK' /\ server' = server
  BY SameTables DEF GenerateConf, SInv, db
<1>3. CASE req[r].server \notin server
  BY <1>1, <1>2, <1>3, SerialFinish DEF GenerateConf
<1>4. CASE req[r].server \in server
  <2>1. PICK s \in server : s = req[r].server
    BY <1>4
  <2>2. ConfOf(s) \in SUBSET (Key \X HostAddress)
    BY DEF IInv, TypeOK, DatabaseTypeOK, IsTable, ClientRow, ConfOf,
       getVerifiedPeersFromServer, getClientInterfacesFromServer
  <2>3. PICK conf \in SUBSET (Key \X HostAddress) : conf = ConfOf(s)
    BY <2>2
  <2> DEFINE t == [req[r] EXCEPT !.at = "wgStart", !.conf = conf]
  <2>4. req' = [req EXCEPT ![r] = t]
    BY <1>4, <2>1, <2>3 DEF GenerateConf, ConfOf, IInv, TypeOK, RequestsTypeOK, Task
  <2>5. /\ t \in Task /\ t.op = "toggle" /\ t.at = "wgStart" /\ t.server = s
        /\ t.conf = conf
    BY <1>1, <2>1 DEF Task, Step
  <2> HIDE DEF t
  <2>6. req'[r] = t
    BY <2>4 DEF IInv, TypeOK, RequestsTypeOK
  <2>7. ConfOf(s)' = conf
    BY <2>3 DEF GenerateConf, ConfOf, getVerifiedPeersFromServer,
       getClientInterfacesFromServer, db
  <2>8. AdministratingOK(req[r])'
    BY <1>2, <2>5, <2>6, <2>7 DEF AdministratingOK
  <2>9. HandlerOK(req[r])'
    BY <2>5, <2>6, <2>8 DEF HandlerOK, OpOK, CreatingOK, DeletingKeyOK, DeletingServerOK
  <2> QED
    BY <1>2, <2>4, <2>5, <2>9, SerialStep
<1> QED
  BY <1>3, <1>4

LEMMA SerialWgStart ==
  ASSUME IInv, SInv, OneRequest, OneRequest', NEW r \in Request,
         WgStart(r) \/ WgStartFails(r)
  PROVE  SInv'
BY HandlerOfRequest, SerialFinish, SameTables DEF WgStart, WgStartFails, SInv

-----------------------------------------------------------------------------
\* deleteserver

\* A transaction of deleteServer that goes on.
LEMMA DeletingServerStep ==
  ASSUME IInv, SInv, OneRequest, OneRequest', NEW r \in Request, NEW t \in Task,
         req' = [req EXCEPT ![r] = t], TablesOK', t.op = "deleteserver",
         t.at \in {"loadKey", "deleteKey", "decrementCount", "deleteServerKey"},
         DeletingServerOK(req[r])'
  PROVE  SInv'
<1>1. req'[r] = t
  BY DEF IInv, TypeOK, RequestsTypeOK
<1>2. HandlerOK(req[r])'
  BY <1>1 DEF HandlerOK, OpOK, CreatingOK, DeletingKeyOK, AdministratingOK
<1> QED
  BY <1>2, SerialStep

LEMMA SerialRemoveServer ==
  ASSUME IInv, SInv, OneRequest, OneRequest', NEW r \in Request, RemoveServer(r)
  PROVE  SInv'
<1>1. PICK s \in server :
        /\ s \notin DOMAIN wg
        /\ req' = [req EXCEPT ![r] = [Idle EXCEPT !.op = "deleteserver",
                     !.at = "removeServer", !.server = s]]
  BY DEF RemoveServer, isWGserverUp
<1> DEFINE t == [Idle EXCEPT !.op = "deleteserver", !.at = "removeServer", !.server = s]
<1>2. s \in Server
  BY DEF IInv, TypeOK, DatabaseTypeOK
<1>3. t \in Task
  BY <1>2, IdleTask DEF Task, Step, Operation
<1>4. /\ t.op = "deleteserver" /\ t.at = "removeServer" /\ t.server = s /\ t.gone = {}
      /\ \A u \in User : t.counts[u] = Unwritten
  BY DEF Idle
<1> HIDE DEF t
<1>5. /\ req' = [req EXCEPT ![r] = t] /\ TablesOK' /\ server' = server /\ wg' = wg
  BY <1>1, SameTables DEF RemoveServer, SInv, db, t
<1>6. req'[r] = t
  BY <1>5 DEF IInv, TypeOK, RequestsTypeOK
<1>7. HandlerOK(req[r])'
  BY <1>1, <1>4, <1>5, <1>6 DEF HandlerOK, OpOK, CreatingOK, DeletingKeyOK,
     DeletingServerOK, AdministratingOK
<1> QED
  BY <1>3, <1>4, <1>5, <1>7, SerialStep

LEMMA SerialListClients ==
  ASSUME IInv, SInv, OneRequest, OneRequest', NEW r \in Request, ListClients(r)
  PROVE  SInv'
<1>1. /\ req[r] \in Task /\ AdministratingOK(req[r])
      /\ req[r].at = "removeServer" /\ req[r].op = "deleteserver"
  BY HandlerOfRequest DEF ListClients, HandlerOK, OpOK
<1>2. PICK s \in server : s = req[r].server
  BY <1>1 DEF AdministratingOK
<1>3. req[r].gone = {} /\ \A u \in User : req[r].counts[u] = Unwritten
  BY <1>1 DEF AdministratingOK
<1>4. PICK todo \in SUBSET Key : todo = ClientsOf(s)
  BY DEF ClientsOf, getClientInterfacesFromServer, IInv, TypeOK, DatabaseTypeOK, IsTable
<1> DEFINE t == [req[r] EXCEPT !.at = "loadKey", !.todo = todo]
<1>5. /\ req' = [req EXCEPT ![r] = t]
      /\ UNCHANGED db /\ s \notin DOMAIN wg'
  BY <1>2, <1>4 DEF ListClients, ClientsOf, stopWGserver, Delete, Restrict, IInv, TypeOK,
     RequestsTypeOK, Task
<1>6. t \in Task
  BY <1>1 DEF Task, Step
<1>7. /\ t.op = "deleteserver" /\ t.at = "loadKey" /\ t.server = s /\ t.gone = {}
      /\ t.todo = todo /\ \A u \in User : t.counts[u] = Unwritten
  BY <1>1, <1>2, <1>3 DEF Task
<1> HIDE DEF t
<1>8. req'[r] = t /\ TablesOK' /\ server' = server /\ ClientsOf(s)' = todo
  BY <1>4, <1>5, SameTables DEF IInv, TypeOK, RequestsTypeOK, SInv, db, ClientsOf,
     getClientInterfacesFromServer
<1>9. Counted(req[r])' = {}
  BY <1>7, <1>8 DEF Counted
<1>10. DeletingServerOK(req[r])'
  BY <1>5, <1>7, <1>8, <1>9 DEF DeletingServerOK
<1> QED
  BY <1>5, <1>6, <1>7, <1>8, <1>10, DeletingServerStep

LEMMA SerialLoadKey ==
  ASSUME IInv, SInv, OneRequest, OneRequest', NEW r \in Request, LoadKey(r)
  PROVE  SInv'
<1>1. /\ req[r] \in Task /\ DeletingServerOK(req[r])
      /\ req[r].at = "loadKey" /\ req[r].op = "deleteserver"
  BY HandlerOfRequest DEF LoadKey, HandlerOK, OpOK
<1>2. PICK g \in SUBSET Key, td \in SUBSET Key, s \in Server \cup {None},
           cs \in [User -> Nat \cup {Unwritten}] :
        /\ g = req[r].gone /\ td = req[r].todo /\ s = req[r].server
        /\ cs = req[r].counts
  BY <1>1 DEF Task
<1>3. /\ s \in server \ DOMAIN wg
      /\ g \cup td \subseteq ClientsOf(s) /\ g \cap td = {}
      /\ ClientsOf(s) \subseteq g \cup td
      /\ \A v \in User : IF cs[v] = Unwritten THEN KeysOf(v) \cap g = {}
                         ELSE cs[v] = Cardinality(KeysOf(v) \ g)
  BY <1>1, <1>2 DEF DeletingServerOK, Counted
<1>4. PICK k \in td :
        req' = [req EXCEPT ![r].at = "deleteKey", ![r].todo = @ \ {k},
                           ![r].key = k, ![r].user = client[k].user]
  BY <1>2, <1>3 DEF LoadKey, ClientsOf, getClientInterfacesFromServer
<1>5. k \in DOMAIN client /\ k \in Key
  BY <1>2, <1>3 DEF ClientsOf, getClientInterfacesFromServer
<1>6. PICK u \in User : u = client[k].user
  BY <1>5 DEF IInv, TypeOK, DatabaseTypeOK, IsTable, ClientRow
<1> DEFINE t == [req[r] EXCEPT !.at = "deleteKey", !.todo = td \ {k}, !.key = k, !.user = u]
<1>7. req' = [req EXCEPT ![r] = t]
  BY <1>2, <1>4, <1>6 DEF IInv, TypeOK, RequestsTypeOK, Task
<1>8. t \in Task
  BY <1>1, <1>5 DEF Task, Step
<1>9. /\ t.op = "deleteserver" /\ t.at = "deleteKey" /\ t.server = s /\ t.gone = g
      /\ t.todo = td \ {k} /\ t.key = k /\ t.user = u /\ t.counts = cs
  BY <1>1, <1>2 DEF Task
<1> HIDE DEF t
<1>10. req'[r] = t
  BY <1>7 DEF IInv, TypeOK, RequestsTypeOK
<1>11. UNCHANGED <<db, wg>> /\ TablesOK'
  BY SameTables DEF LoadKey, SInv
<1>12. /\ \A v \in User : KeysOf(v)' = KeysOf(v)
       /\ ClientsOf(s)' = ClientsOf(s) /\ client'[k].user = u
       /\ s \in server' \ DOMAIN wg'
  BY <1>3, <1>6, <1>11 DEF KeysOf, ClientsOf, getClientInterfacesFromServer, db
<1>13. Counted(req[r])' = g
  BY <1>9, <1>10 DEF Counted
<1>14. /\ g \cup (td \ {k}) \subseteq ClientsOf(s)' /\ g \cap (td \ {k}) = {}
       /\ ClientsOf(s)' \subseteq g \cup (td \ {k}) \cup {k}
       /\ k \in ClientsOf(s)' \ (g \cup (td \ {k}))
  BY <1>3, <1>12
<1>15. \A v \in User : IF cs[v] = Unwritten THEN KeysOf(v)' \cap g = {}
                       ELSE cs[v] = Cardinality(KeysOf(v)' \ g)
  BY <1>3, <1>12
<1>16. DeletingServerOK(req[r])'
  BY <1>9, <1>10, <1>12, <1>13, <1>14, <1>15 DEF DeletingServerOK
<1> QED
  BY <1>7, <1>8, <1>9, <1>11, <1>16, DeletingServerStep

LEMMA SerialClientsDone ==
  ASSUME IInv, SInv, OneRequest, OneRequest', NEW r \in Request, ClientsDone(r)
  PROVE  SInv'
<1> DEFINE t == [req[r] EXCEPT !.at = "deleteServerKey"]
<1>1. /\ req[r] \in Task /\ DeletingServerOK(req[r])
      /\ req[r].at = "loadKey" /\ req[r].op = "deleteserver" /\ req[r].todo = {}
  BY HandlerOfRequest DEF ClientsDone, HandlerOK, OpOK
<1>2. req' = [req EXCEPT ![r] = t]
  BY DEF ClientsDone, IInv, TypeOK, RequestsTypeOK, Task
<1>3. t \in Task
  BY <1>1 DEF Task, Step
<1>4. /\ t.op = "deleteserver" /\ t.at = "deleteServerKey" /\ t.server = req[r].server
      /\ t.gone = req[r].gone /\ t.todo = {} /\ t.counts = req[r].counts
  BY <1>1 DEF Task
<1> HIDE DEF t
<1>5. req'[r] = t
  BY <1>2 DEF IInv, TypeOK, RequestsTypeOK
<1>6. UNCHANGED <<db, wg>> /\ TablesOK'
  BY SameTables DEF ClientsDone, SInv
<1>7. /\ \A v \in User : KeysOf(v)' = KeysOf(v)
      /\ \A s \in Server \cup {None} : ClientsOf(s)' = ClientsOf(s)
      /\ server' = server /\ wg' = wg
  BY <1>6 DEF KeysOf, ClientsOf, getClientInterfacesFromServer, db
<1>8. Counted(req[r])' = Counted(req[r]) /\ Counted(req[r]) = req[r].gone
  BY <1>1, <1>4, <1>5 DEF Counted
<1>9. req[r].server \in Server \cup {None}
  BY <1>1 DEF Task
<1>10. DeletingServerOK(req[r])'
  BY <1>1, <1>4, <1>5, <1>7, <1>8, <1>9 DEF DeletingServerOK
<1> QED
  BY <1>2, <1>3, <1>4, <1>6, <1>10, DeletingServerStep

LEMMA SerialDecrementCount ==
  ASSUME IInv, SInv, OneRequest, OneRequest', NEW r \in Request, DecrementCount(r)
  PROVE  SInv'
<1>1. /\ req[r] \in Task /\ DeletingServerOK(req[r]) /\ LocalsOK(req[r])
      /\ req[r].at = "decrementCount" /\ req[r].op = "deleteserver"
  BY HandlerOfRequest DEF DecrementCount, HandlerOK
<1>2. UNCHANGED <<db, wg>> /\ TablesOK'
  BY SameTables DEF DecrementCount, SInv
<1>3. CASE ~(req[r].count > 0 /\ req[r].user \in DOMAIN profile)
  BY <1>1, <1>2, <1>3, SerialFinish DEF DecrementCount
<1>4. CASE req[r].count > 0 /\ req[r].user \in DOMAIN profile
  <2>1. PICK g \in SUBSET Key, td \in SUBSET Key, s \in Server \cup {None}, k \in Key,
             u \in User, cs \in [User -> Nat \cup {Unwritten}], c \in Nat :
          /\ g = req[r].gone /\ td = req[r].todo /\ s = req[r].server
          /\ cs = req[r].counts /\ k = req[r].key /\ u = req[r].user /\ c = req[r].count
    BY <1>1 DEF Task, LocalsOK
  <2>2. Counted(req[r]) = g \ {k}
    BY <1>1, <2>1 DEF Counted
  <2>3. /\ s \in server \ DOMAIN wg
        /\ g \cup td \subseteq ClientsOf(s) /\ g \cap td = {}
        /\ ClientsOf(s) \subseteq g \cup td
        /\ k \in g /\ client[k].user = u /\ c = Cardinality(KeysOf(u) \ (g \ {k}))
        /\ \A v \in User : IF cs[v] = Unwritten THEN KeysOf(v) \cap (g \ {k}) = {}
                           ELSE cs[v] = Cardinality(KeysOf(v) \ (g \ {k}))
    BY <1>1, <2>1, <2>2 DEF DeletingServerOK
  <2> DEFINE ds == [cs EXCEPT ![u] = c - 1]
             t == [req[r] EXCEPT !.at = "loadKey", !.key = None, !.user = None,
                                 !.count = 0, !.counts = ds]
  <2>4. c > 0 /\ c - 1 \in Nat
    BY <1>4, <2>1
  <2>5. /\ ds \in [User -> Nat \cup {Unwritten}] /\ ds[u] = c - 1
        /\ \A v \in User : v # u => ds[v] = cs[v]
    BY <2>4
  <2>6. req' = [req EXCEPT ![r] = t]
    BY <1>4, <2>1 DEF DecrementCount, IInv, TypeOK, RequestsTypeOK, Task
  <2> HIDE DEF ds
  <2>7. t \in Task
    BY <1>1, <2>5 DEF Task, Step
  <2>8. /\ t.op = "deleteserver" /\ t.at = "loadKey" /\ t.server = s /\ t.gone = g
        /\ t.todo = td /\ t.counts = ds
    BY <1>1, <2>1 DEF Task
  <2> HIDE DEF t
  <2>9. req'[r] = t
    BY <2>6 DEF IInv, TypeOK, RequestsTypeOK
  <2>10. /\ \A v \in User : KeysOf(v)' = KeysOf(v)
         /\ ClientsOf(s)' = ClientsOf(s)
         /\ s \in server' \ DOMAIN wg'
    BY <1>2, <2>3 DEF KeysOf, ClientsOf, getClientInterfacesFromServer, db
  <2>11. Counted(req[r])' = g
    BY <2>8, <2>9 DEF Counted
  <2>12. ASSUME NEW v \in User
         PROVE  IF ds[v] = Unwritten THEN KeysOf(v)' \cap g = {}
                ELSE ds[v] = Cardinality(KeysOf(v)' \ g)
    <3>1. CASE v = u
      <4>1. k \in KeysOf(u)
        BY <2>3 DEF KeysOf, ClientsOf, getClientInterfacesFromServer
      <4>2. IsFiniteSet(KeysOf(u) \ (g \ {k}))
        BY KeysFinite, FS_Subset DEF SInv
      <4>3. /\ KeysOf(u) \ g = (KeysOf(u) \ (g \ {k})) \ {k}
            /\ k \in KeysOf(u) \ (g \ {k})
        BY <2>3, <4>1
      <4>4. Cardinality((KeysOf(u) \ (g \ {k})) \ {k})
              = Cardinality(KeysOf(u) \ (g \ {k})) - 1
        BY <4>2, <4>3, FS_RemoveElement
      <4>5. Cardinality(KeysOf(u) \ g) = c - 1
        BY <2>3, <4>3, <4>4
      <4>6. ds[u] # Unwritten
        BY <2>4, <2>5 DEF Unwritten
      <4> QED
        BY <2>5, <2>10, <3>1, <4>5, <4>6
    <3>2. CASE v # u
      <4>1. k \notin KeysOf(v)
        BY <2>3, <3>2 DEF KeysOf
      <4>2. KeysOf(v) \cap g = KeysOf(v) \cap (g \ {k}) /\ KeysOf(v) \ g = KeysOf(v) \ (g \ {k})
        BY <4>1
      <4> QED
        BY <2>3, <2>5, <2>10, <3>2, <4>2
    <3> QED
      BY <3>1, <3>2
  <2>13. DeletingServerOK(req[r])'
    BY <2>3, <2>8, <2>9, <2>10, <2>11, <2>12 DEF DeletingServerOK
  <2> QED
    BY <1>2, <2>6, <2>7, <2>8, <2>13, DeletingServerStep
<1> QED
  BY <1>3, <1>4

LEMMA SerialDeleteServerKey ==
  ASSUME IInv, SInv, OneRequest, OneRequest', NEW r \in Request, DeleteServerKey(r)
  PROVE  SInv'
<1>1. /\ req[r] \in Task /\ DeletingServerOK(req[r])
      /\ req[r].at = "deleteServerKey" /\ req[r].op = "deleteserver"
  BY HandlerOfRequest DEF DeleteServerKey, HandlerOK, OpOK
<1>2. PICK g \in SUBSET Key, s \in Server \cup {None},
           cs \in [User -> Nat \cup {Unwritten}] :
        g = req[r].gone /\ s = req[r].server /\ cs = req[r].counts
  BY <1>1 DEF Task
<1>3. /\ g = ClientsOf(s)
      /\ \A v \in User : IF cs[v] = Unwritten THEN KeysOf(v) \cap g = {}
                         ELSE cs[v] = Cardinality(KeysOf(v) \ g)
  BY <1>1, <1>2 DEF DeletingServerOK, Counted
<1>4. deleteServer(s, g, cs)
  BY <1>2 DEF DeleteServerKey
<1>5. /\ DOMAIN client' = DOMAIN client \ g
      /\ \A k \in DOMAIN client' : client'[k] = client[k]
  BY <1>3, <1>4 DEF deleteServer, ClientsOf, getClientInterfacesFromServer
<1>6. /\ DOMAIN profile' = DOMAIN profile
      /\ \A v \in DOMAIN profile :
           /\ cs[v] = Unwritten => profile'[v] = profile[v]
           /\ cs[v] # Unwritten => profile'[v].key_count = cs[v]
  BY <1>4 DEF deleteServer, IInv, TypeOK, DatabaseTypeOK, IsTable, ProfileRow
<1>7. \A v \in User : KeysOf(v)' = KeysOf(v) \ g
  BY <1>5 DEF KeysOf
<1>8. ASSUME NEW v \in DOMAIN profile'
      PROVE  profile'[v].key_count = Cardinality(KeysOf(v)')
  <2>1. v \in User /\ v \in DOMAIN profile
    BY <1>6 DEF IInv, TypeOK, DatabaseTypeOK, IsTable
  <2>2. CASE cs[v] = Unwritten
    <3>1. KeysOf(v) \ g = KeysOf(v)
      BY <1>3, <2>1, <2>2
    <3> QED
      BY <1>6, <1>7, <2>1, <2>2, <3>1 DEF SInv, TablesOK, CountsExact
  <2>3. CASE cs[v] # Unwritten
    BY <1>3, <1>6, <1>7, <2>1, <2>3
  <2> QED
    BY <2>2, <2>3
<1>9. CountsExact'
  BY <1>8 DEF CountsExact
<1>10. IsFiniteSet(DOMAIN client')
  BY <1>5, FS_Subset DEF SInv, TablesOK
<1>11. AddressesDistinct' /\ EveryClientHasPeer'
  BY <1>5 DEF SInv, TablesOK, AddressesDistinct, EveryClientHasPeer, ServerAddress
<1> QED
  BY <1>1, <1>9, <1>10, <1>11, SerialFinish DEF DeleteServerKey, TablesOK

-----------------------------------------------------------------------------
\* Steps of no request

LEMMA SerialReboot == ASSUME IInv, SInv, Reboot PROVE SInv'
<1>1. TablesOK'
  BY SameTables DEF Reboot, SInv
<1>2. ASSUME NEW q \in Request PROVE HandlerOK(req[q])'
  <2>1. req'[q].op = "none" /\ req'[q].at = "idle"
    BY DEF Reboot, Idle
  <2> QED
    BY <2>1 DEF HandlerOK, OpOK, CreatingOK, DeletingKeyOK, DeletingServerOK,
       AdministratingOK
<1> QED
  BY <1>1, <1>2 DEF SInv

LEMMA SerialCreateNewServer == ASSUME IInv, SInv, CreateNewServer PROVE SInv'
<1>1. /\ server \subseteq server' /\ profile' = profile /\ client' = client
      /\ wg' = wg /\ req' = req
  BY DEF CreateNewServer
<1>2. TablesOK'
  BY <1>1 DEF SInv, TablesOK, CountsExact, AddressesDistinct, EveryClientHasPeer, KeysOf
<1>3. ASSUME NEW q \in Request PROVE HandlerOK(req[q])'
  <2>1. HandlerOK(req[q])
    BY DEF SInv
  <2>2. OpOK(req[q])' /\ DeletingKeyOK(req[q])'
    BY <1>1, <2>1 DEF HandlerOK, OpOK, DeletingKeyOK, KeysOf
  <2>3. CreatingOK(req[q])'
    BY <1>1, <2>1 DEF HandlerOK, CreatingOK, MayCreateKey
  <2>4. DeletingServerOK(req[q])'
    BY <1>1, <2>1 DEF HandlerOK, DeletingServerOK, KeysOf, ClientsOf,
       getClientInterfacesFromServer, Counted
  <2>5. AdministratingOK(req[q])'
    BY <1>1, <2>1 DEF HandlerOK, AdministratingOK, ConfOf, getVerifiedPeersFromServer,
       getClientInterfacesFromServer
  <2> QED
    BY <2>2, <2>3, <2>4, <2>5 DEF HandlerOK
<1> QED
  BY <1>2, <1>3 DEF SInv

LEMMA SerialCreateUser == ASSUME IInv, SInv, CreateUser PROVE SInv'
<1>1. PICK u \in User \ DOMAIN profile :
        profile' = Put(profile, u, [verified |-> FALSE, key_limit |-> DefaultKeyLimit,
                                    key_count |-> 0])
  BY DEF CreateUser
<1>2. /\ client' = client /\ server' = server /\ wg' = wg /\ req' = req
      /\ DOMAIN profile' = DOMAIN profile \cup {u} /\ profile'[u].key_count = 0
      /\ \A v \in DOMAIN profile : profile'[v] = profile[v]
  BY <1>1 DEF CreateUser, Put
<1>3. KeysOf(u) = {}
  BY DEF KeysOf, IInv, ReferentialIntegrity
<1>4. \A v \in User : KeysOf(v)' = KeysOf(v)
  BY <1>2 DEF KeysOf
<1>5. CountsExact'
  <2>1. Cardinality(KeysOf(u)) = 0
    BY <1>3, FS_EmptySet
  <2>2. ASSUME NEW v \in DOMAIN profile'
        PROVE  profile'[v].key_count = Cardinality(KeysOf(v)')
    BY <1>2, <2>1 DEF SInv, TablesOK, CountsExact, KeysOf
  <2> QED
    BY <2>2 DEF CountsExact
<1>6. TablesOK'
  BY <1>2, <1>5 DEF SInv, TablesOK, AddressesDistinct, EveryClientHasPeer
<1>7. ASSUME NEW q \in Request PROVE HandlerOK(req[q])'
  <2>1. HandlerOK(req[q])
    BY DEF SInv
  <2>2. OpOK(req[q])' /\ AdministratingOK(req[q])'
    <3>1. \A s : ConfOf(s)' = ConfOf(s)
      BY <1>2 DEF ConfOf, getVerifiedPeersFromServer, getClientInterfacesFromServer, IInv,
         ReferentialIntegrity
    <3> QED
      BY <1>2, <2>1, <3>1 DEF HandlerOK, OpOK, AdministratingOK
  <2>3. CreatingOK(req[q])'
    BY <1>2, <2>1 DEF HandlerOK, CreatingOK, MayCreateKey
  <2>4. DeletingKeyOK(req[q])'
    <3>1. ASSUME req[q].key \in KeysOf(req[q].user)
          PROVE  req[q].user \in DOMAIN profile
      BY <3>1 DEF KeysOf, IInv, ReferentialIntegrity
    <3> QED
      BY <1>2, <2>1, <3>1 DEF HandlerOK, DeletingKeyOK, KeysOf
  <2>5. DeletingServerOK(req[q])'
    BY <1>2, <2>1 DEF HandlerOK, DeletingServerOK, KeysOf, ClientsOf,
       getClientInterfacesFromServer, Counted
  <2> QED
    BY <2>2, <2>3, <2>4, <2>5 DEF HandlerOK
<1> QED
  BY <1>6, <1>7 DEF SInv

LEMMA SerialStutter == ASSUME SInv, UNCHANGED vars PROVE SInv'
<1>1. UNCHANGED <<profile, client, server, wg, req>> /\ TablesOK'
  BY SameTables DEF vars, db, SInv
<1>2. ASSUME NEW q \in Request PROVE HandlerOK(req[q])'
  <2>1. HandlerOK(req[q])
    BY DEF SInv
  <2>2. OpOK(req[q])' /\ AdministratingOK(req[q])'
    BY <1>1, <2>1 DEF HandlerOK, OpOK, AdministratingOK, ConfOf,
       getVerifiedPeersFromServer, getClientInterfacesFromServer
  <2>3. CreatingOK(req[q])'
    BY <1>1, <2>1 DEF HandlerOK, CreatingOK, MayCreateKey
  <2>4. DeletingKeyOK(req[q])'
    BY <1>1, <2>1 DEF HandlerOK, DeletingKeyOK, KeysOf
  <2>5. DeletingServerOK(req[q])'
    BY <1>1, <2>1 DEF HandlerOK, DeletingServerOK, KeysOf, ClientsOf,
       getClientInterfacesFromServer, Counted
  <2> QED
    BY <2>2, <2>3, <2>4, <2>5 DEF HandlerOK
<1> QED
  BY <1>1, <1>2 DEF SInv

LEMMA SerialInit == Init => SInv
<1> SUFFICES ASSUME Init PROVE SInv
  OBVIOUS
<1>1. DOMAIN client = {} /\ DOMAIN profile = {}
  BY DEF Init, DatabaseInit
<1>2. TablesOK
  BY <1>1, FS_EmptySet DEF TablesOK, CountsExact, AddressesDistinct, EveryClientHasPeer
<1>3. ASSUME NEW q \in Request PROVE HandlerOK(req[q])
  BY DEF Init, RequestsInit, Idle, HandlerOK, OpOK, CreatingOK, DeletingKeyOK,
     DeletingServerOK, AdministratingOK
<1> QED
  BY <1>2, <1>3 DEF SInv

-----------------------------------------------------------------------------
\* Every step

\* SInv is inductive as long as requests do not overlap.
LEMMA SerialNext ==
  ASSUME IInv, SInv, OneRequest, OneRequest', [Next]_vars
  PROVE  SInv'
<1>1. ASSUME NEW r \in Request, ClientServiceStart(r) \/ ClientServiceStep(r)
      PROVE  SInv'
  <2>1. CASE SaveClientFails(r)
    <3>1. req[r].op # "none"
      BY <2>1, HandlerOfRequest DEF SaveClientFails
    <3> QED
      BY <2>1, <3>1, SerialFail DEF SaveClientFails
  <2> QED
    BY <1>1, <2>1, SerialNewKey, SerialDeleteClient, SerialAllocateIpAddress,
       SerialSaveClient, SerialCommitClient, SerialAddWGPeer, SerialDeleteKey,
       SerialCommitDeleteClient, SerialRemoveWGPeer
    DEF ClientServiceStart, ClientServiceStep
<1>2. ASSUME NEW r \in Request, ServerServiceStart(r) \/ ServerServiceStep(r)
      PROVE  SInv'
  BY <1>2, SerialSwitchVerifyProfile, SerialUpdateVerified, SerialUpdateProfile,
     SerialSaveProfile, SerialRemoveUser, SerialDeleteUser, SerialGetPeers, SerialLoadPeer,
     SerialSetPeer, SerialPeersDone, SerialToggleServer, SerialStopServer,
     SerialGenerateConf, SerialWgStart, SerialRemoveServer, SerialListClients,
     SerialLoadKey, SerialDecrementCount, SerialClientsDone, SerialDeleteServerKey
  DEF ServerServiceStart, ServerServiceStep
<1>3. ASSUME NEW r \in Request, LockWaitTimeout(r) \/ Crash(r)
      PROVE  SInv'
  <2>1. Fail(r)
    BY <1>3 DEF LockWaitTimeout, Crash
  <2>2. req[r].op # "none"
    BY <1>3, HandlerOfRequest DEF LockWaitTimeout, Blocked, Crash
  <2> QED
    BY <2>1, <2>2, SerialFail
<1> QED
  BY <1>1, <1>2, <1>3, SerialCreateNewServer, SerialCreateUser, SerialReboot, SerialStutter
  DEF Next, Start, Progress

-----------------------------------------------------------------------------
\* Starting an interface

\* Addresses that are distinct leave the peers of a configuration no choice.
LEMMA LoadedIsServed ==
  ASSUME IInv, SInv, NEW r \in Request, WgStart(r),
         NEW s, s = req[r].server, s \notin DOMAIN wg
  PROVE  DOMAIN wg' = DOMAIN wg \cup {s} /\ wg'[s] = Served(s)
<1>1. AdministratingOK(req[r]) /\ req[r].at = "wgStart"
  BY HandlerOfRequest DEF WgStart, HandlerOK
<1>2. s \in Server /\ s # None /\ req[r].conf = ConfOf(s)
  BY <1>1, DatabaseAssumption DEF AdministratingOK, IInv, TypeOK, DatabaseTypeOK
<1> DEFINE V == getVerifiedPeersFromServer(s)
<1>3. PICK peers \in Loaded(ConfOf(s)) : wg' = Put(wg, s, peers)
  BY <1>2 DEF WgStart, restartWGserver, isWGserverUp
<1>4. \A k \in V : /\ k \in DOMAIN client /\ client[k].server = s
                   /\ client[k].ip_address \in HostAddress
  BY DEF getVerifiedPeersFromServer, getClientInterfacesFromServer, IInv, TypeOK,
     DatabaseTypeOK, IsTable, ClientRow
<1> HIDE DEF V
<1>5. {c[1] : c \in ConfOf(s)} = V
  <2>1. ASSUME NEW c \in ConfOf(s) PROVE c[1] \in V
    BY DEF ConfOf, V
  <2>2. ASSUME NEW k \in V PROVE \E c \in ConfOf(s) : c[1] = k
    <3>1. <<k, client[k].ip_address>> \in ConfOf(s)
      BY DEF ConfOf, V
    <3> QED
      BY <3>1
  <2> QED
    BY <2>1, <2>2
<1>6. /\ peers \in [V -> AllowedIps]
      /\ \A k \in V : peers[k] = NoAddress \/ <<k, peers[k]>> \in ConfOf(s)
      /\ \A c \in ConfOf(s) : \E k \in V : peers[k] = c[2]
  BY <1>3, <1>5 DEF Loaded
<1>7. ASSUME NEW k \in V PROVE peers[k] = client[k].ip_address
  <2>1. <<k, client[k].ip_address>> \in ConfOf(s)
    BY DEF ConfOf, V
  <2>2. PICK j \in V : peers[j] = client[k].ip_address
    BY <1>6, <2>1
  <2>3. peers[j] # NoAddress
    BY <1>4, <2>2, DatabaseAssumption DEF HostAddress, NoAddress
  <2>4. <<j, peers[j]>> \in ConfOf(s)
    BY <1>6, <2>3
  <2>5. client[j].ip_address = client[k].ip_address
    BY <2>2, <2>4 DEF ConfOf
  <2>6. j = k
    BY <1>2, <1>4, <2>5 DEF SInv, TablesOK, AddressesDistinct
  <2> QED
    BY <2>2, <2>6
<1>8. Served(s) = [k \in V |-> client[k].ip_address]
  BY DEF Served, V, getVerifiedPeersFromServer, getClientInterfacesFromServer
<1>9. peers = Served(s)
  BY <1>6, <1>7, <1>8
<1> QED
  BY <1>3, <1>9 DEF Put

\* Nothing else starts an interface.
LEMMA OnlyWgStart ==
  ASSUME [Next]_vars, \A r \in Request : ~WgStart(r)
  PROVE  DOMAIN wg' \subseteq DOMAIN wg
<1>1. ASSUME NEW r \in Request, AddWGPeer(r) \/ RemoveWGPeer(r) \/ SetPeer(r)
      PROVE  DOMAIN wg' \subseteq DOMAIN wg
  BY <1>1 DEF AddWGPeer, RemoveWGPeer, SetPeer, addWGPeer, removeWGPeer
<1>2. ASSUME NEW r \in Request, StopServer(r) \/ WgStartFails(r) \/ ListClients(r)
      PROVE  DOMAIN wg' \subseteq DOMAIN wg
  BY <1>2 DEF StopServer, WgStartFails, ListClients, stopWGserver, Delete, Restrict
<1>3. ASSUME NEW r \in Request, ClientServiceStart(r) \/ ClientServiceStep(r)
      PROVE  DOMAIN wg' \subseteq DOMAIN wg
  BY <1>1, <1>3 DEF ClientServiceStart, ClientServiceStep, NewKey, DeleteClient,
     AllocateIpAddress, SaveClient, SaveClientFails, CommitClient, DeleteKey,
     CommitDeleteClient, Fail
<1>4. ASSUME NEW r \in Request, ServerServiceStart(r) \/ ServerServiceStep(r)
      PROVE  DOMAIN wg' \subseteq DOMAIN wg
  <2>1. CASE ServerServiceStart(r)
    BY <2>1 DEF ServerServiceStart, SwitchVerifyProfile, UpdateProfile, RemoveUser,
       ToggleServer, RemoveServer
  <2>2. CASE ServerServiceStep(r)
    BY <1>1, <1>2, <2>2 DEF ServerServiceStep, UpdateVerified, SaveProfile, DeleteUser,
       GetPeers, LoadPeer, PeersDone, GenerateConf, LoadKey, DecrementCount, ClientsDone,
       DeleteServerKey, Fail
  <2> QED
    BY <1>4, <2>1, <2>2
<1>5. ASSUME NEW r \in Request, LockWaitTimeout(r) \/ Crash(r)
      PROVE  DOMAIN wg' \subseteq DOMAIN wg
  BY <1>5 DEF LockWaitTimeout, Crash, Fail
<1>6. CASE CreateNewServer \/ CreateUser \/ Reboot \/ UNCHANGED vars
  BY <1>6 DEF CreateNewServer, CreateUser, Reboot, vars
<1> QED
  BY <1>3, <1>4, <1>5, <1>6 DEF Next, Start, Progress

-----------------------------------------------------------------------------
\* Theorems

\* While requests do not overlap, what the handlers hold agrees with the tables.
THEOREM SerialInvariance == Spec /\ []OneRequest => []SInv
<1>1. Init => SInv
  BY SerialInit
<1>2. IInv /\ SInv /\ OneRequest /\ OneRequest' /\ [Next]_vars => SInv'
  BY SerialNext
<1> QED
  BY <1>1, <1>2, Invariance, PTL DEF Spec

(* Whatever threads are killed, key_count is the number of keys a user has as long
   as requests do not overlap: saveClient, deleteClient and deleteServer write
   back a count that is still right. *)
THEOREM SerialKeyCountExact == Spec /\ []OneRequest => []KeyCountExact
<1>1. SInv => KeyCountExact
  BY DEF SInv, TablesOK, CountsExact, KeyCountExact
<1> QED
  BY <1>1, SerialInvariance, PTL

(* As long as requests do not overlap, allocateIpAddress gives an address that no
   client of the server has when it is saved, and that is not the server's. *)
THEOREM SerialAddressesDistinct == Spec /\ []OneRequest => []AddressesDistinct
<1>1. SInv => AddressesDistinct
  BY DEF SInv, TablesOK
<1> QED
  BY <1>1, SerialInvariance, PTL

(* As long as requests do not overlap, deleteServer deletes every client of the
   server before it cascades: no client is left without its Peer. *)
THEOREM SerialEveryClientHasPeer == Spec /\ []OneRequest => []EveryClientHasPeer
<1>1. SInv => EveryClientHasPeer
  BY DEF SInv, TablesOK
<1> QED
  BY <1>1, SerialInvariance, PTL

(* As long as requests do not overlap, an interface that is started serves exactly the
   verified clients of its server: its configuration is not stale when it is read,
   and no two sections of it share an address. *)
THEOREM SerialStartLoadsVerified == Spec /\ []OneRequest => StartLoadsVerified
<1>1. IInv /\ SInv /\ [Next]_vars
        => [\A s \in DOMAIN wg' \ DOMAIN wg : wg'[s] = Served(s)]_vars
  <2> SUFFICES ASSUME IInv, SInv, [Next]_vars, NEW s \in DOMAIN wg' \ DOMAIN wg
               PROVE  wg'[s] = Served(s)
    OBVIOUS
  <2>1. PICK r \in Request : WgStart(r)
    BY OnlyWgStart
  <2>2. s = req[r].server
    BY <2>1 DEF WgStart, restartWGserver, Put
  <2> QED
    BY <2>1, <2>2, LoadedIsServed
<1> QED
  BY <1>1, Invariance, SerialInvariance, PTL DEF Spec, StartLoadsVerified

=============================================================================
