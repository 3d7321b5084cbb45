----------------------------- MODULE MirrorProofs ----------------------------
(***************************************************************************)
(* Proofs about WgWeb: what the handlers of requests that do not overlap   *)
(* do to the WireGuard interfaces adds up to what they do to the tables,   *)
(* for any users, keys, servers and threads, with killed threads and       *)
(* reboots.                                                                *)
(***************************************************************************)
EXTENDS SerialProofs

\* Some interface that is up has peer k.
HasPeer(k) == \E s \in DOMAIN wg : k \in DOMAIN wg[s]

\* Interface s should serve client k.
Owed(s, k) ==
  /\ k \in DOMAIN client
  /\ client[k].server = s
  /\ profile[client[k].user].verified

\* Peer k of interface s is not what the rows say.
WrongPeer(s, k) ==
  /\ s \in DOMAIN wg
  /\ IF Owed(s, k) THEN k \notin DOMAIN wg[s] \/ wg[s][k] # client[k].ip_address
                   ELSE k \in DOMAIN wg[s]

\* The rows of client k are what t holds.
LoadedClient(t) ==
  /\ t.key \in DOMAIN client
  /\ client[t.key].server = t.server
  /\ client[t.key].ip_address = t.address

\* newkey: a fresh key has no peer before its rows are committed.
AddingPeerOK(t) ==
  /\ t.at \in {"allocateIpAddress", "saveClient", "commitClient"} => ~HasPeer(t.key)
  /\ t.at = "addWGPeer" =>
       t.op = "newkey" /\ LoadedClient(t) /\ profile[client[t.key].user].verified

\* deletekey: the peer that is left is at the server the handler knows.
RemovingPeerOK(t) ==
  /\ t.op = "deletekey" /\ t.at \in {"deleteKey", "decrementCount"}
       => t.server = client[t.key].server
  /\ t.at = "removeWGPeer" =>
       /\ t.op = "deletekey"
       /\ t.key \notin DOMAIN client
       /\ t.server \in Server
       /\ \A s \in DOMAIN wg : t.key \in DOMAIN wg[s] => s = t.server

(* verify, settings and deleteuser: the clients at hand and to come are the
   user's, and those that are through are disconnected when the user goes. *)
SettingPeersOK(t) ==
  /\ t.at \in {"updateVerified", "saveProfile", "getPeers", "loadPeer", "deleteUser"}
       => t.key = None
  /\ t.op \in {"verify", "settings"} /\ t.at \in {"getPeers", "loadPeer", "setPeer"}
       => t.user \in DOMAIN profile /\ profile[t.user].verified = t.verified
  /\ t.at \in {"loadPeer", "setPeer"} => t.todo \subseteq KeysOf(t.user)
  /\ t.at = "setPeer" => t.key \in KeysOf(t.user) /\ LoadedClient(t)
  /\ t.op = "deleteuser" => ~t.verified
  /\ t.op = "deleteuser" /\ t.at \in {"loadPeer", "setPeer", "deleteUser"}
       => \A k \in KeysOf(t.user) : HasPeer(k) => k \in t.todo \cup {t.key}
  /\ t.at = "deleteUser" => t.todo = {}

MirrorOK(t) == AddingPeerOK(t) /\ RemovingPeerOK(t) /\ SettingPeersOK(t)

\* A peer that is a client is a peer of the interface its row names.
PeersAtHome ==
  \A s \in DOMAIN wg : \A k \in DOMAIN wg[s] \cap DOMAIN client : client[k].server = s

ThreadsRest == \A r \in Request : req[r].op = "none" => req[r] = Idle

MInv ==
  /\ ThreadsRest
  /\ DOMAIN wg \subseteq server
  /\ PeersAtHome
  /\ \A r \in Request : MirrorOK(req[r])

\* A step of r leaves no peer wrong behind that was not, its own included.
Mirrors(r) ==
  \A s \in Server, k \in Key :
    WrongPeer(s, k)' /\ k \notin Unfinished(req[r])'
      => WrongPeer(s, k) /\ k \notin Unfinished(req[r])

-----------------------------------------------------------------------------
\* What a step has to establish

LEMMA WrongMeaning ==
  /\ \A s, k : <<s, k>> \in Wrong <=> WrongPeer(s, k)
  /\ \A s, k : <<s, k>> \in Wrong' <=> WrongPeer(s, k)'
<1>1. ASSUME NEW s, NEW k
      PROVE  <<s, k>> \in Wrong <=> WrongPeer(s, k)
  <2>1. /\ DOMAIN Served(s) = {j \in DOMAIN client : Owed(s, j)}
        /\ \A j \in DOMAIN Served(s) : Served(s)[j] = client[j].ip_address
    BY DEF Served, Owed
  <2>2. <<s, k>> \in Wrong
          <=> /\ s \in DOMAIN wg
              /\ k \in DOMAIN wg[s] \cup DOMAIN Served(s)
              /\ ~(/\ k \in DOMAIN wg[s] \cap DOMAIN Served(s)
                   /\ wg[s][k] = Served(s)[k])
    BY DEF Wrong
  <2> QED
    BY <2>1, <2>2 DEF WrongPeer, Owed
<1>2. ASSUME NEW s, NEW k
      PROVE  <<s, k>> \in Wrong' <=> WrongPeer(s, k)'
  <2>1. /\ DOMAIN Served(s)' = {j \in DOMAIN client' : Owed(s, j)'}
        /\ \A j \in DOMAIN Served(s)' : Served(s)'[j] = client'[j].ip_address
    BY DEF Served, Owed
  <2>2. <<s, k>> \in Wrong'
          <=> /\ s \in DOMAIN wg'
              /\ k \in DOMAIN wg'[s] \cup DOMAIN Served(s)'
              /\ ~(/\ k \in DOMAIN wg'[s] \cap DOMAIN Served(s)'
                   /\ wg'[s][k] = Served(s)'[k])
    BY DEF Wrong
  <2> QED
    BY <2>1, <2>2 DEF WrongPeer, Owed
<1> QED
  BY <1>1, <1>2

\* What an idle thread has to do.
LEMMA NothingUnfinished ==
  ASSUME NEW q, req[q].op = "none", req[q].at = "idle"
  PROVE  Unfinished(req[q]) = {}
BY DEF Unfinished

\* The other threads are idle while r runs.
LEMMA OthersIdle ==
  ASSUME SInv, OneRequest, NEW r \in Request, req[r].op # "none"
  PROVE  \A q \in Request \ {r} : req[q].op = "none" /\ req[q].at = "idle"
BY DEF OneRequest, SInv, HandlerOK, OpOK

\* The peers that the only request leaves wrong are all there are.
LEMMA LeavesBehind ==
  ASSUME SInv, OneRequest, TypeOK', NEW r \in Request, req[r].op # "none",
         \A q \in Request \ {r} : req'[q] = req[q],
         Mirrors(r)
  PROVE  LeftBehind' \subseteq LeftBehind
<1> SUFFICES ASSUME NEW d \in LeftBehind' PROVE d \in LeftBehind
  OBVIOUS
<1>1. d \in Wrong' /\ d[2] \notin Unfinished(req[r])'
  BY DEF LeftBehind
<1>2. PICK s, k : d = <<s, k>>
  BY <1>1 DEF Wrong
<1>3. WrongPeer(s, k)'
  BY <1>1, <1>2, WrongMeaning
<1>4. s \in Server /\ k \in Key
  BY <1>3 DEF TypeOK, WireGuardTypeOK, DatabaseTypeOK, IsTable, WrongPeer, Owed
<1>5. WrongPeer(s, k) /\ k \notin Unfinished(req[r])
  BY <1>1, <1>2, <1>3, <1>4 DEF Mirrors
<1>6. \A q \in Request \ {r} : Unfinished(req[q]) = {}
  BY OthersIdle, NothingUnfinished
<1> QED
  BY <1>2, <1>5, <1>6, WrongMeaning DEF LeftBehind

\* A step of the only request there is.
LEMMA MirrorStep ==
  ASSUME IInv, SInv, MInv, OneRequest, OneRequest', NEW r \in Request, NEW t \in Task,
         req' = [req EXCEPT ![r] = t], req[r].op # "none" \/ t.op # "none",
         t.op = "none" => t = Idle,
         (DOMAIN wg \subseteq server)', PeersAtHome', MirrorOK(req[r])'
  PROVE  MInv'
<1>1. /\ req'[r] = t
      /\ \A q \in Request \ {r} : req'[q] = req[q]
  BY DEF IInv, TypeOK, RequestsTypeOK
<1>2. \A q \in Request \ {r} : req'[q].op = "none" /\ req'[q].at = "idle"
  BY <1>1 DEF OneRequest, SInv, HandlerOK, OpOK
<1>3. ASSUME NEW q \in Request \ {r}
      PROVE  MirrorOK(req[q])'
  BY <1>2 DEF MirrorOK, AddingPeerOK, RemovingPeerOK, SettingPeersOK
<1>4. ThreadsRest'
  BY <1>1 DEF MInv, ThreadsRest
<1> QED
  BY <1>3, <1>4 DEF MInv

\* The tables and interfaces stay, and with them where the peers are.
LEMMA SameHomes ==
  ASSUME MInv, UNCHANGED <<db, wg>>
  PROVE  (DOMAIN wg \subseteq server)' /\ PeersAtHome'
BY DEF MInv, PeersAtHome, db

\* A handler that ends.
LEMMA MirrorFinish ==
  ASSUME IInv, SInv, MInv, OneRequest, OneRequest', NEW r \in Request,
         req[r].op # "none", Finish(r), (DOMAIN wg \subseteq server)', PeersAtHome'
  PROVE  MInv'
<1>1. req' = [req EXCEPT ![r] = Idle] /\ Idle \in Task
  BY IdleTask DEF Finish
<1>2. req'[r].op = "none" /\ req'[r].at = "idle"
  BY <1>1 DEF IInv, TypeOK, RequestsTypeOK, Idle
<1>3. MirrorOK(req[r])'
  BY <1>2 DEF MirrorOK, AddingPeerOK, RemovingPeerOK, SettingPeersOK
<1> QED
  BY <1>1, <1>3, MirrorStep

LEMMA AfterFinish ==
  ASSUME IInv, NEW r \in Request, Finish(r)
  PROVE  Unfinished(req[r])' = {}
<1>1. req'[r] = Idle
  BY DEF Finish, IInv, TypeOK, RequestsTypeOK
<1>2. req'[r].op = "none" /\ req'[r].at = "idle"
  BY <1>1 DEF Idle
<1> QED
  BY <1>2 DEF Unfinished

\* Statements that only read: what the request still has to do is all that counts.
LEMMA QuietStep ==
  ASSUME NEW r, UNCHANGED <<db, wg>>,
         Unfinished(req[r]) \cap Key \subseteq Unfinished(req[r])'
  PROVE  Mirrors(r)
<1>1. \A s, k : WrongPeer(s, k)' <=> WrongPeer(s, k)
  BY DEF WrongPeer, Owed, db
<1> QED
  BY <1>1 DEF Mirrors

\* A handler that raises with nothing left to do.
LEMMA MirrorFail ==
  ASSUME IInv, SInv, MInv, OneRequest, OneRequest', NEW r \in Request,
         req[r].op # "none", Finish(r), UNCHANGED <<db, wg>>,
         Unfinished(req[r]) \cap Key = {}
  PROVE  MInv' /\ Mirrors(r)
BY MirrorFinish, SameHomes, QuietStep

-----------------------------------------------------------------------------
\* newkey

\* A fresh key has no peer anywhere.
LEMMA MirrorNewKey ==
  ASSUME IInv, SInv, MInv, OneRequest, OneRequest', NEW r \in Request, NewKey(r)
  PROVE  MInv'
<1>1. PICK u \in DOMAIN profile, s \in server, k \in FreshKeys :
        req' = [req EXCEPT ![r] = [Idle EXCEPT !.op = "newkey",
                  !.at = "allocateIpAddress", !.user = u, !.server = s, !.key = k]]
  BY DEF NewKey
<1> DEFINE t == [Idle EXCEPT !.op = "newkey", !.at = "allocateIpAddress",
                             !.user = u, !.server = s, !.key = k]
<1>2. u \in User /\ s \in Server /\ k \in Key /\ ~HasPeer(k)
  BY DEF IInv, TypeOK, DatabaseTypeOK, IsTable, FreshKeys, HasPeer
<1>3. t \in Task
  BY <1>2, IdleTask DEF Idle, Task, Step, Operation, AllowedIps, NoAddress
<1>4. t.op = "newkey" /\ t.at = "allocateIpAddress" /\ t.key = k
  BY DEF Idle
<1>5. req' = [req EXCEPT ![r] = t] /\ UNCHANGED <<db, wg>>
  BY <1>1 DEF NewKey
<1> HIDE DEF t
<1>6. req'[r] = t
  BY <1>5 DEF IInv, TypeOK, RequestsTypeOK
<1>7. MirrorOK(req[r])'
  BY <1>2, <1>4, <1>5, <1>6 DEF MirrorOK, AddingPeerOK, RemovingPeerOK, SettingPeersOK,
     HasPeer
<1> QED
  BY <1>3, <1>4, <1>5, <1>7, MirrorStep, SameHomes

\* A step of newkey before its commit.
LEMMA MirrorCreating ==
  ASSUME IInv, SInv, MInv, OneRequest, OneRequest', NEW r \in Request, NEW t \in Task,
         req' = [req EXCEPT ![r] = t], UNCHANGED <<db, wg>>,
         req[r].at \in {"allocateIpAddress", "saveClient"},
         t.op = "newkey", t.at \in {"saveClient", "commitClient"}, t.key = req[r].key
  PROVE  MInv' /\ Mirrors(r)
<1>1. req'[r] = t
  BY DEF IInv, TypeOK, RequestsTypeOK
<1>2. ~HasPeer(t.key) /\ req[r].op = "newkey"
  BY HandlerOfRequest DEF MInv, MirrorOK, AddingPeerOK, HandlerOK, OpOK
<1>3. MirrorOK(req[r])'
  BY <1>1, <1>2 DEF MirrorOK, AddingPeerOK, RemovingPeerOK, SettingPeersOK, HasPeer
<1>4. Unfinished(req[r]) = {}
  BY <1>2 DEF Unfinished
<1> QED
  BY <1>3, <1>4, MirrorStep, SameHomes, QuietStep

LEMMA MirrorAllocateIpAddress ==
  ASSUME IInv, SInv, MInv, OneRequest, OneRequest', NEW r \in Request,
         AllocateIpAddress(r)
  PROVE  MInv' /\ Mirrors(r)
<1>1. /\ req[r] \in Task /\ req[r].at = "allocateIpAddress" /\ req[r].op = "newkey"
  BY HandlerOfRequest DEF AllocateIpAddress, HandlerOK, OpOK
<1>2. UNCHANGED <<db, wg>>
  BY DEF AllocateIpAddress
<1>3. CASE Finish(r)
  <2>1. Unfinished(req[r]) = {}
    BY <1>1 DEF Unfinished
  <2> QED
    BY <1>1, <1>2, <1>3, <2>1, MirrorFail
<1>4. CASE ~Finish(r)
  <2>1. PICK a \in HostAddress :
          req' = [req EXCEPT ![r].at = "saveClient", ![r].address = a]
    BY <1>4 DEF AllocateIpAddress
  <2> DEFINE t == [req[r] EXCEPT !.at = "saveClient", !.address = a]
  <2>2. t \in Task
    BY <1>1 DEF Task, Step, AllowedIps
  <2>3. t.op = "newkey" /\ t.at = "saveClient" /\ t.key = req[r].key
    BY <1>1 DEF Task
  <2>4. req' = [req EXCEPT ![r] = t]
    BY <2>1 DEF IInv, TypeOK, RequestsTypeOK, Task
  <2> HIDE DEF t
  <2> QED
    BY <1>1, <1>2, <2>2, <2>3, <2>4, MirrorCreating
<1> QED
  BY <1>3, <1>4

LEMMA MirrorSaveClient ==
  ASSUME IInv, SInv, MInv, OneRequest, OneRequest', NEW r \in Request, SaveClient(r)
  PROVE  MInv' /\ Mirrors(r)
<1> DEFINE n == profile[req[r].user].key_count
           t == [req[r] EXCEPT !.at = "commitClient", !.count = n]
<1>1. /\ req[r] \in Task /\ req[r].at = "saveClient" /\ req[r].op = "newkey"
  BY HandlerOfRequest DEF SaveClient, HandlerOK, OpOK
<1>2. UNCHANGED <<db, wg>> /\ n \in Nat
  BY DEF SaveClient, IInv, TypeOK, DatabaseTypeOK, IsTable, ProfileRow
<1>3. req' = [req EXCEPT ![r] = t]
  BY DEF SaveClient, IInv, TypeOK, RequestsTypeOK, Task
<1> HIDE DEF n
<1>4. t \in Task
  BY <1>1, <1>2 DEF Task, Step
<1>5. t.op = "newkey" /\ t.at = "commitClient" /\ t.key = req[r].key
  BY <1>1 DEF Task
<1> HIDE DEF t
<1> QED
  BY <1>1, <1>2, <1>3, <1>4, <1>5, MirrorCreating

LEMMA MirrorSaveClientFails ==
  ASSUME IInv, SInv, MInv, OneRequest, OneRequest', NEW r \in Request, SaveClientFails(r)
  PROVE  MInv' /\ Mirrors(r)
<1>1. req[r].at = "saveClient" /\ req[r].op = "newkey"
  BY HandlerOfRequest DEF SaveClientFails, HandlerOK, OpOK
<1>2. Unfinished(req[r]) = {}
  BY <1>1 DEF Unfinished
<1> QED
  BY <1>1, <1>2, MirrorFail DEF SaveClientFails, Fail

\* The new client is the one peer to be missing, and the request is about to add it.
LEMMA MirrorCommitClient ==
  ASSUME IInv, SInv, MInv, OneRequest, OneRequest', NEW r \in Request, CommitClient(r)
  PROVE  MInv' /\ Mirrors(r)
<1>1. /\ req[r] \in Task /\ CreatingOK(req[r]) /\ LocalsOK(req[r])
      /\ req[r].at = "commitClient" /\ req[r].op = "newkey"
      /\ ~HasPeer(req[r].key)
  BY HandlerOfRequest DEF CommitClient, HandlerOK, OpOK, MInv, MirrorOK, AddingPeerOK
<1>2. PICK u \in User, k \in Key, s \in Server, a \in HostAddress :
        u = req[r].user /\ k = req[r].key /\ s = req[r].server /\ a = req[r].address
  BY <1>1 DEF LocalsOK
<1> DEFINE row == [user |-> u, ip_address |-> a, server |-> s]
           t == [req[r] EXCEPT !.at = "addWGPeer"]
<1>3. /\ u \in DOMAIN profile /\ k \notin DOMAIN client /\ profile[u].verified
  BY <1>1, <1>2 DEF CreatingOK, MayCreateKey
<1>4. /\ client' = Put(client, k, row)
      /\ profile' = [profile EXCEPT ![u].key_count = req[r].count + 1]
      /\ server' = server /\ wg' = wg
  BY <1>2 DEF CommitClient, saveClient
<1>5. /\ DOMAIN client' = DOMAIN client \cup {k}
      /\ client'[k].user = u /\ client'[k].server = s /\ client'[k].ip_address = a
      /\ \A j \in DOMAIN client : client'[j] = client[j]
  BY <1>3, <1>4 DEF Put
<1>6. \A v \in DOMAIN profile : profile'[v].verified = profile[v].verified
  BY <1>4 DEF IInv, TypeOK, DatabaseTypeOK, IsTable, ProfileRow
<1>7. req' = [req EXCEPT ![r] = t]
  BY DEF CommitClient, IInv, TypeOK, RequestsTypeOK, Task
<1>8. /\ t \in Task /\ t.op = "newkey" /\ t.at = "addWGPeer" /\ t.key = k
      /\ t.server = s /\ t.address = a
  BY <1>1, <1>2 DEF Task, Step
<1> HIDE DEF t, row
<1>9. req'[r] = t
  BY <1>7 DEF IInv, TypeOK, RequestsTypeOK
<1>10. MirrorOK(req[r])'
  BY <1>3, <1>5, <1>6, <1>8, <1>9 DEF MirrorOK, AddingPeerOK, RemovingPeerOK,
     SettingPeersOK, LoadedClient
<1>11. (DOMAIN wg \subseteq server)' /\ PeersAtHome'
  BY <1>1, <1>2, <1>4, <1>5 DEF MInv, PeersAtHome, HasPeer
<1>12. Unfinished(req[r])' = {k} /\ Unfinished(req[r]) = {}
  BY <1>1, <1>8, <1>9 DEF Unfinished
<1>13. \A j : j # k => \A i : WrongPeer(i, j)' => WrongPeer(i, j)
  BY <1>4, <1>5, <1>6 DEF WrongPeer, Owed, IInv, ReferentialIntegrity
<1> QED
  BY <1>7, <1>8, <1>10, <1>11, <1>12, <1>13, MirrorStep DEF Mirrors

-----------------------------------------------------------------------------
\* wg set

\* An address is taken only from a peer that had no right to it.
LEMMA ConnectPeer ==
  ASSUME IInv, SInv, MInv, UNCHANGED db, NEW k \in DOMAIN client,
         profile[client[k].user].verified,
         addWGPeer(client[k].server, k, client[k].ip_address)
  PROVE  /\ (DOMAIN wg \subseteq server)' /\ PeersAtHome'
         /\ \A i : ~WrongPeer(i, k)'
         /\ \A i, j : j # k /\ WrongPeer(i, j)' => WrongPeer(i, j)
<1>1. PICK s, a : s = client[k].server /\ a = client[k].ip_address
  OBVIOUS
<1>2. client' = client /\ profile' = profile /\ server' = server
  BY DEF db
<1>3. CASE s \notin DOMAIN wg
  <2>1. wg' = wg
    BY <1>1, <1>3 DEF addWGPeer, isWGserverUp
  <2>2. \A i : ~WrongPeer(i, k)'
    BY <1>1, <1>2, <1>3, <2>1 DEF MInv, PeersAtHome, WrongPeer, Owed
  <2>3. \A i, j : WrongPeer(i, j)' => WrongPeer(i, j)
    BY <1>2, <2>1 DEF WrongPeer, Owed
  <2> QED
    BY <1>2, <2>1, <2>2, <2>3, SameHomes DEF db
<1>4. CASE s \in DOMAIN wg
  <2>1. wg' = [wg EXCEPT ![s] = Allow(@, k, a)]
    BY <1>1, <1>4 DEF addWGPeer, isWGserverUp
  <2>2. /\ DOMAIN wg' = DOMAIN wg
        /\ \A i \in DOMAIN wg : i # s => wg'[i] = wg[i]
        /\ wg'[s] = Allow(wg[s], k, a)
    BY <1>4, <2>1
  <2>3. /\ DOMAIN wg'[s] = DOMAIN wg[s] \cup {k}
        /\ wg'[s][k] = a
        /\ \A j \in DOMAIN wg[s] : j # k => wg'[s][j] = IF wg[s][j] = a THEN NoAddress
                                                      ELSE wg[s][j]
    BY <2>2 DEF Allow
  <2>4. (DOMAIN wg \subseteq server)' /\ PeersAtHome'
    BY <1>1, <1>2, <2>2, <2>3 DEF MInv, PeersAtHome
  <2>5. ASSUME NEW i PROVE ~WrongPeer(i, k)'
    BY <1>1, <1>2, <2>2, <2>3 DEF MInv, PeersAtHome, WrongPeer, Owed
  <2>6. ASSUME NEW i, NEW j, j # k, WrongPeer(i, j)' PROVE WrongPeer(i, j)
    <3>1. CASE i # s
      BY <1>2, <2>2, <2>6, <3>1 DEF WrongPeer, Owed
    <3>2. CASE i = s /\ Owed(s, j)
      <4>1. s # None
        BY <1>4, DatabaseAssumption DEF IInv, TypeOK, WireGuardTypeOK
      <4>2. client[j].ip_address # a
        BY <1>1, <2>6, <3>2, <4>1 DEF SInv, TablesOK, AddressesDistinct, Owed
      <4>3. Owed(s, j)'
        BY <1>2, <3>2 DEF Owed
      <4> QED
        BY <1>2, <1>4, <2>3, <2>6, <3>2, <4>2, <4>3 DEF WrongPeer
    <3>3. CASE i = s /\ ~Owed(s, j)
      BY <1>2, <1>4, <2>3, <2>6, <3>3 DEF WrongPeer, Owed
    <3> QED
      BY <3>1, <3>2, <3>3
  <2> QED
    BY <2>4, <2>5, <2>6
<1> QED
  BY <1>3, <1>4

\* Removing a peer from the one interface that has it.
LEMMA DisconnectPeer ==
  ASSUME MInv, UNCHANGED db, NEW k, NEW s, removeWGPeer(s, k),
         \A i \in DOMAIN wg : k \in DOMAIN wg[i] => i = s
  PROVE  /\ (DOMAIN wg \subseteq server)' /\ PeersAtHome'
         /\ ~HasPeer(k)'
         /\ \A j : HasPeer(j)' => HasPeer(j)
         /\ \A i, j : j # k /\ WrongPeer(i, j)' => WrongPeer(i, j)
<1>1. client' = client /\ profile' = profile /\ server' = server
  BY DEF db
<1>2. CASE s \notin DOMAIN wg
  <2>1. wg' = wg
    BY <1>2 DEF removeWGPeer, isWGserverUp
  <2> QED
    BY <1>1, <1>2, <2>1, SameHomes DEF HasPeer, WrongPeer, Owed, db
<1>3. CASE s \in DOMAIN wg
  <2>1. /\ DOMAIN wg' = DOMAIN wg
        /\ \A i \in DOMAIN wg : i # s => wg'[i] = wg[i]
        /\ wg'[s] = Delete(wg[s], {k})
    BY <1>3 DEF removeWGPeer, isWGserverUp
  <2>2. /\ DOMAIN wg'[s] = DOMAIN wg[s] \ {k}
        /\ \A j \in DOMAIN wg'[s] : wg'[s][j] = wg[s][j]
    BY <2>1 DEF Delete, Restrict
  <2>3. (DOMAIN wg \subseteq server)' /\ PeersAtHome'
    BY <1>1, <2>1, <2>2 DEF MInv, PeersAtHome
  <2>4. ~HasPeer(k)' /\ \A j : HasPeer(j)' => HasPeer(j)
    BY <2>1, <2>2 DEF HasPeer
  <2>5. ASSUME NEW i, NEW j, j # k, WrongPeer(i, j)' PROVE WrongPeer(i, j)
    BY <1>1, <2>1, <2>2, <2>5 DEF WrongPeer, Owed
  <2> QED
    BY <2>3, <2>4, <2>5
<1> QED
  BY <1>2, <1>3

LEMMA MirrorAddWGPeer ==
  ASSUME IInv, SInv, MInv, OneRequest, OneRequest', NEW r \in Request, AddWGPeer(r)
  PROVE  MInv' /\ Mirrors(r)
<1>1. /\ req[r].at = "addWGPeer" /\ req[r].op = "newkey" /\ LoadedClient(req[r])
      /\ profile[client[req[r].key].user].verified
  BY DEF AddWGPeer, MInv, MirrorOK, AddingPeerOK
<1>2. PICK k \in DOMAIN client : k = req[r].key
  BY <1>1 DEF LoadedClient
<1>3. addWGPeer(client[k].server, k, client[k].ip_address) /\ UNCHANGED db /\ Finish(r)
  BY <1>1, <1>2 DEF AddWGPeer, LoadedClient
<1>4. /\ (DOMAIN wg \subseteq server)' /\ PeersAtHome'
      /\ \A i : ~WrongPeer(i, k)'
      /\ \A i, j : j # k /\ WrongPeer(i, j)' => WrongPeer(i, j)
  BY <1>1, <1>2, <1>3, ConnectPeer
<1>5. Unfinished(req[r]) = {k}
  BY <1>1, <1>2 DEF Unfinished
<1> QED
  BY <1>1, <1>3, <1>4, <1>5, MirrorFinish DEF Mirrors

-----------------------------------------------------------------------------
\* deletekey

LEMMA MirrorDeleteClient ==
  ASSUME IInv, SInv, MInv, OneRequest, OneRequest', NEW r \in Request, DeleteClient(r)
  PROVE  MInv'
<1>1. PICK k \in DOMAIN client :
        req' = [req EXCEPT ![r] = [Idle EXCEPT !.op = "deletekey",
                  !.at = "deleteKey", !.key = k, !.user = client[k].user,
                  !.server = client[k].server]]
  BY DEF DeleteClient
<1>2. PICK u \in User, s \in Server \cup {None} : u = client[k].user /\ s = client[k].server
  BY DEF IInv, TypeOK, DatabaseTypeOK, IsTable, ClientRow
<1> DEFINE t == [Idle EXCEPT !.op = "deletekey", !.at = "deleteKey", !.key = k,
                             !.user = u, !.server = s]
<1>3. t \in Task
  BY <1>2, IdleTask DEF Task, Step, Operation, IInv, TypeOK, DatabaseTypeOK, IsTable
<1>4. t.op = "deletekey" /\ t.at = "deleteKey" /\ t.key = k /\ t.server = s
  BY DEF Idle
<1>5. req' = [req EXCEPT ![r] = t] /\ UNCHANGED <<db, wg>>
  BY <1>1, <1>2 DEF DeleteClient
<1> HIDE DEF t
<1>6. req'[r] = t
  BY <1>5 DEF IInv, TypeOK, RequestsTypeOK
<1>7. MirrorOK(req[r])'
  BY <1>2, <1>4, <1>5, <1>6 DEF MirrorOK, AddingPeerOK, RemovingPeerOK, SettingPeersOK, db
<1> QED
  BY <1>3, <1>4, <1>5, <1>7, MirrorStep, SameHomes

\* deletekey and deleteserver have nothing to do to WireGuard before they commit.
LEMMA MirrorDeleteKey ==
  ASSUME IInv, SInv, MInv, OneRequest, OneRequest', NEW r \in Request, DeleteKey(r)
  PROVE  MInv' /\ Mirrors(r)
<1>1. /\ req[r] \in Task /\ LocalsOK(req[r]) /\ MirrorOK(req[r])
      /\ req[r].at = "deleteKey" /\ req[r].op \in {"deletekey", "deleteserver"}
  BY HandlerOfRequest DEF DeleteKey, HandlerOK, OpOK, MInv
<1>2. PICK u \in User, k \in Key : u = req[r].user /\ k = req[r].key
  BY <1>1 DEF LocalsOK
<1>3. UNCHANGED <<db, wg>> /\ Unfinished(req[r]) = {}
  BY <1>1 DEF DeleteKey, Unfinished
<1>4. CASE u \notin DOMAIN profile
  BY <1>1, <1>2, <1>3, <1>4, MirrorFail DEF DeleteKey
<1>5. CASE u \in DOMAIN profile
  <2> DEFINE n == IF req[r].counts[u] = Unwritten THEN profile[u].key_count
                                                  ELSE req[r].counts[u]
             t == [req[r] EXCEPT !.at = "decrementCount", !.gone = @ \cup {k}, !.count = n]
  <2>1. n \in Nat
    <3>1. profile[u].key_count \in Nat
      BY <1>5 DEF IInv, TypeOK, DatabaseTypeOK, IsTable, ProfileRow
    <3>2. req[r].counts[u] \in Nat \cup {Unwritten}
      BY <1>1 DEF Task
    <3> QED
      BY <3>1, <3>2
  <2>2. req' = [req EXCEPT ![r] = t]
    BY <1>2, <1>5 DEF DeleteKey, IInv, TypeOK, RequestsTypeOK, Task
  <2> HIDE DEF n
  <2>3. t \in Task
    BY <1>1, <1>2, <2>1 DEF Task, Step
  <2>4. /\ t.op = req[r].op /\ t.at = "decrementCount" /\ t.key = k
        /\ t.server = req[r].server
    BY <1>1, <1>2 DEF Task
  <2> HIDE DEF t
  <2>5. req'[r] = t
    BY <2>2 DEF IInv, TypeOK, RequestsTypeOK
  <2>6. MirrorOK(req[r])'
    BY <1>1, <1>2, <1>3, <2>4, <2>5 DEF MirrorOK, AddingPeerOK, RemovingPeerOK,
       SettingPeersOK, db
  <2> QED
    BY <1>1, <1>3, <2>2, <2>3, <2>4, <2>6, MirrorStep, SameHomes, QuietStep
<1> QED
  BY <1>4, <1>5

\* The peer of the deleted client is left over, and the request is about to remove it.
LEMMA MirrorCommitDeleteClient ==
  ASSUME IInv, SInv, MInv, OneRequest, OneRequest', NEW r \in Request,
         CommitDeleteClient(r)
  PROVE  MInv' /\ Mirrors(r)
<1>1. /\ req[r] \in Task /\ DeletingKeyOK(req[r]) /\ MirrorOK(req[r])
      /\ req[r].at = "decrementCount" /\ req[r].op = "deletekey"
  BY HandlerOfRequest DEF CommitDeleteClient, HandlerOK, MInv
<1>2. Unfinished(req[r]) = {}
  BY <1>1 DEF Unfinished
<1>3. CASE ~CanDecrement(r)
  BY <1>1, <1>2, <1>3, MirrorFail DEF CommitDeleteClient, Fail
<1>4. CASE CanDecrement(r)
  <2> DEFINE t == [req[r] EXCEPT !.at = "removeWGPeer", !.gone = {}]
  <2>1. PICK k \in DOMAIN client, s \in Server :
          k = req[r].key /\ s = req[r].server /\ s = client[k].server
    <3>1. req[r].key \in DOMAIN client /\ req[r].server = client[req[r].key].server
      BY <1>1 DEF DeletingKeyOK, KeysOf, MirrorOK, RemovingPeerOK
    <3>2. client[req[r].key].server \in Server
      BY <3>1 DEF IInv, TypeOK, DatabaseTypeOK, IsTable, ClientRow, SInv, TablesOK,
         EveryClientHasPeer
    <3> QED
      BY <3>1, <3>2
  <2>2. /\ client' = Delete(client, {k})
        /\ profile' = [profile EXCEPT ![req[r].user].key_count = req[r].count - 1]
        /\ server' = server /\ wg' = wg
    BY <1>4, <2>1 DEF CommitDeleteClient, deleteClient
  <2>3. /\ DOMAIN client' = DOMAIN client \ {k}
        /\ \A j \in DOMAIN client' : client'[j] = client[j]
    BY <2>2 DEF Delete, Restrict
  <2>4. \A v \in DOMAIN profile : profile'[v].verified = profile[v].verified
    BY <2>2 DEF IInv, TypeOK, DatabaseTypeOK, IsTable, ProfileRow
  <2>5. req' = [req EXCEPT ![r] = t]
    BY <1>4 DEF CommitDeleteClient, IInv, TypeOK, RequestsTypeOK, Task
  <2>6. /\ t \in Task /\ t.op = "deletekey" /\ t.at = "removeWGPeer" /\ t.key = k
        /\ t.server = s
    BY <1>1, <2>1 DEF Task, Step
  <2> HIDE DEF t
  <2>7. req'[r] = t
    BY <2>5 DEF IInv, TypeOK, RequestsTypeOK
  <2>8. \A i \in DOMAIN wg : k \in DOMAIN wg[i] => i = s
    BY <2>1 DEF MInv, PeersAtHome
  <2>9. MirrorOK(req[r])'
    BY <2>2, <2>3, <2>6, <2>7, <2>8 DEF MirrorOK, AddingPeerOK, RemovingPeerOK,
       SettingPeersOK
  <2>10. (DOMAIN wg \subseteq server)' /\ PeersAtHome'
    BY <2>2, <2>3 DEF MInv, PeersAtHome
  <2>11. Unfinished(req[r])' = {k}
    BY <2>6, <2>7 DEF Unfinished
  <2>12. \A j : j # k => \A i : WrongPeer(i, j)' => WrongPeer(i, j)
    BY <2>2, <2>3, <2>4 DEF WrongPeer, Owed, IInv, ReferentialIntegrity
  <2> QED
    BY <1>2, <2>5, <2>6, <2>9, <2>10, <2>11, <2>12, MirrorStep DEF Mirrors
<1> QED
  BY <1>3, <1>4

LEMMA MirrorRemoveWGPeer ==
  ASSUME IInv, SInv, MInv, OneRequest, OneRequest', NEW r \in Request, RemoveWGPeer(r)
  PROVE  MInv' /\ Mirrors(r)
<1>1. PICK k, s : k = req[r].key /\ s = req[r].server
  OBVIOUS
<1>2. /\ req[r].at = "removeWGPeer" /\ req[r].op = "deletekey" /\ s # None
      /\ k \notin DOMAIN client
      /\ \A i \in DOMAIN wg : k \in DOMAIN wg[i] => i = s
  BY <1>1, DatabaseAssumption DEF RemoveWGPeer, MInv, MirrorOK, RemovingPeerOK
<1>3. removeWGPeer(s, k) /\ UNCHANGED db /\ Finish(r)
  BY <1>1, <1>2 DEF RemoveWGPeer
<1>4. /\ (DOMAIN wg \subseteq server)' /\ PeersAtHome'
      /\ ~HasPeer(k)'
      /\ \A i, j : j # k /\ WrongPeer(i, j)' => WrongPeer(i, j)
  BY <1>2, <1>3, DisconnectPeer
<1>5. \A i : ~WrongPeer(i, k)'
  BY <1>2, <1>3, <1>4 DEF WrongPeer, Owed, HasPeer, db
<1>6. Unfinished(req[r]) = {k}
  BY <1>1, <1>2 DEF Unfinished
<1> QED
  BY <1>2, <1>3, <1>4, <1>5, <1>6, MirrorFinish DEF Mirrors

-----------------------------------------------------------------------------
\* verify, settings and deleteuser

\* A step of these requests, whatever it wrote.
LEMMA SettingStep ==
  ASSUME IInv, SInv, MInv, OneRequest, OneRequest', NEW r \in Request, NEW t \in Task,
         req' = [req EXCEPT ![r] = t],
         t.op \in {"verify", "settings", "deleteuser"},
         t.at \in {"updateVerified", "saveProfile", "getPeers", "loadPeer", "setPeer",
                   "deleteUser"},
         (DOMAIN wg \subseteq server)', PeersAtHome', SettingPeersOK(req[r])'
  PROVE  MInv'
<1>1. req'[r] = t
  BY DEF IInv, TypeOK, RequestsTypeOK
<1>2. MirrorOK(req[r])'
  BY <1>1 DEF MirrorOK, AddingPeerOK, RemovingPeerOK
<1> QED
  BY <1>2, MirrorStep

LEMMA MirrorSwitchVerifyProfile ==
  ASSUME IInv, SInv, MInv, OneRequest, OneRequest', NEW r \in Request,
         SwitchVerifyProfile(r)
  PROVE  MInv'
<1>1. PICK u \in DOMAIN profile :
        req' = [req EXCEPT ![r] = [Idle EXCEPT !.op = "verify",
                  !.at = "updateVerified", !.user = u, !.verified = ~profile[u].verified]]
  BY DEF SwitchVerifyProfile
<1>2. u \in User /\ profile[u].verified \in BOOLEAN
  BY DEF IInv, TypeOK, DatabaseTypeOK, IsTable, ProfileRow
<1> DEFINE t == [Idle EXCEPT !.op = "verify", !.at = "updateVerified", !.user = u,
                             !.verified = ~profile[u].verified]
<1>3. t \in Task
  BY <1>2, IdleTask DEF Task, Step, Operation
<1>4. t.op = "verify" /\ t.at = "updateVerified" /\ t.key = None
  BY <1>2 DEF Idle
<1> HIDE DEF t
<1>5. req' = [req EXCEPT ![r] = t] /\ UNCHANGED <<db, wg>>
  BY <1>1 DEF t, SwitchVerifyProfile
<1>6. req'[r] = t
  BY <1>5 DEF IInv, TypeOK, RequestsTypeOK
<1>7. SettingPeersOK(req[r])'
  BY <1>4, <1>6 DEF SettingPeersOK
<1> QED
  BY <1>3, <1>4, <1>5, <1>7, SettingStep, SameHomes

LEMMA MirrorUpdateProfile ==
  ASSUME IInv, SInv, MInv, OneRequest, OneRequest', NEW r \in Request, UpdateProfile(r)
  PROVE  MInv'
<1>1. PICK u \in DOMAIN profile, v \in BOOLEAN, l \in KeyLimit :
       req' = [req EXCEPT ![r] = [Idle EXCEPT !.op = "settings",
                 !.at = "saveProfile", !.user = u, !.verified = v, !.limit = l,
                 !.count = profile[u].key_count]]
  BY DEF UpdateProfile
<1>2. u \in User /\ l \in Nat
  BY DatabaseAssumption DEF IInv, TypeOK, DatabaseTypeOK, IsTable
<1>3. PICK n \in Nat : n = profile[u].key_count
  BY DEF IInv, TypeOK, DatabaseTypeOK, IsTable, ProfileRow
<1> DEFINE t == [Idle EXCEPT !.op = "settings", !.at = "saveProfile", !.user = u,
                             !.verified = v, !.limit = l, !.count = n]
<1>4. t \in Task
  BY <1>2, IdleTask DEF Idle, Task, Step, Operation
<1>5. t.op = "settings" /\ t.at = "saveProfile" /\ t.key = None
  BY DEF Idle
<1>6. req' = [req EXCEPT ![r] = t] /\ UNCHANGED <<db, wg>>
  BY <1>1, <1>3 DEF UpdateProfile
<1> HIDE DEF t
<1>7. req'[r] = t
  BY <1>6 DEF IInv, TypeOK, RequestsTypeOK
<1>8. SettingPeersOK(req[r])'
  BY <1>5, <1>7 DEF SettingPeersOK
<1> QED
  BY <1>4, <1>5, <1>6, <1>8, SettingStep, SameHomes

LEMMA MirrorRemoveUser ==
  ASSUME IInv, SInv, MInv, OneRequest, OneRequest', NEW r \in Request, RemoveUser(r)
  PROVE  MInv'
<1>1. PICK u \in DOMAIN profile :
        req' = [req EXCEPT ![r] = [Idle EXCEPT !.op = "deleteuser",
                  !.at = "getPeers", !.user = u]]
  BY DEF RemoveUser
<1> DEFINE t == [Idle EXCEPT !.op = "deleteuser", !.at = "getPeers", !.user = u]
<1>2. u \in User
  BY DEF IInv, TypeOK, DatabaseTypeOK, IsTable
<1>3. t \in Task /\ t.op = "deleteuser" /\ t.at = "getPeers" /\ t.key = None /\ ~t.verified
  BY <1>2, IdleTask DEF Idle, Task, Step, Operation
<1>4. req' = [req EXCEPT ![r] = t] /\ UNCHANGED <<db, wg>>
  BY <1>1 DEF RemoveUser
<1> HIDE DEF t
<1>5. req'[r] = t
  BY <1>4 DEF IInv, TypeOK, RequestsTypeOK
<1>6. SettingPeersOK(req[r])'
  BY <1>3, <1>5 DEF SettingPeersOK
<1> QED
  BY <1>3, <1>4, <1>6, SettingStep, SameHomes

\* The rows of one user's profile change: only that user's peers can become wrong.
LEMMA ProfileWritten ==
  ASSUME IInv, SInv, MInv, OneRequest, OneRequest', NEW r \in Request, NEW t \in Task,
         req[r].at \in {"updateVerified", "saveProfile"}, req[r].op # "deleteuser",
         t = [req[r] EXCEPT !.at = "getPeers"], req' = [req EXCEPT ![r] = t],
         UNCHANGED <<client, server, wg>>,
         t.op \in {"verify", "settings"}, t.user \in DOMAIN profile',
         profile'[t.user].verified = t.verified,
         \A v \in DOMAIN profile : v # t.user => profile'[v] = profile[v]
  PROVE  MInv' /\ Mirrors(r)
<1>1. req'[r] = t
  BY DEF IInv, TypeOK, RequestsTypeOK
<1>2. t.at = "getPeers" /\ t.key = None
  BY TaskOfRequest DEF Task, MInv, MirrorOK, SettingPeersOK
<1>3. SettingPeersOK(req[r])'
  BY <1>1, <1>2 DEF SettingPeersOK
<1>4. (DOMAIN wg \subseteq server)' /\ PeersAtHome'
  BY DEF MInv, PeersAtHome
<1>5. Unfinished(req[r]) = {} /\ Unfinished(req[r])' = KeysOf(t.user)'
  BY <1>1, <1>2 DEF Unfinished
<1>6. \A j : j \notin KeysOf(t.user)' => \A i : WrongPeer(i, j)' => WrongPeer(i, j)
  BY DEF KeysOf, WrongPeer, Owed, IInv, ReferentialIntegrity
<1> QED
  BY <1>2, <1>3, <1>4, <1>5, <1>6, SettingStep DEF Mirrors

LEMMA MirrorUpdateVerified ==
  ASSUME IInv, SInv, MInv, OneRequest, OneRequest', NEW r \in Request, UpdateVerified(r)
  PROVE  MInv' /\ Mirrors(r)
<1>1. /\ req[r] \in Task /\ req[r].at = "updateVerified" /\ req[r].op = "verify"
  BY HandlerOfRequest DEF UpdateVerified, HandlerOK, OpOK
<1>2. CASE req[r].user \notin DOMAIN profile
  <2>1. Unfinished(req[r]) = {}
    BY <1>1 DEF Unfinished
  <2> QED
    BY <1>1, <1>2, <2>1, MirrorFail DEF UpdateVerified, Fail
<1>3. CASE req[r].user \in DOMAIN profile
  <2> DEFINE t == [req[r] EXCEPT !.at = "getPeers"]
  <2>1. /\ profile' = [profile EXCEPT ![req[r].user].verified = req[r].verified]
        /\ UNCHANGED <<client, server, wg>>
    BY <1>3 DEF UpdateVerified
  <2>2. /\ req[r].user \in DOMAIN profile'
        /\ profile'[req[r].user].verified = req[r].verified
        /\ \A v \in DOMAIN profile : v # req[r].user => profile'[v] = profile[v]
    BY <1>3, <2>1 DEF IInv, TypeOK, DatabaseTypeOK, IsTable, ProfileRow
  <2>3. /\ t \in Task /\ t.op = "verify" /\ t.user = req[r].user
        /\ t.verified = req[r].verified
    BY <1>1 DEF Task, Step
  <2>4. req' = [req EXCEPT ![r] = t]
    BY <1>3 DEF UpdateVerified, IInv, TypeOK, RequestsTypeOK, Task
  <2> HIDE DEF t
  <2> QED
    BY <1>1, <2>1, <2>2, <2>3, <2>4, ProfileWritten DEF t
<1> QED
  BY <1>2, <1>3

LEMMA MirrorSaveProfile ==
  ASSUME IInv, SInv, MInv, OneRequest, OneRequest', NEW r \in Request, SaveProfile(r)
  PROVE  MInv' /\ Mirrors(r)
<1>1. /\ req[r] \in Task /\ req[r].at = "saveProfile" /\ req[r].op = "settings"
  BY HandlerOfRequest DEF SaveProfile, HandlerOK, OpOK
<1> DEFINE t == [req[r] EXCEPT !.at = "getPeers"]
           row == [verified |-> req[r].verified, key_limit |-> req[r].limit,
                   key_count |-> req[r].count]
<1>2. profile' = Put(profile, req[r].user, row) /\ UNCHANGED <<client, server, wg>>
  BY DEF SaveProfile
<1>3. /\ req[r].user \in DOMAIN profile'
      /\ profile'[req[r].user].verified = req[r].verified
      /\ \A v \in DOMAIN profile : v # req[r].user => profile'[v] = profile[v]
  BY <1>2 DEF Put
<1>4. /\ t \in Task /\ t.op = "settings" /\ t.user = req[r].user
      /\ t.verified = req[r].verified
  BY <1>1 DEF Task, Step
<1>5. req' = [req EXCEPT ![r] = t]
  BY DEF SaveProfile, IInv, TypeOK, RequestsTypeOK, Task
<1> HIDE DEF t, row
<1> QED
  BY <1>1, <1>2, <1>3, <1>4, <1>5, ProfileWritten DEF t

\* Every client has a Peer, so the user's peers are all that are to be set.
LEMMA MirrorGetPeers ==
  ASSUME IInv, SInv, MInv, OneRequest, OneRequest', NEW r \in Request, GetPeers(r)
  PROVE  MInv' /\ Mirrors(r)
<1> DEFINE todo == getByUser(req[r].user)
           t == [req[r] EXCEPT !.at = "loadPeer", !.todo = todo]
<1>1. /\ req[r] \in Task /\ req[r].op \in {"verify", "settings", "deleteuser"}
      /\ req[r].at = "getPeers" /\ SettingPeersOK(req[r])
  BY HandlerOfRequest DEF GetPeers, HandlerOK, OpOK, MInv, MirrorOK
<1>2. todo = KeysOf(req[r].user) /\ todo \in SUBSET Key
  BY DEF IInv, TypeOK, DatabaseTypeOK, IsTable, getByUser, KeysOf, SInv, TablesOK,
     EveryClientHasPeer
<1>3. req' = [req EXCEPT ![r] = t] /\ UNCHANGED <<db, wg>>
  BY DEF GetPeers, IInv, TypeOK, RequestsTypeOK, Task
<1> HIDE DEF todo
<1>4. /\ t \in Task /\ t.op = req[r].op /\ t.at = "loadPeer" /\ t.user = req[r].user
      /\ t.key = req[r].key /\ t.verified = req[r].verified /\ t.todo = todo
  BY <1>1, <1>2 DEF Task, Step
<1> HIDE DEF t
<1>5. req'[r] = t
  BY <1>3 DEF IInv, TypeOK, RequestsTypeOK
<1>6. SettingPeersOK(req[r])'
  BY <1>1, <1>2, <1>3, <1>4, <1>5 DEF SettingPeersOK, KeysOf, HasPeer, db
<1>7. Unfinished(req[r]) = KeysOf(req[r].user)
  BY <1>1 DEF Unfinished
<1>8. Unfinished(req[r]) \subseteq Unfinished(req[r])'
  <2>1. CASE t.op = "deleteuser"
    BY <1>3, <1>4, <1>5, <1>7, <2>1 DEF Unfinished, KeysOf, db
  <2>2. CASE t.op # "deleteuser"
    <3>1. Unfinished(req[r])' = todo \cup {t.key}
      BY <1>4, <1>5, <2>2 DEF Unfinished
    <3> QED
      BY <1>2, <1>7, <3>1
  <2> QED
    BY <2>1, <2>2
<1> QED
  BY <1>1, <1>3, <1>4, <1>6, <1>8, SettingStep, SameHomes, QuietStep

LEMMA MirrorLoadPeer ==
  ASSUME IInv, SInv, MInv, OneRequest, OneRequest', NEW r \in Request, LoadPeer(r)
  PROVE  MInv' /\ Mirrors(r)
<1>1. /\ req[r] \in Task /\ req[r].op \in {"verify", "settings", "deleteuser"}
      /\ req[r].at = "loadPeer" /\ SettingPeersOK(req[r])
  BY HandlerOfRequest DEF LoadPeer, HandlerOK, OpOK, MInv, MirrorOK
<1>2. PICK k \in req[r].todo :
       req' = IF k \in getByUser(req[r].user)
              THEN [req EXCEPT ![r].at = "setPeer", ![r].todo = RemainingPeers(r, k),
                               ![r].key = k, ![r].server = client[k].server,
                               ![r].address = client[k].ip_address]
              ELSE [req EXCEPT ![r].todo = RemainingPeers(r, k)]
  BY DEF LoadPeer
<1>3. PICK rest \in SUBSET Key : rest = req[r].todo \ {k} /\ rest = RemainingPeers(r, k)
  BY <1>1 DEF Task, RemainingPeers
<1>4. k \in KeysOf(req[r].user) /\ k \in getByUser(req[r].user) /\ k \in Key
  BY <1>1 DEF Task, SettingPeersOK, getByUser, KeysOf, SInv, TablesOK, EveryClientHasPeer
<1>5. PICK s \in Server \cup {None}, a \in AllowedIps :
        s = client[k].server /\ a = client[k].ip_address
  BY <1>4 DEF IInv, TypeOK, DatabaseTypeOK, IsTable, ClientRow, KeysOf, AllowedIps
<1> DEFINE t == [req[r] EXCEPT !.at = "setPeer", !.todo = rest, !.key = k, !.server = s,
                               !.address = a]
<1>6. req' = [req EXCEPT ![r] = t] /\ UNCHANGED <<db, wg>>
  BY <1>2, <1>3, <1>4, <1>5 DEF LoadPeer, IInv, TypeOK, RequestsTypeOK, Task
<1>7. /\ t \in Task /\ t.op = req[r].op /\ t.at = "setPeer" /\ t.user = req[r].user
      /\ t.key = k /\ t.server = s /\ t.address = a /\ t.verified = req[r].verified
      /\ t.todo = rest
  BY <1>1, <1>4 DEF Task, Step
<1> HIDE DEF t
<1>8. req'[r] = t
  BY <1>6 DEF IInv, TypeOK, RequestsTypeOK
<1>9. req[r].key = None /\ req[r].todo = rest \cup {k}
  BY <1>1, <1>3 DEF SettingPeersOK
<1>10. SettingPeersOK(req[r])'
  <2>1. LoadedClient(req[r])' /\ k \in KeysOf(req[r].user)'
    BY <1>4, <1>5, <1>6, <1>7, <1>8 DEF LoadedClient, KeysOf, db
  <2>2. PICK u : u = req[r].user
    OBVIOUS
  <2>3. KeysOf(u)' = KeysOf(u) /\ \A j : HasPeer(j)' <=> HasPeer(j)
    BY <1>6 DEF KeysOf, HasPeer, db
  <2>4. ASSUME t.op = "deleteuser", NEW j \in KeysOf(u), HasPeer(j)
        PROVE  j \in rest \cup {k}
    <3>1. j \in req[r].todo \cup {req[r].key}
      BY <1>1, <1>7, <2>2, <2>4 DEF SettingPeersOK
    <3>2. j # None
      BY DatabaseAssumption DEF KeysOf, IInv, TypeOK, DatabaseTypeOK, IsTable
    <3> QED
      BY <1>9, <3>1, <3>2
  <2>5. rest \subseteq KeysOf(u) /\ profile' = profile
    BY <1>1, <1>3, <1>6, <2>2 DEF SettingPeersOK, db
  <2> QED
    BY <1>1, <1>7, <1>8, <2>1, <2>2, <2>3, <2>4, <2>5 DEF SettingPeersOK
<1>11. Unfinished(req[r]) \cap Key \subseteq Unfinished(req[r])'
  <2>1. CASE t.op = "deleteuser"
    BY <1>6, <1>7, <1>8, <2>1 DEF Unfinished, KeysOf, db
  <2>2. CASE t.op # "deleteuser"
    <3>1. /\ Unfinished(req[r])' = rest \cup {k}
          /\ Unfinished(req[r]) = req[r].todo \cup {None}
      BY <1>1, <1>7, <1>8, <1>9, <2>2 DEF Unfinished
    <3> QED
      BY <1>9, <3>1, DatabaseAssumption
  <2> QED
    BY <2>1, <2>2
<1> QED
  BY <1>1, <1>6, <1>7, <1>10, <1>11, SettingStep, SameHomes, QuietStep

\* One peer is connected or disconnected, as the user's row says it should be.
LEMMA MirrorSetPeer ==
  ASSUME IInv, SInv, MInv, OneRequest, OneRequest', NEW r \in Request, SetPeer(r)
  PROVE  MInv' /\ Mirrors(r)
<1> DEFINE t == [req[r] EXCEPT !.at = "loadPeer", !.key = None, !.server = None,
                               !.address = NoAddress]
<1>1. /\ req[r] \in Task /\ req[r].op \in {"verify", "settings", "deleteuser"}
      /\ req[r].at = "setPeer" /\ SettingPeersOK(req[r])
  BY HandlerOfRequest DEF SetPeer, HandlerOK, OpOK, MInv, MirrorOK
<1>2. PICK k \in DOMAIN client, u \in User :
        /\ k = req[r].key /\ u = req[r].user
        /\ client[k].user = u
        /\ client[k].server = req[r].server /\ client[k].ip_address = req[r].address
  BY <1>1, TaskOfRequest DEF SettingPeersOK, LoadedClient, KeysOf, LocalsOK
<1>3. /\ req' = [req EXCEPT ![r] = t] /\ UNCHANGED db
      /\ IF req[r].verified THEN addWGPeer(client[k].server, k, client[k].ip_address)
                            ELSE removeWGPeer(client[k].server, k)
  BY <1>2 DEF SetPeer, IInv, TypeOK, RequestsTypeOK, Task
<1>4. /\ t \in Task /\ t.op = req[r].op /\ t.at = "loadPeer" /\ t.user = u
      /\ t.key = None /\ t.verified = req[r].verified /\ t.todo = req[r].todo
  BY <1>1, <1>2 DEF Task, Step, AllowedIps
<1> HIDE DEF t
<1>5. req'[r] = t
  BY <1>3 DEF IInv, TypeOK, RequestsTypeOK
<1>6. client' = client /\ profile' = profile /\ server' = server
  BY <1>3 DEF db
<1>7. /\ t.op # "deleteuser" => u \in DOMAIN profile /\ profile[u].verified = req[r].verified
      /\ req[r].todo \subseteq KeysOf(u)'
  BY <1>1, <1>2, <1>4, <1>6 DEF SettingPeersOK, KeysOf
<1>8. CASE req[r].verified
  <2>1. t.op # "deleteuser"
    BY <1>1, <1>4, <1>8 DEF SettingPeersOK
  <2>2. profile[client[k].user].verified
    BY <1>2, <1>7, <1>8, <2>1
  <2>3. /\ (DOMAIN wg \subseteq server)' /\ PeersAtHome'
        /\ \A i : ~WrongPeer(i, k)'
        /\ \A i, j : j # k /\ WrongPeer(i, j)' => WrongPeer(i, j)
    BY <1>3, <1>8, <2>2, ConnectPeer
  <2>4. SettingPeersOK(req[r])'
    BY <1>1, <1>4, <1>5, <1>6, <1>7, <2>1 DEF SettingPeersOK
  <2>5. /\ Unfinished(req[r]) = req[r].todo \cup {k}
        /\ Unfinished(req[r])' = req[r].todo \cup {None}
    BY <1>1, <1>2, <1>4, <1>5, <2>1 DEF Unfinished
  <2> QED
    BY <1>1, <1>3, <1>4, <2>3, <2>4, <2>5, SettingStep DEF Mirrors
<1>9. CASE ~req[r].verified
  <2>1. \A i \in DOMAIN wg : k \in DOMAIN wg[i] => i = client[k].server
    BY DEF MInv, PeersAtHome
  <2>2. /\ (DOMAIN wg \subseteq server)' /\ PeersAtHome'
        /\ ~HasPeer(k)'
        /\ \A j : HasPeer(j)' => HasPeer(j)
        /\ \A i, j : j # k /\ WrongPeer(i, j)' => WrongPeer(i, j)
    BY <1>3, <1>9, <2>1, DisconnectPeer
  <2>3. SettingPeersOK(req[r])'
    <3>1. ASSUME t.op = "deleteuser", NEW j \in KeysOf(u)', HasPeer(j)'
          PROVE  j \in req[r].todo
      BY <1>1, <1>2, <1>4, <1>6, <2>2, <3>1 DEF SettingPeersOK, KeysOf
    <3> QED
      BY <1>1, <1>4, <1>5, <1>6, <1>7, <1>9, <3>1 DEF SettingPeersOK
  <2>4. MInv'
    BY <1>1, <1>3, <1>4, <2>2, <2>3, SettingStep
  <2>5. CASE t.op = "deleteuser"
    <3>1. Unfinished(req[r]) = KeysOf(u) /\ Unfinished(req[r])' = KeysOf(u)
      BY <1>2, <1>4, <1>5, <1>6, <2>5 DEF Unfinished, KeysOf
    <3>2. k \in KeysOf(u)
      BY <1>2 DEF KeysOf
    <3> QED
      BY <2>2, <2>4, <3>1, <3>2 DEF Mirrors
  <2>6. CASE t.op # "deleteuser"
    <3>1. /\ Unfinished(req[r]) = req[r].todo \cup {k}
          /\ Unfinished(req[r])' = req[r].todo \cup {None}
      BY <1>1, <1>2, <1>4, <1>5, <2>6 DEF Unfinished
    <3>2. \A i : ~WrongPeer(i, k)'
      BY <1>2, <1>6, <1>7, <1>9, <2>2, <2>6 DEF WrongPeer, Owed, HasPeer
    <3> QED
      BY <2>2, <2>4, <3>1, <3>2 DEF Mirrors
  <2> QED
    BY <2>5, <2>6
<1> QED
  BY <1>8, <1>9

LEMMA MirrorPeersDone ==
  ASSUME IInv, SInv, MInv, OneRequest, OneRequest', NEW r \in Request, PeersDone(r)
  PROVE  MInv' /\ Mirrors(r)
<1>1. /\ req[r] \in Task /\ req[r].op \in {"verify", "settings", "deleteuser"}
      /\ req[r].at = "loadPeer" /\ SettingPeersOK(req[r]) /\ req[r].todo = {}
      /\ req[r].key = None /\ UNCHANGED <<db, wg>>
  BY HandlerOfRequest DEF PeersDone, HandlerOK, OpOK, MInv, MirrorOK, SettingPeersOK
<1>2. CASE req[r].op # "deleteuser"
  <2>1. Unfinished(req[r]) \cap Key = {}
    BY <1>1, <1>2, DatabaseAssumption DEF Unfinished
  <2> QED
    BY <1>1, <1>2, <2>1, MirrorFail DEF PeersDone
<1>3. CASE req[r].op = "deleteuser"
  <2> DEFINE t == [req[r] EXCEPT !.at = "deleteUser"]
  <2>1. req' = [req EXCEPT ![r] = t]
    BY <1>3 DEF PeersDone, IInv, TypeOK, RequestsTypeOK, Task
  <2>2. /\ t \in Task /\ t.op = "deleteuser" /\ t.at = "deleteUser"
        /\ t.user = req[r].user /\ t.key = None /\ ~t.verified /\ t.todo = {}
    BY <1>1, <1>3 DEF Task, Step, SettingPeersOK
  <2> HIDE DEF t
  <2>3. req'[r] = t
    BY <2>1 DEF IInv, TypeOK, RequestsTypeOK
  <2>4. SettingPeersOK(req[r])'
    BY <1>1, <1>3, <2>2, <2>3 DEF SettingPeersOK, KeysOf, HasPeer, db
  <2>5. Unfinished(req[r]) = Unfinished(req[r])'
    BY <1>1, <1>3, <2>2, <2>3 DEF Unfinished, KeysOf, db
  <2> QED
    BY <1>1, <2>1, <2>2, <2>4, <2>5, SettingStep, SameHomes, QuietStep
<1> QED
  BY <1>2, <1>3

\* By the time a user is deleted no client of the user has a peer.
LEMMA MirrorDeleteUser ==
  ASSUME IInv, SInv, MInv, OneRequest, OneRequest', NEW r \in Request, DeleteUser(r)
  PROVE  MInv' /\ Mirrors(r)
<1>1. /\ req[r] \in Task /\ req[r].op = "deleteuser" /\ req[r].at = "deleteUser"
      /\ SettingPeersOK(req[r]) /\ Finish(r) /\ wg' = wg /\ server' = server
  BY HandlerOfRequest DEF DeleteUser, HandlerOK, OpOK, MInv, MirrorOK, deleteUser
<1>2. PICK u \in User : u = req[r].user
  BY <1>1, TaskOfRequest DEF LocalsOK
<1>3. ASSUME NEW k \in KeysOf(u) PROVE ~HasPeer(k)
  <2>1. k # None
    BY DatabaseAssumption DEF KeysOf, IInv, TypeOK, DatabaseTypeOK, IsTable
  <2> QED
    BY <1>1, <1>2, <2>1 DEF SettingPeersOK
<1>4. /\ DOMAIN client' = DOMAIN client \ KeysOf(u)
      /\ \A j \in DOMAIN client' : client'[j] = client[j]
      /\ \A v \in DOMAIN profile : v # u => profile'[v] = profile[v]
  BY <1>2 DEF DeleteUser, deleteUser, Delete, Restrict
<1>5. (DOMAIN wg \subseteq server)' /\ PeersAtHome'
  BY <1>1, <1>4 DEF MInv, PeersAtHome
<1>6. Unfinished(req[r]) = KeysOf(u)
  BY <1>1, <1>2 DEF Unfinished
<1>7. ASSUME NEW i, NEW j, WrongPeer(i, j)'
      PROVE  WrongPeer(i, j) /\ j \notin KeysOf(u)
  <2>1. CASE j \in KeysOf(u)
    BY <1>1, <1>3, <1>4, <1>7, <2>1 DEF WrongPeer, Owed, HasPeer
  <2>2. CASE j \notin KeysOf(u)
    BY <1>1, <1>4, <1>7, <2>2 DEF WrongPeer, Owed, KeysOf, IInv, ReferentialIntegrity
  <2> QED
    BY <2>1, <2>2
<1> QED
  BY <1>1, <1>5, <1>6, <1>7, MirrorFinish DEF Mirrors

(* The only request never waits for a lock: what removeUser has disconnected by
   then it deletes. *)
LEMMA NeverBlocked ==
  ASSUME IInv, SInv, MInv, OneRequest, NEW r \in Request, req[r].op # "none"
  PROVE  ~Blocked(r)
<1>1. \A q \in Request \ {r} : req[q] = Idle
  BY OthersIdle DEF MInv, ThreadsRest
<1>2. /\ \A q \in Request \ {r} : req[q].gone = {} /\ req[q].at = "idle"
      /\ \A q \in Request \ {r} : \A u \in User : req[q].counts[u] = Unwritten
  BY <1>1 DEF Idle
<1>3. LocalsOK(req[r])
  BY TaskOfRequest
<1> QED
  BY <1>2, <1>3 DEF Blocked, KeyLocked, ProfileLocked, UserReferenced, ServerReferenced,
     LocalsOK

-----------------------------------------------------------------------------
\* toggle and deleteserver

ServerStep ==
  {"stopServer", "generateConf", "wgStart", "removeServer", "loadKey", "deleteKey",
   "deleteServerKey"}

\* A step of these requests, whatever it did to the interfaces.
LEMMA ServerRequestStep ==
  ASSUME IInv, SInv, MInv, OneRequest, OneRequest', NEW r \in Request, NEW t \in Task,
         req' = [req EXCEPT ![r] = t],
         t.op \in {"toggle", "deleteserver"}, t.at \in ServerStep,
         (DOMAIN wg \subseteq server)', PeersAtHome'
  PROVE  MInv'
<1>1. req'[r] = t
  BY DEF IInv, TypeOK, RequestsTypeOK
<1>2. MirrorOK(req[r])'
  BY <1>1 DEF ServerStep, MirrorOK, AddingPeerOK, RemovingPeerOK, SettingPeersOK
<1> QED
  BY <1>2, MirrorStep

\* A request that writes nothing to WireGuard has nothing left to do there.
LEMMA ServerRequestDone ==
  ASSUME NEW r, req[r].op \in {"toggle", "deleteserver"},
         req[r].at \in ServerStep \cup {"decrementCount"}
  PROVE  Unfinished(req[r]) = {}
BY DEF ServerStep, Unfinished

\* An interface that goes down takes its peers along, right or wrong.
LEMMA StopShrinks ==
  ASSUME MInv, UNCHANGED db, NEW s, stopWGserver(s)
  PROVE  /\ (DOMAIN wg \subseteq server)' /\ PeersAtHome'
         /\ \A i, j : WrongPeer(i, j)' => WrongPeer(i, j)
<1>1. /\ DOMAIN wg' = DOMAIN wg \ {s}
      /\ \A i \in DOMAIN wg' : wg'[i] = wg[i]
  BY DEF stopWGserver, Delete, Restrict
<1>2. client' = client /\ profile' = profile /\ server' = server
  BY DEF db
<1> QED
  BY <1>1, <1>2 DEF MInv, PeersAtHome, WrongPeer, Owed

LEMMA MirrorToggleServer ==
  ASSUME IInv, SInv, MInv, OneRequest, OneRequest', NEW r \in Request, ToggleServer(r)
  PROVE  MInv'
<1>1. PICK s \in server, a \in {"stopServer", "generateConf"} :
        req' = [req EXCEPT ![r] = [Idle EXCEPT !.op = "toggle", !.server = s, !.at = a]]
  BY DEF ToggleServer
<1> DEFINE t == [Idle EXCEPT !.op = "toggle", !.server = s, !.at = a]
<1>2. t \in Task /\ t.op = "toggle" /\ t.at = a
  BY IdleTask DEF Idle, Task, Step, Operation, IInv, TypeOK, DatabaseTypeOK
<1>3. req' = [req EXCEPT ![r] = t] /\ UNCHANGED <<db, wg>>
  BY <1>1 DEF ToggleServer
<1> HIDE DEF t
<1> QED
  BY <1>2, <1>3, ServerRequestStep, SameHomes DEF ServerStep

LEMMA MirrorStopServer ==
  ASSUME IInv, SInv, MInv, OneRequest, OneRequest', NEW r \in Request,
         StopServer(r) \/ WgStartFails(r)
  PROVE  MInv' /\ Mirrors(r)
<1>1. req[r].op = "toggle" /\ req[r].at \in {"stopServer", "wgStart"}
  BY HandlerOfRequest DEF StopServer, WgStartFails, HandlerOK, OpOK
<1>2. stopWGserver(req[r].server) /\ UNCHANGED db /\ Finish(r)
  BY DEF StopServer, WgStartFails
<1>3. Unfinished(req[r]) = {}
  BY <1>1, ServerRequestDone DEF ServerStep
<1> QED
  BY <1>1, <1>2, <1>3, MirrorFinish, StopShrinks DEF Mirrors

LEMMA MirrorGenerateConf ==
  ASSUME IInv, SInv, MInv, OneRequest, OneRequest', NEW r \in Request, GenerateConf(r)
  PROVE  MInv' /\ Mirrors(r)
<1>1. /\ req[r] \in Task /\ req[r].op = "toggle" /\ req[r].at = "generateConf"
      /\ UNCHANGED <<db, wg>>
  BY HandlerOfRequest DEF GenerateConf, HandlerOK, OpOK
<1>2. Unfinished(req[r]) = {}
  BY <1>1, ServerRequestDone DEF ServerStep
<1>3. CASE Finish(r)
  BY <1>1, <1>2, <1>3, MirrorFail
<1>4. CASE ~Finish(r)
  <2> DEFINE conf == {<<k, client[k].ip_address>> :
                        k \in getVerifiedPeersFromServer(req[r].server)}
             t == [req[r] EXCEPT !.at = "wgStart", !.conf = conf]
  <2>1. conf \subseteq Key \X HostAddress
    BY DEF getVerifiedPeersFromServer, getClientInterfacesFromServer, IInv, TypeOK,
           DatabaseTypeOK, IsTable, ClientRow
  <2>2. req' = [req EXCEPT ![r] = t]
    BY <1>4 DEF GenerateConf, IInv, TypeOK, RequestsTypeOK, Task
  <2> HIDE DEF conf
  <2>3. t \in Task /\ t.op = "toggle" /\ t.at = "wgStart"
    BY <1>1, <2>1 DEF Task, Step
  <2> HIDE DEF t
  <2> QED
    BY <1>1, <1>2, <2>2, <2>3, ServerRequestStep, SameHomes, QuietStep DEF ServerStep
<1> QED
  BY <1>3, <1>4

\* An interface that is started has no peer that is wrong.
LEMMA MirrorWgStart ==
  ASSUME IInv, SInv, MInv, OneRequest, OneRequest', NEW r \in Request, WgStart(r)
  PROVE  MInv' /\ Mirrors(r)
<1>1. /\ req[r].op = "toggle" /\ req[r].at = "wgStart" /\ req[r].server \in server
      /\ UNCHANGED db /\ Finish(r)
  BY HandlerOfRequest DEF WgStart, HandlerOK, OpOK, AdministratingOK
<1>2. PICK s \in server : s = req[r].server
  BY <1>1
<1>3. Unfinished(req[r]) = {}
  BY <1>1, ServerRequestDone DEF ServerStep
<1>4. CASE s \in DOMAIN wg
  <2>1. wg' = wg
    BY <1>2, <1>4 DEF WgStart, restartWGserver, isWGserverUp
  <2> QED
    BY <1>1, <1>3, <2>1, MirrorFail
<1>5. CASE s \notin DOMAIN wg
  <2>1. DOMAIN wg' = DOMAIN wg \cup {s} /\ wg'[s] = Served(s)
    BY <1>2, <1>5, LoadedIsServed
  <2>2. \A i \in DOMAIN wg : wg'[i] = wg[i]
    BY <1>2, <1>5 DEF WgStart, restartWGserver, isWGserverUp, Put
  <2>3. client' = client /\ profile' = profile /\ server' = server
    BY <1>1 DEF db
  <2>4. /\ \A k : k \in DOMAIN wg'[s] <=> Owed(s, k)
        /\ \A k \in DOMAIN wg'[s] : wg'[s][k] = client[k].ip_address
    BY <2>1 DEF Served, Owed
  <2>5. (DOMAIN wg \subseteq server)' /\ PeersAtHome'
    BY <2>1, <2>2, <2>3, <2>4 DEF MInv, PeersAtHome, Owed
  <2>6. \A i, j : WrongPeer(i, j)' => WrongPeer(i, j)
    BY <2>1, <2>2, <2>3, <2>4 DEF WrongPeer, Owed
  <2> QED
    BY <1>1, <1>3, <2>5, <2>6, MirrorFinish DEF Mirrors
<1> QED
  BY <1>4, <1>5

LEMMA MirrorRemoveServer ==
  ASSUME IInv, SInv, MInv, OneRequest, OneRequest', NEW r \in Request, RemoveServer(r)
  PROVE  MInv'
<1>1. PICK s \in server :
        req' = [req EXCEPT ![r] = [Idle EXCEPT !.op = "deleteserver",
                                     !.at = "removeServer", !.server = s]]
  BY DEF RemoveServer
<1> DEFINE t == [Idle EXCEPT !.op = "deleteserver", !.at = "removeServer", !.server = s]
<1>2. t \in Task /\ t.op = "deleteserver" /\ t.at = "removeServer"
  BY IdleTask DEF Idle, Task, Step, Operation, IInv, TypeOK, DatabaseTypeOK
<1>3. req' = [req EXCEPT ![r] = t] /\ UNCHANGED <<db, wg>>
  BY <1>1 DEF RemoveServer
<1> HIDE DEF t
<1> QED
  BY <1>2, <1>3, ServerRequestStep, SameHomes DEF ServerStep

LEMMA MirrorListClients ==
  ASSUME IInv, SInv, MInv, OneRequest, OneRequest', NEW r \in Request, ListClients(r)
  PROVE  MInv' /\ Mirrors(r)
<1>1. /\ req[r] \in Task /\ req[r].op = "deleteserver" /\ req[r].at = "removeServer"
      /\ stopWGserver(req[r].server) /\ UNCHANGED db
  BY HandlerOfRequest DEF ListClients, HandlerOK, OpOK
<1>2. Unfinished(req[r]) = {}
  BY <1>1, ServerRequestDone DEF ServerStep
<1>3. /\ (DOMAIN wg \subseteq server)' /\ PeersAtHome'
      /\ \A i, j : WrongPeer(i, j)' => WrongPeer(i, j)
  BY <1>1, StopShrinks
<1>4. Mirrors(r)
  BY <1>2, <1>3 DEF Mirrors
<1>5. CASE Finish(r)
  BY <1>1, <1>3, <1>4, <1>5, MirrorFinish
<1>6. CASE ~Finish(r)
  <2> DEFINE todo == getClientInterfacesFromServer(req[r].server)
             t == [req[r] EXCEPT !.at = "loadKey", !.todo = todo]
  <2>1. todo \subseteq Key
    BY DEF getClientInterfacesFromServer, IInv, TypeOK, DatabaseTypeOK, IsTable
  <2>2. req' = [req EXCEPT ![r] = t]
    BY <1>6 DEF ListClients, IInv, TypeOK, RequestsTypeOK, Task
  <2> HIDE DEF todo
  <2>3. t \in Task /\ t.op = "deleteserver" /\ t.at = "loadKey"
    BY <1>1, <2>1 DEF Task, Step
  <2> HIDE DEF t
  <2> QED
    BY <1>3, <1>4, <2>2, <2>3, ServerRequestStep DEF ServerStep
<1> QED
  BY <1>5, <1>6

\* A statement of deleteserver's transaction that reads or is not committed yet.
LEMMA MirrorTransaction ==
  ASSUME IInv, SInv, MInv, OneRequest, OneRequest', NEW r \in Request,
         LoadKey(r) \/ DecrementCount(r) \/ ClientsDone(r)
  PROVE  MInv' /\ Mirrors(r)
<1>1. /\ req[r] \in Task /\ LocalsOK(req[r]) /\ req[r].op = "deleteserver"
      /\ req[r].at \in {"loadKey", "decrementCount"} /\ UNCHANGED <<db, wg>>
  BY HandlerOfRequest DEF LoadKey, DecrementCount, ClientsDone, HandlerOK, OpOK
<1>2. Unfinished(req[r]) = {}
  BY <1>1, ServerRequestDone DEF ServerStep
<1>3. CASE Finish(r)
  BY <1>1, <1>2, <1>3, MirrorFail
<1>4. ASSUME NEW t \in Task, req' = [req EXCEPT ![r] = t], t.op = "deleteserver",
             t.at \in ServerStep
      PROVE  MInv' /\ Mirrors(r)
  BY <1>1, <1>2, <1>4, ServerRequestStep, SameHomes, QuietStep
<1>5. CASE LoadKey(r) /\ ~Finish(r)
  <2>1. PICK k \in req[r].todo :
          /\ k \in DOMAIN client
          /\ req' = [req EXCEPT ![r].at = "deleteKey", ![r].todo = @ \ {k},
                                ![r].key = k, ![r].user = client[k].user]
    BY <1>5 DEF LoadKey
  <2>2. PICK u \in User : u = client[k].user
    BY <2>1 DEF IInv, TypeOK, DatabaseTypeOK, IsTable, ClientRow
  <2> DEFINE t == [req[r] EXCEPT !.at = "deleteKey", !.todo = @ \ {k}, !.key = k,
                                 !.user = u]
  <2>3. req' = [req EXCEPT ![r] = t]
    BY <2>1, <2>2 DEF IInv, TypeOK, RequestsTypeOK, Task
  <2>4. t \in Task /\ t.op = "deleteserver" /\ t.at = "deleteKey"
    BY <1>1 DEF Task, Step
  <2> HIDE DEF t
  <2> QED
    BY <1>4, <2>3, <2>4 DEF ServerStep
<1>6. CASE DecrementCount(r) /\ ~Finish(r)
  <2>1. PICK u \in User, n \in Nat : u = req[r].user /\ n = req[r].count - 1
    <3>1. req[r].user \in User
      BY <1>1, <1>6 DEF DecrementCount, LocalsOK
    <3>2. req[r].count \in Nat /\ req[r].count > 0
      BY <1>1, <1>6 DEF DecrementCount, Task
    <3> QED
      BY <3>1, <3>2
  <2> DEFINE t == [req[r] EXCEPT !.at = "loadKey", !.key = None, !.user = None,
                                 !.count = 0, !.counts[u] = n]
  <2>2. req' = [req EXCEPT ![r] = t]
    BY <1>6, <2>1 DEF DecrementCount, IInv, TypeOK, RequestsTypeOK, Task
  <2>3. [req[r].counts EXCEPT ![u] = n] \in [User -> Nat \cup {Unwritten}]
    BY <1>1, <2>1 DEF Task
  <2>4. t \in Task /\ t.op = "deleteserver" /\ t.at = "loadKey"
    BY <1>1, <2>1, <2>3 DEF Task, Step
  <2> HIDE DEF t
  <2> QED
    BY <1>4, <2>2, <2>4 DEF ServerStep
<1>7. CASE ClientsDone(r)
  <2> DEFINE t == [req[r] EXCEPT !.at = "deleteServerKey"]
  <2>1. req' = [req EXCEPT ![r] = t]
    BY <1>7 DEF ClientsDone, IInv, TypeOK, RequestsTypeOK, Task
  <2>2. t \in Task /\ t.op = "deleteserver" /\ t.at = "deleteServerKey"
    BY <1>1 DEF Task, Step
  <2> HIDE DEF t
  <2> QED
    BY <1>4, <2>1, <2>2 DEF ServerStep
<1> QED
  BY <1>3, <1>5, <1>6, <1>7

\* The clients of a server that is down go, and with them the server.
LEMMA MirrorDeleteServerKey ==
  ASSUME IInv, SInv, MInv, OneRequest, OneRequest', NEW r \in Request, DeleteServerKey(r)
  PROVE  MInv' /\ Mirrors(r)
<1>1. /\ req[r] \in Task /\ DeletingServerOK(req[r])
      /\ req[r].at = "deleteServerKey" /\ req[r].op = "deleteserver"
      /\ Finish(r) /\ wg' = wg
  BY HandlerOfRequest DEF DeleteServerKey, HandlerOK, OpOK
<1>2. PICK g \in SUBSET Key, s \in Server \cup {None},
           cs \in [User -> Nat \cup {Unwritten}] :
        g = req[r].gone /\ s = req[r].server /\ cs = req[r].counts
  BY <1>1 DEF Task
<1>3. g = ClientsOf(s) /\ s \notin DOMAIN wg
  BY <1>1, <1>2 DEF DeletingServerOK, Counted
<1>4. deleteServer(s, g, cs)
  BY <1>2 DEF DeleteServerKey
<1>5. /\ DOMAIN client' = DOMAIN client \ g
      /\ \A k \in DOMAIN client' : client'[k] = client[k]
      /\ server' = server \ {s}
  BY <1>3, <1>4 DEF deleteServer, ClientsOf, getClientInterfacesFromServer
<1>6. \A v \in DOMAIN profile : profile'[v].verified = profile[v].verified
  BY <1>4 DEF deleteServer, IInv, TypeOK, DatabaseTypeOK, IsTable, ProfileRow
<1>7. \A k \in g : client[k].server = s
  BY <1>3 DEF ClientsOf, getClientInterfacesFromServer
<1>8. (DOMAIN wg \subseteq server)' /\ PeersAtHome'
  BY <1>1, <1>3, <1>5 DEF MInv, PeersAtHome
<1>9. \A i, j : WrongPeer(i, j)' => WrongPeer(i, j)
  BY <1>1, <1>3, <1>5, <1>6, <1>7 DEF WrongPeer, Owed, IInv, ReferentialIntegrity
<1>10. Unfinished(req[r]) = {}
  BY <1>1, ServerRequestDone DEF ServerStep
<1> QED
  BY <1>1, <1>8, <1>9, <1>10, MirrorFinish DEF Mirrors

-----------------------------------------------------------------------------
\* Steps of no request

LEMMA MirrorReboot == ASSUME MInv, Reboot PROVE MInv'
<1>1. /\ DOMAIN wg' = {} /\ \A q \in Request : req'[q] = Idle
  BY DEF Reboot
<1>2. ASSUME NEW q \in Request PROVE MirrorOK(req[q])'
  <2>1. req'[q].op = "none" /\ req'[q].at = "idle"
    BY <1>1 DEF Idle
  <2> QED
    BY <2>1 DEF MirrorOK, AddingPeerOK, RemovingPeerOK, SettingPeersOK
<1> QED
  BY <1>1, <1>2 DEF MInv, ThreadsRest, PeersAtHome

\* The rows that were there stay, and nobody holds the new one.
LEMMA MirrorNewRow ==
  ASSUME IInv, MInv, UNCHANGED <<client, wg, req>>, server \subseteq server',
         \A v \in DOMAIN profile : v \in DOMAIN profile' /\ profile'[v] = profile[v]
  PROVE  MInv'
<1>1. ThreadsRest' /\ (DOMAIN wg \subseteq server)' /\ PeersAtHome'
  BY DEF MInv, ThreadsRest, PeersAtHome
<1>2. ASSUME NEW q \in Request PROVE MirrorOK(req[q])'
  <2>1. MirrorOK(req[q])
    BY DEF MInv
  <2>2. AddingPeerOK(req[q])'
    BY <2>1 DEF MirrorOK, AddingPeerOK, LoadedClient, HasPeer, IInv, ReferentialIntegrity
  <2>3. RemovingPeerOK(req[q])'
    BY <2>1 DEF MirrorOK, RemovingPeerOK
  <2>4. SettingPeersOK(req[q])'
    BY <2>1 DEF MirrorOK, SettingPeersOK, LoadedClient, HasPeer, KeysOf
  <2> QED
    BY <2>2, <2>3, <2>4 DEF MirrorOK
<1> QED
  BY <1>1, <1>2 DEF MInv

LEMMA MirrorCreate ==
  ASSUME IInv, MInv, CreateNewServer \/ CreateUser \/ UNCHANGED vars
  PROVE  MInv'
<1>1. CASE CreateNewServer \/ UNCHANGED vars
  BY <1>1, MirrorNewRow DEF CreateNewServer, vars
<1>2. CASE CreateUser
  <2>1. PICK u \in User \ DOMAIN profile :
          profile' = Put(profile, u, [verified |-> FALSE, key_limit |-> DefaultKeyLimit,
                                      key_count |-> 0])
    BY <1>2 DEF CreateUser
  <2>2. \A v \in DOMAIN profile : v \in DOMAIN profile' /\ profile'[v] = profile[v]
    BY <2>1 DEF Put
  <2> QED
    BY <1>2, <2>2, MirrorNewRow DEF CreateUser
<1> QED
  BY <1>1, <1>2

LEMMA MirrorInit == Init => MInv
<1> SUFFICES ASSUME Init PROVE MInv
  OBVIOUS
<1>1. DOMAIN wg = {} /\ \A q \in Request : req[q] = Idle
  BY DEF Init, WireGuardInit, RequestsInit
<1>2. ASSUME NEW q \in Request PROVE MirrorOK(req[q])
  BY <1>1 DEF Idle, MirrorOK, AddingPeerOK, RemovingPeerOK, SettingPeersOK
<1> QED
  BY <1>1, <1>2 DEF MInv, ThreadsRest, PeersAtHome

-----------------------------------------------------------------------------
\* Every step

\* A step of a handler that is not killed.
LEMMA MirrorProgress ==
  ASSUME IInv, SInv, MInv, OneRequest, OneRequest', NEW r \in Request, Progress(r)
  PROVE  MInv' /\ Mirrors(r)
<1>1. CASE ClientServiceStep(r)
  BY <1>1, MirrorAllocateIpAddress, MirrorSaveClient, MirrorSaveClientFails,
     MirrorCommitClient, MirrorAddWGPeer, MirrorDeleteKey, MirrorCommitDeleteClient,
     MirrorRemoveWGPeer
  DEF ClientServiceStep
<1>2. CASE ServerServiceStep(r)
  BY <1>2, MirrorUpdateVerified, MirrorSaveProfile, MirrorDeleteUser, MirrorGetPeers,
     MirrorLoadPeer, MirrorSetPeer, MirrorPeersDone, MirrorStopServer, MirrorGenerateConf,
     MirrorWgStart, MirrorListClients, MirrorTransaction, MirrorDeleteServerKey
  DEF ServerServiceStep
<1>3. ~LockWaitTimeout(r)
  <2> SUFFICES ASSUME Blocked(r) PROVE FALSE
    BY DEF LockWaitTimeout
  <2>1. req[r].op # "none"
    BY HandlerOfRequest DEF Blocked
  <2> QED
    BY <2>1, NeverBlocked
<1> QED
  BY <1>1, <1>2, <1>3 DEF Progress

\* MInv is inductive as long as requests do not overlap.
LEMMA MirrorNext ==
  ASSUME IInv, SInv, MInv, OneRequest, OneRequest', [Next]_vars
  PROVE  MInv'
<1>1. ASSUME NEW r \in Request, Start(r) PROVE MInv'
  BY <1>1, MirrorNewKey, MirrorDeleteClient, MirrorSwitchVerifyProfile,
     MirrorUpdateProfile, MirrorRemoveUser, MirrorToggleServer, MirrorRemoveServer
  DEF Start, ClientServiceStart, ServerServiceStart
<1>2. ASSUME NEW r \in Request, Crash(r) PROVE MInv'
  BY <1>2, MirrorFinish, SameHomes DEF Crash, Fail
<1> QED
  BY <1>1, <1>2, MirrorProgress, MirrorReboot, MirrorCreate DEF Next

\* A step of Next is one of a handler only if the handler was running.
LEMMA ProgressRuns ==
  ASSUME IInv, SInv, NEW r \in Request, Progress(r)
  PROVE  req[r].op # "none" /\ \A q \in Request \ {r} : req'[q] = req[q]
<1>1. req[r].at # "idle"
  BY DEF Progress, ClientServiceStep, ServerServiceStep, LockWaitTimeout, Blocked,
     AllocateIpAddress, SaveClient, SaveClientFails, CommitClient, AddWGPeer, DeleteKey,
     CommitDeleteClient, RemoveWGPeer, UpdateVerified, SaveProfile, DeleteUser, GetPeers,
     LoadPeer, SetPeer, PeersDone, StopServer, GenerateConf, WgStart, WgStartFails,
     ListClients, LoadKey, DecrementCount, ClientsDone, DeleteServerKey
<1>2. \A q \in Request \ {r} : req'[q] = req[q]
  BY DEF Progress, ClientServiceStep, ServerServiceStep, LockWaitTimeout, Finish, Fail,
     AllocateIpAddress, SaveClient, SaveClientFails, CommitClient, AddWGPeer, DeleteKey,
     CommitDeleteClient, RemoveWGPeer, UpdateVerified, SaveProfile, DeleteUser, GetPeers,
     LoadPeer, SetPeer, PeersDone, StopServer, GenerateConf, WgStart, WgStartFails,
     ListClients, LoadKey, DecrementCount, ClientsDone, DeleteServerKey, IInv, TypeOK,
     RequestsTypeOK
<1> QED
  BY <1>1, <1>2, HandlerOfRequest

-----------------------------------------------------------------------------
\* Theorems

(* As long as requests do not overlap, a peer is at the interface its client's row
   names, no interface is up without its server, and a handler that is about to
   connect or disconnect a client holds what the client's rows say. *)
THEOREM MirrorInvariance == Spec /\ []OneRequest => []MInv
<1>1. Init => MInv
  BY MirrorInit
<1>2. IInv /\ SInv /\ MInv /\ OneRequest /\ OneRequest' /\ [Next]_vars => MInv'
  BY MirrorNext
<1> QED
  BY <1>1, <1>2, Invariance, SerialInvariance, PTL DEF Spec

(* As long as requests do not overlap, no step of a handler leaves a peer wrong that
   was right or that it was about to set, and no interface is up without its server,
   whatever threads are killed and whatever they left behind: newkey, deletekey,
   verify, settings, deleteuser, toggle and deleteserver do to WireGuard what they do
   to the tables. *)
THEOREM SerialMirrors == Spec /\ []OneRequest => WgMirrorsDatabase
<1>1. ASSUME IInv, IInv', SInv, MInv, OneRequest, OneRequest', NEW r \in Request,
             Progress(r)
      PROVE  LeftBehind' \subseteq LeftBehind /\ (DOMAIN wg \subseteq server)'
  <2>1. MInv' /\ Mirrors(r)
    BY <1>1, MirrorProgress
  <2>2. LeftBehind' \subseteq LeftBehind
    BY <1>1, <2>1, ProgressRuns, LeavesBehind DEF IInv
  <2> QED
    BY <2>1, <2>2 DEF MInv
<1>2. IInv /\ IInv' /\ SInv /\ MInv /\ OneRequest /\ OneRequest' /\ [Next]_vars
        => [(\E r \in Request : Progress(r)) =>
              LeftBehind' \subseteq LeftBehind /\ (DOMAIN wg \subseteq server)']_vars
  BY <1>1
<1> QED
  BY <1>2, Invariance, SerialInvariance, MirrorInvariance, PTL DEF Spec, WgMirrorsDatabase

=============================================================================
