----------------------------- MODULE WgWebProofs ----------------------------
(***************************************************************************)
(* Proofs about WgWeb for any users, keys, servers and threads.            *)
(***************************************************************************)
EXTENDS WgWeb, TLAPS

-----------------------------------------------------------------------------
\* Tables

\* Inserting or replacing a row.
LEMMA PutRow ==
  ASSUME NEW Id, NEW Row, NEW t, IsTable(t, Id, Row), NEW i \in Id, NEW row \in Row
  PROVE  /\ IsTable(Put(t, i, row), Id, Row)
         /\ DOMAIN Put(t, i, row) = DOMAIN t \cup {i}
         /\ Put(t, i, row)[i] = row
         /\ \A j \in DOMAIN t : j # i => Put(t, i, row)[j] = t[j]
  BY DEF IsTable, Put

\* Deleting rows.
LEMMA DeleteRows ==
  ASSUME NEW Id, NEW Row, NEW t, IsTable(t, Id, Row), NEW ids
  PROVE  /\ IsTable(Delete(t, ids), Id, Row)
         /\ DOMAIN Delete(t, ids) = DOMAIN t \ ids
         /\ \A j \in DOMAIN t \ ids : Delete(t, ids)[j] = t[j]
  BY DEF IsTable, Delete, Restrict

-----------------------------------------------------------------------------
\* The inductive invariant IInv of WgWeb

LEMMA InitIInv == Init => IInv
  BY DatabaseAssumption
  DEF Init, DatabaseInit, WireGuardInit, RequestsInit, IInv, TypeOK, DatabaseTypeOK,
      WireGuardTypeOK, RequestsTypeOK, ReferentialIntegrity, RequestsOK, LocalsOK,
      ReferencesHeld, IsTable, Idle, Task, Step, AllowedIps, NoAddress, Unwritten

-----------------------------------------------------------------------------
\* What a step has to establish

\* A step of r that leaves the tables alone: the other requests keep their references.
LEMMA StepOfRequest ==
  ASSUME IInv, NEW r \in Request, NEW t \in Task, req' = [req EXCEPT ![r] = t],
         UNCHANGED db, WireGuardTypeOK', LocalsOK(t), ReferencesHeld(t)
  PROVE  IInv'
<1>1. req' \in [Request -> Task] /\ \A q \in Request : req'[q] = IF q = r THEN t ELSE req[q]
  BY DEF IInv, TypeOK, RequestsTypeOK
<1>2. TypeOK'
  BY <1>1 DEF IInv, TypeOK, RequestsTypeOK, DatabaseTypeOK, db
<1>3. ReferentialIntegrity'
  BY DEF IInv, ReferentialIntegrity, db
<1>4. RequestsOK'
  BY <1>1 DEF IInv, RequestsOK, LocalsOK, ReferencesHeld, db
<1> QED
  BY <1>2, <1>3, <1>4 DEF IInv

\* A statement of r that writes the tables and leaves what other requests refer to.
LEMMA StatementOfRequest ==
  ASSUME IInv, NEW r \in Request, NEW t \in Task, req' = [req EXCEPT ![r] = t],
         UNCHANGED wg, DatabaseTypeOK', ReferentialIntegrity',
         LocalsOK(t), t.at # "commitClient",
         \A q \in Request \ {r} :
           req[q].at = "commitClient" =>
             /\ req[q].user \in DOMAIN profile'
             /\ req[q].server \in server'
  PROVE  IInv'
<1>1. req' \in [Request -> Task] /\ \A q \in Request : req'[q] = IF q = r THEN t ELSE req[q]
  BY DEF IInv, TypeOK, RequestsTypeOK
<1>2. TypeOK'
  BY <1>1 DEF IInv, TypeOK, RequestsTypeOK, WireGuardTypeOK
<1>3. RequestsOK'
  BY <1>1 DEF IInv, RequestsOK, LocalsOK, ReferencesHeld
<1> QED
  BY <1>2, <1>3 DEF IInv

\* A thread without a request.
LEMMA IdleTask ==
  /\ Idle \in Task
  /\ Idle.at = "idle"
  /\ LocalsOK(Idle)
  /\ ReferencesHeld(Idle)
  BY DEF Idle, Task, Step, AllowedIps, NoAddress, Unwritten, LocalsOK, ReferencesHeld

\* What the invariant says of one request.
LEMMA TaskOfRequest ==
  ASSUME IInv, NEW r \in Request
  PROVE  /\ req[r] \in Task
         /\ LocalsOK(req[r])
         /\ ReferencesHeld(req[r])
  BY DEF IInv, TypeOK, RequestsTypeOK, RequestsOK

\* A handler that ends, whatever it last did to WireGuard.
LEMMA FinishStep ==
  ASSUME IInv, NEW r \in Request, Finish(r), UNCHANGED db, WireGuardTypeOK'
  PROVE  IInv'
  BY IdleTask, StepOfRequest DEF Finish

\* A handler that raises.
LEMMA FailStep ==
  ASSUME IInv, NEW r \in Request, Fail(r)
  PROVE  IInv'
  BY FinishStep DEF Fail, IInv, TypeOK, WireGuardTypeOK

-----------------------------------------------------------------------------
\* ClientService

\* NewKey keeps the invariant.
LEMMA NewKeyStep == ASSUME IInv, NEW r \in Request, NewKey(r) PROVE IInv'
<1>1. PICK u \in DOMAIN profile, s \in server, k \in FreshKeys :
        req' = [req EXCEPT ![r] = [Idle EXCEPT !.op = "newkey",
                  !.at = "allocateIpAddress", !.user = u, !.server = s, !.key = k]]
  BY DEF NewKey
<1> DEFINE t == [Idle EXCEPT !.op = "newkey", !.at = "allocateIpAddress",
                             !.user = u, !.server = s, !.key = k]
<1>2. u \in User /\ s \in Server /\ k \in Key
  BY DEF IInv, TypeOK, DatabaseTypeOK, IsTable, FreshKeys
<1>3. t \in Task /\ LocalsOK(t) /\ ReferencesHeld(t)
  BY <1>2, IdleTask DEF Idle, Task, Step, Operation, AllowedIps, NoAddress, LocalsOK, ReferencesHeld
<1>4. UNCHANGED db /\ WireGuardTypeOK'
  BY DEF NewKey, IInv, TypeOK, WireGuardTypeOK
<1> QED
  BY <1>1, <1>3, <1>4, StepOfRequest

\* AllocateIpAddress keeps the invariant.
LEMMA AllocateIpAddressStep ==
  ASSUME IInv, NEW r \in Request, AllocateIpAddress(r) PROVE IInv'
<1>1. UNCHANGED db /\ WireGuardTypeOK'
  BY DEF AllocateIpAddress, IInv, TypeOK, WireGuardTypeOK
<1>2. CASE Finish(r)
  BY <1>1, <1>2, FinishStep
<1>3. CASE ~Finish(r)
  <2>1. PICK a \in HostAddress :
          req' = [req EXCEPT ![r].at = "saveClient", ![r].address = a]
    BY <1>3 DEF AllocateIpAddress
  <2> DEFINE t == [req[r] EXCEPT !.at = "saveClient", !.address = a]
  <2>2. t \in Task /\ LocalsOK(t) /\ ReferencesHeld(t)
    <3>1. req[r] \in Task /\ LocalsOK(req[r]) /\ req[r].at = "allocateIpAddress"
      BY TaskOfRequest DEF AllocateIpAddress
    <3>2. t \in Task
      BY <3>1 DEF Task, Step, AllowedIps
    <3> QED
      BY <3>1, <3>2 DEF Task, LocalsOK, ReferencesHeld
  <2>3. req' = [req EXCEPT ![r] = t]
    BY <2>1 DEF IInv, TypeOK, RequestsTypeOK, Task
  <2> QED
    BY <1>1, <2>2, <2>3, StepOfRequest
<1> QED
  BY <1>2, <1>3

\* SaveClient keeps the invariant.
LEMMA SaveClientStep == ASSUME IInv, NEW r \in Request, SaveClient(r) PROVE IInv'
<1> DEFINE t == [req[r] EXCEPT !.at = "commitClient",
                               !.count = profile[req[r].user].key_count]
<1>1. req[r] \in Task /\ LocalsOK(req[r]) /\ req[r].at = "saveClient"
  BY TaskOfRequest DEF SaveClient
<1>2. profile[req[r].user].key_count \in Nat
  BY DEF SaveClient, IInv, TypeOK, DatabaseTypeOK, IsTable, ProfileRow
<1>3. t \in Task
  BY <1>1, <1>2 DEF Task, Step
<1>4. LocalsOK(t) /\ ReferencesHeld(t)
  BY <1>1 DEF SaveClient, Task, LocalsOK, ReferencesHeld
<1>5. req' = [req EXCEPT ![r] = t] /\ UNCHANGED db /\ WireGuardTypeOK'
  BY DEF SaveClient, IInv, TypeOK, RequestsTypeOK, Task, WireGuardTypeOK
<1> HIDE DEF t
<1> QED
  BY <1>3, <1>4, <1>5, StepOfRequest

\* A count of one user's profile that is written back.
LEMMA WriteCount ==
  ASSUME DatabaseTypeOK, NEW u \in DOMAIN profile, NEW n \in Nat
  PROVE  LET p == [profile EXCEPT ![u].key_count = n]
         IN  IsTable(p, User, ProfileRow) /\ DOMAIN p = DOMAIN profile
  BY DEF DatabaseTypeOK, IsTable, ProfileRow

\* CommitClient keeps the invariant.
LEMMA CommitClientStep == ASSUME IInv, NEW r \in Request, CommitClient(r) PROVE IInv'
<1> DEFINE t == [req[r] EXCEPT !.at = "addWGPeer"]
           row == [user |-> req[r].user, ip_address |-> req[r].address,
                   server |-> req[r].server]
<1>1. req[r] \in Task /\ LocalsOK(req[r]) /\ req[r].at = "commitClient"
  BY TaskOfRequest DEF CommitClient
<1>2. req[r].user \in DOMAIN profile /\ req[r].server \in server
  BY <1>1, TaskOfRequest DEF ReferencesHeld
<1>3. row \in ClientRow /\ req[r].key \in Key /\ req[r].count + 1 \in Nat
  BY <1>1 DEF Task, LocalsOK, ClientRow
<1>4. /\ client' = Put(client, req[r].key, row)
      /\ profile' = [profile EXCEPT ![req[r].user].key_count = req[r].count + 1]
      /\ server' = server
  BY DEF CommitClient, saveClient
<1>5. IsTable(profile', User, ProfileRow) /\ DOMAIN profile' = DOMAIN profile
  BY <1>2, <1>3, <1>4, WriteCount DEF IInv, TypeOK
<1>6. /\ IsTable(client', Key, ClientRow)
      /\ DOMAIN client' = DOMAIN client \cup {req[r].key}
      /\ client'[req[r].key] = row
      /\ \A j \in DOMAIN client : j # req[r].key => client'[j] = client[j]
  <2> HIDE DEF row
  <2>1. IsTable(client, Key, ClientRow)
    BY DEF IInv, TypeOK, DatabaseTypeOK
  <2> QED
    BY <1>3, <1>4, <2>1, PutRow
<1>7. DatabaseTypeOK'
  BY <1>4, <1>5, <1>6 DEF IInv, TypeOK, DatabaseTypeOK
<1>8. ReferentialIntegrity'
  BY <1>2, <1>4, <1>5, <1>6 DEF IInv, ReferentialIntegrity
<1>9. t \in Task
  BY <1>1 DEF Task, Step
<1>10. LocalsOK(t) /\ t.at # "commitClient"
  BY <1>1 DEF Task, LocalsOK
<1>11. req' = [req EXCEPT ![r] = t] /\ UNCHANGED wg
  BY DEF CommitClient, IInv, TypeOK, RequestsTypeOK, Task
<1>12. \A q \in Request \ {r} :
         req[q].at = "commitClient" =>
           req[q].user \in DOMAIN profile' /\ req[q].server \in server'
  BY <1>4, <1>5, TaskOfRequest DEF ReferencesHeld
<1> HIDE DEF t, row
<1> QED
  BY <1>7, <1>8, <1>9, <1>10, <1>11, <1>12, StatementOfRequest

\* wg set on an interface keeps what it knows of the others.
LEMMA AddPeer ==
  ASSUME WireGuardTypeOK, NEW s \in Server, NEW k \in Key, NEW a \in AllowedIps,
         addWGPeer(s, k, a)
  PROVE  WireGuardTypeOK'
<1>1. CASE s \in DOMAIN wg
  <2>1. IsTable(Allow(wg[s], k, a), Key, AllowedIps)
    BY <1>1 DEF WireGuardTypeOK, IsTable, Allow, AllowedIps
  <2> QED
    BY <1>1, <2>1 DEF WireGuardTypeOK, addWGPeer, isWGserverUp
<1>2. CASE s \notin DOMAIN wg
  BY <1>2 DEF WireGuardTypeOK, addWGPeer, isWGserverUp
<1> QED
  BY <1>1, <1>2

\* Removing a peer from an interface.
LEMMA RemovePeer ==
  ASSUME WireGuardTypeOK, NEW s, NEW k, removeWGPeer(s, k)
  PROVE  WireGuardTypeOK'
<1>1. CASE s \in DOMAIN wg
  <2>1. IsTable(Delete(wg[s], {k}), Key, AllowedIps)
    BY <1>1, DeleteRows DEF WireGuardTypeOK
  <2> QED
    BY <1>1, <2>1 DEF WireGuardTypeOK, removeWGPeer, isWGserverUp
<1>2. CASE s \notin DOMAIN wg
  BY <1>2 DEF WireGuardTypeOK, removeWGPeer, isWGserverUp
<1> QED
  BY <1>1, <1>2

\* AddWGPeer keeps the invariant.
LEMMA AddWGPeerStep == ASSUME IInv, NEW r \in Request, AddWGPeer(r) PROVE IInv'
<1>1. req[r] \in Task /\ LocalsOK(req[r]) /\ req[r].at = "addWGPeer"
  BY TaskOfRequest DEF AddWGPeer
<1>2. req[r].server \in Server /\ req[r].key \in Key /\ req[r].address \in AllowedIps
  BY <1>1 DEF LocalsOK, AllowedIps
<1>3. WireGuardTypeOK'
  BY <1>2, AddPeer DEF AddWGPeer, IInv, TypeOK
<1> QED
  BY <1>3, FinishStep DEF AddWGPeer

\* DeleteClient keeps the invariant.
LEMMA DeleteClientStep == ASSUME IInv, NEW r \in Request, DeleteClient(r) PROVE IInv'
<1>1. PICK k \in DOMAIN client :
        req' = [req EXCEPT ![r] = [Idle EXCEPT !.op = "deletekey",
                  !.at = "deleteKey", !.key = k, !.user = client[k].user,
                  !.server = client[k].server]]
  BY DEF DeleteClient
<1> DEFINE t == [Idle EXCEPT !.op = "deletekey", !.at = "deleteKey", !.key = k,
                             !.user = client[k].user, !.server = client[k].server]
<1>2. k \in Key /\ client[k].user \in User /\ client[k].server \in Server \cup {None}
  BY DEF IInv, TypeOK, DatabaseTypeOK, IsTable, ClientRow
<1>3. t \in Task
  BY <1>2, IdleTask DEF Task, Step, Operation
<1>4. LocalsOK(t) /\ ReferencesHeld(t)
  BY <1>2 DEF Idle, LocalsOK, ReferencesHeld
<1>5. UNCHANGED db /\ WireGuardTypeOK'
  BY DEF DeleteClient, IInv, TypeOK, WireGuardTypeOK
<1> HIDE DEF t
<1>6. req' = [req EXCEPT ![r] = t]
  BY <1>1 DEF t
<1> QED
  BY <1>3, <1>4, <1>5, <1>6, StepOfRequest

\* DeleteKey keeps the invariant.
LEMMA DeleteKeyStep == ASSUME IInv, NEW r \in Request, DeleteKey(r) PROVE IInv'
<1> DEFINE u == req[r].user
           n == IF req[r].counts[u] = Unwritten THEN profile[u].key_count
                                                ELSE req[r].counts[u]
           t == [req[r] EXCEPT !.at = "decrementCount", !.gone = @ \cup {req[r].key},
                               !.count = n]
<1>1. req[r] \in Task /\ LocalsOK(req[r]) /\ req[r].at = "deleteKey"
  BY TaskOfRequest DEF DeleteKey
<1>2. UNCHANGED db /\ WireGuardTypeOK'
  BY DEF DeleteKey, IInv, TypeOK, WireGuardTypeOK
<1>3. CASE u \notin DOMAIN profile
  BY <1>2, <1>3, FinishStep DEF DeleteKey
<1>4. CASE u \in DOMAIN profile
  <2>1. n \in Nat
    <3>1. profile[u].key_count \in Nat
      BY <1>4 DEF IInv, TypeOK, DatabaseTypeOK, IsTable, ProfileRow
    <3>2. req[r].counts[u] \in Nat \cup {Unwritten}
      BY <1>1 DEF Task, LocalsOK
    <3> QED
      BY <3>1, <3>2
  <2> HIDE DEF n
  <2>2. req[r].key \in Key
    BY <1>1 DEF LocalsOK
  <2>3. t \in Task
    BY <1>1, <2>1, <2>2 DEF Task, Step
  <2>4. LocalsOK(t) /\ ReferencesHeld(t)
    BY <1>1 DEF Task, LocalsOK, ReferencesHeld
  <2>5. req' = [req EXCEPT ![r] = t]
    BY <1>4 DEF DeleteKey, n, IInv, TypeOK, RequestsTypeOK, Task
  <2> HIDE DEF t
  <2> QED
    BY <1>2, <2>3, <2>4, <2>5, StepOfRequest
<1> QED
  BY <1>3, <1>4

\* Rows of clients that go leave the others as they are.
LEMMA DeleteClients ==
  ASSUME IInv, NEW ids, client' = Delete(client, ids),
         \A k \in DOMAIN client \ ids : client[k].user \in DOMAIN profile',
         server' = server
  PROVE  /\ IsTable(client', Key, ClientRow)
         /\ ReferentialIntegrity'
<1>1. IsTable(client, Key, ClientRow)
  BY DEF IInv, TypeOK, DatabaseTypeOK
<1> DEFINE rest == Delete(client, ids)
<1>2. /\ IsTable(rest, Key, ClientRow)
      /\ DOMAIN rest = DOMAIN client \ ids
      /\ \A j \in DOMAIN client \ ids : rest[j] = client[j]
  BY <1>1 DEF IsTable, Delete, Restrict
<1>3. client' = rest
  OBVIOUS
<1> HIDE DEF rest
<1> QED
  BY <1>2, <1>3 DEF IInv, ReferentialIntegrity

\* CommitDeleteClient keeps the invariant.
LEMMA CommitDeleteClientStep ==
  ASSUME IInv, NEW r \in Request, CommitDeleteClient(r) PROVE IInv'
<1> DEFINE t == [req[r] EXCEPT !.at = "removeWGPeer", !.gone = {}]
<1>1. req[r] \in Task /\ LocalsOK(req[r]) /\ req[r].at = "decrementCount"
  BY TaskOfRequest DEF CommitDeleteClient
<1>2. CASE ~CanDecrement(r)
  BY <1>2, FailStep DEF CommitDeleteClient
<1>3. CASE CanDecrement(r)
  <2>1. req[r].user \in DOMAIN profile /\ req[r].count - 1 \in Nat
    BY <1>1, <1>3 DEF CanDecrement, Task
  <2>2. /\ client' = Delete(client, {req[r].key})
        /\ profile' = [profile EXCEPT ![req[r].user].key_count = req[r].count - 1]
        /\ server' = server
        /\ wg' = wg
    BY <1>3 DEF CommitDeleteClient, deleteClient
  <2>3. IsTable(profile', User, ProfileRow) /\ DOMAIN profile' = DOMAIN profile
    BY <2>1, <2>2, WriteCount DEF IInv, TypeOK
  <2>4. IsTable(client', Key, ClientRow) /\ ReferentialIntegrity'
    BY <2>2, <2>3, DeleteClients DEF IInv, ReferentialIntegrity
  <2>5. DatabaseTypeOK'
    BY <2>2, <2>3, <2>4 DEF IInv, TypeOK, DatabaseTypeOK
  <2>6. t \in Task
    BY <1>1 DEF Task, Step
  <2>7. LocalsOK(t) /\ t.at # "commitClient"
    BY <1>1 DEF Task, LocalsOK
  <2>8. req' = [req EXCEPT ![r] = t]
    BY <1>3 DEF CommitDeleteClient, IInv, TypeOK, RequestsTypeOK, Task
  <2>9. \A q \in Request \ {r} :
          req[q].at = "commitClient" =>
            req[q].user \in DOMAIN profile' /\ req[q].server \in server'
    BY <2>2, <2>3, TaskOfRequest DEF ReferencesHeld
  <2> HIDE DEF t
  <2> QED
    BY <2>2, <2>4, <2>5, <2>6, <2>7, <2>8, <2>9, StatementOfRequest
<1> QED
  BY <1>2, <1>3

\* RemoveWGPeer keeps the invariant.
LEMMA RemoveWGPeerStep == ASSUME IInv, NEW r \in Request, RemoveWGPeer(r) PROVE IInv'
<1>1. WireGuardTypeOK'
  <2>1. CASE req[r].server = None
    BY <2>1 DEF RemoveWGPeer, IInv, TypeOK, WireGuardTypeOK
  <2>2. CASE req[r].server # None
    BY <2>2, RemovePeer DEF RemoveWGPeer, IInv, TypeOK
  <2> QED
    BY <2>1, <2>2
<1> QED
  BY <1>1, FinishStep DEF RemoveWGPeer

(* Every step of creating and deleting clients keeps the invariant, whatever the
   other requests are doing. *)
THEOREM ClientServiceKeepsIInv ==
  ASSUME IInv, NEW r \in Request, ClientServiceStart(r) \/ ClientServiceStep(r)
  PROVE  IInv'
<1>1. CASE SaveClientFails(r)
  BY <1>1, FailStep DEF SaveClientFails
<1> QED
  BY <1>1, NewKeyStep, AllocateIpAddressStep, SaveClientStep, CommitClientStep,
     AddWGPeerStep, DeleteClientStep, DeleteKeyStep, CommitDeleteClientStep,
     RemoveWGPeerStep
  DEF ClientServiceStart, ClientServiceStep

-----------------------------------------------------------------------------
\* ServerService

\* SwitchVerifyProfile keeps the invariant.
LEMMA SwitchVerifyProfileStep ==
  ASSUME IInv, NEW r \in Request, SwitchVerifyProfile(r) PROVE IInv'
<1>1. PICK u \in DOMAIN profile :
        req' = [req EXCEPT ![r] = [Idle EXCEPT !.op = "verify",
                  !.at = "updateVerified", !.user = u, !.verified = ~profile[u].verified]]
  BY DEF SwitchVerifyProfile
<1> DEFINE t == [Idle EXCEPT !.op = "verify", !.at = "updateVerified", !.user = u,
                             !.verified = ~profile[u].verified]
<1>2. u \in User /\ profile[u].verified \in BOOLEAN
  BY DEF IInv, TypeOK, DatabaseTypeOK, IsTable, ProfileRow
<1>3. t \in Task
  BY <1>2, IdleTask DEF Task, Step, Operation
<1>4. LocalsOK(t) /\ ReferencesHeld(t)
  BY <1>2 DEF Idle, LocalsOK, ReferencesHeld
<1>5. UNCHANGED db /\ WireGuardTypeOK'
  BY DEF SwitchVerifyProfile, IInv, TypeOK, WireGuardTypeOK
<1> HIDE DEF t
<1>6. req' = [req EXCEPT ![r] = t]
  BY <1>1 DEF t
<1> QED
  BY <1>3, <1>4, <1>5, <1>6, StepOfRequest

\* UpdateVerified keeps the invariant.
LEMMA UpdateVerifiedStep ==
  ASSUME IInv, NEW r \in Request, UpdateVerified(r) PROVE IInv'
<1> DEFINE u == req[r].user
           t == [req[r] EXCEPT !.at = "getPeers"]
<1>1. req[r] \in Task /\ LocalsOK(req[r]) /\ req[r].at = "updateVerified"
  BY TaskOfRequest DEF UpdateVerified
<1>2. CASE u \notin DOMAIN profile
  BY <1>2, FailStep DEF UpdateVerified
<1>3. CASE u \in DOMAIN profile
  <2>1. /\ profile' = [profile EXCEPT ![u].verified = req[r].verified]
        /\ UNCHANGED <<client, server, wg>>
    BY <1>3 DEF UpdateVerified
  <2>2. DOMAIN profile' = DOMAIN profile
    BY <2>1
  <2>3. DatabaseTypeOK'
    BY <1>1, <1>3, <2>1 DEF IInv, TypeOK, DatabaseTypeOK, IsTable, ProfileRow, Task
  <2>4. ReferentialIntegrity'
    BY <2>1, <2>2 DEF IInv, ReferentialIntegrity
  <2>5. t \in Task
    BY <1>1 DEF Task, Step
  <2>6. LocalsOK(t) /\ t.at # "commitClient"
    BY <1>1 DEF Task, LocalsOK
  <2>7. req' = [req EXCEPT ![r] = t]
    BY <1>3 DEF UpdateVerified, IInv, TypeOK, RequestsTypeOK, Task
  <2>8. \A q \in Request \ {r} :
          req[q].at = "commitClient" =>
            req[q].user \in DOMAIN profile' /\ req[q].server \in server'
    BY <2>1, <2>2, TaskOfRequest DEF ReferencesHeld
  <2> HIDE DEF t
  <2> QED
    BY <2>1, <2>3, <2>4, <2>5, <2>6, <2>7, <2>8, StatementOfRequest
<1> QED
  BY <1>2, <1>3

\* UpdateProfile keeps the invariant.
LEMMA UpdateProfileStep ==
  ASSUME IInv, NEW r \in Request, UpdateProfile(r) PROVE IInv'
<1>1. PICK u \in DOMAIN profile, v \in BOOLEAN, l \in KeyLimit :
        req' = [req EXCEPT ![r] = [Idle EXCEPT !.op = "settings",
                  !.at = "saveProfile", !.user = u, !.verified = v, !.limit = l,
                  !.count = profile[u].key_count]]
  BY DEF UpdateProfile
<1> DEFINE t == [Idle EXCEPT !.op = "settings", !.at = "saveProfile", !.user = u,
                   !.verified = v, !.limit = l, !.count = profile[u].key_count]
<1>2. u \in User /\ l \in Nat /\ profile[u].key_count \in Nat
  BY DatabaseAssumption DEF IInv, TypeOK, DatabaseTypeOK, IsTable, ProfileRow
<1>3. t \in Task
  BY <1>2, IdleTask DEF Task, Step, Operation
<1>4. LocalsOK(t) /\ ReferencesHeld(t)
  BY <1>2 DEF Idle, LocalsOK, ReferencesHeld
<1>5. UNCHANGED db /\ WireGuardTypeOK'
  BY DEF UpdateProfile, IInv, TypeOK, WireGuardTypeOK
<1> HIDE DEF t
<1>6. req' = [req EXCEPT ![r] = t]
  BY <1>1 DEF t
<1> QED
  BY <1>3, <1>4, <1>5, <1>6, StepOfRequest

\* SaveProfile keeps the invariant.
LEMMA SaveProfileStep ==
  ASSUME IInv, NEW r \in Request, SaveProfile(r) PROVE IInv'
<1> DEFINE row == [verified |-> req[r].verified, key_limit |-> req[r].limit,
                   key_count |-> req[r].count]
           t == [req[r] EXCEPT !.at = "getPeers"]
<1>1. req[r] \in Task /\ LocalsOK(req[r]) /\ req[r].at = "saveProfile"
  BY TaskOfRequest DEF SaveProfile
<1>2. row \in ProfileRow /\ req[r].user \in User
  BY <1>1 DEF Task, LocalsOK, ProfileRow
<1>3. profile' = Put(profile, req[r].user, row) /\ UNCHANGED <<client, server, wg>>
  BY DEF SaveProfile
<1>4. req' = [req EXCEPT ![r] = t]
  BY DEF SaveProfile, IInv, TypeOK, RequestsTypeOK, Task
<1>5. t \in Task
  BY <1>1 DEF Task, Step
<1>6. LocalsOK(t) /\ t.at # "commitClient"
  BY <1>1 DEF Task, LocalsOK
<1> HIDE DEF row, t
<1>7. IsTable(profile', User, ProfileRow) /\ DOMAIN profile \subseteq DOMAIN profile'
  <2>1. IsTable(profile, User, ProfileRow)
    BY DEF IInv, TypeOK, DatabaseTypeOK
  <2> QED
    BY <1>2, <1>3, <2>1 DEF IsTable, Put
<1>8. DatabaseTypeOK'
  BY <1>3, <1>7 DEF IInv, TypeOK, DatabaseTypeOK
<1>9. ReferentialIntegrity'
  BY <1>3, <1>7 DEF IInv, ReferentialIntegrity
<1>10. \A q \in Request \ {r} :
         req[q].at = "commitClient" =>
           req[q].user \in DOMAIN profile' /\ req[q].server \in server'
  BY <1>3, <1>7, TaskOfRequest DEF ReferencesHeld
<1> QED
  BY <1>3, <1>4, <1>5, <1>6, <1>8, <1>9, <1>10, StatementOfRequest

\* RemoveUser keeps the invariant.
LEMMA RemoveUserStep == ASSUME IInv, NEW r \in Request, RemoveUser(r) PROVE IInv'
<1>1. PICK u \in DOMAIN profile :
        req' = [req EXCEPT ![r] = [Idle EXCEPT !.op = "deleteuser",
                                     !.at = "getPeers", !.user = u]]
  BY DEF RemoveUser
<1> DEFINE t == [Idle EXCEPT !.op = "deleteuser", !.at = "getPeers", !.user = u]
<1>2. u \in User
  BY DEF IInv, TypeOK, DatabaseTypeOK, IsTable
<1>3. t \in Task
  BY <1>2, IdleTask DEF Task, Step, Operation
<1>4. LocalsOK(t) /\ ReferencesHeld(t)
  BY <1>2 DEF Idle, LocalsOK, ReferencesHeld
<1>5. UNCHANGED db /\ WireGuardTypeOK'
  BY DEF RemoveUser, IInv, TypeOK, WireGuardTypeOK
<1> HIDE DEF t
<1>6. req' = [req EXCEPT ![r] = t]
  BY <1>1 DEF t
<1> QED
  BY <1>3, <1>4, <1>5, <1>6, StepOfRequest

\* The locks of saveClient are why no transaction is left with a user that is gone.
LEMMA DeleteUserStep == ASSUME IInv, NEW r \in Request, DeleteUser(r) PROVE IInv'
<1> DEFINE u == req[r].user
<1>1. /\ profile' = Delete(profile, {u})
      /\ client' = Delete(client, KeysOf(u))
      /\ UNCHANGED <<server, wg>>
      /\ Finish(r)
      /\ ~UserReferenced(r, u)
  BY DEF DeleteUser, deleteUser, Blocked
<1>2. DOMAIN profile' = DOMAIN profile \ {u} /\ IsTable(profile', User, ProfileRow)
  BY <1>1 DEF IInv, TypeOK, DatabaseTypeOK, IsTable, Delete, Restrict
<1>3. \A k \in DOMAIN client \ KeysOf(u) : client[k].user \in DOMAIN profile'
  BY <1>2 DEF KeysOf, IInv, ReferentialIntegrity
<1>4. IsTable(client', Key, ClientRow) /\ ReferentialIntegrity'
  BY <1>1, <1>3, DeleteClients
<1>5. DatabaseTypeOK'
  BY <1>1, <1>2, <1>4 DEF IInv, TypeOK, DatabaseTypeOK
<1>6. \A q \in Request \ {r} :
        req[q].at = "commitClient" =>
          req[q].user \in DOMAIN profile' /\ req[q].server \in server'
  BY <1>1, <1>2, TaskOfRequest DEF ReferencesHeld, UserReferenced
<1> QED
  BY <1>1, <1>4, <1>5, <1>6, IdleTask, StatementOfRequest DEF Finish

\* GetPeers keeps the invariant.
LEMMA GetPeersStep == ASSUME IInv, NEW r \in Request, GetPeers(r) PROVE IInv'
<1> DEFINE todo == getByUser(req[r].user)
           t == [req[r] EXCEPT !.at = "loadPeer", !.todo = todo]
<1>1. req[r] \in Task /\ LocalsOK(req[r]) /\ req[r].at = "getPeers"
  BY TaskOfRequest DEF GetPeers
<1>2. todo \subseteq Key
  BY DEF getByUser, KeysOf, IInv, TypeOK, DatabaseTypeOK, IsTable
<1>3. req' = [req EXCEPT ![r] = t] /\ UNCHANGED db /\ WireGuardTypeOK'
  BY DEF GetPeers, IInv, TypeOK, RequestsTypeOK, Task, WireGuardTypeOK
<1> HIDE DEF todo
<1>4. t \in Task
  BY <1>1, <1>2 DEF Task, Step
<1>5. LocalsOK(t) /\ ReferencesHeld(t)
  BY <1>1 DEF Task, LocalsOK, ReferencesHeld
<1> HIDE DEF t
<1> QED
  BY <1>3, <1>4, <1>5, StepOfRequest

\* LoadPeer keeps the invariant.
LEMMA LoadPeerStep == ASSUME IInv, NEW r \in Request, LoadPeer(r) PROVE IInv'
<1>1. req[r] \in Task /\ LocalsOK(req[r]) /\ req[r].at = "loadPeer"
  BY TaskOfRequest DEF LoadPeer
<1>2. PICK k \in req[r].todo :
        req' = IF k \in getByUser(req[r].user)
               THEN [req EXCEPT ![r].at = "setPeer", ![r].todo = RemainingPeers(r, k),
                                ![r].key = k, ![r].server = client[k].server,
                                ![r].address = client[k].ip_address]
               ELSE [req EXCEPT ![r].todo = RemainingPeers(r, k)]
  BY DEF LoadPeer
<1>3. RemainingPeers(r, k) \subseteq Key /\ k \in Key
  BY <1>1 DEF RemainingPeers, Task
<1>4. UNCHANGED db /\ WireGuardTypeOK'
  BY DEF LoadPeer, IInv, TypeOK, WireGuardTypeOK
<1>5. CASE k \in getByUser(req[r].user)
  <2> DEFINE t == [req[r] EXCEPT !.at = "setPeer", !.todo = RemainingPeers(r, k),
                     !.key = k, !.server = client[k].server,
                     !.address = client[k].ip_address]
  <2>1. client[k].server \in Server /\ client[k].ip_address \in HostAddress
    <3>1. k \in DOMAIN client /\ client[k].server # None
      BY <1>5 DEF getByUser, KeysOf
    <3> QED
      BY <3>1 DEF IInv, TypeOK, DatabaseTypeOK, IsTable, ClientRow
  <2>2. req' = [req EXCEPT ![r] = t]
    BY <1>2, <1>5 DEF IInv, TypeOK, RequestsTypeOK, Task
  <2>3. t \in Task
    BY <1>1, <1>3, <2>1 DEF Task, Step, AllowedIps
  <2>4. LocalsOK(t) /\ ReferencesHeld(t)
    BY <1>1, <1>3, <2>1 DEF Task, LocalsOK, ReferencesHeld
  <2> HIDE DEF t
  <2> QED
    BY <1>4, <2>2, <2>3, <2>4, StepOfRequest
<1>6. CASE k \notin getByUser(req[r].user)
  <2> DEFINE t == [req[r] EXCEPT !.todo = RemainingPeers(r, k)]
  <2>1. req' = [req EXCEPT ![r] = t]
    BY <1>2, <1>6 DEF IInv, TypeOK, RequestsTypeOK, Task
  <2>2. t \in Task
    BY <1>1, <1>3 DEF Task
  <2>3. LocalsOK(t) /\ ReferencesHeld(t)
    BY <1>1 DEF Task, LocalsOK, ReferencesHeld
  <2> HIDE DEF t
  <2> QED
    BY <1>4, <2>1, <2>2, <2>3, StepOfRequest
<1> QED
  BY <1>5, <1>6

\* SetPeer keeps the invariant.
LEMMA SetPeerStep == ASSUME IInv, NEW r \in Request, SetPeer(r) PROVE IInv'
<1> DEFINE t == [req[r] EXCEPT !.at = "loadPeer", !.key = None, !.server = None,
                               !.address = NoAddress]
<1>1. req[r] \in Task /\ LocalsOK(req[r]) /\ req[r].at = "setPeer"
  BY TaskOfRequest DEF SetPeer
<1>2. WireGuardTypeOK'
  <2>1. req[r].server \in Server /\ req[r].key \in Key /\ req[r].address \in AllowedIps
    BY <1>1 DEF LocalsOK, AllowedIps
  <2>2. \/ addWGPeer(req[r].server, req[r].key, req[r].address)
        \/ removeWGPeer(req[r].server, req[r].key)
    BY DEF SetPeer
  <2> QED
    BY <2>1, <2>2, AddPeer, RemovePeer DEF IInv, TypeOK
<1>3. req' = [req EXCEPT ![r] = t] /\ UNCHANGED db
  BY DEF SetPeer, IInv, TypeOK, RequestsTypeOK, Task
<1>4. t \in Task
  BY <1>1 DEF Task, Step, AllowedIps
<1>5. LocalsOK(t) /\ ReferencesHeld(t)
  BY <1>1 DEF Task, LocalsOK, ReferencesHeld
<1> HIDE DEF t
<1> QED
  BY <1>2, <1>3, <1>4, <1>5, StepOfRequest

\* PeersDone keeps the invariant.
LEMMA PeersDoneStep == ASSUME IInv, NEW r \in Request, PeersDone(r) PROVE IInv'
<1> DEFINE t == [req[r] EXCEPT !.at = "deleteUser"]
<1>1. req[r] \in Task /\ LocalsOK(req[r]) /\ req[r].at = "loadPeer"
  BY TaskOfRequest DEF PeersDone
<1>2. UNCHANGED db /\ WireGuardTypeOK'
  BY DEF PeersDone, IInv, TypeOK, WireGuardTypeOK
<1>3. CASE Finish(r)
  BY <1>2, <1>3, FinishStep
<1>4. CASE ~Finish(r)
  <2>1. req' = [req EXCEPT ![r] = t]
    BY <1>4 DEF PeersDone, IInv, TypeOK, RequestsTypeOK, Task
  <2>2. t \in Task
    BY <1>1 DEF Task, Step
  <2>3. LocalsOK(t) /\ ReferencesHeld(t)
    BY <1>1 DEF Task, LocalsOK, ReferencesHeld
  <2> HIDE DEF t
  <2> QED
    BY <1>2, <2>1, <2>2, <2>3, StepOfRequest
<1> QED
  BY <1>3, <1>4

\* ToggleServer keeps the invariant.
LEMMA ToggleServerStep ==
  ASSUME IInv, NEW r \in Request, ToggleServer(r) PROVE IInv'
<1>1. PICK s \in server :
        req' = [req EXCEPT ![r] = [Idle EXCEPT !.op = "toggle", !.server = s,
                  !.at = IF isWGserverUp(s) THEN "stopServer" ELSE "generateConf"]]
  BY DEF ToggleServer
<1> DEFINE at == IF isWGserverUp(s) THEN "stopServer" ELSE "generateConf"
           t == [Idle EXCEPT !.op = "toggle", !.server = s, !.at = at]
<1>2. s \in Server
  BY DEF IInv, TypeOK, DatabaseTypeOK
<1>3. t \in Task
  <2>1. at \in Step
    BY DEF Step
  <2>2. "toggle" \in Operation
    BY DEF Operation
  <2> HIDE DEF at
  <2> QED
    BY <1>2, <2>1, <2>2, IdleTask DEF Task
<1>4. LocalsOK(t) /\ ReferencesHeld(t)
  BY <1>2 DEF Idle, LocalsOK, ReferencesHeld
<1>5. UNCHANGED db /\ WireGuardTypeOK'
  BY DEF ToggleServer, IInv, TypeOK, WireGuardTypeOK
<1> HIDE DEF t
<1>6. req' = [req EXCEPT ![r] = t]
  BY <1>1 DEF t
<1> QED
  BY <1>3, <1>4, <1>5, <1>6, StepOfRequest

\* An interface that is stopped.
LEMMA StopInterface ==
  ASSUME WireGuardTypeOK, NEW s, stopWGserver(s) PROVE WireGuardTypeOK'
  BY DEF WireGuardTypeOK, stopWGserver, IsTable, Delete, Restrict

\* StopServer keeps the invariant.
LEMMA StopServerStep == ASSUME IInv, NEW r \in Request, StopServer(r) PROVE IInv'
  BY StopInterface, FinishStep DEF StopServer, IInv, TypeOK

\* WgStartFails keeps the invariant.
LEMMA WgStartFailsStep == ASSUME IInv, NEW r \in Request, WgStartFails(r) PROVE IInv'
  BY StopInterface, FinishStep DEF WgStartFails, IInv, TypeOK

\* GenerateConf keeps the invariant.
LEMMA GenerateConfStep ==
  ASSUME IInv, NEW r \in Request, GenerateConf(r) PROVE IInv'
<1> DEFINE conf == {<<k, client[k].ip_address>> :
                      k \in getVerifiedPeersFromServer(req[r].server)}
           t == [req[r] EXCEPT !.at = "wgStart", !.conf = conf]
<1>1. req[r] \in Task /\ LocalsOK(req[r]) /\ req[r].at = "generateConf"
  BY TaskOfRequest DEF GenerateConf
<1>2. UNCHANGED db /\ WireGuardTypeOK'
  BY DEF GenerateConf, IInv, TypeOK, WireGuardTypeOK
<1>3. CASE req[r].server \notin server
  BY <1>2, <1>3, FinishStep DEF GenerateConf
<1>4. CASE req[r].server \in server
  <2>1. conf \subseteq Key \X HostAddress
    BY DEF getVerifiedPeersFromServer, getClientInterfacesFromServer, IInv, TypeOK,
           DatabaseTypeOK, IsTable, ClientRow
  <2>2. req' = [req EXCEPT ![r] = t]
    BY <1>4 DEF GenerateConf, IInv, TypeOK, RequestsTypeOK, Task
  <2> HIDE DEF conf
  <2>3. t \in Task
    BY <1>1, <2>1 DEF Task, Step
  <2>4. LocalsOK(t) /\ ReferencesHeld(t)
    BY <1>1 DEF Task, LocalsOK, ReferencesHeld
  <2> HIDE DEF t
  <2> QED
    BY <1>2, <2>2, <2>3, <2>4, StepOfRequest
<1> QED
  BY <1>3, <1>4

\* WgStart keeps the invariant.
LEMMA WgStartStep == ASSUME IInv, NEW r \in Request, WgStart(r) PROVE IInv'
<1>1. req[r] \in Task /\ LocalsOK(req[r]) /\ req[r].at = "wgStart"
  BY TaskOfRequest DEF WgStart
<1>2. req[r].server \in Server /\ req[r].conf \subseteq Key \X HostAddress
  BY <1>1 DEF LocalsOK, Task
<1>3. CASE UNCHANGED wg
  BY <1>3, FinishStep DEF WgStart, IInv, TypeOK, WireGuardTypeOK
<1>4. CASE wg' # wg
  <2>1. PICK peers \in Loaded(req[r].conf) : wg' = Put(wg, req[r].server, peers)
    BY <1>4 DEF WgStart, restartWGserver
  <2>2. IsTable(peers, Key, AllowedIps)
    <3>1. peers \in [{c[1] : c \in req[r].conf} -> AllowedIps]
      BY DEF Loaded
    <3>2. {c[1] : c \in req[r].conf} \subseteq Key
      BY <1>2
    <3> QED
      BY <3>1, <3>2 DEF IsTable
  <2>3. WireGuardTypeOK'
    BY <1>2, <2>1, <2>2 DEF IInv, TypeOK, WireGuardTypeOK, Put
  <2> QED
    BY <2>3, FinishStep DEF WgStart
<1> QED
  BY <1>3, <1>4

\* RemoveServer keeps the invariant.
LEMMA RemoveServerStep ==
  ASSUME IInv, NEW r \in Request, RemoveServer(r) PROVE IInv'
<1>1. PICK s \in server :
        req' = [req EXCEPT ![r] = [Idle EXCEPT !.op = "deleteserver",
                                     !.at = "removeServer", !.server = s]]
  BY DEF RemoveServer
<1> DEFINE t == [Idle EXCEPT !.op = "deleteserver", !.at = "removeServer", !.server = s]
<1>2. s \in Server
  BY DEF IInv, TypeOK, DatabaseTypeOK
<1>3. t \in Task
  BY <1>2, IdleTask DEF Task, Step, Operation
<1>4. LocalsOK(t) /\ ReferencesHeld(t)
  BY <1>2 DEF Idle, LocalsOK, ReferencesHeld
<1>5. UNCHANGED db /\ WireGuardTypeOK'
  BY DEF RemoveServer, IInv, TypeOK, WireGuardTypeOK
<1> HIDE DEF t
<1>6. req' = [req EXCEPT ![r] = t]
  BY <1>1 DEF t
<1> QED
  BY <1>3, <1>4, <1>5, <1>6, StepOfRequest

\* ListClients keeps the invariant.
LEMMA ListClientsStep == ASSUME IInv, NEW r \in Request, ListClients(r) PROVE IInv'
<1> DEFINE s == req[r].server
           todo == getClientInterfacesFromServer(s)
           t == [req[r] EXCEPT !.at = "loadKey", !.todo = todo]
<1>1. req[r] \in Task /\ LocalsOK(req[r]) /\ req[r].at = "removeServer"
  BY TaskOfRequest DEF ListClients
<1>2. UNCHANGED db /\ WireGuardTypeOK'
  BY StopInterface DEF ListClients, IInv, TypeOK
<1>3. CASE s \notin server
  BY <1>2, <1>3, FinishStep DEF ListClients
<1>4. CASE s \in server
  <2>1. todo \subseteq Key
    BY DEF getClientInterfacesFromServer, IInv, TypeOK, DatabaseTypeOK, IsTable
  <2>2. req' = [req EXCEPT ![r] = t]
    BY <1>4 DEF ListClients, IInv, TypeOK, RequestsTypeOK, Task
  <2> HIDE DEF todo
  <2>3. t \in Task
    BY <1>1, <2>1 DEF Task, Step
  <2>4. LocalsOK(t) /\ ReferencesHeld(t)
    BY <1>1 DEF Task, LocalsOK, ReferencesHeld
  <2> HIDE DEF t
  <2> QED
    BY <1>2, <2>2, <2>3, <2>4, StepOfRequest
<1> QED
  BY <1>3, <1>4

\* LoadKey keeps the invariant.
LEMMA LoadKeyStep == ASSUME IInv, NEW r \in Request, LoadKey(r) PROVE IInv'
<1>1. req[r] \in Task /\ LocalsOK(req[r]) /\ req[r].at = "loadKey"
  BY TaskOfRequest DEF LoadKey
<1>2. UNCHANGED db /\ WireGuardTypeOK'
  BY DEF LoadKey, IInv, TypeOK, WireGuardTypeOK
<1>3. CASE Finish(r)
  BY <1>2, <1>3, FinishStep
<1>4. CASE ~Finish(r)
  <2>1. PICK k \in req[r].todo :
          /\ k \in DOMAIN client
          /\ req' = [req EXCEPT ![r].at = "deleteKey", ![r].todo = @ \ {k},
                                ![r].key = k, ![r].user = client[k].user]
    BY <1>4 DEF LoadKey
  <2> DEFINE t == [req[r] EXCEPT !.at = "deleteKey", !.todo = @ \ {k}, !.key = k,
                                 !.user = client[k].user]
  <2>2. k \in Key /\ client[k].user \in User
    BY <2>1 DEF IInv, TypeOK, DatabaseTypeOK, IsTable, ClientRow
  <2>3. req' = [req EXCEPT ![r] = t]
    BY <2>1 DEF IInv, TypeOK, RequestsTypeOK, Task
  <2>4. t \in Task
    BY <1>1, <2>2 DEF Task, Step
  <2>5. LocalsOK(t) /\ ReferencesHeld(t)
    BY <1>1, <2>2 DEF Task, LocalsOK, ReferencesHeld
  <2> HIDE DEF t
  <2> QED
    BY <1>2, <2>3, <2>4, <2>5, StepOfRequest
<1> QED
  BY <1>3, <1>4

\* DecrementCount keeps the invariant.
LEMMA DecrementCountStep ==
  ASSUME IInv, NEW r \in Request, DecrementCount(r) PROVE IInv'
<1> DEFINE u == req[r].user
           n == req[r].count - 1
           t == [req[r] EXCEPT !.at = "loadKey", !.key = None, !.user = None,
                               !.count = 0, !.counts[u] = n]
<1>1. req[r] \in Task /\ LocalsOK(req[r]) /\ req[r].at = "decrementCount"
  BY TaskOfRequest DEF DecrementCount
<1>2. UNCHANGED db /\ WireGuardTypeOK'
  BY DEF DecrementCount, IInv, TypeOK, WireGuardTypeOK
<1>3. CASE Finish(r)
  BY <1>2, <1>3, FinishStep
<1>4. CASE ~Finish(r)
  <2>1. u \in User /\ n \in Nat
    BY <1>1, <1>4 DEF DecrementCount, LocalsOK, Task
  <2>2. req' = [req EXCEPT ![r] = t]
    BY <1>4 DEF DecrementCount, IInv, TypeOK, RequestsTypeOK, Task
  <2> HIDE DEF n
  <2>3. [req[r].counts EXCEPT ![u] = n] \in [User -> Nat \cup {Unwritten}]
    BY <1>1, <2>1 DEF Task
  <2>4. t \in Task
    BY <1>1, <2>1, <2>3 DEF Task, Step
  <2>5. LocalsOK(t) /\ ReferencesHeld(t)
    BY <1>1 DEF Task, LocalsOK, ReferencesHeld
  <2> HIDE DEF t
  <2> QED
    BY <1>2, <2>2, <2>4, <2>5, StepOfRequest
<1> QED
  BY <1>3, <1>4

\* ClientsDone keeps the invariant.
LEMMA ClientsDoneStep == ASSUME IInv, NEW r \in Request, ClientsDone(r) PROVE IInv'
<1> DEFINE t == [req[r] EXCEPT !.at = "deleteServerKey"]
<1>1. req[r] \in Task /\ LocalsOK(req[r])
  BY TaskOfRequest
<1>2. req' = [req EXCEPT ![r] = t] /\ UNCHANGED db /\ WireGuardTypeOK'
  BY DEF ClientsDone, IInv, TypeOK, RequestsTypeOK, Task, WireGuardTypeOK
<1>3. t \in Task
  BY <1>1 DEF Task, Step
<1>4. LocalsOK(t) /\ ReferencesHeld(t)
  BY <1>1 DEF Task, LocalsOK, ReferencesHeld
<1> HIDE DEF t
<1> QED
  BY <1>2, <1>3, <1>4, StepOfRequest

\* Clients that are not in gone lose their peer and stay whole otherwise.
LEMMA DeleteServerKeyStep ==
  ASSUME IInv, NEW r \in Request, DeleteServerKey(r) PROVE IInv'
<1> DEFINE s == req[r].server
           gone == req[r].gone
           counts == req[r].counts
<1>1. req[r] \in Task
  BY TaskOfRequest
<1>2. /\ client' = [k \in DOMAIN client \ gone |->
                      IF client[k].server = s THEN [client[k] EXCEPT !.server = None]
                                              ELSE client[k]]
      /\ profile' = [u \in DOMAIN profile |->
                       IF counts[u] = Unwritten THEN profile[u]
                       ELSE [profile[u] EXCEPT !.key_count = counts[u]]]
      /\ server' = server \ {s}
      /\ UNCHANGED wg
      /\ Finish(r)
      /\ req[r].at = "deleteServerKey"
      /\ ~Blocked(r)
  BY DEF DeleteServerKey, deleteServer
<1>3. ~ServerReferenced(r, s)
  BY <1>2 DEF Blocked
<1>4. DOMAIN profile' = DOMAIN profile /\ IsTable(profile', User, ProfileRow)
  <2>1. \A u \in User : counts[u] \in Nat \cup {Unwritten}
    BY <1>1 DEF Task
  <2>2. DOMAIN profile \subseteq User /\ \A u \in DOMAIN profile : profile[u] \in ProfileRow
    BY DEF IInv, TypeOK, DatabaseTypeOK, IsTable
  <2> HIDE DEF counts
  <2>3. ASSUME NEW u \in DOMAIN profile PROVE profile'[u] \in ProfileRow
    BY <1>2, <2>1, <2>2 DEF ProfileRow
  <2> QED
    BY <1>2, <2>2, <2>3 DEF IsTable
<1>5. /\ IsTable(client', Key, ClientRow)
      /\ DOMAIN client' \subseteq DOMAIN client
      /\ \A k \in DOMAIN client' :
           /\ client'[k].user = client[k].user
           /\ client'[k].server = IF client[k].server = s THEN None ELSE client[k].server
  <2>1. DOMAIN client \subseteq Key /\ \A k \in DOMAIN client : client[k] \in ClientRow
    BY DEF IInv, TypeOK, DatabaseTypeOK, IsTable
  <2>2. DOMAIN client' = DOMAIN client \ gone
    BY <1>2
  <2>3. ASSUME NEW k \in DOMAIN client \ gone
        PROVE  /\ client'[k] \in ClientRow
               /\ client'[k].user = client[k].user
               /\ client'[k].server = IF client[k].server = s THEN None ELSE client[k].server
    BY <1>2, <2>1 DEF ClientRow
  <2> QED
    BY <2>1, <2>2, <2>3 DEF IsTable
<1>6. DatabaseTypeOK'
  BY <1>2, <1>4, <1>5 DEF IInv, TypeOK, DatabaseTypeOK
<1>7. ReferentialIntegrity'
  BY <1>2, <1>4, <1>5 DEF IInv, ReferentialIntegrity
<1>8. \A q \in Request \ {r} :
        req[q].at = "commitClient" =>
          req[q].user \in DOMAIN profile' /\ req[q].server \in server'
  BY <1>2, <1>3, <1>4, TaskOfRequest DEF ReferencesHeld, ServerReferenced
<1> QED
  BY <1>2, <1>6, <1>7, <1>8, IdleTask, StatementOfRequest DEF Finish

(* Every step of verifying, editing and deleting users and of starting, stopping
   and deleting servers keeps the invariant, whatever the other requests are doing. *)
THEOREM ServerServiceKeepsIInv ==
  ASSUME IInv, NEW r \in Request, ServerServiceStart(r) \/ ServerServiceStep(r)
  PROVE  IInv'
BY SwitchVerifyProfileStep, UpdateVerifiedStep, UpdateProfileStep, SaveProfileStep,
   RemoveUserStep, DeleteUserStep, GetPeersStep, LoadPeerStep, SetPeerStep,
   PeersDoneStep, ToggleServerStep, StopServerStep, GenerateConfStep, WgStartStep,
   WgStartFailsStep, RemoveServerStep, ListClientsStep, LoadKeyStep,
   DecrementCountStep, ClientsDoneStep, DeleteServerKeyStep
DEF ServerServiceStart, ServerServiceStep

\* New rows refer to nothing and are referred to by nobody.
LEMMA CreateNewServerStep == ASSUME IInv, CreateNewServer PROVE IInv'
<1>1. PICK s \in Server : server' = server \cup {s}
  BY DEF CreateNewServer
<1>2. UNCHANGED <<profile, client, wg, req>>
  BY DEF CreateNewServer
<1>3. TypeOK'
  BY <1>1, <1>2 DEF IInv, TypeOK, DatabaseTypeOK, WireGuardTypeOK, RequestsTypeOK
<1>4. ReferentialIntegrity'
  BY <1>1, <1>2 DEF IInv, ReferentialIntegrity
<1>5. RequestsOK'
  BY <1>1, <1>2 DEF IInv, RequestsOK, LocalsOK, ReferencesHeld
<1> QED
  BY <1>3, <1>4, <1>5 DEF IInv

\* CreateUser keeps the invariant.
LEMMA CreateUserStep == ASSUME IInv, CreateUser PROVE IInv'
<1> DEFINE row == [verified |-> FALSE, key_limit |-> DefaultKeyLimit, key_count |-> 0]
<1>1. PICK u \in User : profile' = Put(profile, u, row)
  BY DEF CreateUser
<1>2. UNCHANGED <<client, server, wg, req>>
  BY DEF CreateUser
<1>3. row \in ProfileRow
  BY DatabaseAssumption DEF ProfileRow
<1> HIDE DEF row
<1>4. IsTable(profile', User, ProfileRow) /\ DOMAIN profile \subseteq DOMAIN profile'
  BY <1>1, <1>3 DEF IInv, TypeOK, DatabaseTypeOK, IsTable, Put
<1>5. TypeOK'
  BY <1>2, <1>4 DEF IInv, TypeOK, DatabaseTypeOK, WireGuardTypeOK, RequestsTypeOK
<1>6. ReferentialIntegrity'
  BY <1>2, <1>4 DEF IInv, ReferentialIntegrity
<1>7. RequestsOK'
  BY <1>2, <1>4 DEF IInv, RequestsOK, LocalsOK, ReferencesHeld
<1> QED
  BY <1>5, <1>6, <1>7 DEF IInv

-----------------------------------------------------------------------------
\* Crashes, and the whole system

\* Reboot keeps the invariant.
LEMMA RebootStep == ASSUME IInv, Reboot PROVE IInv'
<1>1. req' = [q \in Request |-> Idle] /\ UNCHANGED db /\ wg' = << >>
  BY DEF Reboot
<1>2. TypeOK'
  BY <1>1, IdleTask DEF IInv, TypeOK, DatabaseTypeOK, WireGuardTypeOK, RequestsTypeOK, db
<1>3. ReferentialIntegrity'
  BY <1>1 DEF IInv, ReferentialIntegrity, db
<1>4. RequestsOK'
  BY <1>1, IdleTask DEF RequestsOK, LocalsOK, ReferencesHeld
<1> QED
  BY <1>2, <1>3, <1>4 DEF IInv

\* Stutter keeps the invariant.
LEMMA StutterStep == ASSUME IInv, UNCHANGED vars PROVE IInv'
<1>1. TypeOK'
  BY DEF IInv, TypeOK, DatabaseTypeOK, WireGuardTypeOK, RequestsTypeOK, vars
<1>2. ReferentialIntegrity' /\ RequestsOK'
  BY DEF IInv, ReferentialIntegrity, RequestsOK, LocalsOK, ReferencesHeld, vars
<1> QED
  BY <1>1, <1>2 DEF IInv

\* Every step of the system keeps the invariant, failures and reboots included.
THEOREM NextKeepsIInv == IInv /\ [Next]_vars => IInv'
<1> SUFFICES ASSUME IInv, [Next]_vars PROVE IInv'
  OBVIOUS
<1>1. ASSUME NEW r \in Request, Start(r) PROVE IInv'
  BY <1>1, ClientServiceKeepsIInv, ServerServiceKeepsIInv DEF Start
<1>2. ASSUME NEW r \in Request, Progress(r) PROVE IInv'
  BY <1>2, ClientServiceKeepsIInv, ServerServiceKeepsIInv, FailStep
  DEF Progress, LockWaitTimeout
<1>3. ASSUME NEW r \in Request, Crash(r) PROVE IInv'
  BY <1>3, FailStep DEF Crash
<1> QED
  BY <1>1, <1>2, <1>3, CreateNewServerStep, CreateUserStep, RebootStep, StutterStep
  DEF Next

\* The invariant holds of every behaviour, for any number of users, keys,
\* servers and threads, with and without crashes.
THEOREM Invariance == Spec => []IInv
  BY InitIInv, NextKeepsIInv, PTL DEF Spec

(* The tables, the peers of every interface and the local variables of every
   request keep their types: no step of any interleaving of the handlers takes
   key_count below zero or writes a row with a part that is missing. *)
THEOREM TypeCorrect == Spec => []TypeOK
<1>1. IInv => TypeOK
  BY DEF IInv
<1> QED
  BY <1>1, Invariance, PTL

(* No interleaving of creating clients with deleting users and servers leaves a
   client row that refers to a user or server that has no row. *)
THEOREM ReferencesKept == Spec => []ReferentialIntegrity
<1>1. IInv => ReferentialIntegrity
  BY DEF IInv
<1> QED
  BY <1>1, Invariance, PTL

(* A handler runs its statements and scripts only on what it has loaded, and
   the user and server of a client being saved stay until the commit. *)
THEOREM HandlersHoldReferences == Spec => []RequestsOK
<1>1. IInv => RequestsOK
  BY DEF IInv
<1> QED
  BY <1>1, Invariance, PTL

-----------------------------------------------------------------------------
\* What handlers know of clients while others create and delete them

Held(r) == {req[r].key} \cup req[r].todo

\* Statements and scripts between which a client may await request r.
AwaitingAt == {"addWGPeer", "getPeers", "loadPeer", "setPeer", "deleteUser"}

OperationOK(r) ==
  /\ req[r].op = "none" => req[r].at = "idle"
  /\ req[r].op = "deleteuser" =>
       req[r].at \in {"getPeers", "loadPeer", "setPeer", "deleteUser"}

\* The key of a client that is being created is in no row and no other handler.
NewKeyOK(r) ==
  req[r].at \in {"allocateIpAddress", "saveClient", "commitClient"} =>
    /\ req[r].key \notin DOMAIN client
    /\ \A q \in Request \ {r} : req[r].key \notin Held(q)

\* A client that is to be connected or disconnected, if it is still there, is of
\* the user and the server that were read, and a client whose peer is removed is gone.
LoadedOK(r) ==
  LET t == req[r] IN
  /\ t.at = "removeWGPeer" => t.key \notin DOMAIN client
  /\ t.at \in {"loadPeer", "setPeer"} =>
       \A k \in t.todo \cap DOMAIN client : client[k].user = t.user
  /\ t.at = "setPeer" /\ t.key \in DOMAIN client => client[t.key].user = t.user
  /\ t.at \in {"addWGPeer", "setPeer"} /\ t.key \in DOMAIN client =>
       client[t.key].server \in {t.server, None}

KeysApart == \A r \in Request : OperationOK(r) /\ NewKeyOK(r) /\ LoadedOK(r)

\* What a step of request r has to establish.
Kept(r) == KeysApart' /\ \A k \in LeftOut' \ LeftOut : Drops(r, k)

\* A step of r leaves the handlers of the others alone.
Alone(r) == \A q \in Request \ {r} : req'[q] = req[q]

\* Clients are deleted or lose their peer, and nothing else.
RowsShrink ==
  /\ DOMAIN client' \subseteq DOMAIN client
  /\ \A k \in DOMAIN client' : /\ client'[k].user = client[k].user
                               /\ client'[k].server \in {client[k].server, None}

LEMMA ApartStep ==
  ASSUME IInv, KeysApart, NEW r \in Request, Alone(r), RowsShrink,
         Held(r)' \subseteq {None} \cup Held(r) \cup DOMAIN client,
         OperationOK(r)', NewKeyOK(r)', LoadedOK(r)'
  PROVE  KeysApart'
<1> SUFFICES ASSUME NEW q \in Request \ {r}
             PROVE  OperationOK(q)' /\ NewKeyOK(q)' /\ LoadedOK(q)'
  BY DEF KeysApart
<1>1. req'[q] = req[q] /\ OperationOK(q) /\ NewKeyOK(q) /\ LoadedOK(q)
  BY DEF Alone, KeysApart
<1>2. OperationOK(q)'
  BY <1>1 DEF OperationOK
<1>3. NewKeyOK(q)'
  <2> SUFFICES ASSUME req[q].at \in {"allocateIpAddress", "saveClient", "commitClient"}
               PROVE  /\ req[q].key \notin DOMAIN client'
                      /\ \A p \in Request \ {q} : req[q].key \notin Held(p)'
    BY <1>1 DEF NewKeyOK
  <2>1. /\ req[q].key \notin DOMAIN client
        /\ \A p \in Request \ {q} : req[q].key \notin Held(p)
    BY <1>1 DEF NewKeyOK
  <2>2. req[q].key # None
    BY TaskOfRequest, DatabaseAssumption DEF LocalsOK
  <2>3. \A p \in Request \ {r} : Held(p)' = Held(p)
    BY DEF Alone, Held
  <2> QED
    BY <2>1, <2>2, <2>3 DEF RowsShrink
<1>4. LoadedOK(q)'
  BY <1>1 DEF LoadedOK, RowsShrink
<1> QED
  BY <1>2, <1>3, <1>4

LEMMA RowsStay == ASSUME IInv, client' = client PROVE RowsShrink
BY DEF RowsShrink

\* A handler that waits for nothing and holds no key of a client to be.
LEMMA HoldsNothing ==
  ASSUME NEW r \in Request,
         req'[r].at \notin {"allocateIpAddress", "saveClient", "commitClient", "addWGPeer",
                            "removeWGPeer", "loadPeer", "setPeer"}
  PROVE  NewKeyOK(r)' /\ LoadedOK(r)'
BY DEF NewKeyOK, LoadedOK

LEMMA LeftOutMeaning ==
  ASSUME NEW k
  PROVE  k \in LeftOut <=> /\ k \in DOMAIN client
                           /\ client[k].server \in DOMAIN wg
                           /\ profile[client[k].user].verified
                           /\ k \notin DOMAIN wg[client[k].server]
                           /\ \A r \in Request : ~Awaits(req[r], k)
BY DEF LeftOut, Served

LEMMA LeftOutNext ==
  ASSUME NEW k
  PROVE  k \in LeftOut' <=> /\ k \in DOMAIN client'
                            /\ client'[k].server \in DOMAIN wg'
                            /\ profile'[client'[k].user].verified
                            /\ k \notin DOMAIN wg'[client'[k].server]
                            /\ \A r \in Request : ~Awaits(req[r], k)'
BY DEF LeftOut, Served

\* A client that is left out after a step of r, and was to be served before, was
\* connected before or awaited r.
LEMMA WasLeftOut ==
  ASSUME NEW r \in Request, Alone(r), NEW k \in LeftOut', k \in DOMAIN client,
         client'[k].user = client[k].user, client'[k].server = client[k].server,
         profile[client[k].user].verified,
         client[k].server \in DOMAIN wg, k \notin DOMAIN wg[client[k].server],
         ~Awaits(req[r], k)
  PROVE  k \in LeftOut
<1>1. \A q \in Request \ {r} : ~Awaits(req[q], k)
  BY LeftOutNext DEF Alone, Awaits
<1> QED
  BY <1>1, LeftOutMeaning

\* Clients that come to be left out while tables and interfaces stay awaited r.
LEMMA AwaitedIt ==
  ASSUME NEW r \in Request, Alone(r), UNCHANGED <<db, wg>>, NEW k \in LeftOut' \ LeftOut
  PROVE  Awaits(req[r], k) /\ ~Awaits(req[r], k)'
<1>1. client' = client /\ profile' = profile /\ wg' = wg
  BY DEF db
<1> QED
  BY <1>1, WasLeftOut, LeftOutNext

LEMMA AwaitsAt ==
  ASSUME NEW r \in Request, OperationOK(r), req[r].at \notin AwaitingAt, NEW k
  PROVE  ~Awaits(req[r], k)
BY DEF OperationOK, AwaitingAt, Awaits

\* A step of r that only goes on, from a statement no client awaits to one that holds none.
LEMMA UnawaitedStep ==
  ASSUME IInv, KeysApart, NEW r \in Request, Alone(r), UNCHANGED <<db, wg>>,
         req[r].at \notin AwaitingAt, OperationOK(r)', NewKeyOK(r)', LoadedOK(r)',
         Held(r)' \subseteq {None} \cup Held(r) \cup DOMAIN client
  PROVE  Kept(r)
<1>1. KeysApart'
  BY ApartStep, RowsStay DEF db
<1>2. LeftOut' \ LeftOut = {}
  BY AwaitedIt, AwaitsAt DEF KeysApart
<1> QED
  BY <1>1, <1>2 DEF Kept

\* A thread whose handler has ended.
LEMMA Finished ==
  ASSUME IInv, NEW r \in Request, Finish(r)
  PROVE  /\ Alone(r)
         /\ req'[r] = Idle
         /\ OperationOK(r)' /\ NewKeyOK(r)' /\ LoadedOK(r)'
         /\ Held(r)' = {None}
         /\ \A k : ~Awaits(req[r], k)'
<1>1. Alone(r) /\ req'[r] = Idle
  BY DEF Finish, Alone, IInv, TypeOK, RequestsTypeOK
<1>2. Idle.op = "none" /\ Idle.at = "idle" /\ Idle.key = None /\ Idle.todo = {}
  BY DEF Idle
<1> QED
  BY <1>1, <1>2 DEF OperationOK, NewKeyOK, LoadedOK, Held, Awaits

\* A handler that ends before any client awaits it.
LEMMA QuietFinish ==
  ASSUME IInv, KeysApart, NEW r \in Request, Finish(r), UNCHANGED <<db, wg>>,
         req[r].at \notin AwaitingAt
  PROVE  Kept(r)
BY Finished, UnawaitedStep

-----------------------------------------------------------------------------
\* Steps no client awaits

\* A request that begins: its thread had none.
LEMMA Begins ==
  ASSUME IInv, KeysApart, NEW r \in Request, NEW op, CanBegin(r, op),
         NEW t, req' = [req EXCEPT ![r] = t]
  PROVE  /\ req[r].at \notin AwaitingAt
         /\ Alone(r)
         /\ req'[r] = t
<1>1. req[r].op = "none" /\ OperationOK(r)
  BY DEF CanBegin, KeysApart
<1>2. Alone(r) /\ req'[r] = t
  BY DEF Alone, IInv, TypeOK, RequestsTypeOK
<1> QED
  BY <1>1, <1>2 DEF OperationOK, AwaitingAt

LEMMA RaceNewKey ==
  ASSUME IInv, KeysApart, NEW r \in Request, NewKey(r) PROVE Kept(r)
<1>1. PICK u \in DOMAIN profile, s \in server, k \in FreshKeys :
        req' = [req EXCEPT ![r] = [Idle EXCEPT !.op = "newkey",
                  !.at = "allocateIpAddress", !.user = u, !.server = s, !.key = k]]
  BY DEF NewKey
<1> DEFINE t == [Idle EXCEPT !.op = "newkey", !.at = "allocateIpAddress",
                             !.user = u, !.server = s, !.key = k]
<1>2. req[r].at \notin AwaitingAt /\ Alone(r) /\ req'[r] = t
  BY <1>1, Begins DEF NewKey
<1>3. t.op = "newkey" /\ t.at = "allocateIpAddress" /\ t.key = k /\ t.todo = {}
  BY DEF Idle
<1> HIDE DEF t
<1>4. k \notin DOMAIN client /\ \A q \in Request : k \notin Held(q)
  BY DEF FreshKeys, Held
<1>5. UNCHANGED <<db, wg>> /\ client' = client
  BY DEF NewKey, db
<1>6. KeysApart'
  <2>1. ASSUME NEW q \in Request \ {r}
        PROVE  OperationOK(q)' /\ NewKeyOK(q)' /\ LoadedOK(q)'
    <3>1. req'[q] = req[q] /\ OperationOK(q) /\ NewKeyOK(q) /\ LoadedOK(q)
      BY <1>2 DEF Alone, KeysApart
    <3>2. NewKeyOK(q)'
      <4>1. \A p \in Request \ {r} : Held(p)' = Held(p)
        BY <1>2 DEF Alone, Held
      <4>2. req[q].key # k
        BY <1>4 DEF Held
      <4>3. Held(r)' = {k}
        BY <1>2, <1>3 DEF Held
      <4> QED
        BY <1>5, <3>1, <4>1, <4>2, <4>3 DEF NewKeyOK
    <3> QED
      BY <1>5, <3>1, <3>2 DEF OperationOK, LoadedOK
  <2>2. OperationOK(r)' /\ LoadedOK(r)'
    BY <1>2, <1>3 DEF OperationOK, LoadedOK
  <2>3. NewKeyOK(r)'
    BY <1>2, <1>3, <1>4, <1>5 DEF NewKeyOK, Alone, Held
  <2> QED
    BY <2>1, <2>2, <2>3 DEF KeysApart
<1>7. LeftOut' \ LeftOut = {}
  BY <1>2, <1>5, AwaitedIt, AwaitsAt DEF KeysApart
<1> QED
  BY <1>6, <1>7 DEF Kept

\* The statements of createNewClient before its commit: the key stays its own.
LEMMA RaceCreating ==
  ASSUME IInv, KeysApart, NEW r \in Request, Alone(r), UNCHANGED <<db, wg>>,
         req[r].at \in {"allocateIpAddress", "saveClient"},
         req'[r].at \in {"saveClient", "commitClient"},
         req'[r].op = req[r].op, req'[r].key = req[r].key, req'[r].todo = req[r].todo
  PROVE  Kept(r)
<1>1. req[r].at \notin AwaitingAt
  BY DEF AwaitingAt
<1>2. OperationOK(r)' /\ LoadedOK(r)' /\ Held(r)' = Held(r)
  BY DEF KeysApart, OperationOK, LoadedOK, Held
<1>3. NewKeyOK(r)'
  <2>1. NewKeyOK(r) /\ client' = client
    BY DEF KeysApart, db
  <2>2. \A q \in Request \ {r} : Held(q)' = Held(q)
    BY DEF Alone, Held
  <2> QED
    BY <2>1, <2>2 DEF NewKeyOK
<1> QED
  BY <1>1, <1>2, <1>3, UnawaitedStep

LEMMA RaceAllocateIpAddress ==
  ASSUME IInv, KeysApart, NEW r \in Request, AllocateIpAddress(r) PROVE Kept(r)
<1>1. req[r].at = "allocateIpAddress" /\ UNCHANGED <<db, wg>>
  BY DEF AllocateIpAddress
<1>2. CASE Finish(r)
  BY <1>1, <1>2, QuietFinish DEF AwaitingAt
<1>3. CASE ~Finish(r)
  <2>1. PICK a \in HostAddress :
          req' = [req EXCEPT ![r].at = "saveClient", ![r].address = a]
    BY <1>3 DEF AllocateIpAddress
  <2>2. Alone(r) /\ req[r] \in Task
    BY <2>1 DEF Alone, IInv, TypeOK, RequestsTypeOK
  <2>3. /\ req'[r].at = "saveClient" /\ req'[r].op = req[r].op
        /\ req'[r].key = req[r].key /\ req'[r].todo = req[r].todo
    BY <2>1, <2>2 DEF Task, IInv, TypeOK, RequestsTypeOK
  <2> QED
    BY <1>1, <2>2, <2>3, RaceCreating
<1> QED
  BY <1>2, <1>3

LEMMA RaceSaveClient ==
  ASSUME IInv, KeysApart, NEW r \in Request, SaveClient(r) PROVE Kept(r)
<1>1. req' = [req EXCEPT ![r].at = "commitClient",
                         ![r].count = profile[req[r].user].key_count]
  BY DEF SaveClient
<1>2. Alone(r) /\ req[r] \in Task
  BY <1>1 DEF Alone, IInv, TypeOK, RequestsTypeOK
<1>3. /\ req'[r].at = "commitClient" /\ req'[r].op = req[r].op
      /\ req'[r].key = req[r].key /\ req'[r].todo = req[r].todo
  BY <1>1, <1>2 DEF Task, IInv, TypeOK, RequestsTypeOK
<1>4. req[r].at = "saveClient" /\ UNCHANGED <<db, wg>>
  BY DEF SaveClient
<1> QED
  BY <1>2, <1>3, <1>4, RaceCreating

LEMMA RaceSaveClientFails ==
  ASSUME IInv, KeysApart, NEW r \in Request, SaveClientFails(r) PROVE Kept(r)
BY QuietFinish DEF SaveClientFails, Fail, AwaitingAt

\* Requests that begin with what the tables say, and hold no key of a client to be.
LEMMA RaceBegins ==
  ASSUME IInv, KeysApart, NEW r \in Request, NEW op, CanBegin(r, op),
         NEW t, req' = [req EXCEPT ![r] = t], UNCHANGED <<db, wg>>,
         t.op \in Operation, t.at \in Step,
         t.op = "deleteuser" => t.at = "getPeers",
         t.at \notin {"allocateIpAddress", "saveClient", "commitClient", "addWGPeer",
                      "removeWGPeer", "loadPeer", "setPeer"},
         t.key \in {None} \cup DOMAIN client, t.todo = {}
  PROVE  Kept(r)
<1>1. req[r].at \notin AwaitingAt /\ Alone(r) /\ req'[r] = t
  BY Begins
<1>2. NewKeyOK(r)' /\ LoadedOK(r)'
  BY <1>1, HoldsNothing
<1>3. OperationOK(r)'
  BY <1>1 DEF OperationOK, Operation
<1>4. Held(r)' \subseteq {None} \cup DOMAIN client
  BY <1>1 DEF Held
<1> QED
  BY <1>1, <1>2, <1>3, <1>4, UnawaitedStep

LEMMA RaceDeleteClient ==
  ASSUME IInv, KeysApart, NEW r \in Request, DeleteClient(r) PROVE Kept(r)
<1>1. PICK k \in DOMAIN client :
        req' = [req EXCEPT ![r] = [Idle EXCEPT !.op = "deletekey",
                  !.at = "deleteKey", !.key = k, !.user = client[k].user,
                  !.server = client[k].server]]
  BY DEF DeleteClient
<1> DEFINE t == [Idle EXCEPT !.op = "deletekey", !.at = "deleteKey", !.key = k,
                             !.user = client[k].user, !.server = client[k].server]
<1>2. t.op = "deletekey" /\ t.at = "deleteKey" /\ t.key = k /\ t.todo = {}
  BY DEF Idle
<1>3. CanBegin(r, "deletekey") /\ UNCHANGED <<db, wg>> /\ req' = [req EXCEPT ![r] = t]
  BY <1>1 DEF DeleteClient
<1> HIDE DEF t
<1> QED
  BY <1>2, <1>3, RaceBegins DEF Operation, Step

LEMMA RaceSwitchVerifyProfile ==
  ASSUME IInv, KeysApart, NEW r \in Request, SwitchVerifyProfile(r) PROVE Kept(r)
<1>1. PICK u \in DOMAIN profile :
        req' = [req EXCEPT ![r] = [Idle EXCEPT !.op = "verify",
                  !.at = "updateVerified", !.user = u, !.verified = ~profile[u].verified]]
  BY DEF SwitchVerifyProfile
<1> DEFINE t == [Idle EXCEPT !.op = "verify", !.at = "updateVerified", !.user = u,
                             !.verified = ~profile[u].verified]
<1>2. t.op = "verify" /\ t.at = "updateVerified" /\ t.key = None /\ t.todo = {}
  BY DEF Idle
<1>3. CanBegin(r, "verify") /\ UNCHANGED <<db, wg>> /\ req' = [req EXCEPT ![r] = t]
  BY <1>1 DEF SwitchVerifyProfile
<1> HIDE DEF t
<1> QED
  BY <1>2, <1>3, RaceBegins DEF Operation, Step

LEMMA RaceUpdateProfile ==
  ASSUME IInv, KeysApart, NEW r \in Request, UpdateProfile(r) PROVE Kept(r)
<1>1. PICK u \in DOMAIN profile, v \in BOOLEAN, l \in KeyLimit :
        req' = [req EXCEPT ![r] = [Idle EXCEPT !.op = "settings",
                  !.at = "saveProfile", !.user = u, !.verified = v, !.limit = l,
                  !.count = profile[u].key_count]]
  BY DEF UpdateProfile
<1> DEFINE t == [Idle EXCEPT !.op = "settings", !.at = "saveProfile", !.user = u,
                   !.verified = v, !.limit = l, !.count = profile[u].key_count]
<1>2. t.op = "settings" /\ t.at = "saveProfile" /\ t.key = None /\ t.todo = {}
  BY DEF Idle
<1>3. CanBegin(r, "settings") /\ UNCHANGED <<db, wg>> /\ req' = [req EXCEPT ![r] = t]
  BY <1>1 DEF UpdateProfile
<1> HIDE DEF t
<1> QED
  BY <1>2, <1>3, RaceBegins DEF Operation, Step

LEMMA RaceRemoveUser ==
  ASSUME IInv, KeysApart, NEW r \in Request, RemoveUser(r) PROVE Kept(r)
<1>1. PICK u \in DOMAIN profile :
        req' = [req EXCEPT ![r] = [Idle EXCEPT !.op = "deleteuser",
                                     !.at = "getPeers", !.user = u]]
  BY DEF RemoveUser
<1> DEFINE t == [Idle EXCEPT !.op = "deleteuser", !.at = "getPeers", !.user = u]
<1>2. t.op = "deleteuser" /\ t.at = "getPeers" /\ t.key = None /\ t.todo = {}
  BY DEF Idle
<1>3. CanBegin(r, "deleteuser") /\ UNCHANGED <<db, wg>> /\ req' = [req EXCEPT ![r] = t]
  BY <1>1 DEF RemoveUser
<1> HIDE DEF t
<1> QED
  BY <1>2, <1>3, RaceBegins DEF Operation, Step

LEMMA RaceToggleServer ==
  ASSUME IInv, KeysApart, NEW r \in Request, ToggleServer(r) PROVE Kept(r)
<1>1. PICK s \in server :
        req' = [req EXCEPT ![r] = [Idle EXCEPT !.op = "toggle", !.server = s,
                  !.at = IF isWGserverUp(s) THEN "stopServer" ELSE "generateConf"]]
  BY DEF ToggleServer
<1> DEFINE t == [Idle EXCEPT !.op = "toggle", !.server = s,
                   !.at = IF isWGserverUp(s) THEN "stopServer" ELSE "generateConf"]
<1>2. /\ t.op = "toggle" /\ t.at \in {"stopServer", "generateConf"}
      /\ t.key = None /\ t.todo = {}
  BY DEF Idle
<1>3. CanBegin(r, "toggle") /\ UNCHANGED <<db, wg>> /\ req' = [req EXCEPT ![r] = t]
  BY <1>1 DEF ToggleServer
<1> HIDE DEF t
<1> QED
  BY <1>2, <1>3, RaceBegins DEF Operation, Step

LEMMA RaceRemoveServer ==
  ASSUME IInv, KeysApart, NEW r \in Request, RemoveServer(r) PROVE Kept(r)
<1>1. PICK s \in server :
        req' = [req EXCEPT ![r] = [Idle EXCEPT !.op = "deleteserver",
                                     !.at = "removeServer", !.server = s]]
  BY DEF RemoveServer
<1> DEFINE t == [Idle EXCEPT !.op = "deleteserver", !.at = "removeServer", !.server = s]
<1>2. t.op = "deleteserver" /\ t.at = "removeServer" /\ t.key = None /\ t.todo = {}
  BY DEF Idle
<1>3. CanBegin(r, "deleteserver") /\ UNCHANGED <<db, wg>> /\ req' = [req EXCEPT ![r] = t]
  BY <1>1 DEF RemoveServer
<1> HIDE DEF t
<1> QED
  BY <1>2, <1>3, RaceBegins DEF Operation, Step

\* Requests that go on, and hold no key of a client to be.
LEMMA RaceGoesOn ==
  ASSUME IInv, KeysApart, NEW r \in Request, Alone(r), UNCHANGED <<db, wg>>,
         req[r].at \notin AwaitingAt, req[r].at # "idle", req'[r].op = req[r].op,
         req'[r].at \notin {"allocateIpAddress", "saveClient", "commitClient",
                            "addWGPeer", "removeWGPeer", "loadPeer", "setPeer"},
         Held(r)' \subseteq {None} \cup Held(r) \cup DOMAIN client
  PROVE  Kept(r)
<1>1. OperationOK(r)'
  BY DEF KeysApart, OperationOK, AwaitingAt
<1> QED
  BY <1>1, HoldsNothing, UnawaitedStep

LEMMA RaceDeleteKey ==
  ASSUME IInv, KeysApart, NEW r \in Request, DeleteKey(r) PROVE Kept(r)
<1> DEFINE u == req[r].user
           n == IF req[r].counts[u] = Unwritten THEN profile[u].key_count
                                                ELSE req[r].counts[u]
<1>1. req[r].at = "deleteKey" /\ UNCHANGED <<db, wg>>
  BY DEF DeleteKey
<1>2. CASE u \notin DOMAIN profile
  BY <1>1, <1>2, QuietFinish DEF DeleteKey, AwaitingAt
<1>3. CASE u \in DOMAIN profile
  <2>1. req' = [req EXCEPT ![r].at = "decrementCount", ![r].gone = @ \cup {req[r].key},
                           ![r].count = n]
    BY <1>3 DEF DeleteKey
  <2> HIDE DEF n
  <2>2. Alone(r) /\ req[r] \in Task
    BY <2>1 DEF Alone, IInv, TypeOK, RequestsTypeOK
  <2>3. /\ req'[r].at = "decrementCount" /\ req'[r].op = req[r].op
        /\ req'[r].key = req[r].key /\ req'[r].todo = req[r].todo
    BY <2>1, <2>2 DEF Task, IInv, TypeOK, RequestsTypeOK
  <2>4. Held(r)' = Held(r)
    BY <2>3 DEF Held
  <2> QED
    BY <1>1, <2>2, <2>3, <2>4, RaceGoesOn DEF AwaitingAt
<1> QED
  BY <1>2, <1>3

LEMMA RaceGenerateConf ==
  ASSUME IInv, KeysApart, NEW r \in Request, GenerateConf(r) PROVE Kept(r)
<1> DEFINE conf == {<<k, client[k].ip_address>> :
                      k \in getVerifiedPeersFromServer(req[r].server)}
<1>1. req[r].at = "generateConf" /\ UNCHANGED <<db, wg>>
  BY DEF GenerateConf
<1>2. CASE req[r].server \notin server
  BY <1>1, <1>2, QuietFinish DEF GenerateConf, AwaitingAt
<1>3. CASE req[r].server \in server
  <2>1. req' = [req EXCEPT ![r].at = "wgStart", ![r].conf = conf]
    BY <1>3 DEF GenerateConf
  <2> HIDE DEF conf
  <2>2. Alone(r) /\ req[r] \in Task
    BY <2>1 DEF Alone, IInv, TypeOK, RequestsTypeOK
  <2>3. /\ req'[r].at = "wgStart" /\ req'[r].op = req[r].op
        /\ req'[r].key = req[r].key /\ req'[r].todo = req[r].todo
    BY <2>1, <2>2 DEF Task, IInv, TypeOK, RequestsTypeOK
  <2>4. Held(r)' = Held(r)
    BY <2>3 DEF Held
  <2> QED
    BY <1>1, <2>2, <2>3, <2>4, RaceGoesOn DEF AwaitingAt
<1> QED
  BY <1>2, <1>3

LEMMA RaceLoadKey ==
  ASSUME IInv, KeysApart, NEW r \in Request, LoadKey(r) PROVE Kept(r)
<1>1. req[r].at = "loadKey" /\ UNCHANGED <<db, wg>>
  BY DEF LoadKey
<1>2. CASE Finish(r)
  BY <1>1, <1>2, QuietFinish DEF AwaitingAt
<1>3. CASE ~Finish(r)
  <2>1. PICK k \in req[r].todo :
          /\ k \in DOMAIN client
          /\ req' = [req EXCEPT ![r].at = "deleteKey", ![r].todo = @ \ {k},
                                ![r].key = k, ![r].user = client[k].user]
    BY <1>3 DEF LoadKey
  <2>2. Alone(r) /\ req[r] \in Task
    BY <2>1 DEF Alone, IInv, TypeOK, RequestsTypeOK
  <2>3. /\ req'[r].at = "deleteKey" /\ req'[r].op = req[r].op
        /\ req'[r].key = k /\ req'[r].todo = req[r].todo \ {k}
    BY <2>1, <2>2 DEF Task, IInv, TypeOK, RequestsTypeOK
  <2>4. Held(r)' \subseteq Held(r)
    BY <2>3 DEF Held
  <2> QED
    BY <1>1, <2>2, <2>3, <2>4, RaceGoesOn DEF AwaitingAt
<1> QED
  BY <1>2, <1>3

LEMMA RaceDecrementCount ==
  ASSUME IInv, KeysApart, NEW r \in Request, DecrementCount(r) PROVE Kept(r)
<1>1. req[r].at = "decrementCount" /\ UNCHANGED <<db, wg>>
  BY DEF DecrementCount
<1>2. CASE Finish(r)
  BY <1>1, <1>2, QuietFinish DEF AwaitingAt
<1>3. CASE ~Finish(r)
  <2> DEFINE n == req[r].count - 1
             u == req[r].user
  <2>1. req' = [req EXCEPT ![r].at = "loadKey", ![r].key = None, ![r].user = None,
                           ![r].count = 0, ![r].counts[u] = n]
    BY <1>3 DEF DecrementCount
  <2> HIDE DEF n, u
  <2>2. Alone(r) /\ req[r] \in Task
    BY <2>1 DEF Alone, IInv, TypeOK, RequestsTypeOK
  <2>3. /\ req'[r].at = "loadKey" /\ req'[r].op = req[r].op
        /\ req'[r].key = None /\ req'[r].todo = req[r].todo
    BY <2>1, <2>2 DEF Task, IInv, TypeOK, RequestsTypeOK
  <2>4. Held(r)' \subseteq {None} \cup Held(r)
    BY <2>3 DEF Held
  <2> QED
    BY <1>1, <2>2, <2>3, <2>4, RaceGoesOn DEF AwaitingAt
<1> QED
  BY <1>2, <1>3

LEMMA RaceClientsDone ==
  ASSUME IInv, KeysApart, NEW r \in Request, ClientsDone(r) PROVE Kept(r)
<1>1. /\ req[r].at = "loadKey" /\ UNCHANGED <<db, wg>>
      /\ req' = [req EXCEPT ![r].at = "deleteServerKey"]
  BY DEF ClientsDone
<1>2. Alone(r) /\ req[r] \in Task
  BY <1>1 DEF Alone, IInv, TypeOK, RequestsTypeOK
<1>3. /\ req'[r].at = "deleteServerKey" /\ req'[r].op = req[r].op
      /\ req'[r].key = req[r].key /\ req'[r].todo = req[r].todo
  BY <1>1, <1>2 DEF Task, IInv, TypeOK, RequestsTypeOK
<1>4. Held(r)' = Held(r)
  BY <1>3 DEF Held
<1> QED
  BY <1>1, <1>2, <1>3, <1>4, RaceGoesOn DEF AwaitingAt

-----------------------------------------------------------------------------
\* The loop over the peers of a user

\* An interface that is up has a name, so that its clients have a server.
LEMMA ServerOfLeftOut ==
  ASSUME IInv', NEW k \in LeftOut'
  PROVE  client'[k].server # None
BY LeftOutNext, DatabaseAssumption DEF IInv, TypeOK, WireGuardTypeOK

LEMMA RaceGetPeers ==
  ASSUME IInv, KeysApart, NEW r \in Request, GetPeers(r) PROVE Kept(r)
<1> DEFINE todo == getByUser(req[r].user)
<1>1. /\ req[r].at = "getPeers" /\ UNCHANGED <<db, wg>>
      /\ req' = [req EXCEPT ![r].at = "loadPeer", ![r].todo = todo]
  BY DEF GetPeers
<1>2. \A k : k \in todo <=> /\ k \in DOMAIN client /\ client[k].user = req[r].user
                            /\ client[k].server # None
  BY DEF getByUser, KeysOf
<1> HIDE DEF todo
<1>3. Alone(r) /\ req[r] \in Task
  BY <1>1 DEF Alone, IInv, TypeOK, RequestsTypeOK
<1>4. /\ req'[r].at = "loadPeer" /\ req'[r].op = req[r].op /\ req'[r].todo = todo
      /\ req'[r].key = req[r].key /\ req'[r].user = req[r].user
      /\ req'[r].verified = req[r].verified
  BY <1>1, <1>3 DEF Task, IInv, TypeOK, RequestsTypeOK
<1>5. client' = client
  BY <1>1 DEF db
<1>6. OperationOK(r)' /\ NewKeyOK(r)' /\ LoadedOK(r)'
  BY <1>1, <1>2, <1>4, <1>5 DEF KeysApart, OperationOK, NewKeyOK, LoadedOK
<1>7. Held(r)' \subseteq Held(r) \cup DOMAIN client
  BY <1>2, <1>4 DEF Held
<1>8. KeysApart'
  BY <1>3, <1>5, <1>6, <1>7, ApartStep, RowsStay
<1>9. ASSUME NEW k \in LeftOut' \ LeftOut PROVE FALSE
  <2>1. Awaits(req[r], k) /\ ~Awaits(req[r], k)'
    BY <1>1, <1>3, AwaitedIt
  <2>2. k \in DOMAIN client /\ client[k].server # None
    BY <1>5, GetPeersStep, ServerOfLeftOut, LeftOutNext
  <2> QED
    BY <1>1, <1>2, <1>4, <1>5, <2>1, <2>2 DEF Awaits
<1> QED
  BY <1>8, <1>9 DEF Kept

LEMMA RaceLoadPeer ==
  ASSUME IInv, KeysApart, NEW r \in Request, LoadPeer(r) PROVE Kept(r)
<1>1. req[r].at = "loadPeer" /\ UNCHANGED <<db, wg>>
  BY DEF LoadPeer
<1>2. PICK p \in req[r].todo :
        req' = IF p \in getByUser(req[r].user)
               THEN [req EXCEPT ![r].at = "setPeer", ![r].todo = RemainingPeers(r, p),
                                ![r].key = p, ![r].server = client[p].server,
                                ![r].address = client[p].ip_address]
               ELSE [req EXCEPT ![r].todo = RemainingPeers(r, p)]
  BY DEF LoadPeer
<1>3. RemainingPeers(r, p) = req[r].todo \ {p}
  BY DEF RemainingPeers
<1>4. p \in getByUser(req[r].user) <=> /\ p \in DOMAIN client
                                       /\ client[p].user = req[r].user
                                       /\ client[p].server # None
  BY DEF getByUser, KeysOf
<1>5. Alone(r) /\ req[r] \in Task
  BY <1>2 DEF Alone, IInv, TypeOK, RequestsTypeOK
<1>6. client' = client
  BY <1>1 DEF db
<1>7. LoadedOK(r) /\ OperationOK(r)
  BY DEF KeysApart
<1>8. CASE p \in getByUser(req[r].user)
  <2>1. /\ req'[r].at = "setPeer" /\ req'[r].op = req[r].op
        /\ req'[r].todo = req[r].todo \ {p} /\ req'[r].key = p
        /\ req'[r].user = req[r].user /\ req'[r].verified = req[r].verified
        /\ req'[r].server = client[p].server
    BY <1>2, <1>3, <1>5, <1>8 DEF Task, IInv, TypeOK, RequestsTypeOK
  <2>2. OperationOK(r)' /\ NewKeyOK(r)' /\ LoadedOK(r)'
    BY <1>1, <1>4, <1>6, <1>7, <1>8, <2>1 DEF OperationOK, NewKeyOK, LoadedOK
  <2>3. Held(r)' \subseteq Held(r)
    BY <2>1 DEF Held
  <2>4. KeysApart'
    BY <1>5, <1>6, <2>2, <2>3, ApartStep, RowsStay
  <2>5. ASSUME NEW k \in LeftOut' \ LeftOut PROVE FALSE
    <3>1. Awaits(req[r], k) /\ ~Awaits(req[r], k)'
      BY <1>1, <1>5, AwaitedIt
    <3> QED
      BY <1>1, <1>6, <2>1, <3>1 DEF Awaits
  <2> QED
    BY <2>4, <2>5 DEF Kept
<1>9. CASE p \notin getByUser(req[r].user)
  <2>1. /\ req'[r].at = "loadPeer" /\ req'[r].op = req[r].op
        /\ req'[r].todo = req[r].todo \ {p} /\ req'[r].key = req[r].key
        /\ req'[r].user = req[r].user /\ req'[r].verified = req[r].verified
    BY <1>1, <1>2, <1>3, <1>5, <1>9 DEF Task, IInv, TypeOK, RequestsTypeOK
  <2>2. OperationOK(r)' /\ NewKeyOK(r)' /\ LoadedOK(r)'
    BY <1>1, <1>6, <1>7, <2>1 DEF OperationOK, NewKeyOK, LoadedOK
  <2>3. Held(r)' \subseteq Held(r)
    BY <2>1 DEF Held
  <2>4. KeysApart'
    BY <1>5, <1>6, <2>2, <2>3, ApartStep, RowsStay
  <2>5. ASSUME NEW k \in LeftOut' \ LeftOut PROVE FALSE
    <3>1. Awaits(req[r], k) /\ ~Awaits(req[r], k)'
      BY <1>1, <1>5, AwaitedIt
    <3>2. k = p
      BY <1>1, <1>6, <2>1, <3>1 DEF Awaits
    <3>3. k \in DOMAIN client /\ client[k].server # None
      BY <1>6, LoadPeerStep, ServerOfLeftOut, LeftOutNext
    <3> QED
      BY <1>1, <1>4, <1>7, <1>9, <3>2, <3>3 DEF LoadedOK
  <2> QED
    BY <2>4, <2>5 DEF Kept
<1> QED
  BY <1>8, <1>9

LEMMA RacePeersDone ==
  ASSUME IInv, KeysApart, NEW r \in Request, PeersDone(r) PROVE Kept(r)
<1>1. req[r].at = "loadPeer" /\ req[r].todo = {} /\ UNCHANGED <<db, wg>>
  BY DEF PeersDone
<1>2. client' = client
  BY <1>1 DEF db
<1>3. CASE req[r].op = "deleteuser"
  <2>1. req' = [req EXCEPT ![r].at = "deleteUser"]
    BY <1>3 DEF PeersDone
  <2>2. Alone(r) /\ req[r] \in Task
    BY <2>1 DEF Alone, IInv, TypeOK, RequestsTypeOK
  <2>3. /\ req'[r].at = "deleteUser" /\ req'[r].op = req[r].op
        /\ req'[r].key = req[r].key /\ req'[r].todo = req[r].todo
        /\ req'[r].user = req[r].user
    BY <2>1, <2>2 DEF Task, IInv, TypeOK, RequestsTypeOK
  <2>4. OperationOK(r)' /\ NewKeyOK(r)' /\ LoadedOK(r)' /\ Held(r)' = Held(r)
    BY <1>3, <2>3 DEF OperationOK, NewKeyOK, LoadedOK, Held
  <2>5. KeysApart'
    BY <1>2, <2>2, <2>4, ApartStep, RowsStay
  <2>6. ASSUME NEW k \in LeftOut' \ LeftOut PROVE FALSE
    <3>1. Awaits(req[r], k) /\ ~Awaits(req[r], k)'
      BY <1>1, <2>2, AwaitedIt
    <3> QED
      BY <1>1, <1>2, <1>3, <2>3, <3>1 DEF Awaits
  <2> QED
    BY <2>5, <2>6 DEF Kept
<1>4. CASE req[r].op # "deleteuser"
  <2>1. Finish(r)
    BY <1>4 DEF PeersDone
  <2>2. KeysApart'
    BY <1>2, <2>1, Finished, ApartStep, RowsStay
  <2>3. LeftOut' \ LeftOut = {}
    BY <1>1, <1>4, <2>1, Finished, AwaitedIt DEF Awaits
  <2> QED
    BY <2>2, <2>3 DEF Kept
<1> QED
  BY <1>3, <1>4

-----------------------------------------------------------------------------
\* Handlers that raise, or whose thread is killed

LEMMA RaceLockWaitTimeout ==
  ASSUME IInv, KeysApart, NEW r \in Request, LockWaitTimeout(r) PROVE Kept(r)
<1>1. Finish(r) /\ UNCHANGED <<db, wg>> /\ Blocked(r)
  BY DEF LockWaitTimeout, Fail
<1>2. KeysApart'
  BY <1>1, Finished, ApartStep, RowsStay DEF db
<1>3. ASSUME NEW k \in LeftOut' \ LeftOut PROVE Drops(r, k)
  <2>1. Awaits(req[r], k)
    BY <1>1, Finished, AwaitedIt
  <2>2. req[r].op = "deleteuser" /\ client[k].user = req[r].user
    BY <1>1, <2>1 DEF Awaits, Blocked
  <2> QED
    BY <2>2 DEF Drops
<1> QED
  BY <1>2, <1>3 DEF Kept

LEMMA RaceCrash ==
  ASSUME IInv, KeysApart, NEW r \in Request, Crash(r) PROVE Kept(r)
<1>1. Finish(r) /\ UNCHANGED <<db, wg>>
  BY DEF Crash, Fail
<1>2. KeysApart'
  BY <1>1, Finished, ApartStep, RowsStay DEF db
<1>3. ASSUME NEW k \in LeftOut' \ LeftOut PROVE Drops(r, k)
  BY <1>1, Finished, AwaitedIt DEF Drops
<1> QED
  BY <1>2, <1>3 DEF Kept

-----------------------------------------------------------------------------
\* Scripts

\* A client that comes to be left out by a script of r, which it did not await, had
\* its interface down or was a peer of it.
LEMMA LostByScript ==
  ASSUME NEW r \in Request, Alone(r), UNCHANGED db, NEW k \in LeftOut' \ LeftOut,
         ~Awaits(req[r], k)
  PROVE  /\ k \in DOMAIN client
         /\ profile[client[k].user].verified
         /\ client[k].server \in DOMAIN wg'
         /\ k \notin DOMAIN wg'[client[k].server]
         /\ client[k].server \in DOMAIN wg => k \in DOMAIN wg[client[k].server]
<1>1. client' = client /\ profile' = profile
  BY DEF db
<1> QED
  BY <1>1, WasLeftOut, LeftOutNext

\* wg set ... remove takes one peer of one interface.
LEMMA RemoveTakes ==
  ASSUME WireGuardTypeOK, NEW s, NEW k, removeWGPeer(s, k)
  PROVE  /\ DOMAIN wg' = DOMAIN wg
         /\ \A z \in DOMAIN wg : \A j \in DOMAIN wg[z] :
              j \notin DOMAIN wg'[z] => z = s /\ j = k
<1>1. CASE s \in DOMAIN wg
  <2>1. DOMAIN Delete(wg[s], {k}) = DOMAIN wg[s] \ {k}
    BY DEF Delete, Restrict
  <2> QED
    BY <1>1, <2>1 DEF removeWGPeer, isWGserverUp
<1>2. CASE s \notin DOMAIN wg
  BY <1>2 DEF removeWGPeer, isWGserverUp
<1> QED
  BY <1>1, <1>2

\* wg set takes none, and brings the peer it is about.
LEMMA AddTakesNone ==
  ASSUME WireGuardTypeOK, NEW s, NEW k, NEW a, addWGPeer(s, k, a)
  PROVE  /\ DOMAIN wg' = DOMAIN wg
         /\ \A z \in DOMAIN wg : DOMAIN wg[z] \subseteq DOMAIN wg'[z]
         /\ s \in DOMAIN wg => k \in DOMAIN wg'[s]
<1>1. CASE s \in DOMAIN wg
  BY <1>1 DEF addWGPeer, isWGserverUp, Allow
<1>2. CASE s \notin DOMAIN wg
  BY <1>2 DEF addWGPeer, isWGserverUp
<1> QED
  BY <1>1, <1>2

LEMMA RaceAddWGPeer ==
  ASSUME IInv, KeysApart, NEW r \in Request, AddWGPeer(r) PROVE Kept(r)
<1>1. /\ req[r].at = "addWGPeer" /\ Finish(r) /\ UNCHANGED db /\ client' = client
      /\ addWGPeer(req[r].server, req[r].key, req[r].address)
  BY DEF AddWGPeer, db
<1>2. KeysApart'
  BY <1>1, Finished, ApartStep, RowsStay
<1>3. /\ DOMAIN wg' = DOMAIN wg
      /\ \A z \in DOMAIN wg : DOMAIN wg[z] \subseteq DOMAIN wg'[z]
      /\ req[r].server \in DOMAIN wg => req[r].key \in DOMAIN wg'[req[r].server]
  BY <1>1, AddTakesNone DEF IInv, TypeOK
<1>4. ASSUME NEW k \in LeftOut' \ LeftOut PROVE FALSE
  <2>1. Awaits(req[r], k)
    BY <1>1, <1>3, Finished, LostByScript
  <2>2. k = req[r].key
    BY <1>1, <2>1 DEF Awaits, KeysApart, OperationOK
  <2>3. /\ k \in DOMAIN client /\ client[k].server \in DOMAIN wg'
        /\ k \notin DOMAIN wg'[client[k].server] /\ client[k].server # None
    BY <1>1, AddWGPeerStep, LeftOutNext, ServerOfLeftOut
  <2>4. client[k].server = req[r].server
    BY <1>1, <2>2, <2>3 DEF KeysApart, LoadedOK
  <2> QED
    BY <1>3, <2>2, <2>3, <2>4
<1> QED
  BY <1>2, <1>4 DEF Kept

LEMMA RaceRemoveWGPeer ==
  ASSUME IInv, KeysApart, NEW r \in Request, RemoveWGPeer(r) PROVE Kept(r)
<1>1. /\ req[r].at = "removeWGPeer" /\ Finish(r) /\ UNCHANGED db /\ client' = client
      /\ UNCHANGED wg \/ removeWGPeer(req[r].server, req[r].key)
  BY DEF RemoveWGPeer, db
<1>2. KeysApart'
  BY <1>1, Finished, ApartStep, RowsStay
<1>3. ASSUME NEW k \in LeftOut' \ LeftOut PROVE FALSE
  <2>1. ~Awaits(req[r], k)
    BY <1>1, AwaitsAt DEF KeysApart, AwaitingAt
  <2>2. /\ k \in DOMAIN client /\ client[k].server \in DOMAIN wg'
        /\ k \notin DOMAIN wg'[client[k].server]
        /\ client[k].server \in DOMAIN wg => k \in DOMAIN wg[client[k].server]
    BY <1>1, <2>1, Finished, LostByScript
  <2>3. CASE UNCHANGED wg
    BY <2>2, <2>3
  <2>4. CASE removeWGPeer(req[r].server, req[r].key)
    <3>1. k = req[r].key
      BY <2>2, <2>4, RemoveTakes DEF IInv, TypeOK
    <3> QED
      BY <1>1, <2>2, <3>1 DEF KeysApart, LoadedOK
  <2> QED
    BY <1>1, <2>3, <2>4
<1> QED
  BY <1>2, <1>3 DEF Kept

\* A client that is disconnected with a user who is to be deleted still awaits the
\* deletion; one of another user comes to be left out only if the user is verified.
LEMMA RaceSetPeer ==
  ASSUME IInv, KeysApart, NEW r \in Request, SetPeer(r) PROVE Kept(r)
<1>1. /\ req[r].at = "setPeer" /\ UNCHANGED db /\ client' = client
      /\ req' = [req EXCEPT ![r].at = "loadPeer", ![r].key = None, ![r].server = None,
                            ![r].address = NoAddress]
      /\ IF req[r].verified THEN addWGPeer(req[r].server, req[r].key, req[r].address)
                            ELSE removeWGPeer(req[r].server, req[r].key)
  BY DEF SetPeer, db
<1>2. Alone(r) /\ req[r] \in Task
  BY <1>1 DEF Alone, IInv, TypeOK, RequestsTypeOK
<1>3. /\ req'[r].at = "loadPeer" /\ req'[r].op = req[r].op
      /\ req'[r].key = None /\ req'[r].todo = req[r].todo
      /\ req'[r].user = req[r].user /\ req'[r].verified = req[r].verified
  BY <1>1, <1>2 DEF Task, IInv, TypeOK, RequestsTypeOK
<1>4. OperationOK(r) /\ LoadedOK(r)
  BY DEF KeysApart
<1>5. OperationOK(r)' /\ NewKeyOK(r)' /\ LoadedOK(r)'
  BY <1>1, <1>3, <1>4 DEF OperationOK, NewKeyOK, LoadedOK
<1>6. Held(r)' \subseteq {None} \cup Held(r)
  BY <1>3 DEF Held
<1>7. KeysApart'
  BY <1>1, <1>2, <1>5, <1>6, ApartStep, RowsStay
<1>8. ASSUME NEW k \in LeftOut' \ LeftOut PROVE Drops(r, k)
  <2>1. /\ k \in DOMAIN client /\ client[k].server \in DOMAIN wg'
        /\ k \notin DOMAIN wg'[client[k].server] /\ client[k].server # None
        /\ ~Awaits(req[r], k)'
    BY <1>1, SetPeerStep, LeftOutNext, ServerOfLeftOut
  <2>2. Awaits(req[r], k) => req[r].verified /\ k = req[r].key
    BY <1>1, <1>3, <2>1 DEF Awaits
  <2>3. CASE req[r].verified
    <3>1. /\ DOMAIN wg' = DOMAIN wg
          /\ \A z \in DOMAIN wg : DOMAIN wg[z] \subseteq DOMAIN wg'[z]
          /\ req[r].server \in DOMAIN wg => req[r].key \in DOMAIN wg'[req[r].server]
      BY <1>1, <2>3, AddTakesNone DEF IInv, TypeOK
    <3>2. k = req[r].key
      BY <1>1, <1>2, <2>2, <3>1, LostByScript
    <3>3. client[k].server = req[r].server
      BY <1>1, <1>4, <2>1, <3>2 DEF LoadedOK
    <3> QED
      BY <2>1, <3>1, <3>2, <3>3
  <2>4. CASE ~req[r].verified
    <3>1. ~Awaits(req[r], k)
      BY <2>2, <2>4
    <3>2. /\ profile[client[k].user].verified
          /\ client[k].server \in DOMAIN wg => k \in DOMAIN wg[client[k].server]
      BY <1>1, <1>2, <3>1, LostByScript
    <3>3. removeWGPeer(req[r].server, req[r].key)
      BY <1>1, <2>4
    <3>4. k = req[r].key
      BY <2>1, <3>2, <3>3, RemoveTakes DEF IInv, TypeOK
    <3>5. req[r].op # "deleteuser"
      BY <1>1, <1>4, <2>1, <3>1, <3>4 DEF LoadedOK, Awaits
    <3> QED
      BY <2>4, <3>2, <3>4, <3>5 DEF Drops
  <2> QED
    BY <2>3, <2>4
<1> QED
  BY <1>7, <1>8 DEF Kept

\* Of an interface that is stopped nobody is left out.
LEMMA Stopped ==
  ASSUME NEW r \in Request, Alone(r), UNCHANGED db, NEW s, stopWGserver(s),
         \A k : ~Awaits(req[r], k)
  PROVE  LeftOut' \ LeftOut = {}
<1> SUFFICES ASSUME NEW k \in LeftOut' \ LeftOut PROVE FALSE
  OBVIOUS
<1>1. DOMAIN wg' = DOMAIN wg \ {s} /\ \A z \in DOMAIN wg' : wg'[z] = wg[z]
  BY DEF stopWGserver, Delete, Restrict
<1> QED
  BY <1>1, LostByScript

LEMMA RaceStops ==
  ASSUME IInv, KeysApart, NEW r \in Request, Finish(r), UNCHANGED db,
         req[r].at \notin AwaitingAt, NEW s, stopWGserver(s)
  PROVE  Kept(r)
<1>1. KeysApart'
  BY Finished, ApartStep, RowsStay DEF db
<1>2. \A k : ~Awaits(req[r], k)
  BY AwaitsAt DEF KeysApart
<1>3. LeftOut' \ LeftOut = {}
  BY <1>2, Finished, Stopped
<1> QED
  BY <1>1, <1>3 DEF Kept

LEMMA RaceStopServer ==
  ASSUME IInv, KeysApart, NEW r \in Request, StopServer(r) \/ WgStartFails(r)
  PROVE  Kept(r)
BY RaceStops DEF StopServer, WgStartFails, AwaitingAt

LEMMA RaceListClients ==
  ASSUME IInv, KeysApart, NEW r \in Request, ListClients(r) PROVE Kept(r)
<1> DEFINE todo == getClientInterfacesFromServer(req[r].server)
<1>1. req[r].at = "removeServer" /\ stopWGserver(req[r].server) /\ UNCHANGED db
  BY DEF ListClients
<1>2. CASE req[r].server \notin server
  BY <1>1, <1>2, RaceStops DEF ListClients, AwaitingAt
<1>3. CASE req[r].server \in server
  <2>1. req' = [req EXCEPT ![r].at = "loadKey", ![r].todo = todo]
    BY <1>3 DEF ListClients
  <2>2. todo \subseteq DOMAIN client
    BY DEF getClientInterfacesFromServer
  <2> HIDE DEF todo
  <2>3. Alone(r) /\ req[r] \in Task
    BY <2>1 DEF Alone, IInv, TypeOK, RequestsTypeOK
  <2>4. /\ req'[r].at = "loadKey" /\ req'[r].op = req[r].op
        /\ req'[r].key = req[r].key /\ req'[r].todo = todo
    BY <2>1, <2>3 DEF Task, IInv, TypeOK, RequestsTypeOK
  <2>5. OperationOK(r)' /\ NewKeyOK(r)' /\ LoadedOK(r)'
    BY <1>1, <2>4, HoldsNothing DEF KeysApart, OperationOK
  <2>6. Held(r)' \subseteq Held(r) \cup DOMAIN client
    BY <2>2, <2>4 DEF Held
  <2>7. KeysApart'
    BY <1>1, <2>3, <2>5, <2>6, ApartStep, RowsStay DEF db
  <2>8. \A k : ~Awaits(req[r], k)
    BY <1>1, AwaitsAt DEF KeysApart, AwaitingAt
  <2>9. LeftOut' \ LeftOut = {}
    BY <1>1, <2>3, <2>8, Stopped
  <2> QED
    BY <2>7, <2>9 DEF Kept
<1> QED
  BY <1>2, <1>3

LEMMA RaceWgStart ==
  ASSUME IInv, KeysApart, NEW r \in Request, WgStart(r) PROVE Kept(r)
<1>1. /\ req[r].at = "wgStart" /\ Finish(r) /\ UNCHANGED db /\ client' = client
      /\ restartWGserver(req[r].server, req[r].conf)
  BY DEF WgStart, db
<1>2. KeysApart'
  BY <1>1, Finished, ApartStep, RowsStay
<1>3. ASSUME NEW k \in LeftOut' \ LeftOut PROVE Drops(r, k)
  <2>1. ~Awaits(req[r], k)
    BY <1>1, AwaitsAt DEF KeysApart, AwaitingAt
  <2>2. /\ profile[client[k].user].verified
        /\ client[k].server \in DOMAIN wg'
        /\ k \notin DOMAIN wg'[client[k].server]
        /\ client[k].server \in DOMAIN wg => k \in DOMAIN wg[client[k].server]
    BY <1>1, <2>1, Finished, LostByScript
  <2>3. ~isWGserverUp(req[r].server)
    BY <1>1, <2>2 DEF restartWGserver
  <2>4. PICK peers \in Loaded(req[r].conf) : wg' = Put(wg, req[r].server, peers)
    BY <1>1, <2>3 DEF restartWGserver
  <2>5. DOMAIN peers = {c[1] : c \in req[r].conf}
    BY DEF Loaded
  <2>6. /\ DOMAIN wg' = DOMAIN wg \cup {req[r].server}
        /\ wg'[req[r].server] = peers
        /\ \A z \in DOMAIN wg : z # req[r].server => wg'[z] = wg[z]
    BY <2>4 DEF Put
  <2>7. client[k].server = req[r].server
    BY <2>2, <2>6
  <2> QED
    BY <2>2, <2>3, <2>5, <2>6, <2>7 DEF Drops
<1> QED
  BY <1>2, <1>3 DEF Kept

-----------------------------------------------------------------------------
\* Statements that write the tables

(* The commit is when others may first read the new client: no handler has its key, and
   its own has still to connect it. *)
LEMMA RaceCommitClient ==
  ASSUME IInv, KeysApart, NEW r \in Request, CommitClient(r) PROVE Kept(r)
<1> DEFINE row == [user |-> req[r].user, ip_address |-> req[r].address,
                   server |-> req[r].server]
<1>1. /\ req[r].at = "commitClient" /\ UNCHANGED wg
      /\ client' = Put(client, req[r].key, row)
      /\ profile' = [profile EXCEPT ![req[r].user].key_count = req[r].count + 1]
      /\ req' = [req EXCEPT ![r].at = "addWGPeer"]
  BY DEF CommitClient, saveClient
<1>2. Alone(r) /\ req[r] \in Task
  BY <1>1 DEF Alone, IInv, TypeOK, RequestsTypeOK
<1>3. /\ req'[r].at = "addWGPeer" /\ req'[r].op = req[r].op
      /\ req'[r].key = req[r].key /\ req'[r].todo = req[r].todo
      /\ req'[r].server = req[r].server
  BY <1>1, <1>2 DEF Task, IInv, TypeOK, RequestsTypeOK
<1>4. row.server = req[r].server
  OBVIOUS
<1> HIDE DEF row
<1>5. /\ DOMAIN client' = DOMAIN client \cup {req[r].key}
      /\ client'[req[r].key] = row
      /\ \A k \in DOMAIN client : k # req[r].key => client'[k] = client[k]
  BY <1>1 DEF Put
<1>6. /\ req[r].key \notin DOMAIN client
      /\ \A q \in Request \ {r} : req[r].key \notin Held(q)
  BY <1>1 DEF KeysApart, NewKeyOK
<1>7. KeysApart'
  <2>1. ASSUME NEW q \in Request \ {r}
        PROVE  OperationOK(q)' /\ NewKeyOK(q)' /\ LoadedOK(q)'
    <3>1. req'[q] = req[q] /\ OperationOK(q) /\ NewKeyOK(q) /\ LoadedOK(q)
      BY <1>2 DEF Alone, KeysApart
    <3>2. req[q].key # req[r].key /\ req[r].key \notin req[q].todo
      BY <1>6 DEF Held
    <3>3. NewKeyOK(q)'
      <4>1. \A p \in Request : Held(p)' = Held(p)
        BY <1>2, <1>3 DEF Alone, Held
      <4> QED
        BY <1>5, <3>1, <3>2, <4>1 DEF NewKeyOK
    <3>4. LoadedOK(q)'
      BY <1>5, <3>1, <3>2 DEF LoadedOK
    <3> QED
      BY <3>1, <3>3, <3>4 DEF OperationOK
  <2>2. OperationOK(r)'
    BY <1>1, <1>3 DEF KeysApart, OperationOK
  <2>3. NewKeyOK(r)' /\ LoadedOK(r)'
    BY <1>3, <1>4, <1>5 DEF NewKeyOK, LoadedOK
  <2> QED
    BY <2>1, <2>2, <2>3 DEF KeysApart
<1>8. ASSUME NEW k \in LeftOut' \ LeftOut PROVE FALSE
  <2>1. /\ k \in DOMAIN client' /\ ~Awaits(req[r], k)'
        /\ profile'[client'[k].user].verified
        /\ client'[k].server \in DOMAIN wg' /\ k \notin DOMAIN wg'[client'[k].server]
    BY LeftOutNext
  <2>2. k # req[r].key
    BY <1>3, <2>1 DEF Awaits
  <2>3. k \in DOMAIN client /\ client'[k] = client[k]
    BY <1>5, <2>1, <2>2
  <2>4. profile[client[k].user].verified
    <3>1. client[k].user \in DOMAIN profile
      BY <2>3 DEF IInv, ReferentialIntegrity
    <3>2. profile[client[k].user] \in ProfileRow
      BY <3>1 DEF IInv, TypeOK, DatabaseTypeOK, IsTable
    <3>3. profile'[client[k].user].verified = profile[client[k].user].verified
      BY <1>1, <3>1, <3>2 DEF ProfileRow
    <3> QED
      BY <2>1, <2>3, <3>3
  <2>5. ~Awaits(req[r], k)
    BY <1>1, AwaitsAt DEF KeysApart, AwaitingAt
  <2> QED
    BY <1>1, <1>2, <2>1, <2>3, <2>4, <2>5, WasLeftOut
<1> QED
  BY <1>7, <1>8 DEF Kept

LEMMA RaceCommitDeleteClient ==
  ASSUME IInv, KeysApart, NEW r \in Request, CommitDeleteClient(r) PROVE Kept(r)
<1>1. req[r].at = "decrementCount" /\ req[r].op = "deletekey"
  BY DEF CommitDeleteClient
<1>2. CASE ~CanDecrement(r)
  BY <1>1, <1>2, QuietFinish DEF CommitDeleteClient, Fail, AwaitingAt
<1>3. CASE CanDecrement(r)
  <2> DEFINE u == req[r].user
             n == req[r].count - 1
  <2>1. /\ client' = Delete(client, {req[r].key}) /\ UNCHANGED wg
        /\ profile' = [profile EXCEPT ![u].key_count = n]
        /\ req' = [req EXCEPT ![r].at = "removeWGPeer", ![r].gone = {}]
    BY <1>3 DEF CommitDeleteClient, deleteClient
  <2> HIDE DEF u, n
  <2>2. Alone(r) /\ req[r] \in Task
    BY <2>1 DEF Alone, IInv, TypeOK, RequestsTypeOK
  <2>3. /\ req'[r].at = "removeWGPeer" /\ req'[r].op = req[r].op
        /\ req'[r].key = req[r].key /\ req'[r].todo = req[r].todo
    BY <2>1, <2>2 DEF Task, IInv, TypeOK, RequestsTypeOK
  <2>4. /\ DOMAIN client' = DOMAIN client \ {req[r].key}
        /\ \A k \in DOMAIN client' : client'[k] = client[k]
    BY <2>1 DEF Delete, Restrict
  <2>5. RowsShrink
    BY <2>4 DEF RowsShrink
  <2>6. OperationOK(r)' /\ NewKeyOK(r)' /\ LoadedOK(r)' /\ Held(r)' = Held(r)
    BY <1>1, <2>3, <2>4 DEF OperationOK, NewKeyOK, LoadedOK, Held
  <2>7. KeysApart'
    BY <2>2, <2>5, <2>6, ApartStep
  <2>8. ASSUME NEW k \in LeftOut' \ LeftOut PROVE FALSE
    <3>1. /\ k \in DOMAIN client /\ client'[k] = client[k]
          /\ profile'[client[k].user].verified
          /\ client[k].server \in DOMAIN wg /\ k \notin DOMAIN wg[client[k].server]
      BY <2>1, <2>4, LeftOutNext
    <3>2. profile[client[k].user].verified
      <4>1. client[k].user \in DOMAIN profile
        BY <3>1 DEF IInv, ReferentialIntegrity
      <4>2. profile[client[k].user] \in ProfileRow
        BY <4>1 DEF IInv, TypeOK, DatabaseTypeOK, IsTable
      <4> QED
        BY <2>1, <3>1, <4>1, <4>2 DEF ProfileRow
    <3>3. ~Awaits(req[r], k)
      BY <1>1, AwaitsAt DEF KeysApart, AwaitingAt
    <3> QED
      BY <2>2, <3>1, <3>2, <3>3, WasLeftOut
  <2> QED
    BY <2>7, <2>8 DEF Kept
<1> QED
  BY <1>2, <1>3

\* verified is written, and the handler has then to see to every client of the user.
LEMMA VerifiedWritten ==
  ASSUME IInv, KeysApart, NEW r \in Request, Alone(r), UNCHANGED <<client, wg>>,
         req[r].at \in {"updateVerified", "saveProfile"}, req'[r].at = "getPeers",
         req'[r].op = req[r].op, req'[r].key = req[r].key, req'[r].todo = req[r].todo,
         req'[r].user = req[r].user, req'[r].verified = req[r].verified,
         profile'[req[r].user].verified = req[r].verified,
         \A u \in DOMAIN profile : u # req[r].user => profile'[u] = profile[u]
  PROVE  Kept(r)
<1>1. OperationOK(r)'
  BY DEF KeysApart, OperationOK
<1>2. NewKeyOK(r)' /\ LoadedOK(r)'
  BY HoldsNothing
<1>3. Held(r)' = Held(r)
  BY DEF Held
<1>4. KeysApart'
  BY <1>1, <1>2, <1>3, ApartStep, RowsStay
<1>5. ASSUME NEW k \in LeftOut' \ LeftOut PROVE FALSE
  <2>1. /\ k \in DOMAIN client /\ profile'[client[k].user].verified
        /\ client[k].server \in DOMAIN wg /\ k \notin DOMAIN wg[client[k].server]
        /\ ~Awaits(req[r], k)'
    BY LeftOutNext
  <2>2. client[k].user # req[r].user
    BY <2>1 DEF Awaits
  <2>3. client[k].user \in DOMAIN profile
    BY <2>1 DEF IInv, ReferentialIntegrity
  <2>4. profile[client[k].user].verified
    BY <2>1, <2>2, <2>3
  <2>5. ~Awaits(req[r], k)
    BY AwaitsAt DEF KeysApart, AwaitingAt
  <2> QED
    BY <2>1, <2>4, <2>5, WasLeftOut
<1> QED
  BY <1>4, <1>5 DEF Kept

LEMMA RaceUpdateVerified ==
  ASSUME IInv, KeysApart, NEW r \in Request, UpdateVerified(r) PROVE Kept(r)
<1>1. req[r].at = "updateVerified"
  BY DEF UpdateVerified
<1>2. CASE req[r].user \notin DOMAIN profile
  BY <1>1, <1>2, QuietFinish DEF UpdateVerified, Fail, AwaitingAt
<1>3. CASE req[r].user \in DOMAIN profile
  <2>1. /\ profile' = [profile EXCEPT ![req[r].user].verified = req[r].verified]
        /\ req' = [req EXCEPT ![r].at = "getPeers"]
        /\ UNCHANGED <<client, wg>>
    BY <1>3 DEF UpdateVerified
  <2>2. Alone(r) /\ req[r] \in Task
    BY <2>1 DEF Alone, IInv, TypeOK, RequestsTypeOK
  <2>3. /\ req'[r].at = "getPeers" /\ req'[r].op = req[r].op
        /\ req'[r].key = req[r].key /\ req'[r].todo = req[r].todo
        /\ req'[r].user = req[r].user /\ req'[r].verified = req[r].verified
    BY <2>1, <2>2 DEF Task, IInv, TypeOK, RequestsTypeOK
  <2>4. profile[req[r].user] \in ProfileRow
    BY <1>3 DEF IInv, TypeOK, DatabaseTypeOK, IsTable
  <2>5. /\ profile'[req[r].user].verified = req[r].verified
        /\ \A u \in DOMAIN profile : u # req[r].user => profile'[u] = profile[u]
    BY <1>3, <2>1, <2>4 DEF ProfileRow
  <2> QED
    BY <1>1, <2>1, <2>2, <2>3, <2>5, VerifiedWritten
<1> QED
  BY <1>2, <1>3

LEMMA RaceSaveProfile ==
  ASSUME IInv, KeysApart, NEW r \in Request, SaveProfile(r) PROVE Kept(r)
<1> DEFINE row == [verified |-> req[r].verified, key_limit |-> req[r].limit,
                   key_count |-> req[r].count]
<1>1. /\ req[r].at = "saveProfile"
      /\ profile' = Put(profile, req[r].user, row)
      /\ req' = [req EXCEPT ![r].at = "getPeers"]
      /\ UNCHANGED <<client, wg>>
  BY DEF SaveProfile
<1>2. row.verified = req[r].verified
  OBVIOUS
<1> HIDE DEF row
<1>3. Alone(r) /\ req[r] \in Task
  BY <1>1 DEF Alone, IInv, TypeOK, RequestsTypeOK
<1>4. /\ req'[r].at = "getPeers" /\ req'[r].op = req[r].op
      /\ req'[r].key = req[r].key /\ req'[r].todo = req[r].todo
      /\ req'[r].user = req[r].user /\ req'[r].verified = req[r].verified
  BY <1>1, <1>3 DEF Task, IInv, TypeOK, RequestsTypeOK
<1>5. /\ profile'[req[r].user] = row
      /\ \A u \in DOMAIN profile : u # req[r].user => profile'[u] = profile[u]
  BY <1>1 DEF Put
<1> QED
  BY <1>1, <1>2, <1>3, <1>4, <1>5, VerifiedWritten

LEMMA RaceDeleteUser ==
  ASSUME IInv, KeysApart, NEW r \in Request, DeleteUser(r) PROVE Kept(r)
<1>1. /\ req[r].at = "deleteUser" /\ Finish(r) /\ UNCHANGED wg
      /\ profile' = Delete(profile, {req[r].user})
      /\ client' = Delete(client, KeysOf(req[r].user))
  BY DEF DeleteUser, deleteUser
<1>2. /\ DOMAIN client' = {k \in DOMAIN client : client[k].user # req[r].user}
      /\ \A k \in DOMAIN client' : client'[k] = client[k]
  BY <1>1 DEF Delete, Restrict, KeysOf
<1>3. \A u \in DOMAIN profile : u # req[r].user => profile'[u] = profile[u]
  BY <1>1 DEF Delete, Restrict
<1>4. KeysApart'
  BY <1>1, <1>2, Finished, ApartStep DEF RowsShrink
<1>5. ASSUME NEW k \in LeftOut' \ LeftOut PROVE FALSE
  <2>1. /\ k \in DOMAIN client /\ client'[k] = client[k]
        /\ client[k].user # req[r].user
        /\ profile'[client[k].user].verified
        /\ client[k].server \in DOMAIN wg /\ k \notin DOMAIN wg[client[k].server]
    BY <1>1, <1>2, LeftOutNext
  <2>2. client[k].user \in DOMAIN profile
    BY <2>1 DEF IInv, ReferentialIntegrity
  <2>3. profile[client[k].user].verified
    BY <1>3, <2>1, <2>2
  <2>4. ~Awaits(req[r], k)
    BY <1>1, <2>1 DEF Awaits
  <2> QED
    BY <1>1, <2>1, <2>3, <2>4, Finished, WasLeftOut
<1> QED
  BY <1>4, <1>5 DEF Kept

\* A client that loses its server has no interface left that could leave it out.
LEMMA RaceDeleteServerKey ==
  ASSUME IInv, KeysApart, NEW r \in Request, DeleteServerKey(r) PROVE Kept(r)
<1> DEFINE s == req[r].server
           gone == req[r].gone
           counts == req[r].counts
<1>1. /\ client' = [k \in DOMAIN client \ gone |->
                      IF client[k].server = s THEN [client[k] EXCEPT !.server = None]
                                              ELSE client[k]]
      /\ profile' = [u \in DOMAIN profile |->
                       IF counts[u] = Unwritten THEN profile[u]
                       ELSE [profile[u] EXCEPT !.key_count = counts[u]]]
      /\ UNCHANGED wg /\ Finish(r) /\ req[r].at = "deleteServerKey"
  BY DEF DeleteServerKey, deleteServer
<1> HIDE DEF s, gone, counts
<1>2. \A k \in DOMAIN client : client[k] \in ClientRow
  BY DEF IInv, TypeOK, DatabaseTypeOK, IsTable
<1>3. /\ DOMAIN client' \subseteq DOMAIN client
      /\ \A k \in DOMAIN client' : /\ client'[k].user = client[k].user
                                   /\ client'[k].server \in {client[k].server, None}
  BY <1>1, <1>2 DEF ClientRow
<1>4. KeysApart'
  BY <1>1, <1>3, Finished, ApartStep DEF RowsShrink
<1>5. ASSUME NEW k \in LeftOut' \ LeftOut PROVE FALSE
  <2>1. /\ k \in DOMAIN client /\ client'[k].user = client[k].user
        /\ client'[k].server = client[k].server
        /\ profile'[client[k].user].verified
        /\ client[k].server \in DOMAIN wg /\ k \notin DOMAIN wg[client[k].server]
    BY <1>1, <1>3, DeleteServerKeyStep, ServerOfLeftOut, LeftOutNext
  <2>2. profile[client[k].user].verified
    <3>1. client[k].user \in DOMAIN profile
      BY <2>1 DEF IInv, ReferentialIntegrity
    <3>2. profile[client[k].user] \in ProfileRow
      BY <3>1 DEF IInv, TypeOK, DatabaseTypeOK, IsTable
    <3> QED
      BY <1>1, <2>1, <3>1, <3>2 DEF ProfileRow
  <2>3. ~Awaits(req[r], k)
    BY <1>1, AwaitsAt DEF KeysApart, AwaitingAt
  <2> QED
    BY <1>1, <2>1, <2>2, <2>3, Finished, WasLeftOut
<1> QED
  BY <1>4, <1>5 DEF Kept

-----------------------------------------------------------------------------
\* The whole system

\* While handlers, clients and interfaces stay, and so does who is verified among the
\* owners of clients, nobody comes to be left out.
LEMMA HandlersStay ==
  ASSUME KeysApart, UNCHANGED <<client, wg, req>>,
         \A k \in DOMAIN client :
           profile'[client[k].user].verified => profile[client[k].user].verified
  PROVE  KeysApart' /\ LeftOut' \subseteq LeftOut
<1>1. KeysApart'
  BY DEF KeysApart, OperationOK, NewKeyOK, LoadedOK, Held
<1>2. ASSUME NEW k \in LeftOut' PROVE k \in LeftOut
  <2>1. \A r \in Request : ~Awaits(req[r], k)
    BY LeftOutNext DEF Awaits
  <2> QED
    BY <2>1, LeftOutNext, LeftOutMeaning
<1> QED
  BY <1>1, <1>2

LEMMA RaceCreateUser ==
  ASSUME IInv, KeysApart, CreateUser PROVE KeysApart' /\ LeftOut' \subseteq LeftOut
<1> DEFINE row == [verified |-> FALSE, key_limit |-> DefaultKeyLimit, key_count |-> 0]
<1>1. PICK u \in User \ DOMAIN profile : profile' = Put(profile, u, row)
  BY DEF CreateUser
<1> HIDE DEF row
<1>2. \A v \in DOMAIN profile : profile'[v] = profile[v]
  BY <1>1 DEF Put
<1>3. UNCHANGED <<client, wg, req>>
  BY DEF CreateUser
<1> QED
  BY <1>2, <1>3, HandlersStay DEF IInv, ReferentialIntegrity

LEMMA RaceReboot ==
  ASSUME IInv, KeysApart, Reboot PROVE KeysApart' /\ LeftOut' \subseteq LeftOut
<1>1. wg' = << >> /\ req' = [r \in Request |-> Idle]
  BY DEF Reboot
<1>2. DOMAIN wg' = {}
  BY <1>1
<1>3. LeftOut' = {}
  BY <1>2, LeftOutNext
<1>4. Idle.op = "none" /\ Idle.at = "idle"
  BY DEF Idle
<1>5. KeysApart'
  BY <1>1, <1>4 DEF KeysApart, OperationOK, NewKeyOK, LoadedOK
<1> QED
  BY <1>3, <1>5

LEMMA RaceInit == Init => KeysApart /\ LeftOut = {}
<1> SUFFICES ASSUME Init PROVE KeysApart /\ LeftOut = {}
  OBVIOUS
<1>1. client = << >> /\ req = [r \in Request |-> Idle]
  BY DEF Init, DatabaseInit, RequestsInit
<1>2. Idle.op = "none" /\ Idle.at = "idle"
  BY DEF Idle
<1>3. LeftOut = {}
  BY <1>1, LeftOutMeaning
<1>4. KeysApart
  BY <1>1, <1>2 DEF KeysApart, OperationOK, NewKeyOK, LoadedOK
<1> QED
  BY <1>3, <1>4

LEMMA RaceNext ==
  IInv /\ KeysApart /\ [Next]_vars =>
    /\ KeysApart'
    /\ \A k \in LeftOut' \ LeftOut : \E r \in Request : Drops(r, k)
<1> SUFFICES ASSUME IInv, KeysApart, [Next]_vars
             PROVE  /\ KeysApart'
                    /\ \A k \in LeftOut' \ LeftOut : \E r \in Request : Drops(r, k)
  OBVIOUS
<1>1. ASSUME NEW r \in Request, Start(r) \/ Progress(r) \/ Crash(r) PROVE Kept(r)
  <2>1. CASE ClientServiceStart(r)
    BY <2>1, RaceNewKey, RaceDeleteClient DEF ClientServiceStart
  <2>2. CASE ServerServiceStart(r)
    BY <2>2, RaceSwitchVerifyProfile, RaceUpdateProfile, RaceRemoveUser,
       RaceToggleServer, RaceRemoveServer
    DEF ServerServiceStart
  <2>3. CASE ClientServiceStep(r)
    BY <2>3, RaceAllocateIpAddress, RaceSaveClient, RaceSaveClientFails,
       RaceCommitClient, RaceAddWGPeer, RaceDeleteKey, RaceCommitDeleteClient,
       RaceRemoveWGPeer
    DEF ClientServiceStep
  <2>4. CASE ServerServiceStep(r)
    BY <2>4, RaceUpdateVerified, RaceSaveProfile, RaceDeleteUser, RaceGetPeers,
       RaceLoadPeer, RaceSetPeer, RacePeersDone, RaceStopServer, RaceGenerateConf,
       RaceWgStart, RaceListClients, RaceLoadKey, RaceDecrementCount,
       RaceClientsDone, RaceDeleteServerKey
    DEF ServerServiceStep
  <2> QED
    BY <1>1, <2>1, <2>2, <2>3, <2>4, RaceLockWaitTimeout, RaceCrash
    DEF Start, Progress
<1>2. CASE CreateNewServer
  BY <1>2, HandlersStay DEF CreateNewServer
<1>3. CASE CreateUser
  BY <1>3, RaceCreateUser
<1>4. CASE Reboot
  BY <1>4, RaceReboot
<1>5. CASE UNCHANGED vars
  BY <1>5, HandlersStay DEF vars
<1> QED
  BY <1>1, <1>2, <1>3, <1>4, <1>5 DEF Next, Kept

(* What a handler has read of a client stays true until it acts on it, or the client is
   gone or has lost its server, and the key of a client that is being created is nobody
   else's, however many requests overlap. *)
THEOREM HandlersKeepApart == Spec => []KeysApart
<1>1. Init => IInv /\ KeysApart
  BY InitIInv, RaceInit
<1>2. IInv /\ KeysApart /\ [Next]_vars => (IInv /\ KeysApart)'
  BY NextKeepsIInv, RaceNext
<1> QED
  BY <1>1, <1>2, PTL DEF Spec

(* In every interleaving of any number of requests, a client of a verified user comes to
   miss its peer only by one of the four steps of Drops: a raced disconnection, a raced
   start, a deletion of a user that times out, or a killed thread. *)
THEOREM OnlyRacesLeaveOut == Spec => LeftOutOnlyByRace
<1>1. IInv /\ KeysApart /\ [Next]_vars =>
        [\A k \in LeftOut' \ LeftOut : \E r \in Request : Drops(r, k)]_vars
  BY RaceNext
<1> QED
  BY <1>1, Invariance, HandlersKeepApart, PTL DEF Spec, LeftOutOnlyByRace

\* Nobody is left out where no request is about to see to a client.
LEMMA RestLeavesNobodyOut == KeysApart /\ LeftOut = {} => NoClientLeftOut
<1> SUFFICES ASSUME KeysApart, LeftOut = {}, AtRest,
                    NEW s \in server \cap DOMAIN wg, NEW k \in DOMAIN Served(s)
             PROVE  k \in DOMAIN wg[s]
  BY DEF NoClientLeftOut
<1>1. \A r \in Request : ~Awaits(req[r], k)
  BY DEF AtRest, KeysApart, OperationOK, Awaits
<1>2. k \in DOMAIN client /\ client[k].server = s /\ profile[client[k].user].verified
  BY DEF Served
<1> QED
  BY <1>1, <1>2, LeftOutMeaning

\* The steps of Drops change no row.
LEMMA DropsKeepsRows == ASSUME NEW r, NEW k, Drops(r, k) PROVE client' = client
BY DEF Drops, SetPeer, WgStart, LockWaitTimeout, Crash, Fail, db

(* As long as none of those four steps is taken, every client of a verified user is a
   peer of its interface whenever that is up and no request is in flight: any number of
   newkey, deletekey, deleteserver and register, verifications and starts may overlap. *)
THEOREM NobodyLeftOut ==
  Spec /\ [][\A r \in Request, k \in DOMAIN client : ~Drops(r, k)]_vars
    => []NoClientLeftOut
<1>1. IInv /\ KeysApart /\ LeftOut = {} /\ [Next]_vars
        /\ [\A r \in Request, k \in DOMAIN client : ~Drops(r, k)]_vars
        => (LeftOut = {})'
  <2> SUFFICES ASSUME IInv, KeysApart, LeftOut = {}, [Next]_vars,
                      [\A r \in Request, k \in DOMAIN client : ~Drops(r, k)]_vars,
                      NEW k \in LeftOut'
               PROVE  FALSE
    OBVIOUS
  <2>1. PICK r \in Request : Drops(r, k)
    BY RaceNext
  <2>2. k \in DOMAIN client
    BY <2>1, DropsKeepsRows, LeftOutNext
  <2>3. CASE UNCHANGED vars
    BY <2>3, HandlersStay DEF vars
  <2> QED
    BY <2>1, <2>2, <2>3
<1> QED
  BY <1>1, RaceInit, Invariance, HandlersKeepApart, RestLeavesNobodyOut, PTL DEF Spec

=============================================================================
