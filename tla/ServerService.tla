---------------------------- MODULE ServerService ---------------------------
(***************************************************************************)
(* services/serverservice.py with its views: administrators verify users   *)
(* (verify), edit or delete them (settings, deleteuser), start and stop    *)
(* server interfaces (toggle) and delete them (deleteserver).  Accounts    *)
(* and server interfaces are created in one step.                          *)
(***************************************************************************)
EXTENDS Requests

-----------------------------------------------------------------------------
\* verify: switchVerifyProfile

SwitchVerifyProfile(r) ==
  /\ CanBegin(r, "verify")
  /\ \E u \in DOMAIN profile :
       req' = [req EXCEPT ![r] = [Idle EXCEPT !.op = "verify",
                 !.at = "updateVerified", !.user = u, !.verified = ~profile[u].verified]]
  /\ UNCHANGED <<db, wg>>

UpdateVerified(r) ==
  LET u == req[r].user IN
  /\ req[r].at = "updateVerified"
  /\ ~Blocked(r)
  /\ IF u \in DOMAIN profile
     THEN /\ profile' = [profile EXCEPT ![u].verified = req[r].verified]
          /\ req' = [req EXCEPT ![r].at = "getPeers"]
          /\ UNCHANGED <<client, server, wg>>
     ELSE Fail(r)

-----------------------------------------------------------------------------
\* settings: the update_profile form of an administrator

UpdateProfile(r) ==
  /\ CanBegin(r, "settings")
  /\ \E u \in DOMAIN profile, v \in BOOLEAN, l \in KeyLimit :
       req' = [req EXCEPT ![r] = [Idle EXCEPT !.op = "settings",
                 !.at = "saveProfile", !.user = u, !.verified = v, !.limit = l,
                 !.count = profile[u].key_count]]
  /\ UNCHANGED <<db, wg>>

\* The forms save whole rows, key_count as it was read, and insert rows that are gone.
SaveProfile(r) ==
  LET row == [verified |-> req[r].verified, key_limit |-> req[r].limit,
              key_count |-> req[r].count] IN
  /\ req[r].at = "saveProfile"
  /\ ~Blocked(r)
  /\ profile' = Put(profile, req[r].user, row)
  /\ req' = [req EXCEPT ![r].at = "getPeers"]
  /\ UNCHANGED <<client, server, wg>>

-----------------------------------------------------------------------------
\* deleteuser: removeUser

RemoveUser(r) ==
  /\ CanBegin(r, "deleteuser")
  /\ \E u \in DOMAIN profile :
       req' = [req EXCEPT ![r] = [Idle EXCEPT !.op = "deleteuser",
                 !.at = "getPeers", !.user = u]]
  /\ UNCHANGED <<db, wg>>

DeleteUser(r) ==
  /\ req[r].at = "deleteUser"
  /\ ~Blocked(r)
  /\ deleteUser(req[r].user)
  /\ Finish(r)
  /\ UNCHANGED wg

-----------------------------------------------------------------------------
\* connectUserToWg and disconnectUserFromWg, of the three requests above

GetPeers(r) ==
  /\ req[r].at = "getPeers"
  /\ req' = [req EXCEPT ![r].at = "loadPeer", ![r].todo = getByUser(req[r].user)]
  /\ UNCHANGED <<db, wg>>

retryPeer(r, k) == req[r].todo                                         \* mutant

onlyFirstPeer(r, k) == {}                                              \* mutant

RemainingPeers(r, k) == req[r].todo \ {k}

\* The rows a peer refers to are read when it is its turn; one that is gone is skipped.
LoadPeer(r) ==
  /\ req[r].at = "loadPeer"
  /\ \E k \in req[r].todo :
       req' = IF k \in getByUser(req[r].user)
              THEN [req EXCEPT ![r].at = "setPeer", ![r].todo = RemainingPeers(r, k),
                               ![r].key = k, ![r].server = client[k].server,
                               ![r].address = client[k].ip_address]
              ELSE [req EXCEPT ![r].todo = RemainingPeers(r, k)]
  /\ UNCHANGED <<db, wg>>

SetPeer(r) ==
  LET t == req[r] IN
  /\ t.at = "setPeer"
  /\ IF t.verified THEN addWGPeer(t.server, t.key, t.address)
                   ELSE removeWGPeer(t.server, t.key)
  /\ req' = [req EXCEPT ![r].at = "loadPeer", ![r].key = None, ![r].server = None,
                        ![r].address = NoAddress]
  /\ UNCHANGED db

PeersDone(r) ==
  /\ req[r].at = "loadPeer"
  /\ req[r].todo = {}
  /\ IF req[r].op = "deleteuser" THEN req' = [req EXCEPT ![r].at = "deleteUser"]
                                 ELSE Finish(r)
  /\ UNCHANGED <<db, wg>>

-----------------------------------------------------------------------------
\* toggle: startServer or stopServer, by the state the interface is in

ToggleServer(r) ==
  /\ CanBegin(r, "toggle")
  /\ \E s \in server :
       req' = [req EXCEPT ![r] = [Idle EXCEPT !.op = "toggle", !.server = s,
                 !.at = IF isWGserverUp(s) THEN "stopServer" ELSE "generateConf"]]
  /\ UNCHANGED <<db, wg>>

StopServer(r) ==
  /\ req[r].at = "stopServer"
  /\ stopWGserver(req[r].server)
  /\ Finish(r)
  /\ UNCHANGED db

\* generateServerConfText raises when the server's key is gone.
GenerateConf(r) ==
  LET s == req[r].server IN
  /\ req[r].at = "generateConf"
  /\ IF s \in server
     THEN req' = [req EXCEPT ![r].at = "wgStart",
                    ![r].conf = {<<k, client[k].ip_address>> :
                                   k \in getVerifiedPeersFromServer(s)}]
     ELSE Finish(r)
  /\ UNCHANGED <<db, wg>>

WgStart(r) ==
  /\ req[r].at = "wgStart"
  /\ restartWGserver(req[r].server, req[r].conf)
  /\ Finish(r)
  /\ UNCHANGED db

\* wg-start.bash fails, and the interface it was restarting is down.
WgStartFails(r) ==
  /\ req[r].at = "wgStart"
  /\ stopWGserver(req[r].server)
  /\ Finish(r)
  /\ UNCHANGED db

-----------------------------------------------------------------------------
\* deleteserver: removeServer

RemoveServer(r) ==
  /\ CanBegin(r, "deleteserver")
  /\ \E s \in server :
       /\ ~isWGserverUp(s)
       /\ req' = [req EXCEPT ![r] = [Idle EXCEPT !.op = "deleteserver",
                    !.at = "removeServer", !.server = s]]
  /\ UNCHANGED <<db, wg>>

\* Stops the interface, loads its key and, in the transaction, lists its clients.
ListClients(r) ==
  LET s == req[r].server IN
  /\ req[r].at = "removeServer"
  /\ stopWGserver(s)
  /\ IF s \in server
     THEN req' = [req EXCEPT ![r].at = "loadKey",
                             ![r].todo = getClientInterfacesFromServer(s)]
     ELSE Finish(r)
  /\ UNCHANGED db

\* client.interface_key is read when it is the client's turn; the transaction is
\* rolled back when it is gone.
LoadKey(r) ==
  /\ req[r].at = "loadKey"
  /\ \E k \in req[r].todo :
       IF k \in DOMAIN client
       THEN req' = [req EXCEPT ![r].at = "deleteKey", ![r].todo = @ \ {k},
                               ![r].key = k, ![r].user = client[k].user]
       ELSE Finish(r)
  /\ UNCHANGED <<db, wg>>

\* DeleteKey of ClientService comes next, then the count, still uncommitted.
DecrementCount(r) ==
  LET t == req[r] IN
  /\ t.op = "deleteserver"
  /\ t.at = "decrementCount"
  /\ ~Blocked(r)
  /\ IF t.count > 0 /\ t.user \in DOMAIN profile
     THEN req' = [req EXCEPT ![r].at = "loadKey", ![r].key = None, ![r].user = None,
                             ![r].count = 0, ![r].counts[t.user] = t.count - 1]
     ELSE Finish(r)
  /\ UNCHANGED <<db, wg>>

ClientsDone(r) ==
  /\ req[r].at = "loadKey"
  /\ req[r].todo = {}
  /\ req' = [req EXCEPT ![r].at = "deleteServerKey"]
  /\ UNCHANGED <<db, wg>>

DeleteServerKey(r) ==
  /\ req[r].at = "deleteServerKey"
  /\ ~Blocked(r)
  /\ deleteServer(req[r].server, req[r].gone, req[r].counts)
  /\ Finish(r)
  /\ UNCHANGED wg

-----------------------------------------------------------------------------
\* newserver and register: createNewServer and createUser

\* Rows get new ids: no request in flight refers to the new one.
CreateNewServer ==
  /\ "newserver" \in Operations
  /\ \E s \in Server \ (server \cup {req[r].server : r \in Request}) :
       server' = server \cup {s}
  /\ UNCHANGED <<profile, client, wg, req>>

CreateUser ==
  /\ "register" \in Operations
  /\ \E u \in User \ (DOMAIN profile \cup {req[r].user : r \in Request}) :
       profile' = Put(profile, u, [verified |-> FALSE, key_limit |-> DefaultKeyLimit,
                                   key_count |-> 0])
  /\ UNCHANGED <<client, server, wg, req>>

ServerServiceStart(r) ==
  \/ SwitchVerifyProfile(r)
  \/ UpdateProfile(r)
  \/ RemoveUser(r)
  \/ ToggleServer(r)
  \/ RemoveServer(r)

ServerServiceStep(r) ==
  \/ UpdateVerified(r)
  \/ SaveProfile(r)
  \/ DeleteUser(r)
  \/ GetPeers(r)
  \/ LoadPeer(r)
  \/ SetPeer(r)
  \/ PeersDone(r)
  \/ StopServer(r)
  \/ GenerateConf(r)
  \/ WgStart(r)
  \/ WgStartFails(r)
  \/ ListClients(r)
  \/ LoadKey(r)
  \/ DecrementCount(r)
  \/ ClientsDone(r)
  \/ DeleteServerKey(r)

=============================================================================
