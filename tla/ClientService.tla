---------------------------- MODULE ClientService ---------------------------
(***************************************************************************)
(* services/clientservice.py with its views: a user asks for a new client  *)
(* (newkey) or deletes one (deletekey).  A request the handler turns down  *)
(* before its first write leaves no trace and is not an action.            *)
(***************************************************************************)
EXTENDS Requests

-----------------------------------------------------------------------------
\* newkey: createNewClient

keyLimitPlusOne(u) ==                                                  \* mutant
  profile[u].verified /\ profile[u].key_limit >= profile[u].key_count

MayCreateKey(u) == profile[u].verified /\ profile[u].key_limit > profile[u].key_count

NewKey(r) ==
  /\ CanBegin(r, "newkey")
  /\ \E u \in DOMAIN profile, s \in server, k \in FreshKeys :
       /\ MayCreateKey(u)
       /\ req' = [req EXCEPT ![r] = [Idle EXCEPT !.op = "newkey",
                    !.at = "allocateIpAddress", !.user = u, !.server = s, !.key = k]]
  /\ UNCHANGED <<db, wg>>

AllocateIpAddress(r) ==
  /\ req[r].at = "allocateIpAddress"
  /\ IF FreeAddresses(req[r].server) = {}
     THEN Finish(r)
     ELSE \E a \in HostAddress :
            /\ allocateIpAddress(req[r].server, a)
            /\ req' = [req EXCEPT ![r].at = "saveClient", ![r].address = a]
  /\ UNCHANGED <<db, wg>>

\* The transaction inserts the rows, whose user and server must exist, and reads
\* the profile.
SaveClient(r) ==
  /\ req[r].at = "saveClient"
  /\ req[r].user \in DOMAIN profile
  /\ req[r].server \in server
  /\ req' = [req EXCEPT ![r].at = "commitClient",
                        ![r].count = profile[req[r].user].key_count]
  /\ UNCHANGED <<db, wg>>

\* An interface is named after its user and the second: a second one clashes.
InterfaceNameTaken(r) == KeysOf(req[r].user) # {}

SaveClientFails(r) ==
  /\ req[r].at = "saveClient"
  /\ \/ req[r].user \notin DOMAIN profile
     \/ req[r].server \notin server
     \/ InterfaceNameTaken(r)
  /\ Fail(r)

CommitClient(r) ==
  /\ req[r].at = "commitClient"
  /\ ~Blocked(r)
  /\ saveClient(req[r].key,
                [user |-> req[r].user, ip_address |-> req[r].address,
                 server |-> req[r].server],
                req[r].count + 1)
  /\ req' = [req EXCEPT ![r].at = "addWGPeer"]
  /\ UNCHANGED wg

AddWGPeer(r) ==
  /\ req[r].at = "addWGPeer"
  /\ addWGPeer(req[r].server, req[r].key, req[r].address)
  /\ Finish(r)
  /\ UNCHANGED db

-----------------------------------------------------------------------------
\* deletekey: removeClient

DeleteClient(r) ==
  /\ CanBegin(r, "deletekey")
  /\ \E k \in DOMAIN client :
       /\ profile[client[k].user].verified
       /\ req' = [req EXCEPT ![r] = [Idle EXCEPT !.op = "deletekey",
                    !.at = "deleteKey", !.key = k, !.user = client[k].user,
                    !.server = client[k].server]]
  /\ UNCHANGED <<db, wg>>

\* In a transaction of removeClient or of deleteServer.  The key may be gone
\* already: DELETE then matches no row and is no error.
DeleteKey(r) ==
  LET u == req[r].user IN
  /\ req[r].at = "deleteKey"
  /\ ~Blocked(r)
  /\ IF u \notin DOMAIN profile
     THEN Finish(r)
     ELSE req' = [req EXCEPT ![r].at = "decrementCount",
                    ![r].gone = @ \cup {req[r].key},
                    ![r].count = IF req[r].counts[u] = Unwritten
                                 THEN profile[u].key_count ELSE req[r].counts[u]]
  /\ UNCHANGED <<db, wg>>

anyCount(r) == req[r].user \in DOMAIN profile                          \* mutant

\* key_count is unsigned, and an update that matches no row raises.
CanDecrement(r) == req[r].count > 0 /\ req[r].user \in DOMAIN profile

CommitDeleteClient(r) ==
  /\ req[r].op = "deletekey"
  /\ req[r].at = "decrementCount"
  /\ ~Blocked(r)
  /\ IF CanDecrement(r)
     THEN /\ deleteClient(req[r].key, req[r].user, req[r].count - 1)
          /\ req' = [req EXCEPT ![r].at = "removeWGPeer", ![r].gone = {}]
          /\ UNCHANGED wg
     ELSE Fail(r)

forgetToRemovePeer(r) ==                                               \* mutant
  /\ req[r].at = "removeWGPeer"
  /\ Fail(r)

\* A client without a peer has no server interface: the handler raises.
RemoveWGPeer(r) ==
  /\ req[r].at = "removeWGPeer"
  /\ IF req[r].server = None THEN UNCHANGED wg
                             ELSE removeWGPeer(req[r].server, req[r].key)
  /\ Finish(r)
  /\ UNCHANGED db

ClientServiceStart(r) == NewKey(r) \/ DeleteClient(r)

ClientServiceStep(r) ==
  \/ AllocateIpAddress(r)
  \/ SaveClient(r)
  \/ SaveClientFails(r)
  \/ CommitClient(r)
  \/ AddWGPeer(r)
  \/ DeleteKey(r)
  \/ CommitDeleteClient(r)
  \/ RemoveWGPeer(r)

=============================================================================
