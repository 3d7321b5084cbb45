------------------------------ MODULE Requests ------------------------------
(***************************************************************************)
(* The requests the application server handles at the same time.  Each     *)
(* thread runs one handler, one database statement or script at a time,    *)
(* and keeps what it read in local variables: req[r] is where the handler  *)
(* of thread r is and what it holds.                                       *)
(*                                                                         *)
(* Statements run in autocommit mode.  Inside transaction.atomic what a    *)
(* transaction wrote is seen by itself alone until it commits, and InnoDB  *)
(* makes any other writer of the rows wait: the locks are read off req.    *)
(***************************************************************************)
EXTENDS WireGuard

CONSTANTS
  Request,      \* threads of the application server
  Operations    \* kinds of requests users make

VARIABLE req

Operation == {"newkey", "deletekey", "verify", "settings", "deleteuser",
              "toggle", "deleteserver", "newserver", "register"}

ASSUME RequestsAssumption == Operations \subseteq Operation

Step == {"idle",
         "allocateIpAddress", "saveClient", "commitClient", "addWGPeer",
         "deleteKey", "decrementCount", "removeWGPeer",
         "updateVerified", "saveProfile", "getPeers", "loadPeer", "setPeer",
         "deleteUser",
         "stopServer", "generateConf", "wgStart",
         "removeServer", "loadKey", "deleteServerKey"}

Task ==
  [op : Operation \cup {"none"}, at : Step,
   user : User \cup {None}, server : Server \cup {None}, key : Key \cup {None},
   address : AllowedIps,
   verified : BOOLEAN, limit : Nat, count : Nat,   \* a Profile instance
   todo : SUBSET Key,                              \* the rest of a query's rows
   conf : SUBSET (Key \X HostAddress),             \* a configuration's peers
   gone : SUBSET Key,                              \* keys the transaction deleted
   counts : [User -> Nat \cup {Unwritten}]]        \* key_counts it wrote

Idle ==
  [op |-> "none", at |-> "idle", user |-> None, server |-> None, key |-> None,
   address |-> NoAddress, verified |-> FALSE, limit |-> 0, count |-> 0,
   todo |-> {}, conf |-> {}, gone |-> {}, counts |-> [u \in User |-> Unwritten]]

RequestsTypeOK == req \in [Request -> Task]

RequestsInit == req = [r \in Request |-> Idle]

CanBegin(r, op) == req[r].op = "none" /\ op \in Operations

Finish(r) == req' = [req EXCEPT ![r] = Idle]

\* The handler raises: Django answers 500, and an open transaction is rolled back.
Fail(r) == Finish(r) /\ UNCHANGED <<db, wg>>

AtRest == \A r \in Request : req[r].op = "none"

\* wg genkey never returns a key twice.
FreshKeys ==
  Key \ (DOMAIN client
         \cup (UNION {DOMAIN wg[s] : s \in DOMAIN wg})
         \cup (UNION {{req[r].key} \cup req[r].todo \cup req[r].gone
                          \cup {c[1] : c \in req[r].conf} : r \in Request}))

-----------------------------------------------------------------------------
\* Row locks of transactions that have not committed

KeyLocked(r, k) == \E q \in Request \ {r} : k \in req[q].gone

ProfileLocked(r, u) == \E q \in Request \ {r} : req[q].counts[u] # Unwritten

\* The foreign keys of the rows saveClient inserts hold their user and server.
UserReferenced(r, u) ==
  \E q \in Request \ {r} : req[q].at = "commitClient" /\ req[q].user = u

ServerReferenced(r, s) ==
  \E q \in Request \ {r} : req[q].at = "commitClient" /\ req[q].server = s

\* The next statement of r waits for a row another transaction holds.
Blocked(r) ==
  LET t == req[r] IN
  \/ /\ t.at = "deleteKey"
     /\ KeyLocked(r, t.key)
  \/ /\ t.at \in {"commitClient", "decrementCount", "updateVerified",
                  "saveProfile", "deleteUser"}
     /\ ProfileLocked(r, t.user)
  \/ /\ t.at \in {"saveProfile", "deleteUser"}
     /\ UserReferenced(r, t.user)
  \/ /\ t.at = "deleteUser"
     /\ \E k \in KeysOf(t.user) : KeyLocked(r, k)
  \/ /\ t.at = "deleteServerKey"
     /\ \/ ServerReferenced(r, t.server)
        \/ \E k \in getClientInterfacesFromServer(t.server) : KeyLocked(r, k)

(* InnoDB ends a wait that lasts innodb_lock_wait_timeout, and a deadlock at once
   by rolling one of the transactions back; either way the handler fails. *)
LockWaitTimeout(r) == Blocked(r) /\ Fail(r)

=============================================================================
