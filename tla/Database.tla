------------------------------ MODULE Database ------------------------------
(***************************************************************************)
(* The MariaDB tables behind the web application: accounts with their      *)
(* profile, clients (a Key, its Interface and its Peer, created and        *)
(* deleted together) and server interfaces.  A table is a function whose   *)
(* domain is the set of rows it holds.  The operators are the queries of   *)
(* database/repository.py, under their names where TLA+ allows it.         *)
(***************************************************************************)
EXTENDS Integers, FiniteSets, Functions

CONSTANTS
  User,             \* accounts
  Key,              \* WireGuard key pairs of clients (bounds how many exist)
  Server,           \* system names of server interfaces, wg-server0, ...
  None,             \* Python's None
  PoolSize,         \* host addresses of a server network are 1..PoolSize
  KeyLimit,         \* values an administrator may give key_limit
  DefaultKeyLimit   \* key_limit of a new profile

ASSUME DatabaseAssumption ==
  /\ None \notin User \cup Key \cup Server
  /\ PoolSize \in Nat \ {0}
  /\ KeyLimit \subseteq Nat
  /\ DefaultKeyLimit \in Nat

VARIABLES
  profile,   \* User row with its Profile
  client,    \* client Key row with its Interface; server is the Peer's server
  server     \* server interfaces that have a row

db == <<profile, client, server>>

HostAddress == 1 .. PoolSize
ServerAddress == 1              \* a server takes the first host of its network

ProfileRow == [verified : BOOLEAN, key_limit : Nat, key_count : Nat]
ClientRow == [user : User, ip_address : HostAddress, server : Server \cup {None}]

\* Inserts a row, or replaces the row with its id.
Put(t, id, row) == [i \in DOMAIN t \cup {id} |-> IF i = id THEN row ELSE t[i]]

Delete(t, ids) == Restrict(t, DOMAIN t \ ids)

IsTable(t, Id, Row) == DOMAIN t \subseteq Id /\ \A i \in DOMAIN t : t[i] \in Row

DatabaseTypeOK ==
  /\ IsTable(profile, User, ProfileRow)
  /\ IsTable(client, Key, ClientRow)
  /\ server \subseteq Server

DatabaseInit ==
  /\ profile = << >>
  /\ client = << >>
  /\ server = {}

-----------------------------------------------------------------------------
\* Queries

KeysOf(u) == {k \in DOMAIN client : client[k].user = u}

everyKeyOfUser(u) == KeysOf(u)                              \* mutant

getByUser(u) == {k \in KeysOf(u) : client[k].server # None}

verifiedClientInterfaces(s) ==                              \* mutant
  {k \in DOMAIN client : client[k].server = s /\ profile[client[k].user].verified}

getClientInterfacesFromServer(s) == {k \in DOMAIN client : client[k].server = s}

peersOfAnyProfile(s) == getClientInterfacesFromServer(s)    \* mutant

getVerifiedPeersFromServer(s) ==
  {k \in getClientInterfacesFromServer(s) : profile[client[k].user].verified}

FreeAddresses(s) ==
  (HostAddress \ {ServerAddress})
     \ {client[k].ip_address : k \in getClientInterfacesFromServer(s)}

lastFreeOrServer(s, a) == a \in FreeAddresses(s) \cup {ServerAddress}    \* mutant

\* The first host that no client of s and not s itself occupies; there may be none.
allocateIpAddress(s, a) ==
  /\ a \in FreeAddresses(s)
  /\ \A b \in FreeAddresses(s) : a <= b

-----------------------------------------------------------------------------
\* Statements

\* saveClient: the rows of the client and the owner's key_count, in one commit.
saveClient(k, row, count) ==
  /\ client' = Put(client, k, row)
  /\ profile' = [profile EXCEPT ![row.user].key_count = count]
  /\ UNCHANGED server

keepKeyCount(k, u, count) ==                                \* mutant
  /\ client' = Delete(client, {k})
  /\ UNCHANGED <<profile, server>>

\* deleteClient: the key with what cascades from it and key_count, in one commit.
deleteClient(k, u, count) ==
  /\ client' = Delete(client, {k})
  /\ profile' = [profile EXCEPT ![u].key_count = count]
  /\ UNCHANGED server

leaveKeysBehind(u) ==                                       \* mutant
  /\ profile' = Delete(profile, {u})
  /\ UNCHANGED <<client, server>>

\* user.delete(): profile, keys, interfaces and peers cascade.
deleteUser(u) ==
  /\ profile' = Delete(profile, {u})
  /\ client' = Delete(client, KeysOf(u))
  /\ UNCHANGED server

\* A key_count a transaction has not written.
Unwritten == -1

(* Deletes server s and the clients in gone, and writes the new counts.  The
   server's Peer rows cascade: a client that is not in gone loses its peer and
   keeps its key and interface. *)
deleteServer(s, gone, counts) ==
  /\ client' = [k \in DOMAIN client \ gone |->
                  IF client[k].server = s THEN [client[k] EXCEPT !.server = None]
                                          ELSE client[k]]
  /\ profile' = [u \in DOMAIN profile |->
                  IF counts[u] = Unwritten THEN profile[u]
                  ELSE [profile[u] EXCEPT !.key_count = counts[u]]]
  /\ server' = server \ {s}

=============================================================================
