---------------------------- MODULE ClientRegistry ---------------------------
(***************************************************************************)
(* What the services promise, without threads, statements, scripts or       *)
(* counts: a registry of accounts, servers and clients in which a request  *)
(* is one step that happens as a whole or not at all.  A user may have as  *)
(* many clients as the limit says, each at an address of its own on its    *)
(* server.  WgWeb implements it as long as requests do not overlap.        *)
(***************************************************************************)
EXTENDS Integers, FiniteSets, Functions

CONSTANTS
  User, Key, Server,
  Address,           \* hosts of a server's network that clients can have
  KeyLimit,          \* limits an administrator gives
  DefaultKeyLimit    \* the limit of a new account

VARIABLES
  account,   \* accounts: are they verified, and how many clients may they have
  client,    \* clients: whose, on which server, at which address
  server,    \* servers
  up         \* interfaces that are up

vars == <<account, client, server, up>>

Init ==
  /\ account = << >>
  /\ client = << >>
  /\ server = {}
  /\ up = {}

KeysOf(u) == {k \in DOMAIN client : client[k].user = u}

ClientsOf(s) == {k \in DOMAIN client : client[k].server = s}

Keep(keys) == client' = Restrict(client, keys)

\* createUser
Register ==
  /\ \E u \in User \ DOMAIN account :
       account' = [v \in DOMAIN account \cup {u} |->
                     IF v = u THEN [verified |-> FALSE, key_limit |-> DefaultKeyLimit]
                              ELSE account[v]]
  /\ UNCHANGED <<client, server, up>>

\* switchVerifyProfile and the settings form
SetAccount ==
  /\ \E u \in DOMAIN account, v \in BOOLEAN :
       \E l \in KeyLimit \cup {account[u].key_limit} :
         account' = [account EXCEPT ![u] = [verified |-> v, key_limit |-> l]]
  /\ UNCHANGED <<client, server, up>>

\* removeUser
DeleteAccount ==
  /\ \E u \in DOMAIN account :
       /\ account' = Restrict(account, DOMAIN account \ {u})
       /\ Keep(DOMAIN client \ KeysOf(u))
  /\ UNCHANGED <<server, up>>

\* createNewClient: a verified user who is below the limit gets a free address.
CreateClient ==
  /\ \E u \in DOMAIN account, k \in Key \ DOMAIN client, s \in server :
       /\ account[u].verified
       /\ Cardinality(KeysOf(u)) < account[u].key_limit
       /\ \E a \in Address \ {client[j].ip_address : j \in ClientsOf(s)} :
            client' = [j \in DOMAIN client \cup {k} |->
                         IF j = k THEN [user |-> u, ip_address |-> a, server |-> s]
                                  ELSE client[j]]
  /\ UNCHANGED <<account, server, up>>

\* removeClient, of a verified user
DeleteClient ==
  /\ \E k \in DOMAIN client :
       account[client[k].user].verified /\ Keep(DOMAIN client \ {k})
  /\ UNCHANGED <<account, server, up>>

\* createNewServer
CreateServer ==
  /\ \E s \in Server \ server : server' = server \cup {s}
  /\ UNCHANGED <<account, client, up>>

\* removeServer: a server that is down goes with all of its clients.
DeleteServer ==
  /\ \E s \in server \ up : server' = server \ {s} /\ Keep(DOMAIN client \ ClientsOf(s))
  /\ UNCHANGED <<account, up>>

\* startServer and stopServer
Toggle ==
  /\ \/ \E s \in server \ up : up' = up \cup {s}
     \/ \E s \in up : up' = up \ {s}
  /\ UNCHANGED <<account, client, server>>

\* A reboot takes every interface down.
Reboot == up' = {} /\ UNCHANGED <<account, client, server>>

Next ==
  \/ Register \/ SetAccount \/ DeleteAccount
  \/ CreateClient \/ DeleteClient
  \/ CreateServer \/ DeleteServer \/ Toggle \/ Reboot

Spec == Init /\ [][Next]_vars

=============================================================================
