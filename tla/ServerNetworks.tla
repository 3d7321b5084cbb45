--------------------------- MODULE ServerNetworks ---------------------------
(***************************************************************************)
(* Networks of servers and addresses in them: the form that checks a new   *)
(* or edited server interface, the addresses servers and clients get, and  *)
(* the renumbering of clients when the network of their server changes,    *)
(* and the configurations that clients download.  Requests that change     *)
(* anything are answered one at a time and every user is verified; WgWeb   *)
(* has the interleavings of requests, without networks, and Renumbering    *)
(* those of requests that depend on them.                                  *)
(***************************************************************************)
EXTENDS Integers, FiniteSets, Functions

CONSTANTS
  Server,    \* ids of server interfaces
  Client,    \* ids of clients
  Bits,      \* length of an IP address in bits: 32, less for TLC
  NumAddresses, \* NumAddresses[m]: addresses of a network with a mask of m bits
  Port,      \* listen ports
  MaxName    \* bound on the number in a server's name

ASSUME NetworksAssumption ==
  /\ Bits \in Nat \ {0} /\ MaxName \in Nat
  /\ NumAddresses \in [0 .. Bits -> Nat]
  /\ NumAddresses[Bits] = 1
  /\ \A m \in 0 .. Bits - 1 : NumAddresses[m] = 2 * NumAddresses[m + 1]

VARIABLES
  server,    \* server rows; name n stands for "wg-server<n>"
  client,    \* clients: Key, Interface and Peer
  running,   \* running[n]: what interface n was configured with, while it is up
  download   \* the client configuration that is generated or was downloaded last

vars == <<server, client, running, download>>

-----------------------------------------------------------------------------
\* ipaddress: a network is its first address and its mask

Address == 0 .. NumAddresses[0] - 1

everyMask == 0 .. Bits                                                 \* mutant

\* The form allows masks up to 31: a network has two addresses or more.
Mask == 0 .. Bits - 1

\* ip_network refuses an address with host bits set.
IsNetwork(net, mask) == net % NumAddresses[mask] = 0

InNetwork(a, net, mask) == net <= a /\ a < net + NumAddresses[mask]

\* All addresses but the first and the last, unless there are no others.
Hosts(net, mask) ==
  {a \in Address : /\ InNetwork(a, net, mask)
                   /\ NumAddresses[mask] > 2 =>
                        a # net /\ a # net + NumAddresses[mask] - 1}

Least(S) == CHOOSE a \in S : \A b \in S : a <= b

\* The host that next(hosts) returns when it has returned n before.
NextHost(net, mask, n) == Least(Hosts(net, mask)) + n

-----------------------------------------------------------------------------
getClientInterfacesFromServer(s) == {k \in DOMAIN client : client[k].server = s}

isUp(n) == n \in DOMAIN running

isWGserverUp(s) == isUp(server[s].name)

freeOfClients(s, row) ==                                               \* mutant
  Hosts(row.ip_network, row.ip_network_mask)
    \ {client[k].ip_address : k \in getClientInterfacesFromServer(s)}

freeOfServer(s, row) ==                                                \* mutant
  Hosts(row.ip_network, row.ip_network_mask) \ {row.ip_address}

\* Of server s, whose row a handler has read.
FreeAddresses(s, row) ==
  Hosts(row.ip_network, row.ip_network_mask)
    \ ({client[k].ip_address : k \in getClientInterfacesFromServer(s)}
         \cup {row.ip_address})

\* One more than the highest number of the names in the table.
makeServerNewName ==
  LET taken == {server[s].name : s \in DOMAIN server}
  IN  Least({n \in 0 .. MaxName + 1 : \A t \in taken : t < n})

(* ServerInterfaceForm accepts a network: it holds none of the addresses the
   networks of the other servers begin with.  Their masks are not looked at. *)
CleanNetwork(others, net, mask) ==
  /\ IsNetwork(net, mask)
  /\ \A s \in others : ~InNetwork(server[s].ip_network, net, mask)

CleanListenPort(others, port) == \A s \in others : server[s].listen_port # port

-----------------------------------------------------------------------------
NoDownload ==
  [at |-> "idle", key |-> "none", ip_address |-> 0, listen_port |-> "none",
   AllowedIPs |-> {}, outdated |-> FALSE]

Init ==
  /\ server = << >>
  /\ client = << >>
  /\ running = << >>
  /\ download = NoDownload

Put(table, id, row) == [i \in DOMAIN table \cup {id} |-> IF i = id THEN row ELSE table[i]]
Delete(table, ids) == Restrict(table, DOMAIN table \ ids)

createServerInterface(net, mask, port) ==
  [name |-> makeServerNewName, ip_network |-> net, ip_network_mask |-> mask,
   ip_address |-> NextHost(net, mask, 0), listen_port |-> port]

CreateNewServer(s, net, mask, port) ==
  /\ s \notin DOMAIN server
  /\ CleanNetwork(DOMAIN server, net, mask)
  /\ CleanListenPort(DOMAIN server, port)
  /\ makeServerNewName <= MaxName
  /\ server' = Put(server, s, createServerInterface(net, mask, port))
  /\ UNCHANGED <<client, running, download>>

alwaysChanged(s, net, mask) == TRUE                                    \* mutant

\* "ip_network" or "ip_network_mask" in form.changed_data.
NetworkChanged(s, net, mask) ==
  server[s].ip_network # net \/ server[s].ip_network_mask # mask

anyServer(s) == s \in DOMAIN server                                    \* mutant

MayEdit(s) == s \in DOMAIN server /\ ~isWGserverUp(s)

updateNetwork(row, net, mask) == [row EXCEPT !.ip_network = net, !.ip_network_mask = mask]
updateIpAddress(row, a) == [row EXCEPT !.ip_address = a]
updatePort(row, port) == [row EXCEPT !.listen_port = port]

\* Clients in the order of a query that asks for none.
Orders(clients) ==
  {order \in [clients -> 1 .. Cardinality(clients)] :
     \A j, k \in clients : order[j] = order[k] => j = k}

countsAll(mask, clients) == NumAddresses[mask] >= Cardinality(clients) + 1  \* mutant

\* A network that is too small is refused, a /31 always.
LargeEnough(mask, clients) == NumAddresses[mask] - 2 >= Cardinality(clients) + 1

\* The server gets the first host of its new network, its clients the ones that follow.
UpdateServerPeersIpAddresses(s, clients, net, mask, port) ==
  /\ server' = [server EXCEPT ![s] =
       updatePort(updateIpAddress(updateNetwork(@, net, mask), NextHost(net, mask, 0)), port)]
  /\ \E order \in Orders(clients) :
       client' = [k \in DOMAIN client |->
                    IF k \in DOMAIN order
                    THEN updateIpAddress(client[k], NextHost(net, mask, order[k]))
                    ELSE client[k]]

\* What clients in gone have downloaded, or are about to, is no longer current.
Outdate(gone) == download' = [download EXCEPT !.outdated = @ \/ download.key \in gone]

UpdateServer(s, net, mask, port) ==
  /\ MayEdit(s)
  /\ CleanNetwork(DOMAIN server \ {s}, net, mask)
  /\ CleanListenPort(DOMAIN server \ {s}, port)
  /\ IF NetworkChanged(s, net, mask)
     THEN LET clients == getClientInterfacesFromServer(s) IN
          /\ LargeEnough(mask, clients)
          /\ UpdateServerPeersIpAddresses(s, clients, net, mask, port)
     ELSE /\ server' = [server EXCEPT ![s] = updatePort(@, port)]
          /\ UNCHANGED client
  /\ Outdate(IF server' = server THEN {} ELSE getClientInterfacesFromServer(s))
  /\ UNCHANGED running

-----------------------------------------------------------------------------
\* Setting an address takes it from the other peers of the interface.
Allow(peers, k, a) ==
  [j \in DOMAIN peers \cup {k} |-> IF j = k THEN {a} ELSE peers[j] \ {a}]

\* "wg set" on an interface that is down fails and is logged.
addWGPeer(n, k, a) ==
  running' = IF isUp(n) THEN [running EXCEPT ![n].peers = Allow(@, k, a)] ELSE running

removeWGPeer(n, k) ==
  running' = IF isUp(n) THEN [running EXCEPT ![n].peers = Delete(@, {k})] ELSE running

\* The first free host in the order of the network.
createClientInterface(s, row) == [server |-> s, ip_address |-> Least(FreeAddresses(s, row))]

CreateNewClient(k, s) ==
  /\ k \notin DOMAIN client
  /\ s \in DOMAIN server
  /\ FreeAddresses(s, server[s]) # {}
  /\ client' = Put(client, k, createClientInterface(s, server[s]))
  /\ addWGPeer(server[s].name, k, client'[k].ip_address)
  /\ UNCHANGED <<server, download>>

RemoveClient(k) ==
  /\ k \in DOMAIN client
  /\ client' = Delete(client, {k})
  /\ removeWGPeer(server[client[k].server].name, k)
  /\ Outdate({k})
  /\ UNCHANGED server

\* The configuration generateServerConfText writes, from the row of s it is given.
ConfText(s, row) ==
  [ip_address |-> row.ip_address,
   ip_network_mask |-> row.ip_network_mask,
   listen_port |-> row.listen_port,
   peers |-> [k \in getClientInterfacesFromServer(s) |-> {client[k].ip_address}]]

(* The peers an interface has after its configuration is read: of those that
   share an address the one whose section comes last has it. *)
Loaded(peers) ==
  {p \in [DOMAIN peers -> UNION {{ips, {}} : ips \in Range(peers)}] :
     /\ \A k \in DOMAIN p : p[k] \subseteq peers[k]
     /\ UNION Range(p) = UNION Range(peers)
     /\ \A j, k \in DOMAIN p : j # k => p[j] \cap p[k] = {}}

restartWGserver(n, conf) ==
  \E peers \in Loaded(conf.peers) : running' = Put(running, n, [conf EXCEPT !.peers = peers])

StartServer(s) ==
  /\ s \in DOMAIN server
  /\ ~isWGserverUp(s)
  /\ restartWGserver(server[s].name, ConfText(s, server[s]))
  /\ UNCHANGED <<server, client, download>>

StopServer(s) ==
  /\ s \in DOMAIN server
  /\ isWGserverUp(s)
  /\ running' = Delete(running, {server[s].name})
  /\ UNCHANGED <<server, client, download>>

\* deleteinterface: the server's clients go with it.
RemoveServer(s) ==
  /\ s \in DOMAIN server
  /\ ~isWGserverUp(s)
  /\ server' = Delete(server, {s})
  /\ client' = Delete(client, getClientInterfacesFromServer(s))
  /\ Outdate(getClientInterfacesFromServer(s))
  /\ UNCHANGED running

-----------------------------------------------------------------------------
\* downlandConf and getconfajax: the rows are read while other requests change them

rows == <<server, client, running>>

\* getconfajax generates two configurations, one after the other.
Download(k) ==
  /\ k \in DOMAIN client
  /\ download' = [NoDownload EXCEPT !.at = "getInterface", !.key = k]
  /\ UNCHANGED rows

\* The interface of the key; without one the page raises.
GetInterface ==
  /\ download.at = "getInterface"
  /\ download' = IF download.key \in DOMAIN client
                 THEN [download EXCEPT !.at = "loadServer",
                                       !.ip_address = client[download.key].ip_address]
                 ELSE NoDownload
  /\ UNCHANGED rows

addressesAlone(s, full) ==                                             \* mutant
  IF full THEN Address ELSE {server[s].ip_address}

\* 0.0.0.0/0 for a full tunnel, the network of the server for a split one.
AllowedIPs(s, full) ==
  IF full THEN Address
  ELSE {a \in Address : InNetwork(a, server[s].ip_network, server[s].ip_network_mask)}

\* The server of its peer, which is gone with the client.
LoadServer(full) ==
  /\ download.at = "loadServer"
  /\ download' =
       IF download.key \in DOMAIN client
       THEN LET s == client[download.key].server IN
            [download EXCEPT !.at = "done", !.listen_port = server[s].listen_port,
                             !.AllowedIPs = AllowedIPs(s, full)]
       ELSE NoDownload
  /\ UNCHANGED rows

Next ==
  \/ \E s \in Server, net \in Address, mask \in Mask, port \in Port :
       CreateNewServer(s, net, mask, port) \/ UpdateServer(s, net, mask, port)
  \/ \E k \in Client, s \in Server : CreateNewClient(k, s)
  \/ \E k \in Client : RemoveClient(k)
  \/ \E s \in Server : StartServer(s) \/ StopServer(s) \/ RemoveServer(s)
  \/ \E k \in Client : Download(k)
  \/ GetInterface
  \/ \E full \in BOOLEAN : LoadServer(full)

Spec == Init /\ [][Next]_vars

-----------------------------------------------------------------------------
\* Properties

(* Whatever was created, deleted and renumbered before, the server and the clients
   of a network have addresses of their own that are hosts of its present network,
   never its first or last address when there are others. *)
AddressPlan ==
  \A s \in DOMAIN server :
    LET net == server[s].ip_network
        last == net + NumAddresses[server[s].ip_network_mask] - 1
        clients == getClientInterfacesFromServer(s)
        addresses == {server[s].ip_address} \cup {client[k].ip_address : k \in clients}
    IN  /\ Cardinality(addresses) = Cardinality(clients) + 1
        /\ addresses \subseteq net .. last
        /\ last > net + 1 => net \notin addresses /\ last \notin addresses

(* Two servers never have the same address of their own, although the form lets
   a network be created inside that of another server. *)
ServerAddressesDistinct ==
  \A s, t \in DOMAIN server :
    s # t => server[s].ip_address # server[t].ip_address

(* An interface that is up belongs to a server, by name, and runs with the
   addresses, the mask, the port and the clients of its rows. *)
RunningMatchesRows ==
  \A n \in DOMAIN running :
    \E s \in DOMAIN server : server[s].name = n /\ running[n] = ConfText(s, server[s])

(* A client that downloaded its configuration before or after the last edit of its
   server, and not during one, can use it for good, whatever starts, stops and other
   clients come in between: on the port of the server, from the address the
   interface lets it use, to every client of the server. *)
DownloadUsable ==
  download.at = "done" /\ ~download.outdated =>
    LET s == client[download.key].server IN
      /\ download.ip_address = client[download.key].ip_address
      /\ \A k \in getClientInterfacesFromServer(s) :
           {client[k].ip_address, server[s].ip_address} \subseteq download.AllowedIPs
      /\ isWGserverUp(s) =>
           /\ running[server[s].name].listen_port = download.listen_port
           /\ running[server[s].name].peers[download.key] = {download.ip_address}

(* A client's address changes only when the network of its server does, and not
   while the interface is up. *)
RenumberedWithNetwork ==
  [][\A k \in DOMAIN client \cap DOMAIN client' :
       LET s == client[k].server IN
         client'[k].ip_address # client[k].ip_address =>
           /\ ~isWGserverUp(s)
           /\ \/ server'[s].ip_network # server[s].ip_network
              \/ server'[s].ip_network_mask # server[s].ip_network_mask]_vars

=============================================================================
