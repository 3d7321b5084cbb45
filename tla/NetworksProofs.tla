--------------------------- MODULE NetworksProofs ---------------------------
(***************************************************************************)
(* Proofs about ServerNetworks and Renumbering for any servers, clients,   *)
(* ports and length of an address.                                         *)
(***************************************************************************)
EXTENDS Renumbering, FiniteSetTheorems, WellFoundedInduction, TLAPS

-----------------------------------------------------------------------------
\* Natural numbers

NatLess == {p \in Nat \X Nat : p[1] < p[2]}

\* A set of naturals has a least element: the form in which induction is used here.
LEMMA LeastExists ==
  ASSUME NEW S, S \subseteq Nat, S # {}
  PROVE  \E n \in S : \A m \in S : n <= m
<1>1. IsWellFoundedOn(NatLess, Nat)
  BY NatLessThanWellFounded DEF OpToRel, NatLess
<1>2. PICK n \in S : \A m \in S : ~ (<<m, n>> \in NatLess)
  BY <1>1, WFMin
<1>3. \A m \in S : n <= m
  <2> SUFFICES ASSUME NEW m \in S, m < n PROVE FALSE
    OBVIOUS
  <2>1. <<m, n>> \in Nat \X Nat /\ <<m, n>>[1] < <<m, n>>[2]
    OBVIOUS
  <2> QED
    BY <1>2, <2>1 DEF NatLess
<1> QED
  BY <1>3

LEMMA LeastIsLeast ==
  ASSUME NEW S, S \subseteq Nat, S # {}
  PROVE  Least(S) \in S /\ \A m \in S : Least(S) <= m
BY LeastExists DEF Least

\* The least element is what it is, when one is known.
LEMMA LeastIs ==
  ASSUME NEW S, S \subseteq Nat, NEW n \in S, \A m \in S : n <= m
  PROVE  Least(S) = n
<1>1. Least(S) \in S /\ Least(S) <= n
  BY LeastIsLeast
<1>2. Least(S) \in Nat /\ n \in Nat /\ n <= Least(S)
  BY <1>1
<1> QED
  BY <1>1, <1>2

-----------------------------------------------------------------------------
\* Sizes of networks

LEMMA Sizes ==
  /\ \A m \in 0 .. Bits : NumAddresses[m] \in Nat \ {0}
  /\ \A m \in Mask : \E h \in Nat \ {0} : NumAddresses[m] = 2 * h
<1> DEFINE Zero == {m \in 0 .. Bits : NumAddresses[Bits - m] = 0}
<1>1. Zero = {}
  <2> SUFFICES ASSUME Zero # {} PROVE FALSE
    OBVIOUS
  <2>1. Zero \subseteq Nat
    BY NetworksAssumption
  <2>2. PICK n \in Zero : \A m \in Zero : n <= m
    BY <2>1, LeastExists
  <2>3. n # 0 /\ n \in 0 .. Bits /\ NumAddresses[Bits - n] = 0
    BY <2>1, <2>2, NetworksAssumption
  <2>4. n - 1 \in 0 .. Bits /\ n - 1 \notin Zero
    <3>1. n \in Nat \ {0} /\ n - 1 \in 0 .. Bits /\ ~(n <= n - 1)
      BY <2>3, NetworksAssumption
    <3> QED
      BY <2>2, <3>1
  <2>5. Bits - n \in 0 .. Bits - 1 /\ Bits - (n - 1) = (Bits - n) + 1
    BY <2>3, NetworksAssumption
  <2>6. NumAddresses[Bits - n] = 2 * NumAddresses[Bits - (n - 1)]
    BY <2>5, NetworksAssumption
  <2>7. NumAddresses[Bits - (n - 1)] # 0 /\ NumAddresses[Bits - (n - 1)] \in Nat
    BY <2>3, <2>4, <2>5, NetworksAssumption
  <2> QED
    BY <2>3, <2>6, <2>7
<1>2. ASSUME NEW m \in 0 .. Bits PROVE NumAddresses[m] \in Nat \ {0}
  <2>1. Bits - m \in 0 .. Bits /\ Bits - (Bits - m) = m
    BY NetworksAssumption
  <2> QED
    BY <1>1, <2>1, NetworksAssumption
<1>3. ASSUME NEW m \in Mask PROVE \E h \in Nat \ {0} : NumAddresses[m] = 2 * h
  <2>1. m \in 0 .. Bits - 1 /\ m + 1 \in 0 .. Bits
    BY NetworksAssumption DEF Mask
  <2> QED
    BY <1>2, <2>1, NetworksAssumption
<1> QED
  BY <1>2, <1>3

\* The size of every network divides that of the whole address space.
LEMMA SizesDivide == \A m \in 0 .. Bits : \E q \in Nat : NumAddresses[0] = q * NumAddresses[m]
<1> DEFINE Bad == {m \in 0 .. Bits : ~ \E q \in Nat : NumAddresses[0] = q * NumAddresses[m]}
<1> SUFFICES ASSUME Bad # {} PROVE FALSE
  OBVIOUS
<1>1. Bad \subseteq Nat
  BY NetworksAssumption
<1>2. PICK n \in Bad : \A m \in Bad : n <= m
  BY <1>1, LeastExists
<1>3. NumAddresses[0] \in Nat /\ NumAddresses[n] \in Nat
  BY NetworksAssumption
<1>4. n # 0
  <2>1. NumAddresses[0] = 1 * NumAddresses[0]
    BY <1>3
  <2> QED
    BY <1>2, <2>1
<1>5. n - 1 \in 0 .. Bits - 1 /\ n - 1 \in 0 .. Bits /\ n - 1 \notin Bad /\ (n - 1) + 1 = n
  BY <1>1, <1>2, <1>4, NetworksAssumption
<1>6. PICK q \in Nat : NumAddresses[0] = q * NumAddresses[n - 1]
  BY <1>5
<1>7. NumAddresses[n - 1] = 2 * NumAddresses[n]
  BY <1>5, NetworksAssumption
<1>8. NumAddresses[0] = (2 * q) * NumAddresses[n] /\ 2 * q \in Nat
  BY <1>3, <1>6, <1>7
<1> QED
  BY <1>2, <1>8

\* The start of a network is a multiple of its size.
LEMMA Multiple ==
  ASSUME NEW n \in Nat, NEW size \in Nat \ {0}, n % size = 0
  PROVE  \E p \in Nat : n = p * size
<1>1. n = size * (n \div size) + (n % size) /\ n \div size \in Nat
  OBVIOUS
<1> DEFINE p == n \div size
<1>2. p \in Nat /\ n = size * p + 0
  BY <1>1
<1> HIDE DEF p
<1>3. n = p * size
  BY <1>2
<1> QED
  BY <1>2, <1>3

LEMMA NextMultiple ==
  ASSUME NEW p \in Nat, NEW q \in Nat, NEW size \in Nat \ {0}, p * size < q * size
  PROVE  p * size + size <= q * size
<1>1. p + 1 <= q
  <2> SUFFICES ASSUME q <= p PROVE FALSE
    OBVIOUS
  <2>1. PICK d \in Nat : p = q + d
    OBVIOUS
  <2>2. p * size = q * size + d * size /\ d * size >= 0 /\ q * size \in Nat
    BY <2>1
  <2> QED
    BY <2>2
<1>2. PICK d \in Nat : q = (p + 1) + d
  BY <1>1
<1>3. q * size = p * size + size + d * size /\ d * size >= 0
  BY <1>2
<1> QED
  BY <1>3

LEMMA EvenMultiple ==
  ASSUME NEW p \in Nat, NEW h \in Nat PROVE \E d \in Nat : p * (2 * h) = 2 * d
<1>1. p * (2 * h) = 2 * (p * h) /\ p * h \in Nat
  OBVIOUS
<1> QED
  BY <1>1

\* A network begins at an even address and ends within the address space.
LEMMA Networks ==
  ASSUME NEW net \in Address, NEW mask \in Mask, IsNetwork(net, mask)
  PROVE  /\ net \in Nat /\ NumAddresses[mask] \in Nat /\ NumAddresses[mask] >= 2
         /\ \E d \in Nat : net = 2 * d
         /\ NumAddresses[0] \in Nat
         /\ net + NumAddresses[mask] <= NumAddresses[0]
<1> DEFINE size == NumAddresses[mask]
<1>1. mask \in 0 .. Bits /\ 0 \in 0 .. Bits
  BY NetworksAssumption DEF Mask
<1>2. size \in Nat \ {0} /\ NumAddresses[0] \in Nat \ {0}
  BY <1>1, Sizes
<1>3. net \in Nat /\ net < NumAddresses[0]
  BY <1>2 DEF Address
<1>4. PICK h \in Nat \ {0} : size = 2 * h
  BY Sizes
<1>5. PICK q \in Nat : NumAddresses[0] = q * size
  BY <1>1, SizesDivide
<1>6. net % size = 0
  BY DEF IsNetwork
<1> HIDE DEF size
<1>7. PICK p \in Nat : net = p * size
  BY <1>2, <1>3, <1>6, Multiple
<1>8. net + size <= NumAddresses[0]
  BY <1>2, <1>3, <1>5, <1>7, NextMultiple
<1>9. \E d \in Nat : net = 2 * d
  BY <1>4, <1>7, EvenMultiple
<1>10. size >= 2
  BY <1>4
<1> QED
  BY <1>2, <1>3, <1>8, <1>9, <1>10 DEF size

-----------------------------------------------------------------------------
\* Hosts of a network

FirstHost(net, mask) == IF NumAddresses[mask] > 2 THEN net + 1 ELSE net

LEMMA FirstHostIs ==
  ASSUME NEW net \in Address, NEW mask \in Mask, IsNetwork(net, mask)
  PROVE  /\ Least(Hosts(net, mask)) = FirstHost(net, mask)
         /\ FirstHost(net, mask) \in Hosts(net, mask)
<1>1. /\ net \in Nat /\ NumAddresses[mask] \in Nat /\ NumAddresses[mask] >= 2
      /\ NumAddresses[0] \in Nat /\ net + NumAddresses[mask] <= NumAddresses[0]
  BY Networks
<1>2. Hosts(net, mask) \subseteq Nat
  BY DEF Hosts, Address
<1>3. FirstHost(net, mask) \in Hosts(net, mask)
  BY <1>1 DEF FirstHost, Hosts, InNetwork, Address
<1>4. \A a \in Hosts(net, mask) : FirstHost(net, mask) <= a
  BY <1>1 DEF FirstHost, Hosts, InNetwork, Address
<1> QED
  BY <1>2, <1>3, <1>4, LeastIs

\* The hosts that follow the first one, up to the size of the network.
LEMMA FollowingHosts ==
  ASSUME NEW net \in Address, NEW mask \in Mask, IsNetwork(net, mask),
         NEW n \in Nat, n = 0 \/ n <= NumAddresses[mask] - 3
  PROVE  /\ NextHost(net, mask, n) = FirstHost(net, mask) + n
         /\ NextHost(net, mask, n) \in Hosts(net, mask)
<1>1. /\ net \in Nat /\ NumAddresses[mask] \in Nat /\ NumAddresses[mask] >= 2
      /\ NumAddresses[0] \in Nat /\ net + NumAddresses[mask] <= NumAddresses[0]
  BY Networks
<1>2. NextHost(net, mask, n) = FirstHost(net, mask) + n
  BY FirstHostIs DEF NextHost
<1>3. CASE n = 0
  BY <1>1, <1>2, <1>3, FirstHostIs DEF FirstHost
<1>4. CASE n # 0
  BY <1>1, <1>2, <1>4 DEF FirstHost, Hosts, InNetwork, Address
<1> QED
  BY <1>2, <1>3, <1>4

LEMMA ServerHost ==
  ASSUME NEW net \in Address, NEW mask \in Mask, IsNetwork(net, mask)
  PROVE  NextHost(net, mask, 0) = FirstHost(net, mask) /\ FirstHost(net, mask) \in Address
<1>1. FirstHost(net, mask) \in Address
  BY FirstHostIs DEF Hosts
<1>2. NextHost(net, mask, 0) = FirstHost(net, mask) + 0
  BY FollowingHosts
<1> QED
  BY <1>1, <1>2 DEF Address

\* Networks that begin at different addresses have different first hosts.
LEMMA FirstHostsDiffer ==
  ASSUME NEW n1 \in Address, NEW m1 \in Mask, IsNetwork(n1, m1),
         NEW n2 \in Address, NEW m2 \in Mask, IsNetwork(n2, m2), n1 # n2
  PROVE  FirstHost(n1, m1) # FirstHost(n2, m2)
<1>1. PICK d1 \in Nat : n1 = 2 * d1
  BY Networks
<1>2. PICK d2 \in Nat : n2 = 2 * d2
  BY Networks
<1> QED
  BY <1>1, <1>2 DEF FirstHost

-----------------------------------------------------------------------------
\* ServerNetworks: the inductive invariant

ServerRow ==
  [name : 0 .. MaxName, ip_network : Address, ip_network_mask : Mask, ip_address : Address,
   listen_port : Port]

ClientRow == [server : Server, ip_address : Address]

RowsTyped ==
  /\ DOMAIN server \subseteq Server /\ \A s \in DOMAIN server : server[s] \in ServerRow
  /\ DOMAIN client \subseteq Client /\ IsFiniteSet(DOMAIN client)
  /\ \A k \in DOMAIN client : client[k] \in ClientRow /\ client[k].server \in DOMAIN server

\* A server has the first host of its network.
HoldsFirstHost(s) ==
  /\ IsNetwork(server[s].ip_network, server[s].ip_network_mask)
  /\ server[s].ip_address = FirstHost(server[s].ip_network, server[s].ip_network_mask)

NamesDiffer == \A s, t \in DOMAIN server : s # t => server[s].name # server[t].name

ServersHeld == (\A s \in DOMAIN server : HoldsFirstHost(s)) /\ NamesDiffer

\* Every server has the first host of its network, and a name and a network of its own.
ServersPlanned ==
  /\ ServersHeld
  /\ \A s, t \in DOMAIN server : s # t => server[s].ip_network # server[t].ip_network

HostsOf(s) == Hosts(server[s].ip_network, server[s].ip_network_mask)

\* A client has a host of its server's network that no other client of it has.
ClientsPlanned ==
  \A k \in DOMAIN client :
    /\ client[k].ip_address \in HostsOf(client[k].server)
    /\ client[k].ip_address # server[client[k].server].ip_address
    /\ \A j \in DOMAIN client \ {k} :
         client[j].server = client[k].server => client[j].ip_address # client[k].ip_address

DownloadRecord ==
  [at : {"idle", "getInterface", "loadServer", "done"}, key : Client \cup {"none"},
   ip_address : Address, listen_port : Port \cup {"none"}, AllowedIPs : SUBSET Address,
   outdated : BOOLEAN]

\* What a download that is not outdated has read is still so.
DownloadCurrent ==
  ~download.outdated =>
    /\ download.at \in {"loadServer", "done"} =>
         /\ download.key \in DOMAIN client
         /\ download.ip_address = client[download.key].ip_address
    /\ download.at = "done" =>
         LET s == client[download.key].server IN
           /\ download.listen_port = server[s].listen_port
           /\ HostsOf(s) \subseteq download.AllowedIPs

NInv ==
  /\ RowsTyped /\ ServersPlanned /\ ClientsPlanned
  /\ RunningMatchesRows
  /\ download \in DownloadRecord /\ DownloadCurrent

\* What the rows of one server say about it.
Plan(s) ==
  /\ server[s].ip_network \in Address /\ server[s].ip_network_mask \in Mask
  /\ IsNetwork(server[s].ip_network, server[s].ip_network_mask)
  /\ server[s].ip_address = FirstHost(server[s].ip_network, server[s].ip_network_mask)
  /\ server[s].ip_address \in HostsOf(s)

LEMMA ServersPlan ==
  ASSUME RowsTyped, NEW s \in DOMAIN server, HoldsFirstHost(s) PROVE Plan(s)
BY FirstHostIs DEF RowsTyped, HoldsFirstHost, Plan, ServerRow, HostsOf

-----------------------------------------------------------------------------
\* The properties follow

LEMMA NInvAddressPlan == ASSUME NInv PROVE AddressPlan
<1> SUFFICES ASSUME NEW s \in DOMAIN server
             PROVE  LET net == server[s].ip_network
                        last == net + NumAddresses[server[s].ip_network_mask] - 1
                        clients == getClientInterfacesFromServer(s)
                        addresses == {server[s].ip_address} \cup
                                       {client[k].ip_address : k \in clients}
                    IN  /\ Cardinality(addresses) = Cardinality(clients) + 1
                        /\ addresses \subseteq net .. last
                        /\ last > net + 1 => net \notin addresses /\ last \notin addresses
  BY DEF AddressPlan
<1> DEFINE net == server[s].ip_network
           mask == server[s].ip_network_mask
           size == NumAddresses[mask]
           clients == getClientInterfacesFromServer(s)
           own == {client[k].ip_address : k \in clients}
<1>1. Plan(s)
  BY ServersPlan DEF NInv, ServersPlanned, ServersHeld
<1>2. /\ net \in Nat /\ size \in Nat /\ size >= 2
  BY <1>1, Networks DEF Plan
<1>3. {server[s].ip_address} \cup own \subseteq Hosts(net, mask)
  BY <1>1 DEF Plan, HostsOf, NInv, ClientsPlanned, getClientInterfacesFromServer
<1>4. \A a \in Hosts(net, mask) : /\ a \in Nat /\ net <= a /\ a < net + size
                                  /\ size > 2 => a # net /\ a # net + size - 1
  BY <1>2 DEF Hosts, Address, InNetwork
<1>5. Cardinality({server[s].ip_address} \cup own) = Cardinality(clients) + 1
  <2>1. IsFiniteSet(clients)
    BY FS_Subset DEF NInv, RowsTyped, getClientInterfacesFromServer
  <2> DEFINE f == [k \in clients |-> client[k].ip_address]
  <2>2. f \in Bijection(clients, own)
    <3>1. f \in [clients -> own] /\ \A a \in own : \E k \in clients : f[k] = a
      OBVIOUS
    <3>2. \A j, k \in clients : f[j] = f[k] => j = k
      BY DEF NInv, ClientsPlanned, getClientInterfacesFromServer
    <3> QED
      BY <3>1, <3>2 DEF Bijection, Injection, Surjection, IsInjective
  <2>3. IsFiniteSet(own) /\ Cardinality(own) = Cardinality(clients)
    BY <2>1, <2>2, FS_Bijection DEF ExistsBijection
  <2>4. server[s].ip_address \notin own
    BY DEF NInv, ClientsPlanned, getClientInterfacesFromServer
  <2>5. Cardinality(own \cup {server[s].ip_address}) = Cardinality(own) + 1
    BY <2>3, <2>4, FS_AddElement
  <2>6. {server[s].ip_address} \cup own = own \cup {server[s].ip_address}
    OBVIOUS
  <2> QED
    BY <2>3, <2>5, <2>6
<1> HIDE DEF own
<1>6. {server[s].ip_address} \cup own \subseteq net .. net + size - 1
  <2> SUFFICES ASSUME NEW a \in Hosts(net, mask) PROVE a \in net .. net + size - 1
    BY <1>3
  <2>1. a \in Nat /\ net <= a /\ a < net + size
    BY <1>4
  <2> QED
    BY <1>2, <2>1
<1>7. net + size - 1 > net + 1 => /\ net \notin {server[s].ip_address} \cup own
                                 /\ net + size - 1 \notin {server[s].ip_address} \cup own
  BY <1>2, <1>3, <1>4
<1> QED
  BY <1>5, <1>6, <1>7 DEF own

LEMMA NInvServerAddressesDistinct == ASSUME NInv PROVE ServerAddressesDistinct
<1> SUFFICES ASSUME NEW s \in DOMAIN server, NEW t \in DOMAIN server, s # t
             PROVE  server[s].ip_address # server[t].ip_address
  BY DEF ServerAddressesDistinct
<1>1. Plan(s) /\ Plan(t)
  BY ServersPlan DEF NInv, ServersPlanned, ServersHeld
<1>2. server[s].ip_network # server[t].ip_network
  BY DEF NInv, ServersPlanned, ServersHeld, HoldsFirstHost, NamesDiffer
<1> QED
  BY <1>1, <1>2, FirstHostsDiffer DEF Plan

LEMMA NInvDownloadUsable == ASSUME NInv PROVE DownloadUsable
<1> SUFFICES ASSUME download.at = "done", ~download.outdated
             PROVE  LET s == client[download.key].server IN
                    /\ download.ip_address = client[download.key].ip_address
                    /\ \A k \in getClientInterfacesFromServer(s) :
                         {client[k].ip_address, server[s].ip_address} \subseteq download.AllowedIPs
                    /\ isWGserverUp(s) =>
                         /\ running[server[s].name].listen_port = download.listen_port
                         /\ running[server[s].name].peers[download.key] = {download.ip_address}
  BY DEF DownloadUsable
<1> DEFINE key == download.key
           s == client[key].server
<1>1. /\ key \in DOMAIN client /\ download.ip_address = client[key].ip_address
      /\ download.listen_port = server[s].listen_port
      /\ HostsOf(s) \subseteq download.AllowedIPs
  BY DEF NInv, DownloadCurrent
<1>2. s \in DOMAIN server /\ key \in getClientInterfacesFromServer(s)
  BY <1>1 DEF NInv, RowsTyped, getClientInterfacesFromServer
<1>3. \A k \in getClientInterfacesFromServer(s) :
        client[k].ip_address \in HostsOf(s) /\ server[s].ip_address \in HostsOf(s)
  BY <1>2, ServersPlan
  DEF NInv, ServersPlanned, ServersHeld, ClientsPlanned, getClientInterfacesFromServer, Plan
<1>4. isWGserverUp(s) => running[server[s].name] = ConfText(s, server[s])
  BY <1>2
  DEF NInv, RunningMatchesRows, ServersPlanned, ServersHeld, NamesDiffer, isWGserverUp, isUp
<1> HIDE DEF key, s
<1>5. isWGserverUp(s) => /\ running[server[s].name].listen_port = server[s].listen_port
                        /\ running[server[s].name].peers[key] = {client[key].ip_address}
  BY <1>2, <1>4 DEF ConfText
<1> QED
  BY <1>1, <1>3, <1>5 DEF key, s


-----------------------------------------------------------------------------
\* The interfaces

\* A configuration whose clients have addresses of their own is loaded as it is.
LEMMA LoadedOwn ==
  ASSUME NEW peers, peers = [k \in DOMAIN peers |-> peers[k]],
         \A k \in DOMAIN peers : \E a : peers[k] = {a},
         \A j, k \in DOMAIN peers : j # k => peers[j] \cap peers[k] = {},
         NEW p \in Loaded(peers)
  PROVE  p = peers
<1> DEFINE C == DOMAIN peers
<1>1. /\ p \in [C -> UNION {{ips, {}} : ips \in Range(peers)}]
      /\ \A k \in C : p[k] \subseteq peers[k]
      /\ UNION Range(p) = UNION Range(peers)
  BY DEF Loaded
<1>2. ASSUME NEW k \in C PROVE p[k] = peers[k]
  <2>1. PICK a : peers[k] = {a}
    OBVIOUS
  <2>2. a \in UNION Range(peers)
    BY <2>1 DEF Range
  <2>3. PICK j \in C : a \in p[j]
    BY <1>1, <2>2 DEF Range
  <2>4. j = k
    BY <1>1, <2>1, <2>3
  <2> QED
    BY <1>1, <2>1, <2>3, <2>4
<1>3. p = [k \in C |-> p[k]]
  BY <1>1
<1> QED
  BY <1>2, <1>3

\* The interface of a server that is up runs with the server's rows.
LEMMA RunsWithRows ==
  ASSUME NInv, NEW s \in DOMAIN server, isWGserverUp(s)
  PROVE  running[server[s].name] = ConfText(s, server[s])
BY DEF NInv, RunningMatchesRows, ServersPlanned, ServersHeld, NamesDiffer, isWGserverUp, isUp

LEMMA ConfTextSame ==
  ASSUME NEW s, NEW row,
         getClientInterfacesFromServer(s)' = getClientInterfacesFromServer(s),
         \A k \in getClientInterfacesFromServer(s) :
           client'[k].ip_address = client[k].ip_address
  PROVE  ConfText(s, row)' = ConfText(s, row)
<1> DEFINE C == getClientInterfacesFromServer(s)
<1>1. [k \in C |-> {client[k].ip_address}]' = [k \in C |-> {client[k].ip_address}]
  OBVIOUS
<1> QED
  BY <1>1 DEF ConfText

\* Rows of other servers: their interfaces still run with them.
LEMMA OthersRun ==
  ASSUME NInv, NEW s, NEW n \in DOMAIN running, s \in DOMAIN server => server[s].name # n,
         running'[n] = running[n],
         \A t \in DOMAIN server \ {s} :
           /\ t \in DOMAIN server' /\ server'[t] = server[t]
           /\ getClientInterfacesFromServer(t)' = getClientInterfacesFromServer(t)
           /\ \A k \in getClientInterfacesFromServer(t) : client'[k] = client[k]
  PROVE  \E t \in DOMAIN server' : server'[t].name = n /\ running'[n] = ConfText(t, server[t])'
<1>1. PICK t \in DOMAIN server : server[t].name = n /\ running[n] = ConfText(t, server[t])
  BY DEF NInv, RunningMatchesRows
<1>2. t # s
  BY <1>1
<1>3. ConfText(t, server[t])' = ConfText(t, server[t])
  BY <1>2, ConfTextSame
<1> QED
  BY <1>1, <1>2, <1>3

\* What was read for a download stays right, or the download is outdated.
LEMMA DownloadStays ==
  ASSUME NInv, NEW gone, Outdate(gone) \/ (download' = download /\ gone = {}),
         \A k \in DOMAIN client \ gone :
           /\ k \in DOMAIN client' /\ client'[k] = client[k]
           /\ server'[client[k].server] = server[client[k].server]
  PROVE  download' \in DownloadRecord /\ DownloadCurrent'
<1>1. /\ download \in DownloadRecord /\ DownloadCurrent
  BY DEF NInv
<1>2. download' \in DownloadRecord
  BY <1>1 DEF Outdate, DownloadRecord
<1>3. /\ download'.at = download.at /\ download'.key = download.key
      /\ download'.ip_address = download.ip_address
      /\ download'.listen_port = download.listen_port
      /\ download'.AllowedIPs = download.AllowedIPs
      /\ ~download'.outdated => ~download.outdated /\ download.key \notin gone
  BY <1>1 DEF Outdate, DownloadRecord
<1>4. DownloadCurrent'
  <2> SUFFICES ASSUME ~download'.outdated, download.at \in {"loadServer", "done"}
               PROVE  DownloadCurrent'
    BY <1>3 DEF DownloadCurrent
  <2> DEFINE k == download.key
             s == client[k].server
  <2>1. /\ ~download.outdated /\ k \in DOMAIN client \ gone
        /\ download.ip_address = client[k].ip_address
        /\ download.at = "done" => /\ download.listen_port = server[s].listen_port
                                  /\ HostsOf(s) \subseteq download.AllowedIPs
    BY <1>1, <1>3 DEF DownloadCurrent
  <2>2. /\ k \in DOMAIN client' /\ client'[k] = client[k] /\ server'[s] = server[s]
    BY <2>1
  <2>3. HostsOf(s)' = HostsOf(s) /\ s' = s
    BY <1>3, <2>2 DEF HostsOf
  <2> QED
    BY <1>3, <2>1, <2>2, <2>3 DEF DownloadCurrent
<1> QED
  BY <1>2, <1>4

-----------------------------------------------------------------------------
\* Servers are created, edited and deleted

LEMMA NewName ==
  ASSUME RowsTyped
  PROVE  /\ makeServerNewName \in Nat
         /\ \A s \in DOMAIN server : server[s].name < makeServerNewName
<1> DEFINE taken == {server[s].name : s \in DOMAIN server}
           S == {n \in 0 .. MaxName + 1 : \A t \in taken : t < n}
<1>1. \A t \in taken : t \in 0 .. MaxName
  BY DEF RowsTyped, ServerRow
<1>2. MaxName + 1 \in S /\ S \subseteq Nat
  <2> HIDE DEF taken
  <2>1. MaxName + 1 \in 0 .. MaxName + 1 /\ \A t \in taken : t < MaxName + 1
    BY <1>1, NetworksAssumption
  <2> QED
    BY <2>1
<1>3. Least(S) \in S
  BY <1>2, LeastIsLeast
<1>4. Least(S) \in Nat /\ \A s \in DOMAIN server : server[s].name < Least(S)
  BY <1>2, <1>3
<1> QED
  BY <1>4 DEF makeServerNewName

\* A network that the form accepts begins where no other does.
LEMMA CleanNetworkDiffers ==
  ASSUME NEW others, NEW net \in Address, NEW mask \in Mask, CleanNetwork(others, net, mask)
  PROVE  IsNetwork(net, mask) /\ \A s \in others : server[s].ip_network # net
<1>1. IsNetwork(net, mask) /\ InNetwork(net, net, mask)
  BY Networks DEF CleanNetwork, InNetwork
<1> QED
  BY <1>1 DEF CleanNetwork

LEMMA CreatedServer ==
  ASSUME RowsTyped, ServersHeld,
         NEW s \in Server, NEW net \in Address, NEW mask \in Mask, NEW port \in Port,
         CreateNewServer(s, net, mask, port)
  PROVE  /\ RowsTyped' /\ ServersHeld'
         /\ s \notin DOMAIN server /\ DOMAIN server' = DOMAIN server \cup {s}
         /\ \A t \in DOMAIN server : server'[t] = server[t]
         /\ server'[s].ip_network = net /\ \A t \in DOMAIN server : server[t].ip_network # net
         /\ UNCHANGED <<client, running, download>>
<1> DEFINE row == createServerInterface(net, mask, port)
<1>1. /\ s \notin DOMAIN server /\ server' = Put(server, s, row)
      /\ UNCHANGED <<client, running, download>>
      /\ makeServerNewName <= MaxName
      /\ IsNetwork(net, mask) /\ \A t \in DOMAIN server : server[t].ip_network # net
  BY CleanNetworkDiffers DEF CreateNewServer
<1>2. /\ makeServerNewName \in 0 .. MaxName
      /\ \A t \in DOMAIN server : server[t].name # makeServerNewName
  BY <1>1, NewName, NetworksAssumption DEF RowsTyped, ServerRow
<1>3. NextHost(net, mask, 0) = FirstHost(net, mask) /\ FirstHost(net, mask) \in Address
  BY <1>1, ServerHost
<1>4. /\ row \in ServerRow /\ row.name = makeServerNewName
      /\ row.ip_network = net /\ row.ip_network_mask = mask
      /\ row.ip_address = FirstHost(net, mask)
  BY <1>2, <1>3 DEF createServerInterface, ServerRow
<1> HIDE DEF row
<1>5. /\ DOMAIN server' = DOMAIN server \cup {s} /\ server'[s] = row
      /\ \A t \in DOMAIN server : server'[t] = server[t] /\ t # s
  BY <1>1 DEF Put
<1>6. RowsTyped'
  BY <1>1, <1>4, <1>5 DEF RowsTyped
<1>7. ServersHeld'
  BY <1>1, <1>2, <1>4, <1>5 DEF ServersHeld, HoldsFirstHost, NamesDiffer
<1> QED
  BY <1>1, <1>4, <1>5, <1>6, <1>7

LEMMA CreateNewServerStep ==
  ASSUME NInv, NEW s \in Server, NEW net \in Address, NEW mask \in Mask, NEW port \in Port,
         CreateNewServer(s, net, mask, port)
  PROVE  NInv'
<1>1. /\ RowsTyped' /\ ServersHeld'
      /\ s \notin DOMAIN server /\ DOMAIN server' = DOMAIN server \cup {s}
      /\ \A t \in DOMAIN server : server'[t] = server[t] /\ t # s
      /\ server'[s].ip_network = net /\ \A t \in DOMAIN server : server[t].ip_network # net
      /\ UNCHANGED <<client, running, download>>
  BY CreatedServer DEF NInv, ServersPlanned
<1>2. ServersPlanned'
  BY <1>1 DEF NInv, ServersPlanned
<1>3. ClientsPlanned'
  BY <1>1 DEF NInv, ClientsPlanned, RowsTyped, HostsOf
<1>4. RunningMatchesRows'
  BY <1>1, OthersRun DEF RunningMatchesRows, getClientInterfacesFromServer
<1>5. download' \in DownloadRecord /\ DownloadCurrent'
  BY <1>1, DownloadStays DEF NInv, RowsTyped
<1> QED
  BY <1>1, <1>2, <1>3, <1>4, <1>5 DEF NInv

LEMMA RemovedServer ==
  ASSUME RowsTyped, ServersHeld, NEW s \in Server, RemoveServer(s)
  PROVE  /\ RowsTyped' /\ ServersHeld'
         /\ DOMAIN server' = DOMAIN server \ {s}
         /\ \A t \in DOMAIN server' : server'[t] = server[t]
         /\ DOMAIN client' = DOMAIN client \ getClientInterfacesFromServer(s)
         /\ \A k \in DOMAIN client' : client'[k] = client[k] /\ client[k].server # s
<1> DEFINE C == getClientInterfacesFromServer(s)
<1>1. server' = Delete(server, {s}) /\ client' = Delete(client, C)
  BY DEF RemoveServer
<1>2. /\ DOMAIN server' = DOMAIN server \ {s}
      /\ \A t \in DOMAIN server' : server'[t] = server[t]
      /\ DOMAIN client' = DOMAIN client \ C
      /\ \A k \in DOMAIN client' : client'[k] = client[k] /\ client[k].server # s
  BY <1>1 DEF Delete, Restrict, getClientInterfacesFromServer
<1>3. IsFiniteSet(DOMAIN client')
  BY <1>2, FS_Subset DEF RowsTyped
<1>4. RowsTyped'
  BY <1>2, <1>3 DEF RowsTyped
<1>5. ServersHeld'
  BY <1>2 DEF ServersHeld, HoldsFirstHost, NamesDiffer
<1> QED
  BY <1>2, <1>4, <1>5

LEMMA RemoveServerStep ==
  ASSUME NInv, NEW s \in Server, RemoveServer(s) PROVE NInv'
<1> DEFINE C == getClientInterfacesFromServer(s)
<1>1. s \in DOMAIN server /\ ~isWGserverUp(s) /\ running' = running /\ Outdate(C)
  BY DEF RemoveServer
<1>2. /\ DOMAIN server' = DOMAIN server \ {s}
      /\ \A t \in DOMAIN server' : server'[t] = server[t]
      /\ DOMAIN client' = DOMAIN client \ C
      /\ \A k \in DOMAIN client' : client'[k] = client[k] /\ client[k].server # s
      /\ RowsTyped' /\ ServersHeld'
  BY RemovedServer DEF NInv, ServersPlanned
<1>3. RowsTyped'
  BY <1>2
<1>4. ServersPlanned'
  BY <1>2 DEF NInv, ServersPlanned
<1>5. ClientsPlanned'
  BY <1>2, <1>3 DEF NInv, ClientsPlanned, RowsTyped, HostsOf
<1>6. \A t \in DOMAIN server \ {s} :
        /\ t \in DOMAIN server' /\ server'[t] = server[t]
        /\ getClientInterfacesFromServer(t)' = getClientInterfacesFromServer(t)
        /\ \A k \in getClientInterfacesFromServer(t) : client'[k] = client[k]
  BY <1>2 DEF getClientInterfacesFromServer
<1>7. \A n \in DOMAIN running : server[s].name # n
  BY <1>1 DEF isWGserverUp, isUp
<1>8. RunningMatchesRows'
  <2> SUFFICES ASSUME NEW n \in DOMAIN running
               PROVE  \E t \in DOMAIN server' :
                        server'[t].name = n /\ running'[n] = ConfText(t, server[t])'
    BY <1>1 DEF RunningMatchesRows
  <2> QED
    BY <1>1, <1>6, <1>7, OthersRun
<1>9. \A k \in DOMAIN client \ C :
         /\ k \in DOMAIN client' /\ client'[k] = client[k]
         /\ server'[client[k].server] = server[client[k].server]
  BY <1>2 DEF NInv, RowsTyped, getClientInterfacesFromServer
<1>10. download' \in DownloadRecord /\ DownloadCurrent'
  BY <1>1, <1>9, DownloadStays
<1> QED
  BY <1>3, <1>4, <1>5, <1>8, <1>10 DEF NInv

\* The clients of a server that is renumbered.
LEMMA RenumberedClients ==
  ASSUME RowsTyped, NEW s \in DOMAIN server, NEW net \in Address, NEW mask \in Mask,
         IsNetwork(net, mask), NEW C, C \subseteq DOMAIN client,
         LargeEnough(mask, C), NEW port,
         UpdateServerPeersIpAddresses(s, C, net, mask, port)
  PROVE  /\ DOMAIN client' = DOMAIN client
         /\ \A k \in DOMAIN client :
              /\ client'[k] \in ClientRow /\ client'[k].server = client[k].server
              /\ k \notin C => client'[k] = client[k]
         /\ \A k \in C :
              /\ client'[k].ip_address \in Hosts(net, mask)
              /\ client'[k].ip_address # FirstHost(net, mask)
         /\ \A j, k \in C : j # k => client'[j].ip_address # client'[k].ip_address
<1>0. PICK order \in Orders(C) :
        client' = [k \in DOMAIN client |->
                     IF k \in DOMAIN order
                     THEN updateIpAddress(client[k], NextHost(net, mask, order[k]))
                     ELSE client[k]]
  BY DEF UpdateServerPeersIpAddresses
<1>1. IsFiniteSet(C) /\ Cardinality(C) \in Nat
  BY FS_Subset, FS_CardinalityType DEF RowsTyped
<1>2. /\ NumAddresses[mask] \in Nat /\ NumAddresses[mask] - 3 >= Cardinality(C)
      /\ net \in Nat
  BY <1>1, Networks DEF LargeEnough
<1>3. /\ DOMAIN order = C
      /\ \A k \in C : order[k] \in Nat \ {0} /\ order[k] <= Cardinality(C)
      /\ \A j, k \in C : order[j] = order[k] => j = k
  BY <1>1 DEF Orders
<1>4. \A k \in C : order[k] \in Nat \ {0} /\ order[k] <= NumAddresses[mask] - 3
  BY <1>1, <1>2, <1>3
<1>5. \A k \in C :
        /\ NextHost(net, mask, order[k]) = FirstHost(net, mask) + order[k]
        /\ NextHost(net, mask, order[k]) \in Hosts(net, mask)
  BY <1>4, FollowingHosts
<1>6. FirstHost(net, mask) \in Nat /\ Hosts(net, mask) \subseteq Address
  BY <1>2 DEF FirstHost, Hosts
<1>7. \A k \in C : NextHost(net, mask, order[k]) # FirstHost(net, mask)
  BY <1>4, <1>5, <1>6
<1>8. \A j, k \in C : j # k => NextHost(net, mask, order[j]) # NextHost(net, mask, order[k])
  BY <1>3, <1>4, <1>5, <1>6
<1>9. ASSUME NEW k \in DOMAIN client
      PROVE  /\ client'[k] \in ClientRow /\ client'[k].server = client[k].server
             /\ k \notin C => client'[k] = client[k]
             /\ k \in C => client'[k].ip_address = NextHost(net, mask, order[k])
  <2>1. client[k] \in ClientRow
    BY DEF RowsTyped
  <2>2. CASE k \in C
    BY <1>0, <1>3, <1>5, <1>6, <2>1, <2>2 DEF updateIpAddress, ClientRow
  <2>3. CASE k \notin C
    BY <1>0, <1>3, <2>1, <2>3
  <2> QED
    BY <2>2, <2>3
<1> QED
  BY <1>0, <1>5, <1>7, <1>8, <1>9

\* The row of a server that is edited.
LEMMA EditedRow ==
  ASSUME RowsTyped, NEW s \in DOMAIN server, NEW net \in Address, NEW mask \in Mask,
         IsNetwork(net, mask), NEW port \in Port, NEW C,
         UpdateServerPeersIpAddresses(s, C, net, mask, port)
  PROVE  /\ DOMAIN server' = DOMAIN server
         /\ \A t \in DOMAIN server \ {s} : server'[t] = server[t]
         /\ server'[s] \in ServerRow
         /\ server'[s].name = server[s].name /\ server'[s].ip_network = net
         /\ server'[s].ip_network_mask = mask
         /\ server'[s].ip_address = FirstHost(net, mask)
<1> DEFINE row == updatePort(updateIpAddress(updateNetwork(server[s], net, mask),
                                             NextHost(net, mask, 0)), port)
<1>1. NextHost(net, mask, 0) = FirstHost(net, mask) /\ FirstHost(net, mask) \in Address
  BY ServerHost
<1>2. server[s] \in ServerRow
  BY DEF RowsTyped
<1>3. server' = [server EXCEPT ![s] = row]
  BY DEF UpdateServerPeersIpAddresses
<1>4. /\ row \in ServerRow
      /\ row.name = server[s].name /\ row.ip_network = net /\ row.ip_network_mask = mask
      /\ row.ip_address = FirstHost(net, mask)
  BY <1>1, <1>2 DEF updatePort, updateIpAddress, updateNetwork, ServerRow
<1> HIDE DEF row
<1> QED
  BY <1>3, <1>4

\* The row of a server whose port alone is edited.
LEMMA EditedPort ==
  ASSUME RowsTyped, NEW s \in DOMAIN server, NEW port \in Port,
         server' = [server EXCEPT ![s] = updatePort(@, port)]
  PROVE  /\ DOMAIN server' = DOMAIN server
         /\ \A t \in DOMAIN server \ {s} : server'[t] = server[t]
         /\ server'[s] \in ServerRow
         /\ \A t \in DOMAIN server :
              /\ server'[t].name = server[t].name
              /\ server'[t].ip_network = server[t].ip_network
              /\ server'[t].ip_network_mask = server[t].ip_network_mask
              /\ server'[t].ip_address = server[t].ip_address
<1>1. /\ DOMAIN server' = DOMAIN server
      /\ \A t \in DOMAIN server \ {s} : server'[t] = server[t]
      /\ server'[s] = [server[s] EXCEPT !.listen_port = port] /\ server[s] \in ServerRow
  BY DEF updatePort, RowsTyped
<1>2. /\ server'[s] \in ServerRow /\ server'[s].name = server[s].name
      /\ server'[s].ip_network = server[s].ip_network
      /\ server'[s].ip_network_mask = server[s].ip_network_mask
      /\ server'[s].ip_address = server[s].ip_address
  BY <1>1 DEF ServerRow
<1> QED
  BY <1>1, <1>2

LEMMA UpdateServerStep ==
  ASSUME NInv, NEW s \in Server, NEW net \in Address, NEW mask \in Mask, NEW port \in Port,
         UpdateServer(s, net, mask, port)
  PROVE  NInv'
<1> DEFINE C == getClientInterfacesFromServer(s)
<1>1. /\ s \in DOMAIN server /\ ~isWGserverUp(s) /\ running' = running
      /\ IsNetwork(net, mask)
      /\ \A t \in DOMAIN server \ {s} : server[t].ip_network # net
      /\ C \subseteq DOMAIN client
      /\ Outdate(IF server' = server THEN {} ELSE C)
  BY CleanNetworkDiffers DEF UpdateServer, MayEdit, getClientInterfacesFromServer
<1>2. /\ DOMAIN server' = DOMAIN server
      /\ \A t \in DOMAIN server \ {s} : server'[t] = server[t]
      /\ server'[s] \in ServerRow /\ server'[s].name = server[s].name
      /\ DOMAIN client' = DOMAIN client
      /\ \A k \in DOMAIN client :
           /\ client'[k] \in ClientRow /\ client'[k].server = client[k].server
           /\ k \notin C => client'[k] = client[k]
      /\ ServersPlanned' /\ ClientsPlanned'
      /\ server' = server => client' = client
  <2>1. CASE NetworkChanged(s, net, mask)
    <3>1. /\ LargeEnough(mask, C)
          /\ UpdateServerPeersIpAddresses(s, C, net, mask, port)
      BY <2>1 DEF UpdateServer
    <3>2. RowsTyped
      BY DEF NInv
    <3> HIDE DEF C
    <3>3. /\ DOMAIN server' = DOMAIN server
          /\ \A t \in DOMAIN server \ {s} : server'[t] = server[t]
          /\ server'[s] \in ServerRow
          /\ server'[s].name = server[s].name /\ server'[s].ip_network = net
          /\ server'[s].ip_network_mask = mask
          /\ server'[s].ip_address = FirstHost(net, mask)
      BY <1>1, <3>1, <3>2, EditedRow
    <3>4. /\ DOMAIN client' = DOMAIN client
          /\ \A k \in DOMAIN client :
               /\ client'[k] \in ClientRow /\ client'[k].server = client[k].server
               /\ k \notin C => client'[k] = client[k]
          /\ \A k \in C :
               /\ client'[k].ip_address \in Hosts(net, mask)
               /\ client'[k].ip_address # FirstHost(net, mask)
          /\ \A j, k \in C : j # k => client'[j].ip_address # client'[k].ip_address
      BY <1>1, <3>1, <3>2, RenumberedClients
    <3>5. \A k \in DOMAIN client : k \in C <=> client[k].server = s
      BY DEF C, getClientInterfacesFromServer
    <3>6. ServersPlanned'
      BY <1>1, <3>3 DEF NInv, ServersPlanned, ServersHeld, HoldsFirstHost, NamesDiffer
    <3>7. ClientsPlanned'
      <4> SUFFICES ASSUME NEW k \in DOMAIN client
                   PROVE  /\ client'[k].ip_address \in HostsOf(client[k].server)'
                          /\ client'[k].ip_address # server'[client[k].server].ip_address
                          /\ \A j \in DOMAIN client \ {k} :
                               client[j].server = client[k].server =>
                                 client'[j].ip_address # client'[k].ip_address
        BY <3>4 DEF ClientsPlanned, HostsOf
      <4>1. CASE k \in C
        BY <3>3, <3>4, <3>5, <4>1 DEF HostsOf
      <4>2. CASE k \notin C
        BY <3>2, <3>3, <3>4, <3>5, <4>2 DEF NInv, ClientsPlanned, RowsTyped, HostsOf
      <4> QED
        BY <4>1, <4>2
    <3>8. server' # server
      BY <2>1, <3>3 DEF NetworkChanged
    <3> QED
      BY <3>3, <3>4, <3>6, <3>7, <3>8
  <2>2. CASE ~NetworkChanged(s, net, mask)
    <3>1. server' = [server EXCEPT ![s] = updatePort(@, port)] /\ client' = client
      BY <2>2 DEF UpdateServer
    <3>2. /\ DOMAIN server' = DOMAIN server
          /\ \A t \in DOMAIN server \ {s} : server'[t] = server[t]
          /\ server'[s] \in ServerRow
      BY <1>1, <3>1, EditedPort DEF NInv
    <3>3. server'[s].name = server[s].name
      BY <1>1, <3>1, EditedPort DEF NInv
    <3>4. \A t \in DOMAIN server :
            /\ server'[t].name = server[t].name
            /\ server'[t].ip_network = server[t].ip_network
            /\ server'[t].ip_network_mask = server[t].ip_network_mask
            /\ server'[t].ip_address = server[t].ip_address
      BY <1>1, <3>1, EditedPort DEF NInv
    <3>5. ServersPlanned'
      BY <3>2, <3>4 DEF NInv, ServersPlanned, ServersHeld, HoldsFirstHost, NamesDiffer
    <3>6. ClientsPlanned'
      BY <3>1, <3>4 DEF NInv, ClientsPlanned, RowsTyped, HostsOf
    <3> QED
      BY <3>1, <3>2, <3>3, <3>5, <3>6 DEF NInv, RowsTyped
  <2> QED
    BY <2>1, <2>2
<1>3. RowsTyped'
  BY <1>1, <1>2 DEF NInv, RowsTyped
<1>4. \A t \in DOMAIN server \ {s} :
        /\ t \in DOMAIN server' /\ server'[t] = server[t]
        /\ getClientInterfacesFromServer(t)' = getClientInterfacesFromServer(t)
        /\ \A k \in getClientInterfacesFromServer(t) : client'[k] = client[k]
  BY <1>2 DEF getClientInterfacesFromServer
<1>5. \A n \in DOMAIN running : server[s].name # n
  BY <1>1 DEF isWGserverUp, isUp
<1>6. RunningMatchesRows'
  <2> SUFFICES ASSUME NEW n \in DOMAIN running
               PROVE  \E t \in DOMAIN server' :
                        server'[t].name = n /\ running'[n] = ConfText(t, server[t])'
    BY <1>1 DEF RunningMatchesRows
  <2> QED
    BY <1>1, <1>4, <1>5, OthersRun
<1>7. download' \in DownloadRecord /\ DownloadCurrent'
  <2> DEFINE gone == IF server' = server THEN {} ELSE C
  <2>1. \A k \in DOMAIN client \ gone :
          /\ k \in DOMAIN client' /\ client'[k] = client[k]
          /\ server'[client[k].server] = server[client[k].server]
    BY <1>2 DEF NInv, RowsTyped, getClientInterfacesFromServer
  <2>2. Outdate(gone)
    BY <1>1
  <2> HIDE DEF gone
  <2> QED
    BY <2>1, <2>2, DownloadStays
<1> QED
  BY <1>2, <1>3, <1>6, <1>7 DEF NInv

-----------------------------------------------------------------------------
\* Clients are created and deleted

LEMMA CreateNewClientStep ==
  ASSUME NInv, NEW k \in Client, NEW s \in Server, CreateNewClient(k, s) PROVE NInv'
<1> DEFINE a == Least(FreeAddresses(s, server[s]))
           row == [server |-> s, ip_address |-> a]
           C == getClientInterfacesFromServer(s)
           name == server[s].name
<1>1. /\ k \notin DOMAIN client /\ s \in DOMAIN server
      /\ client' = Put(client, k, row)
      /\ addWGPeer(name, k, client'[k].ip_address)
      /\ server' = server /\ download' = download
  BY DEF CreateNewClient, createClientInterface
<1>2. /\ a \in HostsOf(s) /\ a \in Address /\ a # server[s].ip_address
      /\ \A j \in C : client[j].ip_address # a
  <2>1. FreeAddresses(s, server[s]) \subseteq Nat /\ FreeAddresses(s, server[s]) # {}
    BY DEF CreateNewClient, FreeAddresses, Hosts, Address
  <2>2. a \in FreeAddresses(s, server[s])
    BY <2>1, LeastIsLeast
  <2> HIDE DEF a
  <2> QED
    BY <2>2 DEF FreeAddresses, HostsOf, Hosts
<1>3. row \in ClientRow /\ row.server = s /\ row.ip_address = a
  BY <1>2 DEF ClientRow
<1> HIDE DEF row, a
<1>4. /\ DOMAIN client' = DOMAIN client \cup {k} /\ client'[k] = row
      /\ \A j \in DOMAIN client : client'[j] = client[j] /\ j # k
  BY <1>1 DEF Put
<1>5. RowsTyped'
  <2>1. IsFiniteSet(DOMAIN client')
    BY <1>1, <1>4, FS_AddElement DEF NInv, RowsTyped
  <2> QED
    BY <1>1, <1>3, <1>4, <2>1 DEF NInv, RowsTyped
<1>6. ServersPlanned'
  BY <1>1 DEF NInv, ServersPlanned, ServersHeld, HoldsFirstHost, NamesDiffer
<1>7. ClientsPlanned'
  <2>1. \A t : HostsOf(t)' = HostsOf(t)
    BY <1>1 DEF HostsOf
  <2>2. \A j \in DOMAIN client : client[j].server = s => client[j].ip_address # a
    BY <1>2 DEF getClientInterfacesFromServer
  <2> QED
    BY <1>1, <1>2, <1>3, <1>4, <2>1, <2>2 DEF NInv, ClientsPlanned
<1>8. RunningMatchesRows'
  <2> SUFFICES ASSUME NEW n \in DOMAIN running'
               PROVE  \E t \in DOMAIN server' :
                        server'[t].name = n /\ running'[n] = ConfText(t, server[t])'
    BY DEF RunningMatchesRows
  <2>1. n \in DOMAIN running /\ (n # name => running'[n] = running[n])
    BY <1>1 DEF addWGPeer, isUp
  <2>2. CASE n # name
    <3>1. \A t \in DOMAIN server \ {s} :
            /\ t \in DOMAIN server' /\ server'[t] = server[t]
            /\ getClientInterfacesFromServer(t)' = getClientInterfacesFromServer(t)
            /\ \A j \in getClientInterfacesFromServer(t) : client'[j] = client[j]
      BY <1>1, <1>3, <1>4 DEF getClientInterfacesFromServer
    <3> QED
      BY <2>1, <2>2, <3>1, OthersRun
  <2>3. CASE n = name
    <3>1. isWGserverUp(s) /\ running[n] = ConfText(s, server[s])
      BY <1>1, <2>1, <2>3, RunsWithRows DEF isWGserverUp, isUp
    <3> DEFINE ip == [j \in DOMAIN client |-> client[j].ip_address]
               peers == [j \in C |-> {ip[j]}]
    <3>2. C \subseteq DOMAIN client /\ k \notin C /\ \A j \in C : ip[j] # a
      BY <1>1, <1>2 DEF getClientInterfacesFromServer
    <3>3. running[n] = [ip_address |-> server[s].ip_address,
                        ip_network_mask |-> server[s].ip_network_mask,
                        listen_port |-> server[s].listen_port, peers |-> peers]
      <4>1. peers = [j \in C |-> {client[j].ip_address}]
        BY <3>2
      <4> QED
        BY <3>1, <4>1 DEF ConfText
    <3>4. running' = [running EXCEPT ![n].peers = Allow(@, k, a)]
      BY <1>1, <1>3, <1>4, <2>1, <2>3 DEF addWGPeer, isUp
    <3>5. running'[n] = [running[n] EXCEPT !.peers = Allow(peers, k, a)]
      BY <2>1, <3>3, <3>4
    <3> DEFINE allowed == Allow(peers, k, a)
               clients == [j \in C' |-> {client'[j].ip_address}]
    <3>6. allowed = [j \in C \cup {k} |-> IF j = k THEN {a} ELSE {ip[j]}]
      <4>1. allowed = [j \in C \cup {k} |-> IF j = k THEN {a} ELSE peers[j] \ {a}]
        BY DEF Allow
      <4>2. \A j \in C : peers[j] \ {a} = {ip[j]}
        BY <3>2
      <4> QED
        BY <4>1, <4>2
    <3>7. C' = C \cup {k}
      BY <1>3, <1>4 DEF getClientInterfacesFromServer
    <3>8. [j \in C \cup {k} |-> IF j = k THEN {a} ELSE {ip[j]}] = clients
      BY <1>3, <1>4, <3>2, <3>7
    <3>9. running'[n] = [ip_address |-> server[s].ip_address,
                         ip_network_mask |-> server[s].ip_network_mask,
                         listen_port |-> server[s].listen_port, peers |-> clients]
      <4>1. allowed = clients
        BY <3>6, <3>8
      <4>2. running'[n] = [running[n] EXCEPT !.peers = clients]
        BY <3>5, <4>1
      <4> HIDE DEF peers, clients
      <4> QED
        BY <3>3, <4>2
    <3>10. running'[n] = ConfText(s, server[s])'
      BY <1>1, <3>9 DEF ConfText
    <3> QED
      BY <1>1, <2>3, <3>10
  <2> QED
    BY <2>2, <2>3
<1>9. download' \in DownloadRecord /\ DownloadCurrent'
  BY <1>1, <1>4, DownloadStays
<1> QED
  BY <1>5, <1>6, <1>7, <1>8, <1>9 DEF NInv

LEMMA RemovedClient ==
  ASSUME RowsTyped, NEW k \in Client, RemoveClient(k)
  PROVE  /\ RowsTyped' /\ DOMAIN client' = DOMAIN client \ {k}
         /\ \A j \in DOMAIN client' : client'[j] = client[j]
<1>1. server' = server /\ client' = Delete(client, {k})
  BY DEF RemoveClient
<1>2. /\ DOMAIN client' = DOMAIN client \ {k}
      /\ \A j \in DOMAIN client' : client'[j] = client[j]
  BY <1>1 DEF Delete, Restrict
<1>3. IsFiniteSet(DOMAIN client')
  BY <1>2, FS_Subset DEF RowsTyped
<1>4. RowsTyped'
  BY <1>1, <1>2, <1>3 DEF RowsTyped
<1> QED
  BY <1>2, <1>4

LEMMA RemoveClientStep ==
  ASSUME NInv, NEW k \in Client, RemoveClient(k) PROVE NInv'
<1>0. PICK s \in DOMAIN server : s = client[k].server
  BY DEF RemoveClient, NInv, RowsTyped
<1> DEFINE C == getClientInterfacesFromServer(s)
           name == server[s].name
<1>1. /\ k \in DOMAIN client /\ client' = Delete(client, {k}) /\ server' = server
      /\ removeWGPeer(name, k) /\ Outdate({k})
  BY <1>0 DEF RemoveClient
<1>2. /\ DOMAIN client' = DOMAIN client \ {k}
      /\ \A j \in DOMAIN client' : client'[j] = client[j]
  BY <1>1, RemovedClient DEF NInv
<1>3. RowsTyped'
  BY RemovedClient DEF NInv
<1>4. ServersPlanned'
  BY <1>1 DEF NInv, ServersPlanned, ServersHeld, HoldsFirstHost, NamesDiffer
<1>5. ClientsPlanned'
  <2> SUFFICES ASSUME NEW i \in DOMAIN client'
               PROVE  /\ client'[i].ip_address \in HostsOf(client[i].server)'
                      /\ client'[i].ip_address # server'[client'[i].server].ip_address
                      /\ \A j \in DOMAIN client' \ {i} :
                           client'[j].server = client'[i].server =>
                             client'[j].ip_address # client'[i].ip_address
    BY DEF ClientsPlanned, HostsOf
  <2>1. /\ server' = server
        /\ \A j \in DOMAIN client' : j \in DOMAIN client /\ client'[j] = client[j]
    BY <1>1, <1>2
  <2>2. i \in DOMAIN client /\ client'[i] = client[i]
    BY <2>1
  <2>3. client'[i].ip_address \in HostsOf(client[i].server)'
    BY <2>1, <2>2 DEF NInv, ClientsPlanned, HostsOf
  <2>4. client'[i].ip_address # server'[client'[i].server].ip_address
    BY <2>1, <2>2 DEF NInv, ClientsPlanned
  <2>5. \A j \in DOMAIN client' \ {i} :
          client'[j].server = client'[i].server => client'[j].ip_address # client'[i].ip_address
    BY <2>1, <2>2 DEF NInv, ClientsPlanned
  <2> QED
    BY <2>3, <2>4, <2>5
<1>6. RunningMatchesRows'
  <2> SUFFICES ASSUME NEW n \in DOMAIN running'
               PROVE  \E t \in DOMAIN server' :
                        server'[t].name = n /\ running'[n] = ConfText(t, server[t])'
    BY DEF RunningMatchesRows
  <2>1. n \in DOMAIN running /\ (n # name => running'[n] = running[n])
    BY <1>1 DEF removeWGPeer, isUp
  <2>2. CASE n # name
    <3>1. \A t \in DOMAIN server \ {s} :
            /\ t \in DOMAIN server' /\ server'[t] = server[t]
            /\ getClientInterfacesFromServer(t)' = getClientInterfacesFromServer(t)
            /\ \A j \in getClientInterfacesFromServer(t) : client'[j] = client[j]
      BY <1>0, <1>1, <1>2 DEF getClientInterfacesFromServer
    <3> QED
      BY <2>1, <2>2, <3>1, OthersRun
  <2>3. CASE n = name
    <3> DEFINE peers == [j \in C |-> {client[j].ip_address}]
               left == Delete(peers, {k})
               clients == [j \in {i \in DOMAIN client' : client'[i].server = s} |->
                             {client'[j].ip_address}]
    <3>1. running[n] = [ip_address |-> server[s].ip_address,
                        ip_network_mask |-> server[s].ip_network_mask,
                        listen_port |-> server[s].listen_port, peers |-> peers]
      <4>1. isWGserverUp(s)
        BY <1>1, <2>1, <2>3 DEF isWGserverUp, isUp
      <4>2. running[n] = ConfText(s, server[s])
        BY <1>1, <2>3, <4>1, RunsWithRows
      <4> QED
        BY <4>2 DEF ConfText
    <3>2. running' = [running EXCEPT ![n].peers = Delete(@, {k})]
      BY <1>1, <2>1, <2>3 DEF removeWGPeer, isUp
    <3>3. left = clients
      <4>1. left = [j \in C \ {k} |-> peers[j]]
        BY DEF Delete, Restrict
      <4>2. C \ {k} = {i \in DOMAIN client' : client'[i].server = s}
        BY <1>2 DEF getClientInterfacesFromServer
      <4>3. \A j \in C \ {k} : peers[j] = {client'[j].ip_address}
        BY <1>2 DEF getClientInterfacesFromServer
      <4> QED
        BY <4>1, <4>2, <4>3
    <3>4. running'[n] = [running[n] EXCEPT !.peers = left]
      BY <2>1, <3>1, <3>2
    <3>5. running'[n] = [ip_address |-> server[s].ip_address,
                         ip_network_mask |-> server[s].ip_network_mask,
                         listen_port |-> server[s].listen_port, peers |-> clients]
      <4>1. running'[n] = [running[n] EXCEPT !.peers = clients]
        BY <3>3, <3>4
      <4> HIDE DEF peers, clients
      <4> QED
        BY <3>1, <4>1
    <3>6. running'[n] = ConfText(s, server[s])'
      BY <1>1, <3>5 DEF ConfText, getClientInterfacesFromServer
    <3> QED
      BY <1>1, <2>3, <3>6
  <2> QED
    BY <2>2, <2>3
<1>7. download' \in DownloadRecord /\ DownloadCurrent'
  BY <1>1, <1>2, DownloadStays
<1> QED
  BY <1>3, <1>4, <1>5, <1>6, <1>7 DEF NInv

-----------------------------------------------------------------------------
\* Interfaces are started and stopped

\* The configuration of a server, its clients having addresses of their own.
LEMMA ConfTextLoaded ==
  ASSUME ClientsPlanned, NEW s, NEW row, NEW p \in Loaded(ConfText(s, row).peers)
  PROVE  p = ConfText(s, row).peers
<1> DEFINE C == getClientInterfacesFromServer(s)
           peers == [k \in C |-> {client[k].ip_address}]
<1>1. ConfText(s, row).peers = peers
  BY DEF ConfText
<1>2. \A k \in C : \E a : peers[k] = {a}
  OBVIOUS
<1>3. \A j, k \in C : j # k => peers[j] \cap peers[k] = {}
  BY DEF ClientsPlanned, getClientInterfacesFromServer
<1>4. peers = [k \in DOMAIN peers |-> peers[k]] /\ DOMAIN peers = C
  OBVIOUS
<1> HIDE DEF peers
<1> QED
  BY <1>1, <1>2, <1>3, <1>4, LoadedOwn

LEMMA StartServerStep ==
  ASSUME NInv, NEW s \in Server, StartServer(s) PROVE NInv'
<1> DEFINE name == server[s].name
           conf == ConfText(s, server[s])
<1>1. /\ s \in DOMAIN server /\ UNCHANGED <<server, client, download>>
      /\ restartWGserver(name, conf)
  BY DEF StartServer
<1>2. PICK peers \in Loaded(conf.peers) :
        running' = Put(running, name, [conf EXCEPT !.peers = peers])
  BY <1>1 DEF restartWGserver
<1>3. peers = conf.peers
  BY ConfTextLoaded DEF NInv
<1>4. [conf EXCEPT !.peers = peers] = conf
  BY <1>3 DEF ConfText
<1> HIDE DEF conf
<1>5. /\ DOMAIN running' = DOMAIN running \cup {name} /\ running'[name] = conf
      /\ \A n \in DOMAIN running : n # name => running'[n] = running[n]
  BY <1>2, <1>4 DEF Put
<1>6. \A t : /\ getClientInterfacesFromServer(t)' = getClientInterfacesFromServer(t)
            /\ HostsOf(t)' = HostsOf(t)
  BY <1>1 DEF getClientInterfacesFromServer, HostsOf
<1>7. conf' = conf
  BY <1>1, <1>6 DEF conf, ConfText
<1>8. RunningMatchesRows'
  <2> SUFFICES ASSUME NEW n \in DOMAIN running'
               PROVE  \E t \in DOMAIN server' :
                        server'[t].name = n /\ running'[n] = ConfText(t, server[t])'
    BY DEF RunningMatchesRows
  <2>1. CASE n = name
    BY <1>1, <1>5, <1>7, <2>1 DEF conf
  <2>2. CASE n # name
    BY <1>1, <1>5, <1>6, <2>2, OthersRun
  <2> QED
    BY <2>1, <2>2
<1>9. RowsTyped' /\ ServersPlanned' /\ ClientsPlanned'
  BY <1>1
  DEF NInv, RowsTyped, ServersPlanned, ServersHeld, HoldsFirstHost, NamesDiffer,
      ClientsPlanned, HostsOf
<1>10. download' \in DownloadRecord /\ DownloadCurrent'
  BY <1>1, DownloadStays
<1> QED
  BY <1>8, <1>9, <1>10 DEF NInv

LEMMA StopServerStep ==
  ASSUME NInv, NEW s \in Server, StopServer(s) PROVE NInv'
<1>1. /\ s \in DOMAIN server /\ UNCHANGED <<server, client, download>>
      /\ running' = Delete(running, {server[s].name})
  BY DEF StopServer
<1>2. /\ DOMAIN running' = DOMAIN running \ {server[s].name}
      /\ \A n \in DOMAIN running' : running'[n] = running[n]
  BY <1>1 DEF Delete, Restrict
<1>3. \A t : getClientInterfacesFromServer(t)' = getClientInterfacesFromServer(t)
  BY <1>1 DEF getClientInterfacesFromServer
<1>4. RunningMatchesRows'
  <2> SUFFICES ASSUME NEW n \in DOMAIN running'
               PROVE  \E t \in DOMAIN server' :
                        server'[t].name = n /\ running'[n] = ConfText(t, server[t])'
    BY DEF RunningMatchesRows
  <2> QED
    BY <1>1, <1>2, <1>3, OthersRun
<1>5. RowsTyped' /\ ServersPlanned' /\ ClientsPlanned'
  BY <1>1
  DEF NInv, RowsTyped, ServersPlanned, ServersHeld, HoldsFirstHost, NamesDiffer,
      ClientsPlanned, HostsOf
<1>6. download' \in DownloadRecord /\ DownloadCurrent'
  BY <1>1, DownloadStays
<1> QED
  BY <1>4, <1>5, <1>6 DEF NInv

-----------------------------------------------------------------------------
\* Configurations are downloaded

LEMMA RowsUnchanged ==
  ASSUME NInv, UNCHANGED rows
  PROVE  /\ RowsTyped' /\ ServersPlanned' /\ ClientsPlanned' /\ RunningMatchesRows'
         /\ \A s : HostsOf(s)' = HostsOf(s)
<1>1. \A t : /\ getClientInterfacesFromServer(t)' = getClientInterfacesFromServer(t)
            /\ HostsOf(t)' = HostsOf(t)
  BY DEF getClientInterfacesFromServer, HostsOf, rows
<1>2. RunningMatchesRows'
  <2> SUFFICES ASSUME NEW n \in DOMAIN running
               PROVE  \E t \in DOMAIN server' :
                        server'[t].name = n /\ running'[n] = ConfText(t, server[t])'
    BY DEF RunningMatchesRows, rows
  <2>1. PICK t \in DOMAIN server : server[t].name = n /\ running[n] = ConfText(t, server[t])
    BY DEF NInv, RunningMatchesRows
  <2>2. ConfText(t, server[t])' = ConfText(t, server[t])
    BY <1>1, ConfTextSame DEF rows
  <2> QED
    BY <2>1, <2>2 DEF rows
<1> QED
  BY <1>1, <1>2
  DEF NInv, RowsTyped, ServersPlanned, ServersHeld, HoldsFirstHost, NamesDiffer,
      ClientsPlanned, HostsOf, rows

LEMMA NoDownloadOK == NoDownload \in DownloadRecord
<1>1. 0 \in Address
  BY Sizes, NetworksAssumption DEF Address
<1> QED
  BY <1>1 DEF NoDownload, DownloadRecord

LEMMA DownloadStep ==
  ASSUME NInv, NEW k \in Client, Download(k) PROVE NInv'
<1>1. /\ UNCHANGED rows
      /\ download' = [NoDownload EXCEPT !.at = "getInterface", !.key = k]
  BY DEF Download
<1>2. download' \in DownloadRecord /\ download'.at = "getInterface"
  BY <1>1, NoDownloadOK DEF DownloadRecord
<1>3. DownloadCurrent'
  BY <1>2 DEF DownloadCurrent
<1> QED
  BY <1>1, <1>2, <1>3, RowsUnchanged DEF NInv

LEMMA GetInterfaceStep ==
  ASSUME NInv, GetInterface PROVE NInv'
<1> DEFINE k == download.key
<1>1. UNCHANGED rows /\ download \in DownloadRecord
  BY DEF GetInterface, NInv
<1>2. download' \in DownloadRecord /\ DownloadCurrent'
  <2>1. CASE k \in DOMAIN client
    <3>1. /\ download' = [download EXCEPT !.at = "loadServer",
                                         !.ip_address = client[k].ip_address]
          /\ client[k].ip_address \in Address
      BY <2>1 DEF GetInterface, NInv, RowsTyped, ClientRow
    <3>2. /\ download' \in DownloadRecord /\ download'.at = "loadServer" /\ download'.key = k
          /\ download'.ip_address = client[k].ip_address
      BY <1>1, <3>1 DEF DownloadRecord
    <3> QED
      BY <1>1, <2>1, <3>2 DEF DownloadCurrent, rows
  <2>2. CASE k \notin DOMAIN client
    <3>1. download' = NoDownload
      BY <2>2 DEF GetInterface
    <3> QED
      BY <3>1, NoDownloadOK DEF DownloadCurrent, NoDownload
  <2> QED
    BY <2>1, <2>2
<1> QED
  BY <1>1, <1>2, RowsUnchanged DEF NInv

LEMMA LoadServerStep ==
  ASSUME NInv, NEW full \in BOOLEAN, LoadServer(full) PROVE NInv'
<1> DEFINE k == download.key
<1>1. UNCHANGED rows /\ download \in DownloadRecord /\ download.at = "loadServer"
  BY DEF LoadServer, NInv
<1>2. download' \in DownloadRecord /\ DownloadCurrent'
  <2>1. CASE k \in DOMAIN client
    <3>1. PICK s \in DOMAIN server : s = client[k].server
      BY <2>1 DEF NInv, RowsTyped
    <3>2. /\ download' = [download EXCEPT !.at = "done", !.listen_port = server[s].listen_port,
                                         !.AllowedIPs = AllowedIPs(s, full)]
          /\ server[s].listen_port \in Port
      BY <2>1, <3>1 DEF LoadServer, NInv, RowsTyped, ServerRow
    <3>3. AllowedIPs(s, full) \subseteq Address /\ HostsOf(s) \subseteq AllowedIPs(s, full)
      BY DEF AllowedIPs, HostsOf, Hosts
    <3>4. /\ download' \in DownloadRecord /\ download'.at = "done" /\ download'.key = k
          /\ download'.ip_address = download.ip_address
          /\ download'.listen_port = server[s].listen_port
          /\ download'.AllowedIPs = AllowedIPs(s, full)
          /\ download'.outdated = download.outdated
      BY <1>1, <3>2, <3>3 DEF DownloadRecord
    <3>5. ~download.outdated => download.ip_address = client[k].ip_address
      BY <1>1 DEF NInv, DownloadCurrent
    <3>6. HostsOf(s)' = HostsOf(s)
      BY <1>1, RowsUnchanged
    <3> QED
      BY <1>1, <2>1, <3>1, <3>3, <3>4, <3>5, <3>6 DEF DownloadCurrent, rows
  <2>2. CASE k \notin DOMAIN client
    <3>1. download' = NoDownload
      BY <2>2 DEF LoadServer
    <3> QED
      BY <3>1, NoDownloadOK DEF DownloadCurrent, NoDownload
  <2> QED
    BY <2>1, <2>2
<1> QED
  BY <1>1, <1>2, RowsUnchanged DEF NInv

-----------------------------------------------------------------------------
\* ServerNetworks: the theorems

LEMMA InitNInv == Init => NInv
<1> SUFFICES ASSUME Init PROVE NInv
  OBVIOUS
<1>1. DOMAIN server = {} /\ DOMAIN client = {} /\ DOMAIN running = {} /\ download = NoDownload
  BY DEF Init
<1>2. RowsTyped /\ ServersPlanned /\ ClientsPlanned /\ RunningMatchesRows
  BY <1>1, FS_EmptySet
  DEF RowsTyped, ServersPlanned, ServersHeld, HoldsFirstHost, NamesDiffer, ClientsPlanned,
      RunningMatchesRows
<1>3. download \in DownloadRecord /\ DownloadCurrent
  BY <1>1, NoDownloadOK DEF DownloadCurrent, NoDownload
<1> QED
  BY <1>2, <1>3 DEF NInv

LEMMA NextNInv == NInv /\ [Next]_vars => NInv'
<1> SUFFICES ASSUME NInv, [Next]_vars PROVE NInv'
  OBVIOUS
<1>1. CASE Next
  BY <1>1, CreateNewServerStep, UpdateServerStep, CreateNewClientStep, RemoveClientStep,
     StartServerStep, StopServerStep, RemoveServerStep, DownloadStep, GetInterfaceStep,
     LoadServerStep
  DEF Next
<1>2. CASE UNCHANGED vars
  <2>1. UNCHANGED <<rows, download>>
    BY <1>2 DEF vars, rows
  <2>2. download' \in DownloadRecord /\ DownloadCurrent'
    BY <2>1, DownloadStays DEF rows
  <2> QED
    BY <2>1, <2>2, RowsUnchanged DEF NInv
<1> QED
  BY <1>1, <1>2

\* The inductive invariant: rows of networks and addresses, interfaces and downloads agree.
THEOREM NetworksInvariance == Spec => []NInv
BY InitNInv, NextNInv, PTL DEF Spec

\* The server and the clients of a network have different hosts of it, for networks of
\* any sizes and any sequence of creations, deletions and renumberings.
THEOREM AddressesPlanned == Spec => []AddressPlan
<1>1. NInv => AddressPlan
  BY NInvAddressPlan
<1> QED
  BY <1>1, NetworksInvariance, PTL

\* No two servers have the same address: networks begin at even addresses, so two with
\* the same first host begin at the same address, which the form refuses.
THEOREM ServersHaveOwnAddresses == Spec => []ServerAddressesDistinct
<1>1. NInv => ServerAddressesDistinct
  BY NInvServerAddressesDistinct
<1> QED
  BY <1>1, NetworksInvariance, PTL

\* An interface that is up runs with what the rows of its server say now.
THEOREM InterfacesMatchRows == Spec => []RunningMatchesRows
<1>1. NInv => RunningMatchesRows
  BY DEF NInv
<1> QED
  BY <1>1, NetworksInvariance, PTL

\* A downloaded configuration stays usable until the server is edited or the client
\* deleted, whatever other requests came between the statements of the download.
THEOREM DownloadsAreUsable == Spec => []DownloadUsable
<1>1. NInv => DownloadUsable
  BY NInvDownloadUsable
<1> QED
  BY <1>1, NetworksInvariance, PTL

\* No request gives a client another address but the edit of its server's network.
THEOREM OnlyEditsRenumber == Spec => RenumberedWithNetwork
<1> DEFINE A == \A k \in DOMAIN client \cap DOMAIN client' :
                  LET s == client[k].server IN
                    client'[k].ip_address # client[k].ip_address =>
                      /\ ~isWGserverUp(s)
                      /\ \/ server'[s].ip_network # server[s].ip_network
                         \/ server'[s].ip_network_mask # server[s].ip_network_mask
<1>1. NInv /\ [Next]_vars => [A]_vars
  <2> SUFFICES ASSUME NInv, Next PROVE A
    OBVIOUS
  <2>1. ASSUME client' = client PROVE A
    BY <2>1
  <2>2. ASSUME NEW s \in Server, NEW net \in Address, NEW mask \in Mask, NEW port \in Port,
               UpdateServer(s, net, mask, port)
        PROVE  A
    <3>1. CASE NetworkChanged(s, net, mask)
      <4> DEFINE C == getClientInterfacesFromServer(s)
      <4>1. /\ s \in DOMAIN server /\ ~isWGserverUp(s) /\ IsNetwork(net, mask)
            /\ UpdateServerPeersIpAddresses(s, C, net, mask, port)
        BY <2>2, <3>1, CleanNetworkDiffers DEF UpdateServer, MayEdit
      <4>2. \A k \in DOMAIN client :
              client'[k].ip_address # client[k].ip_address => client[k].server = s
        BY <4>1 DEF UpdateServerPeersIpAddresses, Orders, getClientInterfacesFromServer
      <4>3. server'[s].ip_network = net /\ server'[s].ip_network_mask = mask
        BY <4>1, EditedRow DEF NInv
      <4> QED
        BY <3>1, <4>1, <4>2, <4>3 DEF NetworkChanged
    <3>2. CASE ~NetworkChanged(s, net, mask)
      BY <2>1, <2>2, <3>2 DEF UpdateServer
    <3> QED
      BY <3>1, <3>2
  <2>3. ASSUME NEW k \in Client, NEW s \in Server, CreateNewClient(k, s) PROVE A
    BY <2>3 DEF CreateNewClient, Put
  <2>4. ASSUME NEW k \in Client, RemoveClient(k) PROVE A
    BY <2>4 DEF RemoveClient, Delete, Restrict
  <2>5. ASSUME NEW s \in Server, RemoveServer(s) PROVE A
    BY <2>5 DEF RemoveServer, Delete, Restrict
  <2> HIDE DEF A
  <2> QED
    BY <2>1, <2>2, <2>3, <2>4, <2>5
    DEF Next, CreateNewServer, StartServer, StopServer, Download, GetInterface, LoadServer, rows
<1> QED
  BY <1>1, NetworksInvariance, PTL DEF Spec, RenumberedWithNetwork

-----------------------------------------------------------------------------
\* Renumbering: the inductive invariant

\* The plan of ServerNetworks, for the clients that no edit overlapped.
InPlacePlanned ==
  \A k \in DOMAIN client \ stray :
    /\ client[k].ip_address \in HostsOf(client[k].server)
    /\ client[k].ip_address # server[client[k].server].ip_address
    /\ \A j \in DOMAIN client \ (stray \cup {k}) :
         client[j].server = client[k].server => client[j].ip_address # client[k].ip_address

\* The interface of the server stays down unless a start was under way, and a network
\* that is still to be set is large enough for the clients that were listed.
EditHeld ==
  edit.at # "idle" =>
    LET s == edit.server IN
    /\ s \in Server /\ edit.net \in Address /\ edit.mask \in Mask /\ edit.port \in Port
    /\ IsNetwork(edit.net, edit.mask)
    /\ \A k \in edit.listed \cap DOMAIN client : client[k].server = s
    /\ s \in DOMAIN server => server[s].name \notin DOMAIN running \ stale
    /\ edit.at = "commit" =>
         \/ LargeEnough(edit.mask, edit.listed)
         \/ s \in DOMAIN server => ~NetworkChanged(s, edit.net, edit.mask)

\* Nothing has the key of a client before the client is saved.
KeyUnused ==
  create.at \in {"allocate", "save"} =>
    /\ create.key \notin DOMAIN client \cup edit.listed
    /\ \A n \in DOMAIN running : create.key \notin DOMAIN running[n].peers
    /\ toggle.at = "start" => create.key \notin DOMAIN toggle.conf.peers

\* Unless an edit overlapped, the row that newkey loaded is the row still, and the
\* address it took from it is free until the client is saved, and the client's then.
CreateHeld ==
  create.at # "idle" =>
    LET s == create.server
        k == create.key
    IN
    /\ k \in Client
    /\ create.row.ip_network \in Address /\ create.row.ip_network_mask \in Mask
    /\ create.at = "save" => create.ip_address \in Address
    /\ create.at = "addPeer" /\ k \in DOMAIN client => client[k].server = s
    /\ create.at = "addPeer" /\ k \in DOMAIN client \ stray =>
         client[k].ip_address = create.ip_address
    /\ s \in DOMAIN server /\ k \notin stray =>
         /\ create.row.ip_network = server[s].ip_network
         /\ create.row.ip_network_mask = server[s].ip_network_mask
         /\ create.row.ip_address = server[s].ip_address
         /\ create.at = "save" => create.ip_address \in FreeAddresses(s, server[s])

HandlersTyped ==
  /\ edit = [at |-> edit.at, server |-> edit.server, net |-> edit.net, mask |-> edit.mask,
             port |-> edit.port, listed |-> edit.listed]
  /\ create = [at |-> create.at, key |-> create.key, server |-> create.server,
               row |-> create.row, ip_address |-> create.ip_address]
  /\ create.at \in {"idle", "allocate", "save", "addPeer"}
  /\ toggle = [at |-> toggle.at, server |-> toggle.server, row |-> toggle.row,
               conf |-> toggle.conf]

\* An interface's configuration, of which only peers is ever changed.
IsConf(c) ==
  c = [ip_address |-> c.ip_address, ip_network_mask |-> c.ip_network_mask,
       listen_port |-> c.listen_port, peers |-> c.peers]

ConfigurationsTyped ==
  /\ \A n \in DOMAIN running : IsConf(running[n])
  /\ toggle.at = "start" => IsConf(toggle.conf)

\* Configuration c agrees with the rows of server s and of its clients in place.
Agrees(c, s) ==
  /\ c.ip_address = server[s].ip_address
  /\ c.ip_network_mask = server[s].ip_network_mask
  /\ c.listen_port = server[s].listen_port
  /\ \A k \in InPlace(s) \cap DOMAIN c.peers : c.peers[k] \subseteq {client[k].ip_address}

\* Unless an edit or deletion overlapped, the row a start has loaded and the
\* configuration it has generated are those of the server still.
ToggleHeld ==
  toggle.at # "idle" =>
    LET s == toggle.server IN
    /\ s \in DOMAIN server => toggle.row.name = server[s].name
    /\ toggle.row.name \notin stale =>
         /\ s \in DOMAIN server /\ toggle.row = server[s]
         /\ toggle.at = "start" => Agrees(toggle.conf, s)

RInv ==
  /\ RowsTyped /\ ServersHeld /\ InPlacePlanned
  /\ HandlersTyped /\ EditHeld /\ KeyUnused /\ CreateHeld
  /\ ConfigurationsTyped /\ ToggleHeld
  /\ OnlyStaleDiffers

-----------------------------------------------------------------------------
\* The property of addresses follows

LEMMA RInvOnlyStraysMisplaced == ASSUME RInv PROVE OnlyStraysMisplaced
<1> SUFFICES ASSUME NEW s \in DOMAIN server
             PROVE  LET net == server[s].ip_network
                        last == net + NumAddresses[server[s].ip_network_mask] - 1
                        addresses == {client[k].ip_address : k \in InPlace(s)}
                    IN  /\ Cardinality(addresses) = Cardinality(InPlace(s))
                        /\ addresses \subseteq (net .. last) \ {server[s].ip_address}
                        /\ last > net + 1 => net \notin addresses /\ last \notin addresses
  BY DEF OnlyStraysMisplaced
<1> DEFINE net == server[s].ip_network
           mask == server[s].ip_network_mask
           size == NumAddresses[mask]
           clients == InPlace(s)
           own == {client[k].ip_address : k \in clients}
<1>1. Plan(s)
  BY ServersPlan DEF RInv, ServersHeld
<1>2. net \in Nat /\ size \in Nat /\ size >= 2
  BY <1>1, Networks DEF Plan
<1>3. own \subseteq Hosts(net, mask) \ {server[s].ip_address}
  BY DEF HostsOf, RInv, InPlacePlanned, InPlace, getClientInterfacesFromServer
<1>4. \A a \in Hosts(net, mask) : /\ a \in Nat /\ net <= a /\ a < net + size
                                  /\ size > 2 => a # net /\ a # net + size - 1
  BY <1>2 DEF Hosts, Address, InNetwork
<1>5. Cardinality(own) = Cardinality(clients)
  <2>1. IsFiniteSet(clients)
    BY FS_Subset DEF RInv, RowsTyped, InPlace, getClientInterfacesFromServer
  <2> DEFINE f == [k \in clients |-> client[k].ip_address]
  <2>2. f \in Bijection(clients, own)
    <3>1. f \in [clients -> own] /\ \A a \in own : \E k \in clients : f[k] = a
      OBVIOUS
    <3>2. \A j, k \in clients : f[j] = f[k] => j = k
      BY DEF RInv, InPlacePlanned, InPlace, getClientInterfacesFromServer
    <3> QED
      BY <3>1, <3>2 DEF Bijection, Injection, Surjection, IsInjective
  <2> QED
    BY <2>1, <2>2, FS_Bijection DEF ExistsBijection
<1> HIDE DEF own
<1>6. own \subseteq (net .. net + size - 1) \ {server[s].ip_address}
  <2> SUFFICES ASSUME NEW a \in Hosts(net, mask) PROVE a \in net .. net + size - 1
    BY <1>3
  <2>1. a \in Nat /\ net <= a /\ a < net + size
    BY <1>4
  <2> QED
    BY <1>2, <2>1
<1>7. net + size - 1 > net + 1 => net \notin own /\ net + size - 1 \notin own
  BY <1>2, <1>3, <1>4
<1> QED
  BY <1>5, <1>6, <1>7 DEF own

-----------------------------------------------------------------------------
\* What a step leaves as it is

\* The row of server s and the addresses of its clients in place, as far as they are in K.
Kept(s, K) ==
  /\ s \in DOMAIN server' /\ server'[s] = server[s]
  /\ \A k \in InPlace(s)' \cap K :
       k \in InPlace(s) /\ client'[k].ip_address = client[k].ip_address

LEMMA AgreesStays ==
  ASSUME NEW s, NEW c, Agrees(c, s), Kept(s, DOMAIN c.peers) PROVE Agrees(c, s)'
BY DEF Agrees, Kept

LEMMA InterfacesStay ==
  ASSUME OnlyStaleDiffers, DOMAIN running' \ stale' \subseteq DOMAIN running \ stale,
         \A n \in DOMAIN running' \ stale' :
           /\ running'[n] = running[n]
           /\ \A s \in DOMAIN server : server[s].name = n => Kept(s, DOMAIN running[n].peers)
  PROVE  OnlyStaleDiffers'
<1> SUFFICES ASSUME NEW n \in DOMAIN running' \ stale'
             PROVE  \E s \in DOMAIN server' : server'[s].name = n /\ Agrees(running[n], s)'
  BY DEF OnlyStaleDiffers, Agrees
<1>1. PICK s \in DOMAIN server : server[s].name = n /\ Agrees(running[n], s)
  BY DEF OnlyStaleDiffers, Agrees
<1>2. PICK c : c = running[n]
  OBVIOUS
<1>3. Agrees(c, s) /\ Kept(s, DOMAIN c.peers)
  BY <1>1, <1>2
<1>4. Agrees(c, s)' /\ running'[n] = c
  BY <1>2, <1>3, AgreesStays
<1>5. Agrees(running[n], s)'
  BY <1>4 DEF Agrees
<1> QED
  BY <1>1, <1>3, <1>5 DEF Kept

LEMMA ToggleStays ==
  ASSUME ToggleHeld, toggle' = toggle, stale \subseteq stale',
         toggle.server \in DOMAIN server' =>
           /\ toggle.server \in DOMAIN server
           /\ server'[toggle.server].name = server[toggle.server].name,
         toggle.row.name \notin stale' /\ toggle.server \in DOMAIN server =>
           \A K : (toggle.at = "start" => K = DOMAIN toggle.conf.peers) =>
                     Kept(toggle.server, K)
  PROVE  ToggleHeld'
<1> SUFFICES ASSUME toggle.at # "idle" PROVE ToggleHeld'
  BY DEF ToggleHeld
<1> DEFINE s == toggle.server
<1>1. s \in DOMAIN server' => toggle.row.name = server'[s].name
  BY DEF ToggleHeld
<1>2. ASSUME toggle.row.name \notin stale'
      PROVE  /\ s \in DOMAIN server' /\ toggle.row = server'[s]
             /\ toggle.at = "start" => Agrees(toggle.conf, s)'
  <2>1. /\ s \in DOMAIN server /\ toggle.row = server[s]
        /\ toggle.at = "start" => Agrees(toggle.conf, s)
    BY <1>2 DEF ToggleHeld
  <2>2. Kept(s, DOMAIN toggle.conf.peers)
    BY <1>2, <2>1
  <2>3. toggle.at = "start" => Agrees(toggle.conf, s)'
    BY <2>1, <2>2 DEF Agrees, Kept
  <2> QED
    BY <2>1, <2>2, <2>3 DEF Kept
<1> QED
  BY <1>1, <1>2 DEF ToggleHeld

\* Steps that change neither a row of a server or client nor an interface.
LEMMA QuietStep ==
  ASSUME RInv, UNCHANGED <<server, client, running>>,
         \/ stray' = stray
         \/ stray' = stray \ {create.key} /\ create.at \in {"allocate", "save"}
  PROVE  /\ RowsTyped' /\ ServersHeld' /\ InPlacePlanned'
         /\ \A s \in DOMAIN server : \A K : Kept(s, K)
         /\ DOMAIN running \ stale' \subseteq DOMAIN running \ stale => OnlyStaleDiffers'
<1>1. RowsTyped' /\ ServersHeld'
  BY DEF RInv, RowsTyped, ServersHeld, HoldsFirstHost, NamesDiffer
<1>2. DOMAIN client \ stray' = DOMAIN client \ stray
  BY DEF RInv, KeyUnused
<1>3. InPlacePlanned'
  BY <1>2 DEF RInv, InPlacePlanned, HostsOf
<1>4. \A s \in DOMAIN server : \A K : Kept(s, K)
  BY <1>2 DEF Kept, InPlace, getClientInterfacesFromServer
<1>5. DOMAIN running \ stale' \subseteq DOMAIN running \ stale => OnlyStaleDiffers'
  BY <1>4, InterfacesStay DEF RInv
<1> QED
  BY <1>1, <1>3, <1>4, <1>5

-----------------------------------------------------------------------------
\* The edit of a server

LEMMA EditServerStep ==
  ASSUME RInv, NEW s \in Server, NEW net \in Address, NEW mask \in Mask, NEW port \in Port,
         EditServer(s, net, mask, port)
  PROVE  RInv'
<1>1. /\ UNCHANGED <<server, client, running, create, toggle, stray, stale>>
      /\ s \in DOMAIN server /\ ~isWGserverUp(s) /\ IsNetwork(net, mask)
      /\ edit' = [at |-> NextOfEdit(s, net, mask), server |-> s, net |-> net, mask |-> mask,
                  port |-> port, listed |-> {}]
  BY CleanNetworkDiffers DEF EditServer, MayEdit, IdleEdit, vars
<1>2. /\ RowsTyped' /\ ServersHeld' /\ InPlacePlanned' /\ OnlyStaleDiffers'
      /\ \A t \in DOMAIN server : \A K : Kept(t, K)
  BY <1>1, QuietStep
<1>3. ToggleHeld'
  BY <1>1, <1>2, ToggleStays DEF RInv
<1>4. EditHeld'
  BY <1>1 DEF EditHeld, NextOfEdit, NetworkChanged, isWGserverUp, isUp
<1>5. KeyUnused'
  BY <1>1 DEF RInv, KeyUnused
<1>6. CreateHeld'
  BY <1>1 DEF RInv, CreateHeld, FreeAddresses, getClientInterfacesFromServer
<1>7. HandlersTyped' /\ ConfigurationsTyped'
  BY <1>1 DEF RInv, HandlersTyped, ConfigurationsTyped, IsConf
<1> QED
  BY <1>2, <1>3, <1>4, <1>5, <1>6, <1>7 DEF RInv

LEMMA IdleEditOK ==
  ASSUME RInv, edit' = IdleEdit, UNCHANGED <<create, toggle, running>>,
         create.at \in {"allocate", "save"} => create.key \notin DOMAIN client'
  PROVE  HandlersTyped' /\ EditHeld' /\ KeyUnused' /\ ConfigurationsTyped'
BY DEF RInv, IdleEdit, HandlersTyped, EditHeld, KeyUnused, ConfigurationsTyped, IsConf

LEMMA ListClientsStep ==
  ASSUME RInv, ListClients PROVE RInv'
<1> DEFINE clients == getClientInterfacesFromServer(edit.server)
<1>1. /\ UNCHANGED <<server, client, running, create, toggle, stray, stale>>
      /\ edit.at = "list"
      /\ edit' = IF LargeEnough(edit.mask, clients)
                 THEN [edit EXCEPT !.at = "commit", !.listed = clients] ELSE IdleEdit
  BY DEF ListClients, vars
<1>2. /\ RowsTyped' /\ ServersHeld' /\ InPlacePlanned' /\ OnlyStaleDiffers'
      /\ \A t \in DOMAIN server : \A K : Kept(t, K)
  BY <1>1, QuietStep
<1>3. ToggleHeld'
  BY <1>1, <1>2, ToggleStays DEF RInv
<1>4. CreateHeld'
  BY <1>1 DEF RInv, CreateHeld, FreeAddresses, getClientInterfacesFromServer
<1>5. HandlersTyped' /\ EditHeld' /\ KeyUnused' /\ ConfigurationsTyped'
  <2>1. CASE LargeEnough(edit.mask, clients)
    <3>1. /\ edit'.at = "commit" /\ edit'.server = edit.server /\ edit'.net = edit.net
          /\ edit'.mask = edit.mask /\ edit'.port = edit.port /\ edit'.listed = clients
          /\ HandlersTyped'
      BY <1>1, <2>1 DEF RInv, HandlersTyped
    <3>2. EditHeld'
      BY <1>1, <2>1, <3>1
      DEF RInv, EditHeld, getClientInterfacesFromServer, LargeEnough, NetworkChanged
    <3>3. KeyUnused' /\ ConfigurationsTyped'
      BY <1>1, <3>1
      DEF RInv, KeyUnused, ConfigurationsTyped, IsConf, getClientInterfacesFromServer
    <3> QED
      BY <3>1, <3>2, <3>3
  <2>2. CASE ~LargeEnough(edit.mask, clients)
    BY <1>1, <2>2, IdleEditOK DEF RInv, KeyUnused
  <2> QED
    BY <2>1, <2>2
<1> QED
  BY <1>2, <1>3, <1>4, <1>5 DEF RInv

LEMMA EditFailsStep ==
  ASSUME RInv, EditFails PROVE RInv'
<1>1. /\ UNCHANGED <<server, client, running, create, toggle, stray, stale>>
      /\ edit' = IdleEdit
  BY DEF EditFails, vars
<1>2. /\ RowsTyped' /\ ServersHeld' /\ InPlacePlanned' /\ OnlyStaleDiffers'
      /\ \A t \in DOMAIN server : \A K : Kept(t, K)
  BY <1>1, QuietStep
<1>3. ToggleHeld'
  BY <1>1, <1>2, ToggleStays DEF RInv
<1>4. CreateHeld'
  BY <1>1 DEF RInv, CreateHeld, FreeAddresses, getClientInterfacesFromServer
<1>5. HandlersTyped' /\ EditHeld' /\ KeyUnused' /\ ConfigurationsTyped'
  BY <1>1, IdleEditOK DEF RInv, KeyUnused
<1> QED
  BY <1>2, <1>3, <1>4, <1>5 DEF RInv

\* What the commit of an edit leaves to the other handlers: the servers but the one
\* edited, and their clients.
LEMMA CommitKeeps ==
  ASSUME RInv, edit.at # "idle", edit.server \in DOMAIN server,
         edit' = IdleEdit, UNCHANGED <<running, create, toggle>>,
         stale' = stale \cup StartedMeanwhile(edit.server),
         DOMAIN server' = DOMAIN server,
         \A t \in DOMAIN server \ {edit.server} : server'[t] = server[t],
         server'[edit.server].name = server[edit.server].name,
         DOMAIN client' = DOMAIN client,
         \A k \in DOMAIN client :
           /\ client'[k].server = client[k].server
           /\ client[k].server # edit.server => client'[k] = client[k],
         \A k \in DOMAIN client : client[k].server # edit.server /\ k \in stray => k \in stray'
  PROVE  HandlersTyped' /\ EditHeld' /\ KeyUnused' /\ ConfigurationsTyped' /\ ToggleHeld'
         /\ OnlyStaleDiffers'
<1> DEFINE s == edit.server
<1>1. HandlersTyped' /\ EditHeld' /\ KeyUnused' /\ ConfigurationsTyped'
  BY IdleEditOK DEF RInv, KeyUnused
<1>2. \A t \in DOMAIN server \ {s} : \A K : Kept(t, K)
  BY DEF Kept, InPlace, getClientInterfacesFromServer
<1>3. s \in DOMAIN server /\ server[s].name \notin DOMAIN running \ stale
  BY DEF RInv, EditHeld
<1>4. OnlyStaleDiffers'
  BY <1>2, <1>3, InterfacesStay DEF RInv
<1>5. ToggleHeld'
  <2>1. toggle.row.name \notin stale' /\ toggle.at # "idle" => toggle.server # s
    BY <1>3 DEF RInv, ToggleHeld, StartedMeanwhile
  <2>2. CASE toggle.at = "idle"
    BY <2>2 DEF ToggleHeld
  <2>3. CASE toggle.at # "idle"
    <3>1. toggle.server \in DOMAIN server' =>
            /\ toggle.server \in DOMAIN server
            /\ server'[toggle.server].name = server[toggle.server].name
      OBVIOUS
    <3>2. toggle.row.name \notin stale' /\ toggle.server \in DOMAIN server =>
            \A K : Kept(toggle.server, K)
      BY <1>2, <2>1, <2>3
    <3> QED
      BY <3>1, <3>2, ToggleStays DEF RInv
  <2> QED
    BY <2>2, <2>3
<1> QED
  BY <1>1, <1>4, <1>5

\* The creation that goes on is for another server, or its client is left behind.
LEMMA CommitKeepsCreate ==
  ASSUME RInv, edit.at # "idle", edit.server \in DOMAIN server, UNCHANGED create,
         DOMAIN server' = DOMAIN server,
         \A t \in DOMAIN server \ {edit.server} : server'[t] = server[t],
         DOMAIN client' = DOMAIN client,
         \A k \in DOMAIN client :
           /\ client'[k].server = client[k].server
           /\ client[k].server # edit.server => client'[k] = client[k],
         \A k \in stray \ (edit.listed \cap DOMAIN client) : k \in stray',
         create.at # "idle" /\ create.server = edit.server => create.key \in stray'
  PROVE  CreateHeld'
<1> SUFFICES ASSUME create.at # "idle" PROVE CreateHeld'
  BY DEF CreateHeld
<1> DEFINE s == create.server
           k == create.key
<1>1. /\ k \in Client
      /\ create.row.ip_network \in Address /\ create.row.ip_network_mask \in Mask
      /\ create.at = "save" => create.ip_address \in Address
      /\ create.at = "addPeer" /\ k \in DOMAIN client => client[k].server = s
  BY DEF RInv, CreateHeld
<1>2. CASE k \in stray'
  BY <1>1, <1>2 DEF CreateHeld
<1>3. CASE k \notin stray'
  <2>1. s # edit.server
    BY <1>3
  <2>2. k \notin edit.listed \cap DOMAIN client
    BY <1>1, <2>1 DEF RInv, HandlersTyped, KeyUnused, EditHeld
  <2>3. k \notin stray
    BY <1>3, <2>2
  <2>4. k \in DOMAIN client /\ create.at = "addPeer" =>
          client'[k] = client[k] /\ client[k].ip_address = create.ip_address
    BY <1>1, <2>1, <2>3 DEF RInv, CreateHeld
  <2>5. s \in DOMAIN server =>
          /\ server'[s] = server[s]
          /\ FreeAddresses(s, server[s])' = FreeAddresses(s, server[s])
    <3>1. getClientInterfacesFromServer(s)' = getClientInterfacesFromServer(s)
      BY DEF getClientInterfacesFromServer
    <3>2. \A j \in getClientInterfacesFromServer(s) : client'[j] = client[j]
      BY <2>1 DEF getClientInterfacesFromServer
    <3> QED
      BY <2>1, <3>1, <3>2 DEF FreeAddresses
  <2> QED
    BY <1>1, <2>1, <2>3, <2>4, <2>5 DEF RInv, CreateHeld
<1> QED
  BY <1>2, <1>3

LEMMA CommitEditStep ==
  ASSUME RInv, CommitEdit PROVE RInv'
<1> DEFINE s == edit.server
           C == edit.listed
           net == edit.net
           mask == edit.mask
<1>1. /\ edit.at = "commit" /\ s \in DOMAIN server /\ edit' = IdleEdit
      /\ stale' = stale \cup StartedMeanwhile(s)
      /\ UNCHANGED <<running, create, toggle>>
  BY DEF CommitEdit
<1>2. /\ s \in Server /\ net \in Address /\ mask \in Mask /\ edit.port \in Port
      /\ IsNetwork(net, mask)
      /\ \A k \in C \cap DOMAIN client : client[k].server = s
      /\ \/ LargeEnough(mask, C)
         \/ ~NetworkChanged(s, net, mask)
  BY <1>1 DEF RInv, EditHeld
<1>3. RowsTyped /\ ServersHeld /\ InPlacePlanned
  BY DEF RInv
<1>4. CASE NetworkChanged(s, net, mask)
  <2>1. /\ C \subseteq DOMAIN client
        /\ UpdateServerPeersIpAddresses(s, C, net, mask, edit.port)
        /\ stray' = (stray \ C) \cup CreatedMeanwhile(s)
    BY <1>1, <1>4 DEF CommitEdit
  <2> HIDE DEF C, net, mask
  <2>2. /\ DOMAIN server' = DOMAIN server
        /\ \A t \in DOMAIN server \ {s} : server'[t] = server[t]
        /\ server'[s] \in ServerRow
        /\ server'[s].name = server[s].name /\ server'[s].ip_network = net
        /\ server'[s].ip_network_mask = mask
        /\ server'[s].ip_address = FirstHost(net, mask)
    BY <1>1, <1>2, <1>3, <2>1, EditedRow
  <2>3. /\ DOMAIN client' = DOMAIN client
        /\ \A k \in DOMAIN client :
             /\ client'[k] \in ClientRow /\ client'[k].server = client[k].server
             /\ k \notin C => client'[k] = client[k]
        /\ \A k \in C :
             /\ client'[k].ip_address \in Hosts(net, mask)
             /\ client'[k].ip_address # FirstHost(net, mask)
        /\ \A j, k \in C : j # k => client'[j].ip_address # client'[k].ip_address
    BY <1>1, <1>2, <1>3, <1>4, <2>1, RenumberedClients
  <2>4. \A k \in C : k \in DOMAIN client /\ client[k].server = s
    BY <1>2, <2>1
  <2>5. RowsTyped'
    BY <1>1, <1>3, <2>2, <2>3 DEF RowsTyped
  <2>6. ServersHeld'
    BY <1>2, <1>3, <2>2 DEF ServersHeld, HoldsFirstHost, NamesDiffer
  <2>7. /\ \A k \in DOMAIN client \ stray' : client[k].server = s => k \in C
        /\ \A k \in DOMAIN client \ stray' : client[k].server # s => k \notin stray \cup C
    <3>1. getClientInterfacesFromServer(s) \ C \subseteq stray'
      BY <2>1 DEF CreatedMeanwhile, C
    <3> QED
      BY <2>1, <2>4, <3>1 DEF getClientInterfacesFromServer
  <2>8. InPlacePlanned'
    <3> SUFFICES ASSUME NEW k \in DOMAIN client \ stray'
                 PROVE  /\ client'[k].ip_address \in HostsOf(client[k].server)'
                        /\ client'[k].ip_address # server'[client[k].server].ip_address
                        /\ \A j \in DOMAIN client \ (stray' \cup {k}) :
                             client[j].server = client[k].server =>
                               client'[j].ip_address # client'[k].ip_address
      BY <2>3 DEF InPlacePlanned, HostsOf
    <3>1. CASE client[k].server = s
      BY <2>2, <2>3, <2>7, <3>1 DEF HostsOf
    <3>2. CASE client[k].server # s
      BY <1>3, <2>2, <2>3, <2>7, <3>2 DEF InPlacePlanned, RowsTyped, HostsOf
    <3> QED
      BY <3>1, <3>2
  <2>9. create.at # "idle" /\ create.server = s => create.key \in stray'
    BY <2>1 DEF CreatedMeanwhile, RInv, CreateHeld
  <2>10. \A k \in stray \ (C \cap DOMAIN client) : k \in stray'
    BY <2>1
  <2>11. CreateHeld'
    BY <1>1, <2>2, <2>3, <2>4, <2>9, <2>10, CommitKeepsCreate DEF C
  <2>12. /\ HandlersTyped' /\ EditHeld' /\ KeyUnused' /\ ConfigurationsTyped' /\ ToggleHeld'
         /\ OnlyStaleDiffers'
    BY <1>1, <2>2, <2>3, <2>4, <2>10, CommitKeeps
  <2> QED
    BY <2>5, <2>6, <2>8, <2>11, <2>12 DEF RInv
<1>5. CASE ~NetworkChanged(s, net, mask)
  <2>1. server' = [server EXCEPT ![s] = updatePort(@, edit.port)] /\ UNCHANGED <<client, stray>>
    BY <1>5 DEF CommitEdit
  <2>2. /\ DOMAIN server' = DOMAIN server
        /\ \A t \in DOMAIN server \ {s} : server'[t] = server[t]
        /\ server'[s] \in ServerRow
        /\ \A t \in DOMAIN server :
             /\ server'[t].name = server[t].name
             /\ server'[t].ip_network = server[t].ip_network
             /\ server'[t].ip_network_mask = server[t].ip_network_mask
             /\ server'[t].ip_address = server[t].ip_address
    BY <1>1, <1>2, <1>3, <2>1, EditedPort
  <2>3. RowsTyped'
    BY <1>1, <1>3, <2>1, <2>2 DEF RowsTyped
  <2>4. ServersHeld'
    BY <1>3, <2>2 DEF ServersHeld, HoldsFirstHost, NamesDiffer
  <2>5. InPlacePlanned'
    BY <1>3, <2>1, <2>2 DEF InPlacePlanned, RowsTyped, HostsOf
  <2>6. CreateHeld'
    BY <1>1, <2>1, <2>2 DEF RInv, CreateHeld, FreeAddresses, getClientInterfacesFromServer
  <2>7. /\ HandlersTyped' /\ EditHeld' /\ KeyUnused' /\ ConfigurationsTyped' /\ ToggleHeld'
        /\ OnlyStaleDiffers'
    BY <1>1, <2>1, <2>2, CommitKeeps
  <2> QED
    BY <2>3, <2>4, <2>5, <2>6, <2>7 DEF RInv
<1> QED
  BY <1>4, <1>5

-----------------------------------------------------------------------------
\* The creation of a client

LEMMA NewKeyStep ==
  ASSUME RInv, NEW k \in FreshKeys, NEW s \in Server, NewKey(k, s) PROVE RInv'
<1> DEFINE row == Restrict(server[s], DOMAIN server[s] \ {"listen_port"})
<1>1. /\ UNCHANGED <<server, client, running, edit, toggle, stray, stale>>
      /\ s \in DOMAIN server
      /\ create' = [at |-> "allocate", key |-> k, server |-> s, row |-> row, ip_address |-> 0]
  BY DEF NewKey, IdleCreate, vars
<1>2. /\ RowsTyped' /\ ServersHeld' /\ InPlacePlanned' /\ OnlyStaleDiffers'
      /\ \A t \in DOMAIN server : \A K : Kept(t, K)
  BY <1>1, QuietStep
<1>3. ToggleHeld'
  BY <1>1, <1>2, ToggleStays DEF RInv
<1>4. server[s] \in ServerRow
  BY <1>1 DEF RInv, RowsTyped
<1>5. /\ row.ip_network = server[s].ip_network /\ row.ip_network \in Address
      /\ row.ip_network_mask = server[s].ip_network_mask /\ row.ip_network_mask \in Mask
      /\ row.ip_address = server[s].ip_address
  BY <1>4 DEF Restrict, ServerRow
<1> HIDE DEF row
<1>6. CreateHeld'
  BY <1>1, <1>5 DEF CreateHeld, FreshKeys
<1>7. KeyUnused'
  BY <1>1 DEF KeyUnused, FreshKeys
<1>8. HandlersTyped' /\ EditHeld' /\ ConfigurationsTyped'
  BY <1>1
  DEF RInv, HandlersTyped, EditHeld, NetworkChanged, ConfigurationsTyped, IsConf
<1> QED
  BY <1>2, <1>3, <1>6, <1>7, <1>8 DEF RInv

LEMMA IdleCreateOK ==
  ASSUME RInv, create' = IdleCreate, UNCHANGED <<edit, toggle>>
  PROVE  HandlersTyped' /\ KeyUnused' /\ CreateHeld'
BY DEF RInv, IdleCreate, HandlersTyped, KeyUnused, CreateHeld

LEMMA AllocateIpAddressStep ==
  ASSUME RInv, AllocateIpAddress PROVE RInv'
<1> DEFINE s == create.server
           free == FreeAddresses(s, create.row)
<1>1. /\ UNCHANGED <<server, client, running, edit, toggle, stale>>
      /\ create.at = "allocate"
  BY DEF AllocateIpAddress, vars
<1>2. stray' = stray \/ stray' = stray \ {create.key}
  BY DEF AllocateIpAddress
<1>3. /\ RowsTyped' /\ ServersHeld' /\ InPlacePlanned' /\ OnlyStaleDiffers'
      /\ \A t \in DOMAIN server : \A K : Kept(t, K)
  BY <1>1, <1>2, QuietStep
<1>4. ToggleHeld'
  BY <1>1, <1>3, ToggleStays DEF RInv
<1>5. EditHeld' /\ ConfigurationsTyped'
  BY <1>1 DEF RInv, EditHeld, NetworkChanged, ConfigurationsTyped, IsConf
<1>6. HandlersTyped' /\ KeyUnused' /\ CreateHeld'
  <2>1. CASE free # {}
    <3>1. /\ create' = [create EXCEPT !.at = "save", !.ip_address = Least(free)]
          /\ stray' = stray
      BY <2>1 DEF AllocateIpAddress, createClientInterface
    <3>2. Least(free) \in free /\ free \subseteq Address
      <4>1. free \subseteq Address
        BY DEF FreeAddresses, Hosts
      <4>2. free \subseteq Nat
        BY <4>1 DEF Address
      <4> QED
        BY <2>1, <4>1, <4>2, LeastIsLeast
    <3> HIDE DEF free
    <3>3. /\ create'.at = "save" /\ create'.key = create.key /\ create'.server = s
          /\ create'.row = create.row /\ create'.ip_address = Least(free)
          /\ HandlersTyped'
      BY <1>1, <3>1 DEF RInv, HandlersTyped
    <3>4. KeyUnused'
      BY <1>1, <3>3 DEF RInv, KeyUnused
    <3>5. s \in DOMAIN server /\ create.key \notin stray =>
            Least(free) \in FreeAddresses(s, server[s])'
      <4>1. s \in DOMAIN server /\ create.key \notin stray => free = FreeAddresses(s, server[s])
        BY <1>1 DEF RInv, CreateHeld, free, FreeAddresses
      <4>2. FreeAddresses(s, server[s])' = FreeAddresses(s, server[s])
        BY <1>1, <3>3 DEF FreeAddresses, getClientInterfacesFromServer
      <4> QED
        BY <3>2, <4>1, <4>2
    <3>6. CreateHeld'
      BY <1>1, <3>1, <3>2, <3>3, <3>5 DEF RInv, CreateHeld
    <3> QED
      BY <3>3, <3>4, <3>6
  <2>2. CASE free = {}
    BY <1>1, <2>2, IdleCreateOK DEF AllocateIpAddress
  <2> QED
    BY <2>1, <2>2
<1> QED
  BY <1>3, <1>4, <1>5, <1>6 DEF RInv

LEMMA SaveClientFailsStep ==
  ASSUME RInv, SaveClientFails PROVE RInv'
<1>1. /\ UNCHANGED <<server, client, running, edit, toggle, stale>>
      /\ create.at = "save" /\ create' = IdleCreate /\ stray' = stray \ {create.key}
  BY DEF SaveClientFails, vars
<1>2. /\ RowsTyped' /\ ServersHeld' /\ InPlacePlanned' /\ OnlyStaleDiffers'
      /\ \A t \in DOMAIN server : \A K : Kept(t, K)
  BY <1>1, QuietStep
<1>3. ToggleHeld'
  BY <1>1, <1>2, ToggleStays DEF RInv
<1>4. EditHeld' /\ ConfigurationsTyped'
  BY <1>1 DEF RInv, EditHeld, NetworkChanged, ConfigurationsTyped, IsConf
<1> QED
  BY <1>1, <1>2, <1>3, <1>4, IdleCreateOK DEF RInv

LEMMA SaveClientStep ==
  ASSUME RInv, SaveClient PROVE RInv'
<1> DEFINE s == create.server
           k == create.key
           a == create.ip_address
<1>1. /\ UNCHANGED <<server, running, edit, toggle, stray, stale>>
      /\ create.at = "save" /\ s \in DOMAIN server
      /\ client' = Put(client, k, [server |-> s, ip_address |-> a])
      /\ create' = [create EXCEPT !.at = "addPeer"]
  BY DEF SaveClient
<1>2. /\ k \in Client /\ a \in Address
      /\ k \notin DOMAIN client \cup edit.listed
      /\ \A n \in DOMAIN running : k \notin DOMAIN running[n].peers
      /\ toggle.at = "start" => k \notin DOMAIN toggle.conf.peers
      /\ k \notin stray => a \in FreeAddresses(s, server[s])
  BY <1>1 DEF RInv, CreateHeld, KeyUnused
<1>3. /\ DOMAIN client' = DOMAIN client \cup {k}
      /\ client'[k].server = s /\ client'[k].ip_address = a
      /\ client'[k] = [server |-> s, ip_address |-> a]
      /\ \A j \in DOMAIN client : client'[j] = client[j] /\ j # k
  BY <1>1, <1>2 DEF Put
<1>4. RowsTyped'
  <2>1. IsFiniteSet(DOMAIN client')
    BY <1>3, FS_AddElement DEF RInv, RowsTyped
  <2>2. client'[k] \in ClientRow /\ s \in Server
    BY <1>1, <1>2, <1>3 DEF ClientRow, RInv, RowsTyped
  <2> QED
    BY <1>1, <1>2, <1>3, <2>1, <2>2 DEF RInv, RowsTyped
<1>5. ServersHeld'
  BY <1>1 DEF RInv, ServersHeld, HoldsFirstHost, NamesDiffer
<1>6. InPlacePlanned'
  <2>1. \A t : HostsOf(t)' = HostsOf(t)
    BY <1>1 DEF HostsOf
  <2>2. k \notin stray =>
          /\ a \in HostsOf(s) /\ a # server[s].ip_address
          /\ \A j \in DOMAIN client : client[j].server = s => client[j].ip_address # a
    BY <1>2 DEF FreeAddresses, HostsOf, getClientInterfacesFromServer
  <2> QED
    BY <1>1, <1>3, <2>1, <2>2 DEF RInv, InPlacePlanned
<1>7. \A t \in DOMAIN server : \A K : k \notin K => Kept(t, K)
  BY <1>1, <1>3 DEF Kept, InPlace, getClientInterfacesFromServer
<1>8. OnlyStaleDiffers'
  BY <1>1, <1>2, <1>7, InterfacesStay DEF RInv
<1>9. ToggleHeld'
  <2>1. CASE toggle.at = "start"
    BY <1>1, <1>2, <1>7, <2>1, ToggleStays DEF RInv
  <2>2. CASE toggle.at # "start"
    BY <1>1, <2>2 DEF RInv, ToggleHeld
  <2> QED
    BY <2>1, <2>2
<1>10. /\ create'.at = "addPeer" /\ create'.key = k /\ create'.server = s
       /\ create'.row = create.row /\ create'.ip_address = a
       /\ HandlersTyped'
  BY <1>1 DEF RInv, HandlersTyped
<1>11. KeyUnused'
  BY <1>10 DEF KeyUnused
<1>12. CreateHeld'
  BY <1>1, <1>3, <1>10 DEF RInv, CreateHeld
<1>13. EditHeld' /\ ConfigurationsTyped'
  BY <1>1, <1>2, <1>3 DEF RInv, EditHeld, NetworkChanged, ConfigurationsTyped, IsConf
<1> QED
  BY <1>4, <1>5, <1>6, <1>8, <1>9, <1>10, <1>11, <1>12, <1>13 DEF RInv

LEMMA AddPeerStep ==
  ASSUME RInv, AddPeer PROVE RInv'
<1> DEFINE name == create.row.name
           k == create.key
           a == create.ip_address
<1>1. /\ UNCHANGED <<server, client, edit, toggle, stray, stale>>
      /\ create.at = "addPeer" /\ create' = IdleCreate
      /\ addWGPeer(name, k, a)
  BY DEF AddPeer
<1>2. /\ DOMAIN running' = DOMAIN running
      /\ \A n \in DOMAIN running : n # name => running'[n] = running[n]
  BY <1>1 DEF addWGPeer, isUp
<1>3. RowsTyped' /\ ServersHeld' /\ InPlacePlanned'
  BY <1>1
  DEF RInv, RowsTyped, ServersHeld, HoldsFirstHost, NamesDiffer, InPlacePlanned, HostsOf
<1>4. \A t \in DOMAIN server : \A K : Kept(t, K)
  BY <1>1 DEF Kept, InPlace, getClientInterfacesFromServer
<1>5. ASSUME name \in DOMAIN running
      PROVE  /\ running'[name] = [running[name] EXCEPT !.peers = Allow(@, k, a)]
             /\ IsConf(running[name])
  <2>1. running' = [running EXCEPT ![name].peers = Allow(@, k, a)]
    BY <1>1, <1>5 DEF addWGPeer, isUp
  <2> QED
    BY <1>5, <2>1 DEF RInv, ConfigurationsTyped
<1>6. name \in DOMAIN running =>
        /\ IsConf(running'[name])
        /\ running'[name].ip_address = running[name].ip_address
        /\ running'[name].ip_network_mask = running[name].ip_network_mask
        /\ running'[name].listen_port = running[name].listen_port
        /\ running'[name].peers = Allow(running[name].peers, k, a)
  BY <1>5 DEF IsConf
<1>7. OnlyStaleDiffers'
  <2> SUFFICES ASSUME NEW n \in DOMAIN running \ stale
               PROVE  \E s \in DOMAIN server : server[s].name = n /\ Agrees(running[n], s)'
    BY <1>1, <1>2 DEF OnlyStaleDiffers, Agrees
  <2>1. PICK s \in DOMAIN server : server[s].name = n /\ Agrees(running[n], s)
    BY DEF RInv, OnlyStaleDiffers, Agrees
  <2>2. InPlace(s)' = InPlace(s)
    BY <1>1 DEF InPlace, getClientInterfacesFromServer
  <2>3. CASE n # name
    BY <1>1, <1>2, <2>1, <2>2, <2>3 DEF Agrees
  <2>4. CASE n = name
    <3>1. k \in InPlace(s) => client[k].ip_address = a
      BY <1>1 DEF RInv, CreateHeld, InPlace, getClientInterfacesFromServer
    <3>2. \A j \in InPlace(s) \cap DOMAIN Allow(running[n].peers, k, a) :
            Allow(running[n].peers, k, a)[j] \subseteq {client[j].ip_address}
      BY <2>1, <3>1 DEF Agrees, Allow
    <3> QED
      BY <1>1, <1>6, <2>1, <2>2, <2>4, <3>2 DEF Agrees
  <2> QED
    BY <2>1, <2>3, <2>4
<1>8. ToggleHeld'
  BY <1>1, <1>4, ToggleStays DEF RInv
<1>9. EditHeld' /\ ConfigurationsTyped'
  BY <1>1, <1>2, <1>6 DEF RInv, EditHeld, NetworkChanged, ConfigurationsTyped, IsConf
<1> QED
  BY <1>1, <1>3, <1>7, <1>8, <1>9, IdleCreateOK DEF RInv

-----------------------------------------------------------------------------
\* The start of an interface

LEMMA ToggleServerStep ==
  ASSUME RInv, NEW s \in Server, ToggleServer(s) PROVE RInv'
<1>1. /\ UNCHANGED <<server, client, running, edit, create, stray>>
      /\ s \in DOMAIN server /\ server[s].name \notin DOMAIN running
      /\ stale' = stale \ {server[s].name}
      /\ toggle' = [at |-> "generate", server |-> s, row |-> server[s], conf |-> << >>]
  BY DEF ToggleServer, IdleToggle, isWGserverUp, isUp, vars
<1>2. DOMAIN running \ stale' = DOMAIN running \ stale
  BY <1>1
<1>3. RowsTyped' /\ ServersHeld' /\ InPlacePlanned' /\ OnlyStaleDiffers'
  BY <1>1, <1>2, QuietStep
<1>4. ToggleHeld'
  BY <1>1 DEF ToggleHeld
<1>5. EditHeld'
  BY <1>1, <1>2 DEF RInv, EditHeld, NetworkChanged
<1>6. KeyUnused' /\ HandlersTyped' /\ ConfigurationsTyped'
  BY <1>1 DEF RInv, KeyUnused, HandlersTyped, ConfigurationsTyped, IsConf
<1>7. CreateHeld'
  BY <1>1 DEF RInv, CreateHeld, FreeAddresses, getClientInterfacesFromServer
<1> QED
  BY <1>3, <1>4, <1>5, <1>6, <1>7 DEF RInv

LEMMA GenerateConfStep ==
  ASSUME RInv, GenerateConf PROVE RInv'
<1> DEFINE s == toggle.server
<1>1. /\ UNCHANGED <<server, client, running, edit, create, stray, stale>>
      /\ toggle.at = "generate"
      /\ toggle' = IF s \in DOMAIN server
                   THEN [toggle EXCEPT !.at = "start", !.conf = ConfText(s, toggle.row)]
                   ELSE IdleToggle
  BY DEF GenerateConf, vars
<1>2. RowsTyped' /\ ServersHeld' /\ InPlacePlanned' /\ OnlyStaleDiffers'
  BY <1>1, QuietStep
<1>3. EditHeld'
  BY <1>1 DEF RInv, EditHeld, NetworkChanged
<1>4. CreateHeld'
  BY <1>1 DEF RInv, CreateHeld, FreeAddresses, getClientInterfacesFromServer
<1>5. HandlersTyped' /\ KeyUnused' /\ ConfigurationsTyped' /\ ToggleHeld'
  <2>1. CASE s \in DOMAIN server
    <3>1. PICK row, conf : row = toggle.row /\ conf = ConfText(s, row)
      OBVIOUS
    <3>2. /\ toggle'.at = "start" /\ toggle'.server = s
          /\ toggle'.row = row /\ toggle'.conf = conf
          /\ HandlersTyped'
      BY <1>1, <2>1, <3>1 DEF RInv, HandlersTyped
    <3>3. /\ conf.ip_address = row.ip_address
          /\ conf.ip_network_mask = row.ip_network_mask
          /\ conf.listen_port = row.listen_port
          /\ conf.peers = [k \in getClientInterfacesFromServer(s) |-> {client[k].ip_address}]
          /\ IsConf(conf)
      BY <3>1 DEF ConfText, IsConf
    <3>4. KeyUnused' /\ ConfigurationsTyped'
      BY <1>1, <3>2, <3>3
      DEF RInv, KeyUnused, ConfigurationsTyped, IsConf, getClientInterfacesFromServer
    <3>5. row = server[s] => Agrees(conf, s)
      BY <3>3 DEF Agrees, InPlace
    <3>6. Agrees(conf, s) => Agrees(conf, s)'
      BY <1>1, <2>1, QuietStep, AgreesStays
    <3>7. row.name \notin stale => row = server[s] /\ Agrees(toggle.conf, s)'
      BY <1>1, <3>1, <3>2, <3>5, <3>6 DEF RInv, ToggleHeld, Agrees
    <3>8. row.name = server[s].name
      BY <1>1, <2>1, <3>1 DEF RInv, ToggleHeld
    <3>9. ToggleHeld'
      BY <1>1, <2>1, <3>2, <3>7, <3>8 DEF ToggleHeld, Agrees
    <3> QED
      BY <3>2, <3>4, <3>9
  <2>2. CASE s \notin DOMAIN server
    BY <1>1, <2>2
    DEF RInv, IdleToggle, HandlersTyped, KeyUnused, ConfigurationsTyped, ToggleHeld, IsConf
  <2> QED
    BY <2>1, <2>2
<1> QED
  BY <1>2, <1>3, <1>4, <1>5 DEF RInv

LEMMA WgStartStep ==
  ASSUME RInv, WgStart PROVE RInv'
<1>0. PICK name, conf, s : name = toggle.row.name /\ conf = toggle.conf /\ s = toggle.server
  OBVIOUS
<1>1. /\ UNCHANGED <<server, client, edit, create, stray>>
      /\ toggle.at = "start" /\ toggle' = IdleToggle
      /\ restartWGserver(name, conf)
      /\ stale' = stale \cup {n \in {name} : edit.at # "idle" /\ edit.server = s}
  BY <1>0 DEF WgStart
<1>2. PICK peers \in Loaded(conf.peers) :
        running' = Put(running, name, [conf EXCEPT !.peers = peers])
  BY <1>1 DEF restartWGserver
<1>3. /\ DOMAIN peers = DOMAIN conf.peers
      /\ \A k \in DOMAIN peers : peers[k] \subseteq conf.peers[k]
  BY DEF Loaded
<1>4. IsConf(conf)
  BY <1>0, <1>1 DEF RInv, ConfigurationsTyped
<1>5. /\ DOMAIN running' = DOMAIN running \cup {name}
      /\ running'[name] = [conf EXCEPT !.peers = peers]
      /\ \A n \in DOMAIN running : n # name => running'[n] = running[n]
  BY <1>2 DEF Put
<1>6. /\ IsConf(running'[name])
      /\ running'[name].ip_address = conf.ip_address
      /\ running'[name].ip_network_mask = conf.ip_network_mask
      /\ running'[name].listen_port = conf.listen_port
      /\ running'[name].peers = peers
  BY <1>4, <1>5 DEF IsConf
<1>7. RowsTyped' /\ ServersHeld' /\ InPlacePlanned'
  BY <1>1
  DEF RInv, RowsTyped, ServersHeld, HoldsFirstHost, NamesDiffer, InPlacePlanned, HostsOf
<1>8. /\ s \in DOMAIN server => name = server[s].name
      /\ name \notin stale => s \in DOMAIN server /\ Agrees(conf, s)
  BY <1>0, <1>1 DEF RInv, ToggleHeld
<1>9. OnlyStaleDiffers'
  <2> SUFFICES ASSUME NEW n \in DOMAIN running' \ stale'
               PROVE  \E t \in DOMAIN server : server[t].name = n /\ Agrees(running[n], t)'
    BY <1>1 DEF OnlyStaleDiffers, Agrees
  <2>1. n \notin stale
    BY <1>1
  <2>2. \A t : InPlace(t)' = InPlace(t)
    BY <1>1 DEF InPlace, getClientInterfacesFromServer
  <2>3. CASE n = name
    <3>1. s \in DOMAIN server /\ server[s].name = n /\ Agrees(conf, s)
      BY <1>8, <2>1, <2>3
    <3>2. Agrees(running[n], s)'
      BY <1>1, <1>3, <1>6, <2>2, <2>3, <3>1 DEF Agrees
    <3> QED
      BY <3>1, <3>2
  <2>4. CASE n # name
    <3>1. n \in DOMAIN running \ stale /\ running'[n] = running[n]
      BY <1>5, <2>1, <2>4
    <3>2. PICK t \in DOMAIN server : server[t].name = n /\ Agrees(running[n], t)
      BY <3>1 DEF RInv, OnlyStaleDiffers, Agrees
    <3>3. Agrees(running[n], t)'
      BY <1>1, <2>2, <3>1, <3>2 DEF Agrees
    <3> QED
      BY <3>2, <3>3
  <2> QED
    BY <2>3, <2>4
<1>10. EditHeld'
  <2> SUFFICES ASSUME edit.at # "idle", edit.server \in DOMAIN server
               PROVE  server[edit.server].name \notin DOMAIN running' \ stale'
    BY <1>1 DEF RInv, EditHeld, NetworkChanged
  <2>1. server[edit.server].name \notin DOMAIN running \ stale
    BY DEF RInv, EditHeld
  <2>2. CASE server[edit.server].name # name
    BY <1>1, <1>5, <2>1, <2>2
  <2>3. CASE server[edit.server].name = name
    <3>1. name \notin stale => edit.server = s
      BY <1>8, <2>3 DEF RInv, ServersHeld, NamesDiffer
    <3> QED
      BY <1>1, <2>3, <3>1
  <2> QED
    BY <2>2, <2>3
<1>11. KeyUnused'
  BY <1>0, <1>1, <1>3, <1>5, <1>6 DEF RInv, KeyUnused, IdleToggle
<1>12. CreateHeld'
  BY <1>1 DEF RInv, CreateHeld, FreeAddresses, getClientInterfacesFromServer
<1>13. HandlersTyped' /\ ConfigurationsTyped' /\ ToggleHeld'
  BY <1>1, <1>5, <1>6
  DEF RInv, HandlersTyped, ConfigurationsTyped, ToggleHeld, IdleToggle, IsConf
<1> QED
  BY <1>7, <1>9, <1>10, <1>11, <1>12, <1>13 DEF RInv

-----------------------------------------------------------------------------
\* Other requests

LEMMA CreateStep ==
  ASSUME RInv, Create PROVE RInv'
<1>1. PICK s \in Server \ {edit.server, create.server, toggle.server},
           net \in Address, mask \in Mask, port \in Port :
        CreateNewServer(s, net, mask, port) /\ UNCHANGED <<handlers, stray, stale>>
  BY DEF Create
<1>2. /\ RowsTyped' /\ ServersHeld' /\ DOMAIN server' = DOMAIN server \cup {s}
      /\ \A t \in DOMAIN server : server'[t] = server[t]
      /\ UNCHANGED <<client, running, edit, create, toggle, stray, stale>>
  BY <1>1, CreatedServer DEF RInv, handlers
<1>3. InPlacePlanned'
  BY <1>2 DEF RInv, InPlacePlanned, RowsTyped, HostsOf
<1>4. \A t \in DOMAIN server : \A K : Kept(t, K)
  BY <1>2 DEF Kept, InPlace, getClientInterfacesFromServer
<1>5. OnlyStaleDiffers'
  BY <1>2, <1>4, InterfacesStay DEF RInv
<1>6. ToggleHeld'
  BY <1>1, <1>2, <1>4, ToggleStays DEF RInv
<1>7. EditHeld'
  BY <1>1, <1>2 DEF RInv, EditHeld, NetworkChanged
<1>8. CreateHeld'
  <2>1. \A t \in DOMAIN server : FreeAddresses(t, server[t])' = FreeAddresses(t, server[t])
    BY <1>2 DEF FreeAddresses, getClientInterfacesFromServer
  <2> QED
    BY <1>1, <1>2, <2>1 DEF RInv, CreateHeld
<1>9. HandlersTyped' /\ KeyUnused' /\ ConfigurationsTyped'
  BY <1>2 DEF RInv, HandlersTyped, KeyUnused, ConfigurationsTyped, IsConf
<1> QED
  BY <1>2, <1>3, <1>5, <1>6, <1>7, <1>8, <1>9 DEF RInv

\* Clients are deleted, and with them what is known of them.
LEMMA DeletedClients ==
  ASSUME RInv, UNCHANGED <<edit, create, toggle>>, RowsTyped', ServersHeld',
         DOMAIN server' \subseteq DOMAIN server,
         \A t \in DOMAIN server' : server'[t] = server[t],
         NEW gone, DOMAIN client' = DOMAIN client \ gone,
         \A k \in DOMAIN client' : client'[k] = client[k],
         stray' = stray \ gone,
         create.at # "idle" /\ create.server \in DOMAIN server' => create.key \notin gone
  PROVE  /\ InPlacePlanned' /\ CreateHeld' /\ HandlersTyped'
         /\ \A t \in DOMAIN server' : \A K : Kept(t, K)
<1>1. DOMAIN client' \ stray' \subseteq DOMAIN client \ stray
  OBVIOUS
<1>2. InPlacePlanned'
  <2> SUFFICES ASSUME NEW k \in DOMAIN client' \ stray'
               PROVE  /\ client'[k].ip_address \in HostsOf(client[k].server)'
                      /\ client'[k].ip_address # server'[client'[k].server].ip_address
                      /\ \A j \in DOMAIN client' \ (stray' \cup {k}) :
                           client'[j].server = client'[k].server =>
                             client'[j].ip_address # client'[k].ip_address
    BY DEF InPlacePlanned, HostsOf
  <2>1. /\ k \in DOMAIN client \ stray /\ client'[k] = client[k]
        /\ client[k].server \in DOMAIN server'
    BY <1>1 DEF RowsTyped
  <2>2. /\ client'[k].ip_address \in HostsOf(client[k].server)'
        /\ client'[k].ip_address # server'[client'[k].server].ip_address
    BY <2>1 DEF RInv, InPlacePlanned, HostsOf
  <2>3. \A j \in DOMAIN client' \ (stray' \cup {k}) :
          client'[j].server = client'[k].server => client'[j].ip_address # client'[k].ip_address
    BY <1>1, <2>1 DEF RInv, InPlacePlanned
  <2> QED
    BY <2>2, <2>3
<1>3. \A t \in DOMAIN server' : \A K : Kept(t, K)
  BY <1>1 DEF Kept, InPlace, getClientInterfacesFromServer
<1>4. HandlersTyped'
  BY DEF RInv, HandlersTyped
<1>5. CreateHeld'
  <2> SUFFICES ASSUME create.at # "idle" PROVE CreateHeld'
    BY DEF CreateHeld
  <2> DEFINE s == create.server
             k == create.key
  <2>1. /\ k \in Client
        /\ create.row.ip_network \in Address /\ create.row.ip_network_mask \in Mask
        /\ create.at = "save" => create.ip_address \in Address
        /\ create.at = "addPeer" /\ k \in DOMAIN client' => client'[k].server = s
    BY DEF RInv, CreateHeld
  <2>2. create.at = "addPeer" /\ k \in DOMAIN client' \ stray' =>
          client'[k].ip_address = create.ip_address
    BY <1>1 DEF RInv, CreateHeld
  <2>3. s \in DOMAIN server' =>
          /\ s \in DOMAIN server /\ server'[s] = server[s]
          /\ FreeAddresses(s, server[s]) \subseteq FreeAddresses(s, server[s])'
    BY DEF FreeAddresses, getClientInterfacesFromServer
  <2>4. s \in DOMAIN server' /\ k \notin stray' =>
          /\ create.row.ip_network = server'[s].ip_network
          /\ create.row.ip_network_mask = server'[s].ip_network_mask
          /\ create.row.ip_address = server'[s].ip_address
          /\ create.at = "save" => create.ip_address \in FreeAddresses(s, server[s])'
    BY <2>3 DEF RInv, CreateHeld
  <2> QED
    BY <2>1, <2>2, <2>4 DEF CreateHeld
<1> QED
  BY <1>2, <1>3, <1>4, <1>5

LEMMA RemoveStep ==
  ASSUME RInv, NEW k \in Client, Remove(k) PROVE RInv'
<1>0. PICK n : n = server[client[k].server].name
  OBVIOUS
<1>1. /\ UNCHANGED <<server, edit, create, toggle, stale>>
      /\ RemoveClient(k) /\ removeWGPeer(n, k)
      /\ stray' = stray \ {k}
      /\ create.at # "idle" => create.key # k
  BY <1>0 DEF Remove, RemoveClient, handlers
<1>2. /\ RowsTyped' /\ DOMAIN client' = DOMAIN client \ {k}
      /\ \A j \in DOMAIN client' : client'[j] = client[j]
  BY <1>1, RemovedClient DEF RInv
<1>3. ServersHeld'
  BY <1>1 DEF RInv, ServersHeld, HoldsFirstHost, NamesDiffer
<1>4. /\ InPlacePlanned' /\ CreateHeld' /\ HandlersTyped'
      /\ \A t \in DOMAIN server : \A K : Kept(t, K)
  BY <1>1, <1>2, <1>3, DeletedClients
<1>5. ToggleHeld'
  BY <1>1, <1>4, ToggleStays DEF RInv
<1>6. /\ DOMAIN running' = DOMAIN running
      /\ \A m \in DOMAIN running : m # n => running'[m] = running[m]
      /\ n \in DOMAIN running =>
           running'[n] = [running[n] EXCEPT !.peers = Delete(@, {k})]
  BY <1>1 DEF removeWGPeer, isUp
<1>7. \A m \in DOMAIN running :
        /\ IsConf(running'[m])
        /\ running'[m].ip_address = running[m].ip_address
        /\ running'[m].ip_network_mask = running[m].ip_network_mask
        /\ running'[m].listen_port = running[m].listen_port
        /\ DOMAIN running'[m].peers \subseteq DOMAIN running[m].peers
        /\ \A j \in DOMAIN running'[m].peers : running'[m].peers[j] = running[m].peers[j]
  <2> SUFFICES ASSUME NEW m \in DOMAIN running
               PROVE  /\ IsConf(running'[m])
                      /\ running'[m].ip_address = running[m].ip_address
                      /\ running'[m].ip_network_mask = running[m].ip_network_mask
                      /\ running'[m].listen_port = running[m].listen_port
                      /\ DOMAIN running'[m].peers \subseteq DOMAIN running[m].peers
                      /\ \A j \in DOMAIN running'[m].peers :
                           running'[m].peers[j] = running[m].peers[j]
    OBVIOUS
  <2>1. IsConf(running[m])
    BY DEF RInv, ConfigurationsTyped
  <2>2. CASE m # n
    BY <1>6, <2>1, <2>2
  <2>3. CASE m = n
    <3>1. running'[m] = [running[m] EXCEPT !.peers = Delete(running[m].peers, {k})]
      BY <1>6, <2>3
    <3>2. /\ IsConf(running'[m])
          /\ running'[m].ip_address = running[m].ip_address
          /\ running'[m].ip_network_mask = running[m].ip_network_mask
          /\ running'[m].listen_port = running[m].listen_port
          /\ running'[m].peers = Delete(running[m].peers, {k})
      BY <2>1, <3>1 DEF IsConf
    <3> QED
      BY <3>2 DEF Delete, Restrict
  <2> QED
    BY <2>2, <2>3
<1>8. OnlyStaleDiffers'
  <2> SUFFICES ASSUME NEW m \in DOMAIN running \ stale
               PROVE  \E s \in DOMAIN server : server[s].name = m /\ Agrees(running[m], s)'
    BY <1>1, <1>6 DEF OnlyStaleDiffers, Agrees
  <2>1. PICK s \in DOMAIN server : server[s].name = m /\ Agrees(running[m], s)
    BY DEF RInv, OnlyStaleDiffers, Agrees
  <2>2. Kept(s, DOMAIN running'[m].peers)
    BY <1>4
  <2>3. Agrees(running[m], s)'
    BY <1>1, <1>7, <2>1, <2>2 DEF Agrees, Kept
  <2> QED
    BY <2>1, <2>3
<1>9. EditHeld'
  BY <1>1, <1>2, <1>6 DEF RInv, EditHeld, NetworkChanged
<1>10. KeyUnused' /\ ConfigurationsTyped'
  BY <1>1, <1>2, <1>6, <1>7 DEF RInv, KeyUnused, ConfigurationsTyped, IsConf
<1> QED
  BY <1>2, <1>3, <1>4, <1>5, <1>8, <1>9, <1>10 DEF RInv

LEMMA DeleteInterfaceStep ==
  ASSUME RInv, NEW s \in Server, DeleteInterface(s) PROVE RInv'
<1> DEFINE C == getClientInterfacesFromServer(s)
<1>1. /\ UNCHANGED <<running, edit, create, toggle>>
      /\ s \in DOMAIN server /\ server[s].name \notin DOMAIN running
      /\ RemoveServer(s)
      /\ stray' = stray \ C /\ stale' = stale \cup StartedMeanwhile(s)
  BY DEF DeleteInterface, RemoveServer, isWGserverUp, isUp, handlers
<1>2. /\ RowsTyped' /\ ServersHeld' /\ DOMAIN server' = DOMAIN server \ {s}
      /\ \A t \in DOMAIN server' : server'[t] = server[t]
      /\ DOMAIN client' = DOMAIN client \ C
      /\ \A k \in DOMAIN client' : client'[k] = client[k]
  BY <1>1, RemovedServer DEF RInv
<1>3. create.at # "idle" /\ create.server \in DOMAIN server' => create.key \notin C
  BY <1>2 DEF RInv, HandlersTyped, KeyUnused, CreateHeld, getClientInterfacesFromServer
<1>4. /\ InPlacePlanned' /\ CreateHeld' /\ HandlersTyped'
      /\ \A t \in DOMAIN server' : \A K : Kept(t, K)
  BY <1>1, <1>2, <1>3, DeletedClients
<1>5. OnlyStaleDiffers'
  BY <1>1, <1>2, <1>4, InterfacesStay DEF RInv
<1>6. ToggleHeld'
  <2>1. toggle.at # "idle" /\ toggle.row.name \notin stale' => toggle.server # s
    BY <1>1 DEF RInv, ToggleHeld, StartedMeanwhile
  <2>2. CASE toggle.at = "idle"
    BY <1>1, <2>2 DEF ToggleHeld
  <2>3. CASE toggle.at # "idle"
    BY <1>1, <1>2, <1>4, <2>1, <2>3, ToggleStays DEF RInv
  <2> QED
    BY <2>2, <2>3
<1>7. EditHeld'
  BY <1>1, <1>2 DEF RInv, EditHeld, NetworkChanged
<1>8. KeyUnused' /\ ConfigurationsTyped'
  BY <1>1, <1>2 DEF RInv, KeyUnused, ConfigurationsTyped, IsConf
<1> QED
  BY <1>2, <1>4, <1>5, <1>6, <1>7, <1>8 DEF RInv

LEMMA StopStep ==
  ASSUME RInv, NEW s \in Server, Stop(s) PROVE RInv'
<1>1. /\ UNCHANGED <<server, client, edit, create, toggle, stray, stale>>
      /\ running' = Delete(running, {server[s].name})
  BY DEF Stop, StopServer, handlers
<1>2. /\ DOMAIN running' \subseteq DOMAIN running
      /\ \A n \in DOMAIN running' : running'[n] = running[n]
  BY <1>1 DEF Delete, Restrict
<1>3. RowsTyped' /\ ServersHeld' /\ InPlacePlanned'
  BY <1>1
  DEF RInv, RowsTyped, ServersHeld, HoldsFirstHost, NamesDiffer, InPlacePlanned, HostsOf
<1>4. \A t \in DOMAIN server : \A K : Kept(t, K)
  BY <1>1 DEF Kept, InPlace, getClientInterfacesFromServer
<1>5. OnlyStaleDiffers'
  BY <1>1, <1>2, <1>4, InterfacesStay DEF RInv
<1>6. ToggleHeld'
  BY <1>1, <1>4, ToggleStays DEF RInv
<1>7. CreateHeld'
  BY <1>1 DEF RInv, CreateHeld, FreeAddresses, getClientInterfacesFromServer
<1>8. EditHeld' /\ KeyUnused' /\ HandlersTyped' /\ ConfigurationsTyped'
  BY <1>1, <1>2
  DEF RInv, EditHeld, NetworkChanged, KeyUnused, HandlersTyped, ConfigurationsTyped, IsConf
<1> QED
  BY <1>3, <1>5, <1>6, <1>7, <1>8 DEF RInv

-----------------------------------------------------------------------------
\* Renumbering: what a client in place keeps

\* Nothing else starts an interface, and the name of a server is never edited.
NamesHeld ==
  /\ toggle.at # "idle" => toggle.row.name \notin DOMAIN running
  /\ create.at # "idle" /\ create.server \in DOMAIN server =>
       create.row.name = server[create.server].name

AInv == RInv /\ NamesHeld

\* What the commit of an edit leaves of the rows.
LEMMA CommittedRows ==
  ASSUME RInv, CommitEdit
  PROVE  /\ DOMAIN server' = DOMAIN server /\ DOMAIN client' = DOMAIN client
         /\ \A s \in DOMAIN server : server'[s].name = server[s].name
         /\ \A k \in DOMAIN client :
              client[k].server # edit.server => client'[k] = client[k]
<1> DEFINE s == edit.server
           net == edit.net
           mask == edit.mask
<1>1. /\ s \in DOMAIN server /\ s \in Server
      /\ net \in Address /\ mask \in Mask /\ edit.port \in Port /\ IsNetwork(net, mask)
      /\ \A k \in edit.listed \cap DOMAIN client : client[k].server = s
      /\ LargeEnough(mask, edit.listed) \/ ~NetworkChanged(s, net, mask)
      /\ RowsTyped
  BY DEF CommitEdit, RInv, EditHeld
<1>2. CASE NetworkChanged(s, net, mask)
  <2>1. /\ edit.listed \subseteq DOMAIN client
        /\ UpdateServerPeersIpAddresses(s, edit.listed, net, mask, edit.port)
    BY <1>2 DEF CommitEdit
  <2>2. /\ DOMAIN server' = DOMAIN server
        /\ \A t \in DOMAIN server \ {s} : server'[t] = server[t]
        /\ server'[s].name = server[s].name
    BY <1>1, <2>1, EditedRow
  <2>3. /\ DOMAIN client' = DOMAIN client
        /\ \A k \in DOMAIN client \ edit.listed : client'[k] = client[k]
    BY <1>1, <1>2, <2>1, RenumberedClients
  <2> QED
    BY <1>1, <2>2, <2>3
<1>3. CASE ~NetworkChanged(s, net, mask)
  <2>1. server' = [server EXCEPT ![s] = updatePort(@, edit.port)] /\ client' = client
    BY <1>3 DEF CommitEdit
  <2> QED
    BY <1>1, <2>1, EditedPort
<1> QED
  BY <1>2, <1>3

LEMMA InitNamesHeld == InitAll => NamesHeld
BY DEF InitAll, IdleCreate, IdleToggle, NamesHeld

LEMMA NextNamesHeld == AInv /\ [NextRequest]_allVars => NamesHeld'
<1> SUFFICES ASSUME AInv, [NextRequest]_allVars PROVE NamesHeld'
  OBVIOUS
<1> USE DEF AInv, NamesHeld
<1>1. ASSUME NEW s \in Server, NEW net \in Address, NEW mask \in Mask, NEW port \in Port,
             EditServer(s, net, mask, port)
      PROVE  NamesHeld'
  BY <1>1 DEF EditServer, vars
<1>2. CASE ListClients \/ EditFails
  BY <1>2 DEF ListClients, EditFails, vars
<1>3. CASE CommitEdit
  BY <1>3, CommittedRows DEF CommitEdit
<1>4. ASSUME NEW k \in FreshKeys, NEW s \in Server, NewKey(k, s) PROVE NamesHeld'
  <2>1. PICK row : row = Restrict(server[s], DOMAIN server[s] \ {"listen_port"})
    OBVIOUS
  <2>2. /\ UNCHANGED <<server, running, toggle>> /\ s \in DOMAIN server
        /\ create'.server = s /\ create'.row = row
    BY <1>4, <2>1 DEF NewKey, IdleCreate, vars
  <2>3. server[s] \in ServerRow
    BY <2>2 DEF RInv, RowsTyped
  <2>4. row.name = server[s].name
    BY <2>1, <2>3 DEF ServerRow, Restrict
  <2> QED
    BY <2>2, <2>4
<1>5. CASE AllocateIpAddress
  <2>1. /\ UNCHANGED <<server, running, toggle>> /\ create.at = "allocate"
        /\ \/ create' = IdleCreate
           \/ \E a : create' = [create EXCEPT !.at = "save", !.ip_address = a]
    BY <1>5 DEF AllocateIpAddress, vars
  <2>2. create'.at = "idle" \/ (create'.server = create.server /\ create'.row = create.row)
    <3>1. CASE create' = IdleCreate
      BY <3>1 DEF IdleCreate
    <3>2. ASSUME NEW a, create' = [create EXCEPT !.at = "save", !.ip_address = a]
          PROVE  create'.server = create.server /\ create'.row = create.row
      BY <3>2 DEF RInv, HandlersTyped
    <3> QED
      BY <2>1, <3>1, <3>2
  <2> QED
    BY <2>1, <2>2
<1>6. CASE SaveClient
  BY <1>6 DEF SaveClient, RInv, HandlersTyped
<1>7. CASE SaveClientFails
  BY <1>7 DEF SaveClientFails, IdleCreate, vars
<1>8. CASE AddPeer
  BY <1>8 DEF AddPeer, IdleCreate, addWGPeer, isUp
<1>9. ASSUME NEW s \in Server, ToggleServer(s) PROVE NamesHeld'
  BY <1>9 DEF ToggleServer, IdleToggle, isWGserverUp, isUp, vars
<1>10. CASE GenerateConf
  BY <1>10 DEF GenerateConf, IdleToggle, RInv, HandlersTyped, vars
<1>11. CASE WgStart
  BY <1>11 DEF WgStart, IdleToggle
<1>12. CASE Create
  <2>1. PICK s \in Server \ {edit.server, create.server, toggle.server},
             net \in Address, mask \in Mask, port \in Port :
          CreateNewServer(s, net, mask, port) /\ UNCHANGED <<handlers, stray, stale>>
    BY <1>12 DEF Create
  <2>2. /\ UNCHANGED <<running, create, toggle>> /\ create.server # s
        /\ DOMAIN server' = DOMAIN server \cup {s}
        /\ \A t \in DOMAIN server : server'[t] = server[t]
    BY <2>1 DEF CreateNewServer, Put, handlers
  <2> QED
    BY <2>2
<1>13. ASSUME NEW k \in Client, Remove(k) PROVE NamesHeld'
  BY <1>13 DEF Remove, RemoveClient, removeWGPeer, isUp, handlers
<1>14. ASSUME NEW s \in Server, Stop(s) \/ DeleteInterface(s) PROVE NamesHeld'
  BY <1>14
  DEF Stop, StopServer, DeleteInterface, RemoveServer, Delete, Restrict, handlers
<1>15. CASE UNCHANGED allVars
  BY <1>15 DEF allVars, vars, handlers
<1> QED
  BY <1>1, <1>2, <1>3, <1>4, <1>5, <1>6, <1>7, <1>8, <1>9, <1>10, <1>11, <1>12, <1>13,
     <1>14, <1>15
  DEF NextRequest

\* What OnlyStraysTakeAddresses says of client k of server s.
KeepsAddress(s, k) ==
  \/ client'[k].ip_address \in AllowedOn(s, k)'
  \/ ~isWGserverUp(s)'
  \/ \E j \in stray' \cup (Client \ DOMAIN client') :
       client'[k].ip_address \in AllowedOn(s, j)'

\* A step that changes neither the name and address nor the peer.
LEMMA PeerStays ==
  ASSUME NEW s \in DOMAIN server, NEW k \in Reached(s),
         server'[s].name = server[s].name, client'[k].ip_address = client[k].ip_address,
         server[s].name \in DOMAIN running' =>
           /\ k \in DOMAIN running'[server[s].name].peers
           /\ running'[server[s].name].peers[k] = running[server[s].name].peers[k]
  PROVE  KeepsAddress(s, k)
BY DEF KeepsAddress, Reached, AllowedOn, isWGserverUp, isUp

\* The only step that can give an address to another peer.
LEMMA AddPeerKeeps ==
  ASSUME AInv, AddPeer, NEW s \in DOMAIN server, NEW k \in Reached(s)
  PROVE  KeepsAddress(s, k)
<1>0. PICK n, j, a : n = server[s].name /\ j = create.key /\ a = create.ip_address
  OBVIOUS
<1>1. /\ UNCHANGED <<server, client, stray>>
      /\ create.at = "addPeer" /\ addWGPeer(create.row.name, j, a)
  BY <1>0 DEF AddPeer
<1>2. /\ k \in InPlace(s) /\ k \in DOMAIN client \ stray /\ client[k].server = s
      /\ n \in DOMAIN running /\ k \in DOMAIN running[n].peers
      /\ client[k].ip_address \in running[n].peers[k]
  BY <1>0 DEF Reached, InPlace, getClientInterfacesFromServer
<1>3. CASE create.row.name # n
  <2>1. running'[n] = running[n]
    BY <1>0, <1>1, <1>3 DEF addWGPeer, isUp
  <2> QED
    BY <1>0, <1>1, <1>2, <2>1, PeerStays
<1>4. CASE create.row.name = n
  <2>1. /\ running' = [running EXCEPT ![n].peers = Allow(@, j, a)]
        /\ IsConf(running[n])
    BY <1>0, <1>1, <1>2, <1>4 DEF addWGPeer, isUp, AInv, RInv, ConfigurationsTyped
  <2>2. n \in DOMAIN running' /\ running'[n].peers = Allow(running[n].peers, j, a)
    BY <1>0, <1>2, <2>1 DEF IsConf
  <2>3. /\ DOMAIN running'[n].peers = DOMAIN running[n].peers \cup {j}
        /\ running'[n].peers[j] = {a}
        /\ k # j => running'[n].peers[k] = running[n].peers[k] \ {a}
    BY <1>0, <1>2, <2>2 DEF Allow
  <2>4. CASE j \in DOMAIN client \ stray
    <3>1. client[j].server = create.server /\ client[j].ip_address = a
      BY <1>0, <1>1, <2>4 DEF AInv, RInv, CreateHeld
    <3>2. create.server = s
      <4>1. create.server \in DOMAIN server
        BY <1>0, <2>4, <3>1 DEF AInv, RInv, RowsTyped
      <4>2. server[create.server].name = n
        BY <1>0, <1>1, <1>4, <4>1 DEF AInv, NamesHeld
      <4> QED
        BY <1>0, <4>1, <4>2 DEF AInv, RInv, ServersHeld, NamesDiffer
    <3>3. k # j => client[k].ip_address # a
      <4>1. k # j /\ client[j].server = client[k].server =>
              client[j].ip_address # client[k].ip_address
        BY <1>0, <1>2, <2>4 DEF AInv, RInv, InPlacePlanned
      <4> QED
        BY <1>0, <1>2, <3>1, <3>2, <4>1
    <3>4. client[k].ip_address \in running'[n].peers[k]
      BY <1>0, <1>2, <2>3, <3>1, <3>3
    <3> QED
      BY <1>0, <1>1, <1>2, <2>2, <2>3, <3>4 DEF KeepsAddress, AllowedOn, isUp
  <2>5. CASE j \notin DOMAIN client \ stray
    <3>1. j \in stray' \cup (Client \ DOMAIN client')
      BY <1>0, <1>1, <2>5 DEF AInv, RInv, CreateHeld
    <3>2. CASE client[k].ip_address = a
      <4>1. client'[k].ip_address \in AllowedOn(s, j)'
        BY <1>0, <1>1, <2>2, <2>3, <3>2 DEF AllowedOn, isUp
      <4> QED
        BY <3>1, <4>1 DEF KeepsAddress
    <3>3. CASE client[k].ip_address # a
      <4>1. k # j
        BY <1>0, <1>2, <2>5
      <4> QED
        BY <1>0, <1>1, <1>2, <2>2, <2>3, <3>3, <4>1 DEF KeepsAddress, AllowedOn, isUp
    <3> QED
      BY <3>2, <3>3
  <2> QED
    BY <2>4, <2>5
<1> QED
  BY <1>3, <1>4

LEMMA StepKeepsAddress ==
  ASSUME AInv, [NextRequest]_allVars, NEW s \in DOMAIN server \cap DOMAIN server',
         NEW k \in Reached(s) \cap DOMAIN client'
  PROVE  KeepsAddress(s, k)
<1>1. /\ k \in DOMAIN client \ stray /\ client[k].server = s
      /\ server[s].name \in DOMAIN running \ stale
      /\ k \in DOMAIN running[server[s].name].peers
  BY DEF Reached, InPlace, getClientInterfacesFromServer
<1>2. CASE UNCHANGED <<server, client, running>>
  BY <1>1, <1>2, PeerStays
<1>3. CASE CommitEdit
  <2>1. edit.server # s
    BY <1>1, <1>3 DEF AInv, RInv, EditHeld, CommitEdit
  <2>2. running' = running
    BY <1>3 DEF CommitEdit
  <2>3. server'[s].name = server[s].name /\ client'[k] = client[k]
    BY <1>1, <1>3, <2>1, CommittedRows DEF AInv
  <2> QED
    BY <1>1, <2>2, <2>3, PeerStays
<1>4. CASE SaveClient
  <2>1. client'[k] = client[k] /\ UNCHANGED <<server, running>>
    BY <1>1, <1>4 DEF SaveClient, Put, AInv, RInv, KeyUnused
  <2> QED
    BY <1>1, <2>1, PeerStays
<1>5. CASE AddPeer
  BY <1>5, AddPeerKeeps
<1>6. CASE WgStart
  <2>1. UNCHANGED <<server, client>> /\ toggle.row.name # server[s].name
    BY <1>1, <1>6 DEF WgStart, AInv, NamesHeld
  <2>2. running'[server[s].name] = running[server[s].name]
    BY <1>1, <1>6, <2>1 DEF WgStart, restartWGserver, Put
  <2> QED
    BY <1>1, <2>1, <2>2, PeerStays
<1>7. CASE Create
  <2>1. PICK t \in Server, net \in Address, mask \in Mask, port \in Port :
          CreateNewServer(t, net, mask, port)
    BY <1>7 DEF Create
  <2>2. UNCHANGED <<client, running>> /\ server'[s] = server[s]
    BY <2>1 DEF CreateNewServer, Put
  <2> QED
    BY <1>1, <2>2, PeerStays
<1>8. ASSUME NEW j \in Client, Remove(j) PROVE KeepsAddress(s, k)
  <2>1. PICK n : n = server[client[j].server].name
    OBVIOUS
  <2>2. /\ server' = server /\ client' = Delete(client, {j}) /\ removeWGPeer(n, j)
    BY <1>8, <2>1 DEF Remove, RemoveClient
  <2>3. k # j /\ client'[k] = client[k]
    BY <2>2 DEF Delete, Restrict
  <2>4. /\ k \in DOMAIN running'[server[s].name].peers
        /\ running'[server[s].name].peers[k] = running[server[s].name].peers[k]
    <3>1. CASE n # server[s].name \/ n \notin DOMAIN running
      BY <1>1, <2>2, <3>1 DEF removeWGPeer, isUp
    <3>2. CASE n = server[s].name /\ n \in DOMAIN running
      <4>1. /\ running' = [running EXCEPT ![n].peers = Delete(@, {j})]
            /\ IsConf(running[n])
        BY <2>2, <3>2 DEF removeWGPeer, isUp, AInv, RInv, ConfigurationsTyped
      <4>2. running'[n].peers = Delete(running[n].peers, {j})
        BY <3>2, <4>1 DEF IsConf
      <4> QED
        BY <1>1, <2>3, <3>2, <4>2 DEF Delete, Restrict
    <3> QED
      BY <3>1, <3>2
  <2> QED
    BY <2>2, <2>3, <2>4, PeerStays
<1>9. ASSUME NEW t \in Server, DeleteInterface(t) PROVE KeepsAddress(s, k)
  <2>1. running' = running /\ server'[s] = server[s] /\ client'[k] = client[k]
    BY <1>9 DEF DeleteInterface, RemoveServer, Delete, Restrict
  <2> QED
    BY <1>1, <2>1, PeerStays
<1>10. ASSUME NEW t \in Server, Stop(t) PROVE KeepsAddress(s, k)
  <2>1. UNCHANGED <<server, client>> /\ running' = Delete(running, {server[t].name})
    BY <1>10 DEF Stop, StopServer
  <2>2. server[s].name \in DOMAIN running' =>
          running'[server[s].name] = running[server[s].name]
    BY <2>1 DEF Delete, Restrict
  <2> QED
    BY <1>1, <2>1, <2>2, PeerStays
<1>11. CASE \/ \E t \in Server, net \in Address, mask \in Mask, port \in Port :
                 EditServer(t, net, mask, port)
            \/ ListClients \/ EditFails
            \/ \E j \in FreshKeys, t \in Server : NewKey(j, t)
            \/ AllocateIpAddress \/ SaveClientFails \/ GenerateConf
            \/ \E t \in Server : ToggleServer(t)
            \/ UNCHANGED allVars
  <2>1. UNCHANGED <<server, client, running>>
    BY <1>11
    DEF EditServer, ListClients, EditFails, NewKey, AllocateIpAddress, SaveClientFails,
        GenerateConf, ToggleServer, allVars, vars
  <2> QED
    BY <1>2, <2>1
<1> QED
  BY <1>3, <1>4, <1>5, <1>6, <1>7, <1>8, <1>9, <1>10, <1>11 DEF NextRequest

-----------------------------------------------------------------------------
\* Renumbering: the theorems

LEMMA InitRInv == InitAll => RInv
<1> SUFFICES ASSUME InitAll PROVE RInv
  OBVIOUS
<1>1. /\ DOMAIN server = {} /\ DOMAIN client = {} /\ DOMAIN running = {}
      /\ edit = IdleEdit /\ create = IdleCreate /\ toggle = IdleToggle
  BY DEF InitAll, Init
<1>2. RowsTyped /\ ServersHeld /\ InPlacePlanned /\ OnlyStaleDiffers
  BY <1>1, FS_EmptySet
  DEF RowsTyped, ServersHeld, HoldsFirstHost, NamesDiffer, InPlacePlanned, OnlyStaleDiffers
<1>3. HandlersTyped /\ EditHeld /\ KeyUnused /\ CreateHeld /\ ConfigurationsTyped /\ ToggleHeld
  BY <1>1
  DEF HandlersTyped, EditHeld, KeyUnused, CreateHeld, ConfigurationsTyped, ToggleHeld,
      IdleEdit, IdleCreate, IdleToggle
<1> QED
  BY <1>2, <1>3 DEF RInv

LEMMA NextRInv == RInv /\ [NextRequest]_allVars => RInv'
<1> SUFFICES ASSUME RInv, [NextRequest]_allVars PROVE RInv'
  OBVIOUS
<1>1. CASE NextRequest
  BY <1>1, EditServerStep, ListClientsStep, CommitEditStep, EditFailsStep, NewKeyStep,
     AllocateIpAddressStep, SaveClientStep, SaveClientFailsStep, AddPeerStep,
     ToggleServerStep, GenerateConfStep, WgStartStep, CreateStep, RemoveStep, StopStep,
     DeleteInterfaceStep
  DEF NextRequest
<1>2. CASE UNCHANGED allVars
  <2>1. UNCHANGED <<server, client, running, edit, create, toggle, stray, stale>>
    BY <1>2 DEF allVars, vars, handlers
  <2>2. /\ RowsTyped' /\ ServersHeld' /\ InPlacePlanned' /\ OnlyStaleDiffers'
        /\ \A t \in DOMAIN server : \A K : Kept(t, K)
    BY <2>1, QuietStep
  <2>3. ToggleHeld'
    BY <2>1, <2>2, ToggleStays DEF RInv
  <2>4. CreateHeld'
    BY <2>1 DEF RInv, CreateHeld, FreeAddresses, getClientInterfacesFromServer
  <2>5. EditHeld' /\ KeyUnused' /\ HandlersTyped' /\ ConfigurationsTyped'
    BY <2>1
    DEF RInv, EditHeld, NetworkChanged, KeyUnused, HandlersTyped, ConfigurationsTyped, IsConf
  <2> QED
    BY <2>2, <2>3, <2>4, <2>5 DEF RInv
<1> QED
  BY <1>1, <1>2

\* The inductive invariant: what the handlers have read is so still, unless an edit or a
\* deletion overlapped them, which stray and stale then say.
THEOREM RequestInvariance == RequestSpec => []RInv
BY InitRInv, NextRInv, PTL DEF RequestSpec

\* An edit that overlaps the creation of a client leaves at most that client misplaced:
\* the others keep addresses of their own in their server's present network.
THEOREM OthersStayInPlace == RequestSpec => []OnlyStraysMisplaced
<1>1. RInv => OnlyStraysMisplaced
  BY RInvOnlyStraysMisplaced
<1> QED
  BY <1>1, RequestInvariance, PTL

\* An interface whose last start no edit or deletion of its server overlapped has the name
\* of a server, runs with the address, mask and port of its row, and lets none of its clients
\* in place use an address not its own.  Which peers there are it does not say: a client
\* deleted during a start can be among them, and one created then be missing.
THEOREM OthersMatchRows == RequestSpec => []OnlyStaleDiffers
<1>1. RInv => OnlyStaleDiffers
  BY DEF RInv
<1> QED
  BY <1>1, RequestInvariance, PTL

\* wg set, which can come long after the address was chosen, takes the address that a
\* client in place is reached at only for a client left behind by an edit or one deleted
\* with its server.
THEOREM OthersKeepAddresses == RequestSpec => OnlyStraysTakeAddresses
<1>1. InitAll => AInv
  BY InitRInv, InitNamesHeld DEF AInv
<1>2. AInv /\ [NextRequest]_allVars => AInv'
  BY NextRInv, NextNamesHeld DEF AInv
<1>3. AInv /\ [NextRequest]_allVars =>
        [\A s \in DOMAIN server \cap DOMAIN server' : \A k \in Reached(s) \cap DOMAIN client' :
           KeepsAddress(s, k)]_allVars
  BY StepKeepsAddress
<1> QED
  BY <1>1, <1>2, <1>3, PTL DEF RequestSpec, OnlyStraysTakeAddresses, KeepsAddress

=============================================================================
