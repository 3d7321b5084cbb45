---------------------------- MODULE Renumbering ----------------------------
(***************************************************************************)
(* The edit and deletion of a server interface against the two requests    *)
(* that depend on its row: the creation of a client and the start of the   *)
(* interface.  Edit, creation and start are answered statement by          *)
(* statement, one of each at a time, and the other requests of             *)
(* ServerNetworks come in between.                                         *)
(***************************************************************************)
EXTENDS ServerNetworks

VARIABLES
  edit,      \* the handler of serverinterfaceform, its form and what it has listed
  create,    \* the handler of newkey
  toggle,    \* the handler of toggleServer that starts an interface
  stray,     \* clients created during the last edit of their server's network
  stale      \* interfaces whose last start their server's edit or deletion overlapped

handlers == <<edit, create, toggle>>
allVars == <<vars, handlers, stray, stale>>

-----------------------------------------------------------------------------
IdleEdit ==
  [at |-> "idle", server |-> "none", net |-> 0, mask |-> 0, port |-> "none", listed |-> {}]
IdleCreate == [at |-> "idle", key |-> "none", server |-> "none", row |-> << >>, ip_address |-> 0]
IdleToggle == [at |-> "idle", server |-> "none", row |-> << >>, conf |-> << >>]

InitAll ==
  /\ Init
  /\ edit = IdleEdit
  /\ create = IdleCreate
  /\ toggle = IdleToggle
  /\ stray = {}
  /\ stale = {}

\* Key pairs are generated: a key that anything still holds is not generated again.
FreshKeys ==
  {k \in Client :
     /\ k \notin DOMAIN client \cup edit.listed
     /\ \A n \in DOMAIN running : k \notin DOMAIN running[n].peers
     /\ toggle.at = "start" => k \notin DOMAIN toggle.conf.peers}

-----------------------------------------------------------------------------
\* serverinterfaceform and updateServer

NextOfEdit(s, net, mask) == IF NetworkChanged(s, net, mask) THEN "list" ELSE "commit"

\* The interface is down and the form valid: the last time either is looked at.
EditServer(s, net, mask, port) ==
  /\ edit.at = "idle"
  /\ MayEdit(s)
  /\ CleanNetwork(DOMAIN server \ {s}, net, mask)
  /\ CleanListenPort(DOMAIN server \ {s}, port)
  /\ NetworkChanged(s, net, mask) \/ port # server[s].listen_port
  /\ edit' = [IdleEdit EXCEPT !.at = NextOfEdit(s, net, mask), !.server = s,
                              !.net = net, !.mask = mask, !.port = port]
  /\ UNCHANGED <<vars, create, toggle, stray, stale>>

\* A ValueError ends the edit before anything is saved.
ListClients ==
  /\ edit.at = "list"
  /\ LET clients == getClientInterfacesFromServer(edit.server) IN
       edit' = IF LargeEnough(edit.mask, clients)
               THEN [edit EXCEPT !.at = "commit", !.listed = clients]
               ELSE IdleEdit
  /\ UNCHANGED <<vars, create, toggle, stray, stale>>

\* What is under way for server s when its row changes.
CreatedMeanwhile(s) ==
  (getClientInterfacesFromServer(s) \ edit.listed)
    \cup {k \in Client : create.at # "idle" /\ create.server = s /\ create.key = k}

StartedMeanwhile(s) ==
  {n \in {server[s].name} : toggle.at # "idle" /\ toggle.server = s}

(* All updates in one transaction.  A row of the server or of a listed client
   that is gone is not updated, which raises, and nothing is saved. *)
CommitEdit ==
  LET s == edit.server IN
  /\ edit.at = "commit"
  /\ s \in DOMAIN server
  /\ edit' = IdleEdit
  /\ stale' = stale \cup StartedMeanwhile(s)
  /\ IF NetworkChanged(s, edit.net, edit.mask)
     THEN /\ edit.listed \subseteq DOMAIN client
          /\ UpdateServerPeersIpAddresses(s, edit.listed, edit.net, edit.mask, edit.port)
          /\ stray' = (stray \ edit.listed) \cup CreatedMeanwhile(s)
     ELSE /\ server' = [server EXCEPT ![s] = updatePort(@, edit.port)]
          /\ UNCHANGED <<client, stray>>
  /\ UNCHANGED <<running, download, create, toggle>>

EditFails ==
  /\ edit.at = "commit"
  /\ edit.server \in DOMAIN server => ~ edit.listed \subseteq DOMAIN client
  /\ edit' = IdleEdit
  /\ UNCHANGED <<vars, create, toggle, stray, stale>>

-----------------------------------------------------------------------------
\* newkey and createNewClient

\* The form loads the server interface, of which newkey uses all but the port.
NewKey(k, s) ==
  /\ create.at = "idle"
  /\ s \in DOMAIN server
  /\ create' = [IdleCreate EXCEPT !.at = "allocate", !.key = k, !.server = s,
       !.row = Restrict(server[s], DOMAIN server[s] \ {"listen_port"})]
  /\ UNCHANGED <<vars, edit, toggle, stray, stale>>

\* The first free address of the network the form loaded, or a ValueError.
AllocateIpAddress ==
  /\ create.at = "allocate"
  /\ IF FreeAddresses(create.server, create.row) # {}
     THEN /\ create' = [create EXCEPT !.at = "save",
               !.ip_address = createClientInterface(create.server, create.row).ip_address]
          /\ UNCHANGED stray
     ELSE /\ create' = IdleCreate
          /\ stray' = stray \ {create.key}
  /\ UNCHANGED <<vars, edit, toggle, stale>>

SaveClient ==
  /\ create.at = "save"
  /\ create.server \in DOMAIN server
  /\ client' = Put(client, create.key, [server |-> create.server, ip_address |-> create.ip_address])
  /\ create' = [create EXCEPT !.at = "addPeer"]
  /\ UNCHANGED <<server, running, download, edit, toggle, stray, stale>>

\* The Peer row would refer to a server that is gone.
SaveClientFails ==
  /\ create.at = "save"
  /\ create.server \notin DOMAIN server
  /\ create' = IdleCreate
  /\ stray' = stray \ {create.key}
  /\ UNCHANGED <<vars, edit, toggle, stale>>

AddPeer ==
  /\ create.at = "addPeer"
  /\ addWGPeer(create.row.name, create.key, create.ip_address)
  /\ create' = IdleCreate
  /\ UNCHANGED <<server, client, download, edit, toggle, stray, stale>>

-----------------------------------------------------------------------------
\* toggleServer and startWGserver

ToggleServer(s) ==
  /\ toggle.at = "idle"
  /\ s \in DOMAIN server
  /\ ~isWGserverUp(s)
  /\ toggle' = [IdleToggle EXCEPT !.at = "generate", !.server = s, !.row = server[s]]
  /\ stale' = stale \ {server[s].name}
  /\ UNCHANGED <<vars, edit, create, stray>>

\* Network and port of the row that was loaded, key and clients of now.
GenerateConf ==
  /\ toggle.at = "generate"
  /\ toggle' = IF toggle.server \in DOMAIN server
               THEN [toggle EXCEPT !.at = "start", !.conf = ConfText(toggle.server, toggle.row)]
               ELSE IdleToggle
  /\ UNCHANGED <<vars, edit, create, stray, stale>>

WgStart ==
  /\ toggle.at = "start"
  /\ restartWGserver(toggle.row.name, toggle.conf)
  /\ toggle' = IdleToggle
  /\ stale' = stale \cup {n \in {toggle.row.name} :
                            edit.at # "idle" /\ edit.server = toggle.server}
  /\ UNCHANGED <<server, client, download, edit, create, stray>>

-----------------------------------------------------------------------------
\* Other requests, each as a whole

\* The ids of rows that handlers refer to are not used again.
Create ==
  \E s \in Server \ {edit.server, create.server, toggle.server},
     net \in Address, mask \in Mask, port \in Port :
    CreateNewServer(s, net, mask, port) /\ UNCHANGED <<handlers, stray, stale>>

\* Not of a client whose creation has not ended: WgWeb has that race.
Remove(k) ==
  /\ create.at # "idle" => create.key # k
  /\ RemoveClient(k)
  /\ stray' = stray \ {k}
  /\ UNCHANGED <<handlers, stale>>

DeleteInterface(s) ==
  /\ RemoveServer(s)
  /\ stray' = stray \ getClientInterfacesFromServer(s)
  /\ stale' = stale \cup StartedMeanwhile(s)
  /\ UNCHANGED handlers

Stop(s) ==
  /\ StopServer(s)
  /\ UNCHANGED <<handlers, stray, stale>>

NextRequest ==
  \/ \E s \in Server, net \in Address, mask \in Mask, port \in Port :
       EditServer(s, net, mask, port)
  \/ ListClients \/ CommitEdit \/ EditFails
  \/ \E k \in FreshKeys, s \in Server : NewKey(k, s)
  \/ AllocateIpAddress \/ SaveClient \/ SaveClientFails \/ AddPeer
  \/ \E s \in Server : ToggleServer(s)
  \/ GenerateConf \/ WgStart
  \/ Create
  \/ \E k \in Client : Remove(k)
  \/ \E s \in Server : Stop(s) \/ DeleteInterface(s)

RequestSpec == InitAll /\ [][NextRequest]_allVars

-----------------------------------------------------------------------------
\* Properties

InPlace(s) == getClientInterfacesFromServer(s) \ stray

(* Clients whose creation no edit overlapped have addresses of their own, not the
   server's, that are hosts of its present network, whatever address a client
   left behind by an edit kept. *)
OnlyStraysMisplaced ==
  \A s \in DOMAIN server :
    LET net == server[s].ip_network
        last == net + NumAddresses[server[s].ip_network_mask] - 1
        addresses == {client[k].ip_address : k \in InPlace(s)}
    IN  /\ Cardinality(addresses) = Cardinality(InPlace(s))
        /\ addresses \subseteq (net .. last) \ {server[s].ip_address}
        /\ last > net + 1 => net \notin addresses /\ last \notin addresses

(* An interface whose last start no edit or deletion of its server overlapped belongs to
   a server, by name, and runs with the address, mask and port of its row for as long
   as it is up.  It lets no client in place use any address but its own. *)
OnlyStaleDiffers ==
  \A n \in DOMAIN running \ stale :
    \E s \in DOMAIN server :
      /\ server[s].name = n
      /\ running[n].ip_address = server[s].ip_address
      /\ running[n].ip_network_mask = server[s].ip_network_mask
      /\ running[n].listen_port = server[s].listen_port
      /\ \A k \in InPlace(s) \cap DOMAIN running[n].peers :
           running[n].peers[k] \subseteq {client[k].ip_address}

(* Clients in place to which the interface of s, up since a start no edit or deletion
   overlapped, sends what is addressed to them. *)
Reached(s) ==
  LET n == server[s].name IN
  {k \in InPlace(s) :
     /\ n \in DOMAIN running \ stale
     /\ k \in DOMAIN running[n].peers
     /\ client[k].ip_address \in running[n].peers[k]}

\* What the interface of s lets a key use: nothing when it is down or has no such peer.
AllowedOn(s, k) ==
  LET n == server[s].name IN
  IF isUp(n) /\ k \in DOMAIN running[n].peers THEN running[n].peers[k] ELSE {}

(* A client reached at its address is so until its row is deleted or the interface stops,
   unless its address goes to a client left behind by an edit or deleted with its server:
   wg set gives no client created or renumbered in order the address of another. *)
OnlyStraysTakeAddresses ==
  [][\A s \in DOMAIN server \cap DOMAIN server' : \A k \in Reached(s) \cap DOMAIN client' :
       \/ client'[k].ip_address \in AllowedOn(s, k)'
       \/ ~isWGserverUp(s)'
       \/ \E j \in stray' \cup (Client \ DOMAIN client') :
            client'[k].ip_address \in AllowedOn(s, j)']_allVars

=============================================================================
