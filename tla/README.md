# bak-wireguard in TLA+

The program is a Django web application (WgWeb) that administers WireGuard VPN
servers on one Linux host. Users ask for clients (key pairs with an address on a
server), administrators verify users and create, start, stop and delete server
interfaces. The state lives in two places that no transaction spans: the MariaDB
tables, and the running WireGuard interfaces that `wg set` and `wg-quick` change.
What can go wrong is mostly in between: handlers run concurrently in several
threads, read rows they write back later, and change WireGuard after they commit.

Source paths below are relative to `src/wireguardapp/` unless they begin with
`scripts/`.

## 1. Inventory

| component | state | operations | interacts with | module |
|---|---|---|---|---|
| tables and queries: `models.py`, `database/repository.py`, `services/modelfactory.py` | `Profile` (verified, key_limit, key_count), `Key` + `Interface` + `Peer` of a client, `Key` + `Interface` of a server | `saveClient`, `deleteClient`, `deleteServer`, `updateProfile`, `User.delete` with cascades; `allocateIpAddress` | called by both services | `Database` |
| WireGuard: `services/wireguardcmd.py`, `scripts/*.bash` | which interfaces are up, their peers and AllowedIPs | `addWGPeer`, `removeWGPeer`, `startWGserver`, `stopWGserver`, `isWGserverUp` | called after, before or instead of a database write | `WireGuard` |
| request threads and InnoDB (external) | local variables of each running handler, row locks of open transactions | start, end, fail, wait, time out | interleave everything | `Requests` |
| clients: `services/clientservice.py`, `views.newkey`, `ajax.deletekey` | none of its own | `createNewClient`, `removeClient` | `Database`, `WireGuard` | `ClientService` |
| users and servers: `services/serverservice.py`, `ajax.verifyUser`, `ajax.toggleServer`, `views.usersettings`, `views.deleteinterface` | none of its own | `switchVerifyProfile`, the settings form, `removeUser`, `startServer`, `stopServer`, `removeServer`, `createNewServer`, `createUser` | `Database`, `WireGuard` | `ServerService` |
| the whole | all of the above | killed threads, reboots | promises `ClientRegistry` | `WgWeb`, `MCWgWeb`, `WgWebProofs`, `SerialProofs`, `MirrorProofs`, `RegistryProofs` |
| traffic statistics: `saveAllPeersState`, `PeerSnapshot`, `management/commands/wgdump.py` | byte totals and last readings per peer | periodic `wgdump`, and after every start | reads `wg show dump` | `PeerStats` |
| server networks: `ServerInterfaceForm`, `updateServer`, `updateServerPeersIpAddresses`, `makeServerNewName`; the configuration a client downloads: `generateClientConf`, `views.downlandConf`, `ajax.getconfajax` | networks, masks, ports, names | create, edit, renumber clients, download | `Database`, `WireGuard` | `ServerNetworks`, `Renumbering`, `NetworksProofs` |
| accounts: `createUser`, `getOrCreateProfile`, `usersettings` and its three forms, `deleteuser`, `verifyUser`, `listusers`, `filterUsers` | `User` rows and `Profile` rows apart | register, create, edit, delete, verify, list | `Database` | `Accounts` |
| pages of clients: `mykeys`, `userkeys`, `filterPeers`, `getpeerstate` | none: local variables while a page is gathered | read rows and `wg show dump` one after the other | `Database`, `WireGuard` | `Pages`, `PagesProofs` |
| pages of servers, `crypto.py`, middleware, admin, templates, settings, migrations, the text of configuration files | none that the properties tell apart | read only, or generated | | not modelled |

What makes each part correct:

- **tables**: a client row refers to a user and a server that exist;
  `key_count` is the number of keys; addresses of a server are distinct;
  `key_limit` is kept; a key, its interface and its peer come and go together;
  a request happens as a whole or not at all.
- **WireGuard**: an interface that is up serves the clients of its verified users
  and nobody else, once no request has anything left to do there; no interface
  without a row is up; a start loads exactly the verified clients.
- **threads**: every request is answered; a handler uses only rows it has
  loaded; waiting transactions do not wait forever.
- **statistics**: totals never count traffic twice nor shrink; a connected
  client is counted again and again.
- **networks**: a server and its clients have addresses of their own that are
  hosts of its network, through any creation, deletion and renumbering; an
  interface that is up runs with what its rows say; a configuration that was
  downloaded stays good until its server is edited.
- **accounts**: an account has a profile, whoever asks for it first; nobody is
  verified except by an administrator.
- **pages**: what a page says of a client that did not change is right, however
  much else changed while it was gathered.

Hard behaviours, at their lines, are the `hazards` of `PROJECT.json`. The main
ones are read-modify-write of `key_count` (`repository.py:293,301`), the check
of the limit and the choice of an address long before the insert
(`clientservice.py:225`, `modelfactory.py:53`), `wg set` after the commit
(`clientservice.py:245`), the list of clients that `deleteServer` walks
(`repository.py:317`), `toggleServer` against `deleteinterface`
(`ajax.py:104`, `views.py:175`), the aggregation of counters that restart
(`serverservice.py:350-364`), forms that save whole rows they read before
(`views.py:280-282`), the renumbering of clients that were listed before
(`serverservice.py:575`), `get_or_create` racing with the insert of a profile
(`repository.py:248`), pages that read six tables one after the other
(`wireguardcmd.py:457`), and crashes between any two statements.

## 2. How the modules fit

The modules EXTEND one another in a line, each adding variables or actions:

    Database  ->  WireGuard  ->  Requests  ->  ClientService  \
                       \                  ->  ServerService  -->  WgWeb  ->  MCWgWeb
                        \                                          |     ->  WgWebProofs
                         ->  Pages  ->  MCPages                    |           ->  SerialProofs  ->  MirrorProofs
                                    ->  PagesProofs                |               ->  RegistryProofs
                                                         ClientRegistry (INSTANCE)

    Accounts  ->  MCAccounts        PeerStats  ->  MCPeerStats        ServerNetworks
              ->  AccountsProofs               ->  PeerStatsProofs      ->  MCServerNetworks
                                                                        ->  Renumbering  ->  MCRenumbering
                                                                                         ->  NetworksProofs

- **`Database`**: tables `profile`, `client`, `server` as functions on the ids of
  their rows; `client[k]` stands for the Key row with its Interface and Peer,
  `server = None` for a client whose Peer is gone. Queries have the names of
  `repository.py`; statements are one operator per commit. A network is the
  host numbers `1..PoolSize`; the server takes host 1.
- **`WireGuard`**: `wg[s][k]` is the AllowedIPs of peer `k` on interface `s`,
  which is up when `s` is in the domain. External code, from its use in
  `wireguardcmd.py` and `scripts/`. An address belongs to one peer: setting it
  takes it from the others (`Allow`), and a configuration that lists it twice
  leaves it to the section that comes last (`Loaded`). `systemctl restart` of
  an interface that is up keeps its running peers, since `SaveConfig = true`
  writes them over the installed file first. A command on an interface that is
  down fails, and every caller goes on.
- **`Requests`**: `req[r]` is the handler of thread `r`: `at` is the statement or
  script it runs next, the other fields are its local variables.
- **`ClientService`, `ServerService`**: one action per statement or script of a
  handler, in the order of the code.
- **`WgWeb`**: the union of both with `Crash` and `Reboot`, and the properties.
- **`ClientRegistry`**: what all this promises to a user who knows nothing of
  threads, statements and scripts: accounts, clients, servers and interfaces that
  are up, with one step for each request, and no counts. `WgWeb` implements it
  while requests do not overlap (`ImplementsRegistry`): `account` is the
  profile without its key_count, `up` the domain of `wg`, `client` and `server`
  are the tables. A request's one step is its commit, and everything else it does
  is a stutter. The limit is the point of it: the registry counts the keys,
  the code reads a counter it keeps in another row.
- **`Pages`** (on `WireGuard`, proofs in `PagesProofs`): one page, gathered as its code does: the keys of a user,
  then peer and server of each (`mykeys`, `userkeys`), the peers of a server,
  then the rows of each (`filterPeers`), or the dump of an interface, all keys, all
  interfaces, the key of each, all peers, the user and server of those that are shown
  (`getpeerstate`). What other requests do in between is the environment, one action per commit or
  script of `WgWeb` in any order; it is coarser than the handlers, and reaches every
  state between two of their commits. `changed` remembers what changed since
  the page began. A page changes nothing, so one at a time is every case.

Four modules stand beside them, each for a part the others leave out:

- **`PeerStats`** (instances in `MCPeerStats`, proofs in `PeerStatsProofs`):
  `kernel[k]` are the counters WireGuard shows for client `k` while it is a
  peer, `past[k]` the bytes of counters that are gone, `peer[k]` the totals and
  last readings of its row. A job (`wgdump`, or the dump at the end of
  `startServer`) dumps an interface, then loads and saves one row per line:
  `GetWgDump`, `LoadPeer`, `SaveState`. Traffic, restarts, reconnections and
  deletions come between any two of these. A row that is missing ends the job
  (`modelfactory.py` saves a snapshot without a peer). The snapshot saved with
  each line is left out: it has the peer's row as its only condition, and
  nothing modelled reads it. So is the call of `deleteOldSnapShots` at the end
  of `wgdump`, which raises (it filters on `created_at`, a field `PeerSnapshot`
  does not have) when there is nothing left to do.
- **`ServerNetworks`** (instances in `MCServerNetworks`, proofs in `NetworksProofs`): the form of a server
  interface, `createNewServer`, `updateServer` and the addresses they and
  `allocateIpAddress` give out. An IP address is a number of `Bits` bits, a
  network a first address and a mask, with what `ipaddress` says of them
  (`IsNetwork`, `Hosts`, a /31 included). Each request is one action.
  `running[n]` is the configuration an interface that is up was started with,
  by its name, kept up to date by `wg set`. `download` is one client's
  configuration: its address is read first (`GetInterface`), then its server
  (`LoadServer`), with other requests in between; it is `outdated` once its client
  is deleted or its server edited.
- **`Renumbering`** (instances in `MCRenumbering`, proofs in `NetworksProofs`) extends `ServerNetworks` with the
  handlers of three requests that meet on the row of a server: `edit` (the form checked,
  clients listed, everything saved in one transaction), `create` (server loaded, address
  chosen, client saved, `wg set`) and `toggle` (server loaded, configuration generated,
  script run). The other requests of `ServerNetworks`, deletions of servers included, come
  in between as wholes. `stray` are the clients whose creation an edit of their network
  overlapped, until the next edit renumbers them, `stale` the interfaces whose last start an
  edit or the deletion of their server overlapped: both are about the order of requests and
  not about addresses. A failed statement or a killed thread (see `WgWeb`) is left out.
- **`Accounts`** (instances in `MCAccounts`, proofs in `AccountsProofs`): `account`
  are the User rows, `profile` the Profile rows with ids of their own, `page[r]` the
  handler of a thread with the instances it read. A form saves its whole instance
  (`SaveUser`, `SaveProfile`), which inserts the row again when it is gone.
  `getOrCreateProfile` is one statement that reads or inserts. `bare` are the
  accounts that nothing follows up: their registration was killed between the two
  saves, or a form saved them after they were deleted. Of the many fields one stands
  for those only an administrator may edit (`is_staff`), one for those of the profile
  (`verified`).

Conventions that a reader of the code should know:

- *Atomicity.* One action is one statement on the database or one script, with
  the local work around it. The check of a request and the first read are one
  action (`NewKey`, `DeleteClient`, ...); a request that is refused there leaves
  no trace and is no action. Two accesses are merged only when no other action
  can come between them with an effect (for instance `ListClients`: stop the
  interface, which touches only `wg`, then read tables). One exception is `GenerateConf`, which reads
  peers, users and interfaces of a server at once: `generateServerConfText` queries the peers and then
  loads the rows of each (`wireguardcmd.py:297`). `createUser` and
  `createNewServer` are one step in `WgWeb`; what happens between the two saves
  of `createUser` is in `Accounts`.
- *Transactions.* Writes of an open transaction are kept in `req`
  (`count`, `gone`, `counts`) and reach the tables with the commit, so others
  read the last committed rows: Django's default for MySQL is READ COMMITTED.
  `saveClient` and `deleteClient` commit with their last write (`CommitClient`,
  `CommitDeleteClient`). `deleteServer` deletes key after key and commits with
  `DeleteServerKey`.
- *Row locks.* A deleted key, a written profile, and the user and server a new
  row refers to (shared locks of the foreign keys) are locked until the commit.
  `Blocked` says which statements wait for which. `LockWaitTimeout` is both ways
  InnoDB ends a wait: its timeout, and a deadlock victim. The handler raises.
- *Failures.* `Fail` is a 500: the open transaction is rolled back, what was
  committed or set stays. `Crash` is the same for a killed worker; `Reboot` also
  takes every interface down, as `wg-quick@` units are not enabled.
  A `wg-stop` that fails, which leaves everything as it is, and a `wg set` that fails on an
  interface that is up, which is logged and forgotten as on one that is down
  (`clientservice.py:250`), are not modelled.
- *Names.* A client interface is named after the user and the second
  (`modelfactory.py:104`); two of one user in one second clash on the unique
  column, a choice in `SaveClientFails`. Names of deleted servers are used again
  (`makeServerNewName`). Ids are not: a request in flight never refers to a new row.
- *The settings form* saves the whole profile row, with the key_count it read,
  and inserts the row if it is gone (`SaveProfile`).
- *Left out of `WgWeb`*: `session_number`, byte counters and snapshots
  (none of its operations reads them; `startServer` collects them last),
  networks and ports, which `PeerStats` and `ServerNetworks` have. Left out of all:
  snapshots, key names, endpoints, `client_to_client`, rendering.

## 3. Runs

The runs of `WgWeb` use module `MCWgWeb`. `Populated` is a start with every user verified
and every server up, reachable by register, verify, newserver and toggle (the
run `crash` starts empty and takes those steps); it saves the runs with two
threads the way there.

| run | instance | checks | what it shows |
|---|---|---|---|
| `crash` | 2 users, 3 keys, 2 servers, 2 client addresses, 1 request, killed threads and reboots, from empty | `WgMirrorsDatabase`, `KeyCountExact`, `AddressesDistinct`, `EveryClientHasPeer`, `ImplementsRegistry`, `StartLoadsVerified` | requests one at a time keep WireGuard and the tables in step and do what the registry says; a thread killed anywhere leaves tables consistent; a start repairs what WireGuard lost |
| `concurrent` | 1 user, 2 keys, 1 server, 1 client address, 2 requests, all operations but settings, fair | `TypeOK`, `ReferentialIntegrity`, `RequestsOK`, `LeftOutOnlyByRace`, `EveryRequestEnds`, deadlock | what holds in every interleaving, and the only steps by which a client loses its peer; every request is answered |
| `lost_key_count` | 2 requests, newkey | `KeyCountExact` violated | lost update of key_count |
| `orphaned_client` | 2 requests, newkey, toggle, deleteserver, newserver | `EveryClientHasPeer` violated | a client without a peer |
| `deleted_client_connected` | 2 requests, newkey, deletekey | `NoPeerWithoutClient` violated | a deleted client that stays connected |
| `stats` | 2 clients on one of 2 servers, 2 bytes for one and 1 for the other, 1 job at a time, 1 killed job | `TypeOK`, `NoOvercount`, `TotalsNeverShrink`, `KnownPeersCounted` | totals are right through restarts, reconnections, deletions and killed jobs |
| `stats_raced` | the same with 2 jobs at a time | `NoOvercount` violated | a reading applied late counts bytes twice |
| `overlooked` | the same with 1 job at a time and none killed | `EveryPeerCounted` violated | one peer without a row keeps every job from the clients behind it |
| `networks` | 2 servers, 3 clients, 8 addresses, networks of 2 to 8, 3 ports, names up to 2 | `AddressPlan`, `ServerAddressesDistinct`, `RunningMatchesRows`, `DownloadUsable`, `RenumberedWithNetwork` | proper addresses after any sequence of requests, and configurations that stay good |
| `renumbering` | 1 server, 2 clients, 8 addresses, 2 ports, 1 edit, 1 creation and 1 start at a time | `OnlyStraysMisplaced`, `OnlyStaleDiffers`, `OnlyStraysTakeAddresses` | what an edit or a deletion leaves behind is confined to the requests it overlapped |
| `accounts` | 2 accounts and the administrator's, 3 profile ids, 2 pages, killed threads | `TypeOK`, `ProfilesComplete`, `OnlyStaffVerify` | rows of accounts under forms, registrations and deletions that overlap |
| `pages` | 2 users, 2 keys, 2 servers, 1 client address, any changes in between | `TypeOK`, `PageTruthful`, `PageFailsOnlyRaced` | a page gathered from many statements says nothing wrong of what did not change, and fails only for a row it still needed |

`WgMirrorsDatabase` compares each peer of an interface that is up with the rows
(`Wrong`), sets aside what the request in flight still has to do (`Unfinished`)
and says that no step of a handler adds to the rest: each statement and script
leaves only what a later one of the same handler deals with. A killed thread may add to it
(the client it had committed is not set, or a deleted one stays); later requests
do not make it worse, and a start clears it (`StartLoadsVerified`).

`LeftOutOnlyByRace` is what survives of it for the clients that ought to be connected
when requests overlap. A client is in `LeftOut` when the interface of its server is up,
its user is verified, it is no peer, and no request in flight is going to set it
(`Awaits`). Four steps can bring that about (`Drops`), and with any of them taken out of
`Drops` TLC finds the property violated: verify or settings disconnects the clients of a
user whom another request has verified in the meantime (`serverservice.py:444`); an
interface is started with a configuration generated before the client was created or
its user verified (`wireguardcmd.py:297`); the DELETE of a user runs into a lock after
`removeUser` has disconnected the user's clients (`serverservice.py:503`); a thread is killed before
its `wg set`. Nothing else does, however many handlers overlap: none disconnects a client
of another's, leaves out one it has created or verified, or sets a peer elsewhere than
its row says. The property is about peers that are missing; of those that stay although they should not,
`deleted_client_connected` shows one way.

The properties of `crash` are about requests that do not overlap:
with two at a time `KeyCountExact`, `EveryClientHasPeer`, `AddressesDistinct`,
`ImplementsRegistry`, `StartLoadsVerified` and `WgMirrorsDatabase` fail. Three of
the violated runs show the reasons; each is a finding in `PROJECT.json` with the line
it contradicts:

- `saveClient` reads `key_count` and writes it back (`repository.py:292-293`):
  of two concurrent creations one is not counted. The page "Použito klíčů" is
  then wrong, the limit is not kept, and later a deletion underflows the
  unsigned column and is refused.
- `deleteServer` lists the clients first (`repository.py:317`): one that commits
  later is not deleted, its Peer is. `views.mykeys` fails for its owner.
- `wg set` of a new client can come after `wg set ... remove` of the same one.

The fourth finding is in the statistics. Of two jobs that overlap, the one with
the older dump may come last; the row then has a last reading above the dump's,
which is taken for a reset of the interface (`serverservice.py:350-352`), and the
whole reading is added again (`stats_raced`).

So is the fifth. `saveServerInterfacePeersState` looks up the row of each line and, when there is none,
saves a snapshot without a peer, which raises outside of its `try` (`serverservice.py:344`):
the job ends there, and neither the peers behind that line nor the interfaces after
this one are counted (`overlooked`). A connected peer without a row comes about in three ways: a client
deleted between the writing of a configuration and the start that loads it (`wireguardcmd.py:297`), a
client whose `deletekey` was killed or whose script failed after the commit, or one whose
own `wg set` came last (`deleted_client_connected`). Nothing removes it until the
interface is stopped. `KnownPeersCounted` says what is left: when every peer that is connected has a
row, from some time on, every client is counted again and again, whatever jobs
were ended early or killed before.

`renumbering` says how far the damage of a raced edit goes. `updateServer` renumbers the clients it listed
(`serverservice.py:565`), and a client that commits afterwards keeps its old address,
which the network no longer holds; `wg set` of a client that
was renumbered in between sets the old one, and takes it from whoever has it now.
`serverinterfaceform` and `deleteinterface` look once whether the interface is down
(`views.py:124,175`): started after that, it runs with the old address and port, or with no
row, under a name that the next server gets. But every client whose creation no edit
overlapped keeps a good address of its own next to those, since `allocateIpAddress` looks at
all clients of the server, and an interface is right again once it is stopped and started.
The peers of such an interface are another matter: `OnlyStaleDiffers` says which addresses
the clients in place have there, and not that each of them is there, nor that nobody else is. A start that
generated its configuration before a client was deleted or created brings the first back and
leaves the second out, which is for `WgWeb` to say (`LeftOutOnlyByRace`, `deleted_client_connected`).

`EditServer` and `CreateNewServer` have no guard on who asks: `serverinterfaceform` has neither
`login_required` nor a test for an administrator (`views.py:116`).

`OnlyStraysTakeAddresses` is about the second half of that hazard. A client in place that is reached at
its address (`Reached`) loses it, while it and its interface stay, only to a client left behind by an
edit or to one deleted with its server, whose `wg set` is still to come. With
`stray` taken out of the excuse TLC finds the case described above. Two
creations at once are not in this module: of two that choose the same address
(`modelfactory.py:53`) the later `wg set` takes it from the first, and nothing here or in
`WgWeb` says otherwise. `AddressesDistinct` is for one request at a time, and `LeftOutOnlyByRace` looks at peers and
not at their addresses.

`PageFailsOnlyRaced` names what a page may stumble over (`Raced`): the user of `mykeys`, the server at
hand or asked for, a client still to load, a client of the dump or its user, deleted since the
page began. In `mykeys` a key without a peer (`KeyWithoutPeer`) is enough by itself. A handshake, a
start or stop, a new client, or the deletion of a row the page is done with excuses nothing, and with any
one of the parts of `Raced` taken away TLC finds the property violated. Ids and keys that a page refers to are not given
again while it runs (`Taken`).

`ServerAddressesDistinct` is all that the overlap check of the form gives. It
compares the new network with the first address of the others, without their
masks (`forms.py:119`): a network inside that of an existing server is accepted,
and clients of the two may then share an address; editing anything of the outer
server is refused afterwards, as its own network holds the inner one's address.

Of the forms in `Accounts`, `OnlyStaffVerify` is about the profile. The like is not true of
the fields of the user row: `user_form.save()` of a user's own page writes the whole
row, and when an administrator changed `is_staff` after the page read it, the
change is undone. `ajax.deletekey` refuses a user who is not a superuser *or* not
staff (`ajax.py:77`), so staff who are no superusers cannot delete the keys of
others, although `userkeys` shows them.

*Bounds.* `User`, `Key`, `Server`, `Request` are small sets, `PoolSize` the
number of hosts. Every effect between requests involves two of them, one user's
count or one server's list, so two requests and one or two of everything reach
it; three keys allow a client to be deleted while two others exist. `concurrent`
has one client address, so the pool is exhausted, and a limit that is the number of
keys; limits change only in `crash`, where settings are. Keys are used again only when no row, interface or
handler holds them (`FreshKeys`), so behaviours are not bounded in length. Settings are left
out of `concurrent`, whose liveness check would not fit with them; the form's
interleavings are in `Accounts`, and the proofs of section 4 have it.
Symmetry is used for safety runs only.

In `stats`, one client with two bytes and one with one are enough for a last reading,
a restart and a reading below, at or above it, in one direction or both; deleting
a client in the middle of a dump of both is what ends a job early. `MaxTraffic`
bounds `Transfer` and `MaxCrashes` the killed jobs, in their guards.
In `networks` 8 addresses let two networks be nested or side by side, three
clients do not fit in a network of 4 and fit in one of 8; `MaxName` bounds how far the
numbers in names grow. In `renumbering` one server is enough, since its addresses concern
no other; two clients are one that is listed and one that is being created, or two
that are renumbered in either order; a deleted server's id is used again when no handler
has it, keys of deleted clients are generated again only when no row, interface or handler holds
them, the list of an edit included. Two edits at once are left out. In `accounts` two accounts are one that is made and one that
makes, shows or verifies it, or the administrator's; an id of a profile is used again when
neither its row nor a handler holds it. In `pages` two servers and two users tell a
filter from none, and a client that moves from one server to another is a deletion
and a creation with another key; two clients let one be right while the other changes.

*Fairness.* `FairSpec` of `WgWeb` asks weak fairness of `Progress(r)` for each thread: a
handler that has a next statement or script takes it. The threads are scheduled
by the operating system, scripts end, and a wait for a lock is ended by InnoDB,
so a waiting thread has `LockWaitTimeout` enabled. Nothing obliges users to send
requests, and crashes are off in that run (`concurrent`). `FairSpec` of `PeerStats` asks that cron
starts `wgdump` again and again (strong fairness: the one process of the run also
serves starts of servers, which must not keep cron away; they are different
processes in the program) and that a job that runs goes on. Nothing obliges a peer without a row to go:
the second step of `deletekey` may never come or fail, and `AddPeer` does not look at the
row, as `addWGPeer` does not.

*Mutants.* Each property of a passing run has a variant of one code definition,
marked `mutant` in the modules, that breaks it: a missing wg call, a dropped
guard, a query without its filter, an off-by-one.

## 4. Proofs

`WgWebProofs` proves for any sets of users, keys, servers and threads, any pool
and limits, with or without crashes:

- `TypeCorrect`: `Spec => []TypeOK`,
- `ReferencesKept`: `Spec => []ReferentialIntegrity`,
- `HandlersHoldReferences`: `Spec => []RequestsOK`,
- `OnlyRacesLeaveOut`: `Spec => LeftOutOnlyByRace`,
- `NobodyLeftOut`: `NoClientLeftOut` always holds in behaviours that take none of the
  steps in `Drops`.

All rest on `DatabaseAssumption` (limits are natural numbers), the first three on one
inductive invariant, `IInv == TypeOK /\ ReferentialIntegrity /\ RequestsOK`,
none of whose parts is inductive alone. A commit of `saveClient` keeps
`ReferentialIntegrity` only because the user and server it refers to are still
there (`ReferencesHeld`, in `RequestsOK`); these stay because `DeleteUser` and
`DeleteServerKey` wait while another transaction refers to them (`Blocked`); and
an action keeps the types of the tables only if the local variables it writes
were set by the steps before (`LocalsOK`). That key_count stays a natural number is
the guard `CanDecrement` with the types of the count a handler read.

Layout: `StepOfRequest` and `StatementOfRequest` say once what a step of one
request has to establish for `IInv'` (the second for steps that write the
tables: the rows other requests refer to must stay); then there is one lemma per
action, `ClientServiceKeepsIInv` and `ServerServiceKeepsIInv` collect them,
`NextKeepsIInv` adds crashes and stuttering, and `Invariance` is the temporal
step. TLC checks `IInv` part by part in the run `concurrent`.

The other two need more about handlers that overlap, `KeysApart` (`HandlersKeepApart`). The key of a
client that is being created is in no row and no other handler (`NewKeyOK`), so that a
peer set or removed by one handler is not the new client of another. What a handler has read of a
client is so still, or the client is gone or has lost its Peer (`LoadedOK`), so that
`wg set` puts the peer where the row says. With that, each action has a lemma that it
establishes `Kept`: the invariant, and that the clients it newly leaves out are excused.
Three lemmas say once where to look: a client that a step does not touch was left out before
(`WasLeftOut`), a step that changes neither rows nor peers can newly leave out only a client
it awaited (`AwaitedIt`), and a script only one that was a peer or whose interface was down
(`LostByScript`). `NobodyLeftOut` then is an induction in which the excuses do not occur. Its
hypothesis is about steps of four kinds and not about overlapping; no run checks `NoClientLeftOut`,
which follows from the property that `concurrent` checks.
Settings are among the operations of these proofs. TLC checked `KeysApart` and
`LeftOutOnlyByRace` with two requests, settings and killed threads (1.7 million states) before.

`SerialProofs`, `MirrorProofs` and `RegistryProofs` prove, for the same constants and with killed
threads and reboots, what holds as long as two requests do not overlap
(`OneRequest`, which the code does not ensure; the runs that expect a violation show that it is needed):

- `SerialKeyCountExact`: `Spec /\ []OneRequest => []KeyCountExact`;
- `SerialAddressesDistinct`: the same for `AddressesDistinct`;
- `SerialEveryClientHasPeer`: the same for `EveryClientHasPeer`;
- `SerialStartLoadsVerified`: `Spec /\ []OneRequest => StartLoadsVerified`;
- `SerialMirrors`: `Spec /\ []OneRequest => WgMirrorsDatabase`;
- `Refinement`: `Spec /\ []OneRequest => ImplementsRegistry`.

The invariant `SInv` says, beside `IInv`, how what the one handler holds agrees with the
tables. The user of `newkey` may still have another key, the address is still free
and the count it read is the one in the row (`CreatingOK`); the key a deletion is about is
its user's (`DeletingKeyOK`); the configuration a start is about to load is not stale
(`ConfOf`). The heart is `DeletingServerOK`, the loop of `deleteServer`: deleted, listed and current
clients are together the clients of the server, and the count written for each user is the number of
the keys that the transaction has not counted yet, which is what makes the cascade of
`DeleteServerKey` delete no Peer of a client that stays. `KeysFinite` and `OneCount` do
the counting. There is one lemma per action; `SerialNext` collects them.
`LoadedIsServed` shows that the choice `Loaded` leaves to the kernel is none when addresses
are distinct.

`WgMirrorsDatabase` is about steps, so its invariant `MInv` (`MirrorInvariance`) does not say that
WireGuard is right, which a killed thread would refute, but what makes a step keep it
right. A peer that is a client is at the interface its row names (`PeersAtHome`), and
no interface is up without its server. A handler about to connect or disconnect a
client holds what the rows say: a new key has no peer before its rows are
committed, and is then committed with the address at hand (`AddingPeerOK`); the peer of a
deleted client can only be at the server the handler knows (`RemovingPeerOK`); verify,
settings and deleteuser have the user's clients still to come, and by the time of the DELETE
none is connected (`SettingPeersOK`). `Mirrors(r)` is the property for one
peer, and one lemma per action proves it with `MInv'`.

`RegistryProofs` maps each action: the ones that commit to their step of the
registry, the scripts that start or stop an interface to `Toggle`, the rest to a
stutter.

`PeerStatsProofs` proves for any clients, servers, processes, amounts of traffic and
killed jobs, from `PeerStatsAssumption` (the types of the constants):

- `StatsTypeCorrect`: `Spec => []TypeOK`, jobs overlapping or not;
- `NoByteCountedTwice`: `Spec /\ []OneJob => []NoOvercount`;
- `TotalsGrow`: `Spec /\ []OneJob => TotalsNeverShrink`.

`OneJob` says that two jobs do not overlap, which the code does not ensure; the run
`stats_raced` shows that it is needed. `NoOvercount` is not inductive: what a row
may be credited with next depends on the line of the dump still to be applied
to it, and on whether the counters the line was read from still run. The
invariant says that a row counts only bytes that are gone, or has a last
reading of the counters that run (`Settled`); that a line waiting to be applied is of
counters that run, and not below the last reading unless the row counts only
bytes that are gone (`Running`), or that the bytes it adds are gone (`Gone`);
and that the row at hand is the one in the table (`RowsFresh`, which needs
`OneJob`). `EnvKeepsSettled` and `EnvKeepsLine` show that traffic and restarts
keep these, `ReadLine` that a dump brings them about, `AggregateSettles` that the
arithmetic of the code turns a line into a settled row in both cases;
`NothingCounted` covers every action that saves no row.

`AccountsProofs` proves for any accounts, profile ids and pages, with or without
threads that are killed, from `AccountsAssumption`:

- `AccountsTypeCorrect`: `Spec => []TypeOK`, so a profile never outlives its account;
- `ProfilesStayComplete`: `Spec => []ProfilesComplete`;
- `VerifiedByStaffOnly`: `Spec => OnlyStaffVerify`.

The invariant adds to the types of rows and handlers, and to `ProfilesComplete`, what a
handler knows when it writes (`LocalOK`): it has the account it is about and, where
it saves a profile, a whole Profile instance, and only a page of an administrator comes to the
two statements that can verify. `ProfilesComplete` is inductive beside it: a page
that loses the race for a profile finds it there, and a page that is killed adds the
account to `bare`. `StepOfPage` says once what a step of one page has to establish;
`ThereVerifiesNobody` and `SaveByStaff` are the two halves of the action property.

`NetworksProofs` proves of `ServerNetworks`, for any servers, clients, ports, names, sizes of
networks and length of an address, from `NetworksAssumption`:

- `AddressesPlanned`, `ServersHaveOwnAddresses`, `InterfacesMatchRows`, `DownloadsAreUsable`: the
  invariants of the run `networks`;
- `OnlyEditsRenumber`: `Spec => RenumberedWithNetwork`.

The assumption gives the sizes of networks (the numbers of addresses double from one mask
to the next), and the proofs use no powers of two: that each size divides the larger
ones and the address space is shown by a least counterexample
(`LeastExists`), as induction over a property is not at hand. What the overlap check
of the form gives is then a matter of parity: networks of different
servers begin at different, even addresses, so their first hosts differ
(`FirstHostsDiffer`), although the networks may be nested. The inductive invariant
`NInv` makes `AddressPlan` a statement about each client (`ClientsPlanned`) and each
server (`ServersPlanned`), and adds that a download that is not outdated
holds what the rows say (`DownloadCurrent`). TLC checked it on 462,822 states before.

And of `Renumbering`, for the same constants, with one edit, one creation and one
start at a time as in that module:

- `OthersStayInPlace`: `RequestSpec => []OnlyStraysMisplaced`;
- `OthersMatchRows`: `RequestSpec => []OnlyStaleDiffers`;
- `OthersKeepAddresses`: `RequestSpec => OnlyStraysTakeAddresses`.

The invariant `RInv` (`RequestInvariance`) says of each handler that what it read is so still unless
`stray` or `stale` says otherwise: the row and the address that `newkey` holds, while the
address is free (`CreateHeld`); the server and the configuration of a start
(`ToggleHeld`); the clients an edit has listed, which fit in the network that
is to be set, and its interface, which stays down (`EditHeld`); nothing has the key of a
client before it is saved (`KeyUnused`). The third needs two facts more (`NamesHeld`): nothing but the
start under way starts its interface, and `newkey` holds the name its server has. Then the
only step that gives an address to a peer of an interface that stays up is `wg set` (`AddPeerKeeps`), and
there `CreateHeld` says that the client, if it is in place, has that address and no
other in place does. TLC checked `RInv` and `NamesHeld` on 1.47 million states before.

`PagesProofs` proves for any users, keys and servers:

- `PagesTypeCorrect`: `Spec => []TypeOK`;
- `PagesAreTruthful`: `Spec => []PageTruthful`;
- `PagesFailOnlyRaced`: `Spec => []PageFailsOnlyRaced`.

`PageTruthful` is about pages that are done; its invariant `PInv` (`PagesInvariance`) says it of
each statement before. Whatever a page has read of a client that did not change since it
began is still right, and a client that is to be shown is shown or to come, for each of
the three kinds of page (`KeysPageOK`, `FilterPageOK`, `StatePageOK`). `Framed` says once
what a change by other requests may alter, and there is one lemma per change that shows
it: everything a page can say of a client stays the same (`Same`), or the client is in `changed`.

Every safety invariant and every action property of a passing run is the subject of
a theorem, under the hypotheses named here. Only model-checked: `EveryRequestEnds` and
`KnownPeersCounted` (liveness under fairness is out of the prover's reach). The runs that
expect a violation show that `OneRequest` and `OneJob` are needed.

## 5. Plan

What is left, in this order:

1. The counterpart of `LeftOutOnlyByRace`: the steps after which a peer is connected that
   should not be (a deleted client that is set after its removal, a start from a configuration with clients
   deleted meanwhile, a disconnection overtaken by another, an interface started while its server is
   deleted, clients created after `deleteuser` has listed the user's), and the same for AllowedIPs, with
   the invariant that makes the list complete.
2. Two edits, or two creations, at once in `Renumbering`.
3. Bounds on what overlapping requests do to `key_count`: how far it can be from
   the number of keys, in terms of the requests that overlapped.

Not modelled, and why: `PeerSnapshot` rows and `session_number` (written and never
read for anything but an endpoint; `deleteOldSnapShots` raises on a field the model
does not have), the pages of servers (one query and one script each), key names,
endpoints and `client_to_client` (saved and printed, and nothing depends on them),
`crypto.py` (a library call), middleware, admin, templates, settings and migrations.
