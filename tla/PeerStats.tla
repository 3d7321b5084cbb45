------------------------------ MODULE PeerStats -----------------------------
(***************************************************************************)
(* Traffic statistics: saveServerInterfacePeersState reads the byte        *)
(* counters WireGuard keeps for each peer ("wg show dump") and aggregates  *)
(* them in the Peer rows.  The counters of a peer start again at zero when *)
(* its interface or the peer itself is set up anew.  Jobs run the code: the *)
(* hourly wgdump command over all interfaces, startServer over the one it  *)
(* started.  The clients, their deletion and their (dis)connection are the *)
(* environment, with the effects they have in WgWeb.                       *)
(***************************************************************************)
EXTENDS Integers, Functions

CONSTANTS
  Peer,         \* clients, each with a Peer row to begin with
  Server,       \* server interfaces
  Home,         \* Home[k] is the server of client k
  Collector,    \* processes that can run a job at the same time
  MaxTraffic,   \* MaxTraffic[k]: bound on the bytes of client k, in and out
  MaxCrashes    \* bound on the jobs that are killed

ASSUME PeerStatsAssumption ==
  /\ Home \in [Peer -> Server]
  /\ MaxTraffic \in [Peer -> Nat]
  /\ MaxCrashes \in Nat

VARIABLES
  up,        \* interfaces that are up
  kernel,    \* kernel[k]: the counters of peer k, while it is on an interface
  past,      \* past[k]: the bytes of k's counters that are gone
  peer,      \* the Peer rows
  job,       \* what each process is doing
  crashes    \* jobs killed so far

env == <<up, kernel, past>>
vars == <<up, kernel, past, peer, job, crashes>>

Bytes == [rx : Nat, tx : Nat]
Zero == [rx |-> 0, tx |-> 0]
Plus(a, b) == [rx |-> a.rx + b.rx, tx |-> a.tx + b.tx]
Minus(a, b) == [rx |-> a.rx - b.rx, tx |-> a.tx - b.tx]
AtMost(a, b) == a.rx <= b.rx /\ a.tx <= b.tx

PeerRow == [total : Bytes, last : Bytes]

\* A table with a value in V for some of the peers.
PeerTable(f, V) == DOMAIN f \subseteq Peer /\ f \in [DOMAIN f -> V]

Job(j) ==
  /\ PeerTable(j.lines, Bytes)
  /\ j \in [at : {"idle", "getWgDump", "loadPeer", "saveState"},
            servers : SUBSET Server,            \* interfaces still to dump
            lines : [DOMAIN j.lines -> Bytes],  \* lines of the dump to aggregate
            key : Peer \cup {"none"},           \* the line at hand
            row : PeerRow]                      \* its Peer instance

EmptyRow == [total |-> Zero, last |-> Zero]

NoJob == [at |-> "idle", servers |-> {}, lines |-> << >>, key |-> "none",
          row |-> EmptyRow]

Init ==
  /\ up = {}
  /\ kernel = << >>
  /\ past = [k \in Peer |-> Zero]
  /\ peer = [k \in Peer |-> EmptyRow]
  /\ job = [c \in Collector |-> NoJob]
  /\ crashes = 0

Traffic(k) == IF k \in DOMAIN kernel THEN Plus(past[k], kernel[k]) ELSE past[k]

-----------------------------------------------------------------------------
\* The environment

\* The counters of the peers in gone are dropped.
Drop(gone) ==
  /\ kernel' = Restrict(kernel, DOMAIN kernel \ gone)
  /\ past' = [k \in Peer |-> IF k \in gone THEN Traffic(k) ELSE past[k]]

\* The peers in new get counters at zero.
Connect(new) ==
  /\ kernel' = [k \in DOMAIN kernel \cup new |-> IF k \in new THEN Zero ELSE kernel[k]]
  /\ past' = [k \in Peer |-> IF k \in new THEN Traffic(k) ELSE past[k]]

Transfer(k) ==
  /\ k \in DOMAIN kernel
  /\ Traffic(k).rx + Traffic(k).tx < MaxTraffic[k]
  /\ \E more \in {[rx |-> 1, tx |-> 0], [rx |-> 0, tx |-> 1]} :
       kernel' = [kernel EXCEPT ![k] = Plus(@, more)]
  /\ UNCHANGED <<up, past, peer, job, crashes>>

\* newkey or verify: wg set adds the peer.  Its handler read the row before, and
\* nothing looks whether it is still there.
AddPeer(k) ==
  /\ Home[k] \in up
  /\ k \notin DOMAIN kernel
  /\ Connect({k})
  /\ UNCHANGED <<up, peer, job, crashes>>

\* verify of a verified user, or the second step of deletekey.
RemovePeer(k) ==
  /\ k \in DOMAIN kernel
  /\ Drop({k})
  /\ UNCHANGED <<up, peer, job, crashes>>

\* The first step of deletekey: the row goes, the peer is still connected.
DeleteClient(k) ==
  /\ k \in DOMAIN peer
  /\ peer' = Restrict(peer, DOMAIN peer \ {k})
  /\ UNCHANGED <<up, kernel, past, job, crashes>>

StopServer(s) ==
  /\ s \in up
  /\ up' = up \ {s}
  /\ Drop({k \in DOMAIN kernel : Home[k] = s})
  /\ UNCHANGED <<peer, job, crashes>>

-----------------------------------------------------------------------------
\* The jobs

Idle(c) == job[c].at = "idle"

\* saveAllPeersState of the wgdump command.
SaveAllPeersState(c) ==
  /\ Idle(c)
  /\ job' = [job EXCEPT ![c].at = "getWgDump", ![c].servers = Server]
  /\ UNCHANGED <<up, kernel, past, peer, crashes>>

\* The peers of an interface when its configuration is read: those of its
\* clients that were verified when the handler generated it, however long ago, with
\* the ones deleted since; or the peers it has when it is restarted.
Loaded(s) ==
  IF s \in up THEN {{k \in DOMAIN kernel : Home[k] = s}}
             ELSE SUBSET {k \in Peer : Home[k] = s}

\* startServer: the interface is started, or restarted when a request that is
\* served at the same time started it, and then dumped.
StartServer(c, s) ==
  /\ Idle(c)
  /\ up' = up \cup {s}
  /\ \E peers \in Loaded(s) : Connect(peers)
  /\ job' = [job EXCEPT ![c].at = "getWgDump", ![c].servers = {s}]
  /\ UNCHANGED <<peer, crashes>>

withoutFirstPeer(s) ==                                                 \* mutant
  LET first == CHOOSE k \in Peer : TRUE
  IN  Restrict(kernel, {k \in DOMAIN kernel : Home[k] = s /\ k # first})

\* The lines of the dump after the first, which is the interface's own.
Dump(s) == Restrict(kernel, {k \in DOMAIN kernel : Home[k] = s})

\* The dump of an interface that is down fails, and the interface is skipped.
GetWgDump(c) ==
  /\ job[c].at = "getWgDump"
  /\ \E s \in job[c].servers :
       job' = [job EXCEPT ![c].servers = @ \ {s},
                          ![c].lines = Dump(s),
                          ![c].at = IF s \in up THEN "loadPeer" ELSE @]
  /\ UNCHANGED <<up, kernel, past, peer, crashes>>

\* A peer without a row makes the snapshot fail, and the whole job with it.
LoadPeer(c) ==
  /\ job[c].at = "loadPeer"
  /\ \E k \in DOMAIN job[c].lines :
       job' = IF k \in DOMAIN peer
              THEN [job EXCEPT ![c].at = "saveState", ![c].key = k, ![c].row = peer[k]]
              ELSE [job EXCEPT ![c] = NoJob]
  /\ UNCHANGED <<up, kernel, past, peer, crashes>>

bothReset(row, current) ==                                             \* mutant
  row.last.rx > current.rx /\ row.last.tx > current.tx

\* Was the interface reset?
Reset(row, current) == row.last.rx > current.rx \/ row.last.tx > current.tx

swappedDifference(row, current) ==                                     \* mutant
  [total |-> Plus(row.total, IF Reset(row, current) THEN current
                             ELSE Minus(row.last, current)),
   last |-> current]

lastNotSaved(row, current) ==                                          \* mutant
  [row EXCEPT !.total = Plus(row.total, IF Reset(row, current) THEN current
                                        ELSE Minus(current, row.last))]

Aggregate(row, current) ==
  [total |-> Plus(row.total, IF Reset(row, current) THEN current
                             ELSE Minus(current, row.last)),
   last |-> current]

\* Saves the instance; the update of a row that is gone raises.
SaveState(c) ==
  LET k == job[c].key  lines == job[c].lines IN
  /\ job[c].at = "saveState"
  /\ IF k \in DOMAIN peer
     THEN /\ peer' = [peer EXCEPT ![k] = Aggregate(job[c].row, lines[k])]
          /\ job' = [job EXCEPT ![c].at = "loadPeer", ![c].key = "none",
                                ![c].row = EmptyRow,
                                ![c].lines = Restrict(lines, DOMAIN lines \ {k})]
     ELSE /\ job' = [job EXCEPT ![c] = NoJob]
          /\ UNCHANGED peer
  /\ UNCHANGED <<up, kernel, past, crashes>>

InterfaceDone(c) ==
  /\ job[c].at = "loadPeer"
  /\ DOMAIN job[c].lines = {}
  /\ job' = [job EXCEPT ![c].at = "getWgDump"]
  /\ UNCHANGED <<up, kernel, past, peer, crashes>>

\* deleteOldSnapShots, which is next in wgdump, names a field PeerSnapshot does
\* not have and raises: either way the job is over.
Done(c) ==
  /\ job[c].at = "getWgDump"
  /\ job[c].servers = {}
  /\ job' = [job EXCEPT ![c] = NoJob]
  /\ UNCHANGED <<up, kernel, past, peer, crashes>>

Crash(c) ==
  /\ ~Idle(c)
  /\ crashes < MaxCrashes
  /\ crashes' = crashes + 1
  /\ job' = [job EXCEPT ![c] = NoJob]
  /\ UNCHANGED <<up, kernel, past, peer>>

Work(c) ==
  \/ GetWgDump(c)
  \/ LoadPeer(c)
  \/ SaveState(c)
  \/ InterfaceDone(c)
  \/ Done(c)

Next ==
  \/ \E k \in Peer : Transfer(k) \/ AddPeer(k) \/ RemovePeer(k) \/ DeleteClient(k)
  \/ \E s \in Server : StopServer(s)
  \/ \E c \in Collector :
       \/ SaveAllPeersState(c)
       \/ \E s \in Server : StartServer(c, s)
       \/ Work(c)
       \/ Crash(c)

Spec == Init /\ [][Next]_vars

-----------------------------------------------------------------------------
\* Properties

TypeOK ==
  /\ up \subseteq Server
  /\ PeerTable(kernel, Bytes)
  /\ past \in [Peer -> Bytes]
  /\ PeerTable(peer, PeerRow)
  /\ DOMAIN job = Collector /\ \A c \in Collector : Job(job[c])
  /\ crashes \in Nat

(* The totals of a client are never more than it sent and received: whatever
   is reset, reconnected, deleted or killed between a dump and the rows it is
   aggregated in, no byte is counted twice. *)
NoOvercount == \A k \in DOMAIN peer : AtMost(peer[k].total, Traffic(k))

(* Totals do not shrink: a counter that went back to zero is noticed in either
   direction. *)
TotalsNeverShrink ==
  [][\A k \in DOMAIN peer \cap DOMAIN peer' : AtMost(peer[k].total, peer'[k].total)]_vars

(* Cron starts wgdump again and again, also when requests start servers in
   between, and a job that runs goes on.  Nothing makes a peer whose row is gone
   disappear: deletekey may be killed before wg set, the script may fail, or the wg
   set of a newkey may come last. *)
Fairness == \A c \in Collector : SF_vars(SaveAllPeersState(c)) /\ WF_vars(Work(c))

FairSpec == Spec /\ Fairness

(* Again and again the last reading of k is what WireGuard says. *)
NotOverlooked(k) == []<>(k \in DOMAIN peer \cap DOMAIN kernel => peer[k].last = kernel[k])

(* A connected client is not overlooked for good, unless peers without a row stay
   or come again for ever: jobs that such a peer ends early, or that are killed,
   leave nothing behind that keeps the next one from every row. *)
KnownPeersCounted ==
  <>[](DOMAIN kernel \subseteq DOMAIN peer) => \A k \in Peer : NotOverlooked(k)

(* What the docstring of saveAllPeersState says: every peer is aggregated, whatever
   the other peers are, at least while the same peers stay connected.  A peer
   without a row ends every job at its line. *)
EveryPeerCounted ==
  \A on \in SUBSET Peer :
    <>[](DOMAIN kernel = on) => \A k \in on : NotOverlooked(k)

=============================================================================
