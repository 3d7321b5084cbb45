--------------------------- MODULE PeerStatsProofs --------------------------
(***************************************************************************)
(* What PeerStats keeps for any number of clients, servers, processes,     *)
(* bytes and killed jobs, while no two jobs run at the same time.          *)
(***************************************************************************)
EXTENDS PeerStats, TLAPS

\* At most one job runs: what nothing in the code ensures, and the run
\* stats_raced shows to be needed.
OneJob == \A c, d \in Collector : ~Idle(c) /\ ~Idle(d) => c = d

\* A row counts only bytes that are gone, or its last reading is one of the
\* counters that run.
Settled(k) ==
  \/ AtMost(peer[k].total, past[k])
  \/ /\ k \in DOMAIN kernel
     /\ AtMost(peer[k].last, kernel[k])
     /\ AtMost(peer[k].total, Plus(past[k], peer[k].last))

\* The counters line was read from still run, ...
Running(k, line) ==
  /\ k \in DOMAIN kernel
  /\ AtMost(line, kernel[k])
  /\ \/ AtMost(peer[k].total, past[k])
     \/ /\ AtMost(peer[k].last, line)
        /\ AtMost(peer[k].total, Plus(past[k], peer[k].last))

\* ... or are gone, and all their bytes are in past.
Gone(k, line) ==
  \/ AtMost(Plus(peer[k].total, line), past[k])
  \/ /\ AtMost(peer[k].last, line)
     /\ AtMost(Plus(peer[k].total, line), Plus(past[k], peer[k].last))

RowsSettled == \A k \in DOMAIN peer : Settled(k)

LinesApply ==
  \A c \in Collector : \A k \in DOMAIN job[c].lines \cap DOMAIN peer :
    Running(k, job[c].lines[k]) \/ Gone(k, job[c].lines[k])

\* An idle process holds nothing; the Peer instance at hand is that of a line.
JobsHold ==
  \A c \in Collector :
    /\ Idle(c) => DOMAIN job[c].lines = {}
    /\ job[c].at = "saveState" => job[c].key \in DOMAIN job[c].lines

RowsFresh ==
  \A c \in Collector :
    job[c].at = "saveState" /\ job[c].key \in DOMAIN peer =>
      job[c].row = peer[job[c].key]

IInv == TypeOK /\ JobsHold /\ RowsSettled /\ LinesApply /\ RowsFresh

-----------------------------------------------------------------------------
(* Types.  The types of the instance at hand need JobsHold: a line is there to
   aggregate. *)

LEMMA BytesArithmetic ==
  ASSUME NEW a \in Bytes, NEW b \in Bytes
  PROVE  /\ Plus(a, b) \in Bytes
         /\ AtMost(a, b) => Minus(b, a) \in Bytes
BY DEF Bytes, Plus, Minus, AtMost

LEMMA TrafficBytes ==
  ASSUME TypeOK, NEW k \in Peer
  PROVE  Traffic(k) \in Bytes
<1>1. past[k] \in Bytes
  BY DEF TypeOK
<1>2. k \in DOMAIN kernel => kernel[k] \in Bytes
  BY DEF TypeOK, PeerTable
<1> QED
  BY <1>1, <1>2, BytesArithmetic DEF Traffic

\* Aggregating a reading in a row gives a row, and the totals do not shrink.
LEMMA AggregateRow ==
  ASSUME NEW row \in PeerRow, NEW current \in Bytes
  PROVE  /\ Aggregate(row, current) \in PeerRow
         /\ AtMost(row.total, Aggregate(row, current).total)
         /\ Aggregate(row, current).last = current
<1> DEFINE more == IF Reset(row, current) THEN current ELSE Minus(current, row.last)
<1>1. row.total \in Bytes /\ row.last \in Bytes
  BY DEF PeerRow
<1>2. ~Reset(row, current) => AtMost(row.last, current)
  BY <1>1 DEF Reset, AtMost, Bytes
<1>3. more \in Bytes
  BY <1>1, <1>2, BytesArithmetic
<1>4. Plus(row.total, more) \in Bytes /\ AtMost(row.total, Plus(row.total, more))
  BY <1>1, <1>3 DEF Bytes, Plus, AtMost
<1>5. Aggregate(row, current) = [total |-> Plus(row.total, more), last |-> current]
  BY DEF Aggregate
<1> QED
  BY <1>4, <1>5 DEF PeerRow

LEMMA NoJobIsJob ==
  /\ Job(NoJob)
  /\ NoJob.at = "idle"
  /\ DOMAIN NoJob.lines = {}
<1>1. Zero \in Bytes
  BY DEF Zero, Bytes
<1>2. EmptyRow \in PeerRow
  BY <1>1 DEF EmptyRow, PeerRow
<1>3. DOMAIN << >> = {} /\ << >> \in [{} -> Bytes]
  OBVIOUS
<1> QED
  BY <1>2, <1>3 DEF NoJob, Job, PeerTable

TInv == TypeOK /\ JobsHold

LEMMA InitTypes == Init => TInv
<1> SUFFICES ASSUME Init PROVE TInv
  OBVIOUS
<1>1. Zero \in Bytes /\ EmptyRow \in PeerRow
  BY DEF Zero, Bytes, EmptyRow, PeerRow
<1>2. PeerTable(kernel, Bytes)
  BY DEF Init, PeerTable
<1>3. PeerTable(peer, PeerRow)
  BY <1>1 DEF Init, PeerTable
<1>4. \A c \in Collector : Job(job[c]) /\ Idle(c) /\ DOMAIN job[c].lines = {}
  BY NoJobIsJob DEF Init, Idle
<1>5. TypeOK
  BY <1>1, <1>2, <1>3, <1>4 DEF Init, TypeOK
<1>6. JobsHold
  BY <1>4 DEF JobsHold, Idle
<1> QED
  BY <1>5, <1>6 DEF TInv

\* What Drop does to the counters, and Connect.
LEMMA DropTypes ==
  ASSUME TypeOK, NEW gone, Drop(gone)
  PROVE  PeerTable(kernel, Bytes)' /\ past' \in [Peer -> Bytes]
<1>1. \A k \in DOMAIN kernel : k \in Peer /\ kernel[k] \in Bytes
  BY DEF TypeOK, PeerTable
<1>2. past' \in [Peer -> Bytes]
  BY TrafficBytes DEF Drop, TypeOK
<1>3. PeerTable(kernel', Bytes)
  BY <1>1 DEF Drop, Restrict, PeerTable
<1> QED
  BY <1>2, <1>3

LEMMA ConnectTypes ==
  ASSUME TypeOK, NEW new \in SUBSET Peer, Connect(new)
  PROVE  PeerTable(kernel, Bytes)' /\ past' \in [Peer -> Bytes]
<1>1. \A k \in DOMAIN kernel : k \in Peer /\ kernel[k] \in Bytes
  BY DEF TypeOK, PeerTable
<1>2. past' \in [Peer -> Bytes]
  BY TrafficBytes DEF Connect, TypeOK
<1>3. Zero \in Bytes
  BY DEF Zero, Bytes
<1>4. PeerTable(kernel', Bytes)
  BY <1>1, <1>3 DEF Connect, PeerTable
<1> QED
  BY <1>2, <1>4

\* A step that changes one process's job, to one that is well formed.
LEMMA JobTypes ==
  ASSUME TInv, NEW c \in Collector, NEW j,
         job' = [job EXCEPT ![c] = j], Job(j),
         j.at = "idle" => DOMAIN j.lines = {},
         j.at = "saveState" => j.key \in DOMAIN j.lines
  PROVE  /\ DOMAIN job' = Collector
         /\ \A d \in Collector : Job(job'[d])
         /\ JobsHold'
<1>1. DOMAIN job = Collector /\ \A d \in Collector : Job(job[d])
  BY DEF TInv, TypeOK
<1>2. /\ DOMAIN job' = Collector
      /\ \A d \in Collector : job'[d] = IF d = c THEN j ELSE job[d]
  BY <1>1
<1>3. \A d \in Collector : Job(job'[d])
  BY <1>1, <1>2
<1>4. JobsHold'
  BY <1>2 DEF TInv, JobsHold, Idle
<1> QED
  BY <1>2, <1>3, <1>4

\* The same for a job that ends, ...
LEMMA JobEnds ==
  ASSUME TInv, NEW c \in Collector, job' = [job EXCEPT ![c] = NoJob]
  PROVE  /\ DOMAIN job' = Collector
         /\ \A d \in Collector : Job(job'[d])
         /\ JobsHold'
BY JobTypes, NoJobIsJob

\* ... starts to dump, ...
LEMMA JobStarts ==
  ASSUME TInv, NEW c \in Collector, NEW servers \in SUBSET Server,
         job' = [job EXCEPT ![c].at = "getWgDump", ![c].servers = servers]
  PROVE  /\ DOMAIN job' = Collector
         /\ \A d \in Collector : Job(job'[d])
         /\ JobsHold'
<1> DEFINE j == [job[c] EXCEPT !.at = "getWgDump", !.servers = servers]
<1>1. Job(job[c]) /\ DOMAIN job = Collector
  BY DEF TInv, TypeOK
<1>2. job' = [job EXCEPT ![c] = j]
  BY <1>1
<1>3. Job(j) /\ j.at = "getWgDump"
  BY <1>1 DEF Job, PeerTable
<1> QED
  BY <1>2, <1>3, JobTypes

\* ... or dumps an interface.
LEMMA JobDumps ==
  ASSUME TInv, NEW c \in Collector, NEW s \in Server,
         job' = [job EXCEPT ![c].servers = @ \ {s},
                            ![c].lines = Dump(s),
                            ![c].at = IF s \in up THEN "loadPeer" ELSE @],
         job[c].at = "getWgDump"
  PROVE  /\ DOMAIN job' = Collector
         /\ \A d \in Collector : Job(job'[d])
         /\ JobsHold'
<1> DEFINE at == IF s \in up THEN "loadPeer" ELSE job[c].at
           j == [job[c] EXCEPT !.servers = @ \ {s}, !.lines = Dump(s), !.at = at]
<1>1. Job(job[c]) /\ DOMAIN job = Collector /\ PeerTable(kernel, Bytes)
  BY DEF TInv, TypeOK
<1>2. job' = [job EXCEPT ![c] = j]
  BY <1>1
<1>3. PeerTable(Dump(s), Bytes)
  BY <1>1 DEF PeerTable, Dump, Restrict
<1>4. at \in {"getWgDump", "loadPeer"}
  OBVIOUS
<1>5. /\ j.at = at /\ j.lines = Dump(s) /\ j.servers = job[c].servers \ {s}
      /\ j.key = job[c].key /\ j.row = job[c].row
  BY <1>1 DEF Job
<1>6. Job(j)
  BY <1>1, <1>3, <1>4 DEF Job, PeerTable
<1> QED
  BY <1>2, <1>4, <1>5, <1>6, JobTypes

LEMMA NextKeepsTypes == TInv /\ [Next]_vars => TInv'
<1> SUFFICES ASSUME TInv, [Next]_vars PROVE TInv'
  OBVIOUS
<1> USE DEF TInv
<1>1. ASSUME NEW k \in Peer, Transfer(k) PROVE TInv'
  <2>1. PICK more \in {[rx |-> 1, tx |-> 0], [rx |-> 0, tx |-> 1]} :
          kernel' = [kernel EXCEPT ![k] = Plus(@, more)]
    BY <1>1 DEF Transfer
  <2>2. kernel[k] \in Bytes /\ more \in Bytes
    BY <1>1 DEF Transfer, TypeOK, PeerTable, Bytes
  <2>3. Plus(kernel[k], more) \in Bytes
    BY <2>2, BytesArithmetic
  <2>4. PeerTable(kernel', Bytes)
    BY <2>1, <2>3 DEF TypeOK, PeerTable
  <2> QED
    BY <1>1, <2>4 DEF Transfer, TypeOK, JobsHold, Idle
<1>2. ASSUME NEW k \in Peer, AddPeer(k) PROVE TInv'
  BY <1>2, ConnectTypes DEF AddPeer, TypeOK, JobsHold, Idle
<1>3. ASSUME NEW k \in Peer, RemovePeer(k) PROVE TInv'
  BY <1>3, DropTypes DEF RemovePeer, TypeOK, JobsHold, Idle
<1>4. ASSUME NEW k \in Peer, DeleteClient(k) PROVE TInv'
  <2>1. PeerTable(peer', PeerRow)
    BY <1>4 DEF DeleteClient, TypeOK, PeerTable, Restrict
  <2> QED
    BY <1>4, <2>1 DEF DeleteClient, TypeOK, JobsHold, Idle
<1>5. ASSUME NEW s \in Server, StopServer(s) PROVE TInv'
  <2>1. PeerTable(kernel, Bytes)' /\ past' \in [Peer -> Bytes]
    BY <1>5, DropTypes DEF StopServer
  <2> QED
    BY <1>5, <2>1 DEF StopServer, TypeOK, JobsHold, Idle
<1>6. ASSUME NEW c \in Collector, SaveAllPeersState(c) PROVE TInv'
  BY <1>6, JobStarts DEF SaveAllPeersState, TypeOK
<1>7. ASSUME NEW c \in Collector, NEW s \in Server, StartServer(c, s) PROVE TInv'
  <2>1. PICK peers \in Loaded(s) : Connect(peers)
    BY <1>7 DEF StartServer
  <2>2. peers \in SUBSET Peer
    BY DEF Loaded, TypeOK, PeerTable
  <2>3. PeerTable(kernel, Bytes)' /\ past' \in [Peer -> Bytes]
    BY <2>1, <2>2, ConnectTypes
  <2>4. DOMAIN job' = Collector /\ (\A d \in Collector : Job(job'[d])) /\ JobsHold'
    BY <1>7, JobStarts DEF StartServer
  <2> QED
    BY <1>7, <2>3, <2>4 DEF StartServer, TypeOK
<1>8. ASSUME NEW c \in Collector, GetWgDump(c) PROVE TInv'
  <2>1. PICK s \in job[c].servers :
          job' = [job EXCEPT ![c].servers = @ \ {s},
                             ![c].lines = Dump(s),
                             ![c].at = IF s \in up THEN "loadPeer" ELSE @]
    BY <1>8 DEF GetWgDump
  <2>2. s \in Server
    BY DEF TypeOK, Job
  <2> QED
    BY <1>8, <2>1, <2>2, JobDumps DEF GetWgDump, TypeOK
<1>9. ASSUME NEW c \in Collector, LoadPeer(c) PROVE TInv'
  <2>1. PICK k \in DOMAIN job[c].lines :
          job' = IF k \in DOMAIN peer
                 THEN [job EXCEPT ![c].at = "saveState", ![c].key = k, ![c].row = peer[k]]
                 ELSE [job EXCEPT ![c] = NoJob]
    BY <1>9 DEF LoadPeer
  <2>2. CASE k \in DOMAIN peer
    <3> DEFINE j == [job[c] EXCEPT !.at = "saveState", !.key = k, !.row = peer[k]]
    <3>1. Job(job[c]) /\ DOMAIN job = Collector
      BY DEF TypeOK
    <3>2. k \in Peer /\ peer[k] \in PeerRow
      BY <2>2 DEF TypeOK, PeerTable
    <3>3. job' = [job EXCEPT ![c] = j]
      BY <2>1, <2>2, <3>1
    <3>4. Job(j) /\ j.at = "saveState" /\ j.key = k /\ j.lines = job[c].lines
      BY <3>1, <3>2 DEF Job, PeerTable
    <3>5. k \in DOMAIN j.lines
      BY <2>1, <3>4
    <3>6. DOMAIN job' = Collector /\ (\A d \in Collector : Job(job'[d])) /\ JobsHold'
      BY <3>3, <3>4, <3>5, JobTypes
    <3> QED
      BY <1>9, <3>6 DEF LoadPeer, TypeOK
  <2>3. CASE k \notin DOMAIN peer
    BY <1>9, <2>1, <2>3, JobEnds DEF LoadPeer, TypeOK
  <2> QED
    BY <2>2, <2>3
<1>10. ASSUME NEW c \in Collector, SaveState(c) PROVE TInv'
  <2> DEFINE k == job[c].key
             lines == job[c].lines
  <2>1. k \in DOMAIN lines /\ Job(job[c]) /\ DOMAIN job = Collector
    BY <1>10 DEF SaveState, TypeOK, JobsHold
  <2>2. CASE k \in DOMAIN peer
    <3> DEFINE j == [job[c] EXCEPT !.at = "loadPeer", !.key = "none", !.row = EmptyRow,
                                   !.lines = Restrict(lines, DOMAIN lines \ {k})]
    <3>1. Aggregate(job[c].row, lines[k]) \in PeerRow
      BY <2>1, AggregateRow DEF Job, PeerTable
    <3>2. peer' = [peer EXCEPT ![k] = Aggregate(job[c].row, lines[k])]
      BY <1>10, <2>2 DEF SaveState
    <3>3. PeerTable(peer', PeerRow)
      BY <3>1, <3>2 DEF TypeOK, PeerTable
    <3>4. job' = [job EXCEPT ![c] = j]
      BY <1>10, <2>1, <2>2 DEF SaveState
    <3>5. EmptyRow \in PeerRow
      BY DEF EmptyRow, PeerRow, Zero, Bytes
    <3>6. PeerTable(Restrict(lines, DOMAIN lines \ {k}), Bytes)
      BY <2>1 DEF Job, PeerTable, Restrict
    <3>7. Job(j) /\ j.at = "loadPeer"
      BY <2>1, <3>5, <3>6 DEF Job, PeerTable
    <3>8. DOMAIN job' = Collector /\ (\A d \in Collector : Job(job'[d])) /\ JobsHold'
      BY <3>4, <3>7, JobTypes
    <3>9. UNCHANGED <<up, kernel, past, crashes>>
      BY <1>10 DEF SaveState
    <3> HIDE DEF j, k, lines
    <3> QED
      BY <3>3, <3>8, <3>9 DEF TypeOK
  <2>3. CASE k \notin DOMAIN peer
    BY <1>10, <2>3, JobEnds DEF SaveState, TypeOK
  <2> QED
    BY <2>2, <2>3
<1>11. ASSUME NEW c \in Collector, InterfaceDone(c) PROVE TInv'
  <2> DEFINE j == [job[c] EXCEPT !.at = "getWgDump"]
  <2>1. Job(job[c]) /\ DOMAIN job = Collector
    BY DEF TypeOK
  <2>2. job' = [job EXCEPT ![c] = j] /\ Job(j) /\ j.at = "getWgDump"
    BY <1>11, <2>1 DEF InterfaceDone, Job, PeerTable
  <2>3. DOMAIN job' = Collector /\ (\A d \in Collector : Job(job'[d])) /\ JobsHold'
    BY <2>2, JobTypes
  <2> QED
    BY <1>11, <2>3 DEF InterfaceDone, TypeOK
<1>12. ASSUME NEW c \in Collector, Done(c) PROVE TInv'
  BY <1>12, JobEnds DEF Done, TypeOK
<1>13. ASSUME NEW c \in Collector, Crash(c) PROVE TInv'
  <2>1. crashes' \in Nat /\ UNCHANGED <<up, kernel, past, peer>>
    BY <1>13 DEF Crash, TypeOK
  <2>2. DOMAIN job' = Collector /\ (\A d \in Collector : Job(job'[d])) /\ JobsHold'
    BY <1>13, JobEnds DEF Crash
  <2> QED
    BY <2>1, <2>2 DEF TypeOK
<1>14. CASE UNCHANGED vars
  BY <1>14 DEF vars, TypeOK, JobsHold, Idle
<1> QED
  BY <1>1, <1>2, <1>3, <1>4, <1>5, <1>6, <1>7, <1>8, <1>9, <1>10, <1>11, <1>12,
     <1>13, <1>14 DEF Next, Work

(* Type correctness: totals and last readings are never negative, whatever the
   counters do between two dumps, and a table has rows of clients only. *)
THEOREM StatsTypeCorrect == Spec => []TypeOK
<1>1. TInv => TypeOK
  BY DEF TInv
<1> QED
  BY <1>1, InitTypes, NextKeepsTypes, PTL DEF Spec

-----------------------------------------------------------------------------
(* Counting: a byte is in the totals once. *)

\* Counters go on, or their bytes go to past.
EnvStep ==
  \A k \in Peer :
    \/ /\ past'[k] = past[k]
       /\ k \in DOMAIN kernel => k \in DOMAIN kernel' /\ AtMost(kernel[k], kernel'[k])
    \/ /\ k \in DOMAIN kernel
       /\ past'[k] = Plus(past[k], kernel[k])

\* Rows go, but do not change.
RowsStay == \A k \in DOMAIN peer' : k \in DOMAIN peer /\ peer'[k] = peer[k]

LEMMA RowTypes ==
  ASSUME TypeOK, NEW k \in DOMAIN peer
  PROVE  /\ k \in Peer
         /\ peer[k].total \in Bytes /\ peer[k].last \in Bytes /\ peer[k] \in PeerRow
         /\ past[k] \in Bytes
         /\ k \in DOMAIN kernel => kernel[k] \in Bytes
BY DEF TypeOK, PeerTable, PeerRow

LEMMA EnvKeepsSettled ==
  ASSUME TypeOK, TypeOK', EnvStep, RowsStay, NEW k \in DOMAIN peer', Settled(k)
  PROVE  Settled(k)'
<1>1. k \in DOMAIN peer /\ peer'[k] = peer[k]
  BY DEF RowsStay
<1>2. /\ k \in Peer
      /\ peer[k].total \in Bytes /\ peer[k].last \in Bytes
      /\ past[k] \in Bytes
      /\ k \in DOMAIN kernel => kernel[k] \in Bytes
      /\ k \in DOMAIN kernel' => kernel'[k] \in Bytes
  BY <1>1, RowTypes DEF TypeOK, PeerTable
<1>3. CASE /\ past'[k] = past[k]
           /\ k \in DOMAIN kernel => k \in DOMAIN kernel' /\ AtMost(kernel[k], kernel'[k])
  BY <1>1, <1>2, <1>3 DEF Settled, AtMost, Plus, Bytes
<1>4. CASE k \in DOMAIN kernel /\ past'[k] = Plus(past[k], kernel[k])
  BY <1>1, <1>2, <1>4 DEF Settled, AtMost, Plus, Bytes
<1> QED
  BY <1>2, <1>3, <1>4 DEF EnvStep

LEMMA EnvKeepsLine ==
  ASSUME TypeOK, TypeOK', EnvStep, RowsStay, NEW k \in DOMAIN peer', NEW line \in Bytes,
         Running(k, line) \/ Gone(k, line)
  PROVE  (Running(k, line) \/ Gone(k, line))'
<1>1. k \in DOMAIN peer /\ peer'[k] = peer[k]
  BY DEF RowsStay
<1>2. /\ k \in Peer
      /\ peer[k].total \in Bytes /\ peer[k].last \in Bytes
      /\ past[k] \in Bytes
      /\ k \in DOMAIN kernel => kernel[k] \in Bytes
      /\ k \in DOMAIN kernel' => kernel'[k] \in Bytes
  BY <1>1, RowTypes DEF TypeOK, PeerTable
<1>3. CASE /\ past'[k] = past[k]
           /\ k \in DOMAIN kernel => k \in DOMAIN kernel' /\ AtMost(kernel[k], kernel'[k])
  BY <1>1, <1>2, <1>3 DEF Running, Gone, AtMost, Plus, Bytes
<1>4. CASE k \in DOMAIN kernel /\ past'[k] = Plus(past[k], kernel[k])
  <2>1. Gone(k, line)'
    BY <1>1, <1>2, <1>4 DEF Running, Gone, AtMost, Plus, Bytes
  <2> QED
    BY <2>1
<1> QED
  BY <1>2, <1>3, <1>4 DEF EnvStep

\* A line that is read is of counters that run.
LEMMA ReadLine ==
  ASSUME TypeOK, NEW k \in DOMAIN peer \cap DOMAIN kernel, Settled(k)
  PROVE  Running(k, kernel[k])
<1>1. kernel[k] \in Bytes
  BY RowTypes
<1> QED
  BY <1>1 DEF Settled, Running, AtMost, Bytes

\* Aggregating the line settles the row again.
LEMMA AggregateSettles ==
  ASSUME TypeOK, NEW k \in DOMAIN peer, NEW line \in Bytes,
         Running(k, line) \/ Gone(k, line),
         peer'[k] = Aggregate(peer[k], line), UNCHANGED <<kernel, past>>
  PROVE  Settled(k)'
<1>1. /\ peer[k].total \in Bytes /\ peer[k].last \in Bytes /\ peer[k] \in PeerRow
      /\ past[k] \in Bytes
      /\ k \in DOMAIN kernel => kernel[k] \in Bytes
  BY RowTypes
<1>2. peer'[k].last = line
  BY <1>1, AggregateRow
<1>3. CASE Reset(peer[k], line)
  <2>1. peer'[k].total = Plus(peer[k].total, line)
    BY <1>3 DEF Aggregate
  <2>2. ~AtMost(peer[k].last, line)
    BY <1>1, <1>3 DEF Reset, AtMost, Bytes
  <2> QED
    BY <1>1, <1>2, <2>1, <2>2 DEF Running, Gone, Settled, AtMost, Plus, Bytes
<1>4. CASE ~Reset(peer[k], line)
  <2>1. peer'[k].total = Plus(peer[k].total, Minus(line, peer[k].last))
    BY <1>4 DEF Aggregate
  <2> QED
    BY <1>1, <1>2, <2>1 DEF Running, Gone, Settled, AtMost, Plus, Minus, Bytes
<1> QED
  BY <1>3, <1>4

\* Every action but SaveState counts nothing.  One that changes a job gives it
\* lines that apply.
LEMMA NothingCounted ==
  ASSUME IInv, TypeOK', EnvStep, RowsStay, DOMAIN job' = Collector,
         \A c \in Collector :
           \/ job'[c] = job[c]
           \/ /\ \A k \in DOMAIN job'[c].lines \cap DOMAIN peer' :
                   (Running(k, job[c].lines[k]) \/ Gone(k, job[c].lines[k]))'
              /\ job'[c].at = "saveState" /\ job'[c].key \in DOMAIN peer' =>
                   job'[c].row = peer'[job'[c].key]
  PROVE  RowsSettled' /\ LinesApply' /\ RowsFresh'
<1>1. TypeOK
  BY DEF IInv
<1>2. RowsSettled'
  BY <1>1, EnvKeepsSettled DEF IInv, RowsSettled, RowsStay
<1>3. ASSUME NEW c \in Collector, NEW k \in DOMAIN job'[c].lines \cap DOMAIN peer'
      PROVE  (Running(k, job[c].lines[k]) \/ Gone(k, job[c].lines[k]))'
  <2>1. CASE job'[c] = job[c]
    <3> DEFINE line == job[c].lines[k]
    <3>1. line \in Bytes
      BY <1>1, <1>3, <2>1 DEF TypeOK, Job, PeerTable
    <3>2. k \in DOMAIN peer
      BY <1>3 DEF RowsStay
    <3>3. Running(k, line) \/ Gone(k, line)
      BY <1>3, <2>1, <3>2 DEF IInv, LinesApply
    <3>4. line' = line
      BY <2>1
    <3>5. ASSUME NEW b \in Bytes, Running(k, b) \/ Gone(k, b)
          PROVE  (Running(k, b) \/ Gone(k, b))'
      BY <1>1, <1>3, <3>5, EnvKeepsLine
    <3>6. PICK b \in Bytes : b = line
      BY <3>1
    <3>7. (Running(k, b) \/ Gone(k, b))'
      BY <3>3, <3>5, <3>6
    <3> QED
      BY <3>4, <3>6, <3>7 DEF Running, Gone
  <2> QED
    BY <1>3, <2>1
<1>4. LinesApply'
  BY <1>3 DEF LinesApply
<1>5. RowsFresh'
  BY DEF IInv, RowsFresh, RowsStay
<1> QED
  BY <1>2, <1>4, <1>5

-----------------------------------------------------------------------------
LEMMA InitKeepsIInv == Init => IInv
<1> SUFFICES ASSUME Init PROVE IInv
  OBVIOUS
<1>1. TypeOK /\ JobsHold
  BY InitTypes DEF TInv
<1>2. RowsSettled
  BY DEF Init, RowsSettled, Settled, AtMost, EmptyRow, Zero
<1>3. \A c \in Collector : Idle(c) /\ DOMAIN job[c].lines = {}
  BY NoJobIsJob DEF Init, Idle
<1>4. LinesApply /\ RowsFresh
  BY <1>3 DEF LinesApply, RowsFresh, Idle
<1> QED
  BY <1>1, <1>2, <1>4 DEF IInv

\* The actions that change the counters.
LEMMA DropIsEnvStep ==
  ASSUME TypeOK, NEW gone, Drop(gone), gone \subseteq DOMAIN kernel
  PROVE  EnvStep
<1>1. \A k \in DOMAIN kernel : AtMost(kernel[k], kernel[k])
  BY DEF AtMost, TypeOK, PeerTable, Bytes
<1> QED
  BY <1>1 DEF EnvStep, Drop, Restrict, Traffic, TypeOK

LEMMA ConnectIsEnvStep ==
  ASSUME TypeOK, NEW new, Connect(new)
  PROVE  EnvStep
<1>1. \A k \in DOMAIN kernel : AtMost(kernel[k], kernel[k])
  BY DEF AtMost, TypeOK, PeerTable, Bytes
<1> QED
  BY <1>1 DEF EnvStep, Connect, Traffic, TypeOK

LEMMA NoEnvStep ==
  ASSUME TypeOK, UNCHANGED <<kernel, past>>
  PROVE  EnvStep
BY DEF EnvStep, AtMost, TypeOK, PeerTable, Bytes

\* A job that ends applies no line.
LEMMA NothingCountedAtEnd ==
  ASSUME IInv, TypeOK', UNCHANGED <<kernel, past, peer>>, NEW c \in Collector,
         job' = [job EXCEPT ![c] = NoJob]
  PROVE  RowsSettled' /\ LinesApply' /\ RowsFresh'
<1>1. TypeOK /\ DOMAIN job = Collector /\ DOMAIN job' = Collector
  BY DEF IInv, TypeOK
<1>2. EnvStep /\ RowsStay
  BY <1>1, NoEnvStep DEF RowsStay
<1>3. /\ \A d \in Collector \ {c} : job'[d] = job[d]
      /\ job'[c].at = "idle" /\ DOMAIN job'[c].lines = {}
  BY <1>1, NoJobIsJob
<1> QED
  BY <1>1, <1>2, <1>3, NothingCounted

LEMMA NextKeepsIInv == IInv /\ OneJob /\ [Next]_vars => IInv'
<1> SUFFICES ASSUME IInv, OneJob, [Next]_vars
             PROVE  RowsSettled' /\ LinesApply' /\ RowsFresh'
  BY NextKeepsTypes DEF IInv, TInv
<1> DEFINE Counted == RowsSettled' /\ LinesApply' /\ RowsFresh'
<1>0. /\ TypeOK /\ JobsHold /\ TypeOK'
      /\ DOMAIN job = Collector /\ DOMAIN job' = Collector
  BY NextKeepsTypes DEF IInv, TInv, TypeOK
<1>1. ASSUME NEW k \in Peer, Transfer(k) PROVE Counted
  <2>1. PICK more \in {[rx |-> 1, tx |-> 0], [rx |-> 0, tx |-> 1]} :
          kernel' = [kernel EXCEPT ![k] = Plus(@, more)]
    BY <1>1 DEF Transfer
  <2>2. \A j \in DOMAIN kernel : kernel[j] \in Bytes
    BY <1>0 DEF TypeOK, PeerTable
  <2>3. \A j \in DOMAIN kernel : AtMost(kernel[j], kernel'[j])
    BY <2>1, <2>2 DEF AtMost, Plus, Bytes
  <2>4. EnvStep /\ RowsStay
    BY <1>1, <2>1, <2>3 DEF EnvStep, RowsStay, Transfer
  <2> QED
    BY <1>0, <1>1, <2>4, NothingCounted DEF Transfer
<1>2. ASSUME NEW k \in Peer, AddPeer(k) PROVE Counted
  <2>1. EnvStep /\ RowsStay
    BY <1>0, <1>2, ConnectIsEnvStep DEF AddPeer, RowsStay
  <2> QED
    BY <1>0, <1>2, <2>1, NothingCounted DEF AddPeer
<1>3. ASSUME NEW k \in Peer, RemovePeer(k) PROVE Counted
  <2>1. EnvStep /\ RowsStay
    BY <1>0, <1>3, DropIsEnvStep DEF RemovePeer, RowsStay
  <2> QED
    BY <1>0, <1>3, <2>1, NothingCounted DEF RemovePeer
<1>4. ASSUME NEW k \in Peer, DeleteClient(k) PROVE Counted
  <2>1. RowsStay
    BY <1>4 DEF DeleteClient, RowsStay, Restrict
  <2>2. EnvStep
    BY <1>0, <1>4, NoEnvStep DEF DeleteClient
  <2> QED
    BY <1>0, <1>4, <2>1, <2>2, NothingCounted DEF DeleteClient
<1>5. ASSUME NEW s \in Server, StopServer(s) PROVE Counted
  <2>1. EnvStep
    BY <1>0, <1>5, DropIsEnvStep DEF StopServer
  <2>2. RowsStay
    BY <1>5 DEF StopServer, RowsStay
  <2> QED
    BY <1>0, <1>5, <2>1, <2>2, NothingCounted DEF StopServer
<1>6. ASSUME NEW c \in Collector, SaveAllPeersState(c) PROVE Counted
  <2>1. EnvStep /\ RowsStay
    BY <1>0, <1>6, NoEnvStep DEF SaveAllPeersState, RowsStay
  <2>2. /\ \A d \in Collector \ {c} : job'[d] = job[d]
        /\ job'[c].at = "getWgDump" /\ job'[c].lines = job[c].lines
    BY <1>0, <1>6 DEF SaveAllPeersState, TypeOK, Job
  <2>3. DOMAIN job[c].lines = {}
    BY <1>0, <1>6 DEF SaveAllPeersState, JobsHold
  <2> QED
    BY <1>0, <2>1, <2>2, <2>3, NothingCounted
<1>7. ASSUME NEW c \in Collector, NEW s \in Server, StartServer(c, s) PROVE Counted
  <2>1. PICK peers \in Loaded(s) : Connect(peers)
    BY <1>7 DEF StartServer
  <2>2. EnvStep /\ RowsStay
    BY <1>0, <1>7, <2>1, ConnectIsEnvStep DEF StartServer, RowsStay
  <2>3. /\ \A d \in Collector \ {c} : job'[d] = job[d]
        /\ job'[c].at = "getWgDump" /\ job'[c].lines = job[c].lines
    BY <1>0, <1>7 DEF StartServer, TypeOK, Job
  <2>4. DOMAIN job[c].lines = {}
    BY <1>0, <1>7 DEF StartServer, JobsHold
  <2> QED
    BY <1>0, <2>2, <2>3, <2>4, NothingCounted
<1>8. ASSUME NEW c \in Collector, GetWgDump(c) PROVE Counted
  <2>1. PICK s \in job[c].servers :
          job' = [job EXCEPT ![c].servers = @ \ {s},
                             ![c].lines = Dump(s),
                             ![c].at = IF s \in up THEN "loadPeer" ELSE @]
    BY <1>8 DEF GetWgDump
  <2>2. EnvStep /\ RowsStay
    BY <1>0, <1>8, NoEnvStep DEF GetWgDump, RowsStay
  <2>3. /\ \A d \in Collector \ {c} : job'[d] = job[d]
        /\ job'[c].at # "saveState" /\ job'[c].lines = Dump(s)
    BY <1>0, <1>8, <2>1 DEF GetWgDump, TypeOK, Job
  <2>4. ASSUME NEW k \in DOMAIN Dump(s) \cap DOMAIN peer
        PROVE  Running(k, Dump(s)[k])
    <3>1. k \in DOMAIN kernel /\ Dump(s)[k] = kernel[k]
      BY DEF Dump, Restrict
    <3>2. Settled(k)
      BY DEF IInv, RowsSettled
    <3> QED
      BY <1>0, <3>1, <3>2, ReadLine
  <2>5. UNCHANGED <<kernel, past, peer>>
    BY <1>8 DEF GetWgDump
  <2>6. ASSUME NEW k \in DOMAIN job'[c].lines \cap DOMAIN peer'
        PROVE  Running(k, job[c].lines[k])'
    BY <2>3, <2>4, <2>5 DEF Running
  <2> QED
    BY <1>0, <2>2, <2>3, <2>6, NothingCounted
<1>9. ASSUME NEW c \in Collector, LoadPeer(c) PROVE Counted
  <2>1. PICK k \in DOMAIN job[c].lines :
          job' = IF k \in DOMAIN peer
                 THEN [job EXCEPT ![c].at = "saveState", ![c].key = k, ![c].row = peer[k]]
                 ELSE [job EXCEPT ![c] = NoJob]
    BY <1>9 DEF LoadPeer
  <2>2. UNCHANGED <<kernel, past, peer>>
    BY <1>9 DEF LoadPeer
  <2>3. CASE k \in DOMAIN peer
    <3>1. /\ \A d \in Collector \ {c} : job'[d] = job[d]
          /\ job'[c].key = k /\ job'[c].row = peer[k] /\ job'[c].lines = job[c].lines
      BY <1>0, <2>1, <2>3 DEF TypeOK, Job
    <3>2. EnvStep /\ RowsStay
      BY <1>0, <2>2, NoEnvStep DEF RowsStay
    <3>3. ASSUME NEW j \in DOMAIN job'[c].lines \cap DOMAIN peer'
          PROVE  (Running(j, job[c].lines[j]) \/ Gone(j, job[c].lines[j]))'
      <4>1. Running(j, job[c].lines[j]) \/ Gone(j, job[c].lines[j])
        BY <2>2, <3>1 DEF IInv, LinesApply
      <4> QED
        BY <2>2, <3>1, <4>1 DEF Running, Gone
    <3> QED
      BY <1>0, <2>2, <3>1, <3>2, <3>3, NothingCounted
  <2>4. CASE k \notin DOMAIN peer
    BY <1>0, <2>1, <2>2, <2>4, NothingCountedAtEnd
  <2> QED
    BY <2>3, <2>4
<1>10. ASSUME NEW c \in Collector, SaveState(c) PROVE Counted
  <2> DEFINE k == job[c].key
             line == job[c].lines[k]
  <2>1. k \in DOMAIN job[c].lines /\ UNCHANGED <<kernel, past>>
    BY <1>0, <1>10 DEF SaveState, JobsHold
  <2>2. CASE k \in DOMAIN peer
    <3>1. job[c].row = peer[k]
      BY <1>10, <2>2 DEF IInv, RowsFresh, SaveState
    <3>2. peer' = [peer EXCEPT ![k] = Aggregate(peer[k], line)]
      BY <1>10, <2>2, <3>1 DEF SaveState
    <3>3. line \in Bytes
      BY <1>0, <2>1 DEF TypeOK, Job, PeerTable
    <3>4. Running(k, line) \/ Gone(k, line)
      BY <2>1, <2>2 DEF IInv, LinesApply
    <3>5. /\ DOMAIN peer' = DOMAIN peer
          /\ peer'[k] = Aggregate(peer[k], line)
          /\ \A j \in DOMAIN peer \ {k} : peer'[j] = peer[j]
      BY <2>2, <3>2
    <3>6. /\ job'[c].at = "loadPeer"
          /\ DOMAIN job'[c].lines = DOMAIN job[c].lines \ {k}
          /\ \A j \in DOMAIN job'[c].lines : job'[c].lines[j] = job[c].lines[j]
          /\ \A d \in Collector \ {c} : job'[d] = job[d]
      BY <1>0, <1>10, <2>2 DEF SaveState, Restrict, TypeOK, Job
    <3>7. \A d \in Collector \ {c} : Idle(d) /\ DOMAIN job[d].lines = {}
      BY <1>0, <1>10 DEF OneJob, Idle, SaveState, JobsHold
    <3>8. ASSUME NEW j \in DOMAIN peer', Settled(j) PROVE Settled(j)'
      <4>1. CASE j = k
        <5>1. ASSUME NEW i \in DOMAIN peer, i = k PROVE Settled(i)'
          BY <1>0, <2>1, <3>3, <3>4, <3>5, <5>1, AggregateSettles
        <5> QED
          BY <2>2, <4>1, <5>1
      <4>2. CASE j # k
        BY <2>1, <3>5, <3>8, <4>2 DEF Settled
      <4> QED
        BY <4>1, <4>2
    <3>9. RowsSettled'
      BY <3>5, <3>8 DEF IInv, RowsSettled
    <3>10. ASSUME NEW j \in DOMAIN job'[c].lines \cap DOMAIN peer'
           PROVE  (Running(j, job[c].lines[j]) \/ Gone(j, job[c].lines[j]))'
      <4>1. Running(j, job[c].lines[j]) \/ Gone(j, job[c].lines[j])
        BY <3>5, <3>6 DEF IInv, LinesApply
      <4>2. job'[c].lines[j] = job[c].lines[j] /\ peer'[j] = peer[j]
        BY <3>5, <3>6
      <4> QED
        BY <2>1, <4>1, <4>2 DEF Running, Gone
    <3>11. LinesApply'
      BY <3>6, <3>7, <3>10 DEF LinesApply
    <3>12. RowsFresh'
      BY <3>6, <3>7 DEF RowsFresh, Idle
    <3> QED
      BY <3>9, <3>11, <3>12
  <2>3. CASE k \notin DOMAIN peer
    BY <1>0, <1>10, <2>3, NothingCountedAtEnd DEF SaveState
  <2> QED
    BY <2>2, <2>3
<1>11. ASSUME NEW c \in Collector, InterfaceDone(c) PROVE Counted
  <2>1. EnvStep /\ RowsStay
    BY <1>0, <1>11, NoEnvStep DEF InterfaceDone, RowsStay
  <2>2. /\ \A d \in Collector \ {c} : job'[d] = job[d]
        /\ job'[c].at = "getWgDump" /\ DOMAIN job'[c].lines = {}
    BY <1>0, <1>11 DEF InterfaceDone, TypeOK, Job
  <2> QED
    BY <1>0, <2>1, <2>2, NothingCounted
<1>12. ASSUME NEW c \in Collector, Done(c) PROVE Counted
  BY <1>0, <1>12, NothingCountedAtEnd DEF Done
<1>13. ASSUME NEW c \in Collector, Crash(c) PROVE Counted
  BY <1>0, <1>13, NothingCountedAtEnd DEF Crash
<1>14. CASE UNCHANGED vars
  BY <1>14 DEF vars, IInv, RowsSettled, LinesApply, RowsFresh, Settled, Running, Gone
<1> QED
  BY <1>1, <1>2, <1>3, <1>4, <1>5, <1>6, <1>7, <1>8, <1>9, <1>10, <1>11, <1>12,
     <1>13, <1>14 DEF Next, Work

(* While jobs do not overlap, no byte is counted twice: whatever is reset,
   reconnected, deleted or killed between a dump and the rows it goes to. *)
THEOREM NoByteCountedTwice == Spec /\ []OneJob => []NoOvercount
<1>1. IInv => NoOvercount
  <2> SUFFICES ASSUME IInv, NEW k \in DOMAIN peer
               PROVE  AtMost(peer[k].total, Traffic(k))
    BY DEF NoOvercount
  <2>1. Settled(k) /\ TypeOK
    BY DEF IInv, RowsSettled
  <2> QED
    BY <2>1, RowTypes DEF Settled, Traffic, AtMost, Plus, Bytes
<1> QED
  BY <1>1, InitKeepsIInv, NextKeepsIInv, PTL DEF Spec

(* While jobs do not overlap, totals do not shrink. *)
THEOREM TotalsGrow == Spec /\ []OneJob => TotalsNeverShrink
<1> DEFINE Grows == \A k \in DOMAIN peer \cap DOMAIN peer' :
                      AtMost(peer[k].total, peer'[k].total)
<1>1. ASSUME IInv, Next PROVE Grows
  <2>1. TypeOK
    BY <1>1 DEF IInv
  <2>2. \A k \in DOMAIN peer : AtMost(peer[k].total, peer[k].total)
    BY <2>1, RowTypes DEF AtMost, Bytes
  <2>3. ASSUME NEW c \in Collector, SaveState(c) PROVE Grows
    <3> DEFINE k == job[c].key
               line == job[c].lines[k]
    <3>1. CASE k \in DOMAIN peer
      <4>1. job[c].row = peer[k] /\ k \in DOMAIN job[c].lines
        BY <1>1, <2>3, <3>1 DEF IInv, RowsFresh, JobsHold, SaveState
      <4>2. peer' = [peer EXCEPT ![k] = Aggregate(peer[k], line)]
        BY <2>3, <3>1, <4>1 DEF SaveState
      <4>3. line \in Bytes /\ peer[k] \in PeerRow
        BY <2>1, <3>1, <4>1 DEF TypeOK, Job, PeerTable
      <4>4. AtMost(peer[k].total, Aggregate(peer[k], line).total)
        BY <4>3, AggregateRow
      <4> QED
        BY <2>2, <3>1, <4>2, <4>4
    <3>2. CASE k \notin DOMAIN peer
      BY <2>2, <2>3, <3>2 DEF SaveState
    <3> QED
      BY <3>1, <3>2
  <2>4. ASSUME NEW k \in Peer, DeleteClient(k) PROVE Grows
    BY <2>2, <2>4 DEF DeleteClient, Restrict
  <2>5. ASSUME UNCHANGED peer PROVE Grows
    BY <2>2, <2>5
  <2> QED
    BY <1>1, <2>3, <2>4, <2>5
    DEF Next, Work, Transfer, AddPeer, RemovePeer, StopServer, SaveAllPeersState,
        StartServer, GetWgDump, LoadPeer, InterfaceDone, Done, Crash
<1>2. IInv /\ [Next]_vars => [Grows]_vars
  BY <1>1
<1>3. Spec /\ []OneJob => [][Grows]_vars
  BY <1>2, InitKeepsIInv, NextKeepsIInv, PTL DEF Spec
<1> QED
  BY <1>3 DEF TotalsNeverShrink

=============================================================================
