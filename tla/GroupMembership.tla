--------------------------- MODULE GroupMembership ---------------------------
(***************************************************************************)
(* A cluster of memberd processes at fixed configuration: the membership   *)
(* table of each, and the goroutines that share it.                        *)
(*                                                                         *)
(*   - suspicion.Manager: a scan takes a Snapshot and then carries out its *)
(*     decisions one row at a time, without the store's lock in between;   *)
(*   - the receive loop of gossip or pingack: read, Left check, merge and, *)
(*     for a ping, the ack, each under its own acquisition of the lock;    *)
(*   - the sender loop of gossip or pingack;                               *)
(*   - the admin handlers /leave (Snapshot, then ApplyLocked) and the ones *)
(*     that only take a Snapshot;                                          *)
(*   - the join of a starting process through the introducer, over TCP;    *)
(*   - crash and restart of the process: nothing is persistent.            *)
(*                                                                         *)
(* One action is one critical section of store.mu.  The network loses,     *)
(* delays, reorders and duplicates: a sent message stays until it is lost. *)
(***************************************************************************)
EXTENDS MembershipStore, FiniteSets

CONSTANTS
  Introducer,   \* the node started with -is-introducer
  Mode,         \* "gossip" or "pingack"
  Fanout,       \* peers addressed by one period of the sender loop
  Skew,         \* how far the wall clock of a node is ahead of clock
  Crashers,     \* nodes whose process may die
  Leavers,      \* nodes whose operator may ask for /leave
  \* bounds of the model
  MaxClock, MaxBoot, MaxInc, MaxInFlight

ASSUME ClusterAssumption ==
  /\ Introducer \in Node
  /\ Mode \in {"gossip", "pingack"}
  /\ Fanout \in Nat \ {0}
  /\ Skew \in [Node -> Nat]
  /\ Crashers \subseteq Node
  /\ Leavers \subseteq Node
  /\ MaxClock \in Nat /\ MaxBoot \in Nat /\ MaxInc \in Nat /\ MaxInFlight \in Nat

VARIABLES
  clock,     \* real time, in units of the thresholds
  boot,      \* boot[n]: boots of n so far, the stamp of its current NodeID
  phase,     \* phase[n]: no process, blocked in joinCluster, loops started
  table,     \* table[n]: the store of n
  scan,      \* scan[n][p]: decision of the running scan of n about p not yet carried out
  leave,     \* leave[n]: incarnation a running /leave handler of n has read
  recv,      \* recv[n]: where the receive loop of n is
  held,      \* held[n]: the message the receive loop of n is handling
  conn,      \* conn[n]: TCP connection of the joining n to the introducer
  net,       \* datagrams in flight
  leftBoots  \* history: the boots <<n, b>> at which /leave was carried out

vars == <<clock, boot, phase, table, scan, leave, recv, held, conn, net, leftBoots>>

Message == [type : {"gossip", "ping", "ack"}, src : Node, dst : Node, list : Table]

ASSUME MessageAssumption == Absent \notin Message

Pending == [verdict : {"Remove", "Failed", "Suspect"}, inc : Nat]

Connection == [stage : {"request", "merged", "response"}, list : Table]

NoPending == [p \in Node |-> Absent]

TypeOK ==
  /\ clock \in Nat
  /\ boot \in [Node -> Nat]
  /\ phase \in [Node -> {"down", "joining", "running"}]
  /\ table \in [Node -> Table]
  /\ scan \in [Node -> [Node -> Pending \cup {Absent}]]
  /\ leave \in [Node -> Nat \cup {Absent}]
  /\ recv \in [Node -> {"off", "reading", "merging", "replying"}]
  /\ held \in [Node -> Message \cup {Absent}]
  /\ conn \in [Node -> Connection \cup {Absent}]
  /\ net \subseteq Message
  /\ leftBoots \subseteq Node \X Nat

-----------------------------------------------------------------------------
Now(n) == clock + Skew[n]

Up(n) == phase[n] # "down"

\* What Snapshot leaves behind at n, and the list it returns.
SnapshotOf(n) == Refreshed(table[n], n, boot[n], Now(n))

TakeSnapshot(n) == table' = [table EXCEPT ![n] = SnapshotOf(n)]

MergeAt(n, list) ==
  table' = [table EXCEPT ![n] = MergeFullList(@, list, n, boot[n], Now(n))]

\* Bound: the incarnations of a behaviour stay below MaxInc.
BoundedInc(n) == table'[n][n] # Absent => table'[n][n].inc <= MaxInc

\* Bound: a send that would put more than MaxInFlight datagrams in flight waits.
Send(msgs) == net' = net \cup msgs /\ Cardinality(net') <= MaxInFlight

Peers(tbl, n) == {p \in Node : tbl[p] # Absent /\ ~IsSelf(p, tbl[p], n, boot[n])}

\* The sender loops shuffle the peers and take the first Fanout of them.
Targets(peers) ==
  {D \in SUBSET peers :
     Cardinality(D) = IF Cardinality(peers) < Fanout THEN Cardinality(peers) ELSE Fanout}

-----------------------------------------------------------------------------
Init ==
  /\ clock = 0
  /\ boot = [n \in Node |-> 0]
  /\ phase = [n \in Node |-> "down"]
  /\ table = [n \in Node |-> EmptyTable]
  /\ scan = [n \in Node |-> NoPending]
  /\ leave = [n \in Node |-> Absent]
  /\ recv = [n \in Node |-> "off"]
  /\ held = [n \in Node |-> Absent]
  /\ conn = [n \in Node |-> Absent]
  /\ net = {}
  /\ leftBoots = {}

Tick ==
  /\ clock < MaxClock
  /\ clock' = clock + 1
  /\ UNCHANGED <<boot, phase, table, scan, leave, recv, held, conn, net, leftBoots>>

-----------------------------------------------------------------------------
(* Start, crash, exit.                                                     *)

\* daemon.Run up to the join: a fresh NodeID and store, the scanner runs; the
\* introducer starts its loops, another node blocks in joinCluster.
Start(n) ==
  /\ phase[n] = "down"
  /\ boot[n] < MaxBoot
  /\ boot' = [boot EXCEPT ![n] = @ + 1]
  /\ table' = [table EXCEPT ![n] = NewTable(n, boot[n] + 1, Now(n))]
  /\ phase' = [phase EXCEPT ![n] = IF n = Introducer THEN "running" ELSE "joining"]
  /\ recv' = [recv EXCEPT ![n] = IF n = Introducer THEN "reading" ELSE "off"]
  /\ conn' = [conn EXCEPT ![n] = Absent]
  /\ UNCHANGED <<clock, scan, leave, held, net, leftBoots>>

\* The process of n ends.  What it kept in memory is gone, and so are the
\* connections of the joiners when n is the introducer.
ProcessEnds(n) ==
  /\ phase' = [phase EXCEPT ![n] = "down"]
  /\ table' = [table EXCEPT ![n] = EmptyTable]
  /\ scan' = [scan EXCEPT ![n] = NoPending]
  /\ leave' = [leave EXCEPT ![n] = Absent]
  /\ recv' = [recv EXCEPT ![n] = "off"]
  /\ held' = [held EXCEPT ![n] = Absent]
  /\ conn' = IF n = Introducer THEN [p \in Node |-> Absent] ELSE conn
  /\ UNCHANGED <<clock, boot, net, leftBoots>>

Crash(n) ==
  /\ n \in Crashers
  /\ Up(n)
  /\ ProcessEnds(n)

-----------------------------------------------------------------------------
(* Joining through the introducer.                                         *)

\* joinCluster: dial and send the own table; a failed dial is retried.
JoinRequest(n) ==
  /\ phase[n] = "joining"
  /\ conn[n] = Absent
  /\ phase[Introducer] = "running"
  /\ TakeSnapshot(n)
  /\ conn' = [conn EXCEPT ![n] = [stage |-> "request", list |-> SnapshotOf(n)]]
  /\ UNCHANGED <<clock, boot, phase, scan, leave, recv, held, net, leftBoots>>

\* handleJoin merges the joiner's table ...
JoinMerge(n) ==
  /\ phase[Introducer] = "running"
  /\ conn[n] # Absent
  /\ conn[n].stage = "request"
  /\ MergeAt(Introducer, conn[n].list)
  /\ BoundedInc(Introducer)
  /\ conn' = [conn EXCEPT ![n] = [stage |-> "merged", list |-> EmptyTable]]
  /\ UNCHANGED <<clock, boot, phase, scan, leave, recv, held, net, leftBoots>>

\* ... and answers with a Snapshot of the introducer's.
JoinRespond(n) ==
  /\ phase[Introducer] = "running"
  /\ conn[n] # Absent
  /\ conn[n].stage = "merged"
  /\ TakeSnapshot(Introducer)
  /\ conn' = [conn EXCEPT ![n] = [stage |-> "response", list |-> SnapshotOf(Introducer)]]
  /\ UNCHANGED <<clock, boot, phase, scan, leave, recv, held, net, leftBoots>>

\* joinCluster merges the answer and returns; Run starts the loops.
JoinFinish(n) ==
  /\ phase[n] = "joining"
  /\ conn[n] # Absent
  /\ conn[n].stage = "response"
  /\ MergeAt(n, conn[n].list)
  /\ BoundedInc(n)
  /\ phase' = [phase EXCEPT ![n] = "running"]
  /\ recv' = [recv EXCEPT ![n] = "reading"]
  /\ conn' = [conn EXCEPT ![n] = Absent]
  /\ UNCHANGED <<clock, boot, scan, leave, held, net, leftBoots>>

\* The connection fails at any point; a joiner that is still there dials again.
JoinBreak(n) ==
  /\ conn[n] # Absent
  /\ conn' = [conn EXCEPT ![n] = Absent]
  /\ UNCHANGED <<clock, boot, phase, table, scan, leave, recv, held, net, leftBoots>>

-----------------------------------------------------------------------------
(* Sender and receive loops.                                               *)

\* One period of gossipLoop or pingLoop.  It does not look at the own state:
\* a node that has left keeps sending until it exits.
SendPeriod(n) ==
  /\ phase[n] = "running"
  /\ TakeSnapshot(n)
  /\ \E D \in Targets(Peers(SnapshotOf(n), n)) :
       Send([type : {IF Mode = "gossip" THEN "gossip" ELSE "ping"},
             src : {n}, dst : D, list : {SnapshotOf(n)}])
  /\ UNCHANGED <<clock, boot, phase, scan, leave, recv, held, conn, leftBoots>>

\* recvLoop reads the datagram m and takes a Snapshot to see whether the node has
\* left; if so it returns, for good.
ReadDatagram(n, m) ==
  /\ recv[n] = "reading"
  /\ m.dst = n
  /\ \/ /\ SelfLeft(table[n], n, boot[n])
        /\ recv' = [recv EXCEPT ![n] = "off"]
        /\ UNCHANGED held
     \/ /\ ~SelfLeft(table[n], n, boot[n])
        /\ recv' = [recv EXCEPT ![n] = "merging"]
        /\ held' = [held EXCEPT ![n] = m]
  /\ TakeSnapshot(n)
  /\ UNCHANGED <<clock, boot, phase, scan, leave, conn, leftBoots>>

\* The datagram read may arrive once more.
Receive(n) ==
  /\ \E m \in net : ReadDatagram(n, m)
  /\ UNCHANGED net

\* The list is merged whatever the type of the message; only the pingack loop
\* answers a ping.
Merge(n) ==
  /\ recv[n] = "merging"
  /\ MergeAt(n, held[n].list)
  /\ BoundedInc(n)
  /\ \/ /\ held[n].type = "ping" /\ Mode = "pingack"
        /\ recv' = [recv EXCEPT ![n] = "replying"]
        /\ UNCHANGED held
     \/ /\ ~(held[n].type = "ping" /\ Mode = "pingack")
        /\ recv' = [recv EXCEPT ![n] = "reading"]
        /\ held' = [held EXCEPT ![n] = Absent]
  /\ UNCHANGED <<clock, boot, phase, scan, leave, conn, net, leftBoots>>

Reply(n) ==
  /\ recv[n] = "replying"
  /\ TakeSnapshot(n)
  /\ Send({[type |-> "ack", src |-> n, dst |-> held[n].src, list |-> SnapshotOf(n)]})
  /\ recv' = [recv EXCEPT ![n] = "reading"]
  /\ held' = [held EXCEPT ![n] = Absent]
  /\ UNCHANGED <<clock, boot, phase, scan, leave, conn, leftBoots>>

\* A datagram is dropped, by the network or by shouldDrop.
Lose(m) ==
  /\ net' = net \ {m}
  /\ UNCHANGED <<clock, boot, phase, table, scan, leave, recv, held, conn, leftBoots>>

-----------------------------------------------------------------------------
(* The scanner.                                                            *)

\* Mutant: rows to be kept are not skipped.
DecisionWithoutSkip(n, p, now) ==
  LET e == SnapshotOf(n)[p]
  IN  IF e = Absent THEN Absent
      ELSE [verdict |-> Verdict(e, IsSelf(p, e, n, boot[n]), now), inc |-> e.inc]

\* What a scan that starts now will do about the row of p.
Decision(n, p, now) ==
  LET e == SnapshotOf(n)[p]
      v == Verdict(e, IsSelf(p, e, n, boot[n]), now)
  IN  IF e = Absent \/ v = "Keep" THEN Absent ELSE [verdict |-> v, inc |-> e.inc]

\* scanOnce up to its loop: the decisions depend on the Snapshot alone.
ScanBegin(n) ==
  /\ Up(n)
  /\ scan[n] = NoPending
  /\ ~SelfLeft(table[n], n, boot[n])
  /\ TakeSnapshot(n)
  /\ scan' = [scan EXCEPT ![n] = [p \in Node |-> Decision(n, p, Now(n))]]
  /\ UNCHANGED <<clock, boot, phase, leave, recv, held, conn, net, leftBoots>>

\* The scan of a node that has left does nothing but exit, TCleanup later.
ExitAfterLeave(n) ==
  /\ Up(n)
  /\ scan[n] = NoPending
  /\ SelfLeft(table[n], n, boot[n])
  /\ Now(n) - table[n][n].lu >= TCleanup
  /\ ProcessEnds(n)

\* One iteration of the loop: RemoveEntry or ApplyLocked, on whatever row the
\* table now holds for the endpoint.
CarriedOut(e, d, now) ==
  IF d.verdict = "Remove" THEN Absent ELSE Applied(e, d.inc, d.verdict, now)

ScanStep(n, p) ==
  /\ scan[n][p] # Absent
  /\ table' = [table EXCEPT ![n][p] = CarriedOut(@, scan[n][p], Now(n))]
  /\ scan' = [scan EXCEPT ![n][p] = Absent]
  /\ UNCHANGED <<clock, boot, phase, leave, recv, held, conn, net, leftBoots>>

-----------------------------------------------------------------------------
(* Admin handlers, registered after the join.                              *)

AdminQuery(n) ==
  /\ phase[n] = "running"
  /\ TakeSnapshot(n)
  /\ UNCHANGED <<clock, boot, phase, scan, leave, recv, held, conn, net, leftBoots>>

\* /leave reads the own incarnation from a Snapshot ...
LeaveBegin(n) ==
  /\ n \in Leavers
  /\ phase[n] = "running"
  /\ leave[n] = Absent
  /\ TakeSnapshot(n)
  /\ leave' = [leave EXCEPT ![n] = SnapshotOf(n)[n].inc]
  /\ UNCHANGED <<clock, boot, phase, scan, recv, held, conn, net, leftBoots>>

\* ... and overwrites the own row with its successor.
LeaveApply(n) ==
  /\ leave[n] # Absent
  /\ leave[n] < MaxInc
  /\ table' = [table EXCEPT ![n][n] = Applied(@, leave[n] + 1, "Left", Now(n))]
  /\ leave' = [leave EXCEPT ![n] = Absent]
  /\ leftBoots' = leftBoots \cup {<<n, boot[n]>>}
  /\ UNCHANGED <<clock, boot, phase, scan, recv, held, conn, net>>

-----------------------------------------------------------------------------
ProcessStep(n) ==
  \/ Start(n) \/ Crash(n) \/ ExitAfterLeave(n)
  \/ JoinRequest(n) \/ JoinMerge(n) \/ JoinRespond(n) \/ JoinFinish(n) \/ JoinBreak(n)
  \/ SendPeriod(n) \/ Receive(n) \/ Merge(n) \/ Reply(n)
  \/ ScanBegin(n) \/ \E p \in Node : ScanStep(n, p)
  \/ AdminQuery(n) \/ LeaveBegin(n) \/ LeaveApply(n)

Next ==
  \/ Tick
  \/ \E n \in Node : ProcessStep(n)
  \/ \E m \in net : Lose(m)

Spec == Init /\ [][Next]_vars
-----------------------------------------------------------------------------
(* Properties.                                                             *)

\* Every table some goroutine, datagram or connection still holds.
Lists ==
  {table[n] : n \in Node}
    \cup {m.list : m \in net}
    \cup {held[n].list : n \in {k \in Node : held[k] # Absent}}
    \cup {conn[n].list : n \in {k \in Node : conn[k] # Absent}}

\* The row of its own endpoint is in the table of every live process, under
\* its own boot: neither a scan nor a merge of rows about an earlier or later
\* boot of the endpoint ever removes or eclipses it (the handlers of
\* store.selfBumpIncarnation and SetSelfState log "Self entry not found" and
\* give up if it did).
SelfEntryIntact ==
  \A n \in Node : Up(n) => table[n][n] # Absent /\ table[n][n].boot = boot[n]

\* A row says Left only of a boot whose operator asked it to leave: no scan,
\* merge, delay or restart turns silence into a voluntary departure.
LeftOnlyOnRequest ==
  \A L \in Lists : \A p \in Node :
    L[p] # Absent /\ L[p].state = "Left" => <<p, L[p].boot>> \in leftBoots

\* A process that has left stays Left until it exits: the receive loop stops, and what
\* it was merging when /leave came is older than the departure.  It holds of the first
\* boot with suspicion disabled: a receiver whose clock is ahead stamps the row of a
\* restarted process with it, and two refutations that overtake /leave are newer than
\* the incarnation it writes.
OwnLeftIsFinal ==
  [][\A n \in Node :
       Up(n) /\ boot[n] = 1 /\ SelfLeft(table[n], n, 1) /\ Up(n)'
         => SelfLeft(table'[n], n, boot'[n])]_vars

\* n runs its first process and has not been asked to leave: no row about an earlier
\* boot of n exists, and no /leave handler has written an incarnation back.
FirstBoot(n) == Up(n) /\ boot[n] = 1 /\ <<n, 1>> \notin leftBoots

\* Whatever the others say of it, a process that has been there from the start never
\* holds itself for Suspect or Failed: updateMemberEntry refutes such a row or finds
\* its own fresher.
SelfNotAccused == \A n \in Node : FirstBoot(n) => table[n][n].state = "Alive"

\* Nobody knows a higher incarnation of such a process than the process itself does:
\* only selfBumpIncarnation raises it, a scan that was overtaken by a refutation writes
\* an older one back, and stale lists keep arriving.
OwnIncarnationIsHighest ==
  \A L \in Lists : \A n \in Node :
    FirstBoot(n) /\ L[n] # Absent => L[n].inc <= table[n][n].inc

\* Nobody holds a fresher heartbeat of such a process than the process itself: the
\* LastUpdate of a row is written by the clock of the process it is about, however far
\* ahead of the others' it is, and a Suspect or Failed put on the row keeps it.  With
\* suspicion disabled this is all that keeps a process from adopting what others say
\* of it.
OwnHeartbeatIsFreshest ==
  \A L \in Lists : \A n \in Node :
    FirstBoot(n) /\ L[n] # Absent => L[n].lu <= table[n][n].lu

\* The first process of p is over, whether or not another one runs by now.
FirstBootOver(p) == boot[p] >= 1 /\ ~(Up(p) /\ boot[p] = 1)

\* The dead send no heartbeats: once the first process of an endpoint has ended, every row
\* about it has a LastUpdate that some row about it already had, wherever lists are merged
\* again, added where the row was removed, marked by scans or handed to joiners.  This is
\* what the ages of scanOnce rely on.  Rows of later boots are restamped by normalizeBoot.
NoHeartbeatAfterEnd ==
  [][\A p \in Node : FirstBootOver(p) =>
       \A L \in Lists' : L[p] # Absent /\ L[p].boot = 1 =>
         \E K \in Lists : K[p] # Absent /\ K[p].boot = 1 /\ K[p].lu = L[p].lu]_vars

\* updateMemberEntry: "If the incoming entry is for self, bump incarnation to refute
\* suspicion/failed allegation".  What a process holds itself for is Alive or Left, then.
\* Run restart_self_accused shows what becomes of that in a process that was restarted.
AccusationsAreRefuted ==
  \A n \in Node : Up(n) => table[n][n].state \in {"Alive", "Left"}

\* A step changes the row of p at n without a removal or a restart of n.
RowStep(n, p) ==
  Up(n) /\ Up(n)' /\ table[n][p] # Absent /\ table'[n][p] # Absent

SameBootStep(n, p) == RowStep(n, p) /\ table'[n][p].boot = table[n][p].boot

\* While a table has a row for an endpoint, the boot of that row never goes
\* back: the newer boot eclipses the older one, also when rows about both keep
\* arriving out of order.
BootNeverRegresses ==
  [][\A n, p \in Node : RowStep(n, p) => table'[n][p].boot >= table[n][p].boot]_vars

\* The conflict policy of pkg/store: Left is terminal.
LeftIsTerminal ==
  [][\A n, p \in Node :
       SameBootStep(n, p) /\ table[n][p].state = "Left" => table'[n][p].state = "Left"]_vars

\* The boot of p that n has in its table.
BootAt(n, p) == IF table[n][p] = Absent THEN 0 ELSE table[n][p].boot

View == INSTANCE MembershipView
          WITH up <- {n \in Node : Up(n)},
               view <- [n \in Node |-> [p \in Node |-> BootAt(n, p)]]

\* Under crashes, restarts, half-finished scans and duplicated datagrams a table moves as
\* MembershipView says: one endpoint forgotten at a time and never its own, no boot
\* that did not happen, none that gives way to an earlier one.
ImplementsView == View!Spec

=============================================================================
