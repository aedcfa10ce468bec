# A TLA+ development of Failure-Detector

Failure-Detector is a SWIM-like group membership service: every machine runs one
`memberd` process that keeps a table of the processes it knows, spreads the table by
gossip or by ping and ack, and marks processes it has not heard of as Suspect or Failed
before it deletes them. This directory holds TLA+ modules of it, the TLC
configurations that check them and proofs checked by TLAPS. Paths below are relative to
the repository.

## Inventory

| component | state | operations | talks to |
|---|---|---|---|
| store, `src/pkg/store` | one row per endpoint: NodeID (endpoint and boot stamp), incarnation, state, LastUpdate; the own NodeID; a version counter nobody reads | `New`, `Snapshot` (which also refreshes the own LastUpdate), `ApplyLocked`, `RemoveEntry` (takes no lock), `MergeFullList` | shared by every goroutine of the process |
| suspicion manager, `src/pkg/suspicion` | thresholds TSuspect, TFail, TCleanup; the gate for ping timeouts | every 100 ms `scanOnce`: Snapshot, then one `RemoveEntry` or `ApplyLocked` per stale row; `os.Exit` once the own row has been Left for TCleanup; `reapInflight` | store, a nonce table |
| gossip loop, `src/pkg/protocol/gossip` | period, fanout, drop rate, configuration to piggyback | `gossipLoop`: send the list to Fanout random peers; `recvLoop`: Left check, merge | store, UDP, daemon (`OnConfig`) |
| ping-ack loop, `src/pkg/protocol/pingack` | the same and a nonce table | `pingLoop`, `recvLoop`: merge, answer a ping, forget the nonce of an ack | store, UDP, daemon |
| nonce table, `src/pkg/protocol/common` | nonce -> address, deadline | `Add`, `Done`, `Expired`, `Reset` | ping loop; the daemon's own, empty one goes to the manager |
| daemon, `src/pkg/daemon` | configuration under `cfgMu`, the running loops, mode | `Run`, `startProtocol`, `applyRuntime`, join over TCP on both sides, admin HTTP (`/leave`, `/list_mem`, `/set`, `/switch`, ...) | everything |
| configuration, `src/pkg/config` | version, mode, periods, fanouts, thresholds, drop rate | `ApplyDTO` (strictly newer version), `BumpAndApplyLocal`, validation | piggybacked on every message, sent in the join response |
| NodeID, wire, transport, memberd, scripts | - | codecs, sockets, signals, deployment | - |

What is hard here: goroutines read a copy of the table and act on the live one; rows are
looked up by endpoint, so a verdict about one boot can hit the next; freshness compares
wall clocks of different machines; datagrams are lost, duplicated and reordered and
deleted rows leave no tombstone; processes crash and come back with a higher boot stamp and
nothing else; the configuration changes while all of this runs. What makes the parts
correct:

* store: the newer boot eclipses the older; the own row is never lost or adopted in an
  accused state; only the subject of a row raises its incarnation and its heartbeat;
* manager: accusations only of the silent; Left is not failure; every dead process is
  eventually marked and removed;
* loops: a node that has left stays left; every live process is eventually known;
* join: the joiner and the introducer know each other afterwards, whatever is retried;
* configuration: versions only grow, everybody ends with the same one, and the loops that
  run are those of the configuration in force.

## Modules

| module | models | composed of |
|---|---|---|
| `MembershipStore` | the table's data and rules (`pkg/store`, the decision of `scanOnce`) | - |
| `GroupMembership` | a cluster of processes: loops, scans, joins, crashes, `/leave`, at a fixed configuration | `MembershipStore` |
| `FailureDetection` | the same cluster with time passing at one pace | `GroupMembership` |
| `MembershipView` | abstract: what the tables promise about boots | implemented by `GroupMembership` |
| `ClusterConfig` | the configuration's data and rules (`pkg/config`) | - |
| `ConfigExchange` | how configurations spread: join response, piggybacking, `/set`, `/switch` | `ClusterConfig` |
| `DaemonRuntime` | the inside of one daemon: `Run`, `startProtocol`, `applyRuntime`, the loops' goroutines | `ClusterConfig` |
| `SerialRuntime` | the same with a history variable: did two changes ever overlap? | `DaemonRuntime` |
| `ConfigRegister` | abstract: what a daemon promises about its configuration | implemented by `DaemonRuntime` |
| `PingTable` | nonces of pings: the loop's table and the daemon's (`inflight.go`) | - |
| `MC...` | values and initial states for TLC | the module named |
| `GroupMembershipProofs`, `OwnRowProofs` | theorems about `GroupMembership` | the second on the first |
| `FailureDetectionProofs` | theorems about `FailureDetection` | `GroupMembershipProofs` |
| `ClusterConfigProofs` | lemmas about the operators of `ClusterConfig` | - |
| `ConfigExchangeProofs`, `DaemonRuntimeProofs` | theorems about the modules named | each on `ClusterConfigProofs` |
| `SerialRuntimeProofs` | theorems about `SerialRuntime` | `DaemonRuntimeProofs` |
| `PingTableProofs` | theorems about `PingTable` | - |

The cluster is modelled at a fixed configuration and the configuration without the
membership tables. They meet in three places only: the mode decides which loop runs, the
thresholds reach the manager and the store, and a process that has left stops receiving.
`ConfigExchange` sees of a daemon what `ConfigRegister` promises and `Converges` asks for:
a configuration that only gives way to newer ones, and DTOs announced that were in force and
are replaced when an `applyRuntime` is over.

Definitions marked as mutants are an operator with a plausible mistake. Nothing refers to
them; replacing the operator by one of them makes a property of the matching run fail,
which shows that the property speaks about that line of the code.

### Membership: `MembershipStore`, `GroupMembership`

`MembershipStore` is the pure part. A table is a function from endpoints to rows or
`Absent`, as the Go map is keyed by endpoint. Operators named after the code say what one
critical section does to it: `NewTable` (`New`), `Refreshed` (`Snapshot`), `Applied`
(`apply`), `updateMemberEntry` with its parts, `MergeFullList`, and `Verdict`, the choice
`scanOnce` makes about one row. Boot stamps of one endpoint are compared only with each
other, so they are its boot ordinals. A list on the wire is some Snapshot, with at most one
row per endpoint, so a merge is pointwise.

`GroupMembership` is a cluster of processes. One action is one critical section of the
store's mutex, and the local state of each goroutine between two of them is a variable:

| variable | what it stands for |
|---|---|
| `table` | the store of each process |
| `scan` | decisions of the running scan not yet carried out; they depend on its Snapshot alone, so they are taken in `ScanBegin` and carried out, in any order, by `ScanStep` |
| `recv`, `held` | where the receive loop is between Left check, merge and ack, and with which message |
| `leave` | the incarnation a `/leave` handler has read and not yet written back |
| `conn` | the TCP exchange of a joiner: request sent, merged by the introducer, answered |
| `net` | datagrams; a datagram stays until `Lose` takes it, which gives loss, duplication and reordering |
| `phase`, `boot` | whether the process is down, blocked in `joinCluster` or running; how often it has started |
| `clock` | real time in units of the thresholds; the wall clock of a node is `clock + Skew` |
| `leftBoots` | history: the boots at which `/leave` was carried out |

Abstractions: one `/leave` handler of a process at a time; the connection of a joiner that
dies is cut off at its restart; a connection that breaks takes a request with it that the
introducer has not merged yet (`JoinBreak`), and the retry brings it again; a data race on the map in `RemoveEntry`, which makes the Go
runtime abort, is a `Crash`, and so is the end of the process by a signal (`Daemon.Close`).

### Time: `FailureDetection`

The thresholds only mean something when time passes for everybody. `FailureDetection`
restricts the steps of `GroupMembership` to intervals of 100 ms, the ticker of
`manager.Run` (`manager.go:29`): in each, every process scans once, every sender loop whose
period is over sends once, and every datagram arrives once or is lost, in any order of all
of these; then `Elapse`. Behaviours must be infinite and states finitely many, so nothing
counts up: `clock` stays at the age of removal, all stamps go down by one per interval, and
0 stands for that age or more. In this module a datagram is delivered once (`Deliver`).
Losses and broken connections are counted in `faults` and bounded.

### Views: `MembershipView`

Of the tables it keeps the boots: a live process has itself under its current boot; of
another endpoint it has some boot that has happened, which only gives way to a later one
until the endpoint is forgotten. `ImplementsView` maps `GroupMembership` to it; `Learn` is
any merge, `Forget` a removal by the scan, `Begin` and `End` the life of the process.

### Configuration: `ClusterConfig`, `ConfigExchange`

`ClusterConfig`: of the ten knobs the mode and TSuspect are kept apart, because `/switch`
rewrites exactly these, and the rest is one value. In a DTO each of the three may be
`Invalid`, missing or out of range, so that a file can fail after some of its knobs have been
read. A configuration prints as a DTO that parses back to
it, so `ToDTO` loses nothing. `LoadFromFlags` gives every process version 1.

`ConfigExchange`: per process the configuration in force (`cfg`), those whose
`applyRuntime` is not finished (`pending`), the DTOs its loops send along (`announced`),
what a running `/switch` has read (`switching`), and the join (`conn`). `handleJoin` calls
`d.cfg.ToDTO()` without `cfgMu`; the method's receiver is a copy, many words long, so a
commit during the copy leaves any mixture of the fields of both (`Torn`).
`CalmJoins` excludes such commits, and only such; see "What does not hold" for them.
Receive loops and handlers enter `applyRuntime` whenever they have committed, and leave it in
any order (`Finish`); on the way it may start a loop (`StartLoop`). After a join that brought
another configuration of the same mode two loops run, the one of the join and the one `Run`
starts over it (`JoinApply`; both are one step here, so what the first loop sends and hears
before the second is started is left out; `DaemonRuntime` has the two apart). A loop that has lost its slot without being stopped goes on
sending what it had; datagrams arrive late and twice here, so from the next `Refresh` on it
is left to the network.

### One daemon: `DaemonRuntime`, `SerialRuntime`, `ConfigRegister`

| variable | what it stands for |
|---|---|
| `cfg`, `given` | `d.cfg`; the argument of `Run` |
| `slot` | `d.loopPA` and `d.loopGo` |
| `loop` | loop objects in order of creation, with their cached DTO, `OnConfig`, stop channel, and their receiver and sender goroutines |
| `task` | per goroutine: the next access to shared state of the `applyRuntime` or `startProtocol` it is in |
| `manager`, `store` | the configuration whose thresholds each has |
| `panicked` | a nil pointer was used or a closed channel closed |
| `adopted` | history: configurations that were in force |

`cfgMu` protects `d.cfg` and nothing else; `applyRuntime` runs without a lock in the receive
loop that heard of the change, in the admin handler, or in the join. One action is one
read or write of a slot, a loop, the manager or the store. `Refresh` takes both slots in one
step, and `Stop` the nil test and the close, so a nil pointer between test and call is left
out there: it takes two changes at once, of which `NeverPanics` says nothing. `applyRuntime` never returns
into a blocked receive loop: the receiver is taken out of `receivers` while it works and
comes back when its stop channel is open.

`daemon.go:189` says that reconfiguring the store concerns "only logging level"; its
TSuspect decides how rows are merged (`membership.go:299`), so the store's configuration is
part of `RuntimeFollowsConfig`.

`ConfigRegister` is the daemon seen from the cluster: the configuration in force only gives
way to a strictly newer version, and what is announced was in force in this process.

`SerialRuntime` adds the history variable `serial`: true as long as no configuration was
committed while an `applyRuntime` was under way or between the join and the start of the
loops, and `Run` has started the protocol that is in force. The properties that need
changes one at a time say so with it; the others are about all behaviours.

### Nonces: `PingTable`

`table` is the `Inflight` of the running ping-ack loop, `shared` the daemon's, which is the
one the manager reaps (`daemon.go:92`); `pingack.New` makes its own (`pingack/loop.go:44`),
so nothing is ever added to `shared`. That is also why `reapInflight` is absent from
`GroupMembership`. `fate` is history: what became of the ack of each nonce. Pings are
written to the socket before their nonce is added (`Ping`, `Track`), and receivers of stopped
loops are still there (`HearLate`).

## Runs

Two nodes `i` (introducer) and `a` unless said otherwise. Deadlock is not checked where
counters are bounded, processes may be gone for good, or configurations may have settled:
there the model, or the system, really stops.

### Passing

| run | question | bounds | distinct states |
|---|---|---|---|
| `suspicion` | From a cold start, with suspicion enabled: is a process ever in its own table as Suspect or Failed (`SelfNotAccused`), and does anybody ever know a higher incarnation of it than it does itself (`OwnIncarnationIsHighest`)? Types. | gossip; 3 instants, thresholds 1, incarnations 100 and 101, 1 datagram in flight: time for an accusation at every threshold, its refutation, and a stale accusation after it | 171,547 |
| `restart` | Suspicion disabled, a process leaves, exits or crashes and comes back. Does it keep its own row (`SelfEntryIntact`)? Is it the one with the freshest heartbeat of itself in its first boot (`OwnHeartbeatIsFreshest`)? Is Left said only of a boot that was asked to leave (`LeftOnlyOnRequest`), and does it stay so until the exit (`OwnLeftIsFinal`)? Does a row ever go back to an older boot (`BootNeverRegresses`)? Does a first boot that is over send no more heartbeats, though its rows travel on (`NoHeartbeatAfterEnd`)? Do the tables implement `MembershipView` (`ImplementsView`)? | ping-ack, the one with a third step in its receive loop; the introducer's clock 1 ahead; 2 boots, 2 instants, 1 datagram in flight | 495,652 |
| `crashed_forgotten` | Is nobody accused who has not died (`AccusedOnlyAfterLoss`)? Is a process that has died for good out of every table in the end (`CrashedForgotten`), though its row is added again by every list that still has it? | 3 nodes, gossip to all, TFail 4 and TCleanup 1 intervals, period 3, no losses | 130,417 |
| `everybody_alive` | Is nobody accused unless a datagram was lost (`AccusedOnlyAfterLoss`), and does everybody end up Alive everywhere, under its present boot, once crashes stop (`EverybodyAlive`)? | ping-ack, thresholds 3/2/2, period 2, 2 boots of `a`, 2 losses: rows become Suspect, Failed and removed, a restarted process adopts and refutes accusations | 138,084 |
| `exchange` | With one operator, at `a`: does a version name one configuration (`OneConfigPerVersion`), and do all processes end up with the same one (`Converges`)? Types. | the introducer and `b` crash and come back at version 1; three nodes with versions 1 and 2, two nodes with a third version as well, `b` then being down; a file with an old version, one with a version ahead, one with invalid knobs; `/set`, `/switch` | 260,456 |
| `runtime` | Two goroutines with changes and a join. While changes do not overlap: does the daemon run exactly the loop of the configuration in force with its knobs (`RuntimeFollowsConfig`), never panic (`NeverPanics`), take at most one datagram with a stopped loop (`StoppedLoopTakesOneMore`), and do stopped loops end (`Settles`)? Always: does it implement `ConfigRegister` (`ImplementsRegister`)? Types. | versions 1 to 3, each of mode or not, from the join, the wire or an admin; 4 loops | 72,258 |
| `ping_table` | Does a record ever outlive the ack that found it (`RecordsAreUnanswered`)? Types. | 2 nonces, 2 peers, 4 instants, 3 mode changes | 51,168 |

In `suspicion` and `restart` every threshold is 1, so a row can pass from fresh to suspect
and failed, or to failed and removed, in the instants there are. In the timed runs the
thresholds are longer than the period, as in the defaults, and all phases of the senders
against the scans are initial states. Restarts with suspicion enabled are in
`everybody_alive` and `restart_self_accused`.

`exchange` bounds its next-state relation (`BoundedNext` in `MCConfigExchange`) so that the
third version exists only while `b` takes no part: no process is started, no version made and
nothing sent to `b` beyond that. Nothing fair is cut off, as `Converges` requires: a
version is first made at `a`, which stays up, so once there is a third one `b` stays down,
and fairness asks for no start, no change and no datagram to a process that is down.

`crashed_forgotten` is an instance of `HeartbeatsInTime`, the hypotheses of the theorem
`NobodyAccusedInTime`; `everybody_alive` is not, it has restarts. In `crashed_forgotten` the
period decides. A removed row is added again from the list
of a process that has not scanned yet in the interval; with two survivors and a period of
more than one interval no two lists in a row can do so. With period 1 they can for ever,
and the property is violated: there are no tombstones. The defaults have periods of two and
three intervals and random fanouts, where a row may come back some times and is gone with
probability one; more processes need longer periods for certainty. In `everybody_alive` two
losses are what two processes survive: a third can silence one direction up to the removal
age, after which neither knows the other and no list is ever sent again.

### Violations

Each is the disagreement of a comment with the code.

| run | the comment | what the code does |
|---|---|---|
| `left_not_terminal` | `membership.go:180` "Left is terminal" | with suspicion disabled (the default) `scanOnce` makes Failed of a Left row that is TFail old and not TCleanup old, `manager.go:116` |
| `restart_self_accused` | `membership.go:307` a row that accuses the node itself is refuted | `apply` ignores the boot: an old boot's verdict, with its higher incarnation, lands in the new boot's row and is adopted by the new process as its own state |
| `starts_given_protocol` | `daemon.go:108` "according to current config" | `Run` starts the loop of its argument after the join has applied another configuration |
| `loop_left_running` | `daemon.go:154` "restarts loops if the mode changed" | two `applyRuntime` at once leave a loop that nobody can stop |
| `overdue_unseen` | `daemon.go:35` "shared", `manager.go:124` | the manager reaps another table than the one the pings are in |

### What does not hold, and why the properties are stated as they are

* `SelfNotAccused`, `OwnIncarnationIsHighest` and `OwnHeartbeatIsFreshest` are about a
  process in its first boot that was not asked to leave (`FirstBoot`). After a restart a
  stale verdict gives the new boot's row the old boot's incarnation
  (`restart_self_accused`), and `normalizeBoot` stamps the row with the receiver's clock. A
  `/leave` handler that is overtaken by two refutations between its Snapshot and its
  `ApplyLocked` writes a lower incarnation back.
* `OwnLeftIsFinal` is about the first boot and suspicion disabled, for the same two reasons.
  `NoHeartbeatAfterEnd` is about first boots because of `normalizeBoot`: each process that
  hears of a later boot, dead or not, stamps the row with its own clock.
* `AccusedOnlyAfterLoss` is about a cluster of two once processes come back. With three, a
  process that has just restarted can be removed, more than once, by scans that had decided
  so about its former boot (`RemoveEntry` asks for the endpoint only). Whoever has removed it
  sends it nothing, and it accuses them. A restricted claim, about the accusations of those
  who never restarted, is false as well: a verdict on the old row is written into the
  row of the new boot, keeps its fresh LastUpdate, and spreads as news.
* `RuntimeFollowsConfig`, `NeverPanics` and the rest of `SerialRuntime` are about changes
  that do not overlap: two `applyRuntime` that stop the same loop close its channel twice,
  and a panic ends the process. The receive loop that hears of a change and an admin's
  request do overlap in the program; `cfgMu` is released before `applyRuntime`
  (`daemon.go:211`, `daemon.go:265`).
* `Converges` is about changes that each process applies one at a time (`OneAtATime`). Changes
  do overlap in the run `exchange`, between versions 2 and 3, and without the hypothesis TLC
  refutes `Converges` there: `applyRuntime` ends, outside `cfgMu`, by giving the loop the DTO of
  its own argument (`daemon.go:195`), and of two at once the older may be the last; the process
  then announces the older configuration until the next change, and nobody hears of the newer.
  `OneConfigPerVersion` holds with overlaps as well, in the run and by the theorem
  `OneOperatorAgrees`. `Converges` speaks of the processes that run once starts, ends and
  changes have ceased, whichever are down.
* `OneConfigPerVersion` and `Converges` are about one operator and calm joins. Two changes on
  two nodes get the same version, and an equal version is refused; a copy torn in
  `handleJoin` gives a joiner fields of two configurations under the version of one.
* The incarnation of a row is not monotonic at one process: a scan writes back the
  incarnation of its Snapshot over a refutation merged since. Nor does a heartbeat that is
  merged after the Snapshot save a row from being marked.
* At equal version a joiner keeps its own configuration; since every process starts at
  version 1, flags that differ stay different until the first change.

### Fairness

* `FailureDetection`: weak fairness of `Progress` as a whole, that is, goroutines run and
  time goes on. The order within an interval is left open, and nothing is assumed of crashes,
  restarts or losses. It is enough because an interval ends only when each scan, send and
  delivery in it has happened, as tickers of the Go runtime and a local network make them.
* `ConfigExchange`: weak fairness of `SendNewest` (every loop ticks, the one with the newest
  DTO too, and a random choice of peers leaves nobody out for ever), strong fairness of receiving something newer (of what is sent
  again and again something gets through), weak fairness of `Finish` (`applyRuntime` does
  not block). `SendNewest` is about peers that run; nothing is assumed of sends to others. None of joins, crashes or admin requests.
* `DaemonRuntime`: weak fairness of each goroutine's next access, of senders noticing their
  stop channel, and of a stopped receiver getting a datagram: all receivers read one
  socket, peers keep sending, and blocked readers are served in turn.

## Proofs

All for every value of the constants that the named assumptions allow. Where an invariant is
named, TLC has checked it on the instance of the run that checks the property.

`GroupMembershipProofs`, from `ThresholdAssumption`, `AbsentAssumption`,
`ClusterAssumption` and `MessageAssumption`:

* `TypeCorrect`: `Spec => []TypeOK`;
* `SelfEntryAlwaysIntact`: `Spec => []SelfEntryIntact`;
* `NobodyLeftUnasked`: `Spec => []LeftOnlyOnRequest`;
* `NewerBootEclipses`: `Spec => BootNeverRegresses`;
* `TablesImplementView`: `Spec => ImplementsView`.

None of the properties is inductive by itself. The invariant `IInv` adds to the types

* `SoundTables`: every table, datagram, held message and connection speaks only of boots
  that have happened, and says Left only of boots in `leftBoots`. Without it a merge could
  bring a later boot of the own endpoint and evict the own row;
* `Control`: a receive loop that merges has a message, a `/leave` handler belongs to a live
  process, and no scan has a decision pending about its own process;
* `SelfEntryIntact` itself, which the types need (`/leave` reads the own row) and which the
  scan needs in turn: it skips the row whose NodeID is its own.

The lemmas about `updateMemberEntry`, `Refreshed` and `Applied` say what a merge, a
Snapshot and an apply do to boots and to Left; `SnapshotKept` and `MergeKept` lift them to
tables, `TableWritten` to the state, and there is one lemma per action.

For `TablesImplementView` every action is, from `IInv`, a step of the view or a stutter: a
Snapshot, an apply and a heartbeat change no boot, a merge only raises boots up to those that
happened (`SoundTables` of the list), the scan removes one row that is not its own
(`Control`).

`OwnRowProofs`, from the same assumptions:

* `OwnRowNeverAccused`: `Spec => []SelfNotAccused`;
* `OwnIncarnationHighest`: `Spec => []OwnIncarnationIsHighest`;
* `OwnHeartbeatFreshest`: `Spec => []OwnHeartbeatIsFreshest`;
* `DepartureIsFinal`: `Spec => OwnLeftIsFinal`, if `TSuspect = 0`, as `OwnLeftIsFinal` asks;
* `TheDeadFallSilent`: `Spec => NoHeartbeatAfterEnd`.

The first three hold each other up. A process adopts what a list says of itself only if that is
fresher than its own row, in incarnation or, with suspicion disabled, in LastUpdate. So
`OInv` says that what any table, datagram, held message or connection says of a process in
`FirstBoots` is `Below` its own row in both (`UnderTables`), that the incarnations pending in
scans are too (`UnderScans`: an apply writes them into rows that are then gossiped), and that
the own row is Alive and not ahead of the own clock (`OwnRows`: a heartbeat or a refutation
then raises it). `Passed` reduces a step to what it does to tables (`TablesKept`) and to
where its new lists come from (`ListsPassed`). The first start of a process is safe because
nobody has a row about a boot that has not happened (`SoundTables` of `IInv`).

`OInv` ends where `/leave` begins: a Left row is neither refuted nor refreshed, and the
incarnation `/leave` writes may be older than one that is about. `DepartureIsFinal` has an
invariant of its own, `HInv`: nobody has a fresher heartbeat of a process in its first boot,
left or not (`InFirstBoot`), than the process itself, and that heartbeat is not ahead of its
own clock. With suspicion disabled heartbeats alone decide a merge (`UpdateByHeartbeat`), so
no merge replaces the own row; `/leave` stamps it with the clock, a scan keeps the heartbeats
of the rows it writes, and a step brings no heartbeat that is not in some list or the
subject's own (`HeartbeatsPassed`). With suspicion enabled TLC refutes `HInv`: an equal
heartbeat with a higher incarnation wins.

`TheDeadFallSilent` needs `IInv` and `BusyIsUp` (who receives or scans is a live process), and
neither hypothesis nor invariant about heartbeats. LastUpdate is written in five places: a start
of the process, a Snapshot, a refutation and `/leave` stamp the own row of a live process, which
is not under a boot that is over (`SelfEntryIntact`), and `normalizeBoot` stamps rows of later
boots (`UpdateHandsOn`). All other rows are handed on from list to list (`HandedOn`). A dead process
therefore only grows older, which its removal depends on; that it is gone in the end is
`CrashedForgotten`.

`FailureDetectionProofs`, from the same assumptions and `PeriodAssumption`:

* `TimedCorrect`: `TimedSpec => [](TypeOK /\ SelfEntryIntact /\ LeftOnlyOnRequest)`;
* `NobodyAccusedInTime`: `TimedSpec => []AccusedOnlyAfterLoss`, under the hypothesis
  `HeartbeatsInTime`.

The steps of `FailureDetection` are those of `GroupMembership` with datagrams used up, and
`Elapse`, so `IInv` carries over. `HeartbeatsInTime` is what a deployment has to respect for
the thresholds to mean anything:

* a sender reaches everybody in one period: `Fanout` is at least the number of the others;
* `Period + Skew[n]` is below the first threshold, TSuspect or, without suspicion, TFail. A
  row is stamped by the clock of its subject and aged by the clock of its reader, so the
  reader that is ahead is the strictest. The bound is tight: with the two equal TLC finds an
  accusation, because the scan may come before the delivery of the same interval;
* nobody comes back (`MaxBoot = 1`); processes may die, any number of them.

The invariant `TInv` adds `Calm`, as long as nothing was lost, to `IInv`. `NobodyAccused`: no
table, datagram or held message says anything but Alive of a live process, and no scan has
a decision about one pending. That follows from `AllHeard`: the row that a live process has of
another is at most `Period` old, and either `Fresh` or a fresher one is on its way, in the
network or in the receive loop. A row is fresh if its age and the time until the sender's next
tick make up at most a period: in an `Elapse` the age grows as the time shrinks, and when it is
zero the send puts a row of age 0 on its way before the interval can end. `Elapse` itself
waits until nothing is on its way, so that every row is `Fresh` when it ages. A merge takes the
fresher of two rows and a scan leaves young ones alone, so no step loses what was heard.

`DaemonRuntimeProofs`, from `RuntimeAssumption` and `NilAssumption`:

* `RuntimeTypeCorrect`: `Spec => []TypeOK`;
* `RuntimeImplementsRegister`: `Spec => ImplementsRegister`, for any number of goroutines in
  `applyRuntime`.

The invariant `RInv` adds to the types `Sources`: what a goroutine carries through
`applyRuntime` was committed or is the argument of `Run`, loops are given what goroutines
carry, and the slots point to loops (the types need it: a write through a slot must hit a
loop). Commits are `Adopt`, by the rule of `ApplyDTO`; all other steps are `Announce`.

`SerialRuntimeProofs`, from the same assumptions:

* `SerialNeverPanics`: `FairSpec => []NeverPanics`;
* `SerialFollowsConfig`: `FairSpec => []RuntimeFollowsConfig`;
* `SerialTakesOneMore`: `FairSpec => []StoppedLoopTakesOneMore`.

The properties speak of a daemon at rest, or of one bit that a step long after the mistake
sets. The invariant `SInv` is `RInv` and, as long as `serial` holds, what is true in the
middle of a change (`Orderly`):

* `OneAtATime`: one goroutine at most is at work, for the configuration in force;
* `StageReached`: before each access of that goroutine, which slots are empty, what is in the
  other one, and which of loop, manager and store already have the configuration. It is the
  specification of `applyRuntime` line by line, with `startProtocol` as a part of it that Run
  enters alone;
* `AtRest`: what holds when nobody is at work, before the first loop and while serving; every
  change begins there and has to end there;
* `SlotsRun`: the running loops are those in a slot, except between the close of a stop
  channel and the clearing of its pointer;
* `OneReceiver`: a loop has one receiver, which is reading, or in `applyRuntime` on behalf of
  its loop, or gone; this is what bounds the datagrams of a stopped loop by one.

A commit while somebody is at work makes `serial` false (`Undisturbed`), and nothing is
claimed from there on.

`ConfigExchangeProofs`, from `ExchangeAssumption`:

* `ExchangeTypeCorrect`: `Spec => []TypeOK`: whatever flags, file, operator and network
  supply, a configuration in force has passed validation, torn copies included, because a
  copy is valid field by field;
* `OneOperatorAgrees`: `Spec => []OneConfigPerVersion`, under the hypothesis `OneOperator`.

`OneOperator(adm, s)` says that only `adm` has an operator, `adm` does not crash, every
process is started with the settings `s`, and joins copy whole configurations (`CalmJoins`).
The run `exchange` has such constants. None of the four can go: TLC finds two configurations
of one version with a second operator, with an `adm` that crashes and counts from 1 again,
and with torn copies; and different flags differ at version 1 from the start. All others may
crash and come back at version 1, in any number, and messages and join answers of earlier
lives may be about. Nothing is assumed of the order in which changes are applied: any number of
`applyRuntime` may be under way in a process, and what it announces in the end may be an older
configuration, but never another one of the same version.

The invariant `EInv` collects in `Known` every configuration that is in force, announced by
some loop, being applied by some goroutine, copied by a join or on its way, and the one a
starting process brings in. `Agreed` says that a version names one of them, and that the
version of `adm` is the highest: so the next one it makes is new to everybody, and everybody
else only takes over what is `Known`. `Orderly` keeps the exceptions out: who can switch, that a
copy being made is the configuration in force, and that the introducer joins nobody. `/switch`
applies what it read earlier, but `BumpAndApplyLocal` numbers it from the configuration in
force by then, so its result is new as well.

`PingTableProofs`, from `PingAssumption`:

* `PingTypeCorrect`: `Spec => []TypeOK`;
* `AnsweredPingsForgotten`: `Spec => []RecordsAreUnanswered`.

The invariant adds `SendingUntracked`: the nonce of a ping between socket and table has no
record and no ack that found one, so the Add that follows cannot bring an answered ping back.

Only model-checked:

* `AccusedOnlyAfterLoss` when processes come back: the run `everybody_alive` has one, with
  two processes. With three it is false, see "What does not hold".
* All liveness (`CrashedForgotten`, `EverybodyAlive`, `Converges`, `Settles`): liveness under
  fairness and ENABLED are beyond the prover.

## Not modelled

* The codecs of `nodeid` and `wire`, the sockets, log formatting and the deployment scripts:
  no state that the protocol depends on. The order of boot stamps and NodeID equality are
  in `MembershipStore`.
* `SetSelfState` (no caller) and the store's version counter (no reader).
* The validation of the process's own addresses (`ValidateLocalBootstrap`): it happens
  before there is a process to model.
* Membership tables while the configuration changes: a change of TSuspect between two
  merges or of the mode under a running scan. `RuntimeFollowsConfig` shows when manager and
  store agree.
* The data race in `RemoveEntry`, beyond being a crash.

## What is left to do

1. That `ConfigExchange`, seen from one process between two starts, implements
   `ConfigRegister`; today the two are connected through `DaemonRuntime` only.
2. The store with a configuration that changes under it.
