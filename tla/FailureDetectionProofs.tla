------------------------ MODULE FailureDetectionProofs ------------------------
(***************************************************************************)
(* Theorems about FailureDetection.  The clocks and periods change nothing *)
(* of what GroupMembership guarantees, and nobody accuses a process that   *)
(* has been there from the start as long as no datagram was lost, if what  *)
(* the first threshold leaves over after the skew of a clock is longer     *)
(* than the period of the sender loops.                                    *)
(***************************************************************************)
EXTENDS FailureDetection, GroupMembershipProofs, FiniteSetTheorems

-----------------------------------------------------------------------------
(* The hypotheses and the inductive invariant of AccusedOnlyAfterLoss.     *)

FirstThreshold == IF SuspicionEnabled THEN TSuspect ELSE TFail

\* A period reaches every peer and is shorter than the first threshold, also for the
\* process whose clock is ahead of the others', and a process that ends does not come
\* back: one that does is forgotten by the scans that had condemned its former boot, and
\* hears from nobody.
HeartbeatsInTime ==
  /\ IsFiniteSet(Node)
  /\ Cardinality(Node) <= Fanout + 1
  /\ \A n \in Node : Period + Skew[n] < FirstThreshold
  /\ MaxBoot = 1

\* A row nobody has accused or refuted.
Untouched(r) == r.boot = 1 /\ r.state = "Alive" /\ r.inc = InitialIncarnation

UntouchedRows(L) == \A p \in Node : Up(p) /\ L[p] # Absent => Untouched(L[p])

\* The row is not older than the latest send of p: the age grows as due goes down.
Fresh(L, p) == L[p] # Absent /\ clock + due[p] <= L[p].lu + Period

\* What p sent last has not been merged by n yet.
OnItsWay(n, p) ==
  \/ \E m \in net : m.dst = n /\ Fresh(m.list, p)
  \/ recv[n] = "merging" /\ Fresh(held[n].list, p)

HeardInTime(n, p) ==
  /\ table[n][p] # Absent
  /\ clock <= table[n][p].lu + Period
  /\ Fresh(table[n], p) \/ OnItsWay(n, p)

\* Nobody joins, nobody leaves.
Settled ==
  /\ clock = RemovalAge
  /\ leftBoots = {}
  /\ due \in [Node -> 0 .. Period]
  /\ \A n \in Node :
       /\ boot[n] = 1 /\ phase[n] \in {"down", "running"} /\ conn[n] = Absent
       /\ Up(n) => recv[n] # "off"

NobodyAccused ==
  /\ \A n \in Node : UntouchedRows(table[n])
  /\ \A m \in net : UntouchedRows(m.list)
  /\ \A n \in Node : held[n] # Absent => UntouchedRows(held[n].list)
  /\ \A n, p \in Node : Up(p) => scan[n][p] = Absent

AllHeard == \A n, p \in Node : Up(n) /\ Up(p) => HeardInTime(n, p)

Calm == Settled /\ NobodyAccused /\ AllHeard

TInv == IInv /\ faults \in Nat /\ (faults = 0 => Calm)

-----------------------------------------------------------------------------
(* The invariant of GroupMembership.                                       *)

LEMMA ClockType == RemovalAge \in Nat /\ RemovalAge >= FirstThreshold
BY ThresholdAssumption DEF RemovalAge, FirstThreshold

\* The row every founder starts with.
LEMMA FoundersRow ==
  LET r == [boot |-> 1, inc |-> InitialIncarnation, state |-> "Alive", lu |-> RemovalAge]
  IN  r \in Entry /\ r # Absent /\ Untouched(r) /\ r.lu = RemovalAge
BY ClockType, AbsentAssumption DEF Entry, State, InitialIncarnation, Untouched

LEMMA FoundersTables ==
  ASSUME TimedInit(Node)
  PROVE  /\ \A n \in Node : boot[n] = 1 /\ table[n] \in Table
         /\ \A n, p \in Node : /\ table[n][p] # Absent
                               /\ Untouched(table[n][p])
                               /\ table[n][p].lu = RemovalAge
<1> DEFINE r == [boot |-> 1, inc |-> InitialIncarnation, state |-> "Alive", lu |-> RemovalAge]
<1>1. r \in Entry /\ r # Absent /\ Untouched(r) /\ r.lu = RemovalAge
  BY FoundersRow
<1> HIDE DEF r
<1>2. table = [n \in Node |-> [p \in Node |-> r]] /\ boot = [n \in Node |-> 1]
  BY DEF TimedInit, r
<1>3. \A n \in Node : table[n] = [p \in Node |-> r]
  BY <1>2
<1>4. \A n \in Node : table[n] \in Table
  BY <1>1, <1>3 DEF Table, Row
<1> QED BY <1>1, <1>2, <1>3, <1>4

LEMMA TimedInitInvariant ==
  ASSUME TimedInit(Node)
  PROVE  IInv
<1>1. TypeOK
  <2>1. table \in [Node -> Table]
    BY FoundersTables DEF TimedInit
  <2>2. boot \in [Node -> Nat] /\ clock \in Nat
    BY ClockType DEF TimedInit
  <2> QED BY <2>1, <2>2 DEF TimedInit, TypeOK, NoPending
<1>2. Control
  BY DEF TimedInit, Control, NoPending
<1>3. SoundTables
  <2>1. \A n \in Node : Sound(table[n])
    BY FoundersTables DEF Sound, SoundAt, Untouched
  <2> QED BY <2>1 DEF TimedInit, SoundTables
<1>4. SelfEntryIntact
  BY FoundersTables DEF SelfEntryIntact, Untouched
<1> QED BY <1>1, <1>2, <1>3, <1>4 DEF IInv

\* An older list is a list about the same boots, in the same states.
LEMMA OlderTable ==
  ASSUME NEW L \in Table
  PROVE  /\ Older(L) \in Table
         /\ \A p \in Node :
              /\ Older(L)[p] = Absent <=> L[p] = Absent
              /\ L[p] # Absent => /\ Older(L)[p].boot = L[p].boot
                                  /\ Older(L)[p].inc = L[p].inc
                                  /\ Older(L)[p].state = L[p].state
                                  /\ L[p].lu \in Nat
                                  /\ L[p].lu > 0 => Older(L)[p].lu = L[p].lu - 1
<1>1. ASSUME NEW p \in Node
      PROVE  /\ Older(L)[p] \in Row
             /\ Older(L)[p] = Absent <=> L[p] = Absent
             /\ L[p] # Absent => /\ Older(L)[p].boot = L[p].boot
                                 /\ Older(L)[p].inc = L[p].inc
                                 /\ Older(L)[p].state = L[p].state
                                 /\ L[p].lu \in Nat
                                 /\ L[p].lu > 0 => Older(L)[p].lu = L[p].lu - 1
  <2>1. CASE L[p] = Absent
    BY <2>1 DEF Older, Row
  <2>2. CASE L[p] # Absent
    <3> DEFINE u == IF L[p].lu = 0 THEN 0 ELSE L[p].lu - 1
    <3>1. L[p] \in Entry
      BY <2>2 DEF Table, Row
    <3>2. u \in Nat /\ L[p].lu \in Nat /\ (L[p].lu > 0 => u = L[p].lu - 1)
      BY <3>1 DEF Entry
    <3>3. Older(L)[p] = [L[p] EXCEPT !.lu = u]
      BY <2>2 DEF Older
    <3> HIDE DEF u
    <3>4. /\ Older(L)[p] \in Entry
          /\ Older(L)[p].boot = L[p].boot
          /\ Older(L)[p].inc = L[p].inc
          /\ Older(L)[p].state = L[p].state
          /\ Older(L)[p].lu = u
      BY <3>1, <3>2, <3>3 DEF Entry
    <3> QED BY <2>2, <3>2, <3>4, AbsentAssumption DEF Row
  <2> QED BY <2>1, <2>2
<1>2. Older(L) \in Table
  BY <1>1 DEF Older, Table
<1> QED BY <1>1, <1>2

LEMMA ElapseInvariant ==
  ASSUME IInv, Elapse
  PROVE  IInv'
<1>1. /\ UNCHANGED <<clock, boot, phase, scan, leave, recv, held, conn, leftBoots>>
      /\ table' = [n \in Node |-> Older(table[n])]
      /\ net' = {[m EXCEPT !.list = Older(@)] : m \in net}
  BY DEF Elapse
<1>2. ASSUME NEW L \in Table, Sound(L)
      PROVE  SoundAt(Older(L), boot', leftBoots')
  BY <1>1, <1>2, OlderTable DEF Sound, SoundAt
<1>3. \A n \in Node : table[n] \in Table /\ Sound(table[n]) /\ table'[n] = Older(table[n])
  BY <1>1 DEF IInv, TypeOK, SoundTables
<1>4. ASSUME NEW m \in net'
      PROVE  m \in Message /\ SoundAt(m.list, boot', leftBoots')
  <2>1. PICK k \in net : m = [k EXCEPT !.list = Older(k.list)]
    BY <1>1
  <2>2. k \in Message /\ k.list \in Table /\ Sound(k.list)
    BY DEF IInv, TypeOK, Message, SoundTables
  <2>3. m \in Message /\ m.list = Older(k.list)
    BY <2>1, <2>2, OlderTable DEF Message
  <2> QED BY <1>2, <2>2, <2>3
<1>5. TypeOK'
  <2>1. table' \in [Node -> Table]
    BY <1>1, <1>3, OlderTable
  <2> QED BY <1>1, <1>4, <2>1 DEF IInv, TypeOK
<1>6. Control'
  BY <1>1 DEF IInv, Control, Up
<1>7. SoundTables'
  BY <1>1, <1>2, <1>3, <1>4 DEF IInv, SoundTables, Sound
<1>8. SelfEntryIntact'
  BY <1>1, <1>3, OlderTable DEF IInv, SelfEntryIntact, Up
<1> QED BY <1>5, <1>6, <1>7, <1>8 DEF IInv

\* The timed steps are steps of the cluster, but for the delivery that uses its
\* datagram up and for time.
LEMMA TimedIsStep ==
  ASSUME [TimedNext]_timed
  PROVE  [Next]_vars \/ Elapse \/ (\E n \in Node : Deliver(n))
<1>1. CASE UNCHANGED timed
  BY <1>1 DEF timed
<1>2. ASSUME NEW n \in Node,
             Scan(n) \/ SendDue(n) \/ JoinStep(n) \/ StoreStep(n)
               \/ CrashNow(n) \/ StartNow(n) \/ BreakOne(n)
      PROVE  Next
  BY <1>2 DEF Scan, SendDue, JoinStep, StoreStep, Untimed, CrashNow, StartNow, BreakOne,
              Next, ProcessStep
<1>3. ASSUME NEW m \in net, Vanish(m) \/ LoseOne(m)
      PROVE  Next
  BY <1>3 DEF Vanish, LoseOne, Next
<1> QED BY <1>1, <1>2, <1>3 DEF TimedNext, Progress, Faults

LEMMA TimedStepInvariant == IInv /\ [TimedNext]_timed => IInv'
<1> SUFFICES ASSUME IInv, [TimedNext]_timed PROVE IInv'
  OBVIOUS
<1>1. CASE [Next]_vars
  BY <1>1, StepInvariant
<1>2. CASE Elapse
  BY <1>2, ElapseInvariant
<1>3. ASSUME NEW n \in Node, Deliver(n)
      PROVE  IInv'
  <2>1. PICK m \in net : ReadDatagram(n, m) /\ net' = net \ {m}
    BY <1>3 DEF Deliver
  <2>2. net' \subseteq net
    BY <2>1
  <2> QED BY <2>1, <2>2, ReadInvariant
<1> QED BY <1>1, <1>2, <1>3, TimedIsStep

LEMMA TimedInvariance == TimedSpec => []IInv
BY TimedInitInvariant, TimedStepInvariant, PTL DEF TimedSpec

-----------------------------------------------------------------------------
(* What the writes to a table do to the rows of live processes.            *)

\* Two untouched rows of one process differ in nothing but the heartbeat, and the merge
\* takes the later one; there is no accusation to refute.
LEMMA UpdateUntouched ==
  ASSUME NEW e \in Row, NEW m \in Row, NEW own \in BOOLEAN, NEW b \in Nat, NEW now \in Nat,
         e # Absent => Untouched(e), m # Absent => Untouched(m)
  PROVE  LET r == updateMemberEntry(e, m, own, b, now)
         IN  /\ r # Absent => Untouched(r)
             /\ e # Absent => r # Absent /\ r.lu >= e.lu
             /\ m # Absent => r # Absent /\ r.lu >= m.lu
<1> DEFINE r == updateMemberEntry(e, m, own, b, now)
<1>1. CASE e = Absent \/ m = Absent
  <2>1. r = IF m = Absent THEN e ELSE m
    BY <1>1 DEF updateMemberEntry
  <2>2. (e # Absent => e.lu \in Nat) /\ (m # Absent => m.lu \in Nat)
    BY DEF Row, Entry
  <2> QED BY <1>1, <2>1, <2>2
<1>2. CASE e # Absent /\ m # Absent
  <2>1. Untouched(e) /\ Untouched(m) /\ e.lu \in Nat /\ m.lu \in Nat
    BY <1>2 DEF Row, Entry
  <2>2. r = IF Fresher(e, m) THEN m ELSE e
    BY <1>2, <2>1 DEF updateMemberEntry, SameBoot, Accuses, Untouched
  <2>3. InitialIncarnation \in Nat
    BY DEF InitialIncarnation
  <2>4. Fresher(e, m) <=> m.lu > e.lu
    BY <2>1, <2>3 DEF Fresher, Untouched
  <2> QED BY <1>2, <2>1, <2>2, <2>4
<1> QED BY <1>1, <1>2

\* What a step may put in place of the table of n: the rows of the live processes stay
\* untouched and grow no older, or are as fresh as can be.
Renewed(n, t) ==
  \A p \in Node :
    Up(p) =>
      /\ t[p] # Absent => Untouched(t[p])
      /\ table[n][p] # Absent =>
           t[p] # Absent /\ (t[p].lu >= table[n][p].lu \/ t[p].lu >= clock)

\* The parts of the hypotheses of a step.
LEMMA RowTypes ==
  ASSUME IInv, NEW n \in Node, NEW p \in Node
  PROVE  /\ table[n] \in Table
         /\ table[n][p] \in Row
         /\ table[n][p] # Absent => table[n][p].lu \in Nat
         /\ boot[n] \in Nat /\ clock \in Nat
         /\ Now(n) \in Nat /\ Now(n) >= clock
<1>1. table[n] \in Table /\ table[n][p] \in Row
  BY DEF IInv, TypeOK, Table
<1>2. table[n][p] # Absent => table[n][p].lu \in Nat
  BY <1>1 DEF Row, Entry
<1>3. clock \in Nat /\ boot[n] \in Nat /\ Skew[n] \in Nat
  BY ClusterAssumption DEF IInv, TypeOK
<1>4. Now(n) \in Nat /\ Now(n) >= clock
  BY <1>3 DEF Now
<1> QED BY <1>1, <1>2, <1>3, <1>4

\* A Snapshot renews the own row and leaves the others alone.
LEMMA SnapshotRenews ==
  ASSUME IInv, Calm, NEW n \in Node
  PROVE  /\ Renewed(n, SnapshotOf(n))
         /\ SnapshotOf(n) \in Table
         /\ UntouchedRows(SnapshotOf(n))
         /\ Up(n) => SnapshotOf(n)[n] # Absent /\ SnapshotOf(n)[n].lu >= clock
         /\ \A p \in Node : SnapshotOf(n)[p] = Absent <=> table[n][p] = Absent
<1>1. SnapshotOf(n) \in Table
  BY SnapshotKept DEF Kept
<1>2. ASSUME NEW p \in Node
      PROVE  /\ SnapshotOf(n)[p] = Absent <=> table[n][p] = Absent
             /\ SnapshotOf(n)[p] # Absent =>
                  /\ SnapshotOf(n)[p].boot = table[n][p].boot
                  /\ SnapshotOf(n)[p].state = table[n][p].state
                  /\ SnapshotOf(n)[p].inc = table[n][p].inc
  <2> DEFINE now == Now(n)
             b == boot[n]
             tbl == table[n]
  <2>1. tbl \in Table /\ b \in Nat /\ now \in Nat /\ SnapshotOf(n) = Refreshed(tbl, n, b, now)
    BY RowTypes DEF SnapshotOf
  <2> HIDE DEF now, b, tbl
  <2>2. /\ Refreshed(tbl, n, b, now)[p] = Absent <=> tbl[p] = Absent
        /\ Refreshed(tbl, n, b, now)[p] # Absent =>
             /\ Refreshed(tbl, n, b, now)[p].boot = tbl[p].boot
             /\ Refreshed(tbl, n, b, now)[p].state = tbl[p].state
             /\ Refreshed(tbl, n, b, now)[p].inc = tbl[p].inc
    BY <2>1, RefreshedRows
  <2> QED BY <2>1, <2>2 DEF tbl
<1>3. ASSUME NEW p \in Node, table[n][p] # Absent
      PROVE  SnapshotOf(n)[p].lu = table[n][p].lu \/ SnapshotOf(n)[p].lu >= clock
  <2>1. table[n][p] \in Entry
    BY <1>3, RowTypes DEF Row
  <2>2. \/ SnapshotOf(n)[p] = [table[n][p] EXCEPT !.lu = Now(n)]
        \/ SnapshotOf(n)[p] = table[n][p]
    BY DEF SnapshotOf, Refreshed
  <2>3. [table[n][p] EXCEPT !.lu = Now(n)].lu = Now(n)
    BY <2>1 DEF Entry
  <2> QED BY <2>2, <2>3, RowTypes
<1>4. ASSUME NEW p \in Node, Up(p), table[n][p] # Absent
      PROVE  Untouched(table[n][p])
  BY <1>4 DEF Calm, NobodyAccused, UntouchedRows
<1>5. ASSUME NEW p \in Node, Up(p), SnapshotOf(n)[p] # Absent
      PROVE  Untouched(SnapshotOf(n)[p])
  BY <1>2, <1>4, <1>5 DEF Untouched
<1>6. Renewed(n, SnapshotOf(n))
  <2>1. \A p \in Node : table[n][p] # Absent => table[n][p].lu \in Nat
    BY RowTypes
  <2> QED BY <1>2, <1>3, <1>5, <2>1 DEF Renewed
<1>7. ASSUME Up(n)
      PROVE  SnapshotOf(n)[n] # Absent /\ SnapshotOf(n)[n].lu >= clock
  <2>1. table[n][n] # Absent /\ table[n][n].boot = boot[n] /\ table[n][n].state = "Alive"
    BY <1>7, <1>4 DEF IInv, SelfEntryIntact, Untouched
  <2>2. SnapshotOf(n)[n] = [table[n][n] EXCEPT !.lu = Now(n)]
    BY <2>1 DEF SnapshotOf, Refreshed, IsSelf
  <2>3. table[n][n] \in Entry
    BY <2>1, RowTypes DEF Row
  <2>4. [table[n][n] EXCEPT !.lu = Now(n)].lu = Now(n)
    BY <2>3 DEF Entry
  <2> QED BY <1>2, <2>1, <2>2, <2>4, RowTypes
<1> QED BY <1>1, <1>2, <1>5, <1>6, <1>7 DEF UntouchedRows

\* A merge of a list of untouched rows renews, and leaves no row older than the list's.
LEMMA MergeRenews ==
  ASSUME IInv, Calm, NEW n \in Node, NEW list \in Table, UntouchedRows(list)
  PROVE  LET t == MergeFullList(table[n], list, n, boot[n], Now(n))
         IN  /\ Renewed(n, t)
             /\ \A p \in Node : Up(p) /\ list[p] # Absent => t[p] # Absent /\ t[p].lu >= list[p].lu
<1> DEFINE t == MergeFullList(table[n], list, n, boot[n], Now(n))
<1>1. ASSUME NEW p \in Node, Up(p)
      PROVE  /\ t[p] # Absent => Untouched(t[p])
             /\ table[n][p] # Absent => t[p] # Absent /\ t[p].lu >= table[n][p].lu
             /\ list[p] # Absent => t[p] # Absent /\ t[p].lu >= list[p].lu
  <2> DEFINE e == table[n][p]
             m == list[p]
             own == p = n
             b == boot[n]
             now == Now(n)
  <2>1. /\ e \in Row /\ m \in Row /\ own \in BOOLEAN /\ b \in Nat /\ now \in Nat
        /\ t[p] = updateMemberEntry(e, m, own, b, now)
    BY RowTypes DEF Table, MergeFullList
  <2>2. (e # Absent => Untouched(e)) /\ (m # Absent => Untouched(m))
    BY <1>1 DEF Calm, NobodyAccused, UntouchedRows
  <2> HIDE DEF e, m, own, b, now, t
  <2>3. /\ t[p] # Absent => Untouched(t[p])
        /\ e # Absent => t[p] # Absent /\ t[p].lu >= e.lu
        /\ m # Absent => t[p] # Absent /\ t[p].lu >= m.lu
    BY <2>1, <2>2, UpdateUntouched
  <2> QED BY <2>3 DEF e, m
<1> HIDE DEF t
<1>2. Renewed(n, t)
  BY <1>1 DEF Renewed
<1> QED BY <1>1, <1>2 DEF t

-----------------------------------------------------------------------------
(* The invariant is inductive: the parts a step has to show.               *)

\* Nothing of what Settled speaks of.
SameSetting == UNCHANGED <<clock, boot, phase, conn, leftBoots>>

LEMMA SettledKept ==
  ASSUME Settled, SameSetting, due' = due, \A n \in Node : Up(n) => recv'[n] # "off"
  PROVE  Settled'
BY DEF Settled, SameSetting, Up, RemovalAge

\* No message, held message or table written has an accusation.
LEMMA AccusedKept ==
  ASSUME IInv, Calm, NEW n \in Node, NEW t, Renewed(n, t),
         table' = [table EXCEPT ![n] = t], SameSetting,
         \A m \in net' : m \in net \/ UntouchedRows(m.list),
         \A k \in Node : held'[k] \in {held[k], Absent} \cup net,
         \A k, p \in Node : Up(p) => scan'[k][p] = Absent
  PROVE  NobodyAccused'
<1>2. \A k \in Node : table'[k] = IF k = n THEN t ELSE table[k]
  BY DEF IInv, TypeOK
<1>3. UntouchedRows(t)
  BY DEF Renewed, UntouchedRows
<1>4. \A k \in Node : UntouchedRows(table'[k])
  BY <1>2, <1>3 DEF Calm, NobodyAccused
<1>5. \A m \in net' : UntouchedRows(m.list)
  BY DEF Calm, NobodyAccused
<1>6. \A k \in Node : held'[k] # Absent => UntouchedRows(held'[k].list)
  BY DEF Calm, NobodyAccused
<1>7. \A k, p \in Node : Up(p)' => scan'[k][p] = Absent
  BY DEF SameSetting, Up
<1>8. \A k \in Node : UntouchedRows(table[k])'
  BY <1>4 DEF UntouchedRows, SameSetting, Up
<1>9. \A m \in net' : UntouchedRows(m.list)'
  BY <1>5 DEF UntouchedRows, SameSetting, Up
<1>10. \A k \in Node : held'[k] # Absent => UntouchedRows(held[k].list)'
  BY <1>6 DEF UntouchedRows, SameSetting, Up
<1> QED BY <1>7, <1>8, <1>9, <1>10 DEF NobodyAccused

\* What k knows of p stays in time if the table of n is renewed and what p sent k is
\* still on its way or merged.
LEMMA HeardKept ==
  ASSUME IInv, IInv', Calm, NEW n \in Node, NEW t, Renewed(n, t),
         table' = [table EXCEPT ![n] = t], clock' = clock,
         NEW k \in Node, NEW p \in Node, Up(k), Up(p), due'[p] = due[p],
         OnItsWay(k, p) => OnItsWay(k, p)' \/ Fresh(table[k], p)'
  PROVE  HeardInTime(k, p)'
<1> DEFINE u == table[k][p].lu
           v == table'[k][p].lu
           d == due[p]
<1>1. /\ table[k][p] # Absent /\ clock <= u + Period
      /\ Fresh(table[k], p) \/ OnItsWay(k, p)
  BY DEF Calm, AllHeard, HeardInTime
<1>2. u \in Nat /\ clock \in Nat /\ Period \in Nat /\ d \in 0 .. Period
  BY <1>1, RowTypes, PeriodAssumption DEF Calm, Settled
<1>3. table'[k] = IF k = n THEN t ELSE table[k]
  BY DEF IInv, TypeOK
<1>4. table'[k][p] # Absent /\ (v >= u \/ v >= clock)
  <2>1. CASE k = n
    BY <2>1, <1>1, <1>3 DEF Renewed
  <2>2. CASE k # n
    BY <2>2, <1>1, <1>2, <1>3
  <2> QED BY <2>1, <2>2
<1>5. v \in Nat
  <2>1. table'[k][p] \in Row
    BY DEF IInv, TypeOK, Table
  <2> QED BY <1>4, <2>1 DEF Row, Entry
<1>6. Fresh(table[k], p) <=> clock + d <= u + Period
  BY <1>1 DEF Fresh
<1>7. Fresh(table[k], p)' <=> clock + d <= v + Period
  BY <1>4 DEF Fresh
<1> HIDE DEF u, v, d
<1>8. Fresh(table[k], p) => Fresh(table[k], p)'
  BY <1>2, <1>4, <1>5, <1>6, <1>7
<1>9. clock <= v + Period
  BY <1>1, <1>2, <1>4, <1>5
<1> QED BY <1>1, <1>4, <1>8, <1>9 DEF HeardInTime, v

\* A message stays on its way until it is merged.
LEMMA WayKept ==
  ASSUME NEW k \in Node, NEW p \in Node, clock' = clock, due'[p] = due[p],
         \A m \in net : m \in net' \/ m.dst # k \/ (recv'[k] = "merging" /\ held'[k] = m),
         recv[k] = "merging" => recv'[k] = "merging" /\ held'[k] = held[k],
         OnItsWay(k, p)
  PROVE  OnItsWay(k, p)'
<1>2. CASE recv[k] = "merging" /\ Fresh(held[k].list, p)
  BY <1>2 DEF OnItsWay, Fresh
<1>3. ASSUME NEW m \in net, m.dst = k, Fresh(m.list, p)
      PROVE  OnItsWay(k, p)'
  <2>1. CASE m \in net'
    BY <1>3, <2>1 DEF OnItsWay, Fresh
  <2>2. CASE recv'[k] = "merging" /\ held'[k] = m
    BY <1>3, <2>2 DEF OnItsWay, Fresh
  <2> QED BY <1>3, <2>1, <2>2
<1> QED BY <1>2, <1>3 DEF OnItsWay

-----------------------------------------------------------------------------
(* The invariant is inductive: the steps.                                  *)

LEMMA InitCalm ==
  ASSUME TimedInit(Node)
  PROVE  Calm
<1>1. Settled
  BY PeriodAssumption DEF TimedInit, Settled
<1>2. NobodyAccused
  <2>1. \A n \in Node : UntouchedRows(table[n])
    BY FoundersTables DEF UntouchedRows
  <2> QED BY <2>1 DEF TimedInit, NobodyAccused, NoPending
<1>3. ASSUME NEW n \in Node, NEW p \in Node
      PROVE  HeardInTime(n, p)
  <2>1. table[n][p] # Absent /\ table[n][p].lu = clock
    BY FoundersTables DEF TimedInit
  <2>2. clock \in Nat /\ Period \in Nat /\ due[p] \in 0 .. Period
    BY ClockType, PeriodAssumption DEF TimedInit
  <2> QED BY <2>1, <2>2 DEF HeardInTime, Fresh
<1> QED BY <1>1, <1>2, <1>3 DEF Calm, AllHeard

\* No message to a process that does not join outlasts the interval.
LEMMA NothingWaits ==
  ASSUME IInv, Calm, Elapse
  PROVE  net = {}
<1>1. \A m \in net : m.dst \in Node /\ phase[m.dst] = "joining"
  BY DEF Elapse, IInv, TypeOK, Message
<1> QED BY <1>1 DEF Calm, Settled

\* When an interval ends every row is at its best, so it may grow older with the period.
LEMMA ElapseCalm ==
  ASSUME HeartbeatsInTime, IInv, Calm, Elapse
  PROVE  Calm'
<1>1. /\ UNCHANGED <<clock, boot, phase, scan, recv, held, conn, leftBoots>>
      /\ \A n \in Node : table'[n] = Older(table[n]) /\ table[n] \in Table
      /\ net = {} /\ net' = {}
      /\ due' = [n \in Node |-> IF due[n] = 0 THEN 0 ELSE due[n] - 1]
  BY NothingWaits DEF Elapse, IInv, TypeOK
<1>2. \A n \in Node : Up(n) => phase[n] = "running" /\ recv[n] = "reading" /\ due[n] > 0
  BY DEF Elapse, Calm, Settled, Up
<1>3. Settled'
  BY <1>1, PeriodAssumption DEF Calm, Settled, Up, RemovalAge
<1>4. NobodyAccused'
  <2>1. ASSUME NEW n \in Node, NEW p \in Node, Up(p), table'[n][p] # Absent
        PROVE  Untouched(table'[n][p])
    <3>1. table[n][p] # Absent /\ Untouched(table[n][p])
      BY <1>1, <2>1, OlderTable DEF Calm, NobodyAccused, UntouchedRows
    <3> QED BY <1>1, <3>1, OlderTable DEF Untouched
  <2>2. \A n \in Node : UntouchedRows(table[n])'
    BY <1>1, <2>1 DEF UntouchedRows, Up
  <2>3. \A n \in Node : held'[n] # Absent => UntouchedRows(held[n].list)'
    BY <1>1 DEF Calm, NobodyAccused, UntouchedRows, Up
  <2>4. \A n, p \in Node : Up(p)' => scan'[n][p] = Absent
    BY <1>1 DEF Calm, NobodyAccused, Up
  <2> QED BY <1>1, <2>2, <2>3, <2>4 DEF NobodyAccused
<1>5. ASSUME NEW n \in Node, NEW p \in Node, Up(n), Up(p)
      PROVE  HeardInTime(n, p)'
  <2> DEFINE u == table[n][p].lu
             v == table'[n][p].lu
             d == due[p]
  <2>1. table[n][p] # Absent /\ clock + d <= u + Period /\ d > 0
    BY <1>1, <1>2, <1>5 DEF Calm, AllHeard, HeardInTime, OnItsWay, Fresh
  <2>2. u \in Nat /\ clock \in Nat /\ Period \in Nat /\ d \in 0 .. Period
    BY <2>1, RowTypes, PeriodAssumption DEF Calm, Settled
  <2>3. clock > Period
    <3>1. /\ clock = RemovalAge /\ Period + Skew[n] < FirstThreshold
          /\ Skew[n] \in Nat /\ FirstThreshold \in Nat
      BY ClusterAssumption, ThresholdAssumption DEF Calm, Settled, HeartbeatsInTime, FirstThreshold
    <3> QED BY <2>2, <3>1, ClockType
  <2>4. table'[n][p] # Absent /\ (u > 0 => v = u - 1)
    BY <1>1, <2>1, OlderTable
  <2>5. due'[p] = d - 1
    BY <1>1, <2>1, <2>2
  <2> HIDE DEF u, v, d
  <2>6. clock <= v + Period /\ clock + (d - 1) <= v + Period
    BY <2>1, <2>2, <2>3, <2>4
  <2>7. Fresh(table[n], p)'
    BY <1>1, <2>4, <2>5, <2>6 DEF Fresh, v
  <2> QED BY <1>1, <2>4, <2>6, <2>7 DEF HeardInTime, v
<1>6. AllHeard'
  BY <1>1, <1>5 DEF AllHeard, Up
<1> QED BY <1>3, <1>4, <1>6 DEF Calm

\* A scan keeps the rows of live processes: none is as old as the first threshold.
LEMMA ScanSparesLive ==
  ASSUME HeartbeatsInTime, IInv, Calm, NEW n \in Node, NEW p \in Node, Up(n), Up(p)
  PROVE  Decision(n, p, Now(n)) = Absent
<1> DEFINE e == SnapshotOf(n)[p]
           age == Now(n) - e.lu
<1>1. /\ table[n][p] # Absent /\ clock <= table[n][p].lu + Period
      /\ table[n][p].lu \in Nat /\ clock \in Nat /\ Period \in Nat
  BY RowTypes, PeriodAssumption DEF Calm, AllHeard, HeardInTime
<1>2. e # Absent /\ Untouched(e) /\ (e.lu >= table[n][p].lu \/ e.lu >= clock)
  BY <1>1, SnapshotRenews DEF Renewed
<1>3. e.lu \in Nat
  <2>1. e \in Row
    BY SnapshotRenews DEF Table
  <2> QED BY <1>2, <2>1 DEF Row, Entry
<1>4. Now(n) = clock + Skew[n] /\ Skew[n] \in Nat /\ Period + Skew[n] < FirstThreshold
  BY ClusterAssumption DEF Now, HeartbeatsInTime
<1>5. age \in Int /\ age <= Period + Skew[n]
  BY <1>1, <1>2, <1>3, <1>4
<1>6. age < FirstThreshold
  BY <1>1, <1>4, <1>5, ThresholdAssumption DEF FirstThreshold
<1> HIDE DEF age
<1>7. Verdict(e, IsSelf(p, e, n, boot[n]), Now(n)) = "Keep"
  <2>1. e.state = "Alive" /\ Now(n) - e.lu = age
    BY <1>2 DEF Untouched, age
  <2>2. TSuspect \in Nat /\ TFail \in Nat /\ TCleanup \in Nat
    BY ThresholdAssumption
  <2>3. CASE SuspicionEnabled
    <3>1. age < TSuspect
      BY <1>6, <2>3 DEF FirstThreshold
    <3>2. ~(age >= TSuspect + TFail + TCleanup) /\ ~(age >= TSuspect + TFail) /\ ~(age >= TSuspect)
      BY <1>5, <2>2, <3>1
    <3> HIDE DEF e
    <3> QED BY <2>1, <3>2 DEF Verdict
  <2>4. CASE ~SuspicionEnabled
    <3>1. age < TFail
      BY <1>6, <2>4 DEF FirstThreshold
    <3>2. ~(age >= TSuspect + TFail + TCleanup) /\ ~(age >= TSuspect + TFail)
      BY <1>5, <2>2, <3>1
    <3> HIDE DEF e
    <3> QED BY <2>1, <2>4, <3>2 DEF Verdict
  <2> QED BY <2>3, <2>4
<1> QED BY <1>7 DEF Decision

\* All the steps at one process that write its table and leave the periods alone.
LEMMA WriteCalm ==
  ASSUME IInv, IInv', Calm, NEW n \in Node, NEW t, Renewed(n, t),
         table' = [table EXCEPT ![n] = t], SameSetting, due' = due,
         \A m \in net' : m \in net \/ UntouchedRows(m.list),
         \A k \in Node : held'[k] \in {held[k], Absent} \cup net,
         \A k, p \in Node : Up(p) => scan'[k][p] = Absent,
         \A k \in Node : Up(k) => recv'[k] # "off",
         \A k, p \in Node :
           Up(k) /\ Up(p) /\ OnItsWay(k, p) => OnItsWay(k, p)' \/ Fresh(table[k], p)'
  PROVE  Calm'
<1>1. Settled'
  BY SettledKept DEF Calm
<1>2. NobodyAccused'
  BY AccusedKept
<1>3. ASSUME NEW k \in Node, NEW p \in Node, Up(k), Up(p)
      PROVE  HeardInTime(k, p)'
  BY <1>3, HeardKept DEF SameSetting
<1>4. AllHeard'
  BY <1>3 DEF AllHeard, SameSetting, Up
<1> QED BY <1>1, <1>2, <1>4 DEF Calm

LEMMA ScanCalm ==
  ASSUME HeartbeatsInTime, IInv, IInv', Calm, NEW n \in Node, Scan(n)
  PROVE  Calm'
<1>1. /\ Up(n) /\ SameSetting /\ due' = due
      /\ table' = [table EXCEPT ![n] = SnapshotOf(n)]
      /\ UNCHANGED <<net, held, recv>>
      /\ scan' = [scan EXCEPT ![n] = [p \in Node |-> Decision(n, p, Now(n))]]
  BY DEF Scan, ScanBegin, TakeSnapshot, SameSetting
<1>2. Renewed(n, SnapshotOf(n))
  BY SnapshotRenews
<1>3. ASSUME NEW k \in Node, NEW p \in Node, Up(p)
      PROVE  scan'[k][p] = Absent
  <2>1. CASE k = n
    BY <1>1, <1>3, <2>1, ScanSparesLive DEF IInv, TypeOK
  <2>2. CASE k # n
    BY <1>1, <1>3, <2>2 DEF IInv, TypeOK, Calm, NobodyAccused
  <2> QED BY <2>1, <2>2
<1>4. \A k, p \in Node : OnItsWay(k, p) => OnItsWay(k, p)'
  BY <1>1 DEF OnItsWay, Fresh, SameSetting
<1>5. \A k \in Node : Up(k) => recv'[k] # "off"
  BY <1>1 DEF Calm, Settled
<1> QED BY <1>1, <1>2, <1>3, <1>4, <1>5, WriteCalm

\* A period of the sender loop addresses everybody the sender has a row of.
LEMMA PeriodReachesAll ==
  ASSUME HeartbeatsInTime, IInv, Calm, NEW n \in Node, Up(n),
         NEW D \in Targets(Peers(SnapshotOf(n), n))
  PROVE  D = Peers(SnapshotOf(n), n)
<1> DEFINE peers == Peers(SnapshotOf(n), n)
<1>1. n \notin peers
  <2>1. SnapshotOf(n)[n] # Absent /\ Untouched(SnapshotOf(n)[n])
    BY SnapshotRenews DEF UntouchedRows
  <2>2. IsSelf(n, SnapshotOf(n)[n], n, boot[n])
    BY <2>1 DEF IsSelf, Untouched, Calm, Settled
  <2> QED BY <2>2 DEF Peers
<1>2. peers \in SUBSET (Node \ {n})
  BY <1>1 DEF Peers
<1>3. IsFiniteSet(Node) /\ Cardinality(Node) \in Nat /\ Cardinality(Node) <= Fanout + 1
  BY FS_CardinalityType DEF HeartbeatsInTime
<1>4. IsFiniteSet(Node \ {n}) /\ Cardinality(Node \ {n}) = Cardinality(Node) - 1
  BY <1>3, FS_RemoveElement
<1> HIDE DEF peers
<1>5. IsFiniteSet(peers) /\ Cardinality(peers) <= Cardinality(Node \ {n})
  BY <1>2, <1>4, FS_Subset
<1>6. Cardinality(peers) \in Nat /\ Fanout \in Nat
  BY <1>5, FS_CardinalityType, ClusterAssumption
<1>7. Cardinality(peers) <= Fanout
  BY <1>3, <1>4, <1>5, <1>6
<1>8. D \in SUBSET peers /\ Cardinality(D) = Cardinality(peers)
  <2>1. /\ D \subseteq peers
        /\ Cardinality(D) = IF Cardinality(peers) < Fanout THEN Cardinality(peers) ELSE Fanout
    BY DEF Targets, peers
  <2> QED BY <1>6, <1>7, <2>1
<1>9. D = peers
  BY <1>5, <1>8, FS_Subset
<1> QED BY <1>9 DEF peers

\* The sender is as fresh as can be with itself, and on its way to everybody else.
LEMMA SendCalm ==
  ASSUME HeartbeatsInTime, IInv, IInv', Calm, NEW n \in Node, SendDue(n)
  PROVE  Calm'
<1> DEFINE t == SnapshotOf(n)
           ty == IF Mode = "gossip" THEN "gossip" ELSE "ping"
<1>1. /\ Up(n) /\ SameSetting
      /\ due' = [due EXCEPT ![n] = Period]
      /\ table' = [table EXCEPT ![n] = t]
      /\ UNCHANGED <<scan, held, recv>>
  BY DEF SendDue, SendPeriod, TakeSnapshot, SameSetting, Up
<1>2. net' = net \cup [type : {ty}, src : {n}, dst : Peers(t, n), list : {t}]
  <2>1. PICK D \in Targets(Peers(SnapshotOf(n), n)) :
          net' = net \cup [type : {ty}, src : {n}, dst : D, list : {t}]
    BY DEF SendDue, SendPeriod, Send
  <2> QED BY <1>1, <2>1, PeriodReachesAll
<1>3. /\ Renewed(n, t) /\ UntouchedRows(t)
      /\ t[n] # Absent /\ t[n].lu >= clock
      /\ \A p \in Node : t[p] = Absent <=> table[n][p] = Absent
  BY <1>1, SnapshotRenews
<1> HIDE DEF t
<1>4. \A m \in net' : m \in net \/ m.list = t
  BY <1>2
<1>5. due'[n] = Period /\ \A p \in Node : p # n => due'[p] = due[p]
  BY <1>1 DEF Calm, Settled
<1>6. Settled'
  BY <1>1, <1>5, PeriodAssumption DEF Calm, Settled, SameSetting, Up, RemovalAge
<1>7. NobodyAccused'
  <2>1. \A m \in net' : m \in net \/ UntouchedRows(m.list)
    BY <1>3, <1>4
  <2>2. \A k, p \in Node : Up(p) => scan'[k][p] = Absent
    BY <1>1 DEF Calm, NobodyAccused
  <2>3. \A k \in Node : held'[k] \in {held[k], Absent} \cup net
    BY <1>1
  <2> QED BY <1>1, <1>3, <2>1, <2>2, <2>3, AccusedKept
<1>8. ASSUME NEW k \in Node, NEW p \in Node, Up(k), Up(p)
      PROVE  HeardInTime(k, p)'
  <2>1. CASE p # n
    <3>1. clock' = clock /\ due'[p] = due[p]
      BY <1>1, <1>5, <2>1 DEF SameSetting
    <3>2. OnItsWay(k, p) => OnItsWay(k, p)'
      BY <1>1, <1>2, <3>1 DEF OnItsWay, Fresh
    <3> QED BY <1>1, <1>3, <1>8, <3>1, <3>2, HeardKept
  <2>2. CASE p = n
    <3>1. clock' = clock /\ clock \in Nat /\ Period \in Nat
      BY <1>1, RowTypes, PeriodAssumption DEF SameSetting
    <3>2. due'[n] = Period
      BY <1>5
    <3>3. t[n].lu \in Nat
      <4>1. table'[n] = t
        BY <1>1 DEF IInv, TypeOK
      <4>2. t[n] \in Row
        BY <4>1 DEF IInv, TypeOK, Table
      <4> QED BY <1>3, <4>2 DEF Row, Entry
    <3>4. t[n] # Absent /\ clock' + due'[n] <= t[n].lu + Period
      BY <1>3, <3>1, <3>2, <3>3
    <3>5. CASE k = n
      <4>1. table'[n] = t
        BY <1>1 DEF IInv, TypeOK
      <4> QED BY <1>3, <2>2, <3>1, <3>3, <3>4, <3>5, <4>1 DEF HeardInTime, Fresh
    <3>6. CASE k # n
      <4>1. table'[k] = table[k] /\ table[k][n] # Absent /\ clock <= table[k][n].lu + Period
        BY <1>1, <1>8, <2>2, <3>6 DEF IInv, TypeOK, Calm, AllHeard, HeardInTime
      <4>2. k \in Peers(t, n)
        <5>1. table[n][k] # Absent
          BY <1>1, <1>8 DEF Calm, AllHeard, HeardInTime
        <5> QED BY <1>3, <3>6, <5>1 DEF Peers, IsSelf
      <4>3. [type |-> ty, src |-> n, dst |-> k, list |-> t] \in net'
        BY <1>2, <4>2
      <4>4. OnItsWay(k, n)'
        <5> DEFINE m == [type |-> ty, src |-> n, dst |-> k, list |-> t]
        <5>1. m \in net' /\ m.dst = k /\ m.list = t
          BY <4>3
        <5> HIDE DEF m
        <5>2. m.list[n] # Absent /\ clock' + due'[n] <= m.list[n].lu + Period
          BY <3>4, <5>1
        <5> QED BY <5>1, <5>2 DEF OnItsWay, Fresh
      <4> QED BY <2>2, <3>1, <4>1, <4>4 DEF HeardInTime
    <3> QED BY <3>5, <3>6
  <2> QED BY <2>1, <2>2
<1>9. AllHeard'
  BY <1>1, <1>8 DEF AllHeard, SameSetting, Up
<1> QED BY <1>6, <1>7, <1>9 DEF Calm

\* A datagram read is a datagram held: nobody has left, so the receive loops go on.
LEMMA DeliverCalm ==
  ASSUME IInv, IInv', Calm, NEW n \in Node, Deliver(n)
  PROVE  Calm'
<1>1. PICK m \in net : ReadDatagram(n, m) /\ net' = net \ {m}
  BY DEF Deliver
<1>2. /\ SameSetting /\ due' = due /\ scan' = scan
      /\ table' = [table EXCEPT ![n] = SnapshotOf(n)]
      /\ recv[n] = "reading" /\ m.dst = n
  BY <1>1 DEF Deliver, ReadDatagram, TakeSnapshot, SameSetting
<1>3. ~SelfLeft(table[n], n, boot[n])
  <2>1. table[n][n] # Absent => (table[n][n].state = "Left" => <<n, table[n][n].boot>> \in leftBoots)
    BY DEF IInv, SoundTables, Sound, SoundAt
  <2> QED BY <2>1 DEF SelfLeft, Calm, Settled
<1>4. recv' = [recv EXCEPT ![n] = "merging"] /\ held' = [held EXCEPT ![n] = m]
  BY <1>1, <1>3 DEF ReadDatagram
<1>5. /\ recv'[n] = "merging" /\ held'[n] = m
      /\ \A k \in Node : k # n => recv'[k] = recv[k] /\ held'[k] = held[k]
  BY <1>4 DEF IInv, TypeOK
<1>6. ASSUME NEW k \in Node, NEW p \in Node, OnItsWay(k, p)
      PROVE  OnItsWay(k, p)'
  <2>1. clock' = clock /\ due'[p] = due[p]
    BY <1>2 DEF SameSetting
  <2>2. \A j \in net : j \in net' \/ j.dst # k \/ (recv'[k] = "merging" /\ held'[k] = j)
    BY <1>1, <1>2, <1>5
  <2>3. recv[k] = "merging" => recv'[k] = "merging" /\ held'[k] = held[k]
    BY <1>2, <1>5
  <2> QED BY <1>6, <2>1, <2>2, <2>3, WayKept
<1>7. \A k \in Node : held'[k] \in {held[k], Absent} \cup net
  BY <1>5
<1>8. \A k \in Node : Up(k) => recv'[k] # "off"
  BY <1>5 DEF Calm, Settled
<1>9. \A k, p \in Node : Up(p) => scan'[k][p] = Absent
  BY <1>2 DEF Calm, NobodyAccused
<1>10. \A j \in net' : j \in net
  BY <1>1
<1> QED BY <1>2, <1>6, <1>7, <1>8, <1>9, <1>10, SnapshotRenews, WriteCalm

\* What was on its way is merged.
LEMMA MergeCalm ==
  ASSUME IInv, IInv', Calm, NEW n \in Node, Merge(n), due' = due
  PROVE  Calm'
<1> DEFINE t == MergeFullList(table[n], held[n].list, n, boot[n], Now(n))
<1>1. /\ SameSetting /\ scan' = scan /\ net' = net
      /\ recv[n] = "merging"
      /\ table' = [table EXCEPT ![n] = t]
  BY DEF Merge, MergeAt, SameSetting
<1>2. held[n] \in Message /\ held[n] # Absent /\ held[n].list \in Table
  BY <1>1, MessageAssumption DEF IInv, Control, Message
<1>3. UntouchedRows(held[n].list)
  BY <1>2 DEF Calm, NobodyAccused
<1>4. /\ Renewed(n, t)
      /\ \A p \in Node :
           Up(p) /\ held[n].list[p] # Absent => t[p] # Absent /\ t[p].lu >= held[n].list[p].lu
  BY <1>2, <1>3, MergeRenews
<1> HIDE DEF t
<1>5. /\ recv'[n] \in {"replying", "reading"}
      /\ \A k \in Node : k # n => recv'[k] = recv[k]
      /\ \A k \in Node : held'[k] \in {held[k], Absent}
      /\ \A k \in Node : k # n => held'[k] = held[k]
  BY DEF Merge, IInv, TypeOK
<1>6. \A k \in Node : table'[k] = IF k = n THEN t ELSE table[k]
  BY <1>1 DEF IInv, TypeOK
<1>7. ASSUME NEW k \in Node, NEW p \in Node, Up(k), Up(p), OnItsWay(k, p)
      PROVE  OnItsWay(k, p)' \/ Fresh(table[k], p)'
  <2>1. clock' = clock /\ due'[p] = due[p]
    BY <1>1 DEF SameSetting
  <2>2. CASE k = n /\ Fresh(held[n].list, p)
    <3> DEFINE u == held[n].list[p].lu
               v == t[p].lu
               d == due[p]
    <3>1. /\ held[n].list[p] # Absent /\ clock + d <= u + Period
          /\ t[p] # Absent /\ v >= u
      BY <1>4, <1>7, <2>2 DEF Fresh
    <3>2. /\ held[n].list[p] \in Row /\ t[p] \in Row
          /\ clock \in Nat /\ d \in Nat /\ Period \in Nat
      BY <1>2, <1>6, PeriodAssumption DEF IInv, TypeOK, Table, Calm, Settled
    <3>3. u \in Nat /\ v \in Nat
      BY <3>1, <3>2 DEF Row, Entry
    <3> HIDE DEF u, v, d
    <3>4. clock + d <= v + Period
      BY <3>1, <3>2, <3>3
    <3> QED BY <1>6, <2>1, <2>2, <3>1, <3>4 DEF Fresh, v, d
  <2>3. CASE ~(k = n /\ Fresh(held[n].list, p))
    <3>1. CASE \E m \in net : m.dst = k /\ Fresh(m.list, p)
      BY <1>1, <2>1, <3>1 DEF OnItsWay, Fresh
    <3>2. CASE k # n /\ recv[k] = "merging" /\ Fresh(held[k].list, p)
      BY <1>5, <2>1, <3>2 DEF OnItsWay, Fresh
    <3> QED BY <1>7, <2>3, <3>1, <3>2 DEF OnItsWay
  <2> QED BY <2>2, <2>3
<1>8. \A k \in Node : Up(k) => recv'[k] # "off"
  BY <1>5 DEF Calm, Settled
<1>9. \A k, p \in Node : Up(p) => scan'[k][p] = Absent
  BY <1>1 DEF Calm, NobodyAccused
<1>10. \A m \in net' : m \in net
  BY <1>1
<1>11. \A k \in Node : held'[k] \in {held[k], Absent} \cup net
  BY <1>5
<1> QED BY <1>1, <1>4, <1>7, <1>8, <1>9, <1>10, <1>11, WriteCalm

LEMMA ReplyCalm ==
  ASSUME IInv, IInv', Calm, NEW n \in Node, Reply(n), due' = due
  PROVE  Calm'
<1>1. /\ SameSetting /\ scan' = scan
      /\ recv[n] = "replying"
      /\ table' = [table EXCEPT ![n] = SnapshotOf(n)]
  BY DEF Reply, TakeSnapshot, SameSetting
<1>2. \A m \in net' : m \in net \/ m.list = SnapshotOf(n)
  BY DEF Reply, Send
<1>3. net \subseteq net'
  BY DEF Reply, Send
<1>4. /\ recv'[n] = "reading"
      /\ \A k \in Node : k # n => recv'[k] = recv[k]
      /\ \A k \in Node : held'[k] \in {held[k], Absent}
      /\ \A k \in Node : k # n => held'[k] = held[k]
  BY DEF Reply, IInv, TypeOK
<1>5. ASSUME NEW k \in Node, NEW p \in Node, OnItsWay(k, p)
      PROVE  OnItsWay(k, p)'
  <2>1. clock' = clock /\ due'[p] = due[p]
    BY <1>1 DEF SameSetting
  <2>2. recv[k] = "merging" => recv'[k] = "merging" /\ held'[k] = held[k]
    BY <1>1, <1>4
  <2> QED BY <1>3, <1>5, <2>1, <2>2, WayKept
<1>6. \A k \in Node : Up(k) => recv'[k] # "off"
  BY <1>4 DEF Calm, Settled
<1>7. \A k, p \in Node : Up(p) => scan'[k][p] = Absent
  BY <1>1 DEF Calm, NobodyAccused
<1>8. \A m \in net' : m \in net \/ UntouchedRows(m.list)
  BY <1>2, SnapshotRenews
<1>9. \A k \in Node : held'[k] \in {held[k], Absent} \cup net
  BY <1>4
<1> QED BY <1>1, <1>5, <1>6, <1>7, <1>8, <1>9, SnapshotRenews, WriteCalm

\* A scan that goes on changes the rows of processes that have ended.
LEMMA ScanStepCalm ==
  ASSUME IInv, IInv', Calm, NEW n \in Node, NEW q \in Node, ScanStep(n, q), due' = due
  PROVE  Calm'
<1> DEFINE t == [table[n] EXCEPT ![q] = CarriedOut(table[n][q], scan[n][q], Now(n))]
<1>1. /\ SameSetting /\ UNCHANGED <<net, held, recv>>
      /\ table' = [table EXCEPT ![n] = t]
      /\ scan' = [scan EXCEPT ![n][q] = Absent]
  BY DEF ScanStep, SameSetting
<1>2. ~Up(q)
  BY DEF ScanStep, Calm, NobodyAccused
<1>3. \A p \in Node : p # q => t[p] = table[n][p]
  BY RowTypes DEF Table
<1> HIDE DEF t
<1>4. Renewed(n, t)
  <2>1. \A p \in Node : Up(p) => t[p] = table[n][p]
    BY <1>2, <1>3
  <2>2. \A p \in Node : table[n][p] # Absent => table[n][p].lu \in Nat
    BY RowTypes
  <2>3. \A p \in Node : Up(p) /\ table[n][p] # Absent => Untouched(table[n][p])
    BY DEF Calm, NobodyAccused, UntouchedRows
  <2> QED BY <2>1, <2>2, <2>3 DEF Renewed
<1>5. \A k, p \in Node : OnItsWay(k, p) => OnItsWay(k, p)'
  BY <1>1 DEF OnItsWay, Fresh, SameSetting
<1>6. \A k \in Node : Up(k) => recv'[k] # "off"
  BY <1>1 DEF Calm, Settled
<1>7. \A k, p \in Node : scan'[k][p] \in {scan[k][p], Absent}
  BY <1>1 DEF IInv, TypeOK
<1>8. \A k, p \in Node : Up(p) => scan'[k][p] = Absent
  BY <1>7 DEF Calm, NobodyAccused
<1>9. (\A m \in net' : m \in net) /\ (\A k \in Node : held'[k] \in {held[k], Absent} \cup net)
  BY <1>1
<1> QED BY <1>1, <1>4, <1>5, <1>6, <1>8, <1>9, WriteCalm

\* A datagram that nobody is there to receive, or none at all.
LEMMA VanishCalm ==
  ASSUME IInv, Calm,
         UNCHANGED <<clock, boot, phase, table, scan, recv, held, conn, leftBoots, due>>,
         net' \subseteq net, \A m \in net \ net' : phase[m.dst] = "down"
  PROVE  Calm'
<1>1. Settled'
  BY SettledKept DEF Calm, Settled, SameSetting
<1>2. NobodyAccused'
  <2>1. \A n \in Node : UntouchedRows(table[n])'
    BY DEF Calm, NobodyAccused, UntouchedRows, Up
  <2>2. \A m \in net' : UntouchedRows(m.list)'
    BY DEF Calm, NobodyAccused, UntouchedRows, Up
  <2>3. \A n \in Node : held'[n] # Absent => UntouchedRows(held[n].list)'
    BY DEF Calm, NobodyAccused, UntouchedRows, Up
  <2>4. \A n, p \in Node : Up(p)' => scan'[n][p] = Absent
    BY DEF Calm, NobodyAccused, Up
  <2> QED BY <2>1, <2>2, <2>3, <2>4 DEF NobodyAccused
<1>3. ASSUME NEW n \in Node, NEW p \in Node, Up(n), Up(p)
      PROVE  HeardInTime(n, p)'
  <2>1. OnItsWay(n, p) => OnItsWay(n, p)'
    BY <1>3, WayKept DEF Up
  <2>2. HeardInTime(n, p)
    BY <1>3 DEF Calm, AllHeard
  <2> QED BY <2>1, <2>2 DEF HeardInTime, Fresh
<1>4. AllHeard'
  BY <1>3 DEF AllHeard, Up
<1> QED BY <1>1, <1>2, <1>4 DEF Calm

\* A crash leaves fewer processes to hear and be heard.
LEMMA CrashCalm ==
  ASSUME IInv, Calm, NEW n \in Node, CrashNow(n)
  PROVE  Calm'
<1>1. /\ UNCHANGED <<clock, boot, net, leftBoots, due>>
      /\ phase' = [phase EXCEPT ![n] = "down"]
      /\ table' = [table EXCEPT ![n] = EmptyTable]
      /\ scan' = [scan EXCEPT ![n] = NoPending]
      /\ recv' = [recv EXCEPT ![n] = "off"]
      /\ held' = [held EXCEPT ![n] = Absent]
  BY DEF CrashNow, Crash, ProcessEnds
<1>2. /\ ~Up(n)'
      /\ \A k \in Node : k # n => /\ Up(k)' = Up(k) /\ phase'[k] = phase[k]
                                  /\ table'[k] = table[k] /\ scan'[k] = scan[k]
                                  /\ recv'[k] = recv[k] /\ held'[k] = held[k]
      /\ \A k \in Node : phase'[k] \in {phase[k], "down"}
  BY <1>1 DEF Up, IInv, TypeOK
<1>3. \A k \in Node : Up(k)' => Up(k) /\ k # n
  BY <1>2
<1>4. \A k \in Node : conn'[k] = Absent
  BY DEF CrashNow, Crash, ProcessEnds, Calm, Settled
<1>5. Settled'
  BY <1>1, <1>2, <1>3, <1>4 DEF Calm, Settled, RemovalAge
<1>6. NobodyAccused'
  <2>1. \A p \in Node : table'[n][p] = Absent
    BY <1>1 DEF IInv, TypeOK, EmptyTable
  <2>2. \A k, p \in Node : Up(p)' /\ table'[k][p] # Absent => Untouched(table'[k][p])
    BY <1>2, <1>3, <2>1 DEF Calm, NobodyAccused, UntouchedRows
  <2>3. \A k \in Node : UntouchedRows(table[k])'
    BY <2>2 DEF UntouchedRows
  <2>4. \A m \in net' : UntouchedRows(m.list)'
    BY <1>1, <1>3 DEF Calm, NobodyAccused, UntouchedRows
  <2>5. \A k \in Node : held'[k] # Absent => held'[k] = held[k]
    BY <1>1, <1>2 DEF IInv, TypeOK
  <2>6. \A k \in Node : held'[k] # Absent => UntouchedRows(held[k].list)'
    BY <1>3, <2>5 DEF Calm, NobodyAccused, UntouchedRows
  <2>7. \A k, p \in Node : scan'[k][p] \in {scan[k][p], Absent}
    BY <1>1 DEF IInv, TypeOK, NoPending
  <2>8. \A k, p \in Node : Up(p)' => scan'[k][p] = Absent
    BY <1>3, <2>7 DEF Calm, NobodyAccused
  <2> QED BY <2>3, <2>4, <2>6, <2>8 DEF NobodyAccused
<1>7. ASSUME NEW k \in Node, NEW p \in Node, Up(k)', Up(p)'
      PROVE  HeardInTime(k, p)'
  <2>1. k # n /\ HeardInTime(k, p)
    BY <1>3, <1>7 DEF Calm, AllHeard
  <2>2. OnItsWay(k, p) => OnItsWay(k, p)'
    BY <1>1, <1>2, <2>1 DEF OnItsWay, Fresh
  <2> QED BY <1>1, <1>2, <2>1, <2>2 DEF HeardInTime, Fresh
<1>8. AllHeard'
  BY <1>7 DEF AllHeard
<1> QED BY <1>5, <1>6, <1>8 DEF Calm

\* Nobody joins or comes back.
LEMMA NobodyJoins ==
  ASSUME HeartbeatsInTime, Calm, NEW n \in Node
  PROVE  ~JoinStep(n) /\ ~StartNow(n) /\ ~BreakOne(n)
<1>1. phase[n] # "joining" /\ conn[n] = Absent /\ boot[n] = 1 /\ MaxBoot = 1
  BY DEF Calm, Settled, HeartbeatsInTime
<1>2. ~JoinStep(n)
  BY <1>1 DEF JoinStep, Untimed, JoinRequest, JoinMerge, JoinRespond, JoinFinish
<1>3. ~StartNow(n) /\ ~BreakOne(n)
  BY <1>1 DEF StartNow, Start, BreakOne, JoinBreak
<1> QED BY <1>2, <1>3

\* The loss of a datagram is counted.
LEMMA CalmStep ==
  ASSUME HeartbeatsInTime, TInv, [TimedNext]_timed
  PROVE  TInv'
<1>1. IInv /\ IInv'
  BY TimedStepInvariant DEF TInv
<1>2. faults' \in {faults, faults + 1} /\ faults \in Nat
  BY DEF TInv, TimedNext, Progress, Faults, timed, Elapse, Scan, SendDue, Deliver, JoinStep,
         StoreStep, Untimed, Vanish, LoseOne, BreakOne, CrashNow, StartNow
<1>3. faults' \in Nat /\ (faults' = 0 => faults = 0 /\ Calm)
  BY <1>2 DEF TInv
<1>4. SUFFICES ASSUME faults = 0, faults' = 0, Calm PROVE Calm'
  BY <1>1, <1>3 DEF TInv
<1>5. CASE UNCHANGED timed
  <2>1. UNCHANGED <<clock, boot, phase, table, scan, recv, held, conn, leftBoots, due>>
    BY <1>5 DEF timed, vars
  <2>2. net' \subseteq net /\ \A m \in net \ net' : phase[m.dst] = "down"
    BY <1>5 DEF timed, vars
  <2> QED BY <1>1, <1>4, <2>1, <2>2, VanishCalm
<1>6. CASE Elapse
  BY <1>1, <1>4, <1>6, ElapseCalm
<1>7. ASSUME NEW n \in Node,
             \/ Scan(n) \/ SendDue(n) \/ Deliver(n) \/ JoinStep(n) \/ StoreStep(n)
             \/ CrashNow(n) \/ StartNow(n) \/ BreakOne(n)
      PROVE  Calm'
  <2>1. CASE Scan(n)
    BY <1>1, <1>4, <2>1, ScanCalm
  <2>2. CASE SendDue(n)
    BY <1>1, <1>4, <2>2, SendCalm
  <2>3. CASE Deliver(n)
    BY <1>1, <1>4, <2>3, DeliverCalm
  <2>4. CASE StoreStep(n)
    <3>1. due' = due /\ (Merge(n) \/ Reply(n) \/ \E p \in Node : ScanStep(n, p))
      BY <2>4 DEF StoreStep, Untimed
    <3> QED BY <1>1, <1>4, <3>1, MergeCalm, ReplyCalm, ScanStepCalm
  <2>5. CASE CrashNow(n)
    BY <1>1, <1>4, <2>5, CrashCalm
  <2> QED BY <1>4, <1>7, <2>1, <2>2, <2>3, <2>4, <2>5, NobodyJoins
<1>8. ASSUME NEW m \in net, Vanish(m) \/ LoseOne(m)
      PROVE  Calm'
  <2>1. CASE Vanish(m)
    <3>1. UNCHANGED <<clock, boot, phase, table, scan, recv, held, conn, leftBoots, due>>
      BY <2>1 DEF Vanish, Lose
    <3>2. net' \subseteq net /\ \A k \in net \ net' : phase[k.dst] = "down"
      BY <2>1 DEF Vanish, Lose
    <3> QED BY <1>1, <1>4, <3>1, <3>2, VanishCalm
  <2>2. CASE LoseOne(m)
    BY <1>4, <2>2 DEF LoseOne
  <2> QED BY <1>8, <2>1, <2>2
<1> QED BY <1>5, <1>6, <1>7, <1>8 DEF TimedNext, Progress, Faults

-----------------------------------------------------------------------------
(* Theorems.                                                               *)

\* Clocks, periods and datagrams that are used up take nothing away from what holds of
\* every cluster: the tables are well typed, every process keeps its own row, and nobody
\* is said to have left who was not asked to.
THEOREM TimedCorrect == TimedSpec => [](TypeOK /\ SelfEntryIntact /\ LeftOnlyOnRequest)
<1>1. IInv => TypeOK /\ SelfEntryIntact
  BY DEF IInv
<1> QED BY <1>1, LeftWasAsked, TimedInvariance, PTL

\* As long as no datagram was lost, no scan and no list of another process makes a
\* process that has been there from the start Suspect, Failed or Left, if a heartbeat
\* period fits into the first threshold of manager.scanOnce.
THEOREM NobodyAccusedInTime ==
  ASSUME HeartbeatsInTime
  PROVE  TimedSpec => []AccusedOnlyAfterLoss
<1>1. TimedInit(Node) => TInv
  BY TimedInitInvariant, InitCalm DEF TInv, TimedInit
<1>2. TInv /\ [TimedNext]_timed => TInv'
  BY CalmStep
<1>3. TInv => AccusedOnlyAfterLoss
  BY DEF TInv, Calm, NobodyAccused, UntouchedRows, Untouched, AccusedOnlyAfterLoss
<1> QED BY <1>1, <1>2, <1>3, PTL DEF TimedSpec

=============================================================================
