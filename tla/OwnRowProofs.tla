----------------------------- MODULE OwnRowProofs -----------------------------
(***************************************************************************)
(* Theorems about GroupMembership, for every cluster, mode, clock skew and *)
(* bound.  As long as a process is in its first boot and was not asked to  *)
(* leave, it holds itself for Alive, and nobody has a higher incarnation   *)
(* or a fresher heartbeat of it than itself.  Once it has left, and with   *)
(* suspicion disabled, it holds itself for Left until it exits, and once   *)
(* it has ended nobody hears a heartbeat of it any more.                   *)
(***************************************************************************)
EXTENDS GroupMembershipProofs

-----------------------------------------------------------------------------
(* The inductive invariant.  A process adopts what a list says of itself   *)
(* only if that is fresher than its own row, so no list may be, wherever   *)
(* it is; nor may a scan have the incarnation of such a list in mind.      *)

\* The row r has neither a later incarnation nor a later heartbeat than o.
Below(r, o) == r.inc <= o.inc /\ r.lu <= o.lu

FirstBoots == {n \in Node : FirstBoot(n)}

\* What L says of the processes in F is below what they have of themselves in T.
UnderAt(L, T, F) == \A n \in F : L[n] # Absent => Below(L[n], T[n][n])

Under(L) == UnderAt(L, table, FirstBoots)

OwnRows == \A n \in FirstBoots : table[n][n].state = "Alive" /\ table[n][n].lu <= Now(n)

UnderTables ==
  /\ \A n \in Node : Under(table[n])
  /\ \A m \in net : Under(m.list)
  /\ \A n \in Node : held[n] # Absent => Under(held[n].list)
  /\ \A n \in Node : conn[n] # Absent => Under(conn[n].list)

\* A scan decides about rows it has seen.
UnderScans ==
  \A k, p \in Node :
    scan[k][p] # Absent =>
      boot[p] >= 1 /\ (p \in FirstBoots => scan[k][p].inc <= table[p][p].inc)

OInv == OwnRows /\ UnderTables /\ UnderScans

\* What a step may do to the tables: the processes that stay in their first boot raise
\* their own rows, and everybody's tables stay below these.
TablesKept ==
  /\ FirstBoots' \subseteq FirstBoots
  /\ \A n \in FirstBoots' : Below(table[n][n], table'[n][n])
  /\ \A n \in Node : UnderAt(table'[n], table', FirstBoots')
  /\ OwnRows'

\* What a step may do to lists and decisions: keep them, or take them from a table.
ListsPassed ==
  /\ \A m \in net' : m \in net \/ \E k \in Node : m.list = table'[k]
  /\ \A n \in Node : held'[n] # Absent => held'[n] = held[n] \/ held'[n] \in net
  /\ \A n \in Node : conn'[n] # Absent =>
       \/ conn'[n] = conn[n]
       \/ conn'[n].list = EmptyTable
       \/ \E k \in Node : conn'[n].list = table'[k]
  /\ \A k, p \in Node : scan'[k][p] # Absent =>
       \/ scan'[k][p] = scan[k][p]
       \/ table'[k][p] # Absent /\ scan'[k][p].inc = table'[k][p].inc

-----------------------------------------------------------------------------
(* Rows that are below others.                                             *)

LEMMA BelowTransitive ==
  ASSUME NEW a \in Entry, NEW b \in Entry, NEW c \in Entry, Below(a, b), Below(b, c)
  PROVE  Below(a, c)
BY DEF Below, Entry

\* The own row of a process in its first boot.
LEMMA OwnRow ==
  ASSUME IInv, NEW n \in FirstBoots
  PROVE  /\ n \in Node /\ table[n][n] \in Entry /\ boot[n] = 1 /\ table[n][n].boot = 1
         /\ table[n] \in Table
BY DEF IInv, TypeOK, SelfEntryIntact, FirstBoots, FirstBoot, Table, Row

\* A list stays below own rows that rise.
LEMMA UnderRises ==
  ASSUME NEW L \in Table, NEW T, NEW U, NEW F, NEW G, G \subseteq F, F \subseteq Node,
         UnderAt(L, T, F),
         \A n \in G : T[n][n] \in Entry /\ U[n][n] \in Entry /\ Below(T[n][n], U[n][n])
  PROVE  UnderAt(L, U, G)
<1> SUFFICES ASSUME NEW n \in G, L[n] # Absent PROVE Below(L[n], U[n][n])
  BY DEF UnderAt
<1>1. L[n] \in Entry
  BY DEF Table, Row
<1>2. Below(L[n], T[n][n])
  BY DEF UnderAt
<1> QED BY <1>1, <1>2, BelowTransitive

\* The rows of the lists and of the tables: the invariant of a step from its parts.
LEMMA Passed ==
  ASSUME IInv, IInv', OInv, TablesKept, ListsPassed,
         \A n \in Node : boot'[n] >= boot[n]
  PROVE  OInv'
<1>1. ASSUME NEW n \in FirstBoots'
      PROVE  /\ n \in FirstBoots
             /\ table[n][n] \in Entry /\ table'[n][n] \in Entry
             /\ Below(table[n][n], table'[n][n])
  <2>1. n \in FirstBoots /\ Below(table[n][n], table'[n][n])
    BY DEF TablesKept
  <2>2. n \in Node /\ Up(n)'
    BY DEF FirstBoots, FirstBoot
  <2>3. table'[n][n] \in Entry
    BY <2>2 DEF IInv, TypeOK, SelfEntryIntact, Table, Row
  <2> QED BY <2>1, <2>3, OwnRow
<1>2. ASSUME NEW L \in Table, Under(L)
      PROVE  UnderAt(L, table', FirstBoots')
  <2>1. FirstBoots \subseteq Node /\ FirstBoots' \subseteq FirstBoots
    BY DEF FirstBoots, TablesKept
  <2> QED BY <1>1, <1>2, <2>1, UnderRises DEF Under
<1>3. ASSUME NEW m \in net'
      PROVE  UnderAt(m.list, table', FirstBoots')
  <2>1. CASE m \in net
    <3>1. m.list \in Table /\ Under(m.list)
      BY <2>1 DEF IInv, TypeOK, Message, OInv, UnderTables
    <3> QED BY <3>1, <1>2
  <2>2. CASE \E k \in Node : m.list = table'[k]
    BY <2>2 DEF TablesKept
  <2> QED BY <2>1, <2>2 DEF ListsPassed
<1>4. ASSUME NEW n \in Node, held'[n] # Absent
      PROVE  UnderAt(held'[n].list, table', FirstBoots')
  <2>1. CASE held'[n] = held[n]
    <3>1. held[n].list \in Table /\ Under(held[n].list)
      BY <1>4, <2>1 DEF IInv, TypeOK, Message, OInv, UnderTables
    <3> QED BY <2>1, <3>1, <1>2
  <2>2. CASE held'[n] \in net
    <3>1. held'[n].list \in Table /\ Under(held'[n].list)
      BY <2>2 DEF IInv, TypeOK, Message, OInv, UnderTables
    <3> QED BY <3>1, <1>2
  <2> QED BY <1>4, <2>1, <2>2 DEF ListsPassed
<1>5. ASSUME NEW n \in Node, conn'[n] # Absent
      PROVE  UnderAt(conn'[n].list, table', FirstBoots')
  <2>1. CASE conn'[n] = conn[n]
    <3>1. conn[n] \in Connection
      BY <1>5, <2>1 DEF IInv, TypeOK
    <3>2. conn[n].list \in Table /\ Under(conn[n].list)
      BY <1>5, <2>1, <3>1 DEF Connection, OInv, UnderTables
    <3> QED BY <2>1, <3>2, <1>2
  <2>2. CASE conn'[n].list = EmptyTable
    BY <2>2 DEF EmptyTable, UnderAt, FirstBoots
  <2>3. CASE \E k \in Node : conn'[n].list = table'[k]
    BY <2>3 DEF TablesKept
  <2> QED BY <1>5, <2>1, <2>2, <2>3 DEF ListsPassed
<1>6. ASSUME NEW k \in Node, NEW p \in Node, scan'[k][p] # Absent
      PROVE  /\ boot'[p] >= 1
             /\ p \in FirstBoots' => scan'[k][p].inc <= table'[p][p].inc
  <2>1. CASE scan'[k][p] = scan[k][p]
    <3>1. boot[p] >= 1 /\ boot[p] \in Nat /\ boot'[p] \in Nat
      BY <1>6, <2>1 DEF OInv, UnderScans, IInv, TypeOK
    <3>2. ASSUME p \in FirstBoots'
          PROVE  scan'[k][p].inc <= table'[p][p].inc
      <4>1. scan[k][p] \in Pending
        BY <1>6, <2>1 DEF IInv, TypeOK
      <4>2. scan[k][p].inc \in Nat
        BY <4>1 DEF Pending
      <4>3. scan[k][p].inc <= table[p][p].inc
        BY <1>1, <1>6, <2>1, <3>2 DEF OInv, UnderScans
      <4>4. /\ table[p][p].inc \in Nat /\ table'[p][p].inc \in Nat
            /\ table[p][p].inc <= table'[p][p].inc
        BY <1>1, <3>2 DEF Below, Entry
      <4> QED BY <2>1, <4>2, <4>3, <4>4
    <3> QED BY <3>1, <3>2
  <2>2. CASE table'[k][p] # Absent /\ scan'[k][p].inc = table'[k][p].inc
    <3>1. table'[k][p].boot \in 1 .. boot'[p]
      BY <2>2 DEF IInv, SoundTables, Sound, SoundAt
    <3>2. boot'[p] \in Nat
      BY DEF IInv, TypeOK
    <3>3. p \in FirstBoots' => Below(table'[k][p], table'[p][p])
      BY <2>2 DEF TablesKept, UnderAt
    <3> QED BY <2>2, <3>1, <3>2, <3>3 DEF Below
  <2> QED BY <1>6, <2>1, <2>2 DEF ListsPassed
<1>7. UnderTables'
  BY <1>3, <1>4, <1>5 DEF UnderTables, Under, TablesKept
<1>8. UnderScans'
  BY <1>6 DEF UnderScans
<1> QED BY <1>7, <1>8 DEF OInv, TablesKept

-----------------------------------------------------------------------------
(* What the writes to a table do to the rows.                              *)

\* A step that starts no process and lets nobody come back.
FirstBootsShrink == UNCHANGED boot /\ leftBoots \subseteq leftBoots' /\ \A k \in Node : Up(k)' => Up(k)

LEMMA NoNewFirstBoots ==
  ASSUME FirstBootsShrink
  PROVE  FirstBoots' \subseteq FirstBoots
BY DEF FirstBootsShrink, FirstBoots, FirstBoot

\* One table is replaced: by one whose own row has risen, and whose other rows are below
\* their owners'.
LEMMA TableReplaced ==
  ASSUME IInv, IInv', OInv, FirstBootsShrink, UNCHANGED clock, NEW n \in Node, NEW t,
         table' = [table EXCEPT ![n] = t],
         n \in FirstBoots' => /\ Below(table[n][n], t[n])
                              /\ t[n].state = "Alive"
                              /\ t[n].lu <= Now(n),
         \A p \in FirstBoots' \ {n} : t[p] # Absent => Below(t[p], table[p][p])
  PROVE  TablesKept
<1>1. FirstBoots' \subseteq FirstBoots /\ FirstBoots \subseteq Node
  BY NoNewFirstBoots DEF FirstBoots
<1>2. \A k \in Node : table'[k] = IF k = n THEN t ELSE table[k]
  BY DEF IInv, TypeOK
<1>3. ASSUME NEW p \in FirstBoots'
      PROVE  table[p][p] \in Entry /\ table'[p][p] \in Entry /\ Below(table[p][p], table'[p][p])
  <2>1. p \in FirstBoots /\ p \in Node /\ Up(p)'
    BY <1>1 DEF FirstBoots, FirstBoot
  <2>2. table[p][p] \in Entry
    BY <2>1, OwnRow
  <2>3. table'[p][p] \in Entry
    BY <2>1 DEF IInv, TypeOK, SelfEntryIntact, Table, Row
  <2>4. Below(table[p][p], table'[p][p])
    <3>1. CASE p = n
      BY <1>2, <3>1
    <3>2. CASE p # n
      BY <1>2, <2>1, <2>2, <3>2 DEF Below, Entry
    <3> QED BY <3>1, <3>2
  <2> QED BY <2>2, <2>3, <2>4
<1>4. ASSUME NEW k \in Node
      PROVE  UnderAt(table'[k], table', FirstBoots')
  <2>1. CASE k # n
    <3>1. table[k] \in Table /\ Under(table[k])
      BY DEF IInv, TypeOK, OInv, UnderTables
    <3>2. UnderAt(table[k], table', FirstBoots')
      BY <1>1, <1>3, <3>1, UnderRises DEF Under
    <3> QED BY <1>2, <2>1, <3>2
  <2>2. CASE k = n
    <3> SUFFICES ASSUME NEW p \in FirstBoots', t[p] # Absent
                 PROVE  Below(t[p], table'[p][p])
      BY <1>2, <2>2 DEF UnderAt
    <3>1. CASE p = n
      <4>1. t[p] \in Entry /\ table'[p][p] = t[p]
        BY <1>2, <1>3, <3>1
      <4> QED BY <4>1 DEF Below, Entry
    <3>2. CASE p # n
      <4>1. table'[p][p] = table[p][p]
        BY <1>1, <1>2, <3>2
      <4> QED BY <3>2, <4>1
    <3> QED BY <3>1, <3>2
  <2> QED BY <2>1, <2>2
<1>5. OwnRows'
  <2> SUFFICES ASSUME NEW p \in FirstBoots'
               PROVE  table'[p][p].state = "Alive" /\ table'[p][p].lu <= Now(p)'
    BY DEF OwnRows
  <2>1. p \in FirstBoots /\ p \in Node /\ Now(p)' = Now(p)
    BY <1>1 DEF Now
  <2>2. CASE p = n
    BY <1>2, <2>1, <2>2
  <2>3. CASE p # n
    BY <1>2, <2>1, <2>3 DEF OInv, OwnRows
  <2> QED BY <2>2, <2>3
<1> QED BY <1>1, <1>3, <1>4, <1>5 DEF TablesKept

\* No table is written.
LEMMA TablesUntouched ==
  ASSUME IInv, IInv', OInv, FirstBootsShrink, UNCHANGED <<clock, table>>
  PROVE  TablesKept
<1>1. FirstBoots' \subseteq FirstBoots
  BY NoNewFirstBoots
<1>2. \A p \in FirstBoots' : Below(table[p][p], table'[p][p])
  BY <1>1, OwnRow DEF Below, Entry
<1>3. \A k \in Node : UnderAt(table'[k], table', FirstBoots')
  BY <1>1 DEF OInv, UnderTables, Under, UnderAt
<1>4. OwnRows'
  BY <1>1 DEF OInv, OwnRows, Now
<1> QED BY <1>1, <1>2, <1>3, <1>4 DEF TablesKept

\* A Snapshot sets the own heartbeat to the own clock, which never was behind it.
LEMMA SnapshotRises ==
  ASSUME IInv, OInv, NEW n \in FirstBoots
  PROVE  /\ Below(table[n][n], SnapshotOf(n)[n])
         /\ SnapshotOf(n)[n].state = "Alive"
         /\ SnapshotOf(n)[n].lu <= Now(n)
<1> DEFINE e == table[n][n]
           now == Now(n)
<1>1. n \in Node /\ e \in Entry /\ boot[n] = 1 /\ e.boot = 1 /\ now \in Nat
  BY OwnRow, NowIsNat DEF IInv
<1>2. e.state = "Alive" /\ e.lu <= now
  BY DEF OInv, OwnRows
<1>3. SnapshotOf(n)[n] = [e EXCEPT !.lu = now]
  <2>1. e # Absent
    BY <1>1, AbsentAssumption
  <2> QED BY <1>1, <1>2, <2>1 DEF SnapshotOf, Refreshed, IsSelf
<1> HIDE DEF e, now
<1>4. /\ [e EXCEPT !.lu = now].inc = e.inc
      /\ [e EXCEPT !.lu = now].lu = now
      /\ [e EXCEPT !.lu = now].state = e.state
  BY <1>1 DEF Entry
<1>5. Below(e, [e EXCEPT !.lu = now])
  BY <1>1, <1>2, <1>4 DEF Below, Entry
<1> QED BY <1>1, <1>2, <1>3, <1>4, <1>5 DEF e, now

LEMMA SnapshotKeepsTables ==
  ASSUME IInv, IInv', OInv, FirstBootsShrink, UNCHANGED clock, NEW n \in Node, TakeSnapshot(n)
  PROVE  TablesKept
<1>1. FirstBoots' \subseteq FirstBoots /\ FirstBoots \subseteq Node
  BY NoNewFirstBoots DEF FirstBoots
<1>2. n \in FirstBoots' => /\ Below(table[n][n], SnapshotOf(n)[n])
                           /\ SnapshotOf(n)[n].state = "Alive"
                           /\ SnapshotOf(n)[n].lu <= Now(n)
  BY <1>1, SnapshotRises
<1>3. ASSUME NEW p \in FirstBoots' \ {n}, SnapshotOf(n)[p] # Absent
      PROVE  Below(SnapshotOf(n)[p], table[p][p])
  <2>1. SnapshotOf(n)[p] = table[n][p]
    BY <1>1 DEF SnapshotOf, Refreshed, IsSelf
  <2> QED BY <1>1, <1>3, <2>1 DEF OInv, UnderTables, Under, UnderAt
<1>4. table' = [table EXCEPT ![n] = SnapshotOf(n)]
  BY DEF TakeSnapshot
<1> QED BY <1>2, <1>3, <1>4, TableReplaced

\* A merge meets the own row with one that is below it: it is refuted, or left alone.
LEMMA UpdateOwn ==
  ASSUME NEW e \in Entry, NEW m \in Row, NEW own \in BOOLEAN, NEW b \in Nat, NEW now \in Nat,
         m # Absent => m.boot = e.boot /\ Below(m, e),
         e.state = "Alive", e.lu <= now
  PROVE  /\ Below(e, updateMemberEntry(e, m, own, b, now))
         /\ updateMemberEntry(e, m, own, b, now).state = "Alive"
         /\ updateMemberEntry(e, m, own, b, now).lu <= now
<1> DEFINE r == updateMemberEntry(e, m, own, b, now)
<1>1. Below(e, e) /\ e # Absent
  BY AbsentAssumption DEF Below, Entry
<1>2. r \in {e, selfBumpIncarnation(e, now)}
  <2>1. CASE m = Absent
    BY <1>1, <2>1 DEF updateMemberEntry
  <2>2. CASE m # Absent
    <3>1. m \in Entry /\ m.boot = e.boot /\ m.inc <= e.inc /\ m.lu <= e.lu
      BY <2>2 DEF Row, Below
    <3>2. ~Fresher(e, m)
      BY <3>1 DEF Fresher, Entry
    <3>3. SameBoot(e, m, own, b, now) \in {e, selfBumpIncarnation(e, now)}
      BY <3>2 DEF SameBoot
    <3>4. ~(m.boot > e.boot) /\ ~(m.boot < e.boot)
      BY <3>1 DEF Entry
    <3>5. r = SameBoot(e, m, own, b, now)
      BY <1>1, <2>2, <3>4, Zenon DEF updateMemberEntry
    <3> QED BY <3>3, <3>5
  <2> QED BY <2>1, <2>2
<1>3. /\ Below(e, selfBumpIncarnation(e, now))
      /\ selfBumpIncarnation(e, now).state = "Alive"
      /\ selfBumpIncarnation(e, now).lu <= now
  BY DEF selfBumpIncarnation, Below, Entry
<1> HIDE DEF r
<1>4. Below(e, r) /\ r.state = "Alive" /\ r.lu <= now
  BY <1>1, <1>2, <1>3
<1> QED BY <1>4 DEF r

\* A merge of two rows about another process that are below that process's own.
LEMMA UpdateOther ==
  ASSUME NEW e \in Row, NEW m \in Row, NEW b \in Nat, NEW now \in Nat, NEW o,
         e # Absent => e.boot = 1 /\ Below(e, o),
         m # Absent => m.boot = 1 /\ Below(m, o),
         updateMemberEntry(e, m, FALSE, b, now) # Absent
  PROVE  Below(updateMemberEntry(e, m, FALSE, b, now), o)
<1> DEFINE r == updateMemberEntry(e, m, FALSE, b, now)
<1>1. r \in {e, m}
  <2>1. CASE e = Absent \/ m = Absent
    BY <2>1 DEF updateMemberEntry
  <2>2. CASE e # Absent /\ m # Absent
    BY <2>2 DEF updateMemberEntry, SameBoot, Accuses
  <2> QED BY <2>1, <2>2
<1> HIDE DEF r
<1>2. Below(r, o)
  <2>1. r # Absent
    BY DEF r
  <2> QED BY <1>1, <2>1
<1> QED BY <1>2 DEF r

\* Rows about a first boot that a sound list has are about that boot.
LEMMA FirstBootRows ==
  ASSUME IInv, NEW L \in Table, Sound(L), NEW p \in FirstBoots, L[p] # Absent
  PROVE  L[p].boot = 1
<1>1. L[p].boot \in 1 .. boot[p] /\ boot[p] = 1
  BY OwnRow DEF Sound, SoundAt, FirstBoots
<1> QED BY <1>1

LEMMA MergeKeepsTables ==
  ASSUME IInv, IInv', OInv, FirstBootsShrink, UNCHANGED clock, NEW n \in Node,
         NEW list \in Table, Sound(list), Under(list), MergeAt(n, list)
  PROVE  TablesKept
<1> DEFINE t == MergeFullList(table[n], list, n, boot[n], Now(n))
<1>1. FirstBoots' \subseteq FirstBoots /\ FirstBoots \subseteq Node
  BY NoNewFirstBoots DEF FirstBoots
<1>2. table[n] \in Table /\ Sound(table[n]) /\ Under(table[n]) /\ boot[n] \in Nat /\ Now(n) \in Nat
  BY NowIsNat DEF IInv, TypeOK, SoundTables, OInv, UnderTables
<1>3. table' = [table EXCEPT ![n] = t]
  BY DEF MergeAt
<1>4. \A p \in Node :
        t[p] = updateMemberEntry(table[n][p], list[p], p = n, boot[n], Now(n))
  BY DEF MergeFullList
<1> HIDE DEF t
<1>5. ASSUME n \in FirstBoots
      PROVE  Below(table[n][n], t[n]) /\ t[n].state = "Alive" /\ t[n].lu <= Now(n)
  <2> DEFINE e == table[n][n]
             m == list[n]
             b == boot[n]
             now == Now(n)
  <2>1. e \in Entry /\ e.boot = 1 /\ e.state = "Alive" /\ e.lu <= now /\ b \in Nat /\ now \in Nat
    BY <1>2, <1>5, OwnRow DEF OInv, OwnRows
  <2>2. m \in Row /\ (m # Absent => m.boot = 1 /\ Below(m, e))
    BY <1>5, FirstBootRows DEF Table, Under, UnderAt
  <2> DEFINE own == n = n
  <2>3. t[n] = updateMemberEntry(e, m, own, b, now) /\ own \in BOOLEAN
    BY <1>4
  <2> HIDE DEF e, m, b, now, own
  <2>4. m # Absent => m.boot = e.boot /\ Below(m, e)
    BY <2>1, <2>2
  <2>5. Below(e, t[n]) /\ t[n].state = "Alive" /\ t[n].lu <= now
    BY <2>1, <2>2, <2>3, <2>4, UpdateOwn
  <2> QED BY <2>5 DEF e, now
<1>6. ASSUME NEW p \in FirstBoots' \ {n}, t[p] # Absent
      PROVE  Below(t[p], table[p][p])
  <2> DEFINE e == table[n][p]
             m == list[p]
             b == boot[n]
             now == Now(n)
             o == table[p][p]
  <2>1. p \in FirstBoots /\ p \in Node /\ p # n /\ b \in Nat /\ now \in Nat
    BY <1>1, <1>2
  <2>2. e \in Row /\ (e # Absent => e.boot = 1 /\ Below(e, o))
    BY <1>2, <2>1, FirstBootRows DEF Table, Under, UnderAt
  <2>3. m \in Row /\ (m # Absent => m.boot = 1 /\ Below(m, o))
    BY <2>1, FirstBootRows DEF Table, Under, UnderAt
  <2>4. t[p] = updateMemberEntry(e, m, FALSE, b, now)
    <3>1. (p = n) = FALSE
      BY <2>1
    <3> QED BY <1>4, <2>1, <3>1
  <2> HIDE DEF e, m, b, now, o
  <2>5. Below(t[p], o)
    BY <1>6, <2>1, <2>2, <2>3, <2>4, UpdateOther
  <2> QED BY <2>5 DEF o
<1> QED BY <1>1, <1>3, <1>5, <1>6, TableReplaced

-----------------------------------------------------------------------------
(* Where lists and decisions come from: every action keeps them or takes   *)
(* them from a table it has just written.                                  *)

\* Steps that take a Snapshot and pass it on.
LEMMA SnapshotPasses ==
  ASSUME IInv, NEW n \in Node,
         \/ JoinRequest(n) \/ SendPeriod(n) \/ Receive(n) \/ Reply(n) \/ ScanBegin(n)
         \/ AdminQuery(n) \/ LeaveBegin(n)
  PROVE  ListsPassed
<1>1. TakeSnapshot(n)
  BY DEF JoinRequest, SendPeriod, Receive, ReadDatagram, Reply, ScanBegin, AdminQuery, LeaveBegin
<1>2. table'[n] = SnapshotOf(n)
  BY <1>1 DEF TakeSnapshot, IInv, TypeOK
<1>3. CASE JoinRequest(n)
  <2>1. \A k \in Node : conn'[k] = IF k = n THEN [stage |-> "request", list |-> SnapshotOf(n)]
                                   ELSE conn[k]
    BY <1>3 DEF JoinRequest, IInv, TypeOK
  <2> QED BY <1>2, <1>3, <2>1 DEF JoinRequest, ListsPassed
<1>4. CASE SendPeriod(n)
  <2>1. \A m \in net' : m \in net \/ m.list = SnapshotOf(n)
    BY <1>4 DEF SendPeriod, Send
  <2> QED BY <1>2, <1>4, <2>1 DEF SendPeriod, ListsPassed
<1>5. CASE Receive(n)
  <2>1. \A k \in Node : held'[k] = held[k] \/ held'[k] \in net
    BY <1>5 DEF Receive, ReadDatagram, IInv, TypeOK
  <2> QED BY <1>5, <2>1 DEF Receive, ReadDatagram, ListsPassed
<1>6. CASE Reply(n)
  <2>1. \A m \in net' : m \in net \/ m.list = SnapshotOf(n)
    BY <1>6 DEF Reply, Send
  <2>2. \A k \in Node : held'[k] = held[k] \/ held'[k] = Absent
    BY <1>6 DEF Reply, IInv, TypeOK
  <2> QED BY <1>2, <1>6, <2>1, <2>2 DEF Reply, ListsPassed
<1>7. CASE ScanBegin(n)
  <2>1. \A k \in Node : scan'[k] = IF k = n THEN [p \in Node |-> Decision(n, p, Now(n))]
                                   ELSE scan[k]
    BY <1>7 DEF ScanBegin, IInv, TypeOK
  <2>2. \A p \in Node :
          Decision(n, p, Now(n)) # Absent =>
            SnapshotOf(n)[p] # Absent /\ Decision(n, p, Now(n)).inc = SnapshotOf(n)[p].inc
    BY DEF Decision
  <2> QED BY <1>2, <1>7, <2>1, <2>2 DEF ScanBegin, ListsPassed
<1>8. CASE AdminQuery(n) \/ LeaveBegin(n)
  BY <1>8 DEF AdminQuery, LeaveBegin, ListsPassed
<1> QED BY <1>3, <1>4, <1>5, <1>6, <1>7, <1>8

\* handleJoin's answer is a Snapshot.
LEMMA JoinRespondPasses ==
  ASSUME IInv, NEW n \in Node, JoinRespond(n)
  PROVE  ListsPassed
<1>1. Introducer \in Node /\ table'[Introducer] = SnapshotOf(Introducer)
  BY ClusterAssumption DEF JoinRespond, TakeSnapshot, IInv, TypeOK
<1>2. \A k \in Node :
        conn'[k] = IF k = n THEN [stage |-> "response", list |-> SnapshotOf(Introducer)]
                   ELSE conn[k]
  BY DEF JoinRespond, IInv, TypeOK
<1> QED BY <1>1, <1>2 DEF JoinRespond, ListsPassed

\* A merge consumes its list.
LEMMA MergePasses ==
  ASSUME IInv, NEW n \in Node, JoinMerge(n) \/ JoinFinish(n) \/ Merge(n)
  PROVE  ListsPassed
<1>1. CASE JoinMerge(n)
  <2>1. \A k \in Node : conn'[k] = IF k = n THEN [stage |-> "merged", list |-> EmptyTable]
                                   ELSE conn[k]
    BY <1>1 DEF JoinMerge, IInv, TypeOK
  <2> QED BY <1>1, <2>1 DEF JoinMerge, ListsPassed
<1>2. CASE JoinFinish(n)
  <2>1. \A k \in Node : conn'[k] = conn[k] \/ conn'[k] = Absent
    BY <1>2 DEF JoinFinish, IInv, TypeOK
  <2> QED BY <1>2, <2>1 DEF JoinFinish, ListsPassed
<1>3. CASE Merge(n)
  <2>1. \A k \in Node : held'[k] = held[k] \/ held'[k] = Absent
    BY <1>3 DEF Merge, IInv, TypeOK
  <2> QED BY <1>3, <2>1 DEF Merge, ListsPassed
<1> QED BY <1>1, <1>2, <1>3

\* What a process that ends held is gone.
LEMMA ProcessEndsPasses ==
  ASSUME IInv, NEW n \in Node, ProcessEnds(n)
  PROVE  ListsPassed
<1>1. \A k \in Node : held'[k] = held[k] \/ held'[k] = Absent
  BY DEF ProcessEnds, IInv, TypeOK
<1>2. \A k \in Node : conn'[k] = conn[k] \/ conn'[k] = Absent
  BY DEF ProcessEnds, IInv, TypeOK
<1>3. \A k, q \in Node : scan'[k][q] # Absent => scan'[k][q] = scan[k][q]
  BY DEF ProcessEnds, NoPending, IInv, TypeOK
<1> QED BY <1>1, <1>2, <1>3 DEF ProcessEnds, ListsPassed

\* Steps that pass nothing on.
LEMMA OthersPass ==
  ASSUME IInv,
         \/ Tick
         \/ \E n \in Node : Start(n) \/ JoinBreak(n) \/ LeaveApply(n)
         \/ \E n, p \in Node : ScanStep(n, p)
         \/ \E m \in net : Lose(m)
         \/ UNCHANGED vars
  PROVE  ListsPassed
<1>1. net' \subseteq net /\ held' = held
  BY DEF Tick, Start, JoinBreak, LeaveApply, ScanStep, Lose, vars
<1>2. \A k \in Node : conn'[k] = conn[k] \/ conn'[k] = Absent
  BY DEF Tick, Start, JoinBreak, LeaveApply, ScanStep, Lose, vars, IInv, TypeOK
<1>3. \A k, q \in Node : scan'[k][q] = scan[k][q] \/ scan'[k][q] = Absent
  <2>1. scan' = scan \/ \E n, p \in Node : scan' = [scan EXCEPT ![n][p] = Absent]
    BY DEF Tick, Start, JoinBreak, LeaveApply, ScanStep, Lose, vars
  <2> QED BY <2>1 DEF IInv, TypeOK
<1> QED BY <1>1, <1>2, <1>3 DEF ListsPassed

LEMMA StepPasses ==
  ASSUME IInv, [Next]_vars
  PROVE  ListsPassed
<1>1. CASE Tick \/ (\E m \in net : Lose(m)) \/ UNCHANGED vars
  BY <1>1, OthersPass
<1>2. ASSUME NEW n \in Node, ProcessStep(n)
      PROVE  ListsPassed
  <2>1. CASE Start(n) \/ JoinBreak(n) \/ LeaveApply(n) \/ \E p \in Node : ScanStep(n, p)
    BY <2>1, OthersPass
  <2>2. CASE Crash(n) \/ ExitAfterLeave(n)
    BY <2>2, ProcessEndsPasses DEF Crash, ExitAfterLeave
  <2>3. CASE \/ JoinRequest(n) \/ SendPeriod(n) \/ Receive(n) \/ Reply(n) \/ ScanBegin(n)
             \/ AdminQuery(n) \/ LeaveBegin(n)
    BY <2>3, SnapshotPasses
  <2>4. CASE JoinRespond(n)
    BY <2>4, JoinRespondPasses
  <2>5. CASE JoinMerge(n) \/ JoinFinish(n) \/ Merge(n)
    BY <2>5, MergePasses
  <2> QED BY <1>2, <2>1, <2>2, <2>3, <2>4, <2>5 DEF ProcessStep
<1> QED BY <1>1, <1>2 DEF Next

-----------------------------------------------------------------------------
(* The invariant is inductive.                                             *)

LEMMA OwnInit == Init => OInv
BY DEF Init, OInv, OwnRows, UnderTables, UnderScans, Under, UnderAt, FirstBoots, FirstBoot, Up,
       EmptyTable, NoPending

\* A step that starts no process.
LEMMA NothingStarted ==
  ASSUME IInv, IInv', OInv, FirstBootsShrink, TablesKept, ListsPassed
  PROVE  OInv'
<1>1. \A n \in Node : boot'[n] >= boot[n]
  BY DEF FirstBootsShrink, IInv, TypeOK
<1> QED BY <1>1, Passed

\* Steps that take a Snapshot and pass it on.
LEMMA SnapshotOwn ==
  ASSUME IInv, IInv', OInv, NEW n \in Node,
         \/ JoinRequest(n) \/ SendPeriod(n) \/ Receive(n) \/ Reply(n) \/ ScanBegin(n)
         \/ AdminQuery(n) \/ LeaveBegin(n)
  PROVE  OInv'
<1>1. TakeSnapshot(n)
  BY DEF JoinRequest, SendPeriod, Receive, ReadDatagram, Reply, ScanBegin, AdminQuery, LeaveBegin
<1>2. FirstBootsShrink /\ UNCHANGED clock
  BY DEF JoinRequest, SendPeriod, Receive, ReadDatagram, Reply, ScanBegin, AdminQuery, LeaveBegin,
         FirstBootsShrink, Up
<1>3. ListsPassed
  BY SnapshotPasses
<1>4. TablesKept
  BY <1>1, <1>2, SnapshotKeepsTables
<1> QED BY <1>2, <1>3, <1>4, NothingStarted

\* handleJoin's answer.
LEMMA JoinRespondOwn ==
  ASSUME IInv, IInv', OInv, NEW n \in Node, JoinRespond(n)
  PROVE  OInv'
<1>1. Introducer \in Node /\ TakeSnapshot(Introducer)
  BY ClusterAssumption DEF JoinRespond
<1>2. FirstBootsShrink /\ UNCHANGED clock
  BY DEF JoinRespond, FirstBootsShrink, Up
<1>3. ListsPassed
  BY JoinRespondPasses
<1>4. TablesKept
  BY <1>1, <1>2, SnapshotKeepsTables
<1> QED BY <1>2, <1>3, <1>4, NothingStarted

\* Steps that merge a list.
LEMMA MergeOwn ==
  ASSUME IInv, IInv', OInv, NEW n \in Node, JoinMerge(n) \/ JoinFinish(n) \/ Merge(n)
  PROVE  OInv'
<1>1. FirstBootsShrink /\ UNCHANGED clock
  BY DEF JoinMerge, JoinFinish, Merge, FirstBootsShrink, Up, IInv, TypeOK
<1>2. ListsPassed
  BY MergePasses
<1>3. TablesKept
  <2>1. CASE JoinMerge(n)
    <3>1. conn[n].list \in Table /\ Sound(conn[n].list) /\ Under(conn[n].list)
      BY <2>1 DEF IInv, TypeOK, JoinMerge, Connection, SoundTables, OInv, UnderTables
    <3>2. Introducer \in Node /\ MergeAt(Introducer, conn[n].list)
      BY <2>1, ClusterAssumption DEF JoinMerge
    <3> QED BY <1>1, <3>1, <3>2, MergeKeepsTables
  <2>2. CASE JoinFinish(n)
    <3>1. conn[n].list \in Table /\ Sound(conn[n].list) /\ Under(conn[n].list)
      BY <2>2 DEF IInv, TypeOK, JoinFinish, Connection, SoundTables, OInv, UnderTables
    <3> QED BY <1>1, <2>2, <3>1, MergeKeepsTables DEF JoinFinish
  <2>3. CASE Merge(n)
    <3>1. held[n] \in Message /\ held[n] # Absent
      BY <2>3, MessageAssumption DEF IInv, Control, Merge
    <3>2. held[n].list \in Table /\ Sound(held[n].list) /\ Under(held[n].list)
      BY <3>1 DEF IInv, SoundTables, Message, OInv, UnderTables
    <3> QED BY <1>1, <2>3, <3>2, MergeKeepsTables DEF Merge
  <2> QED BY <2>1, <2>2, <2>3
<1> QED BY <1>1, <1>2, <1>3, NothingStarted

\* A scan that was overtaken writes back an incarnation it has seen, and leaves the
\* heartbeat of the row alone.
LEMMA ScanStepOwn ==
  ASSUME IInv, IInv', OInv, NEW n \in Node, NEW p \in Node, ScanStep(n, p)
  PROVE  OInv'
<1> DEFINE e == table[n][p]
           d == scan[n][p]
           t == [table[n] EXCEPT ![p] = CarriedOut(e, d, Now(n))]
<1>1. table[n] \in Table /\ d \in Pending /\ d # Absent /\ p # n
  BY DEF IInv, TypeOK, Control, ScanStep
<1>2. FirstBootsShrink /\ UNCHANGED clock /\ table' = [table EXCEPT ![n] = t]
  BY DEF ScanStep, FirstBootsShrink, Up
<1>3. \A q \in Node : t[q] = IF q = p THEN CarriedOut(e, d, Now(n)) ELSE table[n][q]
  BY <1>1 DEF Table
<1> HIDE DEF t
<1>4. FirstBoots' \subseteq FirstBoots /\ FirstBoots \subseteq Node
  BY <1>2, NoNewFirstBoots DEF FirstBoots
<1>5. ASSUME n \in FirstBoots'
      PROVE  Below(table[n][n], t[n]) /\ t[n].state = "Alive" /\ t[n].lu <= Now(n)
  <2>1. n \in FirstBoots /\ t[n] = table[n][n] /\ table[n][n] \in Entry
    BY <1>1, <1>3, <1>4, <1>5, OwnRow
  <2> QED BY <2>1 DEF OInv, OwnRows, Below, Entry
<1>6. ASSUME NEW q \in FirstBoots' \ {n}, t[q] # Absent
      PROVE  Below(t[q], table[q][q])
  <2>1. q \in FirstBoots /\ (table[n][q] # Absent => Below(table[n][q], table[q][q]))
    BY <1>4 DEF OInv, UnderTables, Under, UnderAt
  <2>2. CASE q = p
    <3>1. d.inc <= table[q][q].inc
      BY <1>1, <2>1, <2>2 DEF OInv, UnderScans
    <3>2. t[q] = Applied(e, d.inc, d.verdict, Now(n)) /\ d.verdict \in {"Failed", "Suspect"}
      BY <1>1, <1>3, <1>4, <1>6, <2>2 DEF CarriedOut, Pending
    <3>3. e # Absent /\ t[q].inc = d.inc /\ t[q].lu = e.lu
      BY <1>6, <3>2 DEF Applied
    <3> QED BY <2>1, <2>2, <3>1, <3>3 DEF Below
  <2>3. CASE q # p
    <3>1. t[q] = table[n][q]
      BY <1>3, <1>4, <2>3
    <3> QED BY <1>6, <2>1, <3>1
  <2> QED BY <2>2, <2>3
<1>7. TablesKept
  BY <1>2, <1>5, <1>6, TableReplaced
<1>8. ListsPassed
  BY OthersPass
<1> QED BY <1>2, <1>7, <1>8, NothingStarted

\* Who leaves is not spoken of any more.
LEMMA LeaveApplyOwn ==
  ASSUME IInv, IInv', OInv, NEW n \in Node, LeaveApply(n)
  PROVE  OInv'
<1> DEFINE r == Applied(table[n][n], leave[n] + 1, "Left", Now(n))
           t == [table[n] EXCEPT ![n] = r]
<1>1. FirstBootsShrink /\ UNCHANGED clock /\ table' = [table EXCEPT ![n] = t]
  BY DEF LeaveApply, FirstBootsShrink, Up
<1>2. n \notin FirstBoots'
  BY DEF LeaveApply, FirstBoots, FirstBoot
<1>3. \A q \in Node \ {n} : t[q] = table[n][q]
  BY DEF IInv, TypeOK, Table
<1> HIDE DEF t
<1>4. ASSUME NEW q \in FirstBoots' \ {n}, t[q] # Absent
      PROVE  Below(t[q], table[q][q])
  <2>1. q \in FirstBoots /\ q \in Node
    BY <1>1, NoNewFirstBoots DEF FirstBoots
  <2> QED BY <1>3, <1>4, <2>1 DEF OInv, UnderTables, Under, UnderAt
<1>5. TablesKept
  BY <1>1, <1>2, <1>4, TableReplaced
<1>6. ListsPassed
  BY OthersPass
<1> QED BY <1>1, <1>5, <1>6, NothingStarted

\* What a process that ends takes with it.
LEMMA ProcessEndsOwn ==
  ASSUME IInv, IInv', OInv, NEW n \in Node, ProcessEnds(n)
  PROVE  OInv'
<1>1. FirstBootsShrink /\ UNCHANGED clock /\ table' = [table EXCEPT ![n] = EmptyTable]
  BY DEF ProcessEnds, FirstBootsShrink, Up, IInv, TypeOK
<1>2. n \notin FirstBoots'
  BY DEF ProcessEnds, FirstBoots, FirstBoot, Up, IInv, TypeOK
<1>3. \A q \in FirstBoots' \ {n} : EmptyTable[q] = Absent
  BY DEF EmptyTable, FirstBoots
<1>4. TablesKept
  BY <1>1, <1>2, <1>3, TableReplaced
<1>5. ListsPassed
  BY ProcessEndsPasses
<1> QED BY <1>1, <1>4, <1>5, NothingStarted

\* What is lost, and a step of nobody.
LEMMA QuietOwn ==
  ASSUME IInv, IInv', OInv,
         (\E n \in Node : JoinBreak(n)) \/ (\E m \in net : Lose(m)) \/ UNCHANGED vars
  PROVE  OInv'
<1>1. FirstBootsShrink /\ UNCHANGED <<clock, table>>
  BY DEF JoinBreak, Lose, vars, FirstBootsShrink, Up
<1>2. ListsPassed
  BY OthersPass
<1>3. TablesKept
  BY <1>1, TablesUntouched
<1> QED BY <1>1, <1>2, <1>3, NothingStarted

LEMMA TickOwn ==
  ASSUME IInv, IInv', OInv, Tick
  PROVE  OInv'
<1>1. FirstBootsShrink /\ table' = table /\ ListsPassed
  BY DEF Tick, FirstBootsShrink, ListsPassed, Up
<1>2. FirstBoots' \subseteq FirstBoots
  BY <1>1, NoNewFirstBoots
<1>3. ASSUME NEW n \in FirstBoots'
      PROVE  /\ Below(table[n][n], table'[n][n])
             /\ table'[n][n].state = "Alive" /\ table'[n][n].lu <= Now(n)'
  <2>1. /\ table[n][n] \in Entry /\ Now(n) \in Nat /\ Now(n)' = Now(n) + 1
        /\ table[n][n].state = "Alive" /\ table[n][n].lu <= Now(n)
    <3>1. n \in FirstBoots /\ n \in Node /\ table[n][n] \in Entry
      BY <1>2, OwnRow
    <3>2. Now(n) \in Nat /\ clock \in Nat /\ Skew[n] \in Nat
      BY <3>1, NowIsNat, ClusterAssumption DEF IInv, TypeOK
    <3>3. Now(n)' = Now(n) + 1
      BY <3>2 DEF Tick, Now
    <3> QED BY <3>1, <3>2, <3>3 DEF OInv, OwnRows
  <2>2. table[n][n].lu <= Now(n) + 1
    BY <2>1 DEF Entry
  <2> QED BY <1>1, <2>1, <2>2 DEF Below, Entry
<1>4. \A k \in Node : UnderAt(table'[k], table', FirstBoots')
  BY <1>1, <1>2 DEF OInv, UnderTables, Under, UnderAt
<1>5. TablesKept
  BY <1>2, <1>3, <1>4 DEF TablesKept, OwnRows
<1> QED BY <1>1, <1>5, NothingStarted

\* Before its first process nobody has heard of an endpoint.
LEMMA StartOwn ==
  ASSUME IInv, IInv', OInv, NEW n \in Node, Start(n)
  PROVE  OInv'
<1> DEFINE t == NewTable(n, boot[n] + 1, Now(n))
<1>1. /\ boot[n] \in Nat /\ boot'[n] = boot[n] + 1 /\ Now(n) \in Nat
      /\ \A k \in Node \ {n} : boot'[k] = boot[k]
      /\ table' = [table EXCEPT ![n] = t]
  BY NowIsNat DEF IInv, TypeOK, Start
<1>2. /\ \A q \in Node : q # n => t[q] = Absent
      /\ t[n].inc = InitialIncarnation /\ t[n].state = "Alive" /\ t[n].lu = Now(n)
  BY DEF NewTable, EmptyTable
<1> HIDE DEF t
<1>3. \A k \in Node : table'[k] = IF k = n THEN t ELSE table[k]
  BY <1>1 DEF IInv, TypeOK
<1>4. FirstBoots' \ {n} \subseteq FirstBoots
  BY <1>1 DEF Start, FirstBoots, FirstBoot, Up, IInv, TypeOK
<1>5. ASSUME n \in FirstBoots'
      PROVE  boot[n] = 0
  BY <1>1, <1>5 DEF FirstBoots, FirstBoot
<1>6. ASSUME NEW L, Sound(L), Under(L)
      PROVE  UnderAt(L, table', FirstBoots')
  <2> SUFFICES ASSUME NEW q \in FirstBoots', L[q] # Absent
               PROVE  Below(L[q], table'[q][q])
    BY DEF UnderAt
  <2>1. q \in Node /\ L[q].boot \in 1 .. boot[q]
    BY <1>6 DEF Sound, SoundAt, FirstBoots
  <2>2. q # n
    BY <1>1, <1>5, <2>1
  <2> QED BY <1>3, <1>4, <1>6, <2>1, <2>2 DEF Under, UnderAt
<1>7. UnderAt(t, table', FirstBoots')
  <2> SUFFICES ASSUME n \in FirstBoots' PROVE Below(t[n], table'[n][n])
    BY <1>2 DEF UnderAt, FirstBoots
  <2> QED BY <1>1, <1>2, <1>3 DEF Below, InitialIncarnation
<1>8. UnderTables'
  <2>1. \A k \in Node : UnderAt(table'[k], table', FirstBoots')
    BY <1>3, <1>6, <1>7 DEF IInv, SoundTables, OInv, UnderTables
  <2>2. \A m \in net' : UnderAt(m.list, table', FirstBoots')
    BY <1>6 DEF Start, IInv, SoundTables, OInv, UnderTables
  <2>3. \A k \in Node : held'[k] # Absent => UnderAt(held'[k].list, table', FirstBoots')
    BY <1>6 DEF Start, IInv, SoundTables, OInv, UnderTables
  <2>4. \A k \in Node : conn'[k] # Absent => conn'[k] = conn[k]
    BY DEF Start, IInv, TypeOK
  <2>5. \A k \in Node : conn'[k] # Absent => UnderAt(conn'[k].list, table', FirstBoots')
    BY <1>6, <2>4 DEF IInv, SoundTables, OInv, UnderTables
  <2> QED BY <2>1, <2>2, <2>3, <2>5 DEF UnderTables, Under
<1>9. OwnRows'
  <2> SUFFICES ASSUME NEW q \in FirstBoots'
               PROVE  table'[q][q].state = "Alive" /\ table'[q][q].lu <= Now(q)'
    BY DEF OwnRows
  <2>1. q \in Node /\ Now(q)' = Now(q)
    BY DEF FirstBoots, Start, Now
  <2>2. CASE q = n
    BY <1>1, <1>2, <1>3, <2>1, <2>2
  <2>3. CASE q # n
    BY <1>3, <1>4, <2>1, <2>3 DEF OInv, OwnRows
  <2> QED BY <2>2, <2>3
<1>10. UnderScans'
  <2> SUFFICES ASSUME NEW k \in Node, NEW q \in Node, scan'[k][q] # Absent
               PROVE  /\ boot'[q] >= 1
                      /\ q \in FirstBoots' => scan'[k][q].inc <= table'[q][q].inc
    BY DEF UnderScans
  <2>1. /\ scan'[k][q] = scan[k][q] /\ boot[q] >= 1
        /\ q \in FirstBoots => scan[k][q].inc <= table[q][q].inc
    BY DEF Start, OInv, UnderScans
  <2>2. CASE q = n
    BY <1>1, <1>5, <2>1, <2>2
  <2>3. CASE q # n
    BY <1>1, <1>3, <1>4, <2>1, <2>3
  <2> QED BY <2>2, <2>3
<1> QED BY <1>8, <1>9, <1>10 DEF OInv

LEMMA OwnStep == IInv /\ OInv /\ [Next]_vars => OInv'
<1> SUFFICES ASSUME IInv, OInv, [Next]_vars PROVE OInv'
  OBVIOUS
<1>1. IInv'
  BY StepInvariant
<1>2. CASE Tick
  BY <1>1, <1>2, TickOwn
<1>3. ASSUME NEW n \in Node, ProcessStep(n)
      PROVE  OInv'
  <2>1. CASE Start(n)
    BY <1>1, <2>1, StartOwn
  <2>2. CASE Crash(n) \/ ExitAfterLeave(n)
    BY <1>1, <2>2, ProcessEndsOwn DEF Crash, ExitAfterLeave
  <2>3. CASE \/ JoinRequest(n) \/ SendPeriod(n) \/ Receive(n) \/ Reply(n) \/ ScanBegin(n)
             \/ AdminQuery(n) \/ LeaveBegin(n)
    BY <1>1, <2>3, SnapshotOwn
  <2>4. CASE JoinRespond(n)
    BY <1>1, <2>4, JoinRespondOwn
  <2>5. CASE JoinMerge(n) \/ JoinFinish(n) \/ Merge(n)
    BY <1>1, <2>5, MergeOwn
  <2>6. CASE JoinBreak(n)
    BY <1>1, <2>6, QuietOwn
  <2>7. CASE \E p \in Node : ScanStep(n, p)
    BY <1>1, <2>7, ScanStepOwn
  <2>8. CASE LeaveApply(n)
    BY <1>1, <2>8, LeaveApplyOwn
  <2> QED BY <1>3, <2>1, <2>2, <2>3, <2>4, <2>5, <2>6, <2>7, <2>8 DEF ProcessStep
<1>4. CASE (\E m \in net : Lose(m)) \/ UNCHANGED vars
  BY <1>1, <1>4, QuietOwn
<1> QED BY <1>2, <1>3, <1>4 DEF Next

LEMMA OwnInvariance == Spec => [](IInv /\ OInv)
<1>1. Init => IInv /\ OInv
  BY InitInvariant, OwnInit
<1>2. IInv /\ OInv /\ [Next]_vars => (IInv /\ OInv)'
  BY StepInvariant, OwnStep
<1> QED BY <1>1, <1>2, PTL DEF Spec

-----------------------------------------------------------------------------
(* A process that has left stays Left.  Its own row is no longer an Alive  *)
(* one that is refuted into a higher incarnation: what saves it is that    *)
(* with suspicion disabled only a fresher heartbeat replaces a row, and    *)
(* that the process itself has the freshest one, before and after /leave.  *)

\* The processes that are there since their endpoint first appeared, left or not.
InFirstBoot == {n \in Node : Up(n) /\ boot[n] = 1}

\* Nobody has a fresher heartbeat of them.
NoFresher(L) == \A n \in InFirstBoot : L[n] # Absent => L[n].lu <= table[n][n].lu

HInv ==
  /\ \A n \in InFirstBoot : table[n][n].lu <= Now(n)
  /\ \A L \in Lists : NoFresher(L)

\* What a step may do to the own row of such a process: stamp it with the own clock, and
\* make it Left.
OwnRowKept(n) ==
  /\ table'[n][n].lu \in {table[n][n].lu, Now(n)}
  /\ table'[n][n].state \in {table[n][n].state, "Left"}

\* A row of p in T has its heartbeat from some list there was.
PassedOn(T, p) == T[p] # Absent => \E L \in Lists : L[p] # Absent /\ L[p].lu = T[p].lu

\* What a step may do to the tables of the cluster.
HeartbeatsPassed ==
  /\ \A n \in InFirstBoot \cap InFirstBoot' : OwnRowKept(n)
  /\ \A n \in InFirstBoot' \ InFirstBoot : boot[n] = 0 /\ table'[n][n].lu = Now(n)
  /\ \A k \in Node : \A p \in InFirstBoot' \ {k} : PassedOn(table'[k], p)

\* Lists are tables, and sound.
LEMMA ListType ==
  ASSUME IInv, NEW L \in Lists
  PROVE  L \in Table /\ Sound(L)
<1>1. CASE \E n \in Node : L = table[n]
  BY <1>1 DEF IInv, TypeOK, SoundTables
<1>2. CASE \E m \in net : L = m.list
  BY <1>2 DEF IInv, TypeOK, SoundTables, Message
<1>3. CASE \E n \in Node : held[n] # Absent /\ L = held[n].list
  BY <1>3 DEF IInv, TypeOK, SoundTables, Message
<1>4. CASE \E n \in Node : conn[n] # Absent /\ L = conn[n].list
  BY <1>4 DEF IInv, TypeOK, SoundTables, Connection
<1> QED BY <1>1, <1>2, <1>3, <1>4 DEF Lists

\* The lists after a step were there before, are empty, or are tables.
LEMMA ListOrigin ==
  ASSUME IInv, ListsPassed, NEW L \in Lists'
  PROVE  L \in Lists \/ L = EmptyTable \/ \E k \in Node : L = table'[k]
<1>1. CASE \E n \in Node : L = table'[n]
  BY <1>1
<1>2. CASE \E m \in net' : L = m.list
  BY <1>2 DEF ListsPassed, Lists
<1>3. CASE \E n \in Node : held'[n] # Absent /\ L = held'[n].list
  BY <1>3 DEF ListsPassed, Lists
<1>4. CASE \E n \in Node : conn'[n] # Absent /\ L = conn'[n].list
  BY <1>4 DEF ListsPassed, Lists
<1> QED BY <1>1, <1>2, <1>3, <1>4 DEF Lists

\* The invariant of a step from what the step does.
LEMMA HeartbeatsStay ==
  ASSUME IInv, IInv', HInv, ListsPassed, HeartbeatsPassed, clock' >= clock
  PROVE  HInv'
<1>1. ASSUME NEW n \in InFirstBoot'
      PROVE  /\ n \in Node /\ table'[n][n].lu \in Nat /\ Now(n) \in Nat
             /\ Now(n)' \in Nat /\ Now(n) <= Now(n)'
  <2>1. n \in Node /\ Up(n)'
    BY DEF InFirstBoot
  <2>2. table'[n][n] \in Entry
    BY <2>1 DEF IInv, TypeOK, SelfEntryIntact, Table, Row
  <2>3. clock \in Nat /\ clock' \in Nat /\ Skew[n] \in Nat
    BY <2>1, ClusterAssumption DEF IInv, TypeOK
  <2> QED BY <2>1, <2>2, <2>3 DEF Entry, Now
<1>2. ASSUME NEW n \in InFirstBoot \cap InFirstBoot'
      PROVE  /\ table[n][n].lu \in Nat /\ table[n][n].lu <= Now(n)
             /\ table[n][n].lu <= table'[n][n].lu /\ table'[n][n].lu <= Now(n)
  <2>1. n \in Node /\ Up(n)
    BY DEF InFirstBoot
  <2>2. table[n][n] \in Entry
    BY <2>1 DEF IInv, TypeOK, SelfEntryIntact, Table, Row
  <2>3. table[n][n].lu \in Nat /\ table[n][n].lu <= Now(n)
    BY <2>2 DEF Entry, HInv
  <2>4. table'[n][n].lu \in {table[n][n].lu, Now(n)}
    BY DEF HeartbeatsPassed, OwnRowKept
  <2> QED BY <1>1, <2>3, <2>4
<1>3. ASSUME NEW n \in InFirstBoot'
      PROVE  table'[n][n].lu <= Now(n)'
  <2>1. table'[n][n].lu <= Now(n)
    BY <1>1, <1>2 DEF HeartbeatsPassed
  <2> QED BY <1>1, <2>1
<1>4. ASSUME NEW L \in Lists, NEW p \in InFirstBoot', L[p] # Absent
      PROVE  L[p].lu <= table'[p][p].lu
  <2>1. p \in Node /\ L \in Table /\ Sound(L)
    BY <1>1, ListType
  <2>2. L[p].boot \in 1 .. boot[p] /\ L[p] \in Entry
    BY <1>4, <2>1 DEF Sound, SoundAt, Table, Row
  <2>3. p \in InFirstBoot
    BY <2>2 DEF HeartbeatsPassed
  <2>4. L[p].lu \in Nat /\ L[p].lu <= table[p][p].lu
    BY <1>4, <2>2, <2>3 DEF HInv, NoFresher, Entry
  <2> QED BY <1>1, <1>2, <2>3, <2>4
<1>5. ASSUME NEW k \in Node, NEW p \in InFirstBoot', table'[k][p] # Absent
      PROVE  table'[k][p].lu <= table'[p][p].lu
  <2>1. CASE k = p
    BY <1>1, <2>1
  <2>2. CASE k # p
    <3>1. PICK L \in Lists : L[p] # Absent /\ L[p].lu = table'[k][p].lu
      BY <1>5, <2>2 DEF HeartbeatsPassed, PassedOn
    <3> QED BY <1>4, <3>1
  <2> QED BY <2>1, <2>2
<1>6. ASSUME NEW L \in Lists', NEW p \in InFirstBoot', L[p] # Absent
      PROVE  L[p].lu <= table'[p][p].lu
  <2>1. CASE L \in Lists
    BY <1>4, <1>6, <2>1
  <2>2. CASE L = EmptyTable
    BY <1>1, <1>6, <2>2 DEF EmptyTable
  <2>3. CASE \E k \in Node : L = table'[k]
    BY <1>5, <1>6, <2>3
  <2> QED BY <2>1, <2>2, <2>3, ListOrigin
<1> QED BY <1>3, <1>6 DEF HInv, NoFresher

\* A step that starts no process and replaces one table.
LEMMA RowsPassed ==
  ASSUME IInv, UNCHANGED boot, \A k \in Node : Up(k)' => Up(k),
         NEW n \in Node, NEW t, table' = [table EXCEPT ![n] = t],
         n \in InFirstBoot' => /\ t[n].lu \in {table[n][n].lu, Now(n)}
                               /\ t[n].state \in {table[n][n].state, "Left"},
         \A p \in InFirstBoot' \ {n} : PassedOn(t, p)
  PROVE  HeartbeatsPassed
<1>1. InFirstBoot' \subseteq InFirstBoot /\ InFirstBoot \subseteq Node
  BY DEF InFirstBoot
<1>2. \A k \in Node : table'[k] = IF k = n THEN t ELSE table[k]
  BY DEF IInv, TypeOK
<1>3. \A p \in InFirstBoot' : OwnRowKept(p)
  BY <1>1, <1>2 DEF OwnRowKept
<1>4. ASSUME NEW k \in Node, NEW p \in InFirstBoot' \ {k}
      PROVE  PassedOn(table'[k], p)
  <2>1. CASE k = n
    BY <1>2, <2>1
  <2>2. CASE k # n
    <3>1. table'[k] = table[k] /\ table[k] \in Lists
      BY <1>2, <2>2 DEF Lists
    <3> QED BY <3>1 DEF PassedOn
  <2> QED BY <2>1, <2>2
<1> QED BY <1>1, <1>3, <1>4 DEF HeartbeatsPassed

\* A Snapshot.
LEMMA SnapshotStays ==
  ASSUME IInv, UNCHANGED boot, \A k \in Node : Up(k)' => Up(k), NEW n \in Node, TakeSnapshot(n)
  PROVE  HeartbeatsPassed
<1>1. table[n] \in Table /\ table[n] \in Lists
  BY DEF IInv, TypeOK, Lists
<1>2. ASSUME n \in InFirstBoot'
      PROVE  /\ SnapshotOf(n)[n].lu \in {table[n][n].lu, Now(n)}
             /\ SnapshotOf(n)[n].state = table[n][n].state
  <2> DEFINE e == table[n][n]
             now == Now(n)
  <2>1. n \in Node /\ e \in Entry
    BY <1>2 DEF InFirstBoot, IInv, TypeOK, SelfEntryIntact, Table, Row
  <2>2. SnapshotOf(n)[n] = [e EXCEPT !.lu = now] \/ SnapshotOf(n)[n] = e
    BY <2>1 DEF SnapshotOf, Refreshed
  <2> HIDE DEF e, now
  <2>3. [e EXCEPT !.lu = now].lu = now /\ [e EXCEPT !.lu = now].state = e.state
    BY <2>1 DEF Entry
  <2>4. SnapshotOf(n)[n].lu \in {e.lu, now} /\ SnapshotOf(n)[n].state = e.state
    BY <2>2, <2>3
  <2> QED BY <2>4 DEF e, now
<1>3. ASSUME NEW p \in InFirstBoot' \ {n}
      PROVE  PassedOn(SnapshotOf(n), p)
  <2>1. SnapshotOf(n)[p] = table[n][p]
    BY DEF SnapshotOf, Refreshed, IsSelf, InFirstBoot
  <2> QED BY <1>1, <2>1 DEF PassedOn
<1>4. table' = [table EXCEPT ![n] = SnapshotOf(n)]
  BY DEF TakeSnapshot
<1> QED BY <1>2, <1>3, <1>4, RowsPassed

\* With suspicion disabled a merge keeps the row it finds, or replaces it by a fresher one.
LEMMA UpdateByHeartbeat ==
  ASSUME TSuspect = 0, NEW e \in Entry, NEW m \in Entry, m.boot = e.boot,
         NEW own \in BOOLEAN, NEW b, NEW now
  PROVE  updateMemberEntry(e, m, own, b, now) = IF m.lu > e.lu THEN m ELSE e
<1>1. e # Absent /\ m # Absent /\ ~(m.boot > e.boot) /\ ~(m.boot < e.boot)
  BY AbsentAssumption DEF Entry
<1>2. SameBoot(e, m, own, b, now) = IF m.lu > e.lu THEN m ELSE e
  BY DEF SameBoot, Accuses, Fresher, SuspicionEnabled
<1> QED BY <1>1, <1>2, Zenon DEF updateMemberEntry

LEMMA MergeStays ==
  ASSUME TSuspect = 0, IInv, HInv, UNCHANGED boot, \A k \in Node : Up(k)' => Up(k),
         NEW n \in Node, NEW list \in Lists, MergeAt(n, list)
  PROVE  HeartbeatsPassed
<1> DEFINE t == MergeFullList(table[n], list, n, boot[n], Now(n))
<1>1. table[n] \in Lists /\ InFirstBoot' \subseteq InFirstBoot /\ InFirstBoot \subseteq Node
  BY DEF Lists, InFirstBoot
<1>2. \A p \in Node :
        t[p] = updateMemberEntry(table[n][p], list[p], p = n, boot[n], Now(n))
  BY DEF MergeFullList
<1>3. table' = [table EXCEPT ![n] = t]
  BY DEF MergeAt
<1> HIDE DEF t
<1>4. ASSUME NEW L \in Lists, NEW p \in InFirstBoot, L[p] # Absent
      PROVE  L[p] \in Entry /\ L[p].boot = 1
  <2>1. L \in Table /\ L[p].boot \in 1 .. boot[p] /\ boot[p] = 1
    BY <1>1, <1>4, ListType DEF Sound, SoundAt, InFirstBoot
  <2> QED BY <1>1, <1>4, <2>1 DEF Table, Row
<1>5. ASSUME NEW p \in InFirstBoot
      PROVE  t[p] = IF \/ list[p] = Absent
                       \/ table[n][p] # Absent /\ ~(list[p].lu > table[n][p].lu)
                    THEN table[n][p]
                    ELSE list[p]
  <2> DEFINE e == table[n][p]
             m == list[p]
             own == p = n
             b == boot[n]
             now == Now(n)
  <2>1. t[p] = updateMemberEntry(e, m, own, b, now) /\ own \in BOOLEAN
    BY <1>1, <1>2
  <2>2. /\ e # Absent => e \in Entry /\ e.boot = 1
        /\ m # Absent => m \in Entry /\ m.boot = 1
    BY <1>1, <1>4
  <2> HIDE DEF e, m, own, b, now
  <2>3. CASE m = Absent
    BY <2>1, <2>3 DEF updateMemberEntry, e, m
  <2>4. CASE m # Absent /\ e = Absent
    BY <2>1, <2>4 DEF updateMemberEntry, e, m
  <2>5. CASE m # Absent /\ e # Absent
    <3>1. t[p] = IF m.lu > e.lu THEN m ELSE e
      BY <2>1, <2>2, <2>5, UpdateByHeartbeat
    <3> QED BY <2>5, <3>1 DEF e, m
  <2> QED BY <2>3, <2>4, <2>5
<1>6. ASSUME n \in InFirstBoot
      PROVE  t[n] = table[n][n]
  <2>1. table[n][n] # Absent /\ table[n][n] \in Entry
    BY <1>6 DEF InFirstBoot, IInv, TypeOK, SelfEntryIntact, Table, Row
  <2>2. list[n] # Absent => list[n] \in Entry /\ list[n].lu <= table[n][n].lu
    BY <1>4, <1>6 DEF HInv, NoFresher
  <2>3. list[n] # Absent => ~(list[n].lu > table[n][n].lu)
    BY <2>1, <2>2 DEF Entry
  <2> QED BY <1>5, <1>6, <2>1, <2>3
<1>7. ASSUME NEW p \in InFirstBoot' \ {n}
      PROVE  PassedOn(t, p)
  BY <1>1, <1>5 DEF PassedOn
<1> QED BY <1>1, <1>3, <1>6, <1>7, RowsPassed

\* A decision carried out leaves the heartbeat of the row alone.
LEMMA ScanStepStays ==
  ASSUME IInv, NEW n \in Node, NEW p \in Node, ScanStep(n, p)
  PROVE  HeartbeatsPassed
<1> DEFINE e == table[n][p]
           d == scan[n][p]
           t == [table[n] EXCEPT ![p] = CarriedOut(e, d, Now(n))]
<1>1. table[n] \in Table /\ table[n] \in Lists /\ d \in Pending /\ p # n
  BY DEF IInv, TypeOK, Control, ScanStep, Lists
<1>2. table' = [table EXCEPT ![n] = t] /\ UNCHANGED boot /\ \A k \in Node : Up(k)' => Up(k)
  BY DEF ScanStep, Up
<1>3. \A q \in Node : t[q] = IF q = p THEN CarriedOut(e, d, Now(n)) ELSE table[n][q]
  BY <1>1 DEF Table
<1>4. CarriedOut(e, d, Now(n)) # Absent => e # Absent /\ CarriedOut(e, d, Now(n)).lu = e.lu
  BY <1>1 DEF CarriedOut, Applied, Pending
<1> HIDE DEF t
<1>5. \A q \in InFirstBoot' \ {n} : PassedOn(t, q)
  BY <1>1, <1>3, <1>4 DEF PassedOn, InFirstBoot
<1> QED BY <1>1, <1>2, <1>3, <1>5, RowsPassed

\* /leave is a heartbeat.
LEMMA LeaveApplyStays ==
  ASSUME IInv, NEW n \in Node, LeaveApply(n)
  PROVE  HeartbeatsPassed
<1> DEFINE r == Applied(table[n][n], leave[n] + 1, "Left", Now(n))
           t == [table[n] EXCEPT ![n] = r]
<1>1. table' = [table EXCEPT ![n] = t] /\ UNCHANGED boot /\ \A k \in Node : Up(k)' => Up(k)
  BY DEF LeaveApply, Up
<1>2. table[n] \in Lists /\ \A q \in Node : t[q] = IF q = n THEN r ELSE table[n][q]
  BY DEF IInv, TypeOK, Table, Lists
<1>3. ASSUME n \in InFirstBoot'
      PROVE  r.lu = Now(n) /\ r.state = "Left"
  <2>1. table[n][n] # Absent
    BY <1>1, <1>3 DEF InFirstBoot, IInv, SelfEntryIntact
  <2> QED BY <2>1 DEF Applied
<1> HIDE DEF t, r
<1>4. \A q \in InFirstBoot' \ {n} : PassedOn(t, q)
  BY <1>2 DEF PassedOn, InFirstBoot
<1> QED BY <1>1, <1>2, <1>3, <1>4, RowsPassed

LEMMA ProcessEndsStays ==
  ASSUME IInv, NEW n \in Node, ProcessEnds(n)
  PROVE  HeartbeatsPassed
<1>1. /\ table' = [table EXCEPT ![n] = EmptyTable] /\ UNCHANGED boot
      /\ \A k \in Node : Up(k)' => Up(k)
  BY DEF ProcessEnds, Up, IInv, TypeOK
<1>2. n \notin InFirstBoot'
  BY DEF ProcessEnds, InFirstBoot, Up, IInv, TypeOK
<1>3. \A q \in InFirstBoot' \ {n} : PassedOn(EmptyTable, q)
  BY DEF PassedOn, EmptyTable, InFirstBoot
<1> QED BY <1>1, <1>2, <1>3, RowsPassed

\* The first process of an endpoint stamps its row.
LEMMA StartStays ==
  ASSUME IInv, NEW n \in Node, Start(n)
  PROVE  HeartbeatsPassed
<1> DEFINE t == NewTable(n, boot[n] + 1, Now(n))
<1>1. \A k \in Node : table'[k] = IF k = n THEN t ELSE table[k]
  BY DEF Start, IInv, TypeOK
<1>2. t[n].lu = Now(n) /\ \A q \in Node \ {n} : t[q] = Absent
  BY DEF NewTable, EmptyTable
<1> HIDE DEF t
<1>3. boot[n] \in Nat /\ \A k \in Node : boot'[k] = IF k = n THEN boot[n] + 1 ELSE boot[k]
  BY DEF Start, IInv, TypeOK
<1>4. \A k \in Node \ {n} : Up(k)' => Up(k)
  BY DEF Start, Up, IInv, TypeOK
<1>5. n \notin InFirstBoot
  BY DEF InFirstBoot, Up, Start
<1>6. InFirstBoot' \ {n} \subseteq InFirstBoot /\ (n \in InFirstBoot' => boot[n] = 0)
  BY <1>3, <1>4 DEF InFirstBoot
<1>7. \A p \in InFirstBoot \cap InFirstBoot' : OwnRowKept(p)
  BY <1>1, <1>5 DEF OwnRowKept, InFirstBoot
<1>8. ASSUME NEW k \in Node, NEW p \in InFirstBoot' \ {k}
      PROVE  PassedOn(table'[k], p)
  <2>1. table[k] \in Lists /\ p \in Node
    BY DEF Lists, InFirstBoot
  <2> QED BY <1>1, <1>2, <2>1 DEF PassedOn
<1> QED BY <1>1, <1>2, <1>5, <1>6, <1>7, <1>8 DEF HeartbeatsPassed

\* Steps that write no table.
LEMMA QuietStays ==
  ASSUME IInv,
         \/ Tick
         \/ \E n \in Node : JoinBreak(n)
         \/ \E m \in net : Lose(m)
         \/ UNCHANGED vars
  PROVE  HeartbeatsPassed
<1>1. table' = table /\ InFirstBoot' = InFirstBoot
  BY DEF Tick, JoinBreak, Lose, vars, InFirstBoot, Up
<1>2. \A n \in InFirstBoot : OwnRowKept(n)
  BY <1>1 DEF OwnRowKept
<1>3. \A k \in Node, p \in InFirstBoot : PassedOn(table'[k], p)
  BY <1>1 DEF PassedOn, Lists
<1> QED BY <1>1, <1>2, <1>3 DEF HeartbeatsPassed

LEMMA StepStays ==
  ASSUME TSuspect = 0, IInv, HInv, [Next]_vars
  PROVE  HeartbeatsPassed
<1>1. CASE Tick \/ (\E m \in net : Lose(m)) \/ UNCHANGED vars
  BY <1>1, QuietStays
<1>2. ASSUME NEW n \in Node, ProcessStep(n)
      PROVE  HeartbeatsPassed
  <2>1. CASE Start(n)
    BY <2>1, StartStays
  <2>2. CASE Crash(n) \/ ExitAfterLeave(n)
    BY <2>2, ProcessEndsStays DEF Crash, ExitAfterLeave
  <2>3. CASE \/ JoinRequest(n) \/ SendPeriod(n) \/ Receive(n) \/ Reply(n) \/ ScanBegin(n)
             \/ AdminQuery(n) \/ LeaveBegin(n)
    <3>1. TakeSnapshot(n) /\ UNCHANGED boot /\ \A k \in Node : Up(k)' => Up(k)
      BY <2>3 DEF JoinRequest, SendPeriod, Receive, ReadDatagram, Reply, ScanBegin, AdminQuery,
                  LeaveBegin, Up
    <3> QED BY <3>1, SnapshotStays
  <2>4. CASE JoinRespond(n)
    <3>1. /\ Introducer \in Node /\ TakeSnapshot(Introducer) /\ UNCHANGED boot
          /\ \A k \in Node : Up(k)' => Up(k)
      BY <2>4, ClusterAssumption DEF JoinRespond, Up
    <3> QED BY <3>1, SnapshotStays
  <2>5. CASE JoinMerge(n)
    <3>1. Introducer \in Node /\ conn[n].list \in Lists /\ MergeAt(Introducer, conn[n].list)
      BY <2>5, ClusterAssumption DEF JoinMerge, Lists
    <3>2. UNCHANGED boot /\ \A k \in Node : Up(k)' => Up(k)
      BY <2>5 DEF JoinMerge, Up
    <3> QED BY <3>1, <3>2, MergeStays
  <2>6. CASE JoinFinish(n)
    <3>1. conn[n].list \in Lists /\ MergeAt(n, conn[n].list)
      BY <2>6 DEF JoinFinish, Lists
    <3>2. UNCHANGED boot /\ \A k \in Node : Up(k)' => Up(k)
      BY <2>6 DEF JoinFinish, Up, IInv, TypeOK
    <3> QED BY <3>1, <3>2, MergeStays
  <2>7. CASE Merge(n)
    <3>1. held[n] # Absent
      BY <2>7, MessageAssumption DEF IInv, Control, Merge
    <3>2. held[n].list \in Lists /\ MergeAt(n, held[n].list)
      BY <2>7, <3>1 DEF Merge, Lists
    <3>3. UNCHANGED boot /\ \A k \in Node : Up(k)' => Up(k)
      BY <2>7 DEF Merge, Up
    <3> QED BY <3>2, <3>3, MergeStays
  <2>8. CASE JoinBreak(n)
    BY <2>8, QuietStays
  <2>9. CASE \E p \in Node : ScanStep(n, p)
    BY <2>9, ScanStepStays
  <2>10. CASE LeaveApply(n)
    BY <2>10, LeaveApplyStays
  <2> QED BY <1>2, <2>1, <2>2, <2>3, <2>4, <2>5, <2>6, <2>7, <2>8, <2>9, <2>10 DEF ProcessStep
<1> QED BY <1>1, <1>2 DEF Next

LEMMA HeartbeatInvariance ==
  ASSUME TSuspect = 0
  PROVE  Spec => [](IInv /\ HInv)
<1>1. Init => IInv /\ HInv
  <2>1. Init => HInv
    BY DEF Init, HInv, NoFresher, InFirstBoot, Up
  <2> QED BY <2>1, InitInvariant
<1>2. IInv /\ HInv /\ [Next]_vars => (IInv /\ HInv)'
  <2> SUFFICES ASSUME IInv, HInv, [Next]_vars PROVE IInv' /\ HInv'
    OBVIOUS
  <2>1. IInv' /\ ListsPassed /\ HeartbeatsPassed
    BY StepInvariant, StepPasses, StepStays
  <2>2. Tick \/ clock' = clock
    BY DEF Next, ProcessStep, Start, Crash, ProcessEnds, ExitAfterLeave, JoinRequest,
           JoinMerge, JoinRespond, JoinFinish, JoinBreak, SendPeriod, Receive, ReadDatagram,
           Merge, Reply, ScanBegin, ScanStep, AdminQuery, LeaveBegin, LeaveApply, Lose, vars
  <2>3. clock' >= clock
    BY <2>2 DEF Tick, IInv, TypeOK
  <2> QED BY <2>1, <2>3, HeartbeatsStay
<1> QED BY <1>1, <1>2, PTL DEF Spec

\* A live process is not started again.
LEMMA BootKept ==
  ASSUME IInv, [Next]_vars, NEW n \in Node, Up(n)
  PROVE  boot'[n] = boot[n]
<1>1. CASE UNCHANGED boot
  BY <1>1
<1>2. CASE \E k \in Node : Start(k)
  BY <1>2 DEF Start, Up, IInv, TypeOK
<1>3. (UNCHANGED boot) \/ \E k \in Node : Start(k)
  BY DEF Next, ProcessStep, Tick, Crash, ProcessEnds, ExitAfterLeave, JoinRequest,
         JoinMerge, JoinRespond, JoinFinish, JoinBreak, SendPeriod, Receive, ReadDatagram,
         Merge, Reply, ScanBegin, ScanStep, AdminQuery, LeaveBegin, LeaveApply, Lose, vars
<1> QED BY <1>1, <1>2, <1>3

-----------------------------------------------------------------------------
(* The dead send no heartbeats: a row of a boot 1 that is over is only     *)
(* handed from list to list.                                               *)

Silent == {p \in Node : FirstBootOver(p)}

\* A row of p's first boot in T has a heartbeat that some list had of that boot.
HandedOn(T, p) ==
  T[p] # Absent /\ T[p].boot = 1 =>
    \E L \in Lists : L[p] # Absent /\ L[p].boot = 1 /\ L[p].lu = T[p].lu

AllHandedOn == \A k \in Node : \A p \in Silent : HandedOn(table'[k], p)

LEMMA KeptHandedOn ==
  ASSUME NEW L \in Lists, NEW p
  PROVE  HandedOn(L, p)
BY DEF HandedOn

\* One table is replaced.
LEMMA OneHandedOn ==
  ASSUME IInv, NEW n \in Node, NEW t, table' = [table EXCEPT ![n] = t],
         \A p \in Silent : HandedOn(t, p)
  PROVE  AllHandedOn
<1>1. \A k \in Node : table'[k] = t \/ (table'[k] = table[k] /\ table[k] \in Lists)
  BY DEF IInv, TypeOK, Lists
<1> QED BY <1>1, KeptHandedOn DEF AllHandedOn

\* Only the row of a live process under its boot is stamped by a Snapshot.
LEMMA SnapshotHandsOn ==
  ASSUME IInv, NEW n \in Node, Up(n), TakeSnapshot(n)
  PROVE  AllHandedOn
<1>1. table[n] \in Lists /\ table' = [table EXCEPT ![n] = SnapshotOf(n)]
  BY DEF Lists, TakeSnapshot
<1>2. ASSUME NEW p \in Silent
      PROVE  HandedOn(SnapshotOf(n), p)
  <2>1. p \in Node /\ (p = n => boot[n] # 1)
    BY DEF Silent, FirstBootOver
  <2>2. CASE p = n
    <3>1. table[n][n] # Absent /\ table[n][n].boot = boot[n] /\ table[n] \in Table
      BY DEF IInv, TypeOK, SelfEntryIntact
    <3>2. SnapshotOf(n)[n].boot = boot[n]
      BY <3>1, SnapshotKept DEF Kept
    <3> QED BY <2>1, <2>2, <3>2 DEF HandedOn
  <2>3. CASE p # n
    <3>1. SnapshotOf(n)[p] = table[n][p]
      BY <2>1, <2>3 DEF SnapshotOf, Refreshed, IsSelf
    <3> QED BY <1>1, <3>1 DEF HandedOn
  <2> QED BY <2>2, <2>3
<1> QED BY <1>1, <1>2, OneHandedOn

\* A merge of another's row takes one of the two, or stamps one of a boot after the first.
LEMMA UpdateHandsOn ==
  ASSUME NEW e \in Row, NEW m \in Row, NEW b \in Nat, NEW now \in Nat,
         e # Absent => e.boot \in Nat \ {0}, m # Absent => m.boot \in Nat \ {0}
  PROVE  \/ updateMemberEntry(e, m, FALSE, b, now) = e
         \/ updateMemberEntry(e, m, FALSE, b, now) = m
         \/ updateMemberEntry(e, m, FALSE, b, now).boot # 1
<1> DEFINE r == updateMemberEntry(e, m, FALSE, b, now)
<1>1. CASE m = Absent \/ e = Absent
  BY <1>1 DEF updateMemberEntry
<1>2. CASE m # Absent /\ e # Absent
  <2>1. CASE m.boot > e.boot
    <3>1. r = normalizeBoot(m, now) /\ m \in Entry
      BY <1>2, <2>1 DEF updateMemberEntry, Row
    <3>2. normalizeBoot(m, now).boot = m.boot
      BY <3>1 DEF normalizeBoot, Entry
    <3>3. m.boot # 1
      BY <1>2, <2>1
    <3> QED BY <3>1, <3>2, <3>3
  <2>2. CASE m.boot < e.boot
    BY <1>2, <2>2 DEF updateMemberEntry, Row, Entry
  <2>3. CASE m.boot = e.boot
    <3>1. ~(m.boot > e.boot) /\ ~(m.boot < e.boot)
      BY <1>2, <2>3
    <3>2. r = SameBoot(e, m, FALSE, b, now)
      BY <1>2, <3>1, Zenon DEF updateMemberEntry
    <3> QED BY <3>2 DEF SameBoot, Accuses
  <2>4. m.boot > e.boot \/ m.boot < e.boot \/ m.boot = e.boot
    BY <1>2
  <2> QED BY <2>1, <2>2, <2>3, <2>4
<1> QED BY <1>1, <1>2

LEMMA MergeHandsOn ==
  ASSUME IInv, NEW n \in Node, Up(n), NEW list \in Lists, MergeAt(n, list)
  PROVE  AllHandedOn
<1> DEFINE t == MergeFullList(table[n], list, n, boot[n], Now(n))
<1>1. /\ table[n] \in Lists /\ table' = [table EXCEPT ![n] = t]
      /\ table[n] \in Table /\ Sound(table[n]) /\ list \in Table /\ Sound(list)
  BY ListType DEF Lists, MergeAt
<1>2. \A p \in Node :
        t[p] = updateMemberEntry(table[n][p], list[p], p = n, boot[n], Now(n))
  BY DEF MergeFullList
<1>3. Kept(n, t)
  BY <1>1, MergeKept
<1> HIDE DEF t
<1>4. ASSUME NEW p \in Silent
      PROVE  HandedOn(t, p)
  <2>1. p \in Node /\ (p = n => boot[n] # 1)
    BY DEF Silent, FirstBootOver
  <2>2. CASE p = n
    BY <1>3, <2>1, <2>2 DEF Kept, HandedOn
  <2>3. CASE p # n
    <3> DEFINE e == table[n][p]
               m == list[p]
               b == boot[n]
               now == Now(n)
    <3>1. e \in Row /\ m \in Row /\ b \in Nat /\ now \in Nat /\ boot[p] \in Nat
      BY <1>1, <2>1, NowIsNat DEF Table, IInv, TypeOK
    <3>2. /\ e # Absent => e.boot \in Nat \ {0}
          /\ m # Absent => m.boot \in Nat \ {0}
      <4>1. /\ e # Absent => e.boot \in 1 .. boot[p]
            /\ m # Absent => m.boot \in 1 .. boot[p]
        BY <1>1, <2>1 DEF Sound, SoundAt
      <4> QED BY <3>1, <4>1
    <3>3. t[p] = updateMemberEntry(e, m, FALSE, b, now)
      <4>1. (p = n) = FALSE
        BY <2>3
      <4> QED BY <1>2, <2>1, <4>1
    <3> HIDE DEF e, m, b, now
    <3>4. t[p] = e \/ t[p] = m \/ t[p].boot # 1
      BY <3>1, <3>2, <3>3, UpdateHandsOn
    <3> QED BY <1>1, <3>4 DEF HandedOn, e, m
  <2> QED BY <2>2, <2>3
<1> QED BY <1>1, <1>4, OneHandedOn

\* A decision carried out keeps boot and heartbeat of the row, or removes it.
LEMMA ScanStepHandsOn ==
  ASSUME IInv, NEW n \in Node, NEW p \in Node, ScanStep(n, p)
  PROVE  AllHandedOn
<1> DEFINE e == table[n][p]
           d == scan[n][p]
           r == CarriedOut(e, d, Now(n))
           t == [table[n] EXCEPT ![p] = r]
<1>1. table[n] \in Table /\ table[n] \in Lists /\ d \in Pending
  BY DEF IInv, TypeOK, ScanStep, Lists
<1>2. table' = [table EXCEPT ![n] = t]
  BY DEF ScanStep
<1>3. \A q \in Node : t[q] = IF q = p THEN r ELSE table[n][q]
  BY <1>1 DEF Table
<1>4. r # Absent => e # Absent /\ r.lu = e.lu /\ r.boot = e.boot
  BY <1>1 DEF CarriedOut, Applied, Pending
<1> HIDE DEF t, r
<1>5. \A q \in Silent : HandedOn(t, q)
  BY <1>1, <1>3, <1>4 DEF HandedOn, Silent
<1> QED BY <1>2, <1>5, OneHandedOn

\* /leave stamps the row of a live process.
LEMMA LeaveApplyHandsOn ==
  ASSUME IInv, NEW n \in Node, LeaveApply(n)
  PROVE  AllHandedOn
<1> DEFINE r == Applied(table[n][n], leave[n] + 1, "Left", Now(n))
           t == [table[n] EXCEPT ![n] = r]
<1>1. /\ table' = [table EXCEPT ![n] = t] /\ table[n] \in Lists
      /\ \A q \in Node : t[q] = IF q = n THEN r ELSE table[n][q]
  BY DEF LeaveApply, IInv, TypeOK, Table, Lists
<1>2. Up(n) /\ table[n][n].boot = boot[n]
  BY DEF LeaveApply, IInv, Control, SelfEntryIntact
<1>3. r # Absent => r.boot = boot[n]
  BY <1>2 DEF Applied
<1> HIDE DEF t, r
<1>4. \A q \in Silent : HandedOn(t, q)
  BY <1>1, <1>2, <1>3 DEF HandedOn, Silent, FirstBootOver
<1> QED BY <1>1, <1>4, OneHandedOn

\* A process that starts has a later boot, if its first one is over.
LEMMA StartHandsOn ==
  ASSUME IInv, NEW n \in Node, Start(n)
  PROVE  AllHandedOn
<1> DEFINE t == NewTable(n, boot[n] + 1, Now(n))
<1>1. table' = [table EXCEPT ![n] = t] /\ boot[n] \in Nat
  BY DEF Start, IInv, TypeOK
<1>2. t[n].boot = boot[n] + 1 /\ \A q \in Node \ {n} : t[q] = Absent
  BY DEF NewTable, EmptyTable
<1> HIDE DEF t
<1>3. \A q \in Silent : HandedOn(t, q)
  BY <1>1, <1>2 DEF HandedOn, Silent, FirstBootOver
<1> QED BY <1>1, <1>3, OneHandedOn

LEMMA ProcessEndsHandsOn ==
  ASSUME IInv, NEW n \in Node, ProcessEnds(n)
  PROVE  AllHandedOn
<1>1. \A q \in Silent : HandedOn(EmptyTable, q)
  BY DEF HandedOn, EmptyTable, Silent
<1> QED BY <1>1, OneHandedOn DEF ProcessEnds

LEMMA StepHandsOn ==
  ASSUME IInv, BusyIsUp, [Next]_vars
  PROVE  AllHandedOn
<1>1. CASE table' = table
  <2>1. \A k \in Node : table'[k] = table[k] /\ table[k] \in Lists
    BY <1>1 DEF Lists
  <2> QED BY <2>1, KeptHandedOn DEF AllHandedOn
<1>2. ASSUME NEW n \in Node, ProcessStep(n), table' # table
      PROVE  AllHandedOn
  <2>1. CASE Start(n)
    BY <2>1, StartHandsOn
  <2>2. CASE Crash(n) \/ ExitAfterLeave(n)
    BY <2>2, ProcessEndsHandsOn DEF Crash, ExitAfterLeave
  <2>3. CASE \/ JoinRequest(n) \/ SendPeriod(n) \/ Receive(n) \/ Reply(n) \/ ScanBegin(n)
             \/ AdminQuery(n) \/ LeaveBegin(n)
    <3>1. TakeSnapshot(n) /\ Up(n)
      BY <2>3 DEF JoinRequest, SendPeriod, Receive, ReadDatagram, Reply, ScanBegin, AdminQuery,
                  LeaveBegin, Up, BusyIsUp
    <3> QED BY <3>1, SnapshotHandsOn
  <2>4. CASE JoinRespond(n)
    <3>1. Introducer \in Node /\ Up(Introducer) /\ TakeSnapshot(Introducer)
      BY <2>4, ClusterAssumption DEF JoinRespond, Up
    <3> QED BY <3>1, SnapshotHandsOn
  <2>5. CASE JoinMerge(n)
    <3>1. /\ Introducer \in Node /\ Up(Introducer) /\ conn[n].list \in Lists
          /\ MergeAt(Introducer, conn[n].list)
      BY <2>5, ClusterAssumption DEF JoinMerge, Lists, Up
    <3> QED BY <3>1, MergeHandsOn
  <2>6. CASE JoinFinish(n)
    <3>1. conn[n].list \in Lists /\ Up(n) /\ MergeAt(n, conn[n].list)
      BY <2>6 DEF JoinFinish, Lists, Up
    <3> QED BY <3>1, MergeHandsOn
  <2>7. CASE Merge(n)
    <3>1. held[n] # Absent /\ Up(n)
      BY <2>7, MessageAssumption DEF IInv, Control, Merge, BusyIsUp
    <3>2. held[n].list \in Lists /\ MergeAt(n, held[n].list)
      BY <2>7, <3>1 DEF Merge, Lists
    <3> QED BY <3>1, <3>2, MergeHandsOn
  <2>8. CASE JoinBreak(n)
    BY <1>2, <2>8 DEF JoinBreak
  <2>9. CASE \E p \in Node : ScanStep(n, p)
    BY <2>9, ScanStepHandsOn
  <2>10. CASE LeaveApply(n)
    BY <2>10, LeaveApplyHandsOn
  <2> QED BY <1>2, <2>1, <2>2, <2>3, <2>4, <2>5, <2>6, <2>7, <2>8, <2>9, <2>10 DEF ProcessStep
<1>3. CASE Tick \/ (\E m \in net : Lose(m)) \/ UNCHANGED vars
  BY <1>1, <1>3 DEF Tick, Lose, vars
<1> QED BY <1>1, <1>2, <1>3 DEF Next

-----------------------------------------------------------------------------
(* Theorems.                                                               *)

\* A process that has been there from the start never holds itself for Suspect or
\* Failed, whatever the others' scans say of it and however far their clocks are off.
THEOREM OwnRowNeverAccused == Spec => []SelfNotAccused
<1>1. OInv => SelfNotAccused
  BY DEF OInv, OwnRows, SelfNotAccused, FirstBoots
<1> QED BY <1>1, OwnInvariance, PTL

\* What some list says of a process in its first boot is below its own row.
LEMMA ListsBelow ==
  ASSUME OInv, NEW L \in Lists, NEW n \in Node, FirstBoot(n), L[n] # Absent
  PROVE  Below(L[n], table[n][n])
<1>1. Under(L) /\ n \in FirstBoots
  BY DEF Lists, OInv, UnderTables, FirstBoots
<1> QED BY <1>1 DEF Under, UnderAt

\* No table, datagram or connection has a higher incarnation of such a process than
\* the process itself, although overtaken scans keep writing older ones back.
THEOREM OwnIncarnationHighest == Spec => []OwnIncarnationIsHighest
<1>1. OInv => OwnIncarnationIsHighest
  BY ListsBelow DEF OwnIncarnationIsHighest, Below
<1> QED BY <1>1, OwnInvariance, PTL

\* Nor a fresher heartbeat: the LastUpdate of its row was written by its own clock,
\* wherever the row has been since.
THEOREM OwnHeartbeatFreshest == Spec => []OwnHeartbeatIsFreshest
<1>1. OInv => OwnHeartbeatIsFreshest
  BY ListsBelow DEF OwnHeartbeatIsFreshest, Below
<1> QED BY <1>1, OwnInvariance, PTL

\* With suspicion disabled a process that has left in its first boot stays Left until it
\* exits: whatever list its receive loop or its join was about to merge when /leave came is
\* not fresher than its own row, and a repeated /leave writes Left again.
THEOREM DepartureIsFinal ==
  ASSUME TSuspect = 0
  PROVE  Spec => OwnLeftIsFinal
<1>1. ASSUME IInv, HInv, [Next]_vars, NEW n \in Node,
             Up(n), boot[n] = 1, SelfLeft(table[n], n, 1), Up(n)'
      PROVE  SelfLeft(table'[n], n, boot'[n])
  <2>1. boot'[n] = 1
    BY <1>1, BootKept
  <2>2. table'[n][n] # Absent /\ table'[n][n].boot = boot'[n]
    BY <1>1, StepInvariant DEF IInv, SelfEntryIntact
  <2>3. n \in InFirstBoot \cap InFirstBoot'
    BY <1>1, <2>1 DEF InFirstBoot
  <2>4. OwnRowKept(n)
    BY <1>1, <2>3, StepStays DEF HeartbeatsPassed
  <2> QED BY <1>1, <2>2, <2>4 DEF OwnRowKept, SelfLeft
<1>2. IInv /\ HInv /\ [Next]_vars => [\A n \in Node :
        Up(n) /\ boot[n] = 1 /\ SelfLeft(table[n], n, 1) /\ Up(n)'
          => SelfLeft(table'[n], n, boot'[n])]_vars
  BY <1>1
<1> QED BY <1>2, HeartbeatInvariance, PTL DEF Spec, OwnLeftIsFinal

\* The dead send no heartbeats: no step of any cluster, also with suspicion and with the
\* endpoint restarted, brings up a LastUpdate of a first boot that is over.
THEOREM TheDeadFallSilent == Spec => NoHeartbeatAfterEnd
<1>1. ASSUME IInv, BusyIsUp, [Next]_vars, NEW p \in Silent, NEW L \in Lists'
      PROVE  HandedOn(L, p)
  <2>1. CASE L \in Lists
    BY <2>1, KeptHandedOn
  <2>2. CASE L = EmptyTable
    BY <2>2 DEF HandedOn, EmptyTable, Silent
  <2>3. CASE \E k \in Node : L = table'[k]
    BY <1>1, <2>3, StepHandsOn DEF AllHandedOn
  <2> QED BY <1>1, <2>1, <2>2, <2>3, StepPasses, ListOrigin
<1>2. IInv /\ BusyIsUp /\ [Next]_vars => [\A p \in Node : FirstBootOver(p) =>
        \A L \in Lists' : L[p] # Absent /\ L[p].boot = 1 =>
          \E K \in Lists : K[p] # Absent /\ K[p].boot = 1 /\ K[p].lu = L[p].lu]_vars
  BY <1>1 DEF HandedOn, Silent
<1>3. Init => IInv /\ BusyIsUp
  BY InitInvariant, BusyInit
<1>4. IInv /\ BusyIsUp /\ [Next]_vars => (IInv /\ BusyIsUp)'
  BY StepInvariant, BusyStep DEF IInv
<1> QED BY <1>2, <1>3, <1>4, PTL DEF Spec, NoHeartbeatAfterEnd

=============================================================================
