------------------------ MODULE GroupMembershipProofs ------------------------
(***************************************************************************)
(* Theorems about GroupMembership, for every cluster, mode, threshold,     *)
(* clock skew and bound: its tables are well typed, a process keeps its    *)
(* own row, nobody is said to have left who was not asked to, the boot of  *)
(* a row never goes back, and the boots in the tables are a MembershipView. *)
(***************************************************************************)
EXTENDS GroupMembership, TLAPS

-----------------------------------------------------------------------------
(* The operators of MembershipStore.                                       *)

\* The refutation and the adoption of a newer boot write rows.
LEMMA EntriesWritten ==
  ASSUME NEW e \in Entry, NEW now \in Nat
  PROVE  /\ selfBumpIncarnation(e, now) \in Entry
         /\ normalizeBoot(e, now) \in Entry
BY DEF selfBumpIncarnation, normalizeBoot, Entry, State

\* A merge keeps the type of the row.
LEMMA UpdateType ==
  ASSUME NEW e \in Row, NEW m \in Row, NEW own \in BOOLEAN, NEW b \in Nat, NEW now \in Nat
  PROVE  updateMemberEntry(e, m, own, b, now) \in Row
BY EntriesWritten DEF updateMemberEntry, SameBoot, Row

\* A merge never removes a row, never lowers its boot, and keeps the boot unless
\* the incoming one is newer.
LEMMA UpdateBoot ==
  ASSUME NEW e \in Row, NEW m \in Row, NEW own \in BOOLEAN, NEW b \in Nat, NEW now \in Nat,
         e # Absent
  PROVE  LET r == updateMemberEntry(e, m, own, b, now)
         IN  /\ r # Absent
             /\ r.boot >= e.boot
             /\ (m # Absent => m.boot <= e.boot) => r.boot = e.boot
BY AbsentAssumption
   DEF updateMemberEntry, SameBoot, selfBumpIncarnation, normalizeBoot, Row, Entry, State

\* What a merge leaves behind has its boot from one of the two rows it met, and
\* says Left only if that row did.
LEMMA UpdateOrigin ==
  ASSUME NEW e \in Row, NEW m \in Row, NEW own \in BOOLEAN, NEW b \in Nat, NEW now \in Nat,
         updateMemberEntry(e, m, own, b, now) # Absent
  PROVE  LET r == updateMemberEntry(e, m, own, b, now)
         IN  \E s \in {e, m} :
               s # Absent /\ r.boot = s.boot /\ (r.state = "Left" => s.state = "Left")
BY AbsentAssumption
   DEF updateMemberEntry, SameBoot, selfBumpIncarnation, normalizeBoot, Row, Entry, State

\* The self-heartbeat of Snapshot changes nothing but LastUpdate.
LEMMA RefreshedRows ==
  ASSUME NEW tbl \in Table, NEW n \in Node, NEW b \in Nat, NEW now \in Nat
  PROVE  /\ Refreshed(tbl, n, b, now) \in Table
         /\ \A p \in Node :
              LET r == Refreshed(tbl, n, b, now)[p]
              IN  /\ r = Absent <=> tbl[p] = Absent
                  /\ r # Absent => /\ r.boot = tbl[p].boot
                                   /\ r.state = tbl[p].state
                                   /\ r.inc = tbl[p].inc
BY AbsentAssumption DEF Refreshed, IsSelf, Table, Row, Entry, State

\* An apply keeps the boot of the row it finds.
LEMMA AppliedRow ==
  ASSUME NEW e \in Row, NEW inc \in Nat, NEW st \in State, NEW now \in Nat
  PROVE  LET r == Applied(e, inc, st, now)
         IN  /\ r \in Row
             /\ r = Absent <=> e = Absent
             /\ r # Absent => r.boot = e.boot /\ r.state = st
BY AbsentAssumption DEF Applied, Row, Entry, State

-----------------------------------------------------------------------------
(* The inductive invariant.  A process keeps its own row only if nobody    *)
(* knows a later boot of it (SoundTables) and its scans spare it, and says *)
(* Left only of itself while it is up (Control).                           *)

\* Rows are about boots that have happened, and Left about boots that left.
SoundAt(L, b, left) ==
  \A p \in Node :
    L[p] # Absent =>
      /\ L[p].boot \in 1 .. b[p]
      /\ L[p].state = "Left" => <<p, L[p].boot>> \in left

Sound(L) == SoundAt(L, boot, leftBoots)

SoundTables ==
  /\ \A n \in Node : Sound(table[n])
  /\ \A m \in net : Sound(m.list)
  /\ \A n \in Node : held[n] # Absent => Sound(held[n].list)
  /\ \A n \in Node : conn[n] # Absent => Sound(conn[n].list)

\* A goroutine that handles something has it, and belongs to a live process; a
\* scan has nothing pending about its own process.
Control ==
  \A n \in Node :
    /\ recv[n] \in {"merging", "replying"} => held[n] \in Message
    /\ leave[n] # Absent => leave[n] \in Nat /\ Up(n)
    /\ scan[n][n] = Absent

IInv == TypeOK /\ Control /\ SoundTables /\ SelfEntryIntact

\* What a step may put in place of the table of n.
Kept(n, t) ==
  /\ t \in Table
  /\ Sound(t)
  /\ Up(n) => t[n] # Absent /\ t[n].boot = boot[n]

-----------------------------------------------------------------------------
(* How the parts of the invariant survive the writes to a table.           *)

\* What the actions write to table, clock and boot stays in the naturals.
LEMMA NowIsNat ==
  ASSUME TypeOK, NEW n \in Node
  PROVE  Now(n) \in Nat
BY ClusterAssumption DEF TypeOK, Now

\* Soundness is kept when endpoints boot and leave.
LEMMA SoundGrows ==
  ASSUME NEW L \in Table, NEW b \in [Node -> Nat], NEW c \in [Node -> Nat],
         NEW left, NEW more,
         \A p \in Node : b[p] <= c[p], left \subseteq more, SoundAt(L, b, left)
  PROVE  SoundAt(L, c, more)
<1> SUFFICES ASSUME NEW p \in Node, L[p] # Absent
             PROVE  L[p].boot \in 1 .. c[p] /\ (L[p].state = "Left" => <<p, L[p].boot>> \in more)
  BY DEF SoundAt
<1>1. L[p].boot \in 1 .. b[p] /\ (L[p].state = "Left" => <<p, L[p].boot>> \in left)
  BY DEF SoundAt
<1>2. b[p] \in Nat /\ c[p] \in Nat /\ b[p] <= c[p]
  OBVIOUS
<1> QED BY <1>1, <1>2

\* A Snapshot is a sound table that keeps the own row.
LEMMA SnapshotKept ==
  ASSUME IInv, NEW n \in Node
  PROVE  Kept(n, SnapshotOf(n))
<1>1. table[n] \in Table /\ boot[n] \in Nat /\ Now(n) \in Nat
  BY NowIsNat DEF IInv, TypeOK
<1>2. SnapshotOf(n) \in Table
  BY <1>1, RefreshedRows DEF SnapshotOf
<1>3. \A p \in Node :
        LET r == SnapshotOf(n)[p]
        IN  /\ r = Absent <=> table[n][p] = Absent
            /\ r # Absent => r.boot = table[n][p].boot /\ r.state = table[n][p].state
  <2> DEFINE now == Now(n)
             b == boot[n]
             tbl == table[n]
  <2>1. tbl \in Table /\ b \in Nat /\ now \in Nat
    BY <1>1
  <2>2. SnapshotOf(n) = Refreshed(tbl, n, b, now)
    BY DEF SnapshotOf
  <2> HIDE DEF now, b, tbl
  <2>3. \A p \in Node :
          LET r == Refreshed(tbl, n, b, now)[p]
          IN  /\ r = Absent <=> tbl[p] = Absent
              /\ r # Absent => r.boot = tbl[p].boot /\ r.state = tbl[p].state
    BY <2>1, RefreshedRows
  <2> QED BY <2>2, <2>3 DEF tbl
<1>4. SoundAt(table[n], boot, leftBoots)
  BY DEF IInv, SoundTables, Sound
<1>5. Sound(SnapshotOf(n))
  BY <1>3, <1>4 DEF Sound, SoundAt
<1>6. Up(n) => SnapshotOf(n)[n] # Absent /\ SnapshotOf(n)[n].boot = boot[n]
  BY <1>3 DEF IInv, SelfEntryIntact
<1> QED BY <1>2, <1>5, <1>6 DEF Kept

\* A merge of a sound list is a sound table that keeps the own row, and every
\* row keeps or raises its boot.
LEMMA MergeKept ==
  ASSUME IInv, NEW n \in Node, NEW list \in Table, Sound(list)
  PROVE  LET t == MergeFullList(table[n], list, n, boot[n], Now(n))
         IN  /\ Kept(n, t)
             /\ \A p \in Node :
                  table[n][p] # Absent => t[p] # Absent /\ t[p].boot >= table[n][p].boot
<1> DEFINE t == MergeFullList(table[n], list, n, boot[n], Now(n))
<1>1. table[n] \in Table /\ boot[n] \in Nat /\ Now(n) \in Nat
  BY NowIsNat DEF IInv, TypeOK
<1>2. ASSUME NEW p \in Node
      PROVE  /\ table[n][p] \in Row /\ list[p] \in Row /\ (p = n) \in BOOLEAN
             /\ t[p] = updateMemberEntry(table[n][p], list[p], p = n, boot[n], Now(n))
  BY <1>1 DEF Table, MergeFullList
<1>3. t \in Table
  <2>1. ASSUME NEW p \in Node
        PROVE  updateMemberEntry(table[n][p], list[p], p = n, boot[n], Now(n)) \in Row
    BY <1>1, <1>2, UpdateType
  <2> QED BY <2>1 DEF Table, MergeFullList
<1>4. ASSUME NEW p \in Node, table[n][p] # Absent
      PROVE  /\ t[p] # Absent
             /\ t[p].boot >= table[n][p].boot
             /\ (list[p] # Absent => list[p].boot <= table[n][p].boot)
                   => t[p].boot = table[n][p].boot
  <2> DEFINE e == table[n][p]
             m == list[p]
             b == boot[n]
             now == Now(n)
             own == p = n
  <2>1. /\ e \in Row /\ m \in Row /\ own \in BOOLEAN /\ b \in Nat /\ now \in Nat
        /\ e # Absent
        /\ t[p] = updateMemberEntry(e, m, own, b, now)
    BY <1>1, <1>2, <1>4
  <2> HIDE DEF e, m, b, now, own, t
  <2>2. /\ t[p] # Absent
        /\ t[p].boot >= e.boot
        /\ (m # Absent => m.boot <= e.boot) => t[p].boot = e.boot
    BY <2>1, UpdateBoot
  <2> QED BY <2>2 DEF e, m
<1>5. Sound(t)
  <2> SUFFICES ASSUME NEW p \in Node, t[p] # Absent
               PROVE  /\ t[p].boot \in 1 .. boot[p]
                      /\ t[p].state = "Left" => <<p, t[p].boot>> \in leftBoots
    BY DEF Sound, SoundAt
  <2>1. PICK s \in {table[n][p], list[p]} :
           s # Absent /\ t[p].boot = s.boot /\ (t[p].state = "Left" => s.state = "Left")
    <3> DEFINE e == table[n][p]
               m == list[p]
               b == boot[n]
               now == Now(n)
               own == p = n
    <3>1. /\ e \in Row /\ m \in Row /\ own \in BOOLEAN /\ b \in Nat /\ now \in Nat
          /\ updateMemberEntry(e, m, own, b, now) # Absent
          /\ t[p] = updateMemberEntry(e, m, own, b, now)
      BY <1>1, <1>2
    <3> HIDE DEF e, m, b, now, own, t
    <3>2. \E s \in {e, m} :
            s # Absent /\ t[p].boot = s.boot /\ (t[p].state = "Left" => s.state = "Left")
      BY <3>1, UpdateOrigin
    <3> QED BY <3>2 DEF e, m
  <2>2. SoundAt(table[n], boot, leftBoots) /\ SoundAt(list, boot, leftBoots)
    BY DEF IInv, SoundTables, Sound
  <2>3. s.boot \in 1 .. boot[p] /\ (s.state = "Left" => <<p, s.boot>> \in leftBoots)
    BY <2>1, <2>2 DEF SoundAt
  <2> QED BY <2>1, <2>3
<1>6. ASSUME Up(n)
      PROVE  t[n] # Absent /\ t[n].boot = boot[n]
  <2>1. table[n][n] # Absent /\ table[n][n].boot = boot[n]
    BY <1>6 DEF IInv, SelfEntryIntact
  <2>2. list[n] # Absent => list[n].boot <= boot[n]
    <3>1. list[n] # Absent => list[n].boot \in 1 .. boot[n]
      BY DEF Sound, SoundAt
    <3> QED BY <1>1, <3>1
  <2> QED BY <2>1, <2>2, <1>4
<1> QED BY <1>3, <1>4, <1>5, <1>6 DEF Kept

\* A table replaced by one that keeps what matters.
LEMMA TableWritten ==
  ASSUME IInv, NEW n \in Node, NEW t, Kept(n, t),
         table' = [table EXCEPT ![n] = t], UNCHANGED <<boot, leftBoots>>,
         \A k \in Node : Up(k)' => Up(k)
  PROVE  /\ table' \in [Node -> Table]
         /\ \A k \in Node : Sound(table[k])'
         /\ SelfEntryIntact'
<1>1. table \in [Node -> Table]
  BY DEF IInv, TypeOK
<1>2. \A k \in Node : table'[k] = IF k = n THEN t ELSE table[k]
  BY <1>1
<1>3. table' \in [Node -> Table]
  BY <1>1 DEF Kept
<1>4. \A k \in Node : Sound(table[k])'
  BY <1>2 DEF IInv, SoundTables, Sound, Kept
<1>5. SelfEntryIntact'
  BY <1>2 DEF IInv, SelfEntryIntact, Kept
<1> QED BY <1>3, <1>4, <1>5

-----------------------------------------------------------------------------
(* The invariant is inductive.                                             *)

LEMMA InitInvariant == Init => IInv
<1> SUFFICES ASSUME Init PROVE IInv
  OBVIOUS
<1>1. EmptyTable \in Table
  BY DEF EmptyTable, Table, Row
<1>2. TypeOK
  BY <1>1 DEF Init, TypeOK, NoPending
<1>3. Control
  BY DEF Init, Control, NoPending
<1>4. SoundTables
  BY DEF Init, SoundTables, Sound, SoundAt, EmptyTable
<1>5. SelfEntryIntact
  BY DEF Init, SelfEntryIntact, Up
<1> QED BY <1>2, <1>3, <1>4, <1>5 DEF IInv

LEMMA TickInvariant ==
  ASSUME IInv, Tick
  PROVE  IInv'
<1>1. TypeOK'
  BY DEF IInv, TypeOK, Tick
<1>2. Control'
  BY DEF IInv, Control, Tick, Up
<1>3. SoundTables'
  BY DEF IInv, SoundTables, Tick, Sound
<1>4. SelfEntryIntact'
  BY DEF IInv, SelfEntryIntact, Tick, Up
<1> QED BY <1>1, <1>2, <1>3, <1>4 DEF IInv

LEMMA LoseInvariant ==
  ASSUME IInv, NEW m \in net, Lose(m)
  PROVE  IInv'
<1>1. TypeOK'
  BY DEF IInv, TypeOK, Lose
<1>2. Control'
  BY DEF IInv, Control, Lose, Up
<1>3. SoundTables'
  BY DEF IInv, SoundTables, Lose, Sound
<1>4. SelfEntryIntact'
  BY DEF IInv, SelfEntryIntact, Lose, Up
<1> QED BY <1>1, <1>2, <1>3, <1>4 DEF IInv

LEMMA StartInvariant ==
  ASSUME IInv, NEW n \in Node, Start(n)
  PROVE  IInv'
<1> DEFINE t == NewTable(n, boot[n] + 1, Now(n))
<1>1. boot[n] \in Nat /\ Now(n) \in Nat /\ table \in [Node -> Table] /\ boot \in [Node -> Nat]
  BY NowIsNat DEF IInv, TypeOK
<1>2. t \in Table /\ \A p \in Node :
        t[p] = IF p = n THEN [boot |-> boot[n] + 1, inc |-> 100, state |-> "Alive", lu |-> Now(n)]
               ELSE Absent
  BY <1>1 DEF NewTable, EmptyTable, Table, Row, Entry, State, InitialIncarnation
<1>3. /\ table' = [table EXCEPT ![n] = t]
      /\ boot' = [boot EXCEPT ![n] = boot[n] + 1]
      /\ leftBoots' = leftBoots
  BY DEF Start
<1> HIDE DEF t
<1>4. boot' \in [Node -> Nat] /\ table' \in [Node -> Table] /\ \A p \in Node : boot[p] <= boot'[p]
  BY <1>1, <1>2, <1>3
<1>5. TypeOK'
  BY <1>4 DEF IInv, TypeOK, Start
<1>6. Control'
  BY DEF IInv, TypeOK, Control, Start, Up
<1>7. ASSUME NEW L \in Table, Sound(L)
      PROVE  SoundAt(L, boot', leftBoots')
  <2>1. SoundAt(L, boot, leftBoots)
    BY <1>7 DEF Sound
  <2> QED BY <1>1, <1>3, <1>4, <2>1, SoundGrows
<1>8. SoundAt(t, boot', leftBoots')
  <2>1. boot'[n] = boot[n] + 1
    BY <1>1, <1>3
  <2>2. \A p \in Node : t[p] # Absent => p = n /\ t[p].boot = boot[n] + 1 /\ t[p].state = "Alive"
    BY <1>2
  <2> QED BY <1>1, <2>1, <2>2 DEF SoundAt
<1>9. ASSUME NEW k \in Node
      PROVE  SoundAt(table'[k], boot', leftBoots')
  <2>1. table'[k] = IF k = n THEN t ELSE table[k]
    BY <1>1, <1>3
  <2>2. table[k] \in Table /\ Sound(table[k])
    BY <1>1 DEF IInv, SoundTables
  <2> QED BY <2>1, <2>2, <1>7, <1>8
<1>10. SoundTables'
  <2>1. \A m \in net : m \in Message /\ m.list \in Table
    BY DEF IInv, TypeOK, Message
  <2>2. \A m \in net' : SoundAt(m.list, boot', leftBoots')
    BY <2>1, <1>7 DEF IInv, SoundTables, Start
  <2>3. ASSUME NEW k \in Node, held'[k] # Absent
        PROVE  SoundAt(held'[k].list, boot', leftBoots')
    BY <2>3, <1>7 DEF IInv, TypeOK, Message, SoundTables, Start
  <2>4. ASSUME NEW k \in Node, conn'[k] # Absent
        PROVE  SoundAt(conn'[k].list, boot', leftBoots')
    <3>1. conn'[k] = conn[k] /\ conn[k] \in Connection
      BY <2>4 DEF IInv, TypeOK, Start
    <3> QED BY <2>4, <3>1, <1>7 DEF IInv, Connection, SoundTables
  <2> QED BY <1>9, <2>2, <2>3, <2>4 DEF SoundTables, Sound
<1>11. SelfEntryIntact'
  <2>1. boot'[n] = boot[n] + 1 /\ table'[n] = t
    BY <1>1, <1>3
  <2>2. t[n] # Absent /\ t[n].boot = boot[n] + 1
    <3>1. t[n] \in Row /\ t[n] = [boot |-> boot[n] + 1, inc |-> 100, state |-> "Alive", lu |-> Now(n)]
      BY <1>2 DEF Table
    <3>2. t[n] \in Entry
      BY <1>1, <3>1 DEF Entry, State
    <3> QED BY <3>1, <3>2, AbsentAssumption
  <2>3. \A k \in Node \ {n} : boot'[k] = boot[k] /\ table'[k] = table[k] /\ phase'[k] = phase[k]
    BY <1>1, <1>3 DEF IInv, TypeOK, Start
  <2> QED BY <2>1, <2>2, <2>3 DEF IInv, SelfEntryIntact, Up
<1> QED BY <1>5, <1>6, <1>10, <1>11 DEF IInv

LEMMA ProcessEndsInvariant ==
  ASSUME IInv, NEW n \in Node, ProcessEnds(n)
  PROVE  IInv'
<1>1. EmptyTable \in Table /\ \A p \in Node : EmptyTable[p] = Absent
  BY DEF EmptyTable, Table, Row
<1>2. SoundAt(EmptyTable, boot, leftBoots)
  BY <1>1 DEF SoundAt
<1>3. TypeOK'
  BY <1>1 DEF IInv, TypeOK, ProcessEnds, NoPending
<1>4. Control'
  BY DEF IInv, TypeOK, Control, ProcessEnds, NoPending, Up
<1>5. SoundTables'
  <2>1. \A k \in Node : SoundAt(table'[k], boot, leftBoots)
    BY <1>2 DEF IInv, TypeOK, SoundTables, Sound, ProcessEnds
  <2>2. \A k \in Node : held'[k] \in {held[k], Absent}
    BY DEF IInv, TypeOK, ProcessEnds
  <2>3. \A k \in Node : conn'[k] # Absent => conn'[k] = conn[k]
    BY DEF IInv, TypeOK, ProcessEnds
  <2> QED BY <2>1, <2>2, <2>3 DEF IInv, SoundTables, Sound, ProcessEnds
<1>6. SelfEntryIntact'
  BY DEF IInv, TypeOK, SelfEntryIntact, ProcessEnds, Up
<1> QED BY <1>3, <1>4, <1>5, <1>6 DEF IInv

LEMMA JoinRequestInvariant ==
  ASSUME IInv, NEW n \in Node, JoinRequest(n)
  PROVE  IInv'
<1>1. Kept(n, SnapshotOf(n))
  BY SnapshotKept
<1>2. /\ table' \in [Node -> Table]
      /\ \A k \in Node : Sound(table[k])'
      /\ SelfEntryIntact'
  BY <1>1, TableWritten DEF JoinRequest, TakeSnapshot, Up
<1>3. TypeOK'
  BY <1>1, <1>2 DEF IInv, TypeOK, JoinRequest, Connection, Kept
<1>4. Control'
  BY DEF IInv, Control, JoinRequest, Up
<1>5. SoundTables'
  <2>1. \A k \in Node : conn'[k] # Absent => SoundAt(conn'[k].list, boot, leftBoots)
    BY <1>1 DEF IInv, TypeOK, SoundTables, Sound, JoinRequest, Kept
  <2> QED BY <1>2, <2>1 DEF IInv, SoundTables, Sound, JoinRequest
<1> QED BY <1>2, <1>3, <1>4, <1>5 DEF IInv

LEMMA JoinMergeInvariant ==
  ASSUME IInv, NEW n \in Node, JoinMerge(n)
  PROVE  IInv'
<1> DEFINE t == MergeFullList(table[Introducer], conn[n].list, Introducer, boot[Introducer],
                              Now(Introducer))
<1>1. Introducer \in Node /\ conn[n].list \in Table /\ Sound(conn[n].list)
  BY ClusterAssumption DEF IInv, TypeOK, JoinMerge, Connection, SoundTables
<1>2. Kept(Introducer, t)
  BY <1>1, MergeKept
<1>3. table' = [table EXCEPT ![Introducer] = t]
  BY DEF JoinMerge, MergeAt
<1> HIDE DEF t
<1>4. /\ table' \in [Node -> Table]
      /\ \A k \in Node : Sound(table[k])'
      /\ SelfEntryIntact'
  BY <1>1, <1>2, <1>3, TableWritten DEF JoinMerge, Up
<1>5. EmptyTable \in Table /\ SoundAt(EmptyTable, boot, leftBoots)
  BY DEF EmptyTable, Table, Row, SoundAt
<1>6. TypeOK'
  BY <1>4, <1>5 DEF IInv, TypeOK, JoinMerge, Connection
<1>7. Control'
  BY DEF IInv, Control, JoinMerge, Up
<1>8. SoundTables'
  <2>1. \A k \in Node : conn'[k] # Absent => SoundAt(conn'[k].list, boot, leftBoots)
    BY <1>5 DEF IInv, TypeOK, SoundTables, Sound, JoinMerge
  <2> QED BY <1>4, <2>1 DEF IInv, SoundTables, Sound, JoinMerge
<1> QED BY <1>4, <1>6, <1>7, <1>8 DEF IInv

LEMMA JoinRespondInvariant ==
  ASSUME IInv, NEW n \in Node, JoinRespond(n)
  PROVE  IInv'
<1>1. Introducer \in Node /\ Kept(Introducer, SnapshotOf(Introducer))
  BY ClusterAssumption, SnapshotKept
<1>2. /\ table' \in [Node -> Table]
      /\ \A k \in Node : Sound(table[k])'
      /\ SelfEntryIntact'
  BY <1>1, TableWritten DEF JoinRespond, TakeSnapshot, Up
<1>3. TypeOK'
  BY <1>1, <1>2 DEF IInv, TypeOK, JoinRespond, Connection, Kept
<1>4. Control'
  BY DEF IInv, Control, JoinRespond, Up
<1>5. SoundTables'
  <2>1. \A k \in Node : conn'[k] # Absent => SoundAt(conn'[k].list, boot, leftBoots)
    BY <1>1 DEF IInv, TypeOK, SoundTables, Sound, JoinRespond, Kept
  <2> QED BY <1>2, <2>1 DEF IInv, SoundTables, Sound, JoinRespond
<1> QED BY <1>2, <1>3, <1>4, <1>5 DEF IInv

LEMMA JoinFinishInvariant ==
  ASSUME IInv, NEW n \in Node, JoinFinish(n)
  PROVE  IInv'
<1> DEFINE t == MergeFullList(table[n], conn[n].list, n, boot[n], Now(n))
<1>1. conn[n].list \in Table /\ Sound(conn[n].list)
  BY DEF IInv, TypeOK, JoinFinish, Connection, SoundTables
<1>2. Kept(n, t)
  BY <1>1, MergeKept
<1>3. table' = [table EXCEPT ![n] = t]
  BY DEF JoinFinish, MergeAt
<1>4. \A k \in Node : Up(k)' => Up(k)
  BY DEF IInv, TypeOK, JoinFinish, Up
<1> HIDE DEF t
<1>5. /\ table' \in [Node -> Table]
      /\ \A k \in Node : Sound(table[k])'
      /\ SelfEntryIntact'
  BY <1>2, <1>3, <1>4, TableWritten DEF JoinFinish
<1>6. TypeOK'
  BY <1>5 DEF IInv, TypeOK, JoinFinish
<1>7. Control'
  BY DEF IInv, TypeOK, Control, JoinFinish, Up
<1>8. SoundTables'
  <2>1. \A k \in Node : conn'[k] # Absent => conn'[k] = conn[k]
    BY DEF IInv, TypeOK, JoinFinish
  <2> QED BY <1>5, <2>1 DEF IInv, SoundTables, Sound, JoinFinish
<1> QED BY <1>5, <1>6, <1>7, <1>8 DEF IInv

LEMMA JoinBreakInvariant ==
  ASSUME IInv, NEW n \in Node, JoinBreak(n)
  PROVE  IInv'
<1>1. TypeOK'
  BY DEF IInv, TypeOK, JoinBreak
<1>2. Control'
  BY DEF IInv, Control, JoinBreak, Up
<1>3. SoundTables'
  <2>1. \A k \in Node : conn'[k] # Absent => conn'[k] = conn[k]
    BY DEF IInv, TypeOK, JoinBreak
  <2> QED BY <2>1 DEF IInv, SoundTables, Sound, JoinBreak
<1>4. SelfEntryIntact'
  BY DEF IInv, SelfEntryIntact, JoinBreak, Up
<1> QED BY <1>1, <1>2, <1>3, <1>4 DEF IInv

LEMMA SendPeriodInvariant ==
  ASSUME IInv, NEW n \in Node, SendPeriod(n)
  PROVE  IInv'
<1>1. Kept(n, SnapshotOf(n))
  BY SnapshotKept
<1>2. /\ table' \in [Node -> Table]
      /\ \A k \in Node : Sound(table[k])'
      /\ SelfEntryIntact'
  BY <1>1, TableWritten DEF SendPeriod, TakeSnapshot, Up
<1>3. \A m \in net' : m \in net \/ (m \in Message /\ m.list = SnapshotOf(n))
  <2>1. PICK D \in Targets(Peers(SnapshotOf(n), n)) :
          net' = net \cup [type : {IF Mode = "gossip" THEN "gossip" ELSE "ping"},
                           src : {n}, dst : D, list : {SnapshotOf(n)}]
    BY DEF SendPeriod, Send
  <2>2. D \subseteq Node
    BY DEF Targets, Peers
  <2>3. SnapshotOf(n) \in Table
    BY <1>1 DEF Kept
  <2> QED BY <2>1, <2>2, <2>3 DEF Message
<1>4. TypeOK'
  BY <1>2, <1>3 DEF IInv, TypeOK, SendPeriod
<1>5. Control'
  BY DEF IInv, Control, SendPeriod, Up
<1>6. SoundTables'
  BY <1>1, <1>2, <1>3 DEF IInv, SoundTables, Sound, SendPeriod, Kept
<1> QED BY <1>2, <1>4, <1>5, <1>6 DEF IInv

\* A datagram read stays in flight or not.
LEMMA ReadInvariant ==
  ASSUME IInv, NEW n \in Node, NEW m \in net, ReadDatagram(n, m), net' \subseteq net
  PROVE  IInv'
<1>1. Kept(n, SnapshotOf(n))
  BY SnapshotKept
<1>2. /\ table' \in [Node -> Table]
      /\ \A k \in Node : Sound(table[k])'
      /\ SelfEntryIntact'
  BY <1>1, TableWritten DEF ReadDatagram, TakeSnapshot, Up
<1>3. \/ recv' = [recv EXCEPT ![n] = "off"] /\ held' = held
      \/ recv' = [recv EXCEPT ![n] = "merging"] /\ held' = [held EXCEPT ![n] = m]
  BY DEF ReadDatagram
<1>4. m \in Message /\ SoundAt(m.list, boot, leftBoots)
  BY DEF IInv, TypeOK, SoundTables, Sound
<1>5. TypeOK'
  <2>1. /\ recv' \in [Node -> {"off", "reading", "merging", "replying"}]
        /\ held' \in [Node -> Message \cup {Absent}]
    <3>1. recv \in [Node -> {"off", "reading", "merging", "replying"}]
          /\ held \in [Node -> Message \cup {Absent}]
      BY DEF IInv, TypeOK
    <3> QED BY <1>3, <1>4, <3>1
  <2>2. UNCHANGED <<clock, boot, phase, scan, leave, conn, leftBoots>>
    BY DEF ReadDatagram
  <2> QED BY <1>2, <2>1, <2>2 DEF IInv, TypeOK
<1>6. Control'
  BY <1>3, <1>4 DEF IInv, TypeOK, Control, ReadDatagram, Up
<1>7. SoundTables'
  <2>1. \A k \in Node : held'[k] = held[k] \/ held'[k] = m
    BY <1>3 DEF IInv, TypeOK
  <2> QED BY <1>2, <1>4, <2>1 DEF IInv, SoundTables, Sound, ReadDatagram
<1> QED BY <1>2, <1>5, <1>6, <1>7 DEF IInv

LEMMA ReceiveInvariant ==
  ASSUME IInv, NEW n \in Node, Receive(n)
  PROVE  IInv'
BY ReadInvariant DEF Receive

LEMMA MergeInvariant ==
  ASSUME IInv, NEW n \in Node, Merge(n)
  PROVE  IInv'
<1> DEFINE t == MergeFullList(table[n], held[n].list, n, boot[n], Now(n))
<1>1. held[n] \in Message
  BY DEF IInv, Control, Merge
<1>2. Sound(held[n].list)
  BY <1>1, MessageAssumption DEF IInv, SoundTables
<1>3. held[n].list \in Table /\ Sound(held[n].list)
  BY <1>1, <1>2 DEF Message
<1>4. Kept(n, t)
  BY <1>3, MergeKept
<1>5. table' = [table EXCEPT ![n] = t]
  BY DEF Merge, MergeAt
<1> HIDE DEF t
<1>6. /\ table' \in [Node -> Table]
      /\ \A k \in Node : Sound(table[k])'
      /\ SelfEntryIntact'
  BY <1>4, <1>5, TableWritten DEF Merge, Up
<1>7. \/ recv' = [recv EXCEPT ![n] = "replying"] /\ held' = held
      \/ recv' = [recv EXCEPT ![n] = "reading"] /\ held' = [held EXCEPT ![n] = Absent]
  BY DEF Merge
<1>8. TypeOK'
  BY <1>6, <1>7 DEF IInv, TypeOK, Merge
<1>9. Control'
  BY <1>1, <1>7 DEF IInv, TypeOK, Control, Merge, Up
<1>10. SoundTables'
  <2>1. \A k \in Node : held'[k] \in {held[k], Absent}
    BY <1>7 DEF IInv, TypeOK
  <2> QED BY <1>6, <2>1 DEF IInv, SoundTables, Sound, Merge
<1> QED BY <1>6, <1>8, <1>9, <1>10 DEF IInv

LEMMA ReplyInvariant ==
  ASSUME IInv, NEW n \in Node, Reply(n)
  PROVE  IInv'
<1>1. Kept(n, SnapshotOf(n))
  BY SnapshotKept
<1>2. /\ table' \in [Node -> Table]
      /\ \A k \in Node : Sound(table[k])'
      /\ SelfEntryIntact'
  BY <1>1, TableWritten DEF Reply, TakeSnapshot, Up
<1>3. \A m \in net' : m \in net \/ (m \in Message /\ m.list = SnapshotOf(n))
  <2>1. held[n].src \in Node
    BY DEF IInv, Control, Reply, Message
  <2>2. SnapshotOf(n) \in Table
    BY <1>1 DEF Kept
  <2> QED BY <2>1, <2>2 DEF Reply, Send, Message
<1>4. TypeOK'
  BY <1>2, <1>3 DEF IInv, TypeOK, Reply
<1>5. Control'
  BY DEF IInv, TypeOK, Control, Reply, Up
<1>6. SoundTables'
  <2>1. \A k \in Node : held'[k] \in {held[k], Absent}
    BY DEF IInv, TypeOK, Reply
  <2> QED BY <1>1, <1>2, <1>3, <2>1 DEF IInv, SoundTables, Sound, Reply, Kept
<1> QED BY <1>2, <1>4, <1>5, <1>6 DEF IInv

\* A scan decides nothing about the own row of a process that has not left: that
\* row carries the own boot, so the scan knows it for its own.
LEMMA ScanSparesSelf ==
  ASSUME IInv, NEW n \in Node, Up(n), ~SelfLeft(table[n], n, boot[n])
  PROVE  Decision(n, n, Now(n)) = Absent
<1>1. table[n] \in Table /\ boot[n] \in Nat /\ Now(n) \in Nat
  BY NowIsNat DEF IInv, TypeOK
<1>2. table[n][n] # Absent /\ table[n][n].boot = boot[n] /\ table[n][n].state # "Left"
  BY DEF IInv, SelfEntryIntact, SelfLeft
<1> DEFINE e == SnapshotOf(n)[n]
<1>3. e.boot = boot[n] /\ e.state # "Left"
  <2>1. SnapshotOf(n)[n] = [table[n][n] EXCEPT !.lu = Now(n)]
    BY <1>1, <1>2 DEF SnapshotOf, Refreshed, IsSelf
  <2>2. table[n][n] \in Entry
    BY <1>1, <1>2 DEF Table, Row
  <2> QED BY <1>2, <2>1, <2>2 DEF Entry
<1>4. Verdict(e, IsSelf(n, e, n, boot[n]), Now(n)) = "Keep"
  BY <1>3 DEF Verdict, IsSelf
<1> QED BY <1>4 DEF Decision

\* The decisions of a scan are typed.
LEMMA DecisionType ==
  ASSUME IInv, NEW n \in Node, NEW p \in Node
  PROVE  Decision(n, p, Now(n)) \in Pending \cup {Absent}
<1> DEFINE e == SnapshotOf(n)[p]
           v == Verdict(e, IsSelf(p, e, n, boot[n]), Now(n))
<1>1. SnapshotOf(n) \in Table
  BY SnapshotKept DEF Kept
<1>2. e \in Row
  BY <1>1 DEF Table
<1>3. v \in {"Remove", "Failed", "Suspect", "Keep"}
  BY DEF Verdict
<1>4. CASE e = Absent \/ v = "Keep"
  BY <1>4 DEF Decision
<1>5. CASE e # Absent /\ v # "Keep"
  <2>1. Decision(n, p, Now(n)) = [verdict |-> v, inc |-> e.inc]
    BY <1>5 DEF Decision
  <2>2. e.inc \in Nat
    BY <1>2, <1>5 DEF Row, Entry
  <2> HIDE DEF v, e
  <2> QED BY <1>3, <1>5, <2>1, <2>2 DEF Pending
<1> QED BY <1>4, <1>5

LEMMA ScanBeginInvariant ==
  ASSUME IInv, NEW n \in Node, ScanBegin(n)
  PROVE  IInv'
<1>1. /\ table' \in [Node -> Table]
      /\ \A k \in Node : Sound(table[k])'
      /\ SelfEntryIntact'
  BY SnapshotKept, TableWritten DEF ScanBegin, TakeSnapshot, Up
<1>2. scan'[n] = [p \in Node |-> Decision(n, p, Now(n))] /\ \A k \in Node \ {n} : scan'[k] = scan[k]
  BY DEF IInv, TypeOK, ScanBegin
<1>3. TypeOK'
  <2>1. [p \in Node |-> Decision(n, p, Now(n))] \in [Node -> Pending \cup {Absent}]
    BY DecisionType
  <2>2. scan' \in [Node -> [Node -> Pending \cup {Absent}]]
    BY <2>1 DEF IInv, TypeOK, ScanBegin
  <2> QED BY <1>1, <2>2 DEF IInv, TypeOK, ScanBegin
<1>4. Control'
  <2>1. scan'[n][n] = Absent
    BY <1>2, ScanSparesSelf DEF ScanBegin
  <2> QED BY <1>2, <2>1 DEF IInv, Control, ScanBegin, Up
<1>5. SoundTables'
  BY <1>1 DEF IInv, SoundTables, Sound, ScanBegin
<1> QED BY <1>1, <1>3, <1>4, <1>5 DEF IInv

\* What a scan leaves of a row has the row's boot and is not Left.
LEMMA CarriedOutRow ==
  ASSUME NEW e \in Row, NEW d \in Pending, NEW now \in Nat
  PROVE  LET r == CarriedOut(e, d, now)
         IN  /\ r \in Row
             /\ r # Absent => e # Absent /\ r.boot = e.boot /\ r.state # "Left"
<1>1. CASE d.verdict = "Remove"
  BY <1>1 DEF CarriedOut, Row
<1>2. CASE d.verdict # "Remove" /\ e = Absent
  BY <1>2 DEF CarriedOut, Applied, Row
<1>3. CASE d.verdict # "Remove" /\ e # Absent
  <2>1. /\ CarriedOut(e, d, now) = [boot |-> e.boot, inc |-> d.inc, state |-> d.verdict, lu |-> e.lu]
        /\ e \in Entry /\ d.inc \in Nat /\ d.verdict \in {"Failed", "Suspect"}
    BY <1>3 DEF CarriedOut, Applied, Row, Pending
  <2> QED BY <2>1, <1>3 DEF Row, Entry, State
<1> QED BY <1>1, <1>2, <1>3

\* One row removed or overwritten by a scan, not the own one.
LEMMA ScanStepInvariant ==
  ASSUME IInv, NEW n \in Node, NEW p \in Node, ScanStep(n, p)
  PROVE  IInv'
<1> DEFINE e == table[n][p]
           d == scan[n][p]
           r == CarriedOut(e, d, Now(n))
           t == [table[n] EXCEPT ![p] = r]
<1>1. /\ table[n] \in Table /\ e \in Row /\ Now(n) \in Nat
      /\ d \in Pending /\ p # n
  BY NowIsNat DEF IInv, TypeOK, Table, Control, ScanStep
<1>2. r \in Row /\ (r # Absent => e # Absent /\ r.boot = e.boot /\ r.state # "Left")
  <2> DEFINE now == Now(n)
  <2>1. e \in Row /\ d \in Pending /\ now \in Nat
    BY <1>1
  <2> HIDE DEF e, d, now
  <2> QED BY <2>1, CarriedOutRow DEF now
<1>3. table' = [table EXCEPT ![n] = t]
  BY DEF ScanStep
<1>4. Kept(n, t)
  <2>1. \A q \in Node : t[q] = IF q = p THEN r ELSE table[n][q]
    BY <1>1 DEF Table
  <2>2. t \in Table
    BY <1>1, <1>2 DEF Table
  <2> HIDE DEF r, t
  <2>3. SoundAt(table[n], boot, leftBoots)
    BY DEF IInv, SoundTables, Sound
  <2>4. Sound(t)
    BY <1>2, <2>1, <2>3 DEF Sound, SoundAt
  <2>5. Up(n) => t[n] # Absent /\ t[n].boot = boot[n]
    BY <1>1, <2>1 DEF IInv, SelfEntryIntact
  <2> QED BY <2>2, <2>4, <2>5 DEF Kept
<1> HIDE DEF t, r, e, d
<1>5. /\ table' \in [Node -> Table]
      /\ \A k \in Node : Sound(table[k])'
      /\ SelfEntryIntact'
  BY <1>3, <1>4, TableWritten DEF ScanStep, Up
<1>6. TypeOK'
  BY <1>5 DEF IInv, TypeOK, ScanStep
<1>7. Control'
  BY <1>1 DEF IInv, TypeOK, Control, ScanStep, Up
<1>8. SoundTables'
  BY <1>5 DEF IInv, SoundTables, Sound, ScanStep
<1> QED BY <1>5, <1>6, <1>7, <1>8 DEF IInv

LEMMA AdminQueryInvariant ==
  ASSUME IInv, NEW n \in Node, AdminQuery(n)
  PROVE  IInv'
<1>1. /\ table' \in [Node -> Table]
      /\ \A k \in Node : Sound(table[k])'
      /\ SelfEntryIntact'
  BY SnapshotKept, TableWritten DEF AdminQuery, TakeSnapshot, Up
<1>2. TypeOK'
  BY <1>1 DEF IInv, TypeOK, AdminQuery
<1>3. Control'
  BY DEF IInv, Control, AdminQuery, Up
<1>4. SoundTables'
  BY <1>1 DEF IInv, SoundTables, Sound, AdminQuery
<1> QED BY <1>1, <1>2, <1>3, <1>4 DEF IInv

LEMMA LeaveBeginInvariant ==
  ASSUME IInv, NEW n \in Node, LeaveBegin(n)
  PROVE  IInv'
<1>1. /\ table' \in [Node -> Table]
      /\ \A k \in Node : Sound(table[k])'
      /\ SelfEntryIntact'
  BY SnapshotKept, TableWritten DEF LeaveBegin, TakeSnapshot, Up
<1>2. SnapshotOf(n)[n].inc \in Nat
  <2>1. SnapshotOf(n)[n] \in Entry
    BY SnapshotKept DEF Kept, Table, Row, LeaveBegin, Up
  <2> QED BY <2>1 DEF Entry
<1>3. TypeOK'
  BY <1>1, <1>2 DEF IInv, TypeOK, LeaveBegin
<1>4. Control'
  BY <1>2 DEF IInv, TypeOK, Control, LeaveBegin, Up
<1>5. SoundTables'
  BY <1>1 DEF IInv, SoundTables, Sound, LeaveBegin
<1> QED BY <1>1, <1>3, <1>4, <1>5 DEF IInv

\* /leave is carried out on the own row, by the process leftBoots then names.
LEMMA LeaveApplyInvariant ==
  ASSUME IInv, NEW n \in Node, LeaveApply(n)
  PROVE  IInv'
<1> DEFINE e == table[n][n]
           inc == leave[n] + 1
           now == Now(n)
           r == Applied(e, inc, "Left", now)
           more == leftBoots \cup {<<n, boot[n]>>}
<1>1. /\ table \in [Node -> Table] /\ boot \in [Node -> Nat]
      /\ e \in Row /\ inc \in Nat /\ now \in Nat /\ "Left" \in State
  BY NowIsNat DEF IInv, TypeOK, Table, Control, LeaveApply, State
<1>2. e # Absent /\ e.boot = boot[n]
  BY DEF IInv, Control, SelfEntryIntact, LeaveApply
<1>3. table' = [table EXCEPT ![n][n] = r] /\ boot' = boot /\ leftBoots' = more
  BY DEF LeaveApply
<1>4. r \in Row /\ r # Absent /\ r.boot = boot[n] /\ r.state = "Left"
  <2> HIDE DEF e, inc, now
  <2>1. /\ Applied(e, inc, "Left", now) \in Row
        /\ Applied(e, inc, "Left", now) = Absent <=> e = Absent
        /\ Applied(e, inc, "Left", now) # Absent =>
             Applied(e, inc, "Left", now).boot = e.boot
               /\ Applied(e, inc, "Left", now).state = "Left"
    BY <1>1, AppliedRow
  <2> QED BY <1>2, <2>1
<1> HIDE DEF r, e, inc, now
<1>5. table' \in [Node -> Table]
  BY <1>1, <1>3, <1>4 DEF Table
<1>6. \A k, q \in Node : table'[k][q] = IF k = n /\ q = n THEN r ELSE table[k][q]
  BY <1>1, <1>3 DEF Table
<1>7. ASSUME NEW L \in Table, SoundAt(L, boot, leftBoots)
      PROVE  SoundAt(L, boot, more)
  BY <1>1, <1>7, SoundGrows
<1>8. ASSUME NEW k \in Node
      PROVE  SoundAt(table'[k], boot, more)
  <2>1. SoundAt(table[k], boot, more)
    BY <1>1, <1>7 DEF IInv, SoundTables, Sound
  <2>2. boot[n] \in 1 .. boot[n]
    BY <1>1, <1>2 DEF IInv, SoundTables, Sound, SoundAt, e
  <2> QED BY <1>4, <1>6, <2>1, <2>2 DEF SoundAt
<1> HIDE DEF more
<1>9. TypeOK'
  BY <1>1, <1>5 DEF IInv, TypeOK, LeaveApply, more
<1>10. Control'
  BY DEF IInv, TypeOK, Control, LeaveApply, Up
<1>11. SoundTables'
  <2>1. \A m \in net : SoundAt(m.list, boot, more)
    BY <1>7 DEF IInv, TypeOK, Message, SoundTables, Sound
  <2>2. \A k \in Node : held[k] # Absent => SoundAt(held[k].list, boot, more)
    BY <1>7 DEF IInv, TypeOK, Message, SoundTables, Sound
  <2>3. \A k \in Node : conn[k] # Absent => SoundAt(conn[k].list, boot, more)
    BY <1>7 DEF IInv, TypeOK, Connection, SoundTables, Sound
  <2> QED BY <1>3, <1>8, <2>1, <2>2, <2>3 DEF SoundTables, Sound, LeaveApply
<1>12. SelfEntryIntact'
  BY <1>3, <1>4, <1>6 DEF IInv, SelfEntryIntact, LeaveApply, Up
<1> QED BY <1>9, <1>10, <1>11, <1>12 DEF IInv

LEMMA StutterInvariant ==
  ASSUME IInv, UNCHANGED vars
  PROVE  IInv'
<1>1. TypeOK'
  BY DEF IInv, TypeOK, vars
<1>2. Control'
  BY DEF IInv, Control, Up, vars
<1>3. SoundTables'
  BY DEF IInv, SoundTables, Sound, vars
<1>4. SelfEntryIntact'
  BY DEF IInv, SelfEntryIntact, Up, vars
<1> QED BY <1>1, <1>2, <1>3, <1>4 DEF IInv

\* Every step of the cluster preserves the invariant.
LEMMA StepInvariant == IInv /\ [Next]_vars => IInv'
<1> SUFFICES ASSUME IInv, [Next]_vars PROVE IInv'
  OBVIOUS
<1>1. CASE Tick
  BY <1>1, TickInvariant
<1>2. ASSUME NEW n \in Node, ProcessStep(n)
      PROVE  IInv'
  <2>1. CASE Start(n)
    BY <2>1, StartInvariant
  <2>2. CASE Crash(n) \/ ExitAfterLeave(n)
    BY <2>2, ProcessEndsInvariant DEF Crash, ExitAfterLeave
  <2>3. CASE JoinRequest(n)
    BY <2>3, JoinRequestInvariant
  <2>4. CASE JoinMerge(n)
    BY <2>4, JoinMergeInvariant
  <2>5. CASE JoinRespond(n)
    BY <2>5, JoinRespondInvariant
  <2>6. CASE JoinFinish(n)
    BY <2>6, JoinFinishInvariant
  <2>7. CASE JoinBreak(n)
    BY <2>7, JoinBreakInvariant
  <2>8. CASE SendPeriod(n)
    BY <2>8, SendPeriodInvariant
  <2>9. CASE Receive(n)
    BY <2>9, ReceiveInvariant
  <2>10. CASE Merge(n)
    BY <2>10, MergeInvariant
  <2>11. CASE Reply(n)
    BY <2>11, ReplyInvariant
  <2>12. CASE ScanBegin(n)
    BY <2>12, ScanBeginInvariant
  <2>13. CASE \E p \in Node : ScanStep(n, p)
    BY <2>13, ScanStepInvariant
  <2>14. CASE AdminQuery(n)
    BY <2>14, AdminQueryInvariant
  <2>15. CASE LeaveBegin(n)
    BY <2>15, LeaveBeginInvariant
  <2>16. CASE LeaveApply(n)
    BY <2>16, LeaveApplyInvariant
  <2> QED BY <1>2, <2>1, <2>2, <2>3, <2>4, <2>5, <2>6, <2>7, <2>8, <2>9, <2>10, <2>11, <2>12,
             <2>13, <2>14, <2>15, <2>16 DEF ProcessStep
<1>3. CASE \E m \in net : Lose(m)
  BY <1>3, LoseInvariant
<1>4. CASE UNCHANGED vars
  BY <1>4, StutterInvariant
<1> QED BY <1>1, <1>2, <1>3, <1>4 DEF Next

LEMMA LeftWasAsked == IInv => LeftOnlyOnRequest
<1> SUFFICES ASSUME IInv, NEW L \in Lists, NEW p \in Node, L[p] # Absent, L[p].state = "Left"
             PROVE  <<p, L[p].boot>> \in leftBoots
  BY DEF LeftOnlyOnRequest
<1>1. Sound(L)
  BY DEF Lists, IInv, SoundTables
<1> QED BY <1>1 DEF Sound, SoundAt

LEMMA Invariance == Spec => []IInv
BY InitInvariant, StepInvariant, PTL DEF Spec

-----------------------------------------------------------------------------
(* Steps and the boots of rows.                                            *)

\* t has no older boot where table[n] has a row.
NoOlder(n, t) ==
  \A p \in Node : table[n][p] # Absent /\ t[p] # Absent => t[p].boot >= table[n][p].boot

BootsKept ==
  \A n, p \in Node : RowStep(n, p) => table'[n][p].boot >= table[n][p].boot

\* Rows have boots that can be compared.
LEMMA BootsAreNat ==
  ASSUME IInv, NEW n \in Node, NEW p \in Node, table[n][p] # Absent
  PROVE  table[n][p].boot \in Nat
<1>1. table[n][p] \in Entry
  BY DEF IInv, TypeOK, Table, Row
<1> QED BY <1>1 DEF Entry

LEMMA BootsKeptByWrite ==
  ASSUME IInv, NEW n \in Node, NEW t, NoOlder(n, t), table' = [table EXCEPT ![n] = t]
  PROVE  BootsKept
<1>1. \A k \in Node : table'[k] = IF k = n THEN t ELSE table[k]
  BY DEF IInv, TypeOK
<1>2. SUFFICES ASSUME NEW k \in Node, NEW p \in Node, table[k][p] # Absent, table'[k][p] # Absent
               PROVE  table'[k][p].boot >= table[k][p].boot
  BY DEF BootsKept, RowStep
<1>3. CASE k = n
  BY <1>1, <1>2, <1>3 DEF NoOlder
<1>4. CASE k # n
  BY <1>1, <1>2, <1>4, BootsAreNat
<1> QED BY <1>3, <1>4

LEMMA BootsKeptBySnapshot ==
  ASSUME IInv, NEW n \in Node, TakeSnapshot(n)
  PROVE  BootsKept
<1> DEFINE now == Now(n)
           b == boot[n]
           tbl == table[n]
<1>1. tbl \in Table /\ b \in Nat /\ now \in Nat /\ SnapshotOf(n) = Refreshed(tbl, n, b, now)
  BY NowIsNat DEF IInv, TypeOK, SnapshotOf
<1> HIDE DEF now, b, tbl
<1>2. \A p \in Node : Refreshed(tbl, n, b, now)[p] # Absent =>
        tbl[p] # Absent /\ Refreshed(tbl, n, b, now)[p].boot = tbl[p].boot
  BY <1>1, RefreshedRows
<1>3. NoOlder(n, SnapshotOf(n))
  BY <1>1, <1>2, BootsAreNat DEF NoOlder, tbl
<1> QED BY <1>3, BootsKeptByWrite DEF TakeSnapshot

LEMMA BootsKeptByMerge ==
  ASSUME IInv, NEW n \in Node, NEW list \in Table, Sound(list), MergeAt(n, list)
  PROVE  BootsKept
<1> DEFINE t == MergeFullList(table[n], list, n, boot[n], Now(n))
<1>1. NoOlder(n, t)
  BY MergeKept DEF NoOlder
<1>2. table' = [table EXCEPT ![n] = t]
  BY DEF MergeAt
<1> HIDE DEF t
<1> QED BY <1>1, <1>2, BootsKeptByWrite

\* A row that a scan or /leave overwrites keeps its boot.
LEMMA BootsKeptByApply ==
  ASSUME IInv, NEW n \in Node, NEW p \in Node, NEW inc \in Nat, NEW st \in State,
         table' = [table EXCEPT ![n][p] = Applied(table[n][p], inc, st, Now(n))]
  PROVE  BootsKept
<1> DEFINE e == table[n][p]
           now == Now(n)
           r == Applied(e, inc, st, now)
           t == [table[n] EXCEPT ![p] = r]
<1>1. e \in Row /\ now \in Nat /\ table[n] \in Table
  BY NowIsNat DEF IInv, TypeOK, Table
<1>2. r # Absent => r.boot = e.boot
  <2> HIDE DEF e, now
  <2> QED BY <1>1, AppliedRow
<1> HIDE DEF now, r
<1>3. NoOlder(n, t)
  <2>1. \A q \in Node : t[q] = IF q = p THEN r ELSE table[n][q]
    BY <1>1 DEF Table
  <2> HIDE DEF t
  <2> QED BY <1>2, <2>1, BootsAreNat DEF NoOlder
<1>4. table' = [table EXCEPT ![n] = t]
  BY DEF r, now
<1> HIDE DEF t
<1> QED BY <1>3, <1>4, BootsKeptByWrite

LEMMA BootsKeptByScan ==
  ASSUME IInv, NEW n \in Node, NEW p \in Node, ScanStep(n, p)
  PROVE  BootsKept
<1>1. scan[n][p] \in Pending /\ table[n] \in Table
  BY DEF IInv, TypeOK, ScanStep
<1>2. CASE scan[n][p].verdict = "Remove"
  <2> DEFINE t == [table[n] EXCEPT ![p] = Absent]
  <2>1. \A q \in Node : t[q] = IF q = p THEN Absent ELSE table[n][q]
    BY <1>1 DEF Table
  <2>2. table' = [table EXCEPT ![n] = t]
    BY <1>2 DEF ScanStep, CarriedOut
  <2> HIDE DEF t
  <2>3. NoOlder(n, t)
    BY <2>1, BootsAreNat DEF NoOlder
  <2> QED BY <2>2, <2>3, BootsKeptByWrite
<1>3. CASE scan[n][p].verdict # "Remove"
  <2>1. scan[n][p].verdict \in State /\ scan[n][p].inc \in Nat
    BY <1>1, <1>3 DEF Pending, State
  <2>2. table' = [table EXCEPT ![n][p] =
                    Applied(table[n][p], scan[n][p].inc, scan[n][p].verdict, Now(n))]
    BY <1>3 DEF ScanStep, CarriedOut
  <2> QED BY <2>1, <2>2, BootsKeptByApply
<1> QED BY <1>2, <1>3

LEMMA BootsKeptByStep ==
  ASSUME IInv, [Next]_vars
  PROVE  BootsKept
<1>1. CASE UNCHANGED table
  BY <1>1, BootsAreNat DEF BootsKept, RowStep
<1>2. ASSUME NEW n \in Node, ProcessStep(n)
      PROVE  BootsKept
  <2>1. CASE Start(n)
    BY <2>1, BootsAreNat DEF BootsKept, RowStep, Start, Up, IInv, TypeOK
  <2>2. CASE Crash(n) \/ ExitAfterLeave(n)
    BY <2>2, BootsAreNat
       DEF BootsKept, RowStep, Crash, ExitAfterLeave, ProcessEnds, Up, IInv, TypeOK
  <2>3. CASE \/ JoinRequest(n) \/ SendPeriod(n) \/ Receive(n) \/ Reply(n) \/ ScanBegin(n)
             \/ AdminQuery(n) \/ LeaveBegin(n)
    <3>1. TakeSnapshot(n)
      BY <2>3 DEF JoinRequest, SendPeriod, Receive, ReadDatagram, Reply, ScanBegin, AdminQuery, LeaveBegin
    <3> QED BY <3>1, BootsKeptBySnapshot
  <2>4. CASE JoinRespond(n)
    BY <2>4, ClusterAssumption, BootsKeptBySnapshot DEF JoinRespond
  <2>5. CASE JoinMerge(n)
    <3>1. conn[n].list \in Table /\ Sound(conn[n].list)
      BY <2>5 DEF IInv, TypeOK, JoinMerge, Connection, SoundTables
    <3> QED BY <2>5, <3>1, ClusterAssumption, BootsKeptByMerge DEF JoinMerge
  <2>6. CASE JoinFinish(n)
    <3>1. conn[n].list \in Table /\ Sound(conn[n].list)
      BY <2>6 DEF IInv, TypeOK, JoinFinish, Connection, SoundTables
    <3> QED BY <2>6, <3>1, BootsKeptByMerge DEF JoinFinish
  <2>7. CASE JoinBreak(n)
    BY <2>7, <1>1 DEF JoinBreak
  <2>8. CASE Merge(n)
    <3>1. held[n] \in Message /\ Sound(held[n].list)
      BY <2>8, MessageAssumption DEF IInv, Control, SoundTables, Merge
    <3>2. held[n].list \in Table
      BY <3>1 DEF Message
    <3> QED BY <2>8, <3>1, <3>2, BootsKeptByMerge DEF Merge
  <2>9. CASE \E p \in Node : ScanStep(n, p)
    BY <2>9, BootsKeptByScan
  <2>10. CASE LeaveApply(n)
    <3>1. leave[n] + 1 \in Nat /\ "Left" \in State
      BY <2>10 DEF IInv, Control, LeaveApply, State
    <3> QED BY <2>10, <3>1, BootsKeptByApply DEF LeaveApply
  <2> QED BY <1>2, <2>1, <2>2, <2>3, <2>4, <2>5, <2>6, <2>7, <2>8, <2>9, <2>10 DEF ProcessStep
<1>3. CASE Tick \/ (\E m \in net : Lose(m)) \/ UNCHANGED vars
  BY <1>1, <1>3 DEF Tick, Lose, vars
<1> QED BY <1>2, <1>3 DEF Next

-----------------------------------------------------------------------------
(* GroupMembership implements MembershipView.  The invariant gives the     *)
(* boots that a table can have and the own row; what is left is which rows *)
(* a step may lose.                                                        *)

\* What a step changes of the views: n's at most.
OnlyAt(n) == \A k \in Node \ {n} : table'[k] = table[k]

SameProcesses == boot' = boot /\ \A k \in Node : Up(k)' = Up(k)

\* The boots in the tables are naturals up to the last boot.
LEMMA BootsBounded ==
  ASSUME IInv, NEW n \in Node, NEW p \in Node
  PROVE  /\ BootAt(n, p) \in 0 .. boot[p]
         /\ boot[p] \in Nat
         /\ table[n][p] # Absent => BootAt(n, p) = table[n][p].boot
         /\ Up(n) => BootAt(n, n) = boot[n]
<1>1. boot[p] \in Nat
  BY DEF IInv, TypeOK
<1>2. table[n][p] # Absent => table[n][p].boot \in 1 .. boot[p]
  BY DEF IInv, SoundTables, Sound, SoundAt
<1>3. Up(n) => table[n][n] # Absent /\ table[n][n].boot = boot[n]
  BY DEF IInv, SelfEntryIntact
<1> QED BY <1>1, <1>2, <1>3 DEF BootAt

\* The same of the next state.
LEMMA NextBootsBounded ==
  ASSUME IInv', NEW n \in Node, NEW p \in Node
  PROVE  /\ BootAt(n, p)' \in 0 .. boot'[p]
         /\ boot'[p] \in Nat
         /\ table'[n][p] # Absent => BootAt(n, p)' = table'[n][p].boot
         /\ Up(n)' => BootAt(n, n)' = boot'[n]
<1>1. boot'[p] \in Nat
  BY DEF IInv, TypeOK
<1>2. table'[n][p] # Absent => table'[n][p].boot \in 1 .. boot'[p]
  BY DEF IInv, SoundTables, Sound, SoundAt
<1>3. Up(n)' => table'[n][n] # Absent /\ table'[n][n].boot = boot'[n]
  BY DEF IInv, SelfEntryIntact
<1> QED BY <1>1, <1>2, <1>3 DEF BootAt

\* A step of a live process that loses no row is one in which it learns.
LEMMA LearnStep ==
  ASSUME IInv, IInv', BootsKept, NEW n \in Node, Up(n), OnlyAt(n), SameProcesses,
         \A p \in Node : table[n][p] # Absent => table'[n][p] # Absent
  PROVE  View!Learn(n)
<1>1. ASSUME NEW k \in Node, NEW p \in Node
      PROVE  \/ BootAt(k, p)' = BootAt(k, p)
             \/ k = n /\ BootAt(k, p)' \in BootAt(k, p) + 1 .. boot[p]
  <2>1. CASE k # n
    BY <2>1 DEF OnlyAt, BootAt
  <2>2. CASE k = n
    <3>1. /\ BootAt(n, p) \in 0 .. boot[p]
          /\ boot[p] \in Nat
          /\ BootAt(n, p)' \in 0 .. boot[p]
      BY BootsBounded, NextBootsBounded DEF SameProcesses
    <3>2. BootAt(n, p)' >= BootAt(n, p)
      <4>1. CASE table[n][p] = Absent
        BY <3>1, <4>1 DEF BootAt
      <4>2. CASE table[n][p] # Absent
        <5>1. RowStep(n, p)
          BY <4>2 DEF RowStep, SameProcesses
        <5>2. table'[n][p].boot >= table[n][p].boot
          BY <5>1 DEF BootsKept
        <5> QED BY <4>2, <5>2 DEF BootAt
      <4> QED BY <4>1, <4>2
    <3> QED BY <2>2, <3>1, <3>2
  <2> QED BY <2>1, <2>2
<1>2. \A k, p \in Node : BootAt(k, p)' \in Nat
  BY NextBootsBounded
<1>3. {k \in Node : Up(k)}' = {k \in Node : Up(k)}
  BY DEF SameProcesses
<1> QED BY <1>1, <1>2, <1>3 DEF View!Learn, SameProcesses

\* A step that loses one row, and not the own one, is one in which it forgets.
LEMMA ForgetStep ==
  ASSUME IInv, NEW n \in Node, Up(n), NEW p \in Node, p # n, SameProcesses,
         table' = [table EXCEPT ![n][p] = Absent]
  PROVE  View!Forget(n, p)
<1>1. \A k, q \in Node : BootAt(k, q)' = IF k = n /\ q = p THEN 0 ELSE BootAt(k, q)
  BY DEF BootAt, IInv, TypeOK, Table
<1>2. {k \in Node : Up(k)}' = {k \in Node : Up(k)}
  BY DEF SameProcesses
<1> DEFINE v == [k \in Node |-> [q \in Node |-> BootAt(k, q)]]
           w == [k \in Node |-> [q \in Node |-> BootAt(k, q)']]
<1>3. w = [v EXCEPT ![n][p] = 0]
  BY <1>1
<1> QED BY <1>2, <1>3 DEF View!Forget, SameProcesses

\* A step that changes no table and no process changes no view.
LEMMA StutterStep ==
  ASSUME table' = table, SameProcesses
  PROVE  UNCHANGED <<boot, {n \in Node : Up(n)}, [n \in Node |-> [p \in Node |-> BootAt(n, p)]]>>
BY DEF SameProcesses, BootAt

-----------------------------------------------------------------------------
(* Who has work to do is a live process.                                   *)

BusyIsUp ==
  \A n \in Node :
    /\ recv[n] # "off" => Up(n)
    /\ \A p \in Node : scan[n][p] # Absent => Up(n)

LEMMA BusyInit == Init => BusyIsUp
BY DEF Init, BusyIsUp, NoPending

LEMMA BusyStep ==
  ASSUME TypeOK, BusyIsUp, [Next]_vars
  PROVE  BusyIsUp'
<1>1. ASSUME NEW n \in Node, ProcessStep(n)
      PROVE  BusyIsUp'
  <2>1. CASE Start(n)
    BY <2>1 DEF TypeOK, BusyIsUp, Start, Up
  <2>2. CASE Crash(n) \/ ExitAfterLeave(n)
    BY <2>2 DEF TypeOK, BusyIsUp, Crash, ExitAfterLeave, ProcessEnds, NoPending, Up
  <2>3. CASE JoinRequest(n) \/ JoinMerge(n) \/ JoinRespond(n) \/ JoinBreak(n)
    BY <2>3 DEF BusyIsUp, JoinRequest, JoinMerge, JoinRespond, JoinBreak, Up
  <2>4. CASE JoinFinish(n)
    BY <2>4 DEF TypeOK, BusyIsUp, JoinFinish, Up
  <2>5. CASE SendPeriod(n) \/ AdminQuery(n) \/ LeaveBegin(n) \/ LeaveApply(n)
    BY <2>5 DEF BusyIsUp, SendPeriod, AdminQuery, LeaveBegin, LeaveApply, Up
  <2>6. CASE Receive(n)
    BY <2>6 DEF TypeOK, BusyIsUp, Receive, ReadDatagram, Up
  <2>7. CASE Merge(n) \/ Reply(n)
    BY <2>7 DEF TypeOK, BusyIsUp, Merge, Reply, Up
  <2>8. CASE ScanBegin(n)
    BY <2>8 DEF TypeOK, BusyIsUp, ScanBegin, Up
  <2>9. CASE \E p \in Node : ScanStep(n, p)
    BY <2>9 DEF TypeOK, BusyIsUp, ScanStep, Up
  <2> QED BY <1>1, <2>1, <2>2, <2>3, <2>4, <2>5, <2>6, <2>7, <2>8, <2>9 DEF ProcessStep
<1>2. CASE Tick \/ (\E m \in net : Lose(m)) \/ UNCHANGED vars
  BY <1>2 DEF BusyIsUp, Tick, Lose, vars, Up
<1> QED BY <1>1, <1>2 DEF Next

-----------------------------------------------------------------------------
(* Every step of the cluster is one of the views, or none of them moves.   *)

ViewStep ==
  [View!Next]_<<boot, {n \in Node : Up(n)}, [n \in Node |-> [p \in Node |-> BootAt(n, p)]]>>

\* A Snapshot loses no row.
LEMMA SnapshotLearns ==
  ASSUME IInv, IInv', BootsKept, NEW n \in Node, Up(n), SameProcesses, TakeSnapshot(n)
  PROVE  View!Learn(n)
<1>1. table' = [table EXCEPT ![n] = SnapshotOf(n)] /\ table \in [Node -> Table]
  BY DEF TakeSnapshot, IInv, TypeOK
<1>2. \A p \in Node : table[n][p] # Absent => SnapshotOf(n)[p] # Absent
  <2> DEFINE now == Now(n)
             b == boot[n]
             tbl == table[n]
  <2>1. tbl \in Table /\ b \in Nat /\ now \in Nat /\ SnapshotOf(n) = Refreshed(tbl, n, b, now)
    BY NowIsNat DEF IInv, TypeOK, SnapshotOf
  <2> HIDE DEF now, b, tbl
  <2>2. \A p \in Node : tbl[p] # Absent => Refreshed(tbl, n, b, now)[p] # Absent
    BY <2>1, RefreshedRows
  <2> QED BY <2>1, <2>2 DEF tbl
<1>3. \A k \in Node : table'[k] = IF k = n THEN SnapshotOf(n) ELSE table[k]
  BY <1>1
<1>4. OnlyAt(n)
  BY <1>3 DEF OnlyAt
<1> QED BY <1>2, <1>3, <1>4, LearnStep

\* Neither does a merge.
LEMMA MergeLearns ==
  ASSUME IInv, IInv', BootsKept, NEW n \in Node, Up(n), SameProcesses,
         NEW list \in Table, MergeAt(n, list)
  PROVE  View!Learn(n)
<1> DEFINE t == MergeFullList(table[n], list, n, boot[n], Now(n))
<1>1. table' = [table EXCEPT ![n] = t] /\ table \in [Node -> Table]
  BY DEF MergeAt, IInv, TypeOK
<1>2. ASSUME NEW p \in Node, table[n][p] # Absent
      PROVE  t[p] # Absent
  <2> DEFINE e == table[n][p]
             m == list[p]
             own == p = n
             b == boot[n]
             now == Now(n)
  <2>1. e \in Row /\ m \in Row /\ own \in BOOLEAN /\ b \in Nat /\ now \in Nat /\ e # Absent
    BY <1>2, NowIsNat DEF IInv, TypeOK, Table
  <2>2. t[p] = updateMemberEntry(e, m, own, b, now)
    BY DEF MergeFullList
  <2> HIDE DEF t, e, m, own, b, now
  <2> QED BY <2>1, <2>2, UpdateBoot
<1> HIDE DEF t
<1>3. \A k \in Node : table'[k] = IF k = n THEN t ELSE table[k]
  BY <1>1
<1>4. OnlyAt(n)
  BY <1>3 DEF OnlyAt
<1> QED BY <1>2, <1>3, <1>4, LearnStep

\* An apply neither.
LEMMA ApplyLearns ==
  ASSUME IInv, IInv', BootsKept, NEW n \in Node, Up(n), SameProcesses,
         NEW p \in Node, NEW inc \in Nat, NEW st \in State,
         table' = [table EXCEPT ![n][p] = Applied(table[n][p], inc, st, Now(n))]
  PROVE  View!Learn(n)
<1> DEFINE e == table[n][p]
           now == Now(n)
           r == Applied(e, inc, st, now)
<1>1. e \in Row /\ now \in Nat /\ table \in [Node -> Table]
  BY NowIsNat DEF IInv, TypeOK, Table
<1>2. e # Absent => r # Absent
  <2> HIDE DEF e, now
  <2> QED BY <1>1, AppliedRow
<1> HIDE DEF now, r
<1>3. table' = [table EXCEPT ![n][p] = r]
  BY DEF r, now
<1>4. \A k, q \in Node : table'[k][q] = IF k = n /\ q = p THEN r ELSE table[k][q]
  BY <1>1, <1>3 DEF Table
<1>5. OnlyAt(n)
  BY <1>1, <1>3 DEF OnlyAt
<1> QED BY <1>2, <1>4, <1>5, LearnStep

\* A scan forgets what it removes.
LEMMA ScanForgets ==
  ASSUME IInv, IInv', BootsKept, BusyIsUp, NEW n \in Node, NEW p \in Node, ScanStep(n, p)
  PROVE  View!Learn(n) \/ View!Forget(n, p)
<1>1. Up(n) /\ p # n /\ SameProcesses /\ scan[n][p] \in Pending
  BY DEF ScanStep, BusyIsUp, SameProcesses, Up, IInv, Control, TypeOK
<1>2. CASE scan[n][p].verdict = "Remove"
  BY <1>1, <1>2, ForgetStep DEF ScanStep, CarriedOut
<1>3. CASE scan[n][p].verdict # "Remove"
  <2>1. scan[n][p].verdict \in State /\ scan[n][p].inc \in Nat
    BY <1>1, <1>3 DEF Pending, State
  <2>2. table' = [table EXCEPT ![n][p] =
                    Applied(table[n][p], scan[n][p].inc, scan[n][p].verdict, Now(n))]
    BY <1>3 DEF ScanStep, CarriedOut
  <2> QED BY <1>1, <2>1, <2>2, ApplyLearns
<1> QED BY <1>2, <1>3

\* A process starts with a view of itself alone.
LEMMA StartBegins ==
  ASSUME IInv, NEW n \in Node, Start(n)
  PROVE  View!Begin(n)
<1>1. ~Up(n) /\ Up(n)' /\ \A k \in Node \ {n} : Up(k)' = Up(k)
  BY DEF Start, Up, IInv, TypeOK
<1>2. \A k \in Node : table'[k] = IF k = n THEN NewTable(n, boot[n] + 1, Now(n)) ELSE table[k]
  BY DEF Start, IInv, TypeOK
<1>3. \A p \in Node : NewTable(n, boot[n] + 1, Now(n))[p]
                       = IF p = n THEN [boot |-> boot[n] + 1, inc |-> InitialIncarnation,
                                        state |-> "Alive", lu |-> Now(n)]
                         ELSE Absent
  BY DEF NewTable, EmptyTable
<1>4. [boot |-> boot[n] + 1, inc |-> InitialIncarnation, state |-> "Alive", lu |-> Now(n)] # Absent
  BY AbsentAssumption, NowIsNat DEF Entry, State, InitialIncarnation, IInv, TypeOK
<1>5. \A k, p \in Node :
        BootAt(k, p)' = IF k = n THEN (IF p = n THEN boot[n] + 1 ELSE 0) ELSE BootAt(k, p)
  BY <1>2, <1>3, <1>4 DEF BootAt
<1> DEFINE v == [k \in Node |-> [p \in Node |-> BootAt(k, p)]]
           w == [k \in Node |-> [p \in Node |-> BootAt(k, p)']]
<1>6. w = [v EXCEPT ![n] = [p \in Node |-> IF p = n THEN boot[n] + 1 ELSE 0]]
  BY <1>5
<1>7. {k \in Node : Up(k)}' = {k \in Node : Up(k)} \cup {n} /\ n \notin {k \in Node : Up(k)}
  BY <1>1
<1>8. boot' = [boot EXCEPT ![n] = @ + 1]
  BY DEF Start
<1> QED BY <1>6, <1>7, <1>8 DEF View!Begin

\* A process that ends has no view.
LEMMA EndEnds ==
  ASSUME IInv, NEW n \in Node, Up(n), ProcessEnds(n)
  PROVE  View!End(n)
<1>1. ~Up(n)' /\ \A k \in Node \ {n} : Up(k)' = Up(k)
  BY DEF ProcessEnds, Up, IInv, TypeOK
<1>2. \A k, p \in Node : BootAt(k, p)' = IF k = n THEN 0 ELSE BootAt(k, p)
  BY DEF BootAt, ProcessEnds, EmptyTable, IInv, TypeOK
<1> DEFINE v == [k \in Node |-> [p \in Node |-> BootAt(k, p)]]
           w == [k \in Node |-> [p \in Node |-> BootAt(k, p)']]
<1>3. w = [v EXCEPT ![n] = [p \in Node |-> 0]]
  BY <1>2
<1>4. {k \in Node : Up(k)}' = {k \in Node : Up(k)} \ {n}
  BY <1>1
<1>5. boot' = boot
  BY DEF ProcessEnds
<1> QED BY <1>3, <1>4, <1>5 DEF View!End, View!NoView

LEMMA RefinementStep ==
  ASSUME IInv, IInv', BusyIsUp, [Next]_vars
  PROVE  ViewStep
<1>1. BootsKept
  BY BootsKeptByStep
<1>2. ASSUME NEW n \in Node, ProcessStep(n)
      PROVE  ViewStep
  <2>1. CASE Start(n)
    BY <2>1, StartBegins DEF ViewStep, View!Next
  <2>2. CASE Crash(n) \/ ExitAfterLeave(n)
    <3>1. Up(n) /\ ProcessEnds(n)
      BY <2>2 DEF Crash, ExitAfterLeave
    <3> QED BY <3>1, EndEnds DEF ViewStep, View!Next
  <2>3. CASE \/ JoinRequest(n) \/ SendPeriod(n) \/ Receive(n) \/ Reply(n) \/ ScanBegin(n)
             \/ AdminQuery(n) \/ LeaveBegin(n)
    <3>1. TakeSnapshot(n) /\ SameProcesses /\ Up(n)
      BY <2>3 DEF JoinRequest, SendPeriod, Receive, ReadDatagram, Reply, ScanBegin, AdminQuery,
                  LeaveBegin, SameProcesses, BusyIsUp, Up
    <3> QED BY <1>1, <3>1, SnapshotLearns DEF ViewStep, View!Next
  <2>4. CASE JoinRespond(n)
    <3>1. TakeSnapshot(Introducer) /\ SameProcesses /\ Up(Introducer)
      BY <2>4 DEF JoinRespond, SameProcesses, Up
    <3> QED BY <1>1, <3>1, ClusterAssumption, SnapshotLearns DEF ViewStep, View!Next
  <2>5. CASE JoinMerge(n)
    <3>1. MergeAt(Introducer, conn[n].list) /\ SameProcesses /\ Up(Introducer)
      BY <2>5 DEF JoinMerge, SameProcesses, Up
    <3>2. conn[n].list \in Table
      BY <2>5 DEF IInv, TypeOK, JoinMerge, Connection
    <3> QED BY <1>1, <3>1, <3>2, ClusterAssumption, MergeLearns DEF ViewStep, View!Next
  <2>6. CASE JoinFinish(n)
    <3>1. MergeAt(n, conn[n].list) /\ SameProcesses /\ Up(n)
      BY <2>6 DEF JoinFinish, SameProcesses, Up, IInv, TypeOK
    <3>2. conn[n].list \in Table
      BY <2>6 DEF IInv, TypeOK, JoinFinish, Connection
    <3> QED BY <1>1, <3>1, <3>2, MergeLearns DEF ViewStep, View!Next
  <2>7. CASE JoinBreak(n)
    BY <2>7, StutterStep DEF JoinBreak, SameProcesses, Up, ViewStep
  <2>8. CASE Merge(n)
    <3>1. MergeAt(n, held[n].list) /\ SameProcesses /\ Up(n)
      BY <2>8 DEF Merge, SameProcesses, BusyIsUp, Up
    <3>2. held[n].list \in Table
      BY <2>8 DEF IInv, Control, Merge, Message
    <3> QED BY <1>1, <3>1, <3>2, MergeLearns DEF ViewStep, View!Next
  <2>9. CASE \E p \in Node : ScanStep(n, p)
    BY <1>1, <2>9, ScanForgets DEF ViewStep, View!Next
  <2>10. CASE LeaveApply(n)
    <3>1. leave[n] + 1 \in Nat /\ "Left" \in State /\ Up(n) /\ SameProcesses
      BY <2>10 DEF IInv, Control, LeaveApply, State, SameProcesses, Up
    <3> QED BY <1>1, <2>10, <3>1, ApplyLearns DEF LeaveApply, ViewStep, View!Next
  <2> QED BY <1>2, <2>1, <2>2, <2>3, <2>4, <2>5, <2>6, <2>7, <2>8, <2>9, <2>10 DEF ProcessStep
<1>3. CASE Tick \/ (\E m \in net : Lose(m)) \/ UNCHANGED vars
  BY <1>3, StutterStep DEF Tick, Lose, vars, SameProcesses, Up, ViewStep
<1> QED BY <1>2, <1>3 DEF Next

LEMMA RefinementInit == Init => View!Init
BY DEF Init, View!Init, View!NoView, Up, BootAt, EmptyTable

-----------------------------------------------------------------------------
(* Theorems.                                                               *)

\* Every table, message, pending decision and connection of the cluster is what it
\* is declared to be, whatever is merged, lost, duplicated or restarted.
THEOREM TypeCorrect == Spec => []TypeOK
<1>1. IInv => TypeOK
  BY DEF IInv
<1> QED BY <1>1, Invariance, PTL

\* A live process always finds its own row, under its own boot, in its store:
\* neither RemoveEntry nor a merge takes it away.
THEOREM SelfEntryAlwaysIntact == Spec => []SelfEntryIntact
<1>1. IInv => SelfEntryIntact
  BY DEF IInv
<1> QED BY <1>1, Invariance, PTL

\* No scan, merge, delay or restart makes a departure out of silence.
THEOREM NobodyLeftUnasked == Spec => []LeftOnlyOnRequest
BY LeftWasAsked, Invariance, PTL

\* The newer boot eclipses the older one in every table, in whatever order rows
\* about the two arrive.
THEOREM NewerBootEclipses == Spec => BootNeverRegresses
<1>1. IInv /\ [Next]_vars =>
        [\A n, p \in Node : RowStep(n, p) => table'[n][p].boot >= table[n][p].boot]_vars
  BY BootsKeptByStep DEF BootsKept
<1> QED BY <1>1, Invariance, PTL DEF Spec, BootNeverRegresses

\* Whatever crashes, restarts, half-finished scans and late datagrams do, the tables of
\* the processes move as MembershipView says.
THEOREM TablesImplementView == Spec => ImplementsView
<1>1. Init => IInv /\ BusyIsUp
  BY InitInvariant, BusyInit
<1>2. IInv /\ BusyIsUp /\ [Next]_vars => IInv' /\ BusyIsUp' /\ ViewStep
  BY StepInvariant, BusyStep, RefinementStep DEF IInv
<1> QED BY <1>1, <1>2, RefinementInit, PTL DEF Spec, ImplementsView, View!Spec, ViewStep

=============================================================================
