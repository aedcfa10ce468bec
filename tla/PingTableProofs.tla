--------------------------- MODULE PingTableProofs ---------------------------
(***************************************************************************)
(* Theorems about PingTable, for any set of nonces and peers, any time to  *)
(* live and any number of mode changes: its state is well typed, and a     *)
(* record never outlives the ack that found it.                            *)
(***************************************************************************)
EXTENDS PingTable, TLAPS

-----------------------------------------------------------------------------
(* The inductive invariant.  The danger is the ping that is written to the *)
(* socket and not yet in the table: its Add must not come after an ack     *)
(* that found a record.                                                    *)

Unanswered == {"travelling", "lost", "early", "stray"}

SendingUntracked ==
  sending # None => table[sending.nonce] = None /\ fate[sending.nonce] \in Unanswered

IInv == TypeOK /\ RecordsAreUnanswered /\ SendingUntracked

-----------------------------------------------------------------------------
(* The operators on a table.                                               *)

LEMMA TablesStayTables ==
  ASSUME NEW t \in Inflight
  PROVE  /\ NewInflight \in Inflight
         /\ \A n \in Nonce : Done(t, n) \in Inflight
         /\ Expired(t) \in Inflight
         /\ {t[n].addr : n \in Overdue(t)} \subseteq Peer
BY DEF NewInflight, Done, Expired, Overdue, Inflight, Record

-----------------------------------------------------------------------------
(* The invariant is inductive.                                             *)

LEMMA InitInvariant == Init => IInv
<1> SUFFICES ASSUME Init PROVE IInv
  OBVIOUS
<1>1. TypeOK
  BY DEF Init, TypeOK, NewInflight, Inflight, Fate
<1>2. RecordsAreUnanswered /\ SendingUntracked
  BY DEF Init, RecordsAreUnanswered, SendingUntracked, NewInflight
<1> QED BY <1>1, <1>2 DEF IInv

\* A nonce that is drawn has no record yet.
LEMMA PingInvariant ==
  ASSUME IInv, NEW n \in Nonce, NEW p \in Peer, Ping(n, p)
  PROVE  IInv'
<1>1. TypeOK'
  BY DEF IInv, TypeOK, Ping, Datagram, Fate
<1>2. \A k \in Nonce : fate'[k] = IF k = n THEN "travelling" ELSE fate[k]
  BY DEF IInv, TypeOK, Ping
<1>3. table[n] = None
  BY DEF IInv, RecordsAreUnanswered, Ping
<1>4. RecordsAreUnanswered'
  BY <1>2 DEF IInv, RecordsAreUnanswered, Ping
<1>5. SendingUntracked'
  BY <1>2, <1>3 DEF SendingUntracked, Unanswered, Ping
<1> QED BY <1>1, <1>4, <1>5 DEF IInv

LEMMA TrackInvariant ==
  ASSUME IInv, Track
  PROVE  IInv'
<1>1. /\ sending \in [nonce : Nonce, peer : Peer]
      /\ table' = [table EXCEPT ![sending.nonce] =
                     [deadline |-> now + TSuspect, addr |-> sending.peer]]
  BY DEF IInv, TypeOK, Track, Add
<1>2. TypeOK'
  BY <1>1, PingAssumption DEF IInv, TypeOK, Track, Inflight, Record
<1>3. RecordsAreUnanswered'
  <2>1. \A k \in Nonce : k # sending.nonce => table'[k] = table[k]
    BY <1>1 DEF IInv, TypeOK, Inflight
  <2> QED BY <2>1 DEF IInv, RecordsAreUnanswered, SendingUntracked, Unanswered, Track
<1>4. SendingUntracked'
  BY DEF SendingUntracked, Track
<1> QED BY <1>2, <1>3, <1>4 DEF IInv

\* An ack takes the record with it; the one that finds none is early or stray.
LEMMA HearInvariant ==
  ASSUME IInv, NEW m \in net, Hear(m)
  PROVE  IInv'
<1>1. m \in Datagram /\ m.nonce \in Nonce
  BY DEF IInv, TypeOK, Datagram
<1>2. \A k \in Nonce : table'[k] = IF k = m.nonce THEN None ELSE table[k]
  BY DEF IInv, TypeOK, Inflight, Hear, Done
<1>3. \A k \in Nonce : k # m.nonce => fate'[k] = fate[k]
  BY DEF IInv, TypeOK, Hear
<1>4. fate'[m.nonce] = IF table[m.nonce] # None THEN "answered"
                       ELSE IF sending # None /\ sending.nonce = m.nonce THEN "early"
                       ELSE "stray"
  BY <1>1 DEF IInv, TypeOK, Hear
<1>5. TypeOK'
  BY <1>1, TablesStayTables DEF IInv, TypeOK, Hear, Fate
<1>6. RecordsAreUnanswered'
  BY <1>2, <1>3 DEF IInv, RecordsAreUnanswered
<1>7. SendingUntracked'
  <2> SUFFICES ASSUME sending # None
               PROVE  table'[sending.nonce] = None /\ fate'[sending.nonce] \in Unanswered
    BY DEF SendingUntracked, Hear
  <2>1. /\ sending.nonce \in Nonce /\ table[sending.nonce] = None
        /\ fate[sending.nonce] \in Unanswered
    BY DEF IInv, TypeOK, SendingUntracked
  <2> QED BY <1>2, <1>3, <1>4, <2>1 DEF Unanswered
<1> QED BY <1>5, <1>6, <1>7 DEF IInv

\* What becomes of a datagram that does not reach the loop's table.
LEMMA AstrayInvariant ==
  ASSUME IInv, NEW m \in net, Answer(m) \/ HearLate(m) \/ Lose(m)
  PROVE  IInv'
<1>1. m \in Datagram
  BY DEF IInv, TypeOK
<1>2. TypeOK'
  BY <1>1 DEF IInv, TypeOK, Answer, HearLate, Lose, Datagram, Fate
<1>3. \A k \in Nonce : fate'[k] = fate[k] \/ fate'[k] \in Unanswered
  BY DEF IInv, TypeOK, Answer, HearLate, Lose, Unanswered
<1>4. table' = table /\ sending' = sending
  BY DEF Answer, HearLate, Lose
<1>5. RecordsAreUnanswered'
  BY <1>3, <1>4 DEF IInv, RecordsAreUnanswered, Unanswered
<1>6. SendingUntracked'
  BY <1>3, <1>4 DEF IInv, TypeOK, SendingUntracked
<1> QED BY <1>2, <1>5, <1>6 DEF IInv

\* The manager and the clock.
LEMMA ReapInvariant ==
  ASSUME IInv, Reap \/ Tick \/ UNCHANGED vars
  PROVE  IInv'
<1>1. TypeOK'
  BY TablesStayTables DEF IInv, TypeOK, Reap, Tick, vars
<1>2. UNCHANGED <<table, sending, fate>>
  BY DEF Reap, Tick, vars
<1>3. RecordsAreUnanswered' /\ SendingUntracked'
  BY <1>2 DEF IInv, RecordsAreUnanswered, SendingUntracked
<1> QED BY <1>1, <1>3 DEF IInv

\* A change of mode starts with an empty table.
LEMMA SwitchInvariant ==
  ASSUME IInv, ToGossip \/ ToPingAck
  PROVE  IInv'
<1>1. \A n \in Nonce : table'[n] = None
  BY DEF ToGossip, ToPingAck, NewInflight
<1>2. TypeOK'
  <2>1. NewInflight \in Inflight
    BY TablesStayTables DEF IInv, TypeOK
  <2>2. usePingTimeout' \in BOOLEAN
    BY DEF ToGossip, ToPingAck
  <2>3. sending' \in [nonce : Nonce, peer : Peer] \cup {None}
    BY DEF IInv, TypeOK, ToGossip, ToPingAck
  <2>4. /\ table' \in Inflight /\ shared' \in Inflight
        /\ stopped' \in Nat /\ switches' \in Nat
    BY <2>1 DEF IInv, TypeOK, ToGossip, ToPingAck
  <2>5. UNCHANGED <<now, net, fate, marked, reapedAt>>
    BY DEF ToGossip, ToPingAck
  <2> QED BY <2>2, <2>3, <2>4, <2>5 DEF IInv, TypeOK
<1>3. RecordsAreUnanswered'
  BY <1>1 DEF RecordsAreUnanswered
<1>4. SendingUntracked'
  <2>1. fate' = fate /\ (sending' # None => sending' = sending /\ sending.nonce \in Nonce)
    BY DEF IInv, TypeOK, ToGossip, ToPingAck
  <2> QED BY <1>1, <2>1 DEF IInv, SendingUntracked
<1> QED BY <1>2, <1>3, <1>4 DEF IInv

LEMMA StepInvariant == IInv /\ [Next]_vars => IInv'
<1> SUFFICES ASSUME IInv, [Next]_vars PROVE IInv'
  OBVIOUS
<1>1. CASE \E n \in Nonce, p \in Peer : Ping(n, p)
  BY <1>1, PingInvariant
<1>2. CASE Track
  BY <1>2, TrackInvariant
<1>3. CASE \E m \in net : Answer(m) \/ Hear(m) \/ HearLate(m) \/ Lose(m)
  BY <1>3, HearInvariant, AstrayInvariant
<1>4. CASE Reap \/ Tick \/ UNCHANGED vars
  BY <1>4, ReapInvariant
<1>5. CASE ToGossip \/ ToPingAck
  BY <1>5, SwitchInvariant
<1> QED BY <1>1, <1>2, <1>3, <1>4, <1>5 DEF Next

LEMMA Invariance == Spec => []IInv
BY InitInvariant, StepInvariant, PTL DEF Spec

-----------------------------------------------------------------------------
(* Theorems.                                                               *)

\* Both nonce tables, the ping between socket and table and the datagrams stay what they
\* are declared to be, through losses, mode changes and receivers of stopped loops.
THEOREM PingTypeCorrect == Spec => []TypeOK
<1>1. IInv => TypeOK
  BY DEF IInv
<1> QED BY <1>1, Invariance, PTL

\* A ping whose ack found its record has none: Done is not undone by an Add that comes
\* after it, nor by a change of the mode.
THEOREM AnsweredPingsForgotten == Spec => []RecordsAreUnanswered
<1>1. IInv => RecordsAreUnanswered
  BY DEF IInv
<1> QED BY <1>1, Invariance, PTL

=============================================================================
