------------------------------ MODULE PingTable ------------------------------
(***************************************************************************)
(* The nonces of unanswered pings (pkg/protocol/common/inflight.go), the   *)
(* ping loop that adds them, the receive loop that takes them out, and the *)
(* suspicion manager that looks for the overdue ones - in another table:   *)
(* the daemon hands the manager its own, and every ping-ack loop makes one *)
(* for itself.                                                             *)
(*                                                                         *)
(* The ping goes out before its nonce is added, so the answer may come     *)
(* first.  Switching to gossip drops the loop with its table and clears    *)
(* the daemon's; switching back makes a new loop with an empty one.        *)
(***************************************************************************)
EXTENDS Naturals

CONSTANTS
  Nonce,     \* nonces, drawn at random from 2^64: none is drawn twice
  Peer,
  TSuspect,  \* time to live of a record
  None,
  \* bounds of the model
  MaxNow, MaxSwitches

ASSUME PingAssumption ==
  /\ None \notin Nonce
  /\ TSuspect \in Nat /\ MaxNow \in Nat /\ MaxSwitches \in Nat

VARIABLES
  now,
  usePingTimeout,  \* the manager's switch: the mode is ping-ack, and a loop runs
  table,           \* Inflight of the loop
  shared,          \* Inflight of the daemon and the manager
  sending,         \* the ping written to the socket and not yet in the table
  net,             \* pings and acks on their way
  fate,            \* history, per nonce: what became of its ack
  marked,          \* peers the manager has marked because of an overdue ping
  reapedAt,        \* time of the last reapInflight
  stopped,         \* receivers of stopped loops that are still blocked in Read
  switches         \* mode changes so far

vars == <<now, usePingTimeout, table, shared, sending, net, fate, marked, reapedAt,
          stopped, switches>>

Record == [deadline : Nat, addr : Peer]
Inflight == [Nonce -> Record \cup {None}]
Datagram == [type : {"ping", "ack"}, nonce : Nonce, peer : Peer]

\* unsent; travelling, it or its ping; overtook the Add; taken by a loop that has no
\* record of it; answered, after the Add; lost, it or its ping.
Fate == {"unsent", "travelling", "early", "stray", "answered", "lost"}

TypeOK ==
  /\ now \in Nat /\ reapedAt \in Nat /\ stopped \in Nat /\ switches \in Nat
  /\ usePingTimeout \in BOOLEAN
  /\ table \in Inflight /\ shared \in Inflight
  /\ sending \in [nonce : Nonce, peer : Peer] \cup {None}
  /\ net \subseteq Datagram
  /\ fate \in [Nonce -> Fate]
  /\ marked \subseteq Peer

-----------------------------------------------------------------------------
NewInflight == [n \in Nonce |-> None]

Add(t, nonce, ttl, addr) == [t EXCEPT ![nonce] = [deadline |-> now + ttl, addr |-> addr]]

\* Mutants: the record stays; it stays without its address.
DoneOnlyLooks(t, nonce) == t

DoneInPlace(t, nonce) ==
  IF t[nonce] = None THEN t ELSE [t EXCEPT ![nonce].addr = None]

Done(t, nonce) == [t EXCEPT ![nonce] = None]

Overdue(t) == {n \in Nonce : t[n] # None /\ now > t[n].deadline}

\* What Expired leaves in the table.
Expired(t) == [n \in Nonce |-> IF n \in Overdue(t) THEN None ELSE t[n]]

-----------------------------------------------------------------------------
Init ==
  /\ now = 1 /\ reapedAt = 0 /\ stopped = 0 /\ switches = 0
  /\ usePingTimeout = TRUE
  /\ table = NewInflight /\ shared = NewInflight
  /\ sending = None
  /\ net = {}
  /\ fate = [n \in Nonce |-> "unsent"]
  /\ marked = {}

\* pingLoop writes a ping to the socket ...
Ping(nonce, peer) ==
  /\ usePingTimeout
  /\ sending = None
  /\ fate[nonce] = "unsent"
  /\ sending' = [nonce |-> nonce, peer |-> peer]
  /\ net' = net \cup {[type |-> "ping", nonce |-> nonce, peer |-> peer]}
  /\ fate' = [fate EXCEPT ![nonce] = "travelling"]
  /\ UNCHANGED <<now, usePingTimeout, table, shared, marked, reapedAt, stopped, switches>>

\* ... and then tracks it.
Track ==
  /\ sending # None
  /\ table' = Add(table, sending.nonce, TSuspect, sending.peer)
  /\ sending' = None
  /\ UNCHANGED <<now, usePingTimeout, shared, net, fate, marked, reapedAt, stopped, switches>>

\* The peer hears the ping and answers it.
Answer(m) ==
  /\ m \in net /\ m.type = "ping"
  /\ net' = (net \ {m}) \cup {[m EXCEPT !.type = "ack"]}
  /\ UNCHANGED <<now, usePingTimeout, table, shared, sending, fate, marked, reapedAt, stopped, switches>>

\* The receive loop takes an ack.  A gossip loop has no table to look it up in.
Hear(m) ==
  /\ m \in net /\ m.type = "ack"
  /\ net' = net \ {m}
  /\ table' = Done(table, m.nonce)
  /\ fate' = [fate EXCEPT ![m.nonce] =
                IF table[m.nonce] # None THEN "answered"
                ELSE IF sending # None /\ sending.nonce = m.nonce THEN "early"
                ELSE "stray"]
  /\ UNCHANGED <<now, usePingTimeout, shared, sending, marked, reapedAt, stopped, switches>>

\* A loop that has been stopped takes one more ack, away from its successor.
HearLate(m) ==
  /\ stopped > 0
  /\ m \in net /\ m.type = "ack"
  /\ stopped' = stopped - 1
  /\ net' = net \ {m}
  /\ fate' = [fate EXCEPT ![m.nonce] = "stray"]
  /\ UNCHANGED <<now, usePingTimeout, table, shared, sending, marked, reapedAt, switches>>

Lose(m) ==
  /\ m \in net
  /\ net' = net \ {m}
  /\ fate' = [fate EXCEPT ![m.nonce] = "lost"]
  /\ UNCHANGED <<now, usePingTimeout, table, shared, sending, marked, reapedAt, stopped, switches>>

\* The manager's ticker in ping-ack mode: reapInflight.
Reap ==
  /\ usePingTimeout
  /\ reapedAt # now
  /\ shared' = Expired(shared)
  /\ marked' = marked \cup {shared[n].addr : n \in Overdue(shared)}
  /\ reapedAt' = now
  /\ UNCHANGED <<now, usePingTimeout, table, sending, net, fate, stopped, switches>>

\* applyRuntime: from ping-ack to gossip.  The loop is dropped, also by a sender that
\* is about to track a ping; the daemon's table is reset.
ToGossip ==
  /\ usePingTimeout
  /\ switches < MaxSwitches
  /\ usePingTimeout' = FALSE
  /\ table' = NewInflight /\ shared' = NewInflight
  /\ sending' = None
  /\ switches' = switches + 1 /\ stopped' = stopped + 1
  /\ UNCHANGED <<now, net, fate, marked, reapedAt>>

\* applyRuntime: back to ping-ack.
ToPingAck ==
  /\ ~usePingTimeout
  /\ switches < MaxSwitches
  /\ usePingTimeout' = TRUE
  /\ table' = NewInflight
  /\ switches' = switches + 1 /\ stopped' = stopped + 1
  /\ UNCHANGED <<now, shared, sending, net, fate, marked, reapedAt>>

Tick ==
  /\ now < MaxNow
  /\ now' = now + 1
  /\ UNCHANGED <<usePingTimeout, table, shared, sending, net, fate, marked, reapedAt, stopped, switches>>

Next ==
  \/ \E n \in Nonce, p \in Peer : Ping(n, p)
  \/ Track
  \/ \E m \in net : Answer(m) \/ Hear(m) \/ HearLate(m) \/ Lose(m)
  \/ Reap \/ ToGossip \/ ToPingAck \/ Tick

Spec == Init /\ [][Next]_vars

-----------------------------------------------------------------------------
(* Properties.                                                             *)

\* A record stands for a ping that may still be answered, whose answer was lost or
\* overtook the Add, or went to the loop before; a ping whose ack found its record
\* leaves nothing behind, also across the mode changes that replace the table.
RecordsAreUnanswered ==
  \A n \in Nonce : table[n] # None => fate[n] \in {"travelling", "lost", "early", "stray"}

\* manager.go:124: reapInflight looks at the pings whose "nonce expired (no ACK)", in
\* the table daemon.go:35 calls "shared": it leaves none of them behind.
ReapLeavesNoneOverdue == reapedAt = now => Overdue(table) = {}

=============================================================================
