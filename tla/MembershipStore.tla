--------------------------- MODULE MembershipStore ---------------------------
(***************************************************************************)
(* The data of pkg/store and the rule of pkg/suspicion, as operators on    *)
(* one membership table: what a merge, a snapshot, an apply and a self     *)
(* bump do to the row of one endpoint, and what a scan decides about it.   *)
(*                                                                         *)
(* A table is a function from endpoints (Node) to rows: the Go map is      *)
(* keyed by ID.EP.EndpointToString(), so it holds at most one row per      *)
(* endpoint, and a missing key is the value Absent.  A NodeID is an        *)
(* endpoint with a boot stamp; the endpoint is the key, the row keeps the  *)
(* stamp in its field boot.  Stamps of one endpoint are only ever compared *)
(* with each other, so they are the ordinals 1, 2, ... of its boots.       *)
(***************************************************************************)
EXTENDS Integers

CONSTANTS
  Node,       \* endpoints
  Absent,     \* no row, no message, no pending work
  TSuspect,   \* 0 disables suspicion
  TFail,
  TCleanup

\* What config.ValidateClusterParams lets through.
ASSUME ThresholdAssumption ==
  /\ TSuspect \in Nat
  /\ TFail \in Nat \ {0}
  /\ TCleanup \in Nat \ {0}

\* StateUnknown is never stored.
State == {"Alive", "Suspect", "Failed", "Left"}

Entry == [boot : Nat, inc : Nat, state : State, lu : Nat]

ASSUME AbsentAssumption == Absent \notin Entry

Row == Entry \cup {Absent}

Table == [Node -> Row]

EmptyTable == [p \in Node |-> Absent]

SuspicionEnabled == TSuspect # 0

InitialIncarnation == 100

\* The table New builds for the boot b of endpoint n.
NewTable(n, b, now) ==
  [EmptyTable EXCEPT ![n] =
     [boot |-> b, inc |-> InitialIncarnation, state |-> "Alive", lu |-> now]]

-----------------------------------------------------------------------------
(* Snapshot: a copy of the table, taken after the heartbeat of the local   *)
(* row is refreshed.  The refresh is a write, so every reader of the list  *)
(* (sender loops, scanner, admin handlers, the Left check of the receive   *)
(* loops) is a heartbeat of its node.                                      *)

IsSelf(p, e, n, b) == p = n /\ e.boot = b

Refreshed(tbl, n, b, now) ==
  [p \in Node |->
     IF tbl[p] # Absent /\ IsSelf(p, tbl[p], n, b) /\ tbl[p].state # "Left"
     THEN [tbl[p] EXCEPT !.lu = now]
     ELSE tbl[p]]

\* Mutant: any state but Alive counts as left.
SelfNotAlive(tbl, n, b) ==
  tbl[n] # Absent /\ tbl[n].boot = b /\ tbl[n].state # "Alive"

SelfLeft(tbl, n, b) ==
  tbl[n] # Absent /\ tbl[n].boot = b /\ tbl[n].state = "Left"

-----------------------------------------------------------------------------
(* apply: the row found under the endpoint is overwritten; the boot of the *)
(* NodeID it is called with is not looked at.                              *)

\* Mutants: the caller's + 1 of /leave moved into apply; every apply a heartbeat.
AppliedWithBump(e, inc, st, now) ==
  IF e = Absent THEN Absent
  ELSE [e EXCEPT !.state = st, !.inc = inc + 1, !.lu = IF st = "Left" THEN now ELSE @]

AppliedAsHeartbeat(e, inc, st, now) ==
  IF e = Absent THEN Absent ELSE [e EXCEPT !.state = st, !.inc = inc, !.lu = now]

Applied(e, inc, st, now) ==
  IF e = Absent
  THEN Absent
  ELSE [boot |-> e.boot, inc |-> inc, state |-> st,
        lu |-> IF st \in {"Alive", "Left"} THEN now ELSE e.lu]

selfBumpIncarnation(e, now) ==
  [boot |-> e.boot, inc |-> e.inc + 1, state |-> "Alive", lu |-> now]

normalizeBoot(e, now) == [e EXCEPT !.lu = now]

-----------------------------------------------------------------------------
(* updateMemberEntry: the stored row e meets the incoming row m, own says  *)
(* that the row is the local endpoint's, b is the local boot.              *)

Accuses(e, m, own, b) ==
  /\ SuspicionEnabled
  /\ own
  /\ m.boot = b
  /\ m.inc = e.inc
  /\ m.state \in {"Suspect", "Failed"}

\* Mutant: equal heartbeats are taken for news.
NotStaler(e, m) ==
  IF SuspicionEnabled
  THEN m.inc > e.inc \/ (m.inc = e.inc /\ m.lu >= e.lu)
  ELSE m.lu >= e.lu

Fresher(e, m) ==
  IF SuspicionEnabled
  THEN m.inc > e.inc \/ (m.inc = e.inc /\ m.lu > e.lu)
  ELSE m.lu > e.lu

SameBoot(e, m, own, b, now) ==
  IF Accuses(e, m, own, b) THEN selfBumpIncarnation(e, now)
  ELSE IF Fresher(e, m) THEN m
  ELSE e

\* Mutants: the comparison of the boots is swapped; the stamp of the newer boot is
\* written into the old row instead of replacing it; a row that was not there gets
\* the receiver's stamp.
olderBootWins(e, m, own, b, now) ==
  IF m = Absent THEN e
  ELSE IF e = Absent THEN m
  ELSE IF m.boot < e.boot THEN normalizeBoot(m, now)
  ELSE IF m.boot > e.boot THEN e
  ELSE SameBoot(e, m, own, b, now)

restampsOldRow(e, m, own, b, now) ==
  IF m = Absent THEN e
  ELSE IF e = Absent THEN m
  ELSE IF m.boot > e.boot THEN [normalizeBoot(m, now) EXCEPT !.state = e.state]
  ELSE IF m.boot < e.boot THEN e
  ELSE SameBoot(e, m, own, b, now)

restampsUnknownRow(e, m, own, b, now) ==
  IF m = Absent THEN e
  ELSE IF e = Absent \/ m.boot > e.boot THEN normalizeBoot(m, now)
  ELSE IF m.boot < e.boot THEN e
  ELSE SameBoot(e, m, own, b, now)

updateMemberEntry(e, m, own, b, now) ==
  IF m = Absent THEN e
  ELSE IF e = Absent THEN m
  ELSE IF m.boot > e.boot THEN normalizeBoot(m, now)
  ELSE IF m.boot < e.boot THEN e
  ELSE SameBoot(e, m, own, b, now)

\* Mutant: every row of the list overwrites the one that is there.
OverwriteList(tbl, list, n, b, now) ==
  [p \in Node |-> IF list[p] = Absent THEN tbl[p] ELSE list[p]]

\* The incoming list is some node's Snapshot, hence a table: at most one row
\* per endpoint, so the rows are merged independently of each other.
MergeFullList(tbl, list, n, b, now) ==
  [p \in Node |-> updateMemberEntry(tbl[p], list[p], p = n, b, now)]

-----------------------------------------------------------------------------
(* The decision of suspicion.Manager.scanOnce about one row of its         *)
(* snapshot.  With suspicion disabled TSuspect is 0 and the two branches   *)
(* of the code differ only in the states that may still become Failed.     *)

MayFail == IF SuspicionEnabled THEN {"Alive", "Suspect"} ELSE State \ {"Failed"}

Verdict(e, self, now) ==
  LET age == now - e.lu
  IN  IF e.state = "Left" /\ age >= TCleanup THEN "Remove"
      ELSE IF self THEN "Keep"
      ELSE IF age >= TSuspect + TFail + TCleanup THEN "Remove"
      ELSE IF age >= TSuspect + TFail /\ e.state \in MayFail THEN "Failed"
      ELSE IF SuspicionEnabled /\ age >= TSuspect /\ e.state = "Alive" THEN "Suspect"
      ELSE "Keep"

=============================================================================
