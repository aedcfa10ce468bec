--------------------------- MODULE FailureDetection ---------------------------
(***************************************************************************)
(* The cluster of GroupMembership with time passing at the same pace for   *)
(* everybody: what the thresholds are for.                                 *)
(*                                                                         *)
(* Time goes by in scan intervals, 100 ms in manager.Run.  In each one     *)
(* every process scans once, every sender loop whose period is over sends  *)
(* once, and every datagram sent arrives or is lost, in any order of all   *)
(* these.  Instead of counting the clock up, the stamps are counted down:  *)
(* clock stays at the age at which the scan removes a row, and stamps at 0 *)
(* are that old or older.                                                  *)
(***************************************************************************)
EXTENDS GroupMembership

CONSTANTS
  Period,      \* period of the sender loop, in scan intervals
  MaxFaults    \* bound: datagrams lost and connections broken

ASSUME PeriodAssumption == Period \in Nat \ {0} /\ MaxFaults \in Nat

VARIABLES
  scanned,     \* processes that have scanned in this interval
  due,         \* due[n]: intervals until the sender loop of n ticks
  faults       \* datagrams lost and connections broken so far

timed == <<vars, scanned, due, faults>>

RemovalAge == TSuspect + TFail + TCleanup

Older(tbl) ==
  [p \in Node |-> IF tbl[p] = Absent THEN Absent
                  ELSE [tbl[p] EXCEPT !.lu = IF @ = 0 THEN 0 ELSE @ - 1]]

-----------------------------------------------------------------------------
\* The processes in Founders have just heard of each other, the sender loops are at
\* any point of their periods.
TimedInit(Founders) ==
  LET row(p) == [boot |-> 1, inc |-> InitialIncarnation, state |-> "Alive", lu |-> RemovalAge]
  IN  /\ clock = RemovalAge
      /\ boot = [n \in Node |-> IF n \in Founders THEN 1 ELSE 0]
      /\ phase = [n \in Node |-> IF n \in Founders THEN "running" ELSE "down"]
      /\ table = [n \in Node |->
                    IF n \in Founders
                    THEN [p \in Node |-> IF p \in Founders THEN row(p) ELSE Absent]
                    ELSE EmptyTable]
      /\ scan = [n \in Node |-> NoPending]
      /\ leave = [n \in Node |-> Absent]
      /\ recv = [n \in Node |-> IF n \in Founders THEN "reading" ELSE "off"]
      /\ held = [n \in Node |-> Absent]
      /\ conn = [n \in Node |-> Absent]
      /\ net = {}
      /\ leftBoots = {}
      /\ scanned = {}
      /\ due \in [Node -> 0 .. Period - 1]
      /\ faults = 0

\* An interval ends when everything that is to happen in it has happened: only joiners
\* without an introducer, and the datagrams queued in their sockets, wait longer.
Elapse ==
  /\ \A m \in net : phase[m.dst] = "joining"
  /\ \A n \in Node :
       /\ Up(n) => n \in scanned /\ scan[n] = NoPending
       /\ phase[n] = "running" => recv[n] = "reading" /\ due[n] > 0
       /\ phase[n] = "joining" => phase[Introducer] # "running"
       /\ conn[n] # Absent => phase[n] = "down" /\ conn[n].stage = "response"
  /\ table' = [n \in Node |-> Older(table[n])]
  /\ net' = {[m EXCEPT !.list = Older(@)] : m \in net}
  /\ due' = [n \in Node |-> IF due[n] = 0 THEN 0 ELSE due[n] - 1]
  /\ scanned' = {}
  /\ UNCHANGED <<clock, boot, phase, scan, leave, recv, held, conn, leftBoots, faults>>

Scan(n) ==
  /\ n \notin scanned
  /\ ScanBegin(n)
  /\ scanned' = scanned \cup {n}
  /\ UNCHANGED <<due, faults>>

\* Mutant: the ticker is set anew after every tick and misses the next one.
SendsLate(n) ==
  /\ due[n] = 0
  /\ SendPeriod(n)
  /\ due' = [due EXCEPT ![n] = 2 * Period]
  /\ UNCHANGED <<scanned, faults>>

SendDue(n) ==
  /\ due[n] = 0
  /\ SendPeriod(n)
  /\ due' = [due EXCEPT ![n] = Period]
  /\ UNCHANGED <<scanned, faults>>

\* Every datagram is delivered once ...
Deliver(n) ==
  /\ \E m \in net : ReadDatagram(n, m) /\ net' = net \ {m}
  /\ UNCHANGED <<scanned, due, faults>>

\* ... if there is a process to receive it ...
Vanish(m) ==
  /\ phase[m.dst] = "down"
  /\ Lose(m)
  /\ UNCHANGED <<scanned, due, faults>>

\* ... and it is not one of those that are lost.
LoseOne(m) ==
  /\ faults < MaxFaults
  /\ Lose(m)
  /\ faults' = faults + 1
  /\ UNCHANGED <<scanned, due>>

BreakOne(n) ==
  /\ faults < MaxFaults
  /\ JoinBreak(n)
  /\ faults' = faults + 1
  /\ UNCHANGED <<scanned, due>>

CrashNow(n) ==
  /\ Crash(n)
  /\ scanned' = scanned \ {n}
  /\ UNCHANGED <<due, faults>>

\* The loops of a process that starts tick at any point of the period.
StartNow(n) ==
  /\ Start(n)
  /\ \E d \in 1 .. Period : due' = [due EXCEPT ![n] = d]
  /\ UNCHANGED <<scanned, faults>>

Untimed(A) == A /\ UNCHANGED <<scanned, due, faults>>

JoinStep(n) == Untimed(JoinRequest(n) \/ JoinMerge(n) \/ JoinRespond(n) \/ JoinFinish(n))

StoreStep(n) == Untimed(Merge(n) \/ Reply(n) \/ \E p \in Node : ScanStep(n, p))

\* What happens of itself, and what need not happen.
Progress ==
  \/ Elapse
  \/ \E n \in Node : Scan(n) \/ SendDue(n) \/ Deliver(n) \/ JoinStep(n) \/ StoreStep(n)
  \/ \E m \in net : Vanish(m)

Faults ==
  \/ \E n \in Node : CrashNow(n) \/ StartNow(n) \/ BreakOne(n)
  \/ \E m \in net : LoseOne(m)

TimedNext == Progress \/ Faults

TimedSpec == TimedInit(Node) /\ [][TimedNext]_timed

\* The goroutines and the clock go on.  Nothing is said of crashes, restarts and losses.
TimedFairness == WF_timed(Progress)

-----------------------------------------------------------------------------
(* Properties.                                                             *)

\* As long as no datagram was lost, nobody accuses a process that has been there from
\* the start, in whatever order scans, sends and merges of an interval happen.
AccusedOnlyAfterLoss ==
  faults = 0 =>
    \A n, p \in Node :
      Up(p) /\ boot[p] = 1 /\ table[n][p] # Absent => table[n][p].state = "Alive"

\* A process that has crashed for good is in the end in nobody's table, and stays out of
\* them, although its row comes back with the lists of those that scan later: TCleanup
\* is the "time since Failed/Left before we delete" (manager.go:18).  It takes periods
\* longer than the scan's: with a list in every interval the row may come back for ever.
CrashedForgotten ==
  \A p \in Node :
    <>[](~Up(p)) => <>[](\A n \in Node : Up(n) => table[n][p] = Absent)

\* When no process crashes any more, each has every other as Alive in the end, also the
\* ones that were Suspect or Failed because of lost heartbeats, and the ones that came
\* back under a new boot while their old row was being condemned.
EverybodyAlive ==
  (\A n \in Node : <>[](phase[n] = "running"))
    => <>[](\A n, p \in Node : /\ table[n][p] # Absent
                               /\ table[n][p].boot = boot[p]
                               /\ table[n][p].state = "Alive")

=============================================================================
