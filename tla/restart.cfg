\* Suspicion disabled, ping-ack: a process leaves or crashes, and comes back.
SPECIFICATION Spec
CONSTANTS
  i = i
  a = a
  Absent = Absent
  Introducer = i
  Skew <- IntroducerAhead
  Node = {i, a}
  Mode = "pingack"
  Fanout = 1
  TSuspect = 0
  TFail = 1
  TCleanup = 1
  Crashers = {a}
  Leavers = {a}
  MaxClock = 1
  MaxBoot = 2
  MaxInc = 101
  MaxInFlight = 1
INVARIANTS SelfEntryIntact OwnHeartbeatIsFreshest LeftOnlyOnRequest
PROPERTIES BootNeverRegresses OwnLeftIsFinal NoHeartbeatAfterEnd ImplementsView
\* Every process may have exited for good, and the counters are bounded.
CHECK_DEADLOCK FALSE
