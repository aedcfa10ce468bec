\* Suspicion disabled, a process leaves.
SPECIFICATION Spec
CONSTANTS
  i = i
  a = a
  Absent = Absent
  Introducer = i
  Skew <- NoSkew
  Node = {i, a}
  Mode = "gossip"
  Fanout = 1
  TSuspect = 0
  TFail = 1
  TCleanup = 2
  Crashers = {}
  Leavers = {a}
  MaxClock = 2
  MaxBoot = 1
  MaxInc = 101
  MaxInFlight = 1
PROPERTY LeftIsTerminal
\* Every process may have exited for good, and the counters are bounded.
CHECK_DEADLOCK FALSE
