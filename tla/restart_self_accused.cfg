\* Suspicion enabled, a process crashes and restarts.
SPECIFICATION Spec
CONSTANTS
  i = i
  a = a
  Absent = Absent
  Introducer = i
  Skew <- NoSkew
  Node = {i, a}
  Mode = "gossip"
  Fanout = 1
  TSuspect = 1
  TFail = 1
  TCleanup = 1
  Crashers = {a}
  Leavers = {}
  MaxClock = 2
  MaxBoot = 2
  MaxInc = 101
  MaxInFlight = 1
INVARIANT AccusationsAreRefuted
\* Every process may have exited for good, and the counters are bounded.
CHECK_DEADLOCK FALSE
