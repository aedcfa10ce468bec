\* Suspicion enabled, two processes from a cold start.
SPECIFICATION Spec
CONSTANTS
  i = i
  a = a
  Absent = Absent
  Introducer = i
  Skew <- NoSkew
  Node = {i, a}
  Mode = "gossip"
  Fanout = 1
  TSuspect = 1
  TFail = 1
  TCleanup = 1
  Crashers = {}
  Leavers = {}
  MaxClock = 2
  MaxBoot = 1
  MaxInc = 101
  MaxInFlight = 1
INVARIANTS TypeOK SelfNotAccused OwnIncarnationIsHighest
\* Every process may have exited for good, and the counters are bounded.
CHECK_DEADLOCK FALSE
