\* Gossip without suspicion; a process of three crashes for good.
SPECIFICATION FairSpec
CONSTANTS
  i = i
  a = a
  b = b
  Absent = Absent
  Introducer = i
  Skew <- NoSkew
  Node = {i, a, b}
  Mode = "gossip"
  Fanout = 3
  TSuspect = 0
  TFail = 4
  TCleanup = 1
  Crashers = {b}
  Leavers = {}
  MaxClock = 0
  MaxBoot = 1
  MaxInc = 100
  MaxInFlight = 9
  Period = 3
  MaxFaults = 0
INVARIANT AccusedOnlyAfterLoss
PROPERTY CrashedForgotten
\* Every process may have crashed.
CHECK_DEADLOCK FALSE
