\* Ping-ack with suspicion; crash, restart and up to two losses.
SPECIFICATION FairSpec
CONSTANTS
  i = i
  a = a
  Absent = Absent
  Introducer = i
  Skew <- NoSkew
  Node = {i, a}
  Mode = "pingack"
  Fanout = 3
  TSuspect = 3
  TFail = 2
  TCleanup = 2
  Crashers = {a}
  Leavers = {}
  MaxClock = 0
  MaxBoot = 2
  MaxInc = 103
  MaxInFlight = 9
  Period = 2
  MaxFaults = 2
INVARIANT AccusedOnlyAfterLoss
PROPERTY EverybodyAlive
\* Every process may have crashed.
CHECK_DEADLOCK FALSE
