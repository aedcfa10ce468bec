\* Two pings, two peers, three mode changes.
SPECIFICATION Spec
CONSTANTS
  n1 = n1
  n2 = n2
  p = p
  q = q
  Nonce = {n1, n2}
  Peer = {p, q}
  None = None
  TSuspect = 1
  MaxNow = 4
  MaxSwitches = 3
INVARIANTS TypeOK RecordsAreUnanswered
CHECK_DEADLOCK FALSE
