\* A node that is not the introducer is the admin; the others crash and rejoin.
SPECIFICATION BoundedSpec
CONSTANTS
  i = i
  a = a
  b = b
  Node = {i, a, b}
  Introducer = i
  Absent = Absent
  Invalid = Invalid
  k1 = k1
  k2 = k2
  Knobs = {k1, k2}
  Suspicions = {1}
  Flags <- SameFlags
  File <- Files
  Admins = {a}
  Crashers = {i, b}
  MaxVersion = 3
  Spare = b
  CalmJoins = TRUE
INVARIANTS TypeOK OneConfigPerVersion
PROPERTY Converges
CHECK_DEADLOCK FALSE
