\* A process whose introducer may answer with a newer configuration.
SPECIFICATION Spec
CONSTANTS
  Suspicions = {0}
  Knobs = {k}
  Invalid = Invalid
  Nil = Nil
  IsIntroducer = FALSE
  Applier = {}
  JoinVersions = {1, 2}
  MaxVersion = 2
  MaxLoops = 2
PROPERTY StartsCurrentProtocol
CHECK_DEADLOCK FALSE
