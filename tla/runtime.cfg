\* A process that joins, two goroutines that change the configuration.
SPECIFICATION FairSpec
CONSTANTS
  Suspicions = {0}
  Knobs = {k}
  Invalid = Invalid
  Nil = Nil
  IsIntroducer = FALSE
  Applier = {t1, t2}
  JoinVersions = {1, 2}
  MaxVersion = 3
  MaxLoops = 4
INVARIANTS TypeOK RuntimeFollowsConfig NeverPanics StoppedLoopTakesOneMore
PROPERTIES ImplementsRegister Settles
CHECK_DEADLOCK FALSE
