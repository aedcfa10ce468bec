\* Two goroutines in applyRuntime.
SPECIFICATION Spec
CONSTANTS
  Suspicions = {0}
  Knobs = {k}
  Invalid = Invalid
  Nil = Nil
  IsIntroducer = TRUE
  Applier = {t1, t2}
  JoinVersions = {}
  MaxVersion = 3
  MaxLoops = 4
INVARIANT OneLoopRuns
CHECK_DEADLOCK FALSE
