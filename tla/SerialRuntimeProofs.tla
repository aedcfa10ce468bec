-------------------------- MODULE SerialRuntimeProofs --------------------------
(***************************************************************************)
(* Configuration changes that do not overlap leave the daemon as           *)
(* configured: for any number of goroutines, loops, versions and settings. *)
(***************************************************************************)
EXTENDS SerialRuntime, DaemonRuntimeProofs

\* One goroutine at a time is in applyRuntime or startProtocol, for the configuration in
\* force: that of the join, of Run, or one that serves.
OneAtATime ==
  /\ \A t, u \in Thread : task[t] # Nil /\ task[u] # Nil => t = u
  /\ \A t \in Thread : task[t] # Nil =>
       /\ task[t].next = cfg
       /\ \/ t = "main" /\ main = "applying" /\ task[t].whole
          \/ t = "main" /\ main = "starting" /\ ~task[t].whole
          \/ t # "main" /\ main = "serving" /\ task[t].whole

\* What applyRuntime has made of the daemon when the access task[t].at is next.
StageReached(t) ==
  /\ task[t].at = "decide" => IF task[t].restart THEN Mine(t) = Nil ELSE Theirs(t) = Nil
  /\ task[t].at = "tune" => Mine(t) # Nil /\ Theirs(t) = Nil
  /\ task[t].at = "stop" => Mine(t) = Nil
  /\ task[t].at = "forget" => Mine(t) = Nil /\ Theirs(t) # Nil
  /\ task[t].at = "create" => Mine(t) = Nil /\ Theirs(t) = Nil
  /\ task[t].at \in {"equip", "run", "manager", "store", "refresh"} =>
       Mine(t) # Nil /\ Theirs(t) = Nil /\ loop[Mine(t)].tuned = cfg
  /\ task[t].at \in {"equip", "run"} =>
       loop[Mine(t)].receivers = 0 /\ task[t].from # Mine(t)
  /\ task[t].at = "run" => loop[Mine(t)].dto = cfg
  /\ task[t].at \in {"store", "refresh"} \/ ~task[t].whole => manager = cfg
  /\ task[t].at = "refresh" \/ ~task[t].whole => store = cfg
  /\ ~task[t].whole => task[t].at \in {"stop", "forget", "create", "equip", "run"}

\* No applyRuntime is under way: before the first loop, and while the daemon serves.
AtRest ==
  /\ main = "joining" => \A l \in LoopId : loop[l] = Nil
  /\ main = "joining" \/ (main = "starting" /\ cfg = given) =>
       /\ (\A t \in Thread : task[t] = Nil) => \A m \in Modes : slot[m] = Nil
       /\ manager = cfg /\ store = cfg
  /\ main = "joining" => cfg = given
  /\ main = "applying" => cfg # given
  /\ main = "serving" /\ (\A t \in Thread : task[t] = Nil) =>
       /\ slot[cfg.set.mode] # Nil /\ slot[Other(cfg.set.mode)] = Nil
       /\ loop[slot[cfg.set.mode]].tuned = cfg /\ loop[slot[cfg.set.mode]].dto = cfg
       /\ manager = cfg /\ store = cfg

\* Only one slot is in use.  A loop runs if and only if it is in a slot, but for the one
\* whose stop channel is closed and whose pointer is cleared next.
SlotsRun ==
  /\ \A m \in Modes : slot[m] = Nil \/ slot[Other(m)] = Nil
  /\ \A l \in LoopId : Running(l) => \E m \in Modes : slot[m] = l
  /\ (\A t \in Thread : task[t] # Nil => task[t].at # "forget")
       => \A m \in Modes : slot[m] # Nil => loop[slot[m]].open
  /\ \A t \in Thread : task[t] # Nil /\ task[t].at = "forget" => ~loop[Theirs(t)].open

\* A loop has one receiver; it reads, or it is in applyRuntime, or it has returned.  Once
\* the loop is stopped it reads at most once.
Carried(l) == \E t \in Thread : task[t] # Nil /\ task[t].from = l

OneReceiver ==
  /\ \A t \in Thread : task[t] # Nil /\ task[t].from # Nil => loop[task[t].from] # Nil
  /\ \A l \in LoopId : loop[l] # Nil =>
       /\ loop[l].open =>
            /\ loop[l].late = 0
            /\ loop[l].receivers <= 1
            /\ Carried(l) => loop[l].receivers = 0
       /\ ~loop[l].open => loop[l].late + loop[l].receivers <= 1

Orderly ==
  /\ ~panicked
  /\ OneAtATime
  /\ \A t \in Thread : task[t] # Nil => StageReached(t)
  /\ AtRest
  /\ SlotsRun
  /\ OneReceiver

SInv == RInv /\ (serial => Orderly)

-----------------------------------------------------------------------------
(* What the invariant says when one goroutine is at work.                  *)

LEMMA ModesTwo ==
  ASSUME NEW m \in Modes
  PROVE  Other(m) \in Modes /\ Other(m) # m /\ Other(Other(m)) = m /\ Modes = {m, Other(m)}
BY DEF Modes, Other, ModePingAck, ModeGossip

LEMMA ModeInForce ==
  ASSUME RInv
  PROVE  cfg.set.mode \in Modes
BY DEF RInv, TypeOK, Config, Settings

\* The others have nothing to do, and t is about the configuration in force.
LEMMA TheTask ==
  ASSUME RInv, Orderly, NEW t \in Thread, task[t] # Nil
  PROVE  /\ \A u \in Thread \ {t} : task[u] = Nil
         /\ task[t] \in Work
         /\ task[t].next = cfg
         /\ Mine(t) = slot[cfg.set.mode] /\ Theirs(t) = slot[Other(cfg.set.mode)]
         /\ Mine(t) # Nil => Mine(t) \in LoopId /\ loop[Mine(t)] \in Loop
         /\ Theirs(t) # Nil => Theirs(t) \in LoopId /\ loop[Theirs(t)] \in Loop
         /\ StageReached(t)
BY WorkAtHand DEF Orderly, OneAtATime, Mine, Theirs

\* t goes on to p; the others still have nothing to do.
LEMMA TaskProceeds ==
  ASSUME RInv, NEW t \in Thread, task[t] # Nil, NEW p \in Accesses, Proceed(t, p)
  PROVE  /\ task'[t] # Nil
         /\ task'[t].at = p
         /\ task'[t].next = task[t].next /\ task'[t].restart = task[t].restart
         /\ task'[t].whole = task[t].whole /\ task'[t].from = task[t].from
         /\ \A u \in Thread \ {t} : task'[u] = task[u]
<1> DEFINE w == [task[t] EXCEPT !.at = p]
<1>1. task[t] \in Work
  BY DEF RInv, TypeOK
<1>2. w \in Work
  BY <1>1 DEF Work, Accesses
<1>3. /\ w.at = p
      /\ w.next = task[t].next /\ w.restart = task[t].restart
      /\ w.whole = task[t].whole /\ w.from = task[t].from
  BY <1>1 DEF Work
<1>4. task \in [Thread -> Work \cup {Nil}] /\ task' = [task EXCEPT ![t] = w]
  BY DEF Proceed, RInv, TypeOK
<1> HIDE DEF w
<1>5. task'[t] = w /\ \A u \in Thread \ {t} : task'[u] = task[u]
  BY <1>4
<1> QED BY <1>2, <1>3, <1>5, NilAssumption

\* The invariant after an access that t goes on from.
LEMMA GoesOn ==
  ASSUME RInv, Orderly, NEW t \in Thread, task[t] # Nil, NEW p \in Accesses, Proceed(t, p),
         UNCHANGED <<cfg, given, main, panicked>>,
         StageReached(t)', SlotsRun', OneReceiver'
  PROVE  Orderly'
<1>1. /\ \A u \in Thread \ {t} : task'[u] = Nil
      /\ task'[t] # Nil
      /\ task'[t].next = task[t].next /\ task'[t].whole = task[t].whole
  BY TheTask, TaskProceeds
<1>2. OneAtATime'
  BY <1>1 DEF Orderly, OneAtATime
<1>3. \A u \in Thread : task'[u] # Nil => StageReached(u)'
  BY <1>1
<1>4. AtRest'
  <2>1. main \in {"applying", "starting", "serving"} /\ (main = "starting" => ~task[t].whole)
    BY DEF Orderly, OneAtATime
  <2>2. main = "starting" => manager' = cfg' /\ store' = cfg'
    BY <1>1, <2>1 DEF StageReached
  <2> QED BY <1>1, <2>1, <2>2 DEF Orderly, AtRest
<1> QED BY <1>2, <1>3, <1>4 DEF Orderly

\* Loops, receivers and slots when the receivers are left alone.
LEMMA ReceiversKept ==
  ASSUME RInv, Orderly, NEW t \in Thread, task[t] # Nil, NEW p \in Accesses, Proceed(t, p),
         \A l \in LoopId : loop[l] # Nil =>
           /\ loop'[l] # Nil
           /\ loop'[l].receivers = loop[l].receivers /\ loop'[l].late = loop[l].late
           /\ loop'[l].open => loop[l].open,
         \A l \in LoopId : loop[l] = Nil /\ loop'[l] # Nil =>
           loop'[l].open /\ loop'[l].receivers = 0 /\ loop'[l].late = 0
  PROVE  OneReceiver'
<1>1. /\ \A u \in Thread \ {t} : task[u] = Nil /\ task'[u] = Nil
      /\ task'[t] # Nil /\ task'[t].from = task[t].from
  BY TheTask, TaskProceeds
<1>2. task[t].from \in LoopId \cup {Nil}
  BY TheTask DEF Work
<1>3. \A u \in Thread : task'[u] # Nil /\ task'[u].from # Nil => loop'[task'[u].from] # Nil
  BY <1>1, <1>2 DEF Orderly, OneReceiver
<1>4. \A l \in LoopId : Carried(l)' => Carried(l)
  BY <1>1 DEF Carried
<1>5. \A l \in LoopId : loop[l] # Nil =>
        loop[l].receivers \in Nat /\ loop[l].late \in Nat
  BY DEF RInv, TypeOK, Loop
<1>6. ASSUME NEW l \in LoopId, loop'[l] # Nil
      PROVE  /\ loop'[l].open =>
                  /\ loop'[l].late = 0
                  /\ loop'[l].receivers <= 1
                  /\ Carried(l)' => loop'[l].receivers = 0
             /\ ~loop'[l].open => loop'[l].late + loop'[l].receivers <= 1
  <2>1. CASE loop[l] = Nil
    BY <1>6, <2>1
  <2>2. CASE loop[l] # Nil
    BY <1>4, <1>5, <2>2 DEF Orderly, OneReceiver
  <2> QED BY <2>1, <2>2
<1> QED BY <1>3, <1>6 DEF OneReceiver

LEMMA SlotsKept ==
  ASSUME RInv, Orderly, NEW t \in Thread, task[t] # Nil, NEW p \in Accesses, Proceed(t, p),
         task[t].at # "forget", p # "forget", UNCHANGED slot,
         \A l \in LoopId : loop[l] = Nil => loop'[l] = Nil,
         \A l \in LoopId : loop[l] # Nil => loop'[l] # Nil /\ loop'[l].open = loop[l].open
  PROVE  SlotsRun'
<1>1. /\ \A u \in Thread \ {t} : task[u] = Nil /\ task'[u] = Nil
      /\ task'[t] # Nil /\ task'[t].at = p
  BY TheTask, TaskProceeds
<1>2. \A l \in LoopId : Running(l)' => Running(l)
  BY DEF Running
<1>3. \A m \in Modes : slot[m] # Nil => slot[m] \in LoopId /\ loop[slot[m]] # Nil
  BY DEF RInv, TypeOK, Sources
<1>4. \A m \in Modes : slot[m] # Nil => loop[slot[m]].open
  BY <1>1 DEF Orderly, SlotsRun
<1>5. \A m \in Modes : slot'[m] # Nil => loop'[slot'[m]].open
  BY <1>3, <1>4
<1> QED BY <1>1, <1>2, <1>5 DEF Orderly, SlotsRun

-----------------------------------------------------------------------------
(* One lemma per access.                                                   *)

LEMMA DecideOrderly ==
  ASSUME RInv, Orderly, NEW t \in Thread, Decide(t)
  PROVE  Orderly'
<1> DEFINE p == IF task[t].restart \/ Mine(t) = Nil THEN "stop" ELSE "tune"
<1>1. /\ task[t] # Nil /\ task[t].at = "decide" /\ p \in Accesses /\ p # "forget"
      /\ Proceed(t, p) /\ UNCHANGED <<cfg, given, main, panicked, slot, loop, manager, store>>
  BY DEF Decide, At, RunUnchanged, Accesses
<1>2. /\ Mine(t)' = Mine(t) /\ Theirs(t)' = Theirs(t)
      /\ task'[t].at = p /\ task'[t].whole = task[t].whole
  BY <1>1, TaskProceeds DEF Mine, Theirs
<1>3. task[t].whole /\ (p = "stop" => Mine(t) = Nil)
                    /\ (p = "tune" => Mine(t) # Nil /\ Theirs(t) = Nil)
  BY <1>1, TheTask DEF StageReached, Work
<1>4. p \in {"stop", "tune"}
  OBVIOUS
<1> HIDE DEF p
<1>5. StageReached(t)'
  BY <1>2, <1>3, <1>4 DEF StageReached
<1>6. SlotsRun' /\ OneReceiver'
  BY <1>1, SlotsKept, ReceiversKept
<1> QED BY <1>1, <1>5, <1>6, GoesOn

LEMMA TuneOrderly ==
  ASSUME RInv, Orderly, NEW t \in Thread, Tune(t)
  PROVE  Orderly'
<1> DEFINE l == Mine(t)
<1>1. task[t] # Nil /\ task[t].at = "tune"
  BY DEF Tune, At
<1>2. /\ l # Nil /\ l \in LoopId /\ loop[l] \in Loop /\ Theirs(t) = Nil
      /\ task[t].next = cfg /\ task[t].whole
  BY <1>1, TheTask DEF StageReached, Work
<1>3. /\ loop' = [loop EXCEPT ![l].tuned = cfg]
      /\ Proceed(t, "manager") /\ UNCHANGED <<cfg, given, main, panicked, slot, manager, store>>
  BY <1>2 DEF Tune, RunUnchanged
<1>4. /\ Mine(t)' = Mine(t) /\ Theirs(t)' = Theirs(t)
      /\ task'[t].at = "manager" /\ task'[t].whole = task[t].whole
  BY <1>1, <1>3, TaskProceeds DEF Mine, Theirs, Accesses
<1> HIDE DEF l
<1>5. /\ loop'[l].tuned = cfg
      /\ \A k \in LoopId : loop[k] = Nil => loop'[k] = Nil
      /\ \A k \in LoopId : loop[k] # Nil =>
           /\ loop'[k] # Nil /\ loop'[k].open = loop[k].open
           /\ loop'[k].receivers = loop[k].receivers /\ loop'[k].late = loop[k].late
  <2>1. loop \in [LoopId -> Loop \cup {Nil}] /\ cfg \in Config
    BY DEF RInv, TypeOK
  <2>2. [loop[l] EXCEPT !.tuned = cfg] \in Loop
    BY <1>2, <2>1, LoopReconfigured
  <2>3. \A k \in LoopId : loop'[k] = IF k = l THEN [loop[l] EXCEPT !.tuned = cfg] ELSE loop[k]
    BY <1>2, <1>3, <2>1
  <2> QED BY <1>2, <2>2, <2>3, NilAssumption DEF Loop
<1>6. StageReached(t)'
  <2>1. Mine(t)' = l
    BY <1>4 DEF l
  <2> QED BY <1>2, <1>3, <1>4, <1>5, <2>1 DEF StageReached
<1>7. SlotsRun' /\ OneReceiver'
  BY <1>1, <1>3, <1>5, SlotsKept, ReceiversKept DEF Accesses
<1> QED BY <1>1, <1>3, <1>6, <1>7, GoesOn DEF Accesses

LEMMA StopOrderly ==
  ASSUME RInv, Orderly, NEW t \in Thread, Stop(t)
  PROVE  Orderly'
<1>1. /\ task[t] # Nil /\ task[t].at = "stop" /\ Mine(t) = Nil
      /\ ~task[t].whole => manager = cfg /\ store = cfg
  BY TheTask DEF Stop, At, StageReached
<1>2. Theirs(t) # Nil => loop[Theirs(t)].open
  <2>1. \A u \in Thread : task[u] # Nil => task[u].at # "forget"
    BY <1>1, TheTask
  <2>2. Theirs(t) = slot[Other(cfg.set.mode)] /\ Other(cfg.set.mode) \in Modes
    BY <1>1, TheTask, ModeInForce, ModesTwo
  <2> QED BY <2>1, <2>2 DEF Orderly, SlotsRun
<1>3. CASE Theirs(t) = Nil
  <2>1. Proceed(t, "create") /\ UNCHANGED <<cfg, given, main, panicked, slot, loop, manager, store>>
    BY <1>3 DEF Stop, RunUnchanged
  <2>2. /\ Mine(t)' = Mine(t) /\ Theirs(t)' = Theirs(t)
        /\ task'[t].at = "create" /\ task'[t].whole = task[t].whole
    BY <1>1, <2>1, TaskProceeds DEF Mine, Theirs, Accesses
  <2>3. StageReached(t)'
    BY <1>1, <1>3, <2>1, <2>2 DEF StageReached
  <2>4. SlotsRun' /\ OneReceiver'
    BY <1>1, <2>1, SlotsKept, ReceiversKept DEF Accesses
  <2> QED BY <1>1, <2>1, <2>3, <2>4, GoesOn DEF Accesses
<1>4. CASE Theirs(t) # Nil
  <2> DEFINE l == Theirs(t)
  <2>1. /\ loop' = [loop EXCEPT ![l].open = FALSE]
        /\ Proceed(t, "forget") /\ UNCHANGED <<cfg, given, main, panicked, slot, manager, store>>
    BY <1>2, <1>4 DEF Stop, RunUnchanged
  <2>2. l \in LoopId /\ loop[l] \in Loop
    BY <1>1, <1>4, TheTask
  <2>3. /\ Mine(t)' = Mine(t) /\ Theirs(t)' = Theirs(t)
        /\ task'[t].at = "forget" /\ task'[t].whole = task[t].whole
    BY <1>1, <2>1, TaskProceeds DEF Mine, Theirs, Accesses
  <2>4. \A u \in Thread \ {t} : task'[u] = Nil
    BY <1>1, <2>1, TheTask, TaskProceeds DEF Accesses
  <2>5. Theirs(t)' = l
    BY <2>3
  <2> HIDE DEF l
  <2>6. /\ ~loop'[l].open
        /\ \A k \in LoopId : loop[k] = Nil => loop'[k] = Nil
        /\ \A k \in LoopId : loop[k] # Nil =>
             /\ loop'[k] # Nil /\ (loop'[k].open => loop[k].open)
             /\ loop'[k].receivers = loop[k].receivers /\ loop'[k].late = loop[k].late
    <3>1. loop \in [LoopId -> Loop \cup {Nil}]
      BY DEF RInv, TypeOK
    <3>2. [loop[l] EXCEPT !.open = FALSE] \in Loop
      BY <2>2 DEF Loop
    <3>3. \A k \in LoopId : loop'[k] = IF k = l THEN [loop[l] EXCEPT !.open = FALSE] ELSE loop[k]
      BY <2>1, <2>2, <3>1
    <3>4. /\ loop'[l] # Nil /\ ~loop'[l].open
          /\ loop'[l].receivers = loop[l].receivers /\ loop'[l].late = loop[l].late
      BY <2>2, <3>2, <3>3, NilAssumption DEF Loop
    <3> QED BY <2>2, <3>3, <3>4, NilAssumption
  <2>7. StageReached(t)'
    BY <1>1, <1>4, <2>1, <2>3 DEF StageReached
  <2>8. OneReceiver'
    BY <1>1, <2>1, <2>6, ReceiversKept DEF Accesses
  <2>9. SlotsRun'
    <3>1. \A k \in LoopId : Running(k)' => Running(k)
      BY <2>6 DEF Running
    <3>2. /\ \A m \in Modes : slot'[m] = Nil \/ slot'[Other(m)] = Nil
          /\ \A k \in LoopId : Running(k)' => \E m \in Modes : slot'[m] = k
      BY <2>1, <3>1 DEF Orderly, SlotsRun
    <3>3. task'[t] # Nil
      BY <1>1, <2>1, TaskProceeds DEF Accesses
    <3> QED BY <2>3, <2>4, <2>5, <2>6, <3>2, <3>3 DEF SlotsRun
  <2> QED BY <1>1, <2>1, <2>7, <2>8, <2>9, GoesOn DEF Accesses
<1> QED BY <1>3, <1>4

LEMMA ForgetOrderly ==
  ASSUME RInv, Orderly, NEW t \in Thread, Forget(t)
  PROVE  Orderly'
<1>1. /\ task[t] # Nil /\ task[t].at = "forget"
      /\ Proceed(t, "create") /\ UNCHANGED <<cfg, given, main, panicked, loop, manager, store>>
      /\ slot' = [slot EXCEPT ![Other(task[t].next.set.mode)] = Nil]
  BY DEF Forget, At, RunUnchanged
<1>2. /\ task[t].next = cfg
      /\ Mine(t) = slot[cfg.set.mode] /\ Mine(t) = Nil
      /\ Theirs(t) = slot[Other(cfg.set.mode)] /\ ~loop[Theirs(t)].open
      /\ ~task[t].whole => manager = cfg /\ store = cfg
  BY <1>1, TheTask DEF StageReached, Orderly, SlotsRun
<1>3. cfg.set.mode \in Modes /\ Modes = {cfg.set.mode, Other(cfg.set.mode)}
  BY ModeInForce, ModesTwo
<1>4. \A m \in Modes : slot'[m] = Nil
  BY <1>1, <1>2, <1>3 DEF RInv, TypeOK
<1>5. /\ task'[t].at = "create" /\ task'[t].whole = task[t].whole /\ task'[t].next = cfg
      /\ task'[t] # Nil
      /\ \A u \in Thread \ {t} : task'[u] = Nil
  BY <1>1, <1>2, TheTask, TaskProceeds DEF Accesses
<1>6. StageReached(t)'
  BY <1>1, <1>2, <1>3, <1>4, <1>5 DEF StageReached, Mine, Theirs
<1>7. OneReceiver'
  BY <1>1, ReceiversKept DEF Accesses
<1>8. SlotsRun'
  <2>1. \A l \in LoopId : ~Running(l)
    <3> SUFFICES ASSUME NEW l \in LoopId, Running(l) PROVE FALSE
      OBVIOUS
    <3>1. PICK m \in Modes : slot[m] = l
      BY DEF Orderly, SlotsRun
    <3>2. l # Nil
      BY NilAssumption
    <3>3. Theirs(t) = l
      BY <1>2, <1>3, <3>1, <3>2
    <3> QED BY <1>2, <3>3 DEF Running
  <2>2. \A l \in LoopId : ~Running(l)'
    BY <1>1, <2>1 DEF Running
  <2> QED BY <1>4, <1>5, <2>2, ModesTwo DEF SlotsRun
<1> QED BY <1>1, <1>6, <1>7, <1>8, GoesOn DEF Accesses

\* The slot of the new mode was empty: no loop is lost.
LEMMA CreateOrderly ==
  ASSUME RInv, Orderly, NEW t \in Thread, Create(t)
  PROVE  Orderly'
<1> DEFINE m == cfg.set.mode
<1>1. /\ task[t] # Nil /\ task[t].at = "create"
      /\ Proceed(t, "equip") /\ UNCHANGED <<cfg, given, main, panicked, manager, store>>
  BY DEF Create, At, RunUnchanged
<1>2. /\ task[t].next = cfg /\ slot[m] = Nil /\ slot[Other(m)] = Nil
      /\ task[t] \in Work
      /\ ~task[t].whole => manager = cfg /\ store = cfg
  BY <1>1, TheTask DEF StageReached
<1>3. m \in Modes /\ Other(m) \in Modes /\ Other(m) # m /\ Modes = {m, Other(m)}
      /\ Other(Other(m)) = m
  BY ModeInForce, ModesTwo
<1>4. PICK l \in Fresh : /\ loop' = [loop EXCEPT ![l] = NewLoop(cfg)]
                        /\ slot' = [slot EXCEPT ![m] = l]
  BY <1>2 DEF Create
<1>5. l \in LoopId /\ loop[l] = Nil /\ l # Nil
  BY NilAssumption DEF Fresh
<1> HIDE DEF m
<1>6. slot'[m] = l /\ slot'[Other(m)] = Nil
  BY <1>2, <1>3, <1>4 DEF RInv, TypeOK
<1>7. /\ loop'[l] = NewLoop(cfg)
      /\ \A k \in LoopId \ {l} : loop'[k] = loop[k]
  BY <1>4, <1>5 DEF RInv, TypeOK
<1>8. /\ NewLoop(cfg).open /\ NewLoop(cfg).receivers = 0 /\ NewLoop(cfg).late = 0
      /\ NewLoop(cfg).tuned = cfg
  BY DEF NewLoop
<1>9. /\ task'[t].at = "equip" /\ task'[t].whole = task[t].whole /\ task'[t].next = cfg
      /\ task'[t].from = task[t].from /\ task'[t] # Nil
      /\ \A u \in Thread \ {t} : task'[u] = Nil
  BY <1>1, <1>2, TheTask, TaskProceeds DEF Accesses
<1>10. Mine(t)' = l /\ Theirs(t)' = Nil
  BY <1>6, <1>9 DEF Mine, Theirs, m
<1>11. task[t].from # l
  <2>1. task[t].from # Nil => loop[task[t].from] # Nil
    BY <1>1 DEF Orderly, OneReceiver
  <2> QED BY <1>5, <2>1
<1>12. StageReached(t)'
  BY <1>1, <1>2, <1>5, <1>7, <1>8, <1>9, <1>10, <1>11 DEF StageReached
<1>13. OneReceiver'
  <2>1. \A k \in LoopId : loop[k] # Nil => k # l
    BY <1>5
  <2> QED BY <1>1, <1>7, <1>8, <2>1, ReceiversKept DEF Accesses
<1>14. SlotsRun'
  <2>1. \A k \in LoopId \ {l} : ~Running(k)'
    <3> SUFFICES ASSUME NEW k \in LoopId \ {l}, Running(k)' PROVE FALSE
      OBVIOUS
    <3>1. Running(k)
      BY <1>7 DEF Running
    <3>2. PICK n \in Modes : slot[n] = k
      BY <3>1 DEF Orderly, SlotsRun
    <3> QED BY <1>2, <1>3, <3>2, NilAssumption DEF m
  <2>2. \A k \in LoopId : Running(k)' => \E n \in Modes : slot'[n] = k
    BY <1>3, <1>6, <2>1
  <2>3. \A n \in Modes : slot'[n] = Nil \/ slot'[Other(n)] = Nil
    BY <1>3, <1>6
  <2>4. \A n \in Modes : slot'[n] # Nil => loop'[slot'[n]].open
    BY <1>3, <1>6, <1>7, <1>8
  <2> QED BY <1>9, <2>2, <2>3, <2>4 DEF SlotsRun
<1> QED BY <1>1, <1>12, <1>13, <1>14, GoesOn DEF Accesses

LEMMA EquipOrderly ==
  ASSUME RInv, Orderly, NEW t \in Thread, Equip(t)
  PROVE  Orderly'
<1> DEFINE l == Mine(t)
<1>1. task[t] # Nil /\ task[t].at = "equip"
  BY DEF Equip, At
<1>2. /\ l # Nil /\ l \in LoopId /\ loop[l] \in Loop /\ Theirs(t) = Nil
      /\ task[t].next = cfg /\ loop[l].tuned = cfg
      /\ loop[l].receivers = 0 /\ task[t].from # l
      /\ ~task[t].whole => manager = cfg /\ store = cfg
  BY <1>1, TheTask DEF StageReached
<1>3. /\ loop' = [loop EXCEPT ![l].dto = ToDTO(cfg), ![l].wired = TRUE]
      /\ Proceed(t, "run") /\ UNCHANGED <<cfg, given, main, panicked, slot, manager, store>>
  BY <1>2 DEF Equip, RunUnchanged
<1>4. /\ Mine(t)' = Mine(t) /\ Theirs(t)' = Theirs(t)
      /\ task'[t].at = "run" /\ task'[t].whole = task[t].whole
      /\ task'[t].from = task[t].from
  BY <1>1, <1>3, TaskProceeds DEF Mine, Theirs, Accesses
<1> DEFINE q == [[loop[l] EXCEPT !.dto = ToDTO(cfg)] EXCEPT !.wired = TRUE]
<1>5. Mine(t)' = l
  BY <1>4
<1> HIDE DEF l
<1>6. q \in Loop /\ q.dto = cfg /\ q.tuned = loop[l].tuned /\ q.open = loop[l].open
      /\ q.receivers = loop[l].receivers /\ q.late = loop[l].late
  <2>1. cfg \in Config
    BY DEF RInv, TypeOK
  <2>2. q \in Loop /\ q.dto = cfg
    BY <1>2, <2>1, LoopReconfigured
  <2> QED BY <1>2, <2>2 DEF Loop
<1>7. loop'[l] = q /\ \A k \in LoopId \ {l} : loop'[k] = loop[k]
  BY <1>2, <1>3 DEF RInv, TypeOK
<1> HIDE DEF q
<1>8. /\ \A k \in LoopId : loop[k] = Nil => loop'[k] = Nil
      /\ \A k \in LoopId : loop[k] # Nil =>
           /\ loop'[k] # Nil /\ loop'[k].open = loop[k].open
           /\ loop'[k].receivers = loop[k].receivers /\ loop'[k].late = loop[k].late
  BY <1>2, <1>6, <1>7, NilAssumption
<1>9. StageReached(t)'
  BY <1>2, <1>3, <1>4, <1>5, <1>6, <1>7 DEF StageReached
<1>10. SlotsRun' /\ OneReceiver'
  BY <1>1, <1>3, <1>8, SlotsKept, ReceiversKept DEF Accesses
<1> QED BY <1>1, <1>3, <1>9, <1>10, GoesOn DEF Accesses

LEMMA ReconfigureManagerOrderly ==
  ASSUME RInv, Orderly, NEW t \in Thread, ReconfigureManager(t)
  PROVE  Orderly'
<1>1. /\ task[t] # Nil /\ task[t].at = "manager"
      /\ Proceed(t, "store") /\ UNCHANGED <<cfg, given, main, panicked, slot, loop, store>>
      /\ manager' = task[t].next
  BY DEF ReconfigureManager, At, RunUnchanged
<1>2. task[t].next = cfg /\ StageReached(t)
  BY <1>1, TheTask
<1>3. /\ Mine(t)' = Mine(t) /\ Theirs(t)' = Theirs(t)
      /\ task'[t].at = "store" /\ task'[t].whole = task[t].whole
  BY <1>1, TaskProceeds DEF Mine, Theirs, Accesses
<1>4. StageReached(t)'
  BY <1>1, <1>2, <1>3 DEF StageReached
<1>5. SlotsRun' /\ OneReceiver'
  BY <1>1, SlotsKept, ReceiversKept DEF Accesses
<1> QED BY <1>1, <1>4, <1>5, GoesOn DEF Accesses

LEMMA ReconfigureStoreOrderly ==
  ASSUME RInv, Orderly, NEW t \in Thread, ReconfigureStore(t)
  PROVE  Orderly'
<1>1. /\ task[t] # Nil /\ task[t].at = "store"
      /\ Proceed(t, "refresh") /\ UNCHANGED <<cfg, given, main, panicked, slot, loop, manager>>
      /\ store' = task[t].next
  BY DEF ReconfigureStore, At, RunUnchanged
<1>2. task[t].next = cfg /\ StageReached(t)
  BY <1>1, TheTask
<1>3. /\ Mine(t)' = Mine(t) /\ Theirs(t)' = Theirs(t)
      /\ task'[t].at = "refresh" /\ task'[t].whole = task[t].whole
  BY <1>1, TaskProceeds DEF Mine, Theirs, Accesses
<1>4. StageReached(t)'
  BY <1>1, <1>2, <1>3 DEF StageReached
<1>5. SlotsRun' /\ OneReceiver'
  BY <1>1, SlotsKept, ReceiversKept DEF Accesses
<1> QED BY <1>1, <1>4, <1>5, GoesOn DEF Accesses

-----------------------------------------------------------------------------
(* Accesses after which the goroutine may have nothing left to do.         *)

LEMMA TaskEnds ==
  ASSUME RInv, Orderly, NEW t \in Thread, task[t] # Nil, task' = [task EXCEPT ![t] = Nil]
  PROVE  \A u \in Thread : task'[u] = Nil
BY TheTask DEF RInv, TypeOK

\* Nobody is about to clear a pointer, before or after.
LEMMA SlotsStay ==
  ASSUME RInv, Orderly,
         \A u \in Thread : task[u] # Nil => task[u].at # "forget",
         \A u \in Thread : task'[u] # Nil => task'[u].at # "forget",
         UNCHANGED slot,
         \A l \in LoopId : loop[l] = Nil => loop'[l] = Nil,
         \A l \in LoopId : loop[l] # Nil => loop'[l] # Nil /\ loop'[l].open = loop[l].open
  PROVE  SlotsRun'
<1>1. \A l \in LoopId : Running(l)' => Running(l)
  BY DEF Running
<1>2. \A m \in Modes : slot[m] # Nil => slot[m] \in LoopId /\ loop[slot[m]] # Nil
  BY DEF RInv, TypeOK, Sources
<1>3. \A m \in Modes : slot'[m] # Nil => loop'[slot'[m]].open
  BY <1>2 DEF Orderly, SlotsRun
<1> QED BY <1>1, <1>3 DEF Orderly, SlotsRun

\* The daemon serves and nobody is in applyRuntime.
LEMMA Serves ==
  ASSUME \A u \in Thread : task'[u] = Nil, main' = "serving", ~panicked',
         slot'[cfg'.set.mode] # Nil, slot'[Other(cfg'.set.mode)] = Nil,
         loop'[slot'[cfg'.set.mode]].tuned = cfg', loop'[slot'[cfg'.set.mode]].dto = cfg',
         manager' = cfg', store' = cfg', SlotsRun', OneReceiver'
  PROVE  Orderly'
<1>1. OneAtATime' /\ AtRest'
  BY DEF OneAtATime, AtRest
<1> QED BY <1>1 DEF Orderly

\* The loop that is run had no receiver and is nobody's own loop.
LEMMA RunLoopOrderly ==
  ASSUME RInv, Orderly, NEW t \in Thread, RunLoop(t)
  PROVE  Orderly'
<1> DEFINE l == Mine(t)
<1>1. task[t] # Nil /\ task[t].at = "run"
  BY DEF RunLoop, At
<1>2. /\ l # Nil /\ l \in LoopId /\ loop[l] \in Loop /\ Theirs(t) = Nil
      /\ task[t].next = cfg /\ loop[l].tuned = cfg /\ loop[l].dto = cfg
      /\ loop[l].receivers = 0 /\ task[t].from # l
      /\ ~task[t].whole => manager = cfg /\ store = cfg
      /\ l = slot[cfg.set.mode] /\ Theirs(t) = slot[Other(cfg.set.mode)]
      /\ \A u \in Thread \ {t} : task[u] = Nil
  BY <1>1, TheTask DEF StageReached
<1>3. /\ loop' = [loop EXCEPT ![l].receivers = @ + 1, ![l].senders = @ + 1]
      /\ UNCHANGED <<cfg, given, panicked, slot, manager, store>>
  BY <1>2 DEF RunLoop
<1>4. \A u \in Thread : task[u] # Nil => task[u].at # "forget"
  BY <1>1, <1>2
<1>5. loop[l].open /\ loop[l].late = 0
  <2>1. loop[l].open
    BY <1>2, <1>4, ModeInForce DEF Orderly, SlotsRun
  <2> QED BY <1>2, <2>1, NilAssumption DEF Orderly, OneReceiver
<1>6. ~Carried(l)
  BY <1>2 DEF Carried
<1> HIDE DEF l
<1> DEFINE q == [[loop[l] EXCEPT !.receivers = loop[l].receivers + 1]
                          EXCEPT !.senders = loop[l].senders + 1]
<1>7. /\ q \in Loop /\ q.dto = cfg /\ q.tuned = cfg
      /\ q.open = loop[l].open /\ q.late = 0 /\ q.receivers = 1
  <2>1. q \in Loop
    BY <1>2, LoopStaffed
  <2>2. q.dto = loop[l].dto /\ q.tuned = loop[l].tuned /\ q.open = loop[l].open
        /\ q.late = loop[l].late /\ q.receivers = loop[l].receivers + 1
    BY <1>2 DEF Loop
  <2> HIDE DEF q
  <2> QED BY <1>2, <1>5, <2>1, <2>2
<1>8. loop'[l] = q /\ \A k \in LoopId \ {l} : loop'[k] = loop[k]
  BY <1>2, <1>3 DEF RInv, TypeOK
<1> HIDE DEF q
<1>9. /\ \A k \in LoopId : loop[k] = Nil => loop'[k] = Nil
      /\ \A k \in LoopId : loop[k] # Nil => loop'[k] # Nil /\ loop'[k].open = loop[k].open
  BY <1>2, <1>5, <1>7, <1>8, NilAssumption
<1>10. ASSUME \A u \in Thread : task'[u] # Nil => task[u] # Nil /\ task'[u].from = task[u].from
       PROVE  OneReceiver'
  <2>1. \A k \in LoopId : Carried(k)' => Carried(k)
    BY <1>10 DEF Carried
  <2>2. \A u \in Thread : task'[u] # Nil /\ task'[u].from # Nil => loop'[task'[u].from] # Nil
    <3>1. \A u \in Thread : task[u] # Nil => task[u].from \in LoopId \cup {Nil}
      BY DEF RInv, TypeOK, Work
    <3> QED BY <1>9, <1>10, <3>1 DEF Orderly, OneReceiver
  <2>3. ASSUME NEW k \in LoopId, loop'[k] # Nil
        PROVE  /\ loop'[k].open =>
                    /\ loop'[k].late = 0
                    /\ loop'[k].receivers <= 1
                    /\ Carried(k)' => loop'[k].receivers = 0
               /\ ~loop'[k].open => loop'[k].late + loop'[k].receivers <= 1
    <3>1. CASE k = l
      BY <1>6, <1>7, <1>8, <2>1, <3>1
    <3>2. CASE k # l
      BY <1>8, <2>1, <2>3, <3>2 DEF Orderly, OneReceiver
    <3> QED BY <3>1, <3>2
  <2> QED BY <2>2, <2>3 DEF OneReceiver
<1>11. CASE task[t].whole
  <2>1. Proceed(t, "manager") /\ UNCHANGED main
    BY <1>2, <1>11 DEF RunLoop, l
  <2>2. /\ Mine(t)' = l /\ Theirs(t)' = Nil
        /\ task'[t].at = "manager" /\ task'[t].whole = task[t].whole
        /\ task'[t].from = task[t].from
        /\ \A u \in Thread \ {t} : task'[u] = task[u]
    BY <1>1, <1>2, <1>3, <2>1, TaskProceeds DEF Mine, Theirs, Accesses, l
  <2>3. StageReached(t)'
    BY <1>2, <1>3, <1>7, <1>8, <1>11, <2>2 DEF StageReached
  <2>4. OneReceiver'
    BY <1>1, <1>10, <2>2
  <2>5. SlotsRun'
    BY <1>1, <1>3, <1>9, <2>1, SlotsKept DEF Accesses
  <2> QED BY <1>1, <1>3, <2>1, <2>3, <2>4, <2>5, GoesOn DEF Accesses
<1>12. CASE ~task[t].whole
  <2>1. task' = [task EXCEPT ![t] = Nil] /\ main' = "serving"
    BY <1>2, <1>12 DEF RunLoop, l
  <2>2. \A u \in Thread : task'[u] = Nil
    BY <1>1, <2>1, TaskEnds
  <2>3. OneReceiver' /\ SlotsRun'
    BY <1>3, <1>4, <1>9, <1>10, <2>2, SlotsStay
  <2>4. /\ slot'[cfg'.set.mode] = l /\ slot'[Other(cfg'.set.mode)] = Nil
        /\ loop'[l].tuned = cfg' /\ loop'[l].dto = cfg'
        /\ manager' = cfg' /\ store' = cfg' /\ ~panicked'
    BY <1>2, <1>3, <1>7, <1>8, <1>12 DEF Orderly
  <2> QED BY <1>2, <2>1, <2>2, <2>3, <2>4, Serves
<1> QED BY <1>11, <1>12

\* applyRuntime returns: to Run, to a handler, or to the receiver it began in, which reads
\* on only if its own loop was not stopped.
LEMMA RefreshOrderly ==
  ASSUME RInv, Orderly, NEW t \in Thread, Refresh(t)
  PROVE  Orderly'
<1> DEFINE back(l) == IF task[t].from = l /\ loop[l].open THEN 1 ELSE 0
           held(l) == \E m \in Modes : slot[m] = l
           d(l) == IF held(l) THEN ToDTO(task[t].next) ELSE loop[l].dto
           s == slot[cfg.set.mode]
<1>1. /\ task[t] # Nil /\ task[t].at = "refresh"
      /\ loop' = [l \in LoopId |->
                    IF loop[l] = Nil THEN Nil
                    ELSE [loop[l] EXCEPT !.dto = IF held(l) THEN ToDTO(task[t].next) ELSE @,
                                         !.receivers = @ + back(l)]]
      /\ task' = [task EXCEPT ![t] = Nil]
      /\ main' = IF t = "main" THEN "starting" ELSE main
      /\ UNCHANGED <<cfg, given, slot, manager, store, panicked>>
  BY DEF Refresh, At
<1>2. /\ task[t].next = cfg /\ task[t].whole
      /\ s # Nil /\ s \in LoopId /\ loop[s] # Nil
      /\ slot[Other(cfg.set.mode)] = Nil /\ loop[s].tuned = cfg
      /\ manager = cfg /\ store = cfg
      /\ \A u \in Thread \ {t} : task[u] = Nil
  <2>1. task[t] # Nil /\ task[t].at = "refresh"
    BY <1>1
  <2>2. task[t] \in Work /\ task[t].next = cfg /\ StageReached(t)
        /\ Mine(t) = s /\ Theirs(t) = slot[Other(cfg.set.mode)]
        /\ (Mine(t) # Nil => Mine(t) \in LoopId /\ loop[Mine(t)] \in Loop)
        /\ \A u \in Thread \ {t} : task[u] = Nil
    BY <2>1, TheTask
  <2> HIDE DEF s
  <2> QED BY <2>1, <2>2, NilAssumption DEF StageReached, Work
<1>3. ASSUME NEW l \in LoopId, loop[l] # Nil
      PROVE  /\ loop'[l] # Nil
             /\ loop'[l].dto = d(l) /\ loop'[l].receivers = loop[l].receivers + back(l)
             /\ loop'[l].open = loop[l].open /\ loop'[l].late = loop[l].late
             /\ loop'[l].tuned = loop[l].tuned
  <2> DEFINE n == loop[l].receivers + back(l)
             q == [[loop[l] EXCEPT !.dto = d(l)] EXCEPT !.receivers = n]
  <2>1. loop[l] \in Loop
    BY <1>3 DEF RInv, TypeOK
  <2>2. d(l) \in ConfigDTO /\ n \in Nat
    <3>1. loop[l].dto \in ConfigDTO /\ loop[l].receivers \in Nat
      BY <2>1 DEF Loop
    <3>2. ToDTO(task[t].next) \in ConfigDTO
      BY <1>1, WorkAtHand, ConfigIsDTO
    <3> QED BY <3>1, <3>2
  <2>3. loop'[l] = q
    BY <1>1, <1>3
  <2> HIDE DEF d, n
  <2>4. q \in Loop /\ q.dto = d(l) /\ q.receivers = n /\ q.open = loop[l].open
        /\ q.late = loop[l].late /\ q.tuned = loop[l].tuned
    BY <2>1, <2>2 DEF Loop
  <2> HIDE DEF q
  <2> QED BY <2>3, <2>4, NilAssumption DEF n
<1>4. \A l \in LoopId : loop[l] = Nil => loop'[l] = Nil
  BY <1>1
<1>5. \A u \in Thread : task'[u] = Nil
  BY <1>1, TaskEnds
<1>6. SlotsRun'
  <2>1. /\ \A u \in Thread : task[u] # Nil => task[u].at # "forget"
        /\ UNCHANGED slot
    BY <1>1, <1>2
  <2> QED BY <1>3, <1>4, <1>5, <2>1, SlotsStay, SMTT(20)
<1>7. OneReceiver'
  <2>1. ASSUME NEW l \in LoopId, loop'[l] # Nil
        PROVE  /\ loop'[l].open => loop'[l].late = 0 /\ loop'[l].receivers <= 1
               /\ ~loop'[l].open => loop'[l].late + loop'[l].receivers <= 1
    <3>1. loop[l] # Nil
      BY <1>4, <2>1
    <3>2. loop[l].receivers \in Nat /\ loop[l].late \in Nat
      BY <3>1 DEF RInv, TypeOK, Loop
    <3>3. CASE task[t].from = l /\ loop[l].open
      <4>1. loop[l].receivers = 0 /\ loop[l].late = 0
        BY <1>1, <3>1, <3>3 DEF Orderly, OneReceiver, Carried
      <4> QED BY <1>3, <3>1, <3>3, <4>1
    <3>4. CASE ~(task[t].from = l /\ loop[l].open)
      <4>1. loop'[l].receivers = loop[l].receivers
        BY <1>3, <3>1, <3>2, <3>4
      <4> QED BY <1>3, <3>1, <4>1 DEF Orderly, OneReceiver
    <3> QED BY <3>3, <3>4
  <2> QED BY <1>5, <2>1 DEF OneReceiver, Carried
<1>8. /\ loop'[s].tuned = cfg /\ loop'[s].dto = cfg
  <2>1. held(s)
    BY ModeInForce
  <2> QED BY <1>2, <1>3, <2>1 DEF ToDTO
<1> HIDE DEF d, back, held, s
<1>9. CASE t = "main"
  <2>1. main = "applying" /\ cfg # given
    BY <1>1, <1>2, <1>9 DEF Orderly, OneAtATime, AtRest
  <2>2. main' = "starting" /\ cfg' # given'
    BY <1>1, <1>9, <2>1
  <2>3. OneAtATime' /\ AtRest'
    BY <1>5, <2>2 DEF OneAtATime, AtRest
  <2> QED BY <1>1, <1>5, <1>6, <1>7, <2>3 DEF Orderly
<1>10. CASE t # "main"
  <2>1. main' = "serving"
    BY <1>1, <1>10 DEF Orderly, OneAtATime
  <2> QED BY <1>1, <1>2, <1>5, <1>6, <1>7, <1>8, <2>1, Serves DEF Orderly, s
<1> QED BY <1>9, <1>10

-----------------------------------------------------------------------------
(* Steps that begin something, and those of receivers and senders.         *)

LEMMA InitOrderly ==
  ASSUME Init
  PROVE  Orderly
BY DEF Init, Orderly, OneAtATime, AtRest, SlotsRun, OneReceiver, Running

\* Before the first loop nobody is at work.
LEMMA NobodyYet ==
  ASSUME RInv, Orderly, main \in {"joining", "starting"}, task["main"] = Nil
  PROVE  \A u \in Thread : task[u] = Nil
BY DEF Orderly, OneAtATime

\* The work that applyRuntime(prev, c) begins with.
LEMMA TaskBegins ==
  ASSUME RInv, NEW t \in Thread, NEW c \in Config, NEW from \in LoopId \cup {Nil},
         \A u \in Thread : task[u] = Nil,
         task' = [task EXCEPT ![t] = ApplyRuntime(cfg, c, from)]
  PROVE  /\ task'[t] # Nil
         /\ task'[t].at = "decide" /\ task'[t].next = c /\ task'[t].whole
         /\ task'[t].from = from
         /\ task'[t].restart = (cfg.set.mode # c.set.mode)
         /\ \A u \in Thread \ {t} : task'[u] = Nil
<1> DEFINE w == ApplyRuntime(cfg, c, from)
<1>1. w \in Work
  BY ApplyRuntimeIsWork DEF RInv, TypeOK
<1>2. /\ w.at = "decide" /\ w.next = c /\ w.whole /\ w.from = from
      /\ w.restart = (cfg.set.mode # c.set.mode)
  BY DEF ApplyRuntime
<1>3. task' = [task EXCEPT ![t] = w] /\ task \in [Thread -> Work \cup {Nil}]
  BY DEF RInv, TypeOK
<1> HIDE DEF w
<1>4. task'[t] = w /\ \A u \in Thread \ {t} : task'[u] = task[u]
  BY <1>3
<1> QED BY <1>1, <1>2, <1>4, NilAssumption

LEMMA JoinApplyOrderly ==
  ASSUME RInv, Orderly, NEW dto \in ConfigDTO, JoinApply(dto)
  PROVE  Orderly'
<1> DEFINE c == ApplyRemote(cfg, dto)
<1>1. /\ main = "joining" /\ cfg = given /\ \A l \in LoopId : loop[l] = Nil
      /\ manager = cfg /\ store = cfg
      /\ UNCHANGED <<given, slot, loop, manager, store, panicked>>
  BY DEF JoinApply, Orderly, AtRest
<1>2. \A u \in Thread : task[u] = Nil
  BY <1>1 DEF Orderly, OneAtATime
<1>3. \A m \in Modes : slot[m] = Nil
  BY <1>1, <1>2 DEF Orderly, AtRest
<1>4. CASE c = cfg
  <2>1. main' = "starting" /\ UNCHANGED <<cfg, task>>
    BY <1>4 DEF JoinApply
  <2>2. OneAtATime' /\ AtRest'
    BY <1>1, <1>2, <1>3, <2>1 DEF OneAtATime, AtRest
  <2>3. SlotsRun' /\ OneReceiver'
    BY <1>1, <1>2, <1>3, <2>1 DEF SlotsRun, OneReceiver, Running
  <2> QED BY <1>1, <1>2, <2>1, <2>2, <2>3 DEF Orderly
<1>5. CASE c # cfg
  <2>1. /\ cfg' = c /\ main' = "applying"
        /\ task' = [task EXCEPT !["main"] = ApplyRuntime(cfg, c, Nil)]
    BY <1>5 DEF JoinApply, Commit
  <2>2. c \in Config
    BY RemoteType DEF RInv, TypeOK
  <2> HIDE DEF c
  <2>3. /\ task'["main"] # Nil
        /\ task'["main"].at = "decide" /\ task'["main"].next = c /\ task'["main"].whole
        /\ task'["main"].from = Nil
        /\ \A u \in Thread \ {"main"} : task'[u] = Nil
    BY <1>2, <2>1, <2>2, TaskBegins DEF Thread
  <2>4. c.set.mode \in Modes /\ Other(c.set.mode) \in Modes
    BY <2>2, ModesTwo DEF Config, Settings
  <2>5. StageReached("main")'
    BY <1>1, <1>3, <2>3, <2>4 DEF StageReached, Mine, Theirs
  <2>6. OneAtATime' /\ AtRest'
    BY <1>1, <1>5, <2>1, <2>3 DEF OneAtATime, AtRest, Thread
  <2>7. SlotsRun' /\ OneReceiver'
    BY <1>1, <1>3, <2>3 DEF SlotsRun, OneReceiver, Running
  <2> QED BY <1>1, <2>3, <2>5, <2>6, <2>7 DEF Orderly
<1> QED BY <1>4, <1>5

\* Run starts the protocol of its argument, which is in force: no loop runs yet.
LEMMA RunStartsOrderly ==
  ASSUME RInv, Orderly, RunStarts, given = cfg
  PROVE  Orderly'
<1> DEFINE w == StartProtocol(given)
<1>1. /\ main = "starting" /\ task["main"] = Nil
      /\ task' = [task EXCEPT !["main"] = w]
      /\ UNCHANGED <<cfg, given, main, slot, loop, manager, store, panicked>>
  BY DEF RunStarts
<1>2. \A u \in Thread : task[u] = Nil
  BY <1>1, NobodyYet
<1>3. /\ \A m \in Modes : slot[m] = Nil
      /\ manager = cfg /\ store = cfg
  BY <1>1, <1>2 DEF Orderly, AtRest
<1>4. /\ w \in Work /\ w.at = "stop" /\ w.next = cfg /\ ~w.whole /\ w.from = Nil
  BY DEF StartProtocol, Work, RInv, TypeOK
<1>5. task \in [Thread -> Work \cup {Nil}] /\ "main" \in Thread
  BY DEF RInv, TypeOK, Thread
<1> HIDE DEF w
<1>6. task'["main"] = w /\ \A u \in Thread \ {"main"} : task'[u] = Nil
  BY <1>1, <1>2, <1>5
<1>7. w # Nil
  BY <1>4, NilAssumption
<1>8. StageReached("main")'
  BY <1>1, <1>3, <1>4, <1>6, ModeInForce, ModesTwo DEF StageReached, Mine, Theirs
<1>9. OneAtATime' /\ AtRest'
  BY <1>1, <1>3, <1>4, <1>6, <1>7 DEF OneAtATime, AtRest, Orderly
<1>10. SlotsRun' /\ OneReceiver'
  <2>1. \A u \in Thread : task'[u] # Nil => task'[u].at # "forget" /\ task'[u].from = Nil
    BY <1>4, <1>6
  <2>2. SlotsRun'
    BY <1>1, <1>2, <2>1, SlotsStay
  <2>3. \A l \in LoopId : ~Carried(l)'
    BY <2>1, NilAssumption DEF Carried
  <2> QED BY <1>1, <2>1, <2>2, <2>3 DEF Orderly, OneReceiver
<1> QED BY <1>1, <1>6, <1>8, <1>9, <1>10 DEF Orderly

\* Somebody commits c while the daemon serves and nobody is in applyRuntime; what becomes
\* of the receiver it came from is left open.
LEMMA CommitOrderly ==
  ASSUME RInv, Orderly, NEW t \in Applier, NEW c \in Config, NEW from \in LoopId \cup {Nil},
         main = "serving", \A u \in Thread : task[u] = Nil,
         cfg' = c, task' = [task EXCEPT ![t] = ApplyRuntime(cfg, c, from)],
         UNCHANGED <<given, main, slot, panicked>>,
         \A l \in LoopId : loop[l] = Nil => loop'[l] = Nil,
         \A l \in LoopId : loop[l] # Nil => loop'[l] # Nil /\ loop'[l].open = loop[l].open,
         OneReceiver'
  PROVE  Orderly'
<1>1. t \in Thread /\ t # "main"
  BY RuntimeAssumption DEF Thread
<1>2. /\ task'[t] # Nil
      /\ task'[t].at = "decide" /\ task'[t].next = c /\ task'[t].whole
      /\ task'[t].from = from
      /\ task'[t].restart = (cfg.set.mode # c.set.mode)
      /\ \A u \in Thread \ {t} : task'[u] = Nil
  BY <1>1, TaskBegins
<1>3. slot[cfg.set.mode] # Nil /\ slot[Other(cfg.set.mode)] = Nil
  BY DEF Orderly, AtRest
<1>4. cfg.set.mode \in Modes /\ c.set.mode \in Modes
  BY ModeInForce DEF Config, Settings
<1>5. StageReached(t)'
  <2>1. IF task'[t].restart THEN slot[c.set.mode] = Nil ELSE slot[Other(c.set.mode)] = Nil
    <3>1. CASE cfg.set.mode = c.set.mode
      BY <1>2, <1>3, <3>1
    <3>2. CASE cfg.set.mode # c.set.mode
      <4>1. c.set.mode = Other(cfg.set.mode)
        BY <1>4, <3>2, ModesTwo
      <4> QED BY <1>2, <1>3, <3>2, <4>1
    <3> QED BY <3>1, <3>2
  <2> QED BY <1>2, <2>1 DEF StageReached, Mine, Theirs
<1>6. OneAtATime' /\ AtRest'
  BY <1>1, <1>2 DEF OneAtATime, AtRest
<1>7. SlotsRun'
  BY <1>2, SlotsStay
<1> QED BY <1>2, <1>5, <1>6, <1>7 DEF Orderly

LEMMA AdminCommitOrderly ==
  ASSUME RInv, Orderly, NEW t \in Applier, NEW dto \in ConfigDTO, AdminCommit(t, dto),
         \A u \in Thread : task[u] = Nil
  PROVE  Orderly'
<1> DEFINE c == BumpAndApplyLocal(cfg, dto)
<1>1. /\ main = "serving" /\ cfg' = c
      /\ task' = [task EXCEPT ![t] = ApplyRuntime(cfg, c, Nil)]
      /\ UNCHANGED <<given, main, slot, loop, manager, store, panicked>>
  BY DEF AdminCommit, Commit
<1>2. c \in Config
  BY LocalType DEF RInv, TypeOK
<1> HIDE DEF c
<1>3. /\ task'[t] # Nil /\ task'[t].from = Nil
      /\ \A u \in Thread \ {t} : task'[u] = Nil
  BY <1>1, <1>2, TaskBegins DEF Thread
<1>4. OneReceiver'
  <2>1. \A l \in LoopId : ~Carried(l)'
    BY <1>3, NilAssumption DEF Carried
  <2> QED BY <1>1, <1>3, <2>1 DEF Orderly, OneReceiver
<1> QED BY <1>1, <1>2, <1>4, CommitOrderly

\* A receiver of l has read a datagram: it is in applyRuntime, or it looks at stop.
LEMMA ReadingCounted ==
  ASSUME RInv, NEW l \in LoopId, Reads(l),
         loop' = [loop EXCEPT ![l].receivers = @ - 1, ![l].late = Late(l)]
  PROVE  /\ loop'[l] # Nil /\ loop'[l].open = loop[l].open
         /\ loop'[l].receivers = loop[l].receivers - 1
         /\ loop'[l].late = IF loop[l].open THEN loop[l].late ELSE loop[l].late + 1
         /\ \A k \in LoopId \ {l} : loop'[k] = loop[k]
<1> DEFINE q == [[loop[l] EXCEPT !.receivers = loop[l].receivers - 1] EXCEPT !.late = Late(l)]
<1>1. loop[l] \in Loop /\ Late(l) \in Nat /\ loop[l].receivers - 1 \in Nat
  BY LateIsNat
<1>2. q \in Loop /\ q.open = loop[l].open /\ q.receivers = loop[l].receivers - 1
      /\ q.late = Late(l)
  BY <1>1 DEF Loop
<1>3. loop'[l] = q /\ \A k \in LoopId \ {l} : loop'[k] = loop[k]
  BY DEF RInv, TypeOK
<1> HIDE DEF q
<1> QED BY <1>2, <1>3, NilAssumption DEF Late

\* What the receivers of a loop that has been read from amount to.
LEMMA ReadingOnce ==
  ASSUME RInv, Orderly, NEW l \in LoopId, Reads(l),
         loop' = [loop EXCEPT ![l].receivers = @ - 1, ![l].late = Late(l)]
  PROVE  /\ loop'[l].open => loop'[l].late = 0 /\ loop'[l].receivers = 0 /\ ~Carried(l)
         /\ ~loop'[l].open => loop'[l].late + loop'[l].receivers <= 1
<1>1. /\ loop'[l].open = loop[l].open
      /\ loop'[l].receivers = loop[l].receivers - 1
      /\ loop'[l].late = IF loop[l].open THEN loop[l].late ELSE loop[l].late + 1
  BY ReadingCounted
<1>2. loop[l] # Nil /\ loop[l].receivers > 0
  BY DEF Reads
<1>3. loop[l].receivers \in Nat /\ loop[l].late \in Nat
  BY <1>2 DEF RInv, TypeOK, Loop
<1>4. CASE loop[l].open
  <2>1. loop[l].late = 0 /\ loop[l].receivers <= 1 /\ (Carried(l) => loop[l].receivers = 0)
    BY <1>2, <1>4 DEF Orderly, OneReceiver
  <2> QED BY <1>1, <1>2, <1>3, <1>4, <2>1
<1>5. CASE ~loop[l].open
  <2>1. loop[l].late + loop[l].receivers <= 1
    BY <1>2, <1>5 DEF Orderly, OneReceiver
  <2> QED BY <1>1, <1>3, <1>5, <2>1
<1> QED BY <1>4, <1>5

LEMMA HearNewsOrderly ==
  ASSUME RInv, Orderly, NEW t \in Applier, NEW l \in LoopId, NEW dto \in ConfigDTO,
         HearNews(t, l, dto), main \in {"joining", "serving"},
         \A u \in Thread : task[u] = Nil
  PROVE  Orderly'
<1> DEFINE c == ApplyRemote(cfg, dto)
<1>1. /\ Reads(l) /\ cfg' = c
      /\ task' = [task EXCEPT ![t] = ApplyRuntime(cfg, c, l)]
      /\ loop' = [loop EXCEPT ![l].receivers = @ - 1, ![l].late = Late(l)]
      /\ UNCHANGED <<given, main, slot, manager, store, panicked>>
  BY DEF HearNews, Commit
<1>2. c \in Config
  BY RemoteType DEF RInv, TypeOK
<1> HIDE DEF c
<1>3. main = "serving"
  BY <1>1 DEF Orderly, AtRest, Reads
<1>4. /\ loop[l] # Nil /\ loop'[l] # Nil /\ loop'[l].open = loop[l].open
      /\ \A k \in LoopId \ {l} : loop'[k] = loop[k]
  BY <1>1, ReadingCounted DEF Reads
<1>5. /\ task'[t] # Nil /\ task'[t].from = l
      /\ \A u \in Thread \ {t} : task'[u] = Nil
  BY <1>1, <1>2, TaskBegins DEF Thread
<1>6. OneReceiver'
  <2>1. \A k \in LoopId \ {l} : ~Carried(k)'
    BY <1>5 DEF Carried
  <2>2. /\ loop'[l].open => loop'[l].late = 0 /\ loop'[l].receivers = 0
        /\ ~loop'[l].open => loop'[l].late + loop'[l].receivers <= 1
    BY <1>1, ReadingOnce
  <2>3. \A k \in LoopId \ {l} : loop'[k] # Nil =>
          /\ loop'[k].open => loop'[k].late = 0 /\ loop'[k].receivers <= 1
          /\ ~loop'[k].open => loop'[k].late + loop'[k].receivers <= 1
    BY <1>4 DEF Orderly, OneReceiver
  <2> QED BY <1>4, <1>5, <2>1, <2>2, <2>3 DEF OneReceiver
<1>7. /\ \A k \in LoopId : loop[k] = Nil => loop'[k] = Nil
      /\ \A k \in LoopId : loop[k] # Nil => loop'[k] # Nil /\ loop'[k].open = loop[k].open
  BY <1>4
<1> QED BY <1>1, <1>2, <1>3, <1>6, <1>7, CommitOrderly

\* The goroutines of a stopped loop come to their end.
LEMMA LoopEndsOrderly ==
  ASSUME RInv, Orderly, NEW l \in LoopId, HearNothing(l) \/ SenderStops(l)
  PROVE  Orderly'
<1>1. /\ loop[l] # Nil /\ ~loop[l].open
      /\ UNCHANGED <<cfg, given, main, slot, task, manager, store, panicked>>
  BY DEF HearNothing, SenderStops, Reads
<1>2. /\ loop'[l] # Nil /\ loop'[l].open = loop[l].open
      /\ loop'[l].late + loop'[l].receivers <= 1
      /\ \A k \in LoopId \ {l} : loop'[k] = loop[k]
  <2>1. CASE HearNothing(l)
    <3>1. Reads(l) /\ loop' = [loop EXCEPT ![l].receivers = @ - 1, ![l].late = Late(l)]
      BY <2>1 DEF HearNothing
    <3> QED BY <1>1, <3>1, ReadingCounted, ReadingOnce
  <2>2. CASE SenderStops(l)
    <3> DEFINE q == [loop[l] EXCEPT !.senders = 0]
    <3>1. loop[l] \in Loop /\ loop \in [LoopId -> Loop \cup {Nil}]
      BY <1>1 DEF RInv, TypeOK
    <3>2. loop'[l] = q /\ \A k \in LoopId \ {l} : loop'[k] = loop[k]
      BY <2>2, <3>1 DEF SenderStops
    <3>3. q \in Loop /\ q.open = loop[l].open /\ q.receivers = loop[l].receivers
          /\ q.late = loop[l].late
      BY <3>1 DEF Loop
    <3> HIDE DEF q
    <3> QED BY <1>1, <3>2, <3>3, NilAssumption DEF Orderly, OneReceiver
  <2> QED BY <2>1, <2>2
<1>3. \A k \in LoopId : (loop'[k] # Nil <=> loop[k] # Nil) /\ loop'[k].open = loop[k].open
  BY <1>1, <1>2
<1>4. \A m \in Modes : slot[m] # Nil => slot[m] \in LoopId
  BY DEF RInv, TypeOK
<1>5. \A t \in Thread : task[t] # Nil => StageReached(t)'
  <2> SUFFICES ASSUME NEW t \in Thread, task[t] # Nil PROVE StageReached(t)'
    OBVIOUS
  <2>1. /\ StageReached(t) /\ Mine(t) = slot[cfg.set.mode] /\ cfg.set.mode \in Modes
        /\ \A u \in Thread \ {t} : task[u] = Nil
        /\ Mine(t) # Nil => Mine(t) \in LoopId
    BY TheTask, ModeInForce
  <2>2. Mine(t)' = Mine(t) /\ Theirs(t)' = Theirs(t)
    BY <1>1 DEF Mine, Theirs
  <2>3. Mine(t) # Nil => loop'[Mine(t)] = loop[Mine(t)]
    <3>1. Mine(t) # Nil => task[t].at # "forget"
      BY <2>1 DEF StageReached
    <3>2. Mine(t) # Nil => loop[Mine(t)].open
      BY <2>1, <3>1 DEF Orderly, SlotsRun
    <3> QED BY <1>1, <1>2, <2>1, <3>2
  <2> QED BY <1>1, <2>1, <2>2, <2>3 DEF StageReached
<1>6. OneAtATime'
  BY <1>1 DEF Orderly, OneAtATime
<1>7. AtRest'
  <2>1. main # "joining"
    BY <1>1 DEF Orderly, AtRest
  <2>2. ASSUME main = "serving", \A t \in Thread : task[t] = Nil
        PROVE  loop'[slot[cfg.set.mode]] = loop[slot[cfg.set.mode]]
    <3>1. slot[cfg.set.mode] # Nil /\ cfg.set.mode \in Modes
      BY <2>2, ModeInForce DEF Orderly, AtRest
    <3>2. loop[slot[cfg.set.mode]].open
      BY <2>2, <3>1 DEF Orderly, SlotsRun
    <3> QED BY <1>1, <1>2, <1>4, <3>1, <3>2
  <2> QED BY <1>1, <2>1, <2>2 DEF Orderly, AtRest
<1>8. SlotsRun'
  <2>1. \A k \in LoopId : Running(k)' => Running(k)
    BY <1>3 DEF Running
  <2>2. \A t \in Thread : task[t] # Nil /\ task[t].at = "forget" => ~loop'[Theirs(t)].open
    <3> SUFFICES ASSUME NEW t \in Thread, task[t] # Nil, task[t].at = "forget"
                 PROVE  ~loop'[Theirs(t)].open
      OBVIOUS
    <3>1. Theirs(t) \in LoopId
      BY TheTask DEF StageReached
    <3> QED BY <1>3, <3>1 DEF Orderly, SlotsRun
  <2>3. \A t \in Thread : Theirs(t)' = Theirs(t)
    BY <1>1 DEF Theirs
  <2> QED BY <1>1, <1>3, <1>4, <2>1, <2>2, <2>3 DEF Orderly, SlotsRun
<1>9. OneReceiver'
  <2>1. \A k \in LoopId : Carried(k)' = Carried(k)
    BY <1>1 DEF Carried
  <2>2. \A t \in Thread : task[t] # Nil => task[t].from \in LoopId \cup {Nil}
    BY DEF RInv, TypeOK, Work
  <2>3. \A t \in Thread : task'[t] # Nil /\ task'[t].from # Nil => loop'[task'[t].from] # Nil
    BY <1>1, <1>3, <2>2 DEF Orderly, OneReceiver
  <2> QED BY <1>1, <1>2, <2>1, <2>3 DEF Orderly, OneReceiver
<1> QED BY <1>1, <1>5, <1>6, <1>7, <1>8, <1>9 DEF Orderly

-----------------------------------------------------------------------------
(* The step as a whole.                                                    *)

LEMMA TaskStepOrderly ==
  ASSUME RInv, Orderly, NEW t \in Thread, TaskStep(t)
  PROVE  Orderly'
BY DecideOrderly, TuneOrderly, StopOrderly, ForgetOrderly, CreateOrderly, EquipOrderly,
   RunLoopOrderly, ReconfigureManagerOrderly, ReconfigureStoreOrderly, RefreshOrderly
   DEF TaskStep

LEMMA SerialStep ==
  ASSUME SInv, [SerialNext]_history
  PROVE  SInv'
<1>1. RInv'
  BY StepInvariant DEF SInv, SerialNext, history
<1>2. CASE UNCHANGED history
  <2>1. UNCHANGED vars /\ UNCHANGED serial
    BY <1>2 DEF history
  <2>2. Orderly => Orderly'
    <3>1. UNCHANGED <<cfg, given, main, slot, loop, task, manager, store, panicked>>
      BY <2>1 DEF vars
    <3>2. (OneAtATime => OneAtATime') /\ (AtRest => AtRest')
      BY <3>1 DEF OneAtATime, AtRest, Running
    <3>3. SlotsRun => SlotsRun'
      BY <3>1 DEF SlotsRun, Running, Theirs
    <3>4. OneReceiver => OneReceiver'
      BY <3>1 DEF OneReceiver, Carried
    <3>5. \A t \in Thread : StageReached(t) => StageReached(t)'
      <4>1. \A t \in Thread : Mine(t)' = Mine(t) /\ Theirs(t)' = Theirs(t)
        BY <3>1 DEF Mine, Theirs
      <4> QED BY <3>1, <4>1 DEF StageReached
    <3> QED BY <3>1, <3>2, <3>3, <3>4, <3>5 DEF Orderly
  <2> QED BY <1>1, <2>1, <2>2 DEF SInv
<1>3. ASSUME SerialNext, serial' PROVE Orderly'
  <2>1. Orderly /\ Undisturbed /\ RInv
    BY <1>3 DEF SInv, SerialNext
  <2>2. ASSUME NEW t \in Thread, TaskStep(t) PROVE Orderly'
    BY <2>1, <2>2, TaskStepOrderly
  <2>3. ASSUME NEW dto \in HeardDTO, JoinApply(dto) PROVE Orderly'
    BY <2>1, <2>3, HeardIsDTO, JoinApplyOrderly
  <2>4. CASE RunStarts
    BY <2>1, <2>4, RunStartsOrderly DEF Undisturbed
  <2>5. ASSUME NEW t \in Applier, NEW dto \in HeardDTO, AdminCommit(t, dto) PROVE Orderly'
    <3>1. cfg' # cfg
      BY <2>5 DEF AdminCommit, Commit
    <3> QED BY <2>1, <2>5, <3>1, HeardIsDTO, AdminCommitOrderly DEF Undisturbed
  <2>6. ASSUME NEW t \in Applier, NEW l \in LoopId, NEW dto \in HeardDTO, HearNews(t, l, dto)
        PROVE  Orderly'
    <3>1. cfg' # cfg
      BY <2>6 DEF HearNews, Commit
    <3> QED BY <2>1, <2>6, <3>1, HeardIsDTO, HearNewsOrderly DEF Undisturbed
  <2>7. ASSUME NEW l \in LoopId, HearNothing(l) \/ SenderStops(l) PROVE Orderly'
    BY <2>1, <2>7, LoopEndsOrderly
  <2> QED BY <1>3, <2>2, <2>3, <2>4, <2>5, <2>6, <2>7 DEF SerialNext, Next
<1> QED BY <1>1, <1>2, <1>3 DEF SInv

LEMMA SerialInvariant == FairSpec => []SInv
<1>1. SerialInit => SInv
  BY InitInvariant, InitOrderly DEF SerialInit, SInv
<1>2. SInv /\ [SerialNext]_history => SInv'
  BY SerialStep
<1> QED BY <1>1, <1>2, PTL DEF FairSpec

-----------------------------------------------------------------------------
(* What changes that do not overlap are sure of.                           *)

\* applyRuntime never closes a closed stop channel and never calls a loop through a nil
\* pointer, whoever calls it: the join, a handler, or a receiver of the loop it stops.
THEOREM SerialNeverPanics == FairSpec => []NeverPanics
<1>1. SInv => NeverPanics
  BY DEF SInv, Orderly, NeverPanics
<1> QED BY <1>1, SerialInvariant, PTL

\* After any sequence of changes of mode and knobs one loop runs, that of the mode in
\* force, and the loop, the manager and the store have the knobs in force.
THEOREM SerialFollowsConfig == FairSpec => []RuntimeFollowsConfig
<1>1. SInv => RuntimeFollowsConfig
  <2> SUFFICES ASSUME SInv, serial, Quiet PROVE RuntimeFollowsConfig
    BY DEF RuntimeFollowsConfig
  <2> DEFINE s == slot[cfg.set.mode]
  <2>1. /\ s # Nil /\ slot[Other(cfg.set.mode)] = Nil
        /\ loop[s].tuned = cfg /\ loop[s].dto = cfg
        /\ manager = cfg /\ store = cfg
    BY DEF SInv, Orderly, AtRest, Quiet
  <2>2. cfg.set.mode \in Modes /\ Modes = {cfg.set.mode, Other(cfg.set.mode)}
    BY ModeInForce, ModesTwo DEF SInv
  <2>3. s \in LoopId /\ loop[s] # Nil /\ loop[s].open
    BY <2>1, <2>2 DEF SInv, RInv, TypeOK, Sources, Orderly, SlotsRun, Quiet
  <2>4. ASSUME NEW l \in LoopId, Running(l) PROVE l = s
    <3>1. PICK m \in Modes : slot[m] = l
      BY <2>4 DEF SInv, Orderly, SlotsRun
    <3> QED BY <2>1, <2>2, <3>1, NilAssumption
  <2>5. \A l \in LoopId : Running(l) <=> l = s
    BY <2>3, <2>4 DEF Running
  <2> QED BY <2>1, <2>5 DEF RuntimeFollowsConfig
<1> QED BY <1>1, SerialInvariant, PTL

\* A stopped loop has one receiver left, blocked in Read, and it takes one datagram.
THEOREM SerialTakesOneMore == FairSpec => []StoppedLoopTakesOneMore
<1>1. SInv => StoppedLoopTakesOneMore
  <2> SUFFICES ASSUME SInv, serial, NEW l \in LoopId, loop[l] # Nil PROVE loop[l].late <= 1
    BY DEF StoppedLoopTakesOneMore
  <2>1. loop[l].late \in Nat /\ loop[l].receivers \in Nat
    BY DEF SInv, RInv, TypeOK, Loop
  <2>2. loop[l].late = 0 \/ loop[l].late + loop[l].receivers <= 1
    BY DEF SInv, Orderly, OneReceiver
  <2> QED BY <2>1, <2>2
<1> QED BY <1>1, SerialInvariant, PTL

=============================================================================
